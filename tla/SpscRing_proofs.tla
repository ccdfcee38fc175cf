-------------------------- MODULE SpscRing_proofs --------------------------
(***************************************************************************)
(* Proofs about the driver-jail ring, for every ring size N, every index   *)
(* width (IndexSpan) that is a multiple of N, and every payload set.       *)
(***************************************************************************)
EXTENDS SpscRing, Integers, TLAPS

USE DEF Indices, Slots

-----------------------------------------------------------------------------
(* Arithmetic of the wrapping indices *)

\* Multiples of n are n apart: none lies strictly between 0 and n.
LEMMA NoMultipleBetween ==
  ASSUME NEW m \in Int, NEW n \in Nat \ {0}, 0 < n * m, n * m < n
  PROVE  FALSE
<1>1. CASE m <= 0
  <2>1. n * m <= 0 BY <1>1
  <2> QED BY <2>1
<1>2. CASE m >= 1
  <2>1. n * m >= n BY <1>2
  <2> QED BY <2>1
<1> QED BY <1>1, <1>2

\* Two indices that fold onto one slot are a multiple of n apart.
LEMMA SameSlot ==
  ASSUME NEW n \in Nat \ {0}, NEW x \in Nat, NEW y \in Nat, x % n = y % n
  PROVE  \E m \in Int : y - x = n * m
<1>1. x = n * (x \div n) + (x % n) /\ (x \div n) \in Int OBVIOUS
<1>2. y = n * (y \div n) + (y % n) /\ (y \div n) \in Int OBVIOUS
<1>3. y - x = n * ((y \div n) - (x \div n)) BY <1>1, <1>2
<1>4. ((y \div n) - (x \div n)) \in Int BY <1>1, <1>2
<1> QED BY <1>3, <1>4

\* Within a window of N consecutive indices, wrapping included, every index has
\* a slot of its own: what mask() relies on.
LEMMA WindowInjective ==
  ASSUME NEW x \in Indices, NEW i \in 0..(N - 1), NEW j \in 0..(N - 1), i # j
  PROVE  mask(wrapping_add(x, i)) # mask(wrapping_add(x, j))
<1>0. N \in Nat \ {0} /\ IndexSpan \in Nat /\ IndexSpan > N BY RingAssumption
<1>1. PICK k \in Int : IndexSpan = N * k
  <2>1. IndexSpan = N * (IndexSpan \div N) + (IndexSpan % N) /\ (IndexSpan \div N) \in Int
    BY <1>0
  <2>2. IndexSpan = N * (IndexSpan \div N) BY <2>1, <1>0, RingAssumption
  <2> QED BY <2>1, <2>2
<1>2. ASSUME NEW a \in 0..(N - 1), NEW b \in 0..(N - 1), a < b,
             mask(wrapping_add(x, a)) = mask(wrapping_add(x, b))
      PROVE  FALSE
  <2> DEFINE p == wrapping_add(x, a)
             r == wrapping_add(x, b)
  <2>1. p \in Nat /\ r \in Nat BY <1>0 DEF wrapping_add
  <2>2. PICK m \in Int : r - p = N * m
    <3>1. p % N = r % N BY <1>2 DEF mask
    <3> HIDE DEF p, r
    <3> QED BY <2>1, <3>1, <1>0, SameSlot
  <2>3. r - p = b - a \/ r - p = (b - a) - IndexSpan BY <1>0, <1>2 DEF wrapping_add
  <2>4. 0 < b - a /\ b - a < N BY <1>0, <1>2
  <2> HIDE DEF p, r
  <2>5. CASE r - p = b - a
    BY <2>2, <2>4, <2>5, <1>0, NoMultipleBetween
  <2>6. CASE r - p = (b - a) - IndexSpan
    <3>1. b - a = N * (m + k) BY <2>2, <2>6, <1>1, <1>0
    <3> QED BY <3>1, <2>4, <1>0, NoMultipleBetween
  <2> QED BY <2>3, <2>5, <2>6
<1>3. CASE i < j BY <1>2, <1>3
<1>4. CASE j < i BY <1>2, <1>4
<1> QED BY <1>3, <1>4, <1>0

\* A slot number is a slot.
LEMMA MaskIsSlot ==
  ASSUME NEW x \in Nat
  PROVE  mask(x) \in Slots
BY RingAssumption DEF mask

\* Advancing an index by up to N stays an index.
LEMMA AddIsIndex ==
  ASSUME NEW x \in Indices, NEW k \in 0..N
  PROVE  wrapping_add(x, k) \in Indices
BY RingAssumption DEF wrapping_add

\* The distance from head to tail locates tail, and what is k beyond it.
LEMMA TailFromHead ==
  ASSUME NEW h \in Indices, NEW t \in Indices, NEW k \in 0..N,
         wrapping_sub(t, h) + k <= N
  PROVE  wrapping_add(t, k) = wrapping_add(h, wrapping_sub(t, h) + k)
BY RingAssumption DEF wrapping_add, wrapping_sub

\* Advancing tail lengthens the ring, as long as it stays within N.
LEMMA AdvanceTail ==
  ASSUME NEW h \in Indices, NEW t \in Indices, NEW k \in 0..N,
         wrapping_sub(t, h) + k <= N
  PROVE  wrapping_sub(wrapping_add(t, k), h) = wrapping_sub(t, h) + k
BY RingAssumption DEF wrapping_add, wrapping_sub

\* Advancing head shortens it, and shifts what is seen from it.
LEMMA AdvanceHead ==
  ASSUME NEW h \in Indices, NEW t \in Indices, NEW k \in 0..N,
         k <= wrapping_sub(t, h), wrapping_sub(t, h) <= N
  PROVE  /\ wrapping_sub(t, wrapping_add(h, k)) = wrapping_sub(t, h) - k
         /\ \A j \in 0..(N - k) :
              wrapping_add(wrapping_add(h, k), j) = wrapping_add(h, k + j)
BY RingAssumption DEF wrapping_add, wrapping_sub

-----------------------------------------------------------------------------
(* The inductive invariant: each side's reservation lies within the part of *)
(* the ring that the other side leaves alone.                               *)

ProducerInv ==
  /\ pPc = "idle" => pCount = 0
  /\ pPc = "write" =>
       /\ pCount \in 1..Len(pItems)
       /\ len + pCount <= N
       /\ \A j \in 0..(pIdx - 1) : buffer[mask(wrapping_add(tail, j))] = pItems[j + 1]

ConsumerInv ==
  /\ cPc = "idle" => cIdx = 0
  /\ cPc = "read" => cCount \in 1..len
  /\ cPc = "peek" => cIdx = 0 /\ len >= 1
  /\ Len(cGot) = cIdx
  /\ \A j \in 1..cIdx : cGot[j] = buffer[mask(wrapping_add(head, j - 1))]

Filled == \A j \in 0..(len - 1) : buffer[mask(wrapping_add(head, j))] \in Items

IInv == TypeOK /\ ProducerInv /\ ConsumerInv /\ Filled

LEMMA InitIInv == Init => IInv
BY RingAssumption
   DEF Init, IInv, TypeOK, ProducerInv, ConsumerInv, Filled, len, wrapping_sub

\* The slot the producer writes lies outside the occupied part of the ring.
LEMMA WriteOutside ==
  ASSUME IInv, pPc = "write", pIdx < pCount
  PROVE  /\ mask(wrapping_add(tail, pIdx)) \in Slots
         /\ \A j \in 0..(len - 1) :
              mask(wrapping_add(tail, pIdx)) # mask(wrapping_add(head, j))
         /\ \A j \in 0..(pIdx - 1) :
              mask(wrapping_add(tail, pIdx)) # mask(wrapping_add(tail, j))
<1> USE DEF IInv, TypeOK, ProducerInv
<1>0. N \in Nat \ {0} /\ IndexSpan \in Nat /\ IndexSpan > N BY RingAssumption
<1>1. len + pIdx \in 0..(N - 1) /\ pIdx \in 0..(N - 1) /\ len \in 0..N BY <1>0
<1>2. wrapping_add(tail, pIdx) = wrapping_add(head, len + pIdx)
  BY <1>0, <1>1, TailFromHead DEF len
<1>3. wrapping_add(tail, pIdx) \in Nat BY <1>0, <1>1 DEF wrapping_add
<1>4. ASSUME NEW j \in 0..(len - 1)
      PROVE  mask(wrapping_add(tail, pIdx)) # mask(wrapping_add(head, j))
  <2>1. j \in 0..(N - 1) /\ j # len + pIdx BY <1>0, <1>1
  <2> QED BY <2>1, <1>1, <1>2, WindowInjective
<1>5. ASSUME NEW j \in 0..(pIdx - 1)
      PROVE  mask(wrapping_add(tail, pIdx)) # mask(wrapping_add(tail, j))
  <2>1. j \in 0..(N - 1) /\ j # pIdx BY <1>0, <1>1
  <2> QED BY <2>1, <1>1, WindowInjective
<1> QED BY <1>3, <1>4, <1>5, MaskIsSlot, SMTT(30)

\* A producer call that reserves room, or is refused, preserves the invariant.
LEMMA ProducerBegins ==
  ASSUME IInv, UNCHANGED <<head, tail, buffer, consVars>>,
         Refuse \/ (\E items \in Seq(Items), count \in Nat :
                      /\ count \in 1..Len(items) /\ len + count <= N
                      /\ Accept(items, count))
  PROVE  IInv'
<1> USE DEF IInv
<1>1. UNCHANGED len BY DEF len
<1>2. Filled' BY <1>1 DEF Filled
<1>3. ConsumerInv' BY <1>1 DEF ConsumerInv, consVars
<1>4. CASE Refuse
  <2>1. TypeOK' BY <1>1, <1>4 DEF TypeOK, Refuse, consVars
  <2>2. ProducerInv' BY <1>1, <1>4 DEF ProducerInv, Refuse
  <2> QED BY <2>1, <2>2, <1>2, <1>3
<1>5. ASSUME NEW items \in Seq(Items), NEW count \in Nat, count \in 1..Len(items),
             len + count <= N, Accept(items, count)
      PROVE  IInv'
  <2>1. TypeOK' BY <1>1, <1>5 DEF TypeOK, Accept, consVars
  <2>2. ProducerInv' BY <1>1, <1>5 DEF ProducerInv, Accept
  <2> QED BY <2>1, <2>2, <1>2, <1>3
<1> QED BY <1>4, <1>5

\* So does a consumer call that starts reading, or finds nothing.
LEMMA ConsumerBegins ==
  ASSUME IInv, UNCHANGED <<head, tail, buffer, prodVars>>,
         \/ Nothing
         \/ \E count \in 1..len : Take("read", count)
         \/ len >= 1 /\ Take("peek", 1)
  PROVE  IInv'
<1> USE DEF IInv
<1>1. UNCHANGED len /\ len \in Nat BY RingAssumption DEF len, TypeOK
<1>2. Filled' BY <1>1 DEF Filled
<1>3. ProducerInv' BY <1>1 DEF ProducerInv, prodVars
<1>4. CASE Nothing
  <2>1. TypeOK' BY <1>1, <1>4 DEF TypeOK, Nothing, prodVars
  <2>2. ConsumerInv' BY <1>1, <1>4 DEF ConsumerInv, Nothing
  <2> QED BY <2>1, <2>2, <1>2, <1>3
<1>5. ASSUME NEW count \in 1..len, Take("read", count) PROVE IInv'
  <2>1. TypeOK' BY <1>1, <1>5 DEF TypeOK, Take, prodVars
  <2>2. ConsumerInv' BY <1>1, <1>5 DEF ConsumerInv, Take
  <2> QED BY <2>1, <2>2, <1>2, <1>3
<1>6. CASE len >= 1 /\ Take("peek", 1)
  <2>1. TypeOK' BY <1>1, <1>6 DEF TypeOK, Take, prodVars
  <2>2. ConsumerInv' BY <1>1, <1>6 DEF ConsumerInv, Take
  <2> QED BY <2>1, <2>2, <1>2, <1>3
<1> QED BY <1>4, <1>5, <1>6

\* Every step of the two sides preserves the invariant.
LEMMA NextIInv == IInv /\ [Next]_vars => IInv'
<1> SUFFICES ASSUME IInv, [Next]_vars PROVE IInv' OBVIOUS
<1> USE DEF IInv
<1>0. N \in Nat \ {0} /\ IndexSpan \in Nat /\ IndexSpan > N BY RingAssumption
<1>l. len \in 0..N /\ head \in Indices /\ tail \in Indices BY DEF TypeOK
<1>1. ASSUME NEW item \in Items, Push(item) PROVE IInv'
  <2>1. CASE len >= N /\ Refuse BY <2>1, <1>1, ProducerBegins DEF Push
  <2>2. CASE ~(len >= N) /\ Accept(<<item>>, 1)
    <3>1. <<item>> \in Seq(Items) /\ 1 \in 1..Len(<<item>>) /\ len + 1 <= N
      BY <2>2, <1>l, <1>0
    <3> QED BY <3>1, <2>2, <1>1, ProducerBegins DEF Push
  <2> QED BY <2>1, <2>2, <1>1 DEF Push
<1>2. ASSUME NEW items \in Batches, PushBatch(items) PROVE IInv'
  <2> DEFINE count == Smaller(Len(items), N - len)
  <2>1. items \in Seq(Items) /\ Len(items) \in Nat BY RingAssumption DEF Batches
  <2>2. CASE count = 0 /\ Refuse BY <2>2, <1>2, ProducerBegins DEF PushBatch
  <2>3. CASE count # 0 /\ Accept(items, count)
    <3>1. count \in 1..Len(items) /\ count \in Nat /\ len + count <= N
      BY <2>1, <2>3, <1>l, <1>0 DEF Smaller
    <3> HIDE DEF count
    <3> QED BY <3>1, <2>1, <2>3, <1>2, ProducerBegins DEF PushBatch
  <2> QED BY <2>2, <2>3, <1>2 DEF PushBatch
<1>3. ASSUME WriteSlot PROVE IInv'
  <2> DEFINE w == mask(wrapping_add(tail, pIdx))
  <2>1. UNCHANGED <<len, head, tail, pPc, pItems, pCount, res, consVars>>
    BY <1>3 DEF WriteSlot, len
  <2>2. pPc = "write" /\ pIdx < pCount /\ pIdx' = pIdx + 1
        /\ buffer' = [buffer EXCEPT ![w] = pItems[pIdx + 1]]
    BY <1>3 DEF WriteSlot
  <2>3. /\ w \in Slots
        /\ \A j \in 0..(len - 1) : w # mask(wrapping_add(head, j))
        /\ \A j \in 0..(pIdx - 1) : w # mask(wrapping_add(tail, j))
    BY <2>2, WriteOutside
  <2>4. pItems[pIdx + 1] \in Items BY <2>2 DEF TypeOK, ProducerInv
  <2> HIDE DEF w
  <2>5. TypeOK' BY <2>1, <2>2, <2>3, <2>4 DEF TypeOK, ProducerInv, consVars, len
  <2>6. ProducerInv'
    BY <2>1, <2>2, <2>3, <1>l, <1>0, SMTT(30) DEF TypeOK, ProducerInv, w
  <2>7. \A j \in 0..(len - 1) :
          buffer'[mask(wrapping_add(head, j))] = buffer[mask(wrapping_add(head, j))]
    BY <2>2, <2>3 DEF TypeOK
  <2>8. ConsumerInv'
    <3>1. \A j \in 1..cIdx : j - 1 \in 0..(len - 1)
      BY <1>l, <1>0 DEF ConsumerInv, TypeOK
    <3>2. \A j \in 1..cIdx : cGot[j] = buffer'[mask(wrapping_add(head, j - 1))]
      BY <3>1, <2>7 DEF ConsumerInv
    <3> QED BY <2>1, <3>2 DEF ConsumerInv, consVars
  <2>9. Filled' BY <2>1, <2>7 DEF Filled
  <2> QED BY <2>5, <2>6, <2>8, <2>9
<1>4. ASSUME Publish PROVE IInv'
  <2>1. pPc = "write" /\ pIdx = pCount /\ tail' = wrapping_add(tail, pCount)
        /\ UNCHANGED <<head, buffer, consVars>>
        /\ pPc' = "idle" /\ pItems' = <<>> /\ pCount' = 0 /\ pIdx' = 0 /\ res' = "ok"
    BY <1>4 DEF Publish
  <2>2. pCount \in 1..N /\ len + pCount <= N BY <2>1, <1>l, <1>0 DEF ProducerInv, TypeOK
  <2>3. tail' \in Indices /\ len' = len + pCount
    BY <2>1, <2>2, <1>l, <1>0, AdvanceTail, AddIsIndex DEF len
  <2>4. TypeOK' BY <2>1, <2>2, <2>3, <1>l, <1>0 DEF TypeOK, consVars
  <2>5. ProducerInv' BY <2>1 DEF ProducerInv
  <2>6. ConsumerInv' BY <2>1, <2>2, <2>3, <1>l, <1>0 DEF ConsumerInv, TypeOK, consVars
  <2>7. Filled'
    <3> SUFFICES ASSUME NEW j \in 0..(len + pCount - 1)
                 PROVE  buffer[mask(wrapping_add(head, j))] \in Items
      <4>1. Filled' <=> \A j \in 0..(len' - 1) : buffer'[mask(wrapping_add(head', j))] \in Items
        BY DEF Filled
      <4>2. len' - 1 = len + pCount - 1 BY <2>2, <2>3, <1>l
      <4> QED BY <2>1, <4>1, <4>2
    <3>1. CASE j < len BY <3>1, <1>l DEF Filled
    <3>2. CASE j >= len
      <4>1. j - len \in 0..(pCount - 1) /\ j - len \in 0..N /\ len + (j - len) <= N /\ len + (j - len) = j
        BY <3>2, <1>l, <2>2, <1>0
      <4>2. wrapping_add(tail, j - len) = wrapping_add(head, j)
        BY <4>1, <1>l, TailFromHead DEF len
      <4>3. buffer[mask(wrapping_add(tail, j - len))] = pItems[(j - len) + 1]
        BY <4>1, <2>1 DEF ProducerInv
      <4>4. pItems[(j - len) + 1] \in Items BY <4>1, <2>1 DEF ProducerInv, TypeOK
      <4> QED BY <4>2, <4>3, <4>4
    <3> QED BY <3>1, <3>2, <1>l, <2>2
  <2> QED BY <2>4, <2>5, <2>6, <2>7
<1>5. ASSUME Pop PROVE IInv'
  <2>1. head # tail => 1 \in 1..len BY <1>l, <1>0 DEF len, wrapping_sub
  <2> QED BY <2>1, <1>5, ConsumerBegins DEF Pop
<1>6. ASSUME NEW room \in 1..MaxBatch, PopBatch(room) PROVE IInv'
  <2> DEFINE count == Smaller(len, room)
  <2>1. count # 0 => count \in 1..len BY <1>l, RingAssumption DEF Smaller
  <2>2. (count = 0 /\ Nothing) \/ (count # 0 /\ Take("read", count)) BY <1>6 DEF PopBatch
  <2> HIDE DEF count
  <2> QED BY <2>1, <2>2, <1>6, ConsumerBegins DEF PopBatch
<1>7. ASSUME ReadSlot PROVE IInv'
  <2> DEFINE x == buffer[mask(wrapping_add(head, cIdx))]
  <2>1. cPc = "read" /\ cIdx < cCount /\ cIdx' = cIdx + 1 /\ cGot' = Append(cGot, x)
        /\ UNCHANGED <<len, head, tail, buffer, prodVars, cPc, cCount, out>>
    BY <1>7 DEF ReadSlot, len
  <2>2. cIdx \in 0..(len - 1) BY <2>1, <1>l DEF ConsumerInv, TypeOK
  <2>3. x \in Items BY <2>2 DEF Filled
  <2>4. \A j \in 1..(cIdx + 1) : cGot'[j] = buffer[mask(wrapping_add(head, j - 1))]
    BY <2>1, <2>3, <2>2, <1>l DEF ConsumerInv, TypeOK
  <2>5. cGot' \in Seq(Items) /\ Len(cGot') = cIdx + 1 BY <2>1, <2>3 DEF ConsumerInv, TypeOK
  <2> HIDE DEF x
  <2> QED BY <2>1, <2>2, <2>4, <2>5, <1>l
          DEF TypeOK, ProducerInv, ConsumerInv, Filled, prodVars
<1>8. ASSUME Release PROVE IInv'
  <2>1. cPc = "read" /\ cIdx = cCount /\ head' = wrapping_add(head, cCount)
        /\ cPc' = "idle" /\ cCount' = 0 /\ cIdx' = 0 /\ cGot' = <<>> /\ out' = cGot
        /\ UNCHANGED <<tail, buffer, prodVars>>
    BY <1>8 DEF Release
  <2>2. cCount \in 1..len /\ cCount \in 0..N BY <2>1, <1>l, <1>0 DEF ConsumerInv, TypeOK
  <2>3. /\ head' \in Indices
        /\ len' = len - cCount
        /\ \A j \in 0..(N - cCount) : wrapping_add(head', j) = wrapping_add(head, cCount + j)
    BY <2>1, <2>2, <1>l, <1>0, AdvanceHead, AddIsIndex DEF len
  <2>4. TypeOK' BY <2>1, <2>2, <2>3, <1>l, <1>0 DEF TypeOK, prodVars
  <2>5. ProducerInv' BY <2>1, <2>2, <2>3, <1>l, <1>0 DEF ProducerInv, TypeOK, prodVars
  <2>6. ConsumerInv' BY <2>1 DEF ConsumerInv
  <2>7. Filled' BY <2>1, <2>2, <2>3, <1>l, <1>0 DEF Filled
  <2> QED BY <2>4, <2>5, <2>6, <2>7
<1>9. ASSUME Peek PROVE IInv'
  <2>1. head # tail => len >= 1 BY <1>l, <1>0 DEF len, wrapping_sub
  <2> QED BY <2>1, <1>9, ConsumerBegins DEF Peek
<1>10. ASSUME PeekRead PROVE IInv'
  <2>1. cPc = "peek" /\ out' = <<buffer[mask(head)]>> /\ cPc' = "idle" /\ cCount' = 0
        /\ UNCHANGED <<len, head, tail, buffer, prodVars, cIdx, cGot>>
    BY <1>10 DEF PeekRead, len
  <2>2. wrapping_add(head, 0) = head BY <1>l, <1>0 DEF wrapping_add
  <2>3. buffer[mask(head)] \in Items BY <2>1, <2>2, <1>l DEF Filled, ConsumerInv
  <2>4. cIdx = 0 BY <2>1 DEF ConsumerInv, TypeOK
  <2>5. TypeOK' BY <2>1, <2>3, <2>4 DEF TypeOK, prodVars
  <2>6. ProducerInv' BY <2>1 DEF ProducerInv, prodVars
  <2>7. ConsumerInv' BY <2>1, <2>4 DEF ConsumerInv
  <2>8. Filled' BY <2>1 DEF Filled
  <2> QED BY <2>5, <2>6, <2>7, <2>8
<1>11. CASE UNCHANGED vars
  <2>1. UNCHANGED <<len, head, tail, buffer, prodVars, consVars>> BY <1>11 DEF vars, len
  <2> QED BY <2>1 DEF TypeOK, ProducerInv, ConsumerInv, Filled, prodVars, consVars
<1> QED BY <1>1, <1>2, <1>3, <1>4, <1>5, <1>6, <1>7, <1>8, <1>9, <1>10, <1>11 DEF Next

\* The invariant holds in every state the ring can reach.
LEMMA IInvariant == Spec => []IInv
BY InitIInv, NextIInv, PTL DEF Spec

\* Type correctness, with the indices never more than N apart.
THEOREM TypeCorrect == Spec => []TypeOK
<1>1. IInv => TypeOK BY DEF IInv
<1> QED BY <1>1, IInvariant, PTL

\* The producer never writes a slot the consumer is about to read, whatever
\* the ring size and however far the indices have wrapped.
THEOREM NoSlotRaceHolds == Spec => []NoSlotRace
<1>1. IInv => NoSlotRace
  <2> SUFFICES ASSUME IInv, pPc = "write", pIdx < pCount
               PROVE  LET w == mask(wrapping_add(tail, pIdx)) IN
                      /\ cPc = "read" =>
                           \A j \in cIdx..(cCount - 1) : w # mask(wrapping_add(head, j))
                      /\ cPc = "peek" => w # mask(head)
    BY DEF NoSlotRace
  <2>1. \A j \in 0..(len - 1) : mask(wrapping_add(tail, pIdx)) # mask(wrapping_add(head, j))
    BY WriteOutside
  <2>2. len \in 0..N /\ head \in Indices /\ N \in Nat /\ IndexSpan \in Nat
    BY RingAssumption DEF IInv, TypeOK
  <2>3. cPc = "read" => \A j \in cIdx..(cCount - 1) : j \in 0..(len - 1)
    BY <2>2 DEF IInv, TypeOK, ConsumerInv
  <2>4. cPc = "peek" => 0 \in 0..(len - 1) /\ wrapping_add(head, 0) = head
    BY <2>2 DEF IInv, ConsumerInv, wrapping_add
  <2> QED BY <2>1, <2>3, <2>4
<1> QED BY <1>1, IInvariant, PTL

-----------------------------------------------------------------------------
(* The ring implements the abstract queue *)

\* The ring's contents are a sequence of as many items as the indices are apart.
LEMMA ContentsSeq ==
  ASSUME IInv
  PROVE  Contents \in Seq(Items) /\ Len(Contents) = len /\ len \in 0..N /\ N \in Nat
<1>1. len \in 0..N /\ N \in Nat BY RingAssumption DEF IInv, TypeOK
<1>2. \A i \in 1..len : buffer[mask(wrapping_add(head, i - 1))] \in Items
  BY <1>1 DEF IInv, Filled
<1> QED BY <1>1, <1>2 DEF Contents

\* Every step of the ring is a step of the queue, or leaves it alone.
LEMMA StepSimulation ==
  ASSUME IInv, IInv', [Next]_vars
  PROVE  [Fifo!Next]_(Fifo!vars)
<1> USE DEF Fifo!Next, Fifo!vars
<1>0. N \in Nat \ {0} /\ IndexSpan \in Nat /\ IndexSpan > N BY RingAssumption
<1>l. len \in 0..N /\ head \in Indices /\ tail \in Indices BY DEF IInv, TypeOK
<1>s. Contents \in Seq(Items) /\ Len(Contents) = len BY ContentsSeq
<1>t. Contents' \in Seq(Items) /\ Len(Contents') = len'
  <2>1. len' \in 0..N BY <1>0 DEF IInv, TypeOK
  <2>2. \A i \in 1..len' : buffer'[mask(wrapping_add(head', i - 1))] \in Items
    <3>1. \A j \in 0..(len' - 1) : buffer'[mask(wrapping_add(head', j))] \in Items
      BY DEF IInv, Filled
    <3>2. ASSUME NEW n \in Nat PROVE \A i \in 1..n : i - 1 \in 0..(n - 1) OBVIOUS
    <3>3. len' \in Nat BY <2>1, <1>0
    <3> QED BY <3>1, <3>2, <3>3
  <2> QED BY <2>1, <2>2 DEF Contents
<1>u. ASSUME UNCHANGED <<head, tail, buffer>> PROVE Contents' = Contents /\ len' = len
  BY <1>u DEF Contents, len
<1>1. ASSUME NEW item \in Items, Push(item) PROVE [Fifo!Next]_(Fifo!vars)
  <2>1. Contents' = Contents /\ out' = out BY <1>1, <1>u DEF Push, consVars
  <2>2. CASE len >= N /\ Refuse
    BY <2>1, <2>2, <1>s, <1>l, <1>0 DEF Refuse, Fifo!Reject
  <2>3. CASE Accept(<<item>>, 1) BY <2>1, <2>3 DEF Accept
  <2> QED BY <2>2, <2>3, <1>1 DEF Push
<1>2. ASSUME NEW items \in Batches, PushBatch(items) PROVE [Fifo!Next]_(Fifo!vars)
  <2>1. Contents' = Contents /\ out' = out BY <1>2, <1>u DEF PushBatch, consVars
  <2>2. Len(items) \in Nat \ {0} BY RingAssumption DEF Batches
  <2>3. CASE Smaller(Len(items), N - len) = 0 /\ Refuse
    <3>1. len = N BY <2>2, <2>3, <1>l, <1>0 DEF Smaller
    <3> QED BY <2>1, <2>3, <3>1, <1>s DEF Refuse, Fifo!Reject
  <2>4. CASE Accept(items, Smaller(Len(items), N - len)) BY <2>1, <2>4 DEF Accept
  <2> QED BY <2>3, <2>4, <1>2 DEF PushBatch
<1>3. ASSUME WriteSlot PROVE [Fifo!Next]_(Fifo!vars)
  <2>1. pPc = "write" /\ pIdx < pCount /\ UNCHANGED <<head, tail, res, out>>
        /\ buffer' = [buffer EXCEPT ![mask(wrapping_add(tail, pIdx))] = pItems[pIdx + 1]]
    BY <1>3 DEF WriteSlot, consVars
  <2>2. \A j \in 0..(len - 1) : mask(wrapping_add(tail, pIdx)) # mask(wrapping_add(head, j))
    BY <2>1, WriteOutside
  <2>3. len' = len BY <2>1 DEF len
  <2>4. \A i \in 1..len : buffer'[mask(wrapping_add(head, i - 1))]
                          = buffer[mask(wrapping_add(head, i - 1))]
    <3> TAKE i \in 1..len
    <3>1. i - 1 \in 0..(len - 1) BY <1>l
    <3>2. mask(wrapping_add(tail, pIdx)) # mask(wrapping_add(head, i - 1)) BY <3>1, <2>2
    <3> QED BY <3>2, <2>1 DEF IInv, TypeOK
  <2>5. Contents' = Contents BY <2>1, <2>3, <2>4 DEF Contents
  <2> QED BY <2>1, <2>5
<1>4. ASSUME Publish PROVE [Fifo!Next]_(Fifo!vars)
  <2>1. pPc = "write" /\ tail' = wrapping_add(tail, pCount) /\ res' = "ok"
        /\ UNCHANGED <<head, buffer, out>>
    BY <1>4 DEF Publish, consVars
  <2>2. pCount \in 1..N /\ len + pCount <= N
    BY <2>1, <1>l, <1>0 DEF IInv, ProducerInv, TypeOK
  <2>3. len' = len + pCount BY <2>1, <2>2, <1>l, AdvanceTail DEF len
  <2>4. SubSeq(Contents', 1, Len(Contents)) = Contents
    <3>1. \A i \in 1..len : Contents'[i] = Contents[i]
      BY <2>1, <2>2, <2>3, <1>l DEF Contents
    <3> QED BY <3>1, <1>s, <1>t, <2>2, <2>3, <1>l
  <2> QED BY <2>1, <2>2, <2>3, <2>4, <1>s, <1>t, <1>l DEF Fifo!Enqueue
<1>5. ASSUME Pop PROVE [Fifo!Next]_(Fifo!vars)
  <2>1. Contents' = Contents /\ res' = res BY <1>5, <1>u DEF Pop, prodVars
  <2>2. CASE head = tail /\ Nothing
    <3>1. Contents = <<>> BY <2>2, <1>l, <1>s DEF len, wrapping_sub
    <3> QED BY <2>1, <2>2, <3>1 DEF Nothing, Fifo!Empty
  <2>3. CASE Take("read", 1) BY <2>1, <2>3 DEF Take
  <2> QED BY <2>2, <2>3, <1>5 DEF Pop
<1>6. ASSUME NEW room \in 1..MaxBatch, PopBatch(room) PROVE [Fifo!Next]_(Fifo!vars)
  <2>1. Contents' = Contents /\ res' = res BY <1>6, <1>u DEF PopBatch, prodVars
  <2>2. CASE Smaller(len, room) = 0 /\ Nothing
    <3>1. len = 0 BY <2>2, <1>l, RingAssumption DEF Smaller
    <3> QED BY <2>1, <2>2, <3>1, <1>s DEF Nothing, Fifo!Empty
  <2>3. CASE Take("read", Smaller(len, room)) BY <2>1, <2>3 DEF Take
  <2> QED BY <2>2, <2>3, <1>6 DEF PopBatch
<1>7. ASSUME ReadSlot PROVE [Fifo!Next]_(Fifo!vars)
  BY <1>7, <1>u DEF ReadSlot, prodVars
<1>8. ASSUME Release PROVE [Fifo!Next]_(Fifo!vars)
  <2>1. cPc = "read" /\ cIdx = cCount /\ head' = wrapping_add(head, cCount) /\ out' = cGot
        /\ UNCHANGED <<tail, buffer, res>>
    BY <1>8 DEF Release, prodVars
  <2>2. cCount \in 1..len /\ cCount \in 0..N
    BY <2>1, <1>l, <1>0 DEF IInv, ConsumerInv, TypeOK
  <2>3. /\ len' = len - cCount
        /\ \A j \in 0..(N - cCount) : wrapping_add(head', j) = wrapping_add(head, cCount + j)
    BY <2>1, <2>2, <1>l, <1>0, AdvanceHead DEF len
  <2>4. out' = SubSeq(Contents, 1, cCount)
    <3>1. cGot \in Seq(Items) /\ Len(cGot) = cCount
      BY <2>1 DEF IInv, ConsumerInv, TypeOK
    <3>2. \A j \in 1..cCount : cGot[j] = Contents[j]
      BY <2>1, <2>2, <1>l DEF IInv, ConsumerInv, Contents
    <3> QED BY <3>1, <3>2, <2>1, <2>2, <1>s, <1>l
  <2>5. Contents' = SubSeq(Contents, cCount + 1, Len(Contents))
    <3>1. \A i \in 1..(len - cCount) : Contents'[i] = Contents[cCount + i]
      <4> TAKE i \in 1..(len - cCount)
      <4>1. wrapping_add(head', i - 1) = wrapping_add(head, cCount + (i - 1))
        BY <2>2, <2>3, <1>l, <1>0
      <4>2. cCount + (i - 1) = (cCount + i) - 1 /\ cCount + i \in 1..len BY <2>2, <1>l
      <4>3. Contents'[i] = buffer'[mask(wrapping_add(head', i - 1))] BY <2>3 DEF Contents
      <4>4. Contents[cCount + i] = buffer[mask(wrapping_add(head, (cCount + i) - 1))]
        BY <4>2 DEF Contents
      <4> QED BY <4>1, <4>2, <4>3, <4>4, <2>1
    <3> QED BY <3>1, <1>s, <1>t, <2>2, <2>3, <1>l
  <2> QED BY <2>1, <2>2, <2>4, <2>5, <1>s DEF Fifo!Dequeue
<1>9. ASSUME Peek PROVE [Fifo!Next]_(Fifo!vars)
  <2>1. Contents' = Contents /\ res' = res BY <1>9, <1>u DEF Peek, prodVars
  <2>2. CASE head = tail /\ Nothing
    <3>1. Contents = <<>> BY <2>2, <1>l, <1>s DEF len, wrapping_sub
    <3> QED BY <2>1, <2>2, <3>1 DEF Nothing, Fifo!Empty
  <2>3. CASE Take("peek", 1) BY <2>1, <2>3 DEF Take
  <2> QED BY <2>2, <2>3, <1>9 DEF Peek
<1>10. ASSUME PeekRead PROVE [Fifo!Next]_(Fifo!vars)
  <2>1. cPc = "peek" /\ out' = <<buffer[mask(head)]>> /\ Contents' = Contents /\ res' = res
    BY <1>10, <1>u DEF PeekRead, prodVars
  <2>2. 1 \in 1..len /\ wrapping_add(head, 1 - 1) = head
    BY <2>1, <1>l, <1>0 DEF IInv, ConsumerInv, wrapping_add
  <2>3. Head(Contents) = buffer[mask(head)] /\ Contents # <<>>
    <3>1. Contents[1] = buffer[mask(wrapping_add(head, 1 - 1))] BY <2>2 DEF Contents
    <3> QED BY <3>1, <2>2, <1>s
  <2> QED BY <2>1, <2>3 DEF Fifo!PeekHead
<1>11. CASE UNCHANGED vars
  BY <1>11, <1>u DEF vars, prodVars, consVars
<1> QED BY <1>1, <1>2, <1>3, <1>4, <1>5, <1>6, <1>7, <1>8, <1>9, <1>10, <1>11 DEF Next

\* The lock-free ring of drivers/jail_ring.rs is a bounded FIFO queue: nothing
\* is lost, repeated or reordered, and its Err and None answers are truthful.
THEOREM RingImplementsFifo == Spec => ImplementsFifo
<1>1. Init => Fifo!Init
  BY RingAssumption DEF Init, Fifo!Init, Contents, len, wrapping_sub
<1>2. IInv /\ IInv' /\ [Next]_vars => [Fifo!Next]_(Fifo!vars) BY StepSimulation
<1> QED BY <1>1, <1>2, IInvariant, PTL DEF Spec, ImplementsFifo, Fifo!Spec
=============================================================================
