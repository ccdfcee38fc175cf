------------------------------ MODULE SpscRing ------------------------------
(***************************************************************************)
(* The lock-free ring between the core and a driver jail                   *)
(* (drivers/jail_ring.rs, SpscRing<T, N>).  One producer and one consumer  *)
(* run concurrently; every atomic load or store of the other side's index  *)
(* and every slot access is a step of its own.  An index is loaded by its  *)
(* only writer, so that load is folded into the step that follows it.      *)
(* Release stores and acquire loads order the slot accesses, which is what *)
(* the interleaving of these steps assumes.                                *)
(***************************************************************************)
EXTENDS Naturals, Sequences

CONSTANTS
  Items,      \* the payloads (T)
  N,          \* slots of the ring
  IndexSpan,  \* number of values of an index: 2^32 for the code's AtomicU32
  MaxBatch,   \* bound: longest slice passed to push_batch / pop_batch
  NoItem      \* an uninitialised slot

ASSUME RingAssumption ==
  /\ N \in Nat \ {0}
  /\ IndexSpan \in Nat
  /\ IndexSpan > N
  /\ IndexSpan % N = 0
  /\ MaxBatch \in Nat \ {0}
  /\ NoItem \notin Items

VARIABLES
  head, tail,   \* the two AtomicU32 indices
  buffer,       \* the slots
  pPc, pItems, pCount, pIdx,   \* producer: phase, slice, how many fit, next one
  res,          \* the producer's last result
  cPc, cCount, cIdx, cGot,     \* consumer: phase, how many, next one, read so far
  out           \* the consumer's last result

prodVars == <<pPc, pItems, pCount, pIdx, res>>
consVars == <<cPc, cCount, cIdx, cGot, out>>
vars == <<head, tail, buffer, prodVars, consVars>>

Indices == 0..(IndexSpan - 1)
Slots == 0..(N - 1)
Batches == UNION {[1..n -> Items] : n \in 1..MaxBatch}

\* u32::wrapping_add and u32::wrapping_sub, for operands below IndexSpan.
wrapping_add(x, k) == IF x + k < IndexSpan THEN x + k ELSE (x + k) - IndexSpan
wrapping_sub(x, y) == IF y <= x THEN x - y ELSE (x + IndexSpan) - y

\* A mask one bit short: the upper half of the ring aliases the lower half.
MaskOneBitShort(x) == x % ((N + 1) \div 2)

\* index & mask(), N being a power of two.
mask(x) == x % N

Smaller(a, b) == IF a <= b THEN a ELSE b

len == wrapping_sub(tail, head)

Init ==
  /\ head = 0 /\ tail = 0
  /\ buffer = [s \in Slots |-> NoItem]
  /\ pPc = "idle" /\ pItems = <<>> /\ pCount = 0 /\ pIdx = 0 /\ res = "none"
  /\ cPc = "idle" /\ cCount = 0 /\ cIdx = 0 /\ cGot = <<>> /\ out = <<>>

-----------------------------------------------------------------------------
(* Producer *)

Refuse == res' = "full" /\ UNCHANGED <<pPc, pItems, pCount, pIdx>>

Accept(items, count) ==
  /\ pPc' = "write" /\ pItems' = items /\ pCount' = count /\ pIdx' = 0
  /\ UNCHANGED res

\* The full test of push lets one item too many in.
PushOneTooMany(item) ==
  /\ pPc = "idle"
  /\ IF len > N THEN Refuse ELSE Accept(<<item>>, 1)
  /\ UNCHANGED <<head, tail, buffer, consVars>>

\* push up to its write: load head, refuse when full.
Push(item) ==
  /\ pPc = "idle"
  /\ IF len >= N THEN Refuse ELSE Accept(<<item>>, 1)
  /\ UNCHANGED <<head, tail, buffer, consVars>>

\* push_batch up to its first write: as many items as there is room for.
PushBatch(items) ==
  LET count == Smaller(Len(items), N - len) IN
  /\ pPc = "idle"
  /\ IF count = 0 THEN Refuse ELSE Accept(items, count)
  /\ UNCHANGED <<head, tail, buffer, consVars>>

WriteSlot ==
  /\ pPc = "write" /\ pIdx < pCount
  /\ buffer' = [buffer EXCEPT ![mask(wrapping_add(tail, pIdx))] = pItems[pIdx + 1]]
  /\ pIdx' = pIdx + 1
  /\ UNCHANGED <<head, tail, pPc, pItems, pCount, res, consVars>>

\* The tail store overtakes the last slot write.
PublishEarly ==
  /\ pPc = "write" /\ pIdx + 1 >= pCount
  /\ tail' = wrapping_add(tail, pCount)
  /\ pPc' = "idle" /\ pItems' = <<>> /\ pCount' = 0 /\ pIdx' = 0 /\ res' = "ok"
  /\ UNCHANGED <<head, buffer, consVars>>

\* tail.store(Release), after every slot is written.
Publish ==
  /\ pPc = "write" /\ pIdx = pCount
  /\ tail' = wrapping_add(tail, pCount)
  /\ pPc' = "idle" /\ pItems' = <<>> /\ pCount' = 0 /\ pIdx' = 0 /\ res' = "ok"
  /\ UNCHANGED <<head, buffer, consVars>>

-----------------------------------------------------------------------------
(* Consumer *)

Nothing == out' = <<>> /\ UNCHANGED <<cPc, cCount, cIdx, cGot>>

Take(phase, count) ==
  /\ cPc' = phase /\ cCount' = count /\ cIdx' = 0 /\ cGot' = <<>>
  /\ UNCHANGED out

\* pop up to its read: load tail, give up when empty.
Pop ==
  /\ cPc = "idle"
  /\ IF head = tail THEN Nothing ELSE Take("read", 1)
  /\ UNCHANGED <<head, tail, buffer, prodVars>>

\* pop_batch into a slice of `room` elements, up to its first read.
PopBatch(room) ==
  LET count == Smaller(len, room) IN
  /\ cPc = "idle"
  /\ IF count = 0 THEN Nothing ELSE Take("read", count)
  /\ UNCHANGED <<head, tail, buffer, prodVars>>

ReadSlot ==
  /\ cPc = "read" /\ cIdx < cCount
  /\ cGot' = Append(cGot, buffer[mask(wrapping_add(head, cIdx))])
  /\ cIdx' = cIdx + 1
  /\ UNCHANGED <<head, tail, buffer, prodVars, cPc, cCount, out>>

\* head.store(Release) and the return of the items read.
Release ==
  /\ cPc = "read" /\ cIdx = cCount
  /\ head' = wrapping_add(head, cCount)
  /\ cPc' = "idle" /\ cCount' = 0 /\ cIdx' = 0 /\ cGot' = <<>> /\ out' = cGot
  /\ UNCHANGED <<tail, buffer, prodVars>>

Peek ==
  /\ cPc = "idle"
  /\ IF head = tail THEN Nothing ELSE Take("peek", 1)
  /\ UNCHANGED <<head, tail, buffer, prodVars>>

PeekRead ==
  /\ cPc = "peek"
  /\ out' = <<buffer[mask(head)]>>
  /\ cPc' = "idle" /\ cCount' = 0
  /\ UNCHANGED <<head, tail, buffer, prodVars, cIdx, cGot>>

Next ==
  \/ \E item \in Items : Push(item)
  \/ \E items \in Batches : PushBatch(items)
  \/ WriteSlot
  \/ Publish
  \/ Pop
  \/ \E room \in 1..MaxBatch : PopBatch(room)
  \/ ReadSlot
  \/ Release
  \/ Peek
  \/ PeekRead

Spec == Init /\ [][Next]_vars

-----------------------------------------------------------------------------
(* Properties *)

\* Every variable keeps its type; in particular the wrapping indices never
\* stand more than N apart, which push_batch's unsigned `N - len` relies on.
TypeOK ==
  /\ head \in Indices /\ tail \in Indices /\ len \in 0..N
  /\ buffer \in [Slots -> Items \cup {NoItem}]
  /\ pPc \in {"idle", "write"}
  /\ pItems \in Seq(Items) /\ pCount \in Nat /\ pIdx \in 0..pCount
  /\ res \in {"none", "ok", "full"}
  /\ cPc \in {"idle", "read", "peek"}
  /\ cCount \in Nat /\ cIdx \in 0..cCount
  /\ cGot \in Seq(Items) /\ out \in Seq(Items)

\* The UnsafeCell is never raced: the slot the producer writes next is not one
\* the consumer is about to read, although each side works from an index of
\* the other that may be out of date (push, push_batch against pop, pop_batch
\* and peek).
NoSlotRace ==
  pPc = "write" /\ pIdx < pCount =>
    LET w == mask(wrapping_add(tail, pIdx)) IN
    /\ cPc = "read" => \A j \in cIdx..(cCount - 1) : w # mask(wrapping_add(head, j))
    /\ cPc = "peek" => w # mask(head)

\* What is in the ring, oldest first.
Contents == [i \in 1..len |-> buffer[mask(wrapping_add(head, i - 1))]]

Fifo == INSTANCE FifoQueue WITH Cap <- N, q <- Contents

\* The ring is a bounded FIFO queue: items come out in the order they went in,
\* none lost, duplicated or read before it is written; Err / 0 is returned only
\* at a moment the ring is full and None / 0 only at one it is empty.
ImplementsFifo == Fifo!Spec
=============================================================================
