------------------------- MODULE JailWorker_proofs -------------------------
(***************************************************************************)
(* A jail answers in order and its counters add up: for any ring size and  *)
(* any number of requests.                                                 *)
(***************************************************************************)
EXTENDS JailWorker, SequenceTheorems, FiniteSetTheorems, TLAPS

\* What the positions of the two threads say about the variables they use.
PhaseInv ==
  /\ corePc # "count_events" => batch = <<>>
  /\ cur # NoRequest <=> workerPc \in {"execute", "submit", "count_drop", "account"}
  /\ IsFiniteSet(lost)

\* AnsweredInOrder of any line, with all ids below the next one.
InOrder(line, next, gone) ==
  /\ \A i, j \in DOMAIN line : i < j => line[i] < line[j]
  /\ \A i \in DOMAIN line : line[i] \notin gone /\ line[i] < next
  /\ \A x \in gone : x < next

IInv == JwTypeOK /\ PhaseInv /\ InOrder(Line, nextId, lost) /\ CountersReconcile

-----------------------------------------------------------------------------
(* Lines of ids *)

LEMMA IdsAreNat == Ids \subseteq Nat /\ NoRequest \notin Ids
  BY JailAssumption DEF Ids, NoRequest

LEMMA OrderLater ==
  ASSUME NEW line \in Seq(Nat), NEW next \in Nat, NEW gone \in SUBSET Nat,
         InOrder(line, next, gone)
  PROVE  InOrder(line, next + 1, gone)
  BY DEF InOrder

LEMMA OrderAppend ==
  ASSUME NEW line \in Seq(Nat), NEW next \in Nat, NEW gone \in SUBSET Nat,
         InOrder(line, next, gone)
  PROVE  InOrder(Append(line, next), next + 1, gone)
  BY DEF InOrder

\* Taking one id out of the line leaves it in order and free of that id.
LEMMA OrderLose ==
  ASSUME NEW s \in Seq(Nat), NEW r \in Seq(Nat), NEW x \in Nat, NEW next \in Nat,
         NEW gone \in SUBSET Nat, InOrder((s \o <<x>>) \o r, next, gone)
  PROVE  x \notin gone /\ InOrder(s \o r, next, gone \cup {x})
<1> DEFINE l == (s \o <<x>>) \o r
           m == s \o r
           f(i) == IF i <= Len(s) THEN i ELSE i + 1
<1>1. /\ l \in Seq(Nat) /\ Len(l) = Len(s) + 1 + Len(r)
      /\ m \in Seq(Nat) /\ Len(m) = Len(s) + Len(r)
  OBVIOUS
<1>2. l[Len(s) + 1] = x
  OBVIOUS
<1>3. \A i \in 1..Len(m) : f(i) \in 1..Len(l) /\ f(i) # Len(s) + 1 /\ m[i] = l[f(i)]
  BY SMTT(30)
<1>4. \A i, j \in 1..Len(m) : i < j => f(i) < f(j)
  BY <1>1
<1>5. DOMAIN l = 1..Len(l) /\ DOMAIN m = 1..Len(m) /\ Len(s) + 1 \in 1..Len(l)
  BY <1>1
<1> HIDE DEF l, m, f
<1>6. InOrder(l, next, gone)
  BY DEF l
<1>7. x \notin gone /\ x < next
  BY <1>2, <1>5, <1>6 DEF InOrder
<1>8. \A i \in 1..Len(m) : m[i] # x
  <2> SUFFICES ASSUME NEW i \in 1..Len(m) PROVE m[i] # x
    OBVIOUS
  <2>1. f(i) \in 1..Len(l) /\ f(i) # Len(s) + 1 /\ m[i] = l[f(i)]
    BY <1>3
  <2>2. f(i) < Len(s) + 1 \/ Len(s) + 1 < f(i)
    BY <2>1
  <2>3. l[f(i)] < x \/ x < l[f(i)]
    BY <2>1, <2>2, <1>2, <1>5, <1>6 DEF InOrder
  <2>4. l[f(i)] \in Nat
    BY <2>1, <1>1, ElementOfSeq, SMTT(30)
  <2> QED BY <2>1, <2>3, <2>4
<1>9. InOrder(m, next, gone \cup {x})
  BY <1>3, <1>4, <1>5, <1>6, <1>7, <1>8 DEF InOrder
<1> QED BY <1>7, <1>9 DEF m

-----------------------------------------------------------------------------
(* Types *)

RingTypes ==
  /\ requests \in Seq(Ids) /\ Len(requests) <= RingCap
  /\ events \in Seq(Ids) /\ Len(events) <= RingCap
  /\ batch \in Seq(Ids) /\ polled \in Seq(Ids)

PlaceTypes ==
  /\ nextId \in 1..(MaxRequests + 1) /\ lost \subseteq Ids
  /\ corePc \in {"idle", "count_request", "count_drop", "count_events"}
  /\ workerState \in {"Created", "Running", "Stopped"} /\ should_stop \in BOOLEAN
  /\ workerPc \in {"new", "check", "poll", "execute", "submit", "count_drop", "account", "done"}
  /\ cur \in Ids \cup {NoRequest} /\ ok \in BOOLEAN

CounterTypes ==
  /\ channel \in [total_requests : Nat, total_events : Nat,
                  dropped_requests : Nat, dropped_events : Nat]
  /\ stats \in [processed : Nat, succeeded : Nat, failed : Nat, budget_violations : Nat]

LEMMA Types == JwTypeOK <=> RingTypes /\ PlaceTypes /\ CounterTypes
  BY DEF JwTypeOK, RingTypes, PlaceTypes, CounterTypes

\* The split of the event ring that PollEvents makes.
LEMMA PolledPart ==
  ASSUME RingTypes, NEW room \in 1..RingCap, PollEvents(room)
  PROVE  /\ batch' \in Seq(Ids) /\ events' \in Seq(Ids)
         /\ batch' \o events' = events /\ Len(batch') + Len(events') = Len(events)
<1> DEFINE n == IF Len(events) < room THEN Len(events) ELSE room
<1>1. events \in Seq(Ids) /\ Len(events) \in Nat /\ room \in Nat
  BY JailAssumption DEF RingTypes
<1>2. n \in 0..Len(events)
  BY <1>1
<1>3. batch' = SubSeq(events, 1, n) /\ events' = SubSeq(events, n + 1, Len(events))
  BY DEF PollEvents
<1> HIDE DEF n
<1>4. /\ SubSeq(events, 1, n) \in Seq(Ids) /\ Len(SubSeq(events, 1, n)) = n
      /\ SubSeq(events, n + 1, Len(events)) \in Seq(Ids)
      /\ Len(SubSeq(events, n + 1, Len(events))) = Len(events) - n
  BY <1>1, <1>2
<1>5. SubSeq(events, 1, n) \o SubSeq(events, n + 1, Len(events)) = SubSeq(events, 1, Len(events))
  <2>1. 1 \in 1..(Len(events) + 1) /\ n \in (1 - 1)..Len(events) /\ Len(events) \in n..Len(events)
    BY <1>1, <1>2
  <2> QED BY <1>1, <2>1, ConcatAdjacentSubSeq, Zenon
<1>6. SubSeq(events, 1, Len(events)) = events
  BY <1>1, SubSeqFull
<1>7. n \in Nat /\ n + (Len(events) - n) = Len(events)
  BY <1>1, <1>2
<1> QED BY <1>3, <1>4, <1>5, <1>6, <1>7, Zenon

LEMMA RingTypesInv == RingTypes /\ PlaceTypes /\ PhaseInv /\ [JwNext]_jwVars => RingTypes'
<1> SUFFICES ASSUME RingTypes, PlaceTypes, PhaseInv, [JwNext]_jwVars
             PROVE  RingTypes'
  OBVIOUS
<1>1. CASE SubmitRequest
  <2>1. requests' \in Seq(Ids) /\ Len(requests') <= RingCap
    <3>1. CASE Len(requests) < RingCap
      <4>1. requests' = Append(requests, nextId) /\ nextId \in Ids
        BY <1>1, <3>1 DEF SubmitRequest
      <4>2. requests \in Seq(Ids) /\ Len(requests) \in Nat /\ RingCap \in Nat
        BY JailAssumption DEF RingTypes
      <4>3. requests' \in Seq(Ids) /\ Len(requests') = Len(requests) + 1
        BY <4>1, <4>2, AppendProperties
      <4> QED BY <3>1, <4>2, <4>3
    <3>2. CASE Len(requests) = RingCap
      BY <1>1, <3>2, JailAssumption DEF SubmitRequest, RingTypes
    <3> QED BY <1>1, <3>1, <3>2 DEF SubmitRequest
  <2>2. UNCHANGED <<events, batch, polled>>
    BY <1>1 DEF SubmitRequest
  <2> QED BY <2>1, <2>2 DEF RingTypes
<1>2. CASE CountRequest \/ Stop
  BY <1>2 DEF CountRequest, Stop, coreVars, RingTypes
<1>3. ASSUME NEW room \in 1..RingCap, PollEvents(room)
      PROVE  RingTypes'
  <2>1. requests' = requests /\ polled' = polled
    BY <1>3 DEF PollEvents
  <2>2. Len(batch') \in Nat /\ Len(events') \in Nat /\ Len(events') <= RingCap
    BY <1>3, PolledPart, JailAssumption DEF RingTypes
  <2> QED BY <1>3, <2>1, <2>2, PolledPart DEF RingTypes
<1>4. CASE CountEvents
  BY <1>4 DEF CountEvents, RingTypes
<1>5. CASE PollRequest
  <2>1. requests' \in Seq(Ids) /\ Len(requests') <= RingCap
    <3>1. CASE requests # <<>>
      <4>1. Tail(requests) \in Seq(Ids) /\ Len(Tail(requests)) = Len(requests) - 1
        BY <3>1, HeadTailProperties DEF RingTypes
      <4>2. Len(requests) \in Nat /\ Len(requests) <= RingCap /\ RingCap \in Nat
        BY JailAssumption DEF RingTypes
      <4> QED BY <1>5, <3>1, <4>1, <4>2 DEF PollRequest
    <3>2. CASE requests = <<>>
      BY <1>5, <3>2 DEF PollRequest, RingTypes
    <3> QED BY <3>1, <3>2
  <2>2. UNCHANGED <<events, batch, polled>>
    BY <1>5 DEF PollRequest, coreVars
  <2> QED BY <2>1, <2>2 DEF RingTypes
<1>6. CASE SubmitEvent
  <2>1. cur \in Ids
    BY <1>6 DEF SubmitEvent, PhaseInv, PlaceTypes
  <2>2. events' \in Seq(Ids) /\ Len(events') <= RingCap
    <3>1. CASE Len(events) < RingCap
      <4>1. events' = Append(events, cur)
        BY <1>6, <3>1 DEF SubmitEvent
      <4>2. events \in Seq(Ids) /\ Len(events) \in Nat /\ RingCap \in Nat
        BY JailAssumption DEF RingTypes
      <4>3. events' \in Seq(Ids) /\ Len(events') = Len(events) + 1
        BY <2>1, <4>1, <4>2, AppendProperties
      <4> QED BY <3>1, <4>2, <4>3
    <3>2. CASE Len(events) = RingCap
      BY <1>6, <3>2, JailAssumption DEF SubmitEvent, RingTypes
    <3> QED BY <1>6, <3>1, <3>2 DEF SubmitEvent
  <2>3. UNCHANGED <<requests, batch, polled>>
    BY <1>6 DEF SubmitEvent, coreVars
  <2> QED BY <2>2, <2>3 DEF RingTypes
<1>7. CASE Start \/ CheckStop \/ Execute \/ CountDrop \/ Account
  BY <1>7 DEF Start, CheckStop, Execute, CountDrop, Account, coreVars, RingTypes
<1>8. CASE UNCHANGED jwVars
  BY <1>8 DEF jwVars, coreVars, RingTypes
<1> QED BY <1>1, <1>2, <1>3, <1>4, <1>5, <1>6, <1>7, <1>8 DEF JwNext, CoreNext, WorkerNext

LEMMA PlaceTypesInv ==
  RingTypes /\ PlaceTypes /\ PhaseInv /\ [JwNext]_jwVars => PlaceTypes' /\ PhaseInv'
<1> SUFFICES ASSUME RingTypes, PlaceTypes, PhaseInv, [JwNext]_jwVars
             PROVE  PlaceTypes' /\ PhaseInv'
  OBVIOUS
<1>1. CASE SubmitRequest
  <2>1. nextId' \in 1..(MaxRequests + 1)
    BY <1>1, JailAssumption DEF SubmitRequest, Ids
  <2> QED BY <1>1, <2>1 DEF SubmitRequest, workerVars, PlaceTypes, PhaseInv
<1>2. CASE CountRequest
  BY <1>2 DEF CountRequest, workerVars, PlaceTypes, PhaseInv
<1>3. ASSUME NEW room \in 1..RingCap, PollEvents(room)
      PROVE  PlaceTypes' /\ PhaseInv'
  BY <1>3 DEF PollEvents, workerVars, PlaceTypes, PhaseInv
<1>4. CASE CountEvents
  BY <1>4 DEF CountEvents, workerVars, PlaceTypes, PhaseInv
<1>5. CASE Stop
  BY <1>5 DEF Stop, coreVars, workerVars, PlaceTypes, PhaseInv
<1>6. CASE Start \/ CheckStop
  BY <1>6 DEF Start, CheckStop, coreVars, PlaceTypes, PhaseInv
<1>7. CASE PollRequest
  <2>1. requests # <<>> => Head(requests) \in Ids /\ Head(requests) # NoRequest
    BY IdsAreNat DEF RingTypes
  <2> QED BY <1>7, <2>1 DEF PollRequest, coreVars, PlaceTypes, PhaseInv
<1>8. CASE Execute
  BY <1>8 DEF Execute, coreVars, PlaceTypes, PhaseInv
<1>9. CASE SubmitEvent
  <2>1. IsFiniteSet(lost')
    BY <1>9, FS_AddElement DEF SubmitEvent, PhaseInv
  <2>2. cur \in Ids
    BY <1>9 DEF SubmitEvent, PhaseInv, PlaceTypes
  <2> QED BY <1>9, <2>1, <2>2 DEF SubmitEvent, coreVars, PlaceTypes, PhaseInv
<1>10. CASE CountDrop
  BY <1>10 DEF CountDrop, coreVars, PlaceTypes, PhaseInv
<1>11. CASE Account
  BY <1>11 DEF Account, coreVars, PlaceTypes, PhaseInv
<1>12. CASE UNCHANGED jwVars
  BY <1>12 DEF jwVars, coreVars, workerVars, PlaceTypes, PhaseInv
<1> QED
  BY <1>1, <1>2, <1>3, <1>4, <1>5, <1>6, <1>7, <1>8, <1>9, <1>10, <1>11, <1>12, SMTT(30)
  DEF JwNext, CoreNext, WorkerNext

LEMMA CounterTypesInv == RingTypes /\ CounterTypes /\ [JwNext]_jwVars => CounterTypes'
<1> SUFFICES ASSUME RingTypes, CounterTypes, [JwNext]_jwVars
             PROVE  CounterTypes'
  OBVIOUS
<1>1. CASE SubmitRequest \/ Stop \/ (\E room \in 1..RingCap : PollEvents(room))
  BY <1>1, Zenon DEF SubmitRequest, Stop, PollEvents, workerVars, CounterTypes
<1>2. CASE CountRequest
  BY <1>2 DEF CountRequest, Count, workerVars, CounterTypes
<1>3. CASE CountEvents
  <2>1. Len(batch) \in Nat
    BY DEF RingTypes
  <2>2. channel.total_events + Len(batch) \in Nat
    BY <2>1 DEF CounterTypes
  <2>3. channel' = [channel EXCEPT !["total_events"] = channel.total_events + Len(batch)]
    BY <1>3 DEF CountEvents, Count
  <2>4. stats' = stats
    BY <1>3 DEF CountEvents, workerVars
  <2> QED BY <2>2, <2>3, <2>4 DEF CounterTypes
<1>4. CASE Start \/ CheckStop \/ PollRequest \/ SubmitEvent
  BY <1>4 DEF Start, CheckStop, PollRequest, SubmitEvent, CounterTypes
<1>5. CASE Execute
  BY <1>5 DEF Execute, CounterTypes
<1>6. CASE CountDrop
  BY <1>6 DEF CountDrop, Count, CounterTypes
<1>7. CASE Account
  <2>1. CASE ok
    <3>1. stats' = [stats EXCEPT !["processed"] = @ + 1, !["succeeded"] = @ + 1]
      BY <1>7, <2>1, Zenon DEF Account
    <3>2. channel' = channel
      BY <1>7 DEF Account
    <3> QED BY <3>1, <3>2 DEF CounterTypes
  <2>2. CASE ~ok
    <3>1. stats' = [stats EXCEPT !["processed"] = @ + 1, !["failed"] = @ + 1]
      BY <1>7, <2>2, Zenon DEF Account
    <3>2. channel' = channel
      BY <1>7 DEF Account
    <3> QED BY <3>1, <3>2 DEF CounterTypes
  <2> QED BY <2>1, <2>2
<1>8. CASE UNCHANGED jwVars
  BY <1>8 DEF jwVars, workerVars, CounterTypes
<1> QED BY <1>1, <1>2, <1>3, <1>4, <1>5, <1>6, <1>7, <1>8, SMTT(30) DEF JwNext, CoreNext, WorkerNext

LEMMA TypeInv == JwTypeOK /\ PhaseInv /\ [JwNext]_jwVars => JwTypeOK' /\ PhaseInv'
<1>1. RingTypes' /\ PlaceTypes' /\ CounterTypes' => JwTypeOK'
  BY DEF JwTypeOK, RingTypes, PlaceTypes, CounterTypes
<1> QED BY Types, <1>1, RingTypesInv, PlaceTypesInv, CounterTypesInv

-----------------------------------------------------------------------------
(* The line of ids *)

LEMMA LineTypes ==
  ASSUME JwTypeOK, PhaseInv
  PROVE  /\ InHand \in Seq(Ids) /\ Line \in Seq(Ids) /\ Line \in Seq(Nat)
         /\ nextId \in Nat /\ lost \in SUBSET Nat
<1>1. InHand \in Seq(Ids)
  BY DEF InHand, JwTypeOK, PhaseInv
<1>2. Line \in Seq(Ids)
  BY <1>1 DEF Line, JwTypeOK
<1>3. Line \in Seq(Nat)
  BY <1>2, IdsAreNat, SeqMonotonic, Zenon
<1> QED BY <1>1, <1>2, <1>3, IdsAreNat, JailAssumption DEF JwTypeOK

LEMMA IdsAssociative == \A s, t, u \in Seq(Ids) : (s \o t) \o u = s \o (t \o u)
  BY ConcatAssociative

\* The steps that move ids along the line, or leave it alone.
LEMMA LineMoves ==
  ASSUME JwTypeOK, PhaseInv,
         \/ CountRequest \/ (\E room \in 1..RingCap : PollEvents(room)) \/ CountEvents
         \/ Stop \/ Start \/ CheckStop \/ PollRequest \/ Execute \/ CountDrop \/ Account
  PROVE  Line' = Line /\ nextId' = nextId /\ lost' = lost
<1>0. polled \in Seq(Ids) /\ batch \in Seq(Ids) /\ events \in Seq(Ids) /\ requests \in Seq(Ids)
  BY DEF JwTypeOK
<1> USE <1>0
<1>1. ASSUME NEW room \in 1..RingCap, PollEvents(room)
      PROVE  Line' = Line /\ nextId' = nextId /\ lost' = lost
  <2>1. /\ batch' \in Seq(Ids) /\ events' \in Seq(Ids) /\ batch' \o events' = events
    BY <1>1, Types, PolledPart
  <2>2. /\ polled' = polled /\ InHand' = InHand /\ requests' = requests
        /\ nextId' = nextId /\ lost' = lost /\ batch = <<>>
    BY <1>1 DEF PollEvents, workerVars, InHand, PhaseInv
  <2>3. (polled \o batch') \o events' = polled \o events
    <3>1. polled \in Seq(Ids)
      BY <1>0
    <3>2. (polled \o batch') \o events' = polled \o (batch' \o events')
      BY <2>1, <3>1, IdsAssociative, Zenon
    <3> QED BY <2>1, <3>2
  <2>4. (polled \o <<>>) \o events = polled \o events
    BY ConcatEmptySeq
  <2> QED BY <2>2, <2>3, <2>4 DEF Line
<1>2. CASE CountEvents
  <2>1. polled' = polled \o batch /\ batch' = <<>> /\ events' = events /\ InHand' = InHand
        /\ requests' = requests /\ nextId' = nextId /\ lost' = lost
    BY <1>2 DEF CountEvents, workerVars, InHand
  <2>2. (polled \o batch) \o <<>> = polled \o batch
    BY ConcatEmptySeq, ConcatProperties
  <2> QED BY <2>1, <2>2 DEF Line
<1>3. CASE PollRequest /\ requests # <<>>
  <2>1. /\ requests' = Tail(requests) /\ InHand = <<>> /\ InHand' = <<Head(requests)>>
        /\ polled' = polled /\ batch' = batch /\ events' = events
        /\ nextId' = nextId /\ lost' = lost
    BY <1>3 DEF PollRequest, coreVars, InHand
  <2> DEFINE p == polled \o batch \o events
  <2>2. p \in Seq(Ids)
    OBVIOUS
  <2>3. /\ <<Head(requests)>> \in Seq(Ids) /\ Tail(requests) \in Seq(Ids)
        /\ <<Head(requests)>> \o Tail(requests) = requests
    BY <1>3
  <2> HIDE DEF p
  <2>4. (p \o <<Head(requests)>>) \o Tail(requests) = p \o requests
    <3>1. (p \o <<Head(requests)>>) \o Tail(requests) = p \o (<<Head(requests)>> \o Tail(requests))
      BY <2>2, <2>3, IdsAssociative, Zenon
    <3> QED BY <2>3, <3>1
  <2>5. (p \o <<>>) \o requests = p \o requests
    BY <2>2, ConcatEmptySeq
  <2>6. Line = (p \o <<>>) \o requests /\ Line' = (p \o <<Head(requests)>>) \o Tail(requests)
    BY <2>1 DEF Line, p
  <2> QED BY <2>1, <2>4, <2>5, <2>6, Zenon
<1>4. CASE PollRequest /\ requests = <<>>
  BY <1>4 DEF PollRequest, coreVars, InHand, Line
<1>5. CASE Execute
  BY <1>5 DEF Execute, coreVars, InHand, Line
<1>6. CASE CountRequest \/ Stop
  BY <1>6, Zenon DEF CountRequest, Stop, coreVars, workerVars, InHand, Line
<1>7. CASE Start \/ CheckStop \/ CountDrop \/ Account
  BY <1>7, Zenon DEF Start, CheckStop, CountDrop, Account, coreVars, InHand, Line
<1> QED BY <1>1, <1>2, <1>3, <1>4, <1>5, <1>6, <1>7

LEMMA SubmitRequestOrder ==
  ASSUME IInv, SubmitRequest
  PROVE  InOrder(Line, nextId, lost)'
<1> DEFINE p == polled \o batch \o events \o InHand
<1>1. /\ Line \in Seq(Nat) /\ nextId \in Nat /\ lost \in SUBSET Nat /\ InHand \in Seq(Ids)
      /\ InOrder(Line, nextId, lost)
  BY LineTypes DEF IInv
<1>2. p \in Seq(Ids) /\ requests \in Seq(Ids)
  BY <1>1 DEF IInv, JwTypeOK
<1>3. /\ nextId' = nextId + 1 /\ lost' = lost /\ nextId \in Ids
      /\ polled' = polled /\ batch' = batch /\ events' = events /\ InHand' = InHand
  BY DEF SubmitRequest, workerVars, InHand
<1>4. Line = p \o requests /\ Line' = p \o requests'
  BY <1>3 DEF Line
<1> HIDE DEF p
<1>5. CASE requests' = requests
  BY <1>1, <1>3, <1>4, <1>5, OrderLater, Zenon
<1>6. CASE requests' = Append(requests, nextId)
  <2>1. Line' = Append(Line, nextId)
    BY <1>2, <1>3, <1>4, <1>6
  <2>2. InOrder(Append(Line, nextId), nextId + 1, lost)
    BY <1>1, OrderAppend
  <2> QED BY <1>3, <2>1, <2>2
<1> QED BY <1>5, <1>6 DEF SubmitRequest

LEMMA SubmitEventOrder ==
  ASSUME IInv, SubmitEvent
  PROVE  /\ InOrder(Line, nextId, lost)'
         /\ Len(events) = RingCap => cur \notin lost
<1> DEFINE p == polled \o batch \o events
<1>1. /\ Line \in Seq(Nat) /\ nextId \in Nat /\ lost \in SUBSET Nat
      /\ InOrder(Line, nextId, lost)
  BY LineTypes DEF IInv
<1>2. p \in Seq(Ids) /\ requests \in Seq(Ids) /\ events \in Seq(Ids) /\ polled \o batch \in Seq(Ids)
  BY DEF IInv, JwTypeOK
<1>3. /\ nextId' = nextId /\ requests' = requests /\ polled' = polled /\ batch' = batch
      /\ InHand = <<cur>> /\ InHand' = <<>>
  BY DEF SubmitEvent, coreVars, InHand
<1>4. cur \in Ids /\ cur \in Nat
  BY IdsAreNat DEF SubmitEvent, IInv, PhaseInv, JwTypeOK
<1>5. Line = (p \o <<cur>>) \o requests
  BY <1>3 DEF Line
<1>6. CASE Len(events) < RingCap
  <2>1. events' = Append(events, cur) /\ lost' = lost
    BY <1>6, SMTT(30) DEF SubmitEvent, IInv, JwTypeOK
  <2>2. (polled \o batch) \o Append(events, cur) = p \o <<cur>>
    BY <1>2, <1>4, AppendIsConcat, ConcatAssociative, SMTT(30)
  <2>3. (p \o <<cur>>) \o <<>> = p \o <<cur>>
    BY <1>2, <1>4
  <2>4. Line' = (p \o <<cur>>) \o requests
    BY <1>3, <2>1, <2>2, <2>3 DEF Line
  <2> QED BY <1>1, <1>3, <1>5, <1>6, <2>1, <2>4, SMTT(30) DEF IInv, JwTypeOK
<1>7. CASE Len(events) = RingCap
  <2>1. events' = events /\ lost' = lost \cup {cur}
    BY <1>7, JailAssumption DEF SubmitEvent
  <2>2. p \o <<>> = p
    BY <1>2, ConcatEmptySeq
  <2>3. Line' = p \o requests
    BY <1>3, <2>1, <2>2 DEF Line
  <2>4. p \in Seq(Nat) /\ requests \in Seq(Nat)
    BY <1>2, IdsAreNat, SeqMonotonic, Zenon
  <2> HIDE DEF p
  <2>5. cur \notin lost /\ InOrder(p \o requests, nextId, lost \cup {cur})
    BY <1>1, <1>4, <1>5, <2>4, OrderLose, Zenon
  <2> QED BY <1>3, <2>1, <2>3, <2>5
<1> QED BY <1>6, <1>7 DEF SubmitEvent

LEMMA OrderInv == IInv /\ [JwNext]_jwVars => InOrder(Line, nextId, lost)'
<1> SUFFICES ASSUME IInv, [JwNext]_jwVars
             PROVE  InOrder(Line, nextId, lost)'
  OBVIOUS
<1>1. CASE SubmitRequest
  BY <1>1, SubmitRequestOrder
<1>2. CASE SubmitEvent
  BY <1>2, SubmitEventOrder
<1>3. CASE \/ CountRequest \/ (\E room \in 1..RingCap : PollEvents(room)) \/ CountEvents
           \/ Stop \/ Start \/ CheckStop \/ PollRequest \/ Execute \/ CountDrop \/ Account
  BY <1>3, LineMoves DEF IInv
<1>4. CASE UNCHANGED jwVars
  <2>1. Line' = Line /\ nextId' = nextId /\ lost' = lost
    BY <1>4 DEF jwVars, coreVars, workerVars, Line, InHand
  <2> QED BY <2>1 DEF IInv
<1> QED BY <1>1, <1>2, <1>3, <1>4 DEF JwNext, CoreNext, WorkerNext

-----------------------------------------------------------------------------
(* The counters *)

LEMMA CountersInv == IInv /\ [JwNext]_jwVars => CountersReconcile'
<1> SUFFICES ASSUME IInv, [JwNext]_jwVars
             PROVE  CountersReconcile'
  OBVIOUS
<1>0. RingTypes /\ PlaceTypes /\ CounterTypes /\ PhaseInv /\ CountersReconcile
  BY Types DEF IInv
<1>n. /\ Len(requests) \in Nat /\ Len(events) \in Nat /\ Len(batch) \in Nat
      /\ channel.total_requests \in Nat /\ channel.total_events \in Nat
      /\ channel.dropped_events \in Nat
      /\ stats.processed \in Nat /\ stats.succeeded \in Nat /\ stats.failed \in Nat
      /\ Cardinality(lost) \in Nat
  BY <1>0, FS_CardinalityType DEF RingTypes, CounterTypes, PhaseInv
<1>r1. channel.total_requests + One(corePc = "count_request")
        = Len(requests) + One(cur # NoRequest) + stats.processed
  BY <1>0 DEF CountersReconcile
<1>r2. stats.processed + One(workerPc \in {"count_drop", "account"})
        = Len(events) + channel.total_events + Len(batch)
          + channel.dropped_events + One(workerPc = "count_drop")
  BY <1>0 DEF CountersReconcile
<1>r3. stats.processed = stats.succeeded + stats.failed
  BY <1>0 DEF CountersReconcile
<1>r4. channel.dropped_events + One(workerPc = "count_drop") = Cardinality(lost)
  BY <1>0 DEF CountersReconcile
<1>1. CASE SubmitRequest
  <2>1. \/ Len(requests') = Len(requests) + 1 /\ corePc' = "count_request"
        \/ requests' = requests /\ corePc' = "count_drop"
    BY <1>0, <1>1 DEF SubmitRequest, RingTypes
  <2>2. /\ corePc = "idle" /\ cur' = cur /\ stats' = stats /\ workerPc' = workerPc /\ events' = events
        /\ channel' = channel /\ batch' = batch /\ lost' = lost
    BY <1>1 DEF SubmitRequest, workerVars
  <2>3. CASE Len(requests') = Len(requests) + 1 /\ corePc' = "count_request"
    <3>1. One(corePc = "count_request") = 0 /\ One(corePc' = "count_request") = 1
      BY <2>2, <2>3 DEF One
    <3>2. One(cur # NoRequest) \in Nat
      BY DEF One
    <3>3. channel'.total_requests + One(corePc' = "count_request")
        = Len(requests') + One(cur' # NoRequest) + stats'.processed
      BY <1>r1, <1>n, <2>2, <2>3, <3>1, <3>2, SMTT(30)
    <3> QED BY <1>r2, <1>r3, <1>r4, <2>2, <2>3, <3>1, <3>2, <3>3, SMTT(30) DEF CountersReconcile
  <2>4. CASE requests' = requests /\ corePc' = "count_drop"
    <3>1. One(corePc = "count_request") = 0 /\ One(corePc' = "count_request") = 0
      BY <2>2, <2>4 DEF One
    <3> QED BY <1>0, <1>n, <2>2, <2>4, <3>1 DEF CountersReconcile
  <2> QED BY <2>1, <2>3, <2>4
<1>2. CASE CountRequest
  <2>1. /\ \/ /\ corePc = "count_request"
              /\ channel'.total_requests = channel.total_requests + 1
           \/ corePc = "count_drop" /\ channel'.total_requests = channel.total_requests
        /\ channel'.total_events = channel.total_events
        /\ channel'.dropped_events = channel.dropped_events
    BY <1>0, <1>2 DEF CountRequest, Count, CounterTypes
  <2>2. /\ corePc' = "idle" /\ cur' = cur /\ stats' = stats /\ workerPc' = workerPc /\ events' = events
        /\ requests' = requests /\ batch' = batch /\ lost' = lost
    BY <1>2 DEF CountRequest, workerVars
  <2> QED BY <1>0, <1>n, <2>1, <2>2 DEF CountersReconcile, One
<1>3. ASSUME NEW room \in 1..RingCap, PollEvents(room)
      PROVE  CountersReconcile'
  <2>1. Len(batch') + Len(events') = Len(events) /\ Len(batch') \in Nat /\ Len(events') \in Nat
    BY <1>0, <1>3, PolledPart
  <2>2. /\ corePc = "idle" /\ corePc' = "count_events" /\ Len(batch) = 0
        /\ cur' = cur /\ stats' = stats /\ workerPc' = workerPc
        /\ requests' = requests /\ channel' = channel /\ lost' = lost
    BY <1>0, <1>3 DEF PollEvents, workerVars, PhaseInv
  <2>3. /\ One(corePc = "count_request") = 0 /\ One(corePc' = "count_request") = 0
        /\ One(cur # NoRequest) \in Nat /\ One(workerPc = "count_drop") \in Nat
        /\ One(workerPc \in {"count_drop", "account"}) \in Nat
    BY <2>2 DEF One
  <2>4. channel'.total_requests + One(corePc' = "count_request")
        = Len(requests') + One(cur' # NoRequest) + stats'.processed
    BY <1>r1, <1>n, <2>1, <2>2, <2>3, SMTT(30)
  <2>5. stats'.processed + One(workerPc' \in {"count_drop", "account"})
        = Len(events') + channel'.total_events + Len(batch')
          + channel'.dropped_events + One(workerPc' = "count_drop")
    <3>1. Len(events) + channel.total_events + Len(batch)
            = Len(events') + channel.total_events + Len(batch')
      <4> DEFINE e == Len(events)   b == Len(batch)   t == channel.total_events
                 e2 == Len(events')  b2 == Len(batch')
      <4>1. /\ e \in Nat /\ t \in Nat /\ b \in Nat /\ e2 \in Nat /\ b2 \in Nat
            /\ b = 0 /\ b2 + e2 = e
        BY <1>n, <2>1, <2>2
      <4> HIDE DEF e, b, t, e2, b2
      <4>2. e + t + b = e2 + t + b2
        BY <4>1
      <4> QED BY <4>2 DEF e, b, t, e2, b2
    <3> QED BY <1>r2, <2>2, <3>1
  <2> QED BY <1>r3, <1>r4, <2>1, <2>2, <2>3, <2>4, <2>5, SMTT(30) DEF CountersReconcile
<1>4. CASE CountEvents
  <2>1. /\ channel'.total_requests = channel.total_requests
        /\ channel'.total_events = channel.total_events + Len(batch)
        /\ channel'.dropped_events = channel.dropped_events
    BY <1>0, <1>4, <1>n DEF CountEvents, Count, CounterTypes
  <2>2. /\ corePc = "count_events" /\ corePc' = "idle" /\ Len(batch') = 0
        /\ cur' = cur /\ stats' = stats /\ workerPc' = workerPc
        /\ requests' = requests /\ events' = events /\ lost' = lost
    BY <1>4 DEF CountEvents, workerVars
  <2> QED BY <1>0, <1>n, <2>1, <2>2 DEF CountersReconcile, One
<1>5. CASE Stop
  BY <1>0, <1>5 DEF Stop, coreVars, workerVars, CountersReconcile
<1>6. CASE Start \/ CheckStop
  <2>1. /\ workerPc \notin {"count_drop", "account"} /\ workerPc' \notin {"count_drop", "account"}
        /\ UNCHANGED <<corePc, cur, stats, requests, events, channel, batch, lost>>
    BY <1>6 DEF Start, CheckStop, coreVars
  <2> QED BY <1>0, <1>n, <2>1 DEF CountersReconcile, One
<1>7. CASE PollRequest
  <2>1. /\ workerPc = "poll" /\ cur = NoRequest
        /\ UNCHANGED <<corePc, stats, events, channel, batch, lost>>
    BY <1>0, <1>7 DEF PollRequest, coreVars, PhaseInv
  <2>2. CASE requests = <<>>
    <3>1. workerPc' = "check" /\ UNCHANGED <<cur, requests>>
      BY <1>7, <2>2 DEF PollRequest
    <3> QED BY <1>0, <1>n, <2>1, <3>1, SMTT(30) DEF CountersReconcile, One
  <2>3. CASE requests # <<>>
    <3>1. workerPc' = "execute" /\ cur' # NoRequest /\ Len(requests') = Len(requests) - 1
      BY <1>0, <1>7, <2>3, IdsAreNat DEF PollRequest, RingTypes
    <3> QED BY <1>0, <1>n, <2>1, <3>1, SMTT(30) DEF CountersReconcile, One
  <2> QED BY <2>2, <2>3
<1>8. CASE Execute
  <2>1. /\ workerPc = "execute" /\ workerPc' = "submit"
        /\ stats'.processed = stats.processed /\ stats'.succeeded = stats.succeeded
        /\ stats'.failed = stats.failed
        /\ UNCHANGED <<corePc, cur, requests, events, channel, batch, lost>>
    BY <1>0, <1>8 DEF Execute, coreVars, CounterTypes
  <2> QED BY <1>0, <1>n, <2>1 DEF CountersReconcile, One
<1>9. CASE SubmitEvent
  <2>1. /\ workerPc = "submit"
        /\ UNCHANGED <<corePc, cur, requests, stats, channel, batch>>
    BY <1>9 DEF SubmitEvent, coreVars
  <2>2. CASE Len(events) < RingCap
    <3>1. workerPc' = "account" /\ lost' = lost /\ Len(events') = Len(events) + 1
      BY <1>0, <1>9, <2>2, JailAssumption, SMTT(30) DEF SubmitEvent, RingTypes
    <3>2. /\ One(corePc = "count_request") \in Nat /\ One(cur # NoRequest) \in Nat
          /\ One(workerPc = "count_drop") = 0 /\ One(workerPc' = "count_drop") = 0
          /\ One(workerPc \in {"count_drop", "account"}) = 0
          /\ One(workerPc' \in {"count_drop", "account"}) = 1
      BY <2>1, <3>1 DEF One
    <3>3. stats'.processed + One(workerPc' \in {"count_drop", "account"})
        = Len(events') + channel'.total_events + Len(batch')
          + channel'.dropped_events + One(workerPc' = "count_drop")
      <4>1. stats.processed = Len(events) + channel.total_events + Len(batch) + channel.dropped_events
        BY <1>r2, <1>n, <3>2, SMTT(30)
      <4>2. Len(events') + channel.total_events + Len(batch) + channel.dropped_events
              = (Len(events) + channel.total_events + Len(batch) + channel.dropped_events) + 1
        <5> DEFINE e == Len(events)   b == Len(batch)   t == channel.total_events
                   d == channel.dropped_events   e2 == Len(events')
        <5>1. e \in Nat /\ t \in Nat /\ b \in Nat /\ d \in Nat /\ e2 = e + 1
          BY <1>n, <3>1
        <5> HIDE DEF e, b, t, d, e2
        <5>2. e2 + t + b + d = (e + t + b + d) + 1
          BY <5>1
        <5> QED BY <5>2 DEF e, b, t, d, e2
      <4>3. Len(events') + channel.total_events + Len(batch) + channel.dropped_events
              = stats.processed + 1
        BY <4>1, <4>2
      <4> QED BY <1>n, <2>1, <3>2, <4>3, SMTT(30)
    <3>4. channel'.dropped_events + One(workerPc' = "count_drop") = Cardinality(lost')
      BY <1>r4, <1>n, <2>1, <3>1, <3>2, SMTT(30)
    <3> QED BY <1>r1, <1>r3, <2>1, <3>1, <3>2, <3>3, <3>4, SMTT(30) DEF CountersReconcile
  <2>3. CASE Len(events) = RingCap
    <3>1. workerPc' = "count_drop" /\ lost' = lost \cup {cur} /\ events' = events
      BY <1>9, <2>3, JailAssumption DEF SubmitEvent
    <3>2. cur \notin lost
      BY <1>9, <2>3, SubmitEventOrder
    <3>3. Cardinality(lost') = Cardinality(lost) + 1
      BY <1>0, <3>1, <3>2, FS_AddElement, SMTT(30) DEF PhaseInv
    <3>4. /\ One(corePc = "count_request") \in Nat /\ One(cur # NoRequest) \in Nat
          /\ One(workerPc = "count_drop") = 0 /\ One(workerPc' = "count_drop") = 1
          /\ One(workerPc \in {"count_drop", "account"}) = 0
          /\ One(workerPc' \in {"count_drop", "account"}) = 1
      BY <2>1, <3>1, SMTT(30) DEF One
    <3>5. stats'.processed + One(workerPc' \in {"count_drop", "account"})
        = Len(events') + channel'.total_events + Len(batch')
          + channel'.dropped_events + One(workerPc' = "count_drop")
      <4> DEFINE sum == Len(events) + channel.total_events + Len(batch) + channel.dropped_events
      <4>1. sum \in Nat
        BY <1>n
      <4>2. /\ stats'.processed = stats.processed /\ stats.processed \in Nat
            /\ Len(events') + channel'.total_events + Len(batch') + channel'.dropped_events = sum
        BY <1>n, <2>1, <3>1
      <4>3. stats.processed + 0 = sum + 0
        BY <1>r2, <3>4
      <4> HIDE DEF sum
      <4> QED BY <3>4, <4>1, <4>2, <4>3
    <3>6. channel'.dropped_events + One(workerPc' = "count_drop") = Cardinality(lost')
      BY <1>r4, <1>n, <2>1, <3>1, <3>3, <3>4
    <3> QED BY <1>r1, <1>r3, <2>1, <3>1, <3>3, <3>4, <3>5, <3>6, SMTT(30) DEF CountersReconcile
  <2> QED BY <1>9, <2>2, <2>3 DEF SubmitEvent
<1>10. CASE CountDrop
  <2>1. /\ channel'.total_requests = channel.total_requests
        /\ channel'.total_events = channel.total_events
        /\ channel'.dropped_events = channel.dropped_events + 1
    BY <1>0, <1>10 DEF CountDrop, Count, CounterTypes
  <2>2. /\ workerPc = "count_drop" /\ workerPc' = "account"
        /\ UNCHANGED <<corePc, cur, stats, requests, events, batch, lost>>
    BY <1>10 DEF CountDrop, coreVars
  <2>3. /\ One(corePc = "count_request") \in Nat /\ One(cur # NoRequest) \in Nat
        /\ One(workerPc = "count_drop") = 1 /\ One(workerPc' = "count_drop") = 0
        /\ One(workerPc \in {"count_drop", "account"}) = 1
        /\ One(workerPc' \in {"count_drop", "account"}) = 1
    BY <2>2 DEF One
  <2>4. channel'.total_requests + One(corePc' = "count_request")
        = Len(requests') + One(cur' # NoRequest) + stats'.processed
    BY <1>r1, <1>n, <2>1, <2>2, <2>3, SMTT(30)
  <2>5. stats'.processed + One(workerPc' \in {"count_drop", "account"})
        = Len(events') + channel'.total_events + Len(batch')
          + channel'.dropped_events + One(workerPc' = "count_drop")
    <3>1. Len(events) + channel.total_events + Len(batch) + channel'.dropped_events
            = Len(events) + channel.total_events + Len(batch) + channel.dropped_events + 1
      <4> DEFINE sum == Len(events) + channel.total_events + Len(batch)
      <4>1. sum \in Nat
        BY <1>n
      <4> HIDE DEF sum
      <4>2. sum + channel'.dropped_events = sum + channel.dropped_events + 1
        BY <1>n, <2>1, <4>1
      <4> QED BY <4>2 DEF sum
    <3>2. stats.processed + 1
            = Len(events) + channel.total_events + Len(batch) + channel'.dropped_events
      BY <1>r2, <2>3, <3>1
    <3>3. Len(events) + channel.total_events + Len(batch) + channel'.dropped_events \in Nat
      BY <1>n, <2>1, SMTT(30)
    <3> QED BY <2>1, <2>2, <2>3, <3>2, <3>3, SMTT(30)
  <2>6. channel'.dropped_events + One(workerPc' = "count_drop") = Cardinality(lost')
    BY <1>r4, <1>n, <2>1, <2>2, <2>3
  <2> QED BY <1>r3, <2>1, <2>2, <2>3, <2>4, <2>5, <2>6 DEF CountersReconcile
<1>11. CASE Account
  <2>1. /\ workerPc = "account" /\ workerPc' = "check" /\ cur # NoRequest /\ cur' = NoRequest
        /\ UNCHANGED <<corePc, requests, events, channel, batch, lost>>
    BY <1>0, <1>11 DEF Account, coreVars, PhaseInv
  <2>4. /\ One(corePc = "count_request") \in Nat
        /\ One(cur # NoRequest) = 1 /\ One(cur' # NoRequest) = 0
        /\ One(workerPc = "count_drop") = 0 /\ One(workerPc' = "count_drop") = 0
        /\ One(workerPc \in {"count_drop", "account"}) = 1
        /\ One(workerPc' \in {"count_drop", "account"}) = 0
    BY <2>1 DEF One
  <2>2. CASE ok
    <3>1. /\ stats'.processed = stats.processed + 1 /\ stats'.succeeded = stats.succeeded + 1
          /\ stats'.failed = stats.failed
      BY <1>0, <1>11, <2>2, SMTT(30) DEF Account, CounterTypes
    <3>2. channel'.total_requests + One(corePc' = "count_request")
        = Len(requests') + One(cur' # NoRequest) + stats'.processed
      BY <1>r1, <1>n, <2>1, <2>4, <3>1, SMTT(30)
    <3>3. stats'.processed + One(workerPc' \in {"count_drop", "account"})
        = Len(events') + channel'.total_events + Len(batch')
          + channel'.dropped_events + One(workerPc' = "count_drop")
      BY <1>r2, <1>n, <2>1, <2>4, <3>1, SMTT(30)
    <3>4. stats'.processed = stats'.succeeded + stats'.failed
      BY <1>r3, <1>n, <2>1, <2>4, <3>1, SMTT(30)
    <3>5. channel'.dropped_events + One(workerPc' = "count_drop") = Cardinality(lost')
      BY <1>r4, <1>n, <2>1, <2>4, <3>1, SMTT(30)
    <3> QED BY <2>1, <2>4, <3>1, <3>2, <3>3, <3>4, <3>5, SMTT(30) DEF CountersReconcile
  <2>3. CASE ~ok
    <3>1. /\ stats'.processed = stats.processed + 1 /\ stats'.failed = stats.failed + 1
          /\ stats'.succeeded = stats.succeeded
      BY <1>0, <1>11, <2>3, SMTT(30) DEF Account, CounterTypes
    <3>2. channel'.total_requests + One(corePc' = "count_request")
        = Len(requests') + One(cur' # NoRequest) + stats'.processed
      BY <1>r1, <1>n, <2>1, <2>4, <3>1, SMTT(30)
    <3>3. stats'.processed + One(workerPc' \in {"count_drop", "account"})
        = Len(events') + channel'.total_events + Len(batch')
          + channel'.dropped_events + One(workerPc' = "count_drop")
      BY <1>r2, <1>n, <2>1, <2>4, <3>1, SMTT(30)
    <3>4. stats'.processed = stats'.succeeded + stats'.failed
      BY <1>r3, <1>n, <2>1, <2>4, <3>1, SMTT(30)
    <3>5. channel'.dropped_events + One(workerPc' = "count_drop") = Cardinality(lost')
      BY <1>r4, <1>n, <2>1, <2>4, <3>1, SMTT(30)
    <3> QED BY <2>1, <2>4, <3>1, <3>2, <3>3, <3>4, <3>5, SMTT(30) DEF CountersReconcile
  <2> QED BY <2>2, <2>3
<1>12. CASE UNCHANGED jwVars
  BY <1>0, <1>12 DEF jwVars, coreVars, workerVars, CountersReconcile
<1> QED
  BY <1>1, <1>2, <1>3, <1>4, <1>5, <1>6, <1>7, <1>8, <1>9, <1>10, <1>11, <1>12, SMTT(30)
  DEF JwNext, CoreNext, WorkerNext

-----------------------------------------------------------------------------
LEMMA InitInv == JwInit => IInv
<1> SUFFICES ASSUME JwInit PROVE IInv
  OBVIOUS
<1>1. JwTypeOK
  <2>1. RingTypes
    BY EmptySeq, JailAssumption DEF JwInit, RingTypes
  <2>2. PlaceTypes
    <3>1. nextId \in 1..(MaxRequests + 1)
      BY JailAssumption DEF JwInit
    <3>2. lost \subseteq Ids /\ cur \in Ids \cup {NoRequest}
      BY DEF JwInit
    <3> QED BY <3>1, <3>2, Zenon DEF JwInit, PlaceTypes
  <2>3. CounterTypes
    BY DEF JwInit, CounterTypes
  <2> QED BY <2>1, <2>2, <2>3, Types
<1>2. PhaseInv
  BY FS_EmptySet DEF JwInit, PhaseInv
<1>3. Line = <<>>
  BY DEF JwInit, Line, InHand
<1>4. InOrder(Line, nextId, lost)
  BY <1>3 DEF JwInit, InOrder
<1>5. CountersReconcile
  BY FS_EmptySet DEF JwInit, CountersReconcile, One
<1> QED BY <1>1, <1>2, <1>4, <1>5 DEF IInv

LEMMA Invariant == JwSpec => []IInv
<1>1. IInv /\ [JwNext]_jwVars => IInv'
  BY TypeInv, OrderInv, CountersInv DEF IInv
<1> QED BY InitInv, <1>1, PTL DEF JwSpec

\* poll_events and run(): for every ring size and any number of requests, events come
\* back in the order of their requests, each at most once, and never for one that
\* submit_event gave up.
THEOREM AnsweredInOrderHolds == JwSpec => []AnsweredInOrder
<1>1. IInv => AnsweredInOrder
  BY DEF IInv, InOrder, AnsweredInOrder
<1> QED BY Invariant, <1>1, PTL

\* The counters of the channel and of the worker account for every request, for every
\* ring size and any number of requests.
THEOREM CountersReconcileHolds == JwSpec => []CountersReconcile
<1>1. IInv => CountersReconcile
  BY DEF IInv
<1> QED BY Invariant, <1>1, PTL
============================================================================
