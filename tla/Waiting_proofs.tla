--------------------------- MODULE Waiting_proofs ---------------------------
(*****************************************************************************)
(* Proofs about what tasks wait on.  The priority-inheritance futex excludes *)
(* any number of tasks.  WaitOnAddress wakes a waiting task once, for any    *)
(* number of tasks, CPUs, addresses and waits.  The channel, for any number  *)
(* of handles and any capacity: the accepted messages come out once and in   *)
(* order, and the wait queue holds each sleeping receiver once and nobody    *)
(* else.                                                                     *)
(*****************************************************************************)
EXTENDS PiFutex, AddressWait, Channel, SequenceTheorems, FiniteSetTheorems, TLAPS

-----------------------------------------------------------------------------
(* The priority-inheritance futex *)

\* A task about to exchange the word has seen it without an owner.
SeenFree == \A t \in PiTasks : pi_at[t] \in {"cas", "last_cas"} => seen[t].owner = Free

Shape ==
  /\ DOMAIN pi_at = PiTasks /\ pi_at = [t \in PiTasks |-> pi_at[t]]
  /\ DOMAIN seen = PiTasks /\ seen = [t \in PiTasks |-> seen[t]]

PiInv == Shape /\ SeenFree /\ PiExclusive

\* What the steps of t leave alone: the place and the reading of the other tasks.
LEMMA Others ==
  ASSUME PiInv, NEW t \in PiTasks, NEW l, to(t, l)
  PROVE  pi_at'[t] = l /\ \A u \in PiTasks \ {t} : pi_at'[u] = pi_at[u]
  BY DEF PiInv, Shape, to

\* Every step takes one task from a place to a place and at most reads the word.
LEMMA ShapeStep == PiInv /\ [PiNext]_piVars => Shape'
  BY Zenon DEF PiInv, Shape, PiNext, piVars, to, read, LockPi, LoadWord, MarkWaiters, EnqueuePi, Spin,
     CasOwner, UnlockPi, StoreFree, DequeuePi

\* Only a reading without an owner leads to an exchange.
LEMMA SeenFreeStep == PiInv /\ [PiNext]_piVars => SeenFree'
  <1> SUFFICES ASSUME PiInv, [PiNext]_piVars PROVE SeenFree'
    OBVIOUS
  <1> USE DEF PiInv, Shape, SeenFree, to, read
  <1>1. ASSUME NEW t \in PiTasks, Spin(t) PROVE SeenFree'
    BY <1>1 DEF Spin
  <1>2. ASSUME NEW t \in PiTasks, LoadWord(t) \/ UnlockPi(t) PROVE SeenFree'
    BY <1>2 DEF LoadWord, UnlockPi
  <1>3. ASSUME NEW t \in PiTasks, LockPi(t) \/ MarkWaiters(t) \/ EnqueuePi(t) \/ CasOwner(t)
                                  \/ StoreFree(t) \/ DequeuePi(t)
        PROVE  SeenFree'
    BY <1>3, Zenon DEF LockPi, MarkWaiters, EnqueuePi, CasOwner, StoreFree, DequeuePi
  <1>4. CASE UNCHANGED piVars
    BY <1>4 DEF piVars
  <1> QED BY <1>1, <1>2, <1>3, <1>4 DEF PiNext

\* The owner field changes only from Free to a task, by that task, and back by it.
LEMMA ExclusiveStep == PiInv /\ [PiNext]_piVars => PiExclusive'
  <1> SUFFICES ASSUME PiInv, [PiNext]_piVars PROVE PiExclusive'
    OBVIOUS
  <1> USE PiAssumption DEF PiAssumption, PiInv, Shape, PiExclusive, to, Word
  <1>1. ASSUME NEW t \in PiTasks, LockPi(t) PROVE PiExclusive'
    BY <1>1 DEF LockPi
  <1>2. ASSUME NEW t \in PiTasks, CasOwner(t) PROVE PiExclusive'
    BY <1>2 DEF CasOwner, SeenFree
  <1>3. ASSUME NEW t \in PiTasks, MarkWaiters(t) PROVE PiExclusive'
    BY <1>3 DEF MarkWaiters
  <1>4. ASSUME NEW t \in PiTasks, StoreFree(t) PROVE PiExclusive'
    BY <1>4 DEF StoreFree
  <1>5. ASSUME NEW t \in PiTasks, LoadWord(t) \/ EnqueuePi(t) \/ Spin(t) \/ UnlockPi(t) \/ DequeuePi(t)
        PROVE  PiExclusive'
    BY <1>5 DEF LoadWord, EnqueuePi, Spin, UnlockPi, DequeuePi
  <1>6. CASE UNCHANGED piVars
    BY <1>6 DEF piVars
  <1> QED BY <1>1, <1>2, <1>3, <1>4, <1>5, <1>6 DEF PiNext

\* Two tasks never hold a priority-inheritance futex at once.
THEOREM PiMutualExclusion == PiSpec => []PiExclusive
  <1>1. PiInit => PiInv
    BY DEF PiInit, PiInv, Shape, SeenFree, PiExclusive
  <1>2. PiInv /\ [PiNext]_piVars => PiInv'
    BY ShapeStep, SeenFreeStep, ExclusiveStep DEF PiInv
  <1>3. PiInv => PiExclusive
    BY DEF PiInv
  <1> QED BY <1>1, <1>2, <1>3, PTL DEF PiSpec

-----------------------------------------------------------------------------
(* WaitOnAddress *)

\* A CPU is between the lock sections of resolve with a box in its hands.
Holding(c) == op[c].at \in {"unindex", "wake"}

\* Ids are handed out in increasing order, so that none is reused while parked.
TableInv ==
  /\ next_waiter_id \in Nat
  /\ \A i \in DOMAIN parked : i \in Nat /\ i < next_waiter_id /\ parked[i].task \in AwTasks
  /\ \A i, j \in DOMAIN parked : parked[i].task = parked[j].task => i = j

OpInv ==
  /\ DOMAIN op = AwCpus
  /\ \A c \in AwCpus : {"at", "task", "ids"} \subseteq DOMAIN op[c]
  /\ \A c \in AwCpus : Holding(c) => op[c].task \in AwTasks
  /\ \A c, d \in AwCpus : Holding(c) /\ Holding(d) /\ op[c].task = op[d].task => c = d

\* A task that runs has its box; one whose box is away is parked or in hand.
BoxInv ==
  /\ box \in [AwTasks -> {"self", "away", "queued"}]
  /\ place \in [AwTasks -> {"run", "index", "asleep"}]
  /\ \A t \in AwTasks : place[t] = "run" => box[t] = "self"
  /\ \A t \in AwTasks : box[t] = "away" =>
       \/ \E i \in DOMAIN parked : parked[i].task = t
       \/ \E c \in AwCpus : Holding(c) /\ op[c].task = t
  /\ \A i \in DOMAIN parked : box[parked[i].task] = "away"
  /\ \A c \in AwCpus : Holding(c) => box[op[c].task] = "away"
  /\ \A i \in DOMAIN parked : \A c \in AwCpus : Holding(c) => op[c].task # parked[i].task

AwInv == TableInv /\ OpInv /\ BoxInv

LEMMA InitInv == AwInit => AwInv
  BY DEF AwInit, AwInv, TableInv, OpInv, BoxInv, Holding, Idle

\* Steps of a CPU that leave the tables and the tasks alone: it holds nothing before
\* and after.
LEMMA EmptyHanded ==
  ASSUME AwInv, NEW c \in AwCpus, ~Holding(c), NEW o,
         op' = [op EXCEPT ![c] = o], {"at", "task", "ids"} \subseteq DOMAIN o,
         o.at \notin {"unindex", "wake"},
         UNCHANGED <<next_waiter_id, parked, box, place>>
  PROVE  AwInv'
<1>1. /\ op'[c] = o
      /\ \A d \in AwCpus \ {c} : op'[d] = op[d]
      /\ DOMAIN op' = AwCpus
  BY DEF AwInv, OpInv
<1>2. /\ ~Holding(c)'
      /\ \A d \in AwCpus \ {c} : Holding(d)' <=> Holding(d)
  BY <1>1 DEF Holding
<1>3. OpInv'
  BY <1>1, <1>2 DEF AwInv, OpInv
<1>4. TableInv'
  BY DEF AwInv, TableInv
<1>5. BoxInv'
  BY <1>1, <1>2 DEF AwInv, BoxInv
<1> QED BY <1>3, <1>4, <1>5 DEF AwInv

\* What the loop over the ids leaves in a CPU's hands: nothing.
LEMMA ResolveEmptyHanded ==
  ASSUME NEW o, NEW ids, {"at", "task", "ids"} \subseteq DOMAIN o
  PROVE  /\ {"at", "task", "ids"} \subseteq DOMAIN Resolve(o, ids)
         /\ Resolve(o, ids).at \notin {"unindex", "wake"}
<1>1. CASE ids = <<>>
  BY <1>1 DEF Resolve, Idle
<1>2. CASE ids # <<>>
  BY <1>2 DEF Resolve
<1> QED BY <1>1, <1>2

LEMMA InsertInv ==
  ASSUME AwInv, NEW t \in AwTasks, Insert(t)
  PROVE  AwInv'
<1>1. /\ next_waiter_id' = next_waiter_id + 1
      /\ DOMAIN parked' = DOMAIN parked \cup {next_waiter_id}
      /\ parked'[next_waiter_id].task = t
      /\ \A i \in DOMAIN parked : parked'[i] = parked[i]
  BY DEF Insert, AwInv, TableInv
<1>2. box[t] = "self"
  BY DEF Insert, AwInv, BoxInv
<1>3. /\ \A i \in DOMAIN parked : parked[i].task # t
      /\ \A c \in AwCpus : Holding(c) => op[c].task # t
  BY <1>2 DEF AwInv, BoxInv
<1>4. TableInv'
  BY <1>1, <1>3 DEF AwInv, TableInv
<1>5. OpInv' /\ \A c \in AwCpus : Holding(c)' <=> Holding(c)
  BY DEF Insert, AwInv, OpInv, Holding
<1>6. /\ box' = [box EXCEPT ![t] = "away"] /\ place' = [place EXCEPT ![t] = "index"]
      /\ op' = op
  BY DEF Insert
<1>7. BoxInv'
  <2>1. box' \in [AwTasks -> {"self", "away", "queued"}]
    BY <1>6 DEF AwInv, BoxInv
  <2>2. place' \in [AwTasks -> {"run", "index", "asleep"}]
    BY <1>6 DEF AwInv, BoxInv
  <2>3. \A u \in AwTasks : place'[u] = "run" => box'[u] = "self"
    BY <1>6 DEF AwInv, BoxInv
  <2>4. ASSUME NEW u \in AwTasks, box'[u] = "away"
        PROVE  \/ \E i \in DOMAIN parked' : parked'[i].task = u
               \/ \E c \in AwCpus : Holding(c)' /\ op'[c].task = u
    <3>1. CASE u = t
      BY <3>1, <1>1
    <3>2. CASE u # t
      BY <2>4, <3>2, <1>1, <1>5, <1>6 DEF AwInv, BoxInv
    <3> QED BY <3>1, <3>2
  <2>5. \A i \in DOMAIN parked' : box'[parked'[i].task] = "away"
    BY <1>1, <1>6 DEF AwInv, BoxInv, TableInv
  <2>6. \A c \in AwCpus : Holding(c)' => box'[op'[c].task] = "away"
    BY <1>3, <1>5, <1>6 DEF AwInv, BoxInv, OpInv
  <2>7. \A i \in DOMAIN parked' : \A c \in AwCpus : Holding(c)' => op'[c].task # parked'[i].task
    BY <1>1, <1>3, <1>5, <1>6 DEF AwInv, BoxInv
  <2> QED BY <2>1, <2>2, <2>3, <2>4, <2>5, <2>6, <2>7, SMTT(30) DEF BoxInv
<1> QED BY <1>4, <1>5, <1>7 DEF AwInv

\* A task goes to sleep, or returns once its box is queued: no box changes hands.
LEMMA BlockingInv ==
  ASSUME AwInv, NEW t \in AwTasks, Blocking(t)
  PROVE  AwInv'
<1>1. TableInv' /\ OpInv' /\ parked' = parked /\ op' = op /\ \A c \in AwCpus : Holding(c)' <=> Holding(c)
  BY DEF Blocking, Index, Resume, AwInv, TableInv, OpInv, Holding
<1>2. CASE Index(t)
  <2>1. box' = box /\ place' = [place EXCEPT ![t] = "asleep"]
    BY <1>2 DEF Index
  <2>2. BoxInv'
    BY <1>1, <2>1 DEF AwInv, BoxInv
  <2> QED BY <1>1, <2>2 DEF AwInv
<1>3. CASE Resume(t)
  <2>1. /\ box[t] = "queued" /\ box' = [box EXCEPT ![t] = "self"]
        /\ place' = [place EXCEPT ![t] = "run"]
    BY <1>3 DEF Resume
  <2>2. \A u \in AwTasks : box'[u] = "away" <=> box[u] = "away"
    BY <2>1 DEF AwInv, BoxInv
  <2>3. \A u \in AwTasks : place'[u] = "run" => box'[u] = "self"
    BY <2>1 DEF AwInv, BoxInv
  <2>4. /\ box' \in [AwTasks -> {"self", "away", "queued"}]
        /\ place' \in [AwTasks -> {"run", "index", "asleep"}]
    BY <2>1 DEF AwInv, BoxInv
  <2>5. BoxInv'
    BY <1>1, <2>2, <2>3, <2>4 DEF AwInv, BoxInv, TableInv, OpInv
  <2> QED BY <1>1, <2>5 DEF AwInv
<1> QED BY <1>2, <1>3, SMTT(30) DEF Blocking

LEMMA TakeBoxInv ==
  ASSUME AwInv, NEW c \in AwCpus, TakeBox(c)
  PROVE  AwInv'
<1> DEFINE id == Head(op[c].ids)
<1>1. /\ op[c].at = "resolve" /\ Grab(c, id)
      /\ parked' = [i \in DOMAIN parked \ {id} |-> parked[i]]
      /\ UNCHANGED <<next_waiter_id, box, place>>
  BY DEF TakeBox, awTasks
<1>2. ~Holding(c)
  BY <1>1 DEF Holding
<1>3. CASE id \notin DOMAIN parked
  <2>1. op' = [op EXCEPT ![c] = Resolve(op[c], Tail(op[c].ids))]
    BY <1>1, <1>3 DEF Grab, AwInv, OpInv
  <2>2. /\ DOMAIN parked' = DOMAIN parked
        /\ \A i \in DOMAIN parked : parked'[i] = parked[i]
    BY <1>1, <1>3
  <2>3. {"at", "task", "ids"} \subseteq DOMAIN op[c]
    BY DEF AwInv, OpInv
  <2>4. /\ {"at", "task", "ids"} \subseteq DOMAIN Resolve(op[c], Tail(op[c].ids))
        /\ Resolve(op[c], Tail(op[c].ids)).at \notin {"unindex", "wake"}
    BY <2>3, ResolveEmptyHanded
  <2>5. /\ DOMAIN op' = AwCpus /\ op'[c] = Resolve(op[c], Tail(op[c].ids))
        /\ \A d \in AwCpus \ {c} : op'[d] = op[d]
    BY <2>1 DEF AwInv, OpInv
  <2>6. /\ ~Holding(c)'
        /\ \A d \in AwCpus \ {c} : Holding(d)' <=> Holding(d)
    BY <2>4, <2>5 DEF Holding
  <2>7. TableInv'
    BY <1>1, <2>2 DEF AwInv, TableInv
  <2>8. OpInv'
    BY <2>4, <2>5, <2>6, SMTT(30) DEF AwInv, OpInv
  <2>9. BoxInv'
    <3>1. ASSUME NEW u \in AwTasks, box'[u] = "away"
          PROVE  \/ \E i \in DOMAIN parked' : parked'[i].task = u
                 \/ \E d \in AwCpus : Holding(d)' /\ op'[d].task = u
      <4>1. CASE \E i \in DOMAIN parked : parked[i].task = u
        BY <4>1, <2>2
      <4>2. CASE \E d \in AwCpus : Holding(d) /\ op[d].task = u
        <5>1. PICK d \in AwCpus : Holding(d) /\ op[d].task = u
          BY <4>2
        <5>2. d # c
          BY <5>1, <1>2
        <5> QED BY <5>1, <5>2, <2>5, <2>6
      <4> QED BY <3>1, <1>1, <4>1, <4>2, Zenon DEF AwInv, BoxInv
    <3>2. \A i \in DOMAIN parked' : box'[parked'[i].task] = "away"
      BY <1>1, <2>2 DEF AwInv, BoxInv
    <3>3. \A d \in AwCpus : Holding(d)' => box'[op'[d].task] = "away"
      BY <1>1, <2>5, <2>6 DEF AwInv, BoxInv
    <3>4. \A i \in DOMAIN parked' : \A d \in AwCpus : Holding(d)' => op'[d].task # parked'[i].task
      BY <2>2, <2>5, <2>6 DEF AwInv, BoxInv
    <3> QED BY <1>1, <3>1, <3>2, <3>3, <3>4, Zenon DEF AwInv, BoxInv
  <2> QED BY <2>7, <2>8, <2>9 DEF AwInv
<1>4. CASE id \in DOMAIN parked
  <2>1. /\ DOMAIN op' = AwCpus
        /\ {"at", "task", "ids"} \subseteq DOMAIN op'[c]
        /\ op'[c].at = "unindex" /\ op'[c].task = parked[id].task
        /\ \A d \in AwCpus \ {c} : op'[d] = op[d]
    BY <1>1, <1>4 DEF Grab, AwInv, OpInv
  <2>2. /\ Holding(c)'
        /\ \A d \in AwCpus \ {c} : Holding(d)' <=> Holding(d)
    BY <2>1 DEF Holding
  <2>3. /\ DOMAIN parked' = DOMAIN parked \ {id}
        /\ \A i \in DOMAIN parked' : parked'[i] = parked[i]
    BY <1>1
  <2>4. /\ parked[id].task \in AwTasks
        /\ \A i \in DOMAIN parked' : parked[i].task # parked[id].task
        /\ \A d \in AwCpus : Holding(d) => op[d].task # parked[id].task
    BY <1>4, <2>3 DEF AwInv, TableInv, BoxInv
  <2>5. TableInv'
    BY <1>1, <2>3 DEF AwInv, TableInv
  <2>6. OpInv'
    BY <2>1, <2>2, <2>4, SMTT(30) DEF AwInv, OpInv
  <2>7. BoxInv'
    <3>1. ASSUME NEW u \in AwTasks, box'[u] = "away"
          PROVE  \/ \E i \in DOMAIN parked' : parked'[i].task = u
                 \/ \E d \in AwCpus : Holding(d)' /\ op'[d].task = u
      <4>1. CASE u = parked[id].task
        BY <4>1, <2>1, <2>2, SMTT(30)
      <4>2. CASE u # parked[id].task
        BY <4>2, <3>1, <1>1, <1>2, <2>1, <2>2, <2>3, SMTT(30) DEF AwInv, BoxInv
      <4> QED BY <4>1, <4>2
    <3>2. \A i \in DOMAIN parked' : box'[parked'[i].task] = "away"
      BY <1>1, <2>3 DEF AwInv, BoxInv
    <3>3. \A d \in AwCpus : Holding(d)' => box'[op'[d].task] = "away"
      BY <1>1, <1>4, <2>1, <2>2, SMTT(30) DEF AwInv, BoxInv
    <3>4. \A i \in DOMAIN parked' : \A d \in AwCpus : Holding(d)' => op'[d].task # parked'[i].task
      BY <2>1, <2>2, <2>3, <2>4 DEF AwInv, BoxInv
    <3> QED BY <1>1, <3>1, <3>2, <3>3, <3>4, Zenon DEF AwInv, BoxInv
  <2> QED BY <2>5, <2>6, <2>7 DEF AwInv
<1> QED BY <1>3, <1>4

LEMMA UnindexInv ==
  ASSUME AwInv, NEW c \in AwCpus, Unindex(c)
  PROVE  AwInv'
<1>1. /\ op[c].at = "unindex" /\ op' = [op EXCEPT ![c].at = "wake"]
      /\ UNCHANGED <<next_waiter_id, parked, box, place>>
  BY DEF Unindex, awTasks
<1>2. /\ DOMAIN op' = AwCpus
      /\ DOMAIN op'[c] = DOMAIN op[c] /\ op'[c].at = "wake" /\ op'[c].task = op[c].task
      /\ \A d \in AwCpus \ {c} : op'[d] = op[d]
  BY <1>1 DEF AwInv, OpInv
<1>3. \A d \in AwCpus : (Holding(d)' <=> Holding(d)) /\ op'[d].task = op[d].task
  BY <1>1, <1>2 DEF Holding
<1>4. TableInv'
  BY <1>1 DEF AwInv, TableInv
<1>5. OpInv'
  BY <1>2, <1>3 DEF AwInv, OpInv
<1>6. BoxInv'
  BY <1>1, <1>3 DEF AwInv, BoxInv
<1> QED BY <1>4, <1>5, <1>6 DEF AwInv

LEMMA WakeBlockedInv ==
  ASSUME AwInv, NEW c \in AwCpus, WakeBlocked(c)
  PROVE  AwInv'
<1> DEFINE o == [op[c] EXCEPT !.held = 0, !.task = "None", !.addresses = <<>>]
           t == op[c].task
<1>1. /\ op[c].at = "wake" /\ op' = [op EXCEPT ![c] = Resolve(o, op[c].ids)]
      /\ box' = [box EXCEPT ![t] = "queued"]
      /\ UNCHANGED <<next_waiter_id, parked, place>>
  BY DEF WakeBlocked, awTables, AwInv, OpInv
<1>2. Holding(c) /\ t \in AwTasks
  BY <1>1 DEF AwInv, OpInv, Holding
<1>3. {"at", "task", "ids"} \subseteq DOMAIN o
  BY DEF AwInv, OpInv
<1>4. /\ {"at", "task", "ids"} \subseteq DOMAIN Resolve(o, op[c].ids)
      /\ Resolve(o, op[c].ids).at \notin {"unindex", "wake"}
  BY <1>3, ResolveEmptyHanded, Zenon
<1>5. /\ DOMAIN op' = AwCpus /\ op'[c] = Resolve(o, op[c].ids)
      /\ \A d \in AwCpus \ {c} : op'[d] = op[d]
  BY <1>1 DEF AwInv, OpInv
<1>6. /\ ~Holding(c)'
      /\ \A d \in AwCpus \ {c} : Holding(d)' <=> Holding(d)
  BY <1>4, <1>5 DEF Holding
<1>7. TableInv'
  BY <1>1 DEF AwInv, TableInv
<1>8. OpInv'
  BY <1>4, <1>5, <1>6 DEF AwInv, OpInv
<1>9. BoxInv'
  <2>1. /\ box' \in [AwTasks -> {"self", "away", "queued"}]
        /\ place' \in [AwTasks -> {"run", "index", "asleep"}]
    BY <1>1, Zenon DEF AwInv, BoxInv
  <2>2. box[t] = "away"
    BY <1>2 DEF AwInv, BoxInv
  <2>3. \A u \in AwTasks : place'[u] = "run" => box'[u] = "self"
    BY <1>1, <1>2, <2>2 DEF AwInv, BoxInv
  <2>4. /\ \A i \in DOMAIN parked : parked[i].task # t
        /\ \A d \in AwCpus \ {c} : Holding(d) => op[d].task # t
    BY <1>2 DEF AwInv, BoxInv, OpInv
  <2>5. ASSUME NEW u \in AwTasks, box'[u] = "away"
        PROVE  \/ \E i \in DOMAIN parked' : parked'[i].task = u
               \/ \E d \in AwCpus : Holding(d)' /\ op'[d].task = u
    <3>1. u # t /\ box[u] = "away"
      BY <2>5, <1>1, <1>2 DEF AwInv, BoxInv
    <3> QED BY <3>1, <1>1, <1>5, <1>6 DEF AwInv, BoxInv
  <2>6. \A i \in DOMAIN parked' : box'[parked'[i].task] = "away"
    BY <1>1, <2>4 DEF AwInv, BoxInv, TableInv
  <2>7. \A d \in AwCpus : Holding(d)' => box'[op'[d].task] = "away"
    BY <1>1, <1>5, <1>6, <2>4 DEF AwInv, BoxInv, OpInv
  <2>8. \A i \in DOMAIN parked' : \A d \in AwCpus : Holding(d)' => op'[d].task # parked'[i].task
    BY <1>1, <1>5, <1>6 DEF AwInv, BoxInv
  <2> QED BY <2>1, <2>3, <2>5, <2>6, <2>7, <2>8 DEF BoxInv
<1> QED BY <1>7, <1>8, <1>9 DEF AwInv

LEMMA StepInv == AwInv /\ [AwNext]_awVars => AwInv'
<1> SUFFICES ASSUME AwInv, [AwNext]_awVars
             PROVE  AwInv'
  OBVIOUS
<1>1. ASSUME NEW t \in AwTasks, Insert(t) \/ Blocking(t)
      PROVE  AwInv'
  BY <1>1, InsertInv, BlockingInv
<1>2. ASSUME NEW c \in AwCpus, Match(c)
      PROVE  AwInv'
  <2> DEFINE o == [op[c] EXCEPT !.mask = {}, !.max = 0]
  <2>1. PICK ids : op' = [op EXCEPT ![c] = Resolve(o, ids)]
    BY <1>2, Zenon DEF Match
  <2>2. {"at", "task", "ids"} \subseteq DOMAIN o
    BY DEF AwInv, OpInv
  <2>3. ~Holding(c) /\ UNCHANGED <<next_waiter_id, parked, box, place>>
    BY <1>2 DEF Match, Holding, awTables, awTasks
  <2> HIDE DEF o
  <2> QED BY <2>1, <2>2, <2>3, ResolveEmptyHanded, EmptyHanded, Zenon
<1>3. ASSUME NEW c \in AwCpus, CheckTimeouts(c)
      PROVE  AwInv'
  <2> DEFINE o == [Idle EXCEPT !.reason = "TimedOut"]
  <2>1. PICK ids : op' = [op EXCEPT ![c] = Resolve(o, ids)]
    BY <1>3, Zenon DEF CheckTimeouts
  <2>2. {"at", "task", "ids"} \subseteq DOMAIN o
    BY DEF Idle
  <2>3. ~Holding(c) /\ UNCHANGED <<next_waiter_id, parked, box, place>>
    BY <1>3, Zenon DEF CheckTimeouts, Holding, awTables, awTasks
  <2> HIDE DEF o
  <2> QED BY <2>1, <2>2, <2>3, ResolveEmptyHanded, EmptyHanded, Zenon
<1>4. ASSUME NEW c \in AwCpus, NEW a \in Addresses, NEW max, NEW mask, WakeMatches(c, a, max, mask)
      PROVE  AwInv'
  <2>1. PICK owed : op' = [op EXCEPT ![c] = [Idle EXCEPT
          !.at = "match", !.addr = a, !.max = max, !.mask = mask, !.ids = address_index[a],
          !.reason = "Signaled", !.owed = owed]]
    BY <1>4, Zenon DEF WakeMatches
  <2> DEFINE o == [Idle EXCEPT
          !.at = "match", !.addr = a, !.max = max, !.mask = mask, !.ids = address_index[a],
          !.reason = "Signaled", !.owed = owed]
  <2>2. {"at", "task", "ids"} \subseteq DOMAIN o /\ o.at = "match"
    BY DEF Idle
  <2>3. ~Holding(c) /\ UNCHANGED <<next_waiter_id, parked, box, place>>
    BY <1>4 DEF WakeMatches, Holding, awTables, awTasks
  <2>4. op' = [op EXCEPT ![c] = o]
    BY <2>1
  <2> HIDE DEF o
  <2> QED BY <2>2, <2>3, <2>4, EmptyHanded, Zenon
<1>5. ASSUME NEW c \in AwCpus, TakeBox(c) \/ Unindex(c) \/ WakeBlocked(c)
      PROVE  AwInv'
  BY <1>5, TakeBoxInv, UnindexInv, WakeBlockedInv, SMTT(30)
<1>6. CASE AwTick \/ UNCHANGED awVars
  BY <1>6 DEF AwTick, awVars, awTables, awTasks, AwInv, TableInv, OpInv, BoxInv, Holding
<1> QED BY <1>1, <1>2, <1>3, <1>4, <1>5, <1>6 DEF AwNext, Resolving

\* Where the box of a task is, as the invariant knows it.
LEMMA OneHolder == AwInv => WokenOnce
<1> SUFFICES ASSUME AwInv, NEW t \in AwTasks
             PROVE  Cardinality(HeldBy(t)) = IF box[t] = "away" THEN 1 ELSE 0
  BY DEF WokenOnce
<1>1. CASE box[t] # "away"
  <2>1. HeldBy(t) = {}
    BY <1>1 DEF HeldBy, AwInv, BoxInv, Holding
  <2> QED BY <1>1, <2>1, FS_EmptySet
<1>2. CASE box[t] = "away"
  <2>1. \E h : HeldBy(t) = {h}
    <3>1. CASE \E i \in DOMAIN parked : parked[i].task = t
      <4>1. PICK i \in DOMAIN parked : parked[i].task = t
        BY <3>1
      <4>2. HeldBy(t) = {<<"parked", i>>}
        BY <4>1 DEF HeldBy, AwInv, TableInv, BoxInv, Holding
      <4> QED BY <4>2, Zenon
    <3>2. CASE \E c \in AwCpus : Holding(c) /\ op[c].task = t
      <4>1. PICK c \in AwCpus : Holding(c) /\ op[c].task = t
        BY <3>2
      <4>2. HeldBy(t) = {<<"cpu", c>>}
        BY <4>1 DEF HeldBy, AwInv, OpInv, BoxInv, Holding
      <4> QED BY <4>2, Zenon
    <3> QED BY <1>2, <3>1, <3>2, Zenon DEF AwInv, BoxInv
  <2> QED BY <1>2, <2>1, FS_Singleton
<1> QED BY <1>1, <1>2

\* resolve: for any number of tasks, CPUs, addresses and waits, the box of a waiting
\* task is in the table or in the hands of one CPU until it is queued, so that no
\* wake-up and no deadline queues it again.
THEOREM WokenOnceHolds == AwSpec => []WokenOnce
<1>1. AwInv /\ [AwNext]_awVars => AwInv'
  BY StepInv
<1> QED BY InitInv, <1>1, OneHolder, PTL DEF AwSpec

-----------------------------------------------------------------------------
(* The channel *)

Messages == Senders \X Nat

SenderPc == {"idle", "send", "force", "try", "wake", "wake_all"}
ReceiverPc == {"idle", "pop", "check", "sleep", "asleep"}

Types ==
    /\ queue \in Seq(Messages) /\ accepted \in Seq(Messages) /\ received \in Seq(Messages)
    /\ waiters \in Seq(Receivers)
    /\ sent \in [Senders -> Nat]
    /\ DOMAIN pc = Senders \cup Receivers
    /\ \A s \in Senders : pc[s] \in SenderPc
    /\ \A r \in Receivers : pc[r] \in ReceiverPc

\* Appending to the second of two joined sequences appends to the whole.
LEMMA AppendJoined ==
    ASSUME NEW S, NEW p \in Seq(S), NEW q \in Seq(S), NEW x \in S
    PROVE  p \o Append(q, x) = Append(p \o q, x)
  OBVIOUS

\* Moving the head of the second of two joined sequences to the end of the first leaves the
\* whole as it was.
LEMMA MoveHead ==
    ASSUME NEW S, NEW p \in Seq(S), NEW q \in Seq(S), q # <<>>
    PROVE  Append(p, Head(q)) \o Tail(q) = p \o q
  OBVIOUS

\* The first waiters of an injective wait queue are the others than the last one.
LEMMA FrontOfWaiters ==
    ASSUME NEW S, NEW q \in Seq(S), q # <<>>, IsInjective(q)
    PROVE  /\ Front(q) \in Seq(S) /\ Last(q) \in S /\ Contains(q, Last(q))
           /\ IsInjective(Front(q))
           /\ \A x : Contains(Front(q), x) <=> Contains(q, x) /\ x # Last(q)
  <1>1. Len(q) \in Nat \ {0} /\ DOMAIN q = 1..Len(q)
    OBVIOUS
  <1>2. /\ Front(q) \in Seq(S) /\ Len(Front(q)) = Len(q) - 1
        /\ \A i \in 1..(Len(q) - 1) : Front(q)[i] = q[i]
    BY <1>1 DEF Front
  <1>3. Last(q) \in S /\ Contains(q, Last(q))
    BY <1>1 DEF Last, Contains
  <1>4. IsInjective(Front(q))
    BY <1>1, <1>2 DEF IsInjective
  <1>5. ASSUME NEW x PROVE Contains(Front(q), x) <=> Contains(q, x) /\ x # Last(q)
    BY <1>1, <1>2 DEF Contains, Last, IsInjective
  <1> QED BY <1>2, <1>3, <1>4, <1>5

\* A receiver that is not in the wait queue can be appended to it.
LEMMA AppendWaiter ==
    ASSUME NEW S, NEW q \in Seq(S), NEW r \in S, IsInjective(q), ~Contains(q, r)
    PROVE  /\ IsInjective(Append(q, r))
           /\ \A x : Contains(Append(q, r), x) <=> Contains(q, x) \/ x = r
  <1>1. /\ Len(q) \in Nat /\ DOMAIN q = 1..Len(q)
        /\ Append(q, r) \in Seq(S) /\ Len(Append(q, r)) = Len(q) + 1
        /\ DOMAIN Append(q, r) = 1..(Len(q) + 1)
        /\ \A i \in 1..Len(q) : Append(q, r)[i] = q[i]
        /\ Append(q, r)[Len(q) + 1] = r
    OBVIOUS
  <1>2. IsInjective(Append(q, r))
    <2> SUFFICES ASSUME NEW a \in 1..(Len(q) + 1), NEW b \in 1..(Len(q) + 1),
                        Append(q, r)[a] = Append(q, r)[b]
                 PROVE  a = b
      BY <1>1 DEF IsInjective
    <2>1. CASE a \in 1..Len(q) /\ b \in 1..Len(q)
      BY <1>1, <2>1 DEF IsInjective
    <2>2. CASE a \in 1..Len(q) /\ b = Len(q) + 1
      BY <1>1, <2>2 DEF Contains
    <2>3. CASE a = Len(q) + 1 /\ b \in 1..Len(q)
      BY <1>1, <2>3 DEF Contains
    <2> QED BY <1>1, <2>1, <2>2, <2>3
  <1>3. ASSUME NEW x PROVE Contains(Append(q, r), x) <=> Contains(q, x) \/ x = r
    BY <1>1 DEF Contains
  <1> QED BY <1>2, <1>3

IInv == Types /\ DeliveredInOrder /\ WaitersAsleep

\* The channel starts empty, with nobody asleep.
LEMMA InitHolds == Init => IInv
  BY ChannelAssumption DEF Init, IInv, Types, DeliveredInOrder, WaitersAsleep, SenderPc, ReceiverPc,
     IsInjective, Contains

\* A step of a handle that neither goes to sleep nor was asleep leaves the wait queue right.
LEMMA StillAsleep ==
    ASSUME Types, WaitersAsleep, waiters' = waiters,
           NEW h \in Senders \cup Receivers, NEW l, l # "asleep", pc[h] # "asleep",
           goto(h, l)
    PROVE  WaitersAsleep'
  <1>1. \A r \in Receivers : pc'[r] = "asleep" <=> pc[r] = "asleep"
    BY DEF Types, goto
  <1> QED BY <1>1 DEF WaitersAsleep

\* Handles keep to the steps of their kind.
LEMMA PcTypes ==
    ASSUME Types, NEW h \in Senders \cup Receivers, NEW l, goto(h, l),
           h \in Senders => l \in SenderPc, h \in Receivers => l \in ReceiverPc
    PROVE  /\ DOMAIN pc' = Senders \cup Receivers
           /\ \A s \in Senders : pc'[s] \in SenderPc
           /\ \A r \in Receivers : pc'[r] \in ReceiverPc
  BY ChannelAssumption DEF Types, goto

\* push_back keeps the accepted messages accounted for.
LEMMA PushKeepsOrder ==
    ASSUME Types, DeliveredInOrder, NEW s \in Senders, push_back(s), UNCHANGED <<sent, received>>
    PROVE  /\ queue' \in Seq(Messages) /\ accepted' \in Seq(Messages)
           /\ DeliveredInOrder'
  <1>1. <<s, sent[s]>> \in Messages
    BY DEF Types, Messages
  <1>2. received \o Append(queue, <<s, sent[s]>>) = Append(received \o queue, <<s, sent[s]>>)
    BY <1>1, AppendJoined DEF Types
  <1> QED BY <1>1, <1>2, SMTT(30) DEF Types, DeliveredInOrder, push_back

\* pop_front keeps the accepted messages accounted for.
LEMMA PopKeepsOrder ==
    ASSUME Types, DeliveredInOrder, pop_front, UNCHANGED accepted
    PROVE  /\ queue' \in Seq(Messages) /\ received' \in Seq(Messages)
           /\ DeliveredInOrder'
  <1>1. Head(queue) \in Messages /\ Tail(queue) \in Seq(Messages)
    BY DEF Types, pop_front
  <1>2. Append(received, Head(queue)) \o Tail(queue) = received \o queue
    BY MoveHead, SMTT(30) DEF Types, pop_front
  <1> QED BY <1>1, <1>2 DEF Types, DeliveredInOrder, pop_front

\* Every action of a sender keeps the invariant.
LEMMA SenderHolds ==
    ASSUME IInv, NEW s \in Senders,
           \/ Send(s, "send") \/ Send(s, "try") \/ SenderStep(s) \/ DropSender(s)
           \/ \E t \in Senders : CloneSender(s, t)
    PROVE  IInv'
  <1> USE DEF IInv
  <1>0. s \in Senders \cup Receivers /\ s \notin Receivers /\ pc[s] # "asleep"
    BY ChannelAssumption, Zenon DEF Types, SenderPc
  <1>1. ASSUME NEW l \in {"send", "try"}, Send(s, l) PROVE IInv'
    <2>1. PICK k \in {"idle", "send", "try"} : goto(s, k)
      BY <1>1 DEF Send
    <2>2. WaitersAsleep'
      BY <1>0, <1>1, <2>1, StillAsleep DEF Send
    <2>3. sent' \in [Senders -> Nat]
      BY <1>1, SMTT(30) DEF Send, Types
    <2>4. Types'
      BY <1>0, <1>1, <2>1, <2>3, PcTypes, Zenon DEF Send, Types, SenderPc
    <2> QED BY <1>1, <2>2, <2>4 DEF Send, DeliveredInOrder
  <1>2. CASE Push(s) \/ TryPush(s)
    <2>1. PICK k \in {"wake", "force", "idle"} : goto(s, k)
      BY <1>2 DEF Push, TryPush, push_back
    <2>2. WaitersAsleep'
      BY <1>0, <1>2, <2>1, StillAsleep DEF Push, TryPush
    <2>3. /\ queue' \in Seq(Messages) /\ accepted' \in Seq(Messages)
          /\ DeliveredInOrder'
      BY <1>2, PushKeepsOrder, Zenon DEF Push, TryPush, Types, DeliveredInOrder
    <2>4. Types'
      BY <1>0, <1>2, <2>1, <2>3, PcTypes, Zenon DEF Push, TryPush, Types, SenderPc
    <2> QED BY <2>2, <2>3, <2>4
  <1>3. CASE WakeOne(s)
    <2>1. CASE waiters = <<>>
      <3>1. goto(s, "idle") /\ waiters' = waiters
        BY <1>3, <2>1 DEF WakeOne
      <3>2. WaitersAsleep'
        BY <1>0, <3>1, StillAsleep, SMTT(30)
      <3>3. Types'
        BY <1>0, <1>3, <3>1, PcTypes, Zenon DEF WakeOne, Types, SenderPc
      <3> QED BY <1>3, <3>2, <3>3 DEF WakeOne, DeliveredInOrder
    <2>2. CASE waiters # <<>>
      <3> DEFINE w == Last(waiters)
      <3>1. /\ Front(waiters) \in Seq(Receivers) /\ w \in Receivers
            /\ IsInjective(Front(waiters))
            /\ \A x : Contains(Front(waiters), x) <=> Contains(waiters, x) /\ x # w
        BY <2>2, FrontOfWaiters, Zenon DEF Types, WaitersAsleep
      <3>2. waiters' = Front(waiters) /\ pc' = [pc EXCEPT ![s] = "idle", ![w] = "pop"]
        BY <1>3, <2>2 DEF WakeOne
      <3>3. \A r \in Receivers : pc'[r] = IF r = w THEN "pop" ELSE pc[r]
        BY <1>0, <3>1, <3>2 DEF Types
      <3>4. WaitersAsleep'
        <4> HIDE DEF w
        <4>1. IsInjective(waiters')
          BY <3>1, <3>2
        <4>2. ASSUME NEW r \in Receivers PROVE pc'[r] = "asleep" <=> Contains(waiters', r)
          <5>1. Contains(waiters', r) <=> Contains(waiters, r) /\ r # w
            BY <3>1, <3>2
          <5>2. Contains(waiters, r) <=> pc[r] = "asleep"
            BY SMTT(30) DEF WaitersAsleep
          <5> QED BY <3>3, <5>1, <5>2
        <4> QED BY <4>1, <4>2 DEF WaitersAsleep
      <3>5. Types'
        BY <1>0, <1>3, <3>1, <3>2, <3>3, ChannelAssumption, Zenon DEF WakeOne, Types, SenderPc, ReceiverPc
      <3> QED BY <1>3, <3>4, <3>5 DEF WakeOne, DeliveredInOrder
    <2> QED BY <2>1, <2>2
  <1>4. CASE WakeAll(s)
    <2>1. \A r \in Receivers : pc'[r] = IF Contains(waiters, r) THEN "pop" ELSE pc[r]
      BY <1>0, <1>4, SMTT(30) DEF WakeAll, Types
    <2>2. WaitersAsleep'
      BY <1>4, <2>1 DEF WakeAll, WaitersAsleep, IsInjective, Contains
    <2>3. \A x \in Senders : ~Contains(waiters, x)
      BY ChannelAssumption DEF Contains, Types
    <2>4. Types'
      BY <1>4, <2>1, <2>3 DEF WakeAll, Types, SenderPc, ReceiverPc
    <2> QED BY <1>4, <2>2, <2>4 DEF WakeAll, DeliveredInOrder
  <1>5. CASE DropSender(s)
    <2>1. PICK k \in {"wake_all", "idle"} : goto(s, k)
      BY <1>5 DEF DropSender
    <2>2. WaitersAsleep'
      BY <1>0, <1>5, <2>1, StillAsleep, SMTT(30) DEF DropSender
    <2>3. Types'
      BY <1>0, <1>5, <2>1, PcTypes, ChannelAssumption, Zenon DEF DropSender, Types, SenderPc
    <2> QED BY <1>5, <2>2, <2>3 DEF DropSender, DeliveredInOrder
  <1>6. ASSUME NEW t \in Senders, CloneSender(s, t) PROVE IInv'
    BY <1>6 DEF CloneSender, Types, DeliveredInOrder, WaitersAsleep
  <1> QED BY <1>1, <1>2, <1>3, <1>4, <1>5, <1>6 DEF SenderStep

\* Every action of a receiver keeps the invariant.
LEMMA ReceiverHolds ==
    ASSUME IInv, NEW r \in Receivers,
           \/ Recv(r) \/ ReceiverStep(r) \/ TryRecv(r) \/ DropReceiver(r)
           \/ \E t \in Receivers : CloneReceiver(r, t)
    PROVE  IInv'
  <1> USE DEF IInv
  <1>0. r \in Senders \cup Receivers /\ r \notin Senders
    BY ChannelAssumption
  <1>1. CASE Recv(r) \/ Pop(r) \/ CheckClosed(r)
    <2>1. PICK k \in {"pop", "idle", "check", "sleep"} : goto(r, k)
      BY <1>1, SMTT(30) DEF Recv, Pop, CheckClosed
    <2>2. WaitersAsleep'
      BY <1>0, <1>1, <2>1, StillAsleep, SMTT(30) DEF Recv, Pop, CheckClosed
    <2>3. /\ queue' \in Seq(Messages) /\ received' \in Seq(Messages)
          /\ DeliveredInOrder'
      BY <1>1, PopKeepsOrder, Zenon DEF Recv, Pop, CheckClosed, Types, DeliveredInOrder
    <2>4. Types'
      BY <1>0, <1>1, <2>1, <2>3, PcTypes, Zenon DEF Recv, Pop, CheckClosed, Types, ReceiverPc
    <2> QED BY <2>2, <2>3, <2>4
  <1>2. CASE Sleep(r)
    <2>1. waiters' = Append(waiters, r) /\ goto(r, "asleep")
      BY <1>2 DEF Sleep
    <2>2. ~Contains(waiters, r)
      BY <1>2 DEF Sleep, WaitersAsleep
    <2>3. /\ IsInjective(waiters')
          /\ \A x : Contains(waiters', x) <=> Contains(waiters, x) \/ x = r
      BY <2>1, <2>2, AppendWaiter, SMTT(30) DEF Types, WaitersAsleep
    <2>4. ASSUME NEW x \in Receivers PROVE pc'[x] = "asleep" <=> Contains(waiters', x)
      <3>1. Contains(waiters, x) <=> pc[x] = "asleep"
        BY DEF WaitersAsleep
      <3>2. pc'[x] = IF x = r THEN "asleep" ELSE pc[x]
        BY <2>1, SMTT(30) DEF Types, goto
      <3> QED BY <2>3, <3>1, <3>2
    <2>5. WaitersAsleep'
      BY <2>3, <2>4, SMTT(30) DEF WaitersAsleep
    <2>6. Types'
      <3>1. waiters' \in Seq(Receivers)
        BY <2>1 DEF Types
      <3>2. /\ DOMAIN pc' = Senders \cup Receivers
            /\ \A s \in Senders : pc'[s] \in SenderPc
            /\ \A x \in Receivers : pc'[x] \in ReceiverPc
        BY <1>0, <2>1, PcTypes, Zenon DEF ReceiverPc
      <3> QED BY <1>2, <3>1, <3>2 DEF Sleep, Types
    <2> QED BY <1>2, <2>5, <2>6 DEF Sleep, DeliveredInOrder
  <1>3. CASE TryRecv(r)
    <2>1. /\ queue' \in Seq(Messages) /\ received' \in Seq(Messages)
          /\ DeliveredInOrder'
      BY <1>3, PopKeepsOrder DEF TryRecv
    <2>2. UNCHANGED <<waiters, pc, sent, accepted>>
      BY <1>3 DEF TryRecv
    <2>3. Types'
      BY <2>1, <2>2 DEF Types
    <2>4. WaitersAsleep'
      BY <2>2 DEF WaitersAsleep
    <2> QED BY <2>1, <2>3, <2>4
  <1>4. ASSUME DropReceiver(r) \/ \E t \in Receivers : CloneReceiver(r, t) PROVE IInv'
    BY <1>4, Zenon DEF DropReceiver, CloneReceiver, Types, DeliveredInOrder, WaitersAsleep
  <1> QED BY <1>1, <1>2, <1>3, <1>4 DEF ReceiverStep

\* The conjunction of types, order and wait queue is an invariant of the channel.
THEOREM Invariance == Spec => []IInv
  <1>1. IInv /\ [Next]_vars => IInv'
    <2> SUFFICES ASSUME IInv, [Next]_vars PROVE IInv'
      OBVIOUS
    <2>1. CASE UNCHANGED vars
      BY <2>1 DEF vars, IInv, Types, DeliveredInOrder, WaitersAsleep
    <2>2. CASE Next
      BY <2>2, SenderHolds, ReceiverHolds DEF Next
    <2> QED BY <2>1, <2>2
  <1> QED BY <1>1, InitHolds, PTL DEF Spec

\* For any number of handles and any capacity: what the receivers got and what is queued are
\* the accepted messages, each once and in order (send, try_send, recv, try_recv, drops).
THEOREM DeliveredInOrderHolds == Spec => []DeliveredInOrder
  BY Invariance, PTL DEF IInv

\* For any number of handles: recv_waiters holds each sleeping receiver once and nobody
\* else, so that every wake_one is spent on a sleeper.
THEOREM WaitersAsleepHolds == Spec => []WaitersAsleep
  BY Invariance, PTL DEF IInv
=============================================================================
