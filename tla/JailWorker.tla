----------------------------- MODULE JailWorker -----------------------------
(***************************************************************************)
(* A driver jail (drivers/jail.rs, JailWorker) and the channel that links  *)
(* it to the core (drivers/jail_ring.rs, JailChannel).  Each of the two    *)
(* rings is the FIFO queue that SpscRing is shown to implement, so a push  *)
(* or a pop is one step; the counter update that follows it is another.    *)
(* The core submits requests, polls events and may stop the jail; the      *)
(* worker loops over poll_request, the handler and submit_event.           *)
(***************************************************************************)
EXTENDS Naturals, Sequences, FiniteSets, SequencesExt

CONSTANTS
  RingCap,           \* JAIL_RING_SIZE
  MaxRequests    \* bound: requests the core ever tries to submit

ASSUME JailAssumption == RingCap \in Nat \ {0} /\ MaxRequests \in Nat

VARIABLES
  requests, events,    \* the two rings, holding request ids
  nextId,              \* JailRequest.request_id: unique and increasing
  corePc, batch,       \* core: inside which call, events it has just popped
  polled,              \* the ids the core has received events for, in order
  lost,                \* ids whose event found the event ring full
  channel,             \* the four statistics counters of the channel
  workerState, should_stop,  \* JailState, stop flag
  workerPc, cur, ok,   \* worker: position in run(), request in hand, its result
  stats                \* JailStats

coreVars == <<nextId, corePc, batch, polled>>
workerVars == <<lost, workerState, workerPc, cur, ok, stats>>
jwVars == <<requests, events, channel, should_stop, coreVars, workerVars>>

Ids == 1..MaxRequests
NoRequest == 0

JwInit ==
  /\ requests = <<>> /\ events = <<>> /\ nextId = 1
  /\ corePc = "idle" /\ batch = <<>> /\ polled = <<>> /\ lost = {}
  /\ channel = [total_requests |-> 0, total_events |-> 0,
                dropped_requests |-> 0, dropped_events |-> 0]
  /\ workerState = "Created" /\ should_stop = FALSE
  /\ workerPc = "new" /\ cur = NoRequest /\ ok = TRUE
  /\ stats = [processed |-> 0, succeeded |-> 0, failed |-> 0, budget_violations |-> 0]

Count(counter, n) == channel' = [channel EXCEPT ![counter] = @ + n]

-----------------------------------------------------------------------------
(* Core *)

\* submit_request: requests.push; the caller makes a fresh id for each attempt.
SubmitRequest ==
  /\ corePc = "idle" /\ nextId \in Ids
  /\ \/ /\ Len(requests) < RingCap
        /\ requests' = Append(requests, nextId)
        /\ corePc' = "count_request"
     \/ /\ Len(requests) = RingCap
        /\ corePc' = "count_drop" /\ UNCHANGED requests
  /\ nextId' = nextId + 1
  /\ UNCHANGED <<events, channel, should_stop, batch, polled, workerVars>>

\* total_requests or dropped_requests, after the push.
CountRequest ==
  /\ \/ corePc = "count_request" /\ Count("total_requests", 1)
     \/ corePc = "count_drop" /\ Count("dropped_requests", 1)
  /\ corePc' = "idle"
  /\ UNCHANGED <<requests, events, should_stop, nextId, batch, polled, workerVars>>

\* poll_event (room = 1) and poll_events: take up to room events.
PollEvents(room) ==
  /\ corePc = "idle" /\ events # <<>>
  /\ LET n == IF Len(events) < room THEN Len(events) ELSE room IN
     /\ batch' = SubSeq(events, 1, n)
     /\ events' = SubSeq(events, n + 1, Len(events))
  /\ corePc' = "count_events"
  /\ UNCHANGED <<requests, channel, should_stop, nextId, polled, workerVars>>

CountEvents ==
  /\ corePc = "count_events"
  /\ Count("total_events", Len(batch))
  /\ polled' = polled \o batch /\ batch' = <<>> /\ corePc' = "idle"
  /\ UNCHANGED <<requests, events, should_stop, nextId, workerVars>>

Stop ==
  /\ corePc = "idle" /\ ~should_stop
  /\ should_stop' = TRUE
  /\ UNCHANGED <<requests, events, channel, coreVars, workerVars>>

-----------------------------------------------------------------------------
(* Worker: run() *)

Start ==
  /\ workerPc = "new"
  /\ workerState' = "Running" /\ workerPc' = "check"
  /\ UNCHANGED <<requests, events, channel, should_stop, coreVars, lost, cur, ok, stats>>

\* The stop flag is looked at once per turn of the loop, before poll_request.
CheckStop ==
  /\ workerPc = "check"
  /\ \/ should_stop /\ workerPc' = "done" /\ workerState' = "Stopped"
     \/ ~should_stop /\ workerPc' = "poll" /\ UNCHANGED workerState
  /\ UNCHANGED <<requests, events, channel, should_stop, coreVars, lost, cur, ok, stats>>

PollRequest ==
  /\ workerPc = "poll"
  /\ \/ /\ requests # <<>>
        /\ cur' = Head(requests) /\ requests' = Tail(requests)
        /\ workerPc' = "execute"
     \/ requests = <<>> /\ workerPc' = "check" /\ UNCHANGED <<cur, requests>>
  /\ UNCHANGED <<events, channel, should_stop, coreVars, lost, workerState, ok, stats>>

\* execute_request and the budget check: the driver's handler returns a result
\* that is negative or not, within its budget or late.
Execute ==
  /\ workerPc = "execute"
  /\ \E result, late \in BOOLEAN :
       /\ ok' = result
       /\ stats' = [stats EXCEPT !.budget_violations = @ + (IF late THEN 1 ELSE 0)]
  /\ workerPc' = "submit"
  /\ UNCHANGED <<requests, events, channel, should_stop, coreVars, lost, workerState, cur>>

\* The worker waits for room instead of giving the event up.
SubmitEventBlocks ==
  /\ workerPc = "submit" /\ Len(events) < RingCap
  /\ events' = Append(events, cur) /\ workerPc' = "account"
  /\ UNCHANGED <<requests, channel, should_stop, coreVars, lost, workerState, cur, ok, stats>>

\* The event overtakes those already waiting.
SubmitEventInFront ==
  /\ workerPc = "submit"
  /\ \/ /\ Len(events) < RingCap
        /\ events' = <<cur>> \o events /\ workerPc' = "account" /\ UNCHANGED lost
     \/ /\ Len(events) = RingCap
        /\ lost' = lost \cup {cur} /\ workerPc' = "count_drop" /\ UNCHANGED events
  /\ UNCHANGED <<requests, channel, should_stop, coreVars, workerState, cur, ok, stats>>

\* submit_event: events.push; a full ring loses the event.
SubmitEvent ==
  /\ workerPc = "submit"
  /\ \/ /\ Len(events) < RingCap
        /\ events' = Append(events, cur) /\ workerPc' = "account" /\ UNCHANGED lost
     \/ /\ Len(events) = RingCap
        /\ lost' = lost \cup {cur} /\ workerPc' = "count_drop" /\ UNCHANGED events
  /\ UNCHANGED <<requests, channel, should_stop, coreVars, workerState, cur, ok, stats>>

CountDrop ==
  /\ workerPc = "count_drop"
  /\ Count("dropped_events", 1)
  /\ workerPc' = "account"
  /\ UNCHANGED <<requests, events, should_stop, coreVars, lost, workerState, cur, ok, stats>>

\* Only delivered events are counted as processed.
AccountDelivered ==
  /\ workerPc = "account"
  /\ stats' = [stats EXCEPT !.processed = @ + (IF cur \in lost THEN 0 ELSE 1),
                            ![IF ok THEN "succeeded" ELSE "failed"] = @ + 1]
  /\ cur' = NoRequest /\ workerPc' = "check"
  /\ UNCHANGED <<requests, events, channel, should_stop, coreVars, lost, workerState, ok>>

Account ==
  /\ workerPc = "account"
  /\ stats' = [stats EXCEPT !.processed = @ + 1,
                            ![IF ok THEN "succeeded" ELSE "failed"] = @ + 1]
  /\ cur' = NoRequest /\ workerPc' = "check"
  /\ UNCHANGED <<requests, events, channel, should_stop, coreVars, lost, workerState, ok>>

CoreNext == SubmitRequest \/ CountRequest \/ (\E room \in 1..RingCap : PollEvents(room))
            \/ CountEvents \/ Stop

WorkerNext == Start \/ CheckStop \/ PollRequest \/ Execute \/ SubmitEvent \/ CountDrop
              \/ Account

JwNext == CoreNext \/ WorkerNext

\* The worker thread keeps being scheduled and its handler returns; the core
\* finishes the calls it has begun, but need not poll or submit.
JwFairness == WF_jwVars(WorkerNext) /\ WF_jwVars(CountRequest \/ CountEvents)

JwSpec == JwInit /\ [][JwNext]_jwVars /\ JwFairness

-----------------------------------------------------------------------------
(* Properties *)

\* Every variable keeps its type and neither ring outgrows JAIL_RING_SIZE.
JwTypeOK ==
  /\ requests \in Seq(Ids) /\ Len(requests) <= RingCap
  /\ events \in Seq(Ids) /\ Len(events) <= RingCap
  /\ nextId \in 1..(MaxRequests + 1) /\ lost \subseteq Ids
  /\ corePc \in {"idle", "count_request", "count_drop", "count_events"}
  /\ batch \in Seq(Ids) /\ polled \in Seq(Ids)
  /\ channel \in [total_requests : Nat, total_events : Nat,
                  dropped_requests : Nat, dropped_events : Nat]
  /\ workerState \in {"Created", "Running", "Stopped"} /\ should_stop \in BOOLEAN
  /\ workerPc \in {"new", "check", "poll", "execute", "submit", "count_drop", "account", "done"}
  /\ cur \in Ids \cup {NoRequest} /\ ok \in BOOLEAN
  /\ stats \in [processed : Nat, succeeded : Nat, failed : Nat, budget_violations : Nat]

InHand == IF workerPc \in {"execute", "submit"} THEN <<cur>> ELSE <<>>

\* What the core has polled, what waits in the event ring, the request in the
\* worker's hands and what waits in the request ring.
Line == polled \o batch \o events \o InHand \o requests

\* Events come back in the order of their requests, one per request: the ids in
\* line form one increasing run, and none of them is an id whose event was lost.
AnsweredInOrder ==
  /\ \A i, j \in DOMAIN Line : i < j => Line[i] < Line[j]
  /\ \A i \in DOMAIN Line : Line[i] \notin lost

One(b) == IF b THEN 1 ELSE 0

\* The counters an operator reads (channel and stats) account for every request
\* once the calls in progress are allowed for: nothing is counted twice although
\* the two threads update them without a lock, after the ring operation.
CountersReconcile ==
  /\ channel.total_requests + One(corePc = "count_request")
       = Len(requests) + One(cur # NoRequest) + stats.processed
  /\ stats.processed + One(workerPc \in {"count_drop", "account"})
       = Len(events) + channel.total_events + Len(batch)
         + channel.dropped_events + One(workerPc = "count_drop")
  /\ stats.processed = stats.succeeded + stats.failed
  /\ channel.dropped_events + One(workerPc = "count_drop") = Cardinality(lost)

\* A stopped jail ends: stop() takes effect at the next turn of the loop, and
\* a full event ring cannot hold the worker back.
StopStops == should_stop ~> workerState = "Stopped"

\* A request the jail has accepted does not linger in its ring, whatever the
\* core does with the events, unless the jail is stopped.
RequestsDrain == \A id \in Ids :
  id \in ToSet(requests) ~> (id \notin ToSet(requests) \/ should_stop)

=============================================================================
