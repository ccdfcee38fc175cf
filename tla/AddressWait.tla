---------------------------- MODULE AddressWait ----------------------------
(***************************************************************************)
(* Waiting on addresses: ADDRESS_WAIT_MANAGER of task/futex.rs, behind     *)
(* futex(FUTEX_WAIT, FUTEX_WAKE and their BITSET forms), futex_waitv, the  *)
(* Win32 WaitOnAddress family and the tid word of an exiting task.         *)
(*                                                                         *)
(* The three tables have a lock each, and every lock section is a step.    *)
(* A CPU is in at most one wake-up or expiry at a time: system calls and   *)
(* the timer interrupt both run with interrupts off.  The comparison with  *)
(* the expected value is a call that may or may not lead to a wait.  A     *)
(* task that called schedule() goes on when its box is in a run queue.     *)
(***************************************************************************)
EXTENDS Naturals, FiniteSets, SequencesExt

CONSTANTS
  AwTasks,      \* the tasks that wait
  AwCpus,       \* the CPUs that wake and expire
  Addresses,
  Calls,        \* Calls[t]: the address lists and bitsets t waits with
  Masks,        \* the bitsets of wake-ups; without one, all bits
  MaxWaits,     \* bound: calls that block
  MaxTick       \* bound: the tick count

ASSUME AwAssumption ==
  /\ \A t \in AwTasks : \A c \in Calls[t] :
       c.addresses \in Seq(Addresses) \ {<<>>} /\ c.bitset # {}
  /\ MaxWaits \in Nat /\ MaxTick \in Nat

VARIABLES
  next_waiter_id,
  parked,         \* waiters: BTreeMap<u64, AddressWaiter>
  address_index,
  wake_records,
  place,          \* how far a task is in block_on_addresses
  box,            \* its box: "self" (current), "away" (taken), "queued" (woken)
  call,           \* the arguments of its wait
  mine,           \* its waiter id
  op,             \* what a CPU is doing in wake_matches or check_timeouts
  ticks           \* TICK_COUNT

awTables == <<next_waiter_id, parked, address_index, wake_records>>
awTasks == <<place, box, call, mine>>
awVars == <<awTables, awTasks, op, ticks>>

None == [reason |-> "None", addr |-> "None"]
NoCall == [addresses |-> <<>>, bitset |-> {}, deadline |-> 0]
Forever == MaxTick + 1   \* deadline_tick is None
Idle == [at |-> "idle", addr |-> "None", max |-> 0, mask |-> {}, ids |-> <<>>,
         reason |-> "None", held |-> 0, task |-> "None", addresses |-> <<>>, owed |-> {}]

AwInit ==
  /\ next_waiter_id = 1 /\ parked = << >> /\ ticks = 0
  /\ address_index = [a \in Addresses |-> <<>>]
  /\ wake_records = [t \in AwTasks |-> None]
  /\ place = [t \in AwTasks |-> "run"] /\ box = [t \in AwTasks |-> "self"]
  /\ call = [t \in AwTasks |-> NoCall] /\ mine = [t \in AwTasks |-> 0]
  /\ op = [c \in AwCpus |-> Idle]

-----------------------------------------------------------------------------
(* The waiting task: block_on_addresses *)

\* sys_futex_wait, sys_futex_waitv or wait_on_address after the values compared
\* equal: take_current_blocked_task, and the first lock of enqueue.  A deadline was
\* at least one tick away when it was computed.
Insert(t) ==
  /\ place[t] = "run" /\ next_waiter_id <= MaxWaits
  /\ place' = [place EXCEPT ![t] = "index"]
  /\ next_waiter_id' = next_waiter_id + 1 /\ mine' = [mine EXCEPT ![t] = next_waiter_id]
  /\ \E c \in Calls[t], deadline \in 1..Forever :
       call' = [call EXCEPT ![t] = [addresses |-> c.addresses, bitset |-> c.bitset, deadline |-> deadline]]
  /\ parked' = [i \in DOMAIN parked \cup {next_waiter_id} |->
                  IF i = next_waiter_id THEN [task |-> t, call |-> call'[t]] ELSE parked[i]]
  /\ box' = [box EXCEPT ![t] = "away"]
  /\ UNCHANGED <<address_index, wake_records, op, ticks>>

\* The second lock of enqueue, and schedule().
Index(t) ==
  /\ place[t] = "index" /\ place' = [place EXCEPT ![t] = "asleep"]
  /\ address_index' =
       [a \in Addresses |-> address_index[a]
          \o [i \in 1..Cardinality({k \in DOMAIN call[t].addresses : call[t].addresses[k] = a}) |-> mine[t]]]
  /\ UNCHANGED <<next_waiter_id, parked, wake_records, box, call, mine, op, ticks>>

\* take_record, or the default of block_on_addresses.
Answer(t) ==
  IF wake_records[t] # None THEN wake_records[t]
  ELSE [reason |-> "TimedOut", addr |-> Head(call[t].addresses)]

\* The return from schedule(); the wait returns Answer(t).
Resume(t) ==
  /\ place[t] = "asleep" /\ box[t] = "queued"
  /\ place' = [place EXCEPT ![t] = "run"] /\ box' = [box EXCEPT ![t] = "self"]
  /\ wake_records' = [wake_records EXCEPT ![t] = None]
  /\ call' = [call EXCEPT ![t] = NoCall] /\ mine' = [mine EXCEPT ![t] = 0]
  /\ UNCHANGED <<next_waiter_id, parked, address_index, op, ticks>>

-----------------------------------------------------------------------------
(* wake_matches and check_timeouts *)

\* The loop over the ids to resolve ends with the call.
Resolve(o, ids) == IF ids = <<>> THEN Idle ELSE [o EXCEPT !.at = "resolve", !.ids = ids]

\* The waiters whose enqueue at a is complete, and that a wake-up with mask matches.
At(a, mask) ==
  {i \in DOMAIN parked : /\ place[parked[i].task] = "asleep" /\ Contains(parked[i].call.addresses, a)
                         /\ parked[i].call.bitset \cap mask # {}}

\* The first lock of wake_matches; an empty bucket ends it.
WakeMatches(c, a, max, mask) ==
  /\ op[c].at = "idle" /\ address_index[a] # <<>>
  /\ op' = [op EXCEPT ![c] = [Idle EXCEPT
       !.at = "match", !.addr = a, !.max = max, !.mask = mask, !.ids = address_index[a],
       !.reason = "Signaled", !.owed = IF max = MaxWaits THEN At(a, mask) ELSE {}]]
  /\ UNCHANGED <<awTables, awTasks, ticks>>

FirstN(s, n) == SubSeq(s, 1, IF Len(s) < n THEN Len(s) ELSE n)

\* The second lock: the first max ids that are still parked and match.
Match(c) ==
  /\ op[c].at = "match"
  /\ LET o == op[c]
         matches(i) == i \in DOMAIN parked /\ parked[i].call.bitset \cap o.mask # {}
     IN op' = [op EXCEPT ![c] = Resolve([o EXCEPT !.mask = {}, !.max = 0],
                                        FirstN(SelectSeq(o.ids, matches), o.max))]
  /\ UNCHANGED <<awTables, awTasks, ticks>>

\* tick: the count, and later the lock of check_timeouts.
AwTick ==
  /\ ticks < MaxTick /\ ticks' = ticks + 1
  /\ UNCHANGED <<awTables, awTasks, op>>

\* A deadline is over only when the tick after it has come.
ExpiredLate == {i \in DOMAIN parked : ticks > parked[i].call.deadline}

Expired == {i \in DOMAIN parked : ticks >= parked[i].call.deadline}

CheckTimeouts(c) ==
  /\ op[c].at = "idle" /\ Expired # {}
  /\ op' = [op EXCEPT ![c] = Resolve([Idle EXCEPT !.reason = "TimedOut"], SetToSortSeq(Expired, <))]
  /\ UNCHANGED <<awTables, awTasks, ticks>>

\* The CPU has the waiter id in its hands, or goes on with the next id.
Grab(c, id) ==
  op' = [op EXCEPT ![c] =
    IF id \in DOMAIN parked
    THEN [@ EXCEPT !.at = "unindex", !.ids = Tail(@), !.held = id, !.task = parked[id].task,
                   !.addresses = parked[id].call.addresses]
    ELSE Resolve(@, Tail(@.ids))]

\* The waiter is looked up and left in the table.
TakeBoxLooksUp(c) ==
  /\ op[c].at = "resolve" /\ Grab(c, Head(op[c].ids))
  /\ UNCHANGED <<awTables, awTasks, ticks>>

\* resolve, first lock: whoever removes the waiter wakes it.
TakeBox(c) ==
  /\ op[c].at = "resolve" /\ Grab(c, Head(op[c].ids))
  /\ parked' = [i \in DOMAIN parked \ {Head(op[c].ids)} |-> parked[i]]
  /\ UNCHANGED <<next_waiter_id, address_index, wake_records, awTasks, ticks>>

\* An expired waiter reports its first address.
Reason(c) == [reason |-> op[c].reason,
              addr |-> IF op[c].reason = "TimedOut" THEN Head(op[c].addresses) ELSE op[c].addr]

\* The bucket of an address goes with the first waiter that leaves it.
UnindexBucket(c) ==
  /\ op[c].at = "unindex"
  /\ address_index' = [a \in Addresses |->
       IF Contains(op[c].addresses, a) THEN <<>> ELSE address_index[a]]
  /\ wake_records' = [wake_records EXCEPT ![op[c].task] = Reason(c)]
  /\ op' = [op EXCEPT ![c].at = "wake"]
  /\ UNCHANGED <<next_waiter_id, parked, awTasks, ticks>>

\* The reason is recorded only for a wake-up.
UnindexForgets(c) ==
  /\ op[c].at = "unindex"
  /\ address_index' = [a \in Addresses |->
       IF Contains(op[c].addresses, a) THEN SelectSeq(address_index[a], LAMBDA i : i # op[c].held)
       ELSE address_index[a]]
  /\ wake_records' = [wake_records EXCEPT ![op[c].task] = IF op[c].reason = "Signaled" THEN @ ELSE Reason(c)]
  /\ op' = [op EXCEPT ![c].at = "wake"]
  /\ UNCHANGED <<next_waiter_id, parked, awTasks, ticks>>

\* Second lock: the id leaves every bucket it is in, and an empty bucket goes.  Third
\* lock: the reason is recorded; nobody reads it before the box is queued.
Unindex(c) ==
  /\ op[c].at = "unindex"
  /\ address_index' = [a \in Addresses |->
       IF Contains(op[c].addresses, a) THEN SelectSeq(address_index[a], LAMBDA i : i # op[c].held)
       ELSE address_index[a]]
  /\ wake_records' = [wake_records EXCEPT ![op[c].task] = Reason(c)]
  /\ op' = [op EXCEPT ![c].at = "wake"]
  /\ UNCHANGED <<next_waiter_id, parked, awTasks, ticks>>

\* wake_blocked_task.
WakeBlocked(c) ==
  /\ op[c].at = "wake"
  /\ box' = [box EXCEPT ![op[c].task] = "queued"]
  /\ op' = [op EXCEPT ![c] = Resolve([@ EXCEPT !.held = 0, !.task = "None", !.addresses = <<>>], @.ids)]
  /\ UNCHANGED <<awTables, place, call, mine, ticks>>

-----------------------------------------------------------------------------
Blocking(t) == Index(t) \/ Resume(t)
Resolving(c) == Match(c) \/ TakeBox(c) \/ Unindex(c) \/ WakeBlocked(c)

AwNext ==
  \/ \E t \in AwTasks : Insert(t) \/ Blocking(t)
  \/ \E c \in AwCpus : Resolving(c) \/ CheckTimeouts(c)
  \/ \E c \in AwCpus, a \in Addresses, max \in {1, MaxWaits}, mask \in Masks :
       WakeMatches(c, a, max, mask)
  \/ AwTick

\* The clock ticks, a CPU ends what it began and a task runs on.  A timer interrupt
\* that comes during a system call is taken when the call ends, so a CPU that is idle
\* again and again cannot miss them all.
AwFairness ==
  /\ WF_awVars(AwTick)
  /\ \A c \in AwCpus : WF_awVars(Resolving(c)) /\ SF_awVars(CheckTimeouts(c))
  /\ \A t \in AwTasks : WF_awVars(Blocking(t))

AwSpec == AwInit /\ [][AwNext]_awVars /\ AwFairness

-----------------------------------------------------------------------------
(* Properties *)

\* Where the box of a waiting task is.
HeldBy(t) ==
  {<<"parked", i>> : i \in {j \in DOMAIN parked : parked[j].task = t}}
    \cup {<<"cpu", c>> : c \in {d \in AwCpus : op[d].at \in {"unindex", "wake"} /\ op[d].task = t}}

\* resolve: the box of a waiting task is with one owner, the table or the CPU that
\* took it out, until it is queued; wake-ups on several of its addresses and its
\* deadline never queue it twice.
WokenOnce ==
  \A t \in AwTasks : Cardinality(HeldBy(t)) = IF box[t] = "away" THEN 1 ELSE 0

\* wake_by_address_all, and FUTEX_WAKE of any number: no task that was asleep at the
\* address and matched when the call began is still parked when it ends, whatever else came and went in the meantime.
WakeAllReaches ==
  [][\A c \in AwCpus : op'[c].at = "idle" => op[c].owed \cap DOMAIN parked' = {}]_awVars

\* take_record: a wait says it timed out only at or after its deadline, never for
\* want of a record, and a signal comes from one of its addresses.
AnswersTruly ==
  [][\A t \in AwTasks : place[t] = "asleep" /\ place'[t] = "run" =>
       \/ Answer(t).reason = "TimedOut" /\ call[t].deadline <= ticks
       \/ Answer(t).reason = "Signaled" /\ Contains(call[t].addresses, Answer(t).addr)]_awVars

\* A wait with a deadline ends.
DeadlinesHold ==
  \A t \in AwTasks : (place[t] = "asleep" /\ call[t].deadline <= MaxTick) ~> (place[t] = "run")

=============================================================================
