------------------------------ MODULE Scheduler ------------------------------
(***************************************************************************)
(* The life of a task in task/scheduler.rs: which list owns its box, what  *)
(* its state field says, and which saved context a CPU resumes.            *)
(*                                                                         *)
(* schedule() is four steps of its CPU: entry ("sched"), the current task  *)
(* put away ("pick"), the next one chosen ("switch"), switch_context.      *)
(* Other CPUs run between them: only interrupts are off.  Each WORKERS[c]  *)
(* is the atomic deque WorkDeque implements while its owner alone pushes;  *)
(* the boxes taken out during a scan of take_task_from_worker_by_id stay   *)
(* with the scanning CPU, so the scan is one step.                         *)
(*                                                                         *)
(* A context is abstracted to the thread whose stack it holds and to       *)
(* whether it is that thread's latest stop.  The idle thread of CPU c is   *)
(* called c.  Task affinity is left out: no code sets it on a task.        *)
(***************************************************************************)
EXTENDS Naturals, Sequences

CONSTANTS Cpus, Tasks, NoTask,
          Cap,        \* capacity of a worker deque
          Sleepers,   \* the tasks that call WaitQueue::sleep
          Parents,    \* the tasks that call vfork
          Signals,    \* the signals kill_task is called with
          GhostPolicy \* whether an agent commits scheduling decisions

ASSUME SchedulerAssumption ==
    /\ Cap \in Nat \ {0}
    /\ Cpus # {} /\ NoTask \notin Tasks
    /\ Tasks \cap Cpus = {}
    /\ Sleepers \subseteq Tasks
    /\ Parents \subseteq Tasks
    /\ Signals \subseteq {"kill", "stop", "cont"}
    /\ GhostPolicy \in BOOLEAN

VARIABLES
    state,      \* Task::state
    current,    \* PER_CPU_CURRENT_TASK
    worker,     \* WORKERS and STEALERS, bottom of the deque last
    overflow,   \* OVERFLOW_TASKS
    stealable,  \* SMP_SCHEDULER.stealable_mask: the CPUs said to have queued tasks
    sleeping,   \* the tasks in SLEEPING_TASKS, the timing wheel
    waiters,    \* the waiters of a WaitQueue
    draining,   \* wake_all is at work: it holds the lock of the WaitQueue
    zombies,    \* ZOMBIE_TASKS
    dropped,    \* the tasks whose box was freed
    gate,       \* the vfork children, Task::vfork_wait is Some
    pending,    \* the tasks with a pending SIGTERM of default action
    resched,    \* PREEMPT_NEED_RESCHED of each CPU
    pc,         \* where a CPU is in schedule(), vfork() or kill_task()
    old,        \* whose context old_context_ptr is, or the task kill_task found
    flow,       \* the thread whose stack a CPU executes on
    saved,      \* TaskContext: the thread whose registers it holds
    fresh       \* the contexts that are their thread's latest stop

waitQueue == <<waiters, draining>>
places == <<worker, overflow, stealable, sleeping, waitQueue, zombies, dropped>>
contexts == <<flow, saved, fresh>>
vars == <<state, current, places, gate, pending, resched, pc, old, contexts>>

TaskState == {"New", "Ready", "Running", "Sleeping", "Blocked", "Stopped", "Terminated"}
Threads == Tasks \cup Cpus

Init ==
    /\ state = [t \in Tasks |-> "New"]
    /\ current = [c \in Cpus |-> NoTask]
    /\ worker = [c \in Cpus |-> <<>>]
    /\ overflow = <<>> /\ waiters = <<>> /\ draining = FALSE /\ stealable = {}
    /\ sleeping = {} /\ zombies = {} /\ dropped = {}
    /\ gate = {} /\ pending = {}
    /\ resched = [c \in Cpus |-> FALSE]
    /\ pc = [c \in Cpus |-> "run"]
    /\ old = [c \in Cpus |-> c]
    /\ flow = [c \in Cpus |-> c]
    /\ saved = [x \in Threads |-> x]
    /\ fresh = Tasks

\* Operators on the lists of tasks.  They are SequencesExt's, which is not extended: every
\* obligation of the proofs would carry the whole of it along.
Front(q) == SubSeq(q, 1, Len(q) - 1)
Last(q) == q[Len(q)]
Reverse(q) == [i \in 1..Len(q) |-> q[(Len(q) - i) + 1]]
RemoveAt(q, i) == SubSeq(q, 1, i - 1) \o SubSeq(q, i + 1, Len(q))
Contains(q, t) == \E i \in 1..Len(q) : q[i] = t

goto(c, l) == pc' = [pc EXCEPT ![c] = l]
set_state(t, s) == state' = [state EXCEPT ![t] = s]

\* The task is appended to a full deque.
pushUnbounded(q, t, c) == <<[q[1] EXCEPT ![c] = Append(@, t)], q[2]>>

\* A full deque loses the task: the Err of push is ignored.
pushIgnoresErr(q, t, c) ==
    IF Len(q[1][c]) < Cap THEN <<[q[1] EXCEPT ![c] = Append(@, t)], q[2]>> ELSE q

\* Worker::push of the box t, and its fallback to OVERFLOW_TASKS when full;
\* q is the pair of the deques and the overflow queue.
push(q, t, c) ==
    IF Len(q[1][c]) < Cap
    THEN <<[q[1] EXCEPT ![c] = Append(@, t)], q[2]>>
    ELSE <<q[1], Append(q[2], t)>>

queues(q) == worker' = q[1] /\ overflow' = q[2]

publish_worker_load(c) ==
    stealable' = IF worker'[c] # <<>> THEN stealable \cup {c} ELSE stealable \ {c}

\* enqueue_boxed_task, and the publish_worker_load every caller of it makes.
enqueue_boxed_task(t, c) ==
    queues(push(<<worker, overflow>>, t, c)) /\ publish_worker_load(c)

-----------------------------------------------------------------------------
(* Entering and leaving the run queues. *)

\* spawn_boxed of a new task on the CPU choose_spawn_cpu names.
Spawn(t, d) ==
    /\ state[t] = "New"
    /\ set_state(t, "Ready")
    /\ enqueue_boxed_task(t, d)
    /\ UNCHANGED <<current, sleeping, waitQueue, zombies, dropped, gate, pending,
                   resched, pc, old, contexts>>

\* The woken task keeps its Sleeping state.
WakeStillSleeping(t, d) ==
    /\ t \in sleeping
    /\ sleeping' = sleeping \ {t}
    /\ enqueue_boxed_task(t, d)
    /\ UNCHANGED <<state, current, waitQueue, zombies, dropped, gate, pending, resched,
                   pc, old, contexts>>

\* One round of the loop of wake_sleeping_tasks.
WakeSleeping(t, d) ==
    /\ t \in sleeping
    /\ sleeping' = sleeping \ {t}
    /\ set_state(t, "Ready")
    /\ enqueue_boxed_task(t, d)
    /\ UNCHANGED <<current, waitQueue, zombies, dropped, gate, pending, resched,
                   pc, old, contexts>>

\* The woken task keeps its Blocked state.
WakeOneStillBlocked(d) ==
    /\ waiters # <<>> /\ ~draining
    /\ waiters' = Front(waiters)
    /\ enqueue_boxed_task(Last(waiters), d)
    /\ UNCHANGED <<draining, state, current, sleeping, zombies, dropped, gate, pending, resched,
                   pc, old, contexts>>

WakeOne(d) ==
    /\ waiters # <<>> /\ ~draining
    /\ waiters' = Front(waiters)
    /\ set_state(Last(waiters), "Ready")
    /\ enqueue_boxed_task(Last(waiters), d)
    /\ UNCHANGED <<draining, current, sleeping, zombies, dropped, gate, pending, resched,
                   pc, old, contexts>>

\* One round of the loop of wake_all, which keeps the lock until the queue is empty.
WakeAll(d) ==
    /\ waiters # <<>>
    /\ waiters' = Tail(waiters)
    /\ draining' = (waiters' # <<>>)
    /\ set_state(Head(waiters), "Ready")
    /\ enqueue_boxed_task(Head(waiters), d)
    /\ UNCHANGED <<current, sleeping, zombies, dropped, gate, pending, resched,
                   pc, old, contexts>>

-----------------------------------------------------------------------------
(* The calls of the running thread that end in schedule(). *)

\* The current task of c changes its own state and calls schedule().
leave(c, s) ==
    /\ pc[c] = "run" /\ current[c] # NoTask
    /\ set_state(current[c], s)
    /\ goto(c, "sched")
    /\ UNCHANGED <<current, places, pending, resched, old, contexts>>

sleep(c) == leave(c, "Sleeping") /\ UNCHANGED gate

\* The exit of a vfork child makes one Blocked task of PER_CPU_CURRENT_TASK Ready.
exit(c) ==
    /\ pc[c] = "run" /\ current[c] # NoTask
    /\ LET t == current[c]
           blocked == {d \in Cpus \ {c} : current[d] # NoTask /\ state[current[d]] = "Blocked"}
       IN /\ gate' = gate \ {t}
          /\ IF t \in gate /\ blocked # {}
             THEN \E d \in blocked :
                    state' = [state EXCEPT ![t] = "Terminated", ![current[d]] = "Ready"]
             ELSE set_state(t, "Terminated")
    /\ goto(c, "sched")
    /\ UNCHANGED <<current, places, pending, resched, old, contexts>>

\* sys_vfork queues the child ...
vfork(c, t, d) ==
    /\ pc[c] = "run" /\ current[c] \in Parents
    /\ state[t] = "New"
    /\ set_state(t, "Ready")
    /\ enqueue_boxed_task(t, d)
    /\ gate' = gate \cup {t}
    /\ goto(c, "vfork")
    /\ UNCHANGED <<current, sleeping, waitQueue, zombies, dropped, pending, resched,
                   old, contexts>>

\* ... and then blocks the parent, whether or not the child is still there.
block_current_task_vfork(c) ==
    /\ pc[c] = "vfork"
    /\ set_state(current[c], "Blocked")
    /\ goto(c, "sched")
    /\ UNCHANGED <<current, places, gate, pending, resched, old, contexts>>

\* WaitQueue::sleep, and take_current_blocked_task for a futex: the box leaves
\* PER_CPU_CURRENT_TASK before schedule() is called.
WaitSleep(c) ==
    /\ pc[c] = "run" /\ current[c] \in Sleepers /\ ~draining
    /\ set_state(current[c], "Blocked")
    /\ waiters' = Append(waiters, current[c])
    /\ current' = [current EXCEPT ![c] = NoTask]
    /\ goto(c, "sched")
    /\ UNCHANGED <<draining, worker, overflow, stealable, sleeping, zombies, dropped, gate,
                   pending, resched, old, contexts>>

Yield(c) ==
    /\ pc[c] = "run" /\ flow[c] # c
    /\ goto(c, "sched")
    /\ UNCHANGED <<state, current, places, gate, pending, resched, old, contexts>>

\* The local deque counts as empty with one task left.
hasWorkBeyondOne(c) ==
    \/ Len(worker[c]) > 1
    \/ overflow # <<>>
    \/ \E v \in stealable \ {c} : worker[v] # <<>>

has_schedulable_work(c) ==
    \/ worker[c] # <<>>
    \/ overflow # <<>>
    \/ \E v \in stealable \ {c} : worker[v] # <<>>

idle_loop(c) ==
    /\ pc[c] = "run" /\ flow[c] = c
    /\ has_schedulable_work(c)
    /\ goto(c, "sched")
    /\ UNCHANGED <<state, current, places, gate, pending, resched, old, contexts>>

\* On the way choose_victim_cpu meets a marked CPU without tasks, and unmarks it in a
\* step of its own.  (Memory pressure, which makes it skip a CPU with a single task, is
\* left out.)
choose_victim_cpu(c, v) ==
    /\ pc[c] = "run" /\ flow[c] = c
    /\ worker[c] = <<>> /\ overflow = <<>>
    /\ v \in stealable \ {c} /\ worker[v] = <<>>
    /\ old' = [old EXCEPT ![c] = v]
    /\ goto(c, "unmark")
    /\ UNCHANGED <<state, current, places, gate, pending, resched, contexts>>

set_stealable_bit(c) ==
    /\ pc[c] = "unmark"
    /\ stealable' = stealable \ {old[c]}
    /\ goto(c, "run")
    /\ UNCHANGED <<state, current, worker, overflow, sleeping, waitQueue, zombies, dropped,
                   gate, pending, resched, old, contexts>>

\* The timer interrupt of a task past its time slice.  It holds HardIRQGuard, so
\* preemptible() is false and tick() returns without schedule().
tick(c) ==
    /\ pc[c] = "run" /\ current[c] # NoTask
    /\ resched' = [resched EXCEPT ![c] = TRUE]
    /\ UNCHANGED <<state, current, places, gate, pending, pc, old, contexts>>

-----------------------------------------------------------------------------
(* schedule(). *)

\* The box of the current task moves to the list its state names; a Blocked or
\* Stopped task has none and is freed.
PutAway(c) ==
    /\ pc[c] = "sched"
    /\ LET t == current[c]
           s == IF state[t] = "Running" THEN "Ready" ELSE state[t]
       IN IF t = NoTask
          THEN old' = [old EXCEPT ![c] = c] /\ UNCHANGED <<state, places>>
          ELSE /\ old' = [old EXCEPT ![c] = t]
               /\ set_state(t, s)
               /\ IF s = "Ready" THEN queues(push(<<worker, overflow>>, t, c))
                                 ELSE UNCHANGED <<worker, overflow>>
               /\ sleeping' = IF s = "Sleeping" THEN sleeping \cup {t} ELSE sleeping
               /\ zombies' = IF s = "Terminated" THEN zombies \cup {t} ELSE zombies
               /\ dropped' = IF s \in {"Blocked", "Stopped"} THEN dropped \cup {t} ELSE dropped
               /\ UNCHANGED <<stealable, waitQueue>>
    /\ current' = [current EXCEPT ![c] = NoTask]
    /\ resched' = [resched EXCEPT ![c] = FALSE]
    /\ goto(c, "pick")
    /\ UNCHANGED <<gate, pending, contexts>>

\* deliver_signals runs before t is in PER_CPU_CURRENT_TASK: it consumes the signal,
\* its kill_task finds no such task, and the state becomes Running.
dispatch(c, t) ==
    /\ pending' = pending \ {t}
    /\ set_state(t, "Running")
    /\ current' = [current EXCEPT ![c] = t]
    /\ goto(c, "switch")
    /\ UNCHANGED <<sleeping, waitQueue, zombies, dropped, gate, resched, old, contexts>>

\* The task a committed ghost policy names, from the local deque or from the top of
\* another CPU's: the boxes taken out on the way go back, there to the bottom.
take_committed_policy_task(c) ==
    /\ pc[c] = "pick" /\ GhostPolicy
    /\ \E v \in Cpus : \E i \in DOMAIN worker[v] :
          LET w == worker[v]
          IN /\ state[w[i]] = "Ready"
             /\ dispatch(c, w[i])
             /\ worker' = [worker EXCEPT ![v] =
                    IF v = c THEN RemoveAt(w, i)
                    ELSE SubSeq(w, i + 1, Len(w)) \o Reverse(SubSeq(w, 1, i - 1))]
    /\ UNCHANGED <<overflow, stealable>>

\* The policy's task is not in the deque of the CPU it was last seen on.
PolicyMiss(c) ==
    /\ pc[c] = "pick" /\ GhostPolicy
    /\ \E v \in Cpus \ {c} : worker' = [worker EXCEPT ![v] = Reverse(@)]
    /\ goto(c, "local")
    /\ UNCHANGED <<state, current, overflow, stealable, sleeping, waitQueue, zombies,
                   dropped, gate, pending, resched, old, contexts>>

picking(c) == pc[c] \in {"pick", "local"}

PopLocal(c) ==
    /\ picking(c) /\ worker[c] # <<>>
    /\ dispatch(c, Last(worker[c]))
    /\ worker' = [worker EXCEPT ![c] = Front(@)]
    /\ UNCHANGED <<overflow, stealable>>

PopOverflow(c) ==
    /\ picking(c) /\ worker[c] = <<>> /\ overflow # <<>>
    /\ dispatch(c, Head(overflow))
    /\ overflow' = Tail(overflow)
    /\ UNCHANGED <<worker, stealable>>

StealFrom(c, v) ==
    /\ picking(c) /\ worker[c] = <<>> /\ overflow = <<>>
    /\ v # c /\ worker[v] # <<>>
    /\ dispatch(c, Head(worker[v]))
    /\ worker' = [worker EXCEPT ![v] = Tail(@)]
    /\ publish_worker_load(v)
    /\ UNCHANGED overflow

\* No task anywhere.  A steal from a victim with tasks fails only when a third CPU takes
\* the one it saw.
GoIdle(c) ==
    /\ picking(c) /\ worker[c] = <<>> /\ overflow = <<>>
    /\ \A v \in Cpus \ {c} : worker[v] = <<>> \/ Cpus # {c, v}
    /\ goto(c, "switch")
    /\ UNCHANGED <<state, current, places, gate, pending, resched, old, contexts>>

Thread(c) == IF current[c] = NoTask THEN c ELSE current[c]

\* The switch to the idle thread is skipped.
switchLazyIdle(c) ==
    /\ pc[c] = "switch"
    /\ goto(c, "run")
    /\ LET new == Thread(c)
           saving == [saved EXCEPT ![old[c]] = flow[c]]
       IN IF old[c] = new \/ new = c
          THEN UNCHANGED contexts
          ELSE /\ saved' = saving
               /\ flow' = [flow EXCEPT ![c] = saving[new]]
               /\ fresh' = (fresh \cup {old[c]}) \ {new}
    /\ UNCHANGED <<state, current, places, gate, pending, resched, old>>

\* A thread that did not go back to a run queue is not saved.
switchSavesReady(c) ==
    /\ pc[c] = "switch"
    /\ goto(c, "run")
    /\ LET new == Thread(c)
       IN IF old[c] = new
          THEN UNCHANGED contexts
          ELSE /\ flow' = [flow EXCEPT ![c] = saved[new]]
               /\ fresh' = (IF old[c] \in sleeping THEN fresh ELSE fresh \cup {old[c]}) \ {new}
               /\ UNCHANGED saved
    /\ UNCHANGED <<state, current, places, gate, pending, resched, old>>

\* switch_context saves to the old context and loads the new one; it is skipped when
\* they are the same.
switch_context(c) ==
    /\ pc[c] = "switch"
    /\ goto(c, "run")
    /\ LET new == Thread(c)
           saving == [saved EXCEPT ![old[c]] = flow[c]]
       IN IF old[c] = new
          THEN UNCHANGED contexts
          ELSE /\ saved' = saving
               /\ flow' = [flow EXCEPT ![c] = saving[new]]
               /\ fresh' = (fresh \cup {old[c]}) \ {new}
    /\ UNCHANGED <<state, current, places, gate, pending, resched, old>>

-----------------------------------------------------------------------------
(* Signals. *)

\* send_signal of a signal whose default action ends the task.
send_signal(t) ==
    /\ \E d \in Cpus : current[d] = t
    /\ pending' = pending \cup {t}
    /\ UNCHANGED <<state, current, places, gate, resched, pc, old, contexts>>

\* kill_task finds t in PER_CPU_CURRENT_TASK ...
kill_task(c, t, s) ==
    /\ pc[c] = "run" /\ current[c] # NoTask
    /\ \E d \in Cpus : current[d] = t
    /\ old' = [old EXCEPT ![c] = t]
    /\ goto(c, s)
    /\ UNCHANGED <<state, current, places, gate, pending, resched, contexts>>

\* ... and writes its state; nothing keeps the task in place in between.
KillWrite(c) ==
    /\ pc[c] \in {"kill", "stop", "cont"}
    /\ LET t == old[c]
       IN \/ pc[c] = "kill" /\ set_state(t, "Terminated")
          \/ pc[c] = "stop" /\ set_state(t, "Stopped")
          \/ pc[c] = "cont" /\ state[t] = "Stopped" /\ set_state(t, "Ready")
          \/ pc[c] = "cont" /\ state[t] # "Stopped" /\ UNCHANGED state
    /\ goto(c, "run")
    /\ UNCHANGED <<current, places, gate, pending, resched, old, contexts>>

-----------------------------------------------------------------------------
Schedule(c) ==
    \/ PutAway(c) \/ take_committed_policy_task(c) \/ PolicyMiss(c) \/ PopLocal(c)
    \/ PopOverflow(c) \/ (\E v \in Cpus : StealFrom(c, v)) \/ GoIdle(c) \/ switch_context(c)

Call(c) ==
    \/ sleep(c) \/ exit(c) \/ block_current_task_vfork(c) \/ WaitSleep(c) \/ KillWrite(c)
    \/ \E t \in Tasks, d \in Cpus : vfork(c, t, d)
    \/ \E t \in Tasks, s \in Signals : kill_task(c, t, s)

Next ==
    \/ \E t \in Tasks, d \in Cpus : Spawn(t, d) \/ WakeSleeping(t, d)
    \/ \E d \in Cpus : WakeOne(d) \/ WakeAll(d)
    \/ \E t \in Tasks : "kill" \in Signals /\ send_signal(t)
    \/ \E c \in Cpus : Schedule(c) \/ Call(c) \/ Yield(c) \/ idle_loop(c) \/ tick(c)
    \/ \E c, v \in Cpus : choose_victim_cpu(c, v)
    \/ \E c \in Cpus : set_stealable_bit(c)

\* A CPU executes on: it ends what it started in schedule() or kill_task(), and its idle
\* loop looks for work.  No thread has to call schedule().
Fairness == \A c \in Cpus :
    WF_vars(Schedule(c) \/ idle_loop(c) \/ KillWrite(c)
            \/ block_current_task_vfork(c) \/ set_stealable_bit(c))

Spec == Init /\ [][Next]_vars /\ Fairness

-----------------------------------------------------------------------------
\* Every variable has its type and no deque is longer than its capacity: Worker::push
\* refuses, and OVERFLOW_TASKS takes the task.
TypeOK ==
    /\ state \in [Tasks -> TaskState]
    /\ current \in [Cpus -> Tasks \cup {NoTask}]
    /\ worker \in [Cpus -> Seq(Tasks)]
    /\ \A c \in Cpus : Len(worker[c]) <= Cap
    /\ overflow \in Seq(Tasks) /\ waiters \in Seq(Tasks) /\ draining \in BOOLEAN
    /\ sleeping \subseteq Tasks /\ zombies \subseteq Tasks /\ dropped \subseteq Tasks
    /\ gate \subseteq Tasks /\ pending \subseteq Tasks
    /\ resched \in [Cpus -> BOOLEAN]
    /\ stealable \subseteq Cpus
    /\ pc \in [Cpus -> {"run", "vfork", "sched", "pick", "local", "switch", "unmark",
                        "kill", "stop", "cont"}]
    /\ old \in [Cpus -> Threads]
    /\ flow \in [Cpus -> Threads]
    /\ saved \in [Threads -> Threads]
    /\ fresh \subseteq Threads

\* The places that hold the box of t.
Holders(t) ==
    UNION { {<<"current", c>> : c \in {d \in Cpus : current[d] = t}},
            {<<"overflow", i>> : i \in {j \in DOMAIN overflow : overflow[j] = t}},
            {<<"waiters", i>> : i \in {j \in DOMAIN waiters : waiters[j] = t}},
            UNION {{<<"worker", c, i>> : i \in {j \in DOMAIN worker[c] : worker[c][j] = t}}
                      : c \in Cpus},
            {<<"sleeping">> : x \in sleeping \cap {t}},
            {<<"zombies">> : x \in zombies \cap {t}},
            {<<"dropped">> : x \in dropped \cap {t}} }

Queued(t) == Contains(overflow, t) \/ \E c \in Cpus : Contains(worker[c], t)

\* A spawned task has one place, on every path of schedule(), of the wake-ups and of a
\* full deque: it is neither forgotten nor run by two CPUs.
HeldOnce == \A t \in Tasks : state[t] # "New" => \E h \in Holders(t) : Holders(t) = {h}

\* The lists agree with Task::state: what schedule() will pick is Ready, and what waits for
\* an event is not.  (kill_task on another CPU breaks it; one CPU or no signals.)
ListsMatchStates ==
    \A t \in Tasks :
        /\ Queued(t) => state[t] = "Ready"
        /\ t \in sleeping => state[t] = "Sleeping"
        /\ t \in zombies => state[t] = "Terminated"
        /\ Contains(waiters, t) => state[t] = "Blocked"

\* Outside schedule() a CPU executes the thread PER_CPU_CURRENT_TASK names, its idle
\* thread when there is none.
RunsItsCurrent == \A c \in Cpus : pc[c] = "run" => flow[c] = Thread(c)

\* switch_context resumes a thread where it last stopped: the context it loads holds that
\* thread's registers, saved after the thread last ran.
ResumesWhereItStopped ==
    [][\A c \in Cpus :
         pc[c] = "switch" /\ pc'[c] = "run" /\ old[c] # Thread(c)
            => Thread(c) \in fresh /\ saved[Thread(c)] = Thread(c)]_vars

\* While some task is queued the CPUs do not all stay idle: the idle loop finds it in its
\* own deque, in the overflow queue or in another CPU's deque.
WorkConserving ==
    (\E t \in Tasks : Queued(t)) ~> (\E c \in Cpus : current[c] # NoTask)

=============================================================================
