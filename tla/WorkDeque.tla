----------------------------- MODULE WorkDeque -----------------------------
(***************************************************************************)
(* One CPU's run queue (task/deque.rs, Worker<T> / Stealer<T>): the owner  *)
(* pushes and pops at `bottom`, the other CPUs steal at `top`.  Every load *)
(* and store of a shared location is a step of its own.  The fences of the *)
(* code (Release before the publishing store of push, SeqCst in pop and    *)
(* steal) are what makes this interleaving the right memory model.         *)
(*                                                                         *)
(* Pushers is the set of CPUs that call push.  The deque's own contract is *)
(* Pushers = {Owner}; task/scheduler.rs also pushes from other CPUs        *)
(* (enqueue_boxed_task, restore_worker_tasks, push_to_cpu).                *)
(***************************************************************************)
EXTENDS Integers, Sequences

CONSTANTS
  DqCpus, Owner, Pushers,
  DqTasks, DqNone,   \* the Boxes; a null pointer
  Size,            \* DEQUE_SIZE
  MaxIndex         \* bound: the highest value bottom reaches

ASSUME DequeAssumption ==
  /\ Owner \in DqCpus
  /\ Pushers \subseteq DqCpus
  /\ DqNone \notin DqTasks
  /\ Size \in Nat \ {0}
  /\ MaxIndex \in Nat

VARIABLES
  top, bottom, dqBuffer,   \* Inner
  dqPc,                    \* dqPc[c]: where CPU c is inside push, pop or steal
  t, b, task,            \* t[c], b[c], task[c]: the locals of that call
  held                   \* held[c]: the tasks CPU c holds outside any call

shared == <<top, bottom, dqBuffer>>
locals == <<t, b, task>>
dqVars == <<shared, dqPc, locals, held>>

DqSlots == 0..(Size - 1)
slot(i) == i % Size

DqInit ==
  /\ top = 0 /\ bottom = 0
  /\ dqBuffer = [s \in DqSlots |-> DqNone]
  /\ dqPc = [c \in DqCpus |-> "idle"]
  /\ t = [c \in DqCpus |-> 0] /\ b = [c \in DqCpus |-> 0]
  /\ task = [c \in DqCpus |-> DqNone]
  /\ held \in [DqCpus -> SUBSET DqTasks]
  /\ \A x \in DqTasks : \E c \in Pushers : x \in held[c]
  /\ \A c, d \in DqCpus : c # d => held[c] \cap held[d] = {}

dqGoto(c, label) == dqPc' = [dqPc EXCEPT ![c] = label]

\* The call of CPU c returns the tasks xs to its caller.
Return(c, xs) ==
  /\ dqGoto(c, "idle")
  /\ t' = [t EXCEPT ![c] = 0] /\ b' = [b EXCEPT ![c] = 0]
  /\ task' = [task EXCEPT ![c] = DqNone]
  /\ held' = [held EXCEPT ![c] = @ \cup xs]

-----------------------------------------------------------------------------
(* Worker::push *)

\* let b = bottom.load
PushTask(c, x) ==
  /\ dqPc[c] = "idle" /\ x \in held[c] /\ bottom < MaxIndex
  /\ dqGoto(c, "push_top")
  /\ b' = [b EXCEPT ![c] = bottom]
  /\ task' = [task EXCEPT ![c] = x]
  /\ held' = [held EXCEPT ![c] = @ \ {x}]
  /\ UNCHANGED <<shared, t>>

\* A full test that forgets the slot being written.
FullOneLate(c) == b[c] - top < 0 \/ b[c] - top > Size

\* b.wrapping_sub(t) as usize >= DEQUE_SIZE: a negative difference is huge.
Full(c) == b[c] - top < 0 \/ b[c] - top >= Size

\* let t = top.load; Err(task) when full
PushTop(c) ==
  /\ dqPc[c] = "push_top"
  /\ \/ Full(c) /\ Return(c, {task[c]})
     \/ ~Full(c) /\ dqGoto(c, "push_store") /\ UNCHANGED <<locals, held>>
  /\ UNCHANGED shared

PushStore(c) ==
  /\ dqPc[c] = "push_store"
  /\ dqBuffer' = [dqBuffer EXCEPT ![slot(b[c])] = task[c]]
  /\ dqGoto(c, "push_publish")
  /\ UNCHANGED <<top, bottom, locals, held>>

PushPublish(c) ==
  /\ dqPc[c] = "push_publish"
  /\ bottom' = b[c] + 1
  /\ Return(c, {})
  /\ UNCHANGED <<top, dqBuffer>>

-----------------------------------------------------------------------------
(* Worker::pop *)

\* let b = bottom.load - 1
PopTask(c) ==
  /\ dqPc[c] = "idle"
  /\ dqGoto(c, "pop_store")
  /\ b' = [b EXCEPT ![c] = bottom - 1]
  /\ UNCHANGED <<shared, t, task, held>>

PopStore(c) ==
  /\ dqPc[c] = "pop_store"
  /\ bottom' = b[c]
  /\ dqGoto(c, "pop_top")
  /\ UNCHANGED <<top, dqBuffer, locals, held>>

\* let t = top.load; t <= b ?
PopTop(c) ==
  /\ dqPc[c] = "pop_top"
  /\ t' = [t EXCEPT ![c] = top]
  /\ dqGoto(c, IF top <= b[c] THEN "pop_read" ELSE "pop_restore")
  /\ UNCHANGED <<shared, b, task, held>>

\* The last element is taken like any other, without the compare-exchange.
PopReadNoRace(c) ==
  /\ dqPc[c] = "pop_read"
  /\ Return(c, {dqBuffer[slot(b[c])]})
  /\ UNCHANGED shared

\* Load the slot; more than one task left: the last one is the owner's.
PopRead(c) ==
  LET x == dqBuffer[slot(b[c])] IN
  /\ dqPc[c] = "pop_read"
  /\ \/ t[c] # b[c] /\ Return(c, {x})
     \/ /\ t[c] = b[c]
        /\ task' = [task EXCEPT ![c] = x]
        /\ dqGoto(c, "pop_cas")
        /\ UNCHANGED <<t, b, held>>
  /\ UNCHANGED shared

\* top.compare_exchange(t, t + 1)
PopCas(c) ==
  /\ dqPc[c] = "pop_cas"
  /\ \/ top = t[c] /\ top' = t[c] + 1 /\ UNCHANGED task
     \/ top # t[c] /\ task' = [task EXCEPT ![c] = DqNone] /\ UNCHANGED top
  /\ dqGoto(c, "pop_restore")
  /\ UNCHANGED <<bottom, dqBuffer, t, b, held>>

\* bottom.store(b + 1), on the three paths that give the index back.
PopRestore(c) ==
  /\ dqPc[c] = "pop_restore"
  /\ bottom' = b[c] + 1
  /\ Return(c, {task[c]} \ {DqNone})
  /\ UNCHANGED <<top, dqBuffer>>

-----------------------------------------------------------------------------
(* Stealer::steal *)

\* let t = top.load
Steal(c) ==
  /\ dqPc[c] = "idle"
  /\ dqGoto(c, "steal_bottom")
  /\ t' = [t EXCEPT ![c] = top]
  /\ UNCHANGED <<shared, b, task, held>>

\* let b = bottom.load; t < b ?
StealBottom(c) ==
  /\ dqPc[c] = "steal_bottom"
  /\ \/ t[c] < bottom /\ dqGoto(c, "steal_read") /\ UNCHANGED <<locals, held>>
     \/ t[c] >= bottom /\ Return(c, {})
  /\ UNCHANGED shared

StealRead(c) ==
  /\ dqPc[c] = "steal_read"
  /\ task' = [task EXCEPT ![c] = dqBuffer[slot(t[c])]]
  /\ dqGoto(c, "steal_cas")
  /\ UNCHANGED <<shared, t, b, held>>

\* top.compare_exchange(t, t + 1)
StealCas(c) ==
  /\ dqPc[c] = "steal_cas"
  /\ \/ top = t[c] /\ top' = t[c] + 1 /\ Return(c, {task[c]})
     \/ top # t[c] /\ UNCHANGED top /\ Return(c, {})
  /\ UNCHANGED <<bottom, dqBuffer>>

-----------------------------------------------------------------------------
\* A task that CPU c took runs, and later CPU d is the one to enqueue it again.
Requeue(c, d) ==
  \E x \in held[c] :
    /\ held' = [e \in DqCpus |-> IF e = d THEN held[d] \cup {x} ELSE held[e] \ {x}]
    /\ UNCHANGED <<shared, dqPc, locals>>

PushStep(c) ==
  \/ \E x \in DqTasks : PushTask(c, x)
  \/ PushTop(c) \/ PushStore(c) \/ PushPublish(c)

PopStep(c) ==
  PopTask(c) \/ PopStore(c) \/ PopTop(c) \/ PopRead(c) \/ PopCas(c) \/ PopRestore(c)

StealStep(c) == Steal(c) \/ StealBottom(c) \/ StealRead(c) \/ StealCas(c)

DqNext ==
  \/ \E c \in Pushers : PushStep(c)
  \/ PopStep(Owner)
  \/ \E c \in DqCpus \ {Owner} : StealStep(c)
  \/ \E c \in DqCpus, d \in Pushers : c # d /\ Requeue(c, d)

DqSpec == DqInit /\ [][DqNext]_dqVars

-----------------------------------------------------------------------------
(* Properties *)

Popping == dqPc[Owner] \in {"pop_top", "pop_read", "pop_cas", "pop_restore"}

\* One past the last queued index: pop lowers bottom before it has the task.
End == IF Popping THEN b[Owner] + 1 ELSE bottom

\* The tasks CPU c is answerable for: those it holds, the one it is pushing and
\* the one its pop has won but not yet returned.
Owned(c) ==
  held[c] \cup
  (IF dqPc[c] \in {"push_top", "push_store", "push_publish", "pop_restore"}
     THEN {task[c]} \ {DqNone} ELSE {})

\* Every variable keeps its type, and no call ever hands out a null pointer
\* (held has no DqNone in it): Box::from_raw in pop and steal.
DqTypeOK ==
  /\ top \in Nat /\ bottom \in Int
  /\ dqBuffer \in [DqSlots -> DqTasks \cup {DqNone}]
  /\ dqPc \in [DqCpus -> {"idle", "push_top", "push_store", "push_publish",
                      "pop_store", "pop_top", "pop_read", "pop_cas", "pop_restore",
                      "steal_bottom", "steal_read", "steal_cas"}]
  /\ t \in [DqCpus -> Int] /\ b \in [DqCpus -> Int]
  /\ task \in [DqCpus -> DqTasks \cup {DqNone}]
  /\ held \in [DqCpus -> SUBSET DqTasks]

\* A Box has one owner: a task taken by pop or steal is in no other CPU's hands
\* and no longer in the deque, whoever wins the race for the last element.
OneOwner ==
  /\ \A c, d \in DqCpus : c # d => Owned(c) \cap Owned(d) = {}
  /\ \A c \in DqCpus : \A i \in top..(End - 1) : dqBuffer[slot(i)] \notin Owned(c)
  /\ \A i, j \in top..(End - 1) : i # j => dqBuffer[slot(i)] # dqBuffer[slot(j)]

\* No task is lost: one that no CPU has is in the deque, where pop or steal
\* will find it.
NoTaskLost ==
  \A x \in DqTasks :
    \/ \E c \in DqCpus : x \in Owned(c)
    \/ \E i \in top..(End - 1) : dqBuffer[slot(i)] = x

\* The queued tasks, oldest first.
DqQueued == [i \in 1..(End - top) |-> dqBuffer[slot(top + i - 1)]]

Abstract == INSTANCE TaskDeque WITH Cpus <- DqCpus, Tasks <- DqTasks,
                                 q <- DqQueued, owned <- [c \in DqCpus |-> Owned(c)]

\* The lock-free deque behaves as one whose calls are atomic: the owner gets the
\* newest task, a thief the oldest, and the queue never holds more than Size.
ImplementsDeque == Abstract!Spec
=============================================================================
