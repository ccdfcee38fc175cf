----------------------------- MODULE TaskDeque -----------------------------
(***************************************************************************)
(* What a CPU's run queue promises: its owner adds and takes at the back,  *)
(* any other CPU takes at the front, every call is atomic, and a task is   *)
(* owned by whoever took it.  task/deque.rs is shown to implement it       *)
(* (WorkDeque).                                                            *)
(***************************************************************************)
EXTENDS Naturals, Sequences

CONSTANTS Cpus, Owner, Tasks, Size

VARIABLES
  q,      \* the queued tasks, oldest first
  owned   \* owned[c]: the tasks (Boxes) in the hands of CPU c

vars == <<q, owned>>

Init ==
  /\ q = <<>>
  /\ owned \in [Cpus -> SUBSET Tasks]

Give(c, x) == owned' = [owned EXCEPT ![c] = @ \cup {x}]

\* push
PushBack(c) ==
  \E x \in owned[c] :
    /\ Len(q) < Size
    /\ q' = Append(q, x)
    /\ owned' = [owned EXCEPT ![c] = @ \ {x}]

\* pop: LIFO
PopBack ==
  /\ q # <<>>
  /\ Give(Owner, q[Len(q)])
  /\ q' = SubSeq(q, 1, Len(q) - 1)

\* steal: FIFO
TakeFront(c) ==
  /\ q # <<>>
  /\ Give(c, Head(q))
  /\ q' = Tail(q)

\* Outside the deque a task may pass from any CPU to any other.
Requeue(c, d) ==
  \E x \in owned[c] :
    /\ owned' = [e \in Cpus |-> IF e = d THEN owned[d] \cup {x} ELSE owned[e] \ {x}]
    /\ UNCHANGED q

Next ==
  \/ \E c \in Cpus : PushBack(c) \/ TakeFront(c)
  \/ PopBack
  \/ \E c, d \in Cpus : Requeue(c, d)

Spec == Init /\ [][Next]_vars
=============================================================================
