------------------------------- MODULE MCSmp -------------------------------
(***************************************************************************)
(* Two CPUs that schedule, and, step by step, the deque their run queues   *)
(* are: one owner and two thieves.  A behaviour is about the one that part *)
(* names; the other stands still.                                          *)
(***************************************************************************)
EXTENDS Scheduler, WorkDeque, TLC

\* The scheduler tells its CPUs and its tasks apart by nothing but their names, and the
\* deque its tasks.
Perms ==
  {f @@ g : f \in Permutations(Cpus), g \in Permutations(Tasks)} \cup Permutations(DqTasks)

VARIABLE part

MCInit == part \in {"scheduler", "deque"} /\ Init /\ DqInit

MCNext ==
  /\ UNCHANGED part
  /\ \/ part = "scheduler" /\ Next /\ UNCHANGED dqVars
     \/ part = "deque" /\ DqNext /\ UNCHANGED vars

MCSpec == MCInit /\ [][MCNext]_<<part, vars, dqVars>>
============================================================================
