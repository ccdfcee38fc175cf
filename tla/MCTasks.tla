------------------------------ MODULE MCTasks ------------------------------
(***************************************************************************)
(* One CPU's scheduler, and RCU grace periods with the writers that sleep  *)
(* for them.  A behaviour is about the one that part names; the other      *)
(* stands still.                                                           *)
(***************************************************************************)
EXTENDS Scheduler, Rcu

VARIABLE part

MCInit == part \in {"scheduler", "rcu"} /\ Init /\ RcuInit

MCNext ==
  /\ UNCHANGED part
  /\ \/ part = "scheduler" /\ Next /\ UNCHANGED rcuVars
     \/ part = "rcu" /\ RcuNext /\ UNCHANGED vars

\* Fairness and RcuFairness, each for the behaviours that are about it.
MCFairness ==
  /\ \A c \in Cpus :
       WF_vars(/\ part = "scheduler"
               /\ Schedule(c) \/ idle_loop(c) \/ KillWrite(c)
                  \/ block_current_task_vfork(c) \/ set_stealable_bit(c))
  /\ \A c \in RcuCpus : WF_rcuVars(part = "rcu" /\ Running(c))
  /\ \A w \in Writers :
       /\ SF_rcuVars(part = "rcu" /\ \E c \in RcuCpus : WakeUp(c, w))
       /\ SF_rcuVars(part = "rcu" /\ \E c \in RcuCpus : writer[c] = w /\ Timeout(c))

MCSpec == MCInit /\ [][MCNext]_<<part, vars, rcuVars>> /\ MCFairness
============================================================================
