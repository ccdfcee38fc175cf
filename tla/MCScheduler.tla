---------------------------- MODULE MCScheduler ----------------------------
(* Small machines for the scheduler. *)
EXTENDS Scheduler
=============================================================================
