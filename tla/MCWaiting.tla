----------------------------- MODULE MCWaiting -----------------------------
(***************************************************************************)
(* What threads wait on: the sleep clock, channels and priority-inheriting *)
(* futexes.  A behaviour is about the one that part names; the others      *)
(* stand still.                                                            *)
(***************************************************************************)
EXTENDS SleepClock, Channel, PiFutex, TLC

VARIABLE part

Perms == Permutations(Tasks)

MCInit == part \in {"clock", "channel", "pi"} /\ ClockInit /\ Init /\ PiInit

MCNext ==
  /\ UNCHANGED part
  /\ \/ part = "clock" /\ ClockNext /\ UNCHANGED <<vars, piVars>>
     \/ part = "channel" /\ Next /\ UNCHANGED <<clockVars, piVars>>
     \/ part = "pi" /\ PiNext /\ UNCHANGED <<clockVars, vars>>

MCSpec == MCInit /\ [][MCNext]_<<part, clockVars, vars, piVars>>
============================================================================
