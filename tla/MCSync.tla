------------------------------- MODULE MCSync -------------------------------
(***************************************************************************)
(* What CPUs hand to each other without holding a lock across the whole    *)
(* operation: the SPSC ring, the driver-jail worker that a pair of rings   *)
(* feeds, and address waits.  A behaviour is about the one that part       *)
(* names; the others stand still.                                          *)
(***************************************************************************)
EXTENDS SpscRing, JailWorker, AddressWait

CONSTANTS a1, a2, t1, t2

VARIABLE part

\* t1 waits for one address; t2 waits with WAITV for two.
CallOn(addresses, bitset) == [addresses |-> addresses, bitset |-> bitset]
MCTaskIds == {t1, t2}
MCAddresses == {a1, a2}
MCCalls == [t \in MCTaskIds |->
              IF t = t1 THEN {CallOn(<<a1>>, {1})} ELSE {CallOn(<<a1, a2>>, {1, 2})}]

MCInit == part \in {"ring", "jail", "futex"} /\ Init /\ JwInit /\ AwInit

MCNext ==
  /\ UNCHANGED part
  /\ \/ part = "ring" /\ Next /\ UNCHANGED <<jwVars, awVars>>
     \/ part = "jail" /\ JwNext /\ UNCHANGED <<vars, awVars>>
     \/ part = "futex" /\ AwNext /\ UNCHANGED <<vars, jwVars>>

\* JwFairness and AwFairness, each for the behaviours that are about it.
MCFairness ==
  /\ WF_jwVars(part = "jail" /\ WorkerNext)
  /\ WF_jwVars(part = "jail" /\ (CountRequest \/ CountEvents))
  /\ WF_awVars(part = "futex" /\ AwTick)
  /\ \A c \in AwCpus : /\ WF_awVars(part = "futex" /\ Resolving(c))
                       /\ SF_awVars(part = "futex" /\ CheckTimeouts(c))
  /\ \A t \in AwTasks : WF_awVars(part = "futex" /\ Blocking(t))

MCSpec == MCInit /\ [][MCNext]_<<part, vars, jwVars, awVars>> /\ MCFairness
=============================================================================
