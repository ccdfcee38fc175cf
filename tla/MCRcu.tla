------------------------------- MODULE MCRcu -------------------------------
(* Three CPUs: one reads, one reclaims, one ends a grace period in its     *)
(* timer softirq.                                                          *)
EXTENDS Rcu
============================================================================
