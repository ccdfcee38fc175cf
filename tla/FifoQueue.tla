----------------------------- MODULE FifoQueue -----------------------------
(***************************************************************************)
(* What a bounded single-producer single-consumer queue promises, with     *)
(* every call atomic.  drivers/jail_ring.rs is shown to implement it       *)
(* (SpscRing), and drivers/jail.rs is modelled on top of it (JailWorker).  *)
(***************************************************************************)
EXTENDS Naturals, Sequences

CONSTANTS Items, Cap

VARIABLES
  q,     \* the items accepted and not yet handed out, oldest first
  res,   \* what the last finished push returned: "none" yet, "ok" or "full"
  out    \* what the last finished pop or peek returned (<<>>: nothing)

vars == <<q, res, out>>

Init == q = <<>> /\ res = "none" /\ out = <<>>

\* A push adds one or more items behind the ones already there, up to Cap.
Enqueue ==
  /\ q' \in Seq(Items)
  /\ Len(q) < Len(q') /\ Len(q') <= Cap
  /\ SubSeq(q', 1, Len(q)) = q
  /\ res' = "ok"
  /\ UNCHANGED out

\* A push is turned away only by a queue that really is full.
Reject == Len(q) = Cap /\ res' = "full" /\ UNCHANGED <<q, out>>

\* A pop takes the oldest items, in order.
Dequeue ==
  \E k \in 1..Len(q) :
    /\ out' = SubSeq(q, 1, k)
    /\ q' = SubSeq(q, k + 1, Len(q))
    /\ UNCHANGED res

\* A pop or peek comes back empty-handed only from an empty queue.
Empty == q = <<>> /\ out' = <<>> /\ UNCHANGED <<q, res>>

\* A peek shows the item the next pop takes first.
PeekHead == q # <<>> /\ out' = <<Head(q)>> /\ UNCHANGED <<q, res>>

Next == Enqueue \/ Reject \/ Dequeue \/ Empty \/ PeekHead

Spec == Init /\ [][Next]_vars
=============================================================================
