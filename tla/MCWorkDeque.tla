---------------------------- MODULE MCWorkDeque ----------------------------
(* A deque that two CPUs push to, as enqueue_ready does.                    *)
EXTENDS WorkDeque

=============================================================================
