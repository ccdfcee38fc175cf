------------------------------ MODULE Channel ------------------------------
(***************************************************************************)
(* The MPMC channel of ipc/channel.rs.  Its handles are used by tasks on   *)
(* different CPUs: every lock of the queue, every load of a handle count   *)
(* and every call of the wait queue is a step.  A task that sleeps on a    *)
(* WaitQueue stays there until a wake-up takes it out.  send_waiters has   *)
(* no place here: nothing sleeps on it.                                    *)
(***************************************************************************)
EXTENDS Naturals, SequencesExt

CONSTANTS Senders, Receivers,   \* the handles, each used by one task
          First,                \* the handles the channel is created with
          capacity,
          MaxSends              \* bound: messages per sender

ASSUME ChannelAssumption ==
    /\ First \subseteq Senders \cup Receivers
    /\ Senders \cap Receivers = {}
    /\ capacity \in Nat /\ MaxSends \in Nat

VARIABLES
    queue,
    live,       \* the handles not yet dropped: sender_count and receiver_count
    pc,
    sent,       \* sent[s]: calls of send and try_send made with s
    waiters,    \* recv_waiters
    accepted,   \* the messages pushed, in order
    received,   \* the messages popped, in order
    closed      \* the receivers whose last recv returned Err(Closed)

vars == <<queue, live, pc, sent, waiters, accepted, received, closed>>

Init ==
    /\ queue = <<>> /\ waiters = <<>> /\ accepted = <<>> /\ received = <<>>
    /\ live = First
    /\ pc = [h \in Senders \cup Receivers |-> "idle"]
    /\ sent = [s \in Senders |-> 0]
    /\ closed = {}

goto(h, l) == pc' = [pc EXCEPT ![h] = l]

-----------------------------------------------------------------------------
(* Sender. *)

\* send (l = "send") and try_send (l = "try") look at receiver_count first.
Send(s, l) ==
    /\ pc[s] = "idle" /\ s \in live /\ sent[s] < MaxSends
    /\ sent' = [sent EXCEPT ![s] = @ + 1]
    /\ goto(s, IF live \cap Receivers = {} THEN "idle" ELSE l)
    /\ UNCHANGED <<queue, live, waiters, accepted, received, closed>>

push_back(s) ==
    /\ queue' = Append(queue, <<s, sent[s]>>)
    /\ accepted' = Append(accepted, <<s, sent[s]>>)
    /\ goto(s, "wake")

\* send() with room; without, the message is pushed under a second lock all the same.
Push(s) ==
    /\ pc[s] \in {"send", "force"}
    /\ \/ (Len(queue) < capacity \/ pc[s] = "force") /\ push_back(s)
       \/ pc[s] = "send" /\ Len(queue) >= capacity /\ goto(s, "force")
          /\ UNCHANGED <<queue, accepted>>
    /\ UNCHANGED <<live, sent, waiters, received, closed>>

TryPush(s) ==
    /\ pc[s] = "try"
    /\ \/ Len(queue) < capacity /\ push_back(s)
       \/ Len(queue) >= capacity /\ goto(s, "idle") /\ UNCHANGED <<queue, accepted>>
    /\ UNCHANGED <<live, sent, waiters, received, closed>>

\* The woken receiver stays in the wait queue.
WakeOnePeeks(s) ==
    /\ pc[s] = "wake"
    /\ pc' = [h \in DOMAIN pc |-> IF waiters # <<>> /\ h = Last(waiters) THEN "pop"
                                  ELSE IF h = s THEN "idle" ELSE pc[h]]
    /\ UNCHANGED <<queue, live, sent, waiters, accepted, received, closed>>

\* recv_waiters.wake_one(), after the lock is released.
WakeOne(s) ==
    /\ pc[s] = "wake"
    /\ IF waiters = <<>> THEN goto(s, "idle") /\ UNCHANGED waiters
       ELSE /\ waiters' = Front(waiters)
            /\ pc' = [pc EXCEPT ![s] = "idle", ![Last(waiters)] = "pop"]
    /\ UNCHANGED <<queue, live, sent, accepted, received, closed>>

CloneSender(s, t) ==
    /\ pc[s] = "idle" /\ s \in live /\ t \in Senders \ live /\ sent[t] = 0
    /\ live' = live \cup {t}
    /\ UNCHANGED <<queue, pc, sent, waiters, accepted, received, closed>>

\* A dropped handle is not used again.
DropSender(s) ==
    /\ pc[s] = "idle" /\ s \in live
    /\ live' = live \ {s}
    /\ sent' = [sent EXCEPT ![s] = MaxSends]
    /\ goto(s, IF live' \cap Senders = {} THEN "wake_all" ELSE "idle")
    /\ UNCHANGED <<queue, waiters, accepted, received, closed>>

\* The last sender wakes the receivers, after its count is gone.
WakeAll(s) ==
    /\ pc[s] = "wake_all"
    /\ waiters' = <<>>
    /\ pc' = [h \in DOMAIN pc |-> IF Contains(waiters, h) THEN "pop"
                                  ELSE IF h = s THEN "idle" ELSE pc[h]]
    /\ UNCHANGED <<queue, live, sent, accepted, received, closed>>

-----------------------------------------------------------------------------
(* Receiver. *)

Recv(r) ==
    /\ pc[r] = "idle" /\ r \in live
    /\ goto(r, "pop")
    /\ closed' = closed \ {r}
    /\ UNCHANGED <<queue, live, sent, waiters, accepted, received>>

pop_front ==
    /\ queue # <<>>
    /\ received' = Append(received, Head(queue))
    /\ queue' = Tail(queue)

\* The newest message is taken.
PopNewest(r) ==
    /\ pc[r] = "pop"
    /\ \/ /\ queue # <<>> /\ received' = Append(received, Last(queue))
          /\ queue' = Front(queue) /\ goto(r, "idle")
       \/ queue = <<>> /\ goto(r, "check") /\ UNCHANGED <<queue, received>>
    /\ UNCHANGED <<live, sent, waiters, accepted, closed>>

Pop(r) ==
    /\ pc[r] = "pop"
    /\ \/ pop_front /\ goto(r, "idle")
       \/ queue = <<>> /\ goto(r, "check") /\ UNCHANGED <<queue, received>>
    /\ UNCHANGED <<live, sent, waiters, accepted, closed>>

\* sender_count, loaded after the queue was seen empty.
CheckClosed(r) ==
    /\ pc[r] = "check"
    /\ \/ live \cap Senders = {} /\ goto(r, "idle") /\ closed' = closed \cup {r}
       \/ live \cap Senders # {} /\ goto(r, "sleep") /\ UNCHANGED closed
    /\ UNCHANGED <<queue, live, sent, waiters, accepted, received>>

Sleep(r) ==
    /\ pc[r] = "sleep"
    /\ waiters' = Append(waiters, r)
    /\ goto(r, "asleep")
    /\ UNCHANGED <<queue, live, sent, accepted, received, closed>>

TryRecv(r) ==
    /\ pc[r] = "idle" /\ r \in live
    /\ pop_front
    /\ UNCHANGED <<live, pc, sent, waiters, accepted, closed>>

CloneReceiver(r, t) ==
    /\ pc[r] = "idle" /\ r \in live /\ t \in Receivers \ live
    /\ live' = live \cup {t}
    /\ UNCHANGED <<queue, pc, sent, waiters, accepted, received, closed>>

DropReceiver(r) ==
    /\ pc[r] = "idle" /\ r \in live
    /\ live' = live \ {r}
    /\ closed' = closed \ {r}
    /\ UNCHANGED <<queue, pc, sent, waiters, accepted, received>>

-----------------------------------------------------------------------------
SenderStep(s) == Push(s) \/ TryPush(s) \/ WakeOne(s) \/ WakeAll(s)
ReceiverStep(r) == Pop(r) \/ CheckClosed(r) \/ Sleep(r)

Next ==
    \/ \E s \in Senders : Send(s, "send") \/ Send(s, "try") \/ SenderStep(s) \/ DropSender(s)
                          \/ \E t \in Senders : CloneSender(s, t)
    \/ \E r \in Receivers : Recv(r) \/ ReceiverStep(r) \/ TryRecv(r) \/ DropReceiver(r)
                            \/ \E t \in Receivers : CloneReceiver(r, t)

Spec == Init /\ [][Next]_vars

-----------------------------------------------------------------------------
\* What the receivers got and what is still queued are the accepted messages, each once
\* and in their order, whichever receivers took them: pushes, pops, a full queue and closing
\* handles neither lose nor double a message.
DeliveredInOrder == received \o queue = accepted

\* A receiver is in recv_waiters exactly while it sleeps there, once: no wake-up is spent
\* on a receiver that is not asleep.
WaitersAsleep ==
    /\ IsInjective(waiters)
    /\ \A r \in Receivers : pc[r] = "asleep" <=> Contains(waiters, r)

=============================================================================
