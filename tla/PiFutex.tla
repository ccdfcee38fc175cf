------------------------------ MODULE PiFutex ------------------------------
(***************************************************************************)
(* FUTEX_LOCK_PI and FUTEX_UNLOCK_PI of task/futex.rs on one futex word:   *)
(* its owner's task id, 0 when it is free, and FUTEX_WAITERS, bit 30.      *)
(* Every access to the word, and every lock of its queue, is a step.  The  *)
(* queue is written and never slept on: a locker spins, yields once, tries *)
(* again and returns EAGAIN.                                               *)
(***************************************************************************)
EXTENDS Naturals, Sequences

CONSTANTS
  PiTasks,
  Free,           \* the owner field of a free word
  MaxQueue        \* bound: entries in the queue when another locker may call

ASSUME PiAssumption == Free \notin PiTasks /\ MaxQueue \in Nat

VARIABLES
  futex_word,     \* [owner, waiters]
  pi_queue,       \* FUTEX_MANAGER.queues[uaddr].waiters
  pi_at,          \* where a task is in the calls; "holds": it returned with the lock
  seen            \* the value of the word a task read last

piVars == <<futex_word, pi_queue, pi_at, seen>>

Word(owner, waiters) == [owner |-> owner, waiters |-> waiters]

PiInit ==
  /\ futex_word = Word(Free, FALSE) /\ pi_queue = <<>>
  /\ pi_at = [t \in PiTasks |-> "user"] /\ seen = [t \in PiTasks |-> Word(Free, FALSE)]

to(t, l) == pi_at' = [pi_at EXCEPT ![t] = l]
read(t) == seen' = [seen EXCEPT ![t] = futex_word]

\* The first compare_exchange, from 0.
LockPi(t) ==
  /\ pi_at[t] = "user" /\ Len(pi_queue) < MaxQueue
  /\ IF futex_word = Word(Free, FALSE)
     THEN futex_word' = Word(t, FALSE) /\ to(t, "holds")
     ELSE to(t, "load") /\ UNCHANGED futex_word
  /\ UNCHANGED <<pi_queue, seen>>

LoadWord(t) ==
  /\ pi_at[t] = "load" /\ read(t) /\ to(t, "mark")
  /\ UNCHANGED <<futex_word, pi_queue>>

\* The bit is stored with the owner that was read.
MarkStores(t) ==
  /\ pi_at[t] = "mark" /\ to(t, "enqueue")
  /\ futex_word' = Word(seen[t].owner, TRUE)
  /\ UNCHANGED <<pi_queue, seen>>

\* FUTEX_WAITERS is set if the word is still what was read.
MarkWaiters(t) ==
  /\ pi_at[t] = "mark" /\ to(t, "enqueue")
  /\ futex_word' = IF futex_word = seen[t] THEN Word(seen[t].owner, TRUE) ELSE futex_word
  /\ UNCHANGED <<pi_queue, seen>>

EnqueuePi(t) ==
  /\ pi_at[t] = "enqueue" /\ to(t, "spin")
  /\ pi_queue' = Append(pi_queue, t)
  /\ UNCHANGED <<futex_word, seen>>

\* One of the spins, and the last look after schedule(): a word without owner is tried
\* for.  The spins may run out, the timeout may be over, and the last look may fail.
Spin(t) ==
  /\ pi_at[t] \in {"spin", "last"} /\ read(t)
  /\ IF futex_word.owner = Free
     THEN to(t, IF pi_at[t] = "spin" THEN "cas" ELSE "last_cas")
     ELSE \/ pi_at[t] = "spin" /\ (to(t, "last") \/ to(t, "user") \/ to(t, "spin"))
          \/ pi_at[t] = "last" /\ to(t, "user")
  /\ UNCHANGED <<futex_word, pi_queue>>

\* compare_exchange from the value that had no owner.
CasOwner(t) ==
  /\ pi_at[t] \in {"cas", "last_cas"}
  /\ IF futex_word = seen[t]
     THEN futex_word' = Word(t, FALSE) /\ to(t, "holds")
     ELSE /\ \/ pi_at[t] = "cas" /\ (to(t, "spin") \/ to(t, "last") \/ to(t, "user"))
             \/ pi_at[t] = "last_cas" /\ to(t, "user")
          /\ UNCHANGED futex_word
  /\ UNCHANGED <<pi_queue, seen>>

\* The owner is looked at; EPERM for anyone else.
UnlockPi(t) ==
  /\ pi_at[t] = "holds" /\ read(t)
  /\ to(t, IF futex_word.owner = t THEN "store" ELSE "user")
  /\ UNCHANGED <<futex_word, pi_queue>>

StoreFree(t) ==
  /\ pi_at[t] = "store" /\ to(t, "dequeue")
  /\ futex_word' = Word(Free, FALSE)
  /\ UNCHANGED <<pi_queue, seen>>

DequeuePi(t) ==
  /\ pi_at[t] = "dequeue" /\ to(t, "user")
  /\ pi_queue' = IF pi_queue = <<>> THEN <<>> ELSE Tail(pi_queue)
  /\ UNCHANGED <<futex_word, seen>>

PiNext == \E t \in PiTasks :
  \/ LockPi(t) \/ LoadWord(t) \/ MarkWaiters(t) \/ EnqueuePi(t) \/ Spin(t) \/ CasOwner(t)
  \/ UnlockPi(t) \/ StoreFree(t) \/ DequeuePi(t)

PiSpec == PiInit /\ [][PiNext]_piVars

\* sys_futex_lock_pi: a task that returned 0 owns the word until its unlock clears it,
\* so no two tasks hold the lock, although waiters set their bit in the same word.
PiExclusive == \A t \in PiTasks : pi_at[t] \in {"holds", "store"} => futex_word.owner = t

=============================================================================
