-------------------------- MODULE WorkDeque_proofs --------------------------
(***************************************************************************)
(* Proofs about the work-stealing deque, for any number of CPUs and tasks, *)
(* any DEQUE_SIZE, and a single producer: the contract of task/deque.rs.   *)
(***************************************************************************)
EXTENDS WorkDeque, TLAPS

\* Within n consecutive indices every index has a slot of its own.
LEMMA OwnSlot ==
  ASSUME NEW n \in Nat \ {0}, NEW x \in Nat, NEW y \in Nat, x < y, y - x < n
  PROVE  x % n # y % n
<1> SUFFICES ASSUME x % n = y % n PROVE FALSE OBVIOUS
<1> DEFINE q == x \div n
           r == y \div n
<1>1. q \in Int /\ x = n * q + (x % n) /\ r \in Int /\ y = n * r + (y % n) OBVIOUS
<1> HIDE DEF q, r
<1>2. y - x = n * (r - q) BY <1>1
<1>3. CASE r - q <= 0
  <2>1. n * (r - q) <= 0 BY <1>1, <1>3
  <2> QED BY <1>2, <2>1
<1>4. CASE r - q >= 1
  <2>1. n * (r - q) >= n BY <1>1, <1>4
  <2> QED BY <1>2, <2>1
<1> QED BY <1>1, <1>3, <1>4

-----------------------------------------------------------------------------
(* The inductive invariant *)

Pushing == {"push_top", "push_store", "push_publish"}
Stealing == {"steal_bottom", "steal_read", "steal_cas"}

\* Where the owner is decides how bottom and its local b relate to top.
OwnerInv ==
  LET p == dqPc[Owner] IN
  /\ p \notin Stealing
  /\ top <= End /\ End - top <= Size
  /\ p \in Pushing => b[Owner] = bottom /\ task[Owner] \in DqTasks \ held[Owner]
  /\ p \in {"push_store", "push_publish"} => bottom - top < Size
  /\ p = "push_publish" => dqBuffer[slot(bottom)] = task[Owner]
  /\ p = "pop_store" => b[Owner] = bottom - 1
  /\ Popping => bottom = b[Owner]
  /\ p \in {"pop_read", "pop_cas"} => t[Owner] \in 0..b[Owner] /\ t[Owner] <= top
  /\ p = "pop_read" /\ t[Owner] < b[Owner] => top <= b[Owner]
  /\ p = "pop_cas" => t[Owner] = b[Owner] /\ task[Owner] = dqBuffer[slot(b[Owner])]
  /\ p = "pop_restore" => top = End
  /\ p \in {"idle", "pop_store", "pop_top", "pop_read"} => task[Owner] = DqNone

\* The first index thieves may not take: the owner has claimed its last task
\* as soon as it has seen a smaller top.
Limit ==
  IF dqPc[Owner] = "pop_read" /\ t[Owner] < b[Owner] THEN b[Owner] ELSE End

\* A thief's t is never ahead of top, and if it is still current then there is
\* a task at t, the one the thief has read.
ThiefInv ==
  \A c \in DqCpus \ {Owner} :
    /\ dqPc[c] \in Stealing \cup {"idle"}
    /\ dqPc[c] \in Stealing => t[c] \in Nat /\ t[c] <= top
    /\ dqPc[c] \in {"steal_read", "steal_cas"} /\ t[c] = top => top < Limit
    /\ dqPc[c] = "steal_cas" /\ t[c] = top => task[c] = dqBuffer[slot(top)]

Filled == \A i \in top..(End - 1) : dqBuffer[slot(i)] \in DqTasks

QueueInv == Filled /\ OneOwner /\ NoTaskLost

IInv == DqTypeOK /\ OwnerInv /\ ThiefInv /\ QueueInv

LEMMA InitIInv == ASSUME Pushers = {Owner} PROVE DqInit => IInv
<1> SUFFICES ASSUME DqInit PROVE IInv OBVIOUS
<1> USE DequeAssumption DEF DqInit
<1>1. DqTypeOK BY DEF DqTypeOK
<1>2. End = 0 /\ top = 0 BY DEF End, Popping
<1>3. OwnerInv BY <1>2 DEF OwnerInv, Popping, Pushing, Stealing
<1>4. ThiefInv BY Zenon DEF ThiefInv, Stealing
<1>5. Filled BY <1>2 DEF Filled
<1>6. \A c \in DqCpus : Owned(c) = held[c] BY Zenon DEF Owned
<1>7. OneOwner BY <1>2, <1>6 DEF OneOwner
<1>8. NoTaskLost BY <1>6 DEF NoTaskLost
<1> QED BY <1>1, <1>3, <1>4, <1>5, <1>7, <1>8 DEF IInv, QueueInv

\* The three things a step can do to the queue.
Same ==
  /\ top' = top /\ End' = End
  /\ \A i \in top..(End - 1) : dqBuffer'[slot(i)] = dqBuffer[slot(i)]
  /\ \A c \in DqCpus : Owned(c)' = Owned(c)

Grew ==
  /\ top' = top /\ End' = End + 1 /\ End - top < Size /\ dqBuffer' = dqBuffer
  /\ dqBuffer[slot(End)] \in DqTasks /\ dqBuffer[slot(End)] \in Owned(Owner)
  /\ Owned(Owner)' = Owned(Owner) \ {dqBuffer[slot(End)]}
  /\ \A c \in DqCpus \ {Owner} : Owned(c)' = Owned(c)

Lost(c, k) ==
  /\ top < End
  /\ \/ k = End - 1 /\ End' = End - 1 /\ top' = top
     \/ k = top /\ End' = End /\ top' = top + 1
  /\ dqBuffer' = dqBuffer
  /\ Owned(c)' = Owned(c) \cup {dqBuffer[slot(k)]}
  /\ \A d \in DqCpus \ {c} : Owned(d)' = Owned(d)

\* A step that leaves the queued tasks and every CPU's tasks alone keeps the
\* queue's invariant.
LEMMA QueueKept ==
  ASSUME QueueInv, Same
  PROVE  QueueInv'
<1> USE DEF Same
<1>1. Filled' <=> \A i \in top'..(End' - 1) : dqBuffer'[slot(i)] \in DqTasks BY DEF Filled
<1>2. Filled' BY <1>1 DEF QueueInv, Filled
<1>3. OneOwner' <=>
        /\ \A c, d \in DqCpus : c # d => Owned(c)' \cap Owned(d)' = {}
        /\ \A c \in DqCpus : \A i \in top'..(End' - 1) : dqBuffer'[slot(i)] \notin Owned(c)'
        /\ \A i, j \in top'..(End' - 1) : i # j => dqBuffer'[slot(i)] # dqBuffer'[slot(j)]
  BY DEF OneOwner
<1>4. OneOwner' BY <1>3 DEF QueueInv, OneOwner
<1>5. NoTaskLost' <=>
        \A x \in DqTasks :
          \/ \E c \in DqCpus : x \in Owned(c)'
          \/ \E i \in top'..(End' - 1) : dqBuffer'[slot(i)] = x
  BY DEF NoTaskLost
<1>6. NoTaskLost' BY <1>5 DEF QueueInv, NoTaskLost
<1> QED BY <1>2, <1>4, <1>6 DEF QueueInv

LEMMA PushIInv ==
  ASSUME IInv, NEW x \in DqTasks, PushTask(Owner, x)
  PROVE  IInv' /\ Same
<1> USE DequeAssumption DEF PushTask, dqGoto, shared
<1>1. DqTypeOK' BY DEF IInv, DqTypeOK
<1>2. End' = End BY DEF IInv, DqTypeOK, End, Popping
<1>3. OwnerInv' BY <1>2 DEF IInv, DqTypeOK, OwnerInv, Popping, Pushing, Stealing
<1>4. Limit' = Limit BY <1>2 DEF IInv, DqTypeOK, Limit
<1>5. ThiefInv' BY <1>4 DEF IInv, DqTypeOK, ThiefInv
<1>6. \A c \in DqCpus : Owned(c)' = Owned(c) BY DEF IInv, DqTypeOK, Owned
<1>7. Same BY <1>2, <1>6 DEF Same
<1>8. QueueInv' BY <1>7, QueueKept DEF IInv
<1> QED BY <1>1, <1>3, <1>5, <1>7, <1>8 DEF IInv

LEMMA PushTopIInv ==
  ASSUME IInv, PushTop(Owner)
  PROVE  IInv' /\ Same
<1> USE DequeAssumption DEF PushTop, Return, dqGoto, shared, locals
<1>0. task[Owner] \in DqTasks /\ dqPc[Owner] = "push_top" BY DEF IInv, OwnerInv, Pushing
<1>1. DqTypeOK' BY <1>0 DEF IInv, DqTypeOK
<1>2. End' = End BY DEF IInv, DqTypeOK, End, Popping
<1>3. OwnerInv'
  BY <1>0, <1>2 DEF IInv, DqTypeOK, OwnerInv, Popping, Pushing, Stealing, Full
<1>4. Limit' = Limit BY <1>2 DEF IInv, DqTypeOK, Limit
<1>5. ThiefInv' BY <1>4 DEF IInv, DqTypeOK, ThiefInv
<1>6. \A c \in DqCpus : Owned(c)' = Owned(c) BY <1>0 DEF IInv, DqTypeOK, Owned
<1>7. Same BY <1>2, <1>6 DEF Same
<1>8. QueueInv' BY <1>7, QueueKept DEF IInv
<1> QED BY <1>1, <1>3, <1>5, <1>7, <1>8 DEF IInv

\* The slot a push writes is not one of the queued ones: what the full test is
\* for.
LEMMA StoreOutside ==
  ASSUME IInv, dqPc[Owner] = "push_store"
  PROVE  /\ slot(bottom) \in DqSlots
         /\ \A i \in top..(End - 1) : slot(i) # slot(bottom)
<1> USE DequeAssumption DEF IInv, DqTypeOK
<1>1. bottom = End /\ top <= bottom /\ bottom - top < Size
  BY DEF OwnerInv, End, Popping
<1>2. bottom \in Nat BY <1>1
<1>3. slot(bottom) \in DqSlots BY <1>2 DEF slot, DqSlots
<1>4. ASSUME NEW i \in top..(End - 1) PROVE slot(i) # slot(bottom)
  <2>1. i \in Nat /\ i < bottom /\ bottom - i < Size BY <1>1, <1>2
  <2> QED BY <2>1, <1>2, OwnSlot, Zenon DEF slot
<1> QED BY <1>3, <1>4

LEMMA PushStoreIInv ==
  ASSUME IInv, PushStore(Owner)
  PROVE  IInv' /\ Same
<1> USE DequeAssumption DEF PushStore, dqGoto, shared, locals
<1>0. /\ task[Owner] \in DqTasks /\ dqPc[Owner] = "push_store" /\ b[Owner] = bottom
      /\ top <= End /\ End = bottom
  BY DEF IInv, DqTypeOK, OwnerInv, Pushing, End, Popping
<1>1. DqTypeOK' BY <1>0, StoreOutside DEF IInv, DqTypeOK
<1>2. End' = End BY DEF IInv, DqTypeOK, End, Popping
<1>3. \A i \in top..(End - 1) : dqBuffer'[slot(i)] = dqBuffer[slot(i)]
  BY <1>0, StoreOutside DEF IInv, DqTypeOK
<1>4. OwnerInv'
  BY <1>0, <1>2, StoreOutside DEF IInv, DqTypeOK, OwnerInv, Popping, Pushing, Stealing
<1>5. Limit' = Limit BY <1>2 DEF IInv, DqTypeOK, Limit
<1>6. ASSUME top < Limit PROVE dqBuffer'[slot(top)] = dqBuffer[slot(top)]
  BY <1>0, <1>3, <1>6 DEF Limit, IInv, DqTypeOK
<1>7. ThiefInv' BY <1>5, <1>6 DEF IInv, DqTypeOK, ThiefInv
<1>8. \A c \in DqCpus : Owned(c)' = Owned(c) BY <1>0 DEF IInv, DqTypeOK, Owned
<1>9. Same BY <1>2, <1>3, <1>8 DEF Same
<1>10. QueueInv' BY <1>9, QueueKept DEF IInv
<1> QED BY <1>1, <1>4, <1>7, <1>9, <1>10 DEF IInv

\* A push that publishes moves its task from the owner to the back of the queue.
LEMMA QueueGrows ==
  ASSUME QueueInv, DqTypeOK, End \in Int, top <= End, Grew
  PROVE  QueueInv'
<1> USE DequeAssumption DEF QueueInv, DqTypeOK, Grew
<1>0. top'..(End' - 1) = (top..(End - 1)) \cup {End} OBVIOUS
<1>1. Filled' <=> \A i \in top'..(End' - 1) : dqBuffer'[slot(i)] \in DqTasks BY DEF Filled
<1>2. Filled' BY <1>0, <1>1 DEF Filled
<1>3. \A c, d \in DqCpus : c # d => Owned(c)' \cap Owned(d)' = {}
  BY DEF OneOwner
<1>4. \A c \in DqCpus : \A i \in top'..(End' - 1) : dqBuffer'[slot(i)] \notin Owned(c)'
  BY <1>0 DEF OneOwner
<1>5. \A i, j \in top'..(End' - 1) : i # j => dqBuffer'[slot(i)] # dqBuffer'[slot(j)]
  <2>1. \A i \in top..(End - 1) : dqBuffer[slot(i)] # dqBuffer[slot(End)]
    BY DEF OneOwner
  <2>2. \A i, j \in top..(End - 1) : i # j => dqBuffer[slot(i)] # dqBuffer[slot(j)]
    BY DEF OneOwner
  <2> HIDE DEF QueueInv, DqTypeOK
  <2> QED BY <1>0, <2>1, <2>2
<1>6. OneOwner' BY <1>3, <1>4, <1>5 DEF OneOwner
<1>7. NoTaskLost' <=>
        \A x \in DqTasks :
          \/ \E c \in DqCpus : x \in Owned(c)'
          \/ \E i \in top'..(End' - 1) : dqBuffer'[slot(i)] = x
  BY DEF NoTaskLost
<1>8. NoTaskLost' BY <1>0, <1>7 DEF NoTaskLost
<1> QED BY <1>2, <1>6, <1>8

LEMMA PushPublishIInv ==
  ASSUME IInv, PushPublish(Owner)
  PROVE  IInv' /\ Grew
<1> USE DequeAssumption DEF PushPublish, Return, dqGoto, shared, locals
<1>0. /\ task[Owner] \in DqTasks /\ dqPc[Owner] = "push_publish" /\ b[Owner] = bottom
      /\ top <= bottom /\ End = bottom /\ bottom - top < Size
      /\ dqBuffer[slot(bottom)] = task[Owner] /\ task[Owner] \notin held[Owner]
  BY DEF IInv, DqTypeOK, OwnerInv, Pushing, End, Popping
<1>1. DqTypeOK' BY <1>0 DEF IInv, DqTypeOK
<1>2. End' = End + 1 BY <1>0 DEF IInv, DqTypeOK, End, Popping
<1>3. OwnerInv'
  BY <1>0, <1>2 DEF IInv, DqTypeOK, OwnerInv, Popping, Pushing, Stealing
<1>4. Limit' = End' /\ Limit = End BY <1>0, <1>2 DEF IInv, DqTypeOK, Limit
<1>5. ThiefInv' BY <1>0, <1>2, <1>4 DEF IInv, DqTypeOK, ThiefInv
<1>6. task[Owner] \in Owned(Owner)
  BY <1>0 DEF IInv, DqTypeOK, Owned
<1>7. Owned(Owner)' = Owned(Owner) \ {task[Owner]}
  BY <1>0, <1>6 DEF IInv, DqTypeOK, Owned
<1>8. \A c \in DqCpus \ {Owner} : Owned(c)' = Owned(c) BY DEF IInv, DqTypeOK, Owned
<1>9. Grew BY <1>0, <1>2, <1>6, <1>7, <1>8 DEF Grew
<1>10. QueueInv' BY <1>0, <1>9, QueueGrows DEF IInv, DqTypeOK
<1> QED BY <1>1, <1>3, <1>5, <1>9, <1>10 DEF IInv

LEMMA PopIInv ==
  ASSUME IInv, PopTask(Owner)
  PROVE  IInv' /\ Same
<1> USE DequeAssumption DEF PopTask, dqGoto, shared
<1>1. DqTypeOK' BY DEF IInv, DqTypeOK
<1>2. End' = End BY DEF IInv, DqTypeOK, End, Popping
<1>3. OwnerInv' BY <1>2 DEF IInv, DqTypeOK, OwnerInv, Popping, Pushing, Stealing
<1>4. Limit' = Limit BY <1>2 DEF IInv, DqTypeOK, Limit
<1>5. ThiefInv' BY <1>4 DEF IInv, DqTypeOK, ThiefInv
<1>6. \A c \in DqCpus : Owned(c)' = Owned(c) BY DEF IInv, DqTypeOK, Owned
<1>7. Same BY <1>2, <1>6 DEF Same
<1>8. QueueInv' BY <1>7, QueueKept DEF IInv
<1> QED BY <1>1, <1>3, <1>5, <1>7, <1>8 DEF IInv

LEMMA PopStoreIInv ==
  ASSUME IInv, PopStore(Owner)
  PROVE  IInv' /\ Same
<1> USE DequeAssumption DEF PopStore, dqGoto, shared, locals
<1>1. DqTypeOK' BY DEF IInv, DqTypeOK
<1>2. End' = End BY DEF IInv, DqTypeOK, OwnerInv, End, Popping
<1>3. OwnerInv' BY <1>2 DEF IInv, DqTypeOK, OwnerInv, Popping, Pushing, Stealing
<1>4. Limit' = Limit BY <1>2 DEF IInv, DqTypeOK, Limit
<1>5. ThiefInv' BY <1>4 DEF IInv, DqTypeOK, ThiefInv
<1>6. \A c \in DqCpus : Owned(c)' = Owned(c) BY DEF IInv, DqTypeOK, Owned
<1>7. Same BY <1>2, <1>6 DEF Same
<1>8. QueueInv' BY <1>7, QueueKept DEF IInv
<1> QED BY <1>1, <1>3, <1>5, <1>7, <1>8 DEF IInv

\* Here the owner claims the last task, if a smaller top shows there are others
\* for the thieves.
LEMMA PopTopIInv ==
  ASSUME IInv, PopTop(Owner)
  PROVE  IInv' /\ Same
<1> USE DequeAssumption DEF PopTop, dqGoto, shared
<1>0. dqPc[Owner] = "pop_top" /\ End = b[Owner] + 1 /\ bottom = b[Owner]
      /\ task[Owner] = DqNone /\ top <= End /\ b[Owner] \in Int /\ top \in Nat
  BY DEF IInv, DqTypeOK, OwnerInv, End, Popping
<1>1. DqTypeOK' BY DEF IInv, DqTypeOK
<1>2. End' = End BY <1>0 DEF IInv, DqTypeOK, End, Popping
<1>3. OwnerInv' BY <1>0, <1>2 DEF IInv, DqTypeOK, OwnerInv, Popping, Pushing, Stealing
<1>4. Limit = End /\ (top < Limit => top < Limit')
  BY <1>0, <1>2 DEF IInv, DqTypeOK, Limit
<1>5. ThiefInv' BY <1>4 DEF IInv, DqTypeOK, ThiefInv
<1>6. \A c \in DqCpus : Owned(c)' = Owned(c) BY <1>0 DEF IInv, DqTypeOK, Owned
<1>7. Same BY <1>2, <1>6 DEF Same
<1>8. QueueInv' BY <1>7, QueueKept DEF IInv
<1> QED BY <1>1, <1>3, <1>5, <1>7, <1>8 DEF IInv

\* Taking a task from either end of the queue and giving it to one CPU.
LEMMA QueueShrinks ==
  ASSUME QueueInv, DqTypeOK, End \in Int, NEW c \in DqCpus, NEW k, Lost(c, k)
  PROVE  QueueInv'
<1> USE DequeAssumption DEF QueueInv, DqTypeOK, Lost
<1>0. k \in top..(End - 1) /\ top'..(End' - 1) = (top..(End - 1)) \ {k} OBVIOUS
<1>1. Filled' <=> \A i \in top'..(End' - 1) : dqBuffer'[slot(i)] \in DqTasks BY DEF Filled
<1>2. Filled' BY <1>0, <1>1 DEF Filled
<1>3. \A d, e \in DqCpus : d # e => Owned(d)' \cap Owned(e)' = {}
  BY <1>0 DEF OneOwner
<1>4. ASSUME NEW d \in DqCpus, NEW i \in top'..(End' - 1)
      PROVE  dqBuffer'[slot(i)] \notin Owned(d)'
  <2>1. i \in top..(End - 1) /\ i # k /\ k \in top..(End - 1) /\ dqBuffer' = dqBuffer BY <1>0
  <2>2. dqBuffer[slot(i)] # dqBuffer[slot(k)] /\ dqBuffer[slot(i)] \notin Owned(d)
    BY <2>1 DEF OneOwner
  <2>3. Owned(d)' \subseteq Owned(d) \cup {dqBuffer[slot(k)]} OBVIOUS
  <2> QED BY <2>1, <2>2, <2>3
<1>5. \A i, j \in top'..(End' - 1) : i # j => dqBuffer'[slot(i)] # dqBuffer'[slot(j)]
  BY <1>0 DEF OneOwner
<1>6. OneOwner' BY <1>3, <1>4, <1>5 DEF OneOwner
<1>7. NoTaskLost' <=>
        \A x \in DqTasks :
          \/ \E d \in DqCpus : x \in Owned(d)'
          \/ \E i \in top'..(End' - 1) : dqBuffer'[slot(i)] = x
  BY DEF NoTaskLost
<1>8. NoTaskLost' BY <1>0, <1>7 DEF NoTaskLost
<1> QED BY <1>2, <1>6, <1>8

LEMMA PopReadIInv ==
  ASSUME IInv, PopRead(Owner)
  PROVE  IInv' /\ (Same \/ Lost(Owner, End - 1))
<1> USE DequeAssumption DEF PopRead, Return, dqGoto, shared
<1>0. /\ dqPc[Owner] = "pop_read" /\ End = b[Owner] + 1 /\ bottom = b[Owner]
      /\ task[Owner] = DqNone /\ top <= End /\ b[Owner] \in Int /\ t[Owner] \in Int
      /\ top \in Nat /\ t[Owner] <= b[Owner] /\ t[Owner] <= top /\ End - top <= Size
  BY DEF IInv, DqTypeOK, OwnerInv, End, Popping
<1>1. CASE t[Owner] # b[Owner]
  <2>0. t[Owner] < b[Owner] /\ top <= b[Owner] /\ b[Owner] \in top..(End - 1)
    BY <1>0, <1>1 DEF IInv, OwnerInv
  <2>1. dqBuffer[slot(b[Owner])] \in DqTasks BY <2>0 DEF IInv, QueueInv, Filled
  <2>2. DqTypeOK' BY <1>0, <1>1, <2>1 DEF IInv, DqTypeOK
  <2>3. End' = End - 1 /\ Limit = b[Owner] /\ Limit' = End'
    BY <1>0, <1>1, <2>0 DEF IInv, DqTypeOK, End, Popping, Limit
  <2>4. OwnerInv'
    BY <1>0, <1>1, <2>0, <2>3 DEF IInv, DqTypeOK, OwnerInv, Popping, Pushing, Stealing
  <2>5. ThiefInv' BY <1>0, <1>1, <2>3 DEF IInv, DqTypeOK, ThiefInv
  <2>6. Owned(Owner)' = Owned(Owner) \cup {dqBuffer[slot(b[Owner])]}
    BY <1>0, <1>1 DEF IInv, DqTypeOK, Owned
  <2>7. \A d \in DqCpus \ {Owner} : Owned(d)' = Owned(d)
    BY <1>0, <1>1 DEF IInv, DqTypeOK, Owned
  <2>8. Lost(Owner, b[Owner]) BY <1>0, <1>1, <2>0, <2>3, <2>6, <2>7 DEF Lost
  <2>9. QueueInv'
    <3>1. End \in Int /\ QueueInv /\ DqTypeOK BY <1>0 DEF IInv
    <3> QED BY <3>1, <2>8, QueueShrinks
  <2>10. b[Owner] = End - 1 BY <1>0
  <2> QED BY <2>2, <2>4, <2>5, <2>8, <2>9, <2>10 DEF IInv
<1>2. CASE t[Owner] = b[Owner]
  <2>0. b[Owner] \in Nat /\ slot(b[Owner]) \in DqSlots
    <3>1. b[Owner] \in Nat
      BY <1>0, <1>2 DEF IInv, DqTypeOK, OwnerInv
    <3> QED BY <3>1 DEF slot, DqSlots
  <2>1. DqTypeOK' BY <1>0, <1>2, <2>0 DEF IInv, DqTypeOK
  <2>2. End' = End /\ Limit' = Limit
    BY <1>0, <1>2 DEF IInv, DqTypeOK, End, Popping, Limit
  <2>3. OwnerInv'
    BY <1>0, <1>2, <2>2 DEF IInv, DqTypeOK, OwnerInv, Popping, Pushing, Stealing
  <2>4. ThiefInv' BY <1>0, <1>2, <2>2 DEF IInv, DqTypeOK, ThiefInv
  <2>5. \A c \in DqCpus : Owned(c)' = Owned(c) BY <1>0, <1>2 DEF IInv, DqTypeOK, Owned
  <2>6. Same BY <1>2, <2>2, <2>5 DEF Same
  <2>7. QueueInv' BY <2>6, QueueKept DEF IInv
  <2> QED BY <2>1, <2>3, <2>4, <2>6, <2>7 DEF IInv
<1> QED BY <1>1, <1>2

LEMMA PopCasIInv ==
  ASSUME IInv, PopCas(Owner)
  PROVE  IInv' /\ (Same \/ Lost(Owner, End - 1))
<1> USE DequeAssumption DEF PopCas, dqGoto
<1>0. /\ dqPc[Owner] = "pop_cas" /\ End = b[Owner] + 1 /\ bottom = b[Owner]
      /\ top <= End /\ b[Owner] \in Nat /\ t[Owner] = b[Owner]
      /\ top \in Nat /\ t[Owner] <= top /\ End - top <= Size
      /\ task[Owner] = dqBuffer[slot(b[Owner])]
  BY DEF IInv, DqTypeOK, OwnerInv, End, Popping
<1>1. CASE top = t[Owner]
  <2>0. b[Owner] \in top..(End - 1) BY <1>0, <1>1
  <2>1. task[Owner] \in DqTasks BY <1>0, <2>0 DEF IInv, QueueInv, Filled
  <2>2. DqTypeOK' BY <1>0, <1>1 DEF IInv, DqTypeOK
  <2>3. End' = End /\ top' = End' BY <1>0, <1>1 DEF IInv, DqTypeOK, End, Popping
  <2>4. OwnerInv'
    BY <1>0, <1>1, <2>3 DEF IInv, DqTypeOK, OwnerInv, Popping, Pushing, Stealing
  <2>5. ThiefInv' BY <1>0, <1>1 DEF IInv, DqTypeOK, ThiefInv
  <2>6. Owned(Owner)' = Owned(Owner) \cup {dqBuffer[slot(b[Owner])]}
    BY <1>0, <1>1, <2>1 DEF IInv, DqTypeOK, Owned
  <2>7. \A d \in DqCpus \ {Owner} : Owned(d)' = Owned(d)
    BY <1>0, <1>1 DEF IInv, DqTypeOK, Owned
  <2>8. Lost(Owner, b[Owner])
    <3>1. top < End /\ b[Owner] = top /\ top' = top + 1 /\ dqBuffer' = dqBuffer BY <1>0, <1>1
    <3> QED BY <3>1, <2>3, <2>6, <2>7 DEF Lost
  <2>9. QueueInv'
    <3>1. End \in Int /\ QueueInv /\ DqTypeOK BY <1>0 DEF IInv
    <3> QED BY <3>1, <2>8, QueueShrinks
  <2>10. b[Owner] = End - 1 BY <1>0
  <2> QED BY <2>2, <2>4, <2>5, <2>8, <2>9, <2>10 DEF IInv
<1>2. CASE top # t[Owner]
  <2>1. DqTypeOK' BY <1>0, <1>2 DEF IInv, DqTypeOK
  <2>2. End' = End /\ top = End /\ Limit' = Limit
    BY <1>0, <1>2 DEF IInv, DqTypeOK, End, Popping, Limit
  <2>3. OwnerInv'
    BY <1>0, <1>2, <2>2 DEF IInv, DqTypeOK, OwnerInv, Popping, Pushing, Stealing
  <2>4. ThiefInv' BY <1>0, <1>2, <2>2 DEF IInv, DqTypeOK, ThiefInv
  <2>5. \A c \in DqCpus : Owned(c)' = Owned(c) BY <1>0, <1>2 DEF IInv, DqTypeOK, Owned
  <2>6. Same BY <1>2, <2>2, <2>5 DEF Same
  <2>7. QueueInv' BY <2>6, QueueKept DEF IInv
  <2> QED BY <2>1, <2>3, <2>4, <2>6, <2>7 DEF IInv
<1> QED BY <1>1, <1>2

LEMMA PopRestoreIInv ==
  ASSUME IInv, PopRestore(Owner)
  PROVE  IInv' /\ Same
<1> USE DequeAssumption DEF PopRestore, Return, dqGoto
<1>0. /\ dqPc[Owner] = "pop_restore" /\ End = b[Owner] + 1 /\ bottom = b[Owner]
      /\ top = End /\ b[Owner] \in Int /\ top \in Nat
  BY DEF IInv, DqTypeOK, OwnerInv, End, Popping
<1>1. DqTypeOK' BY <1>0 DEF IInv, DqTypeOK
<1>2. End' = End BY <1>0 DEF IInv, DqTypeOK, End, Popping
<1>3. OwnerInv' BY <1>0, <1>2 DEF IInv, DqTypeOK, OwnerInv, Popping, Pushing, Stealing
<1>4. Limit' = Limit BY <1>0, <1>2 DEF IInv, DqTypeOK, Limit
<1>5. ThiefInv' BY <1>4 DEF IInv, DqTypeOK, ThiefInv
<1>6. \A c \in DqCpus : Owned(c)' = Owned(c) BY <1>0 DEF IInv, DqTypeOK, Owned
<1>7. Same BY <1>2, <1>6 DEF Same
<1>8. QueueInv' BY <1>7, QueueKept DEF IInv
<1> QED BY <1>1, <1>3, <1>5, <1>7, <1>8 DEF IInv

\* A step of a thief that does not move top leaves the owner's side alone.
LEMMA ThiefAside ==
  ASSUME IInv, NEW c \in DqCpus \ {Owner}, UNCHANGED <<shared, held>>,
         dqPc[c] \notin Pushing \cup {"pop_restore"},
         dqPc'[c] \notin Pushing \cup {"pop_restore"},
         \A d \in DqCpus \ {c} : dqPc'[d] = dqPc[d] /\ t'[d] = t[d] /\ b'[d] = b[d]
                                /\ task'[d] = task[d]
  PROVE  /\ End' = End /\ Limit' = Limit
         /\ OwnerInv'
         /\ QueueInv' /\ Same
<1> USE DequeAssumption DEF shared
<1>1. /\ dqPc'[Owner] = dqPc[Owner] /\ b'[Owner] = b[Owner]
      /\ t'[Owner] = t[Owner] /\ task'[Owner] = task[Owner]
  OBVIOUS
<1>2. End' = End /\ Limit' = Limit BY <1>1 DEF End, Limit, Popping
<1>3. OwnerInv' BY <1>1, <1>2 DEF IInv, OwnerInv, Popping
<1>4. \A d \in DqCpus : Owned(d)' = Owned(d) BY DEF Owned, Pushing
<1>5. Same BY <1>2, <1>4 DEF Same
<1>6. QueueInv' BY <1>5, QueueKept DEF IInv
<1> QED BY <1>2, <1>3, <1>5, <1>6

LEMMA StealIInv ==
  ASSUME IInv, NEW c \in DqCpus \ {Owner}, Steal(c)
  PROVE  IInv' /\ Same
<1> USE DequeAssumption DEF Steal, dqGoto
<1>1. DqTypeOK' BY DEF IInv, DqTypeOK, shared
<1>2. Limit' = Limit /\ OwnerInv' /\ QueueInv' /\ Same
  BY ThiefAside DEF IInv, DqTypeOK, Pushing
<1>3. ThiefInv' BY <1>2 DEF IInv, DqTypeOK, ThiefInv, Stealing, shared
<1> QED BY <1>1, <1>2, <1>3 DEF IInv

LEMMA StealBottomIInv ==
  ASSUME IInv, NEW c \in DqCpus \ {Owner}, StealBottom(c)
  PROVE  IInv' /\ Same
<1> USE DequeAssumption DEF StealBottom, Return, dqGoto, locals
<1>1. DqTypeOK' BY DEF IInv, DqTypeOK, shared
<1>2. Limit' = Limit /\ OwnerInv' /\ QueueInv' /\ Same
  <2>1. held' = held BY DEF IInv, DqTypeOK
  <2> QED BY <2>1, ThiefAside DEF IInv, DqTypeOK, Pushing
<1>3. bottom <= Limit /\ Limit \in Int /\ bottom \in Int /\ top \in Nat
  BY DEF IInv, DqTypeOK, OwnerInv, Limit, End, Popping
<1>4. ASSUME t[c] < bottom PROVE ThiefInv'
  BY <1>2, <1>3, <1>4 DEF IInv, DqTypeOK, ThiefInv, Stealing, shared
<1>5. ASSUME t[c] >= bottom PROVE ThiefInv'
  BY <1>2, <1>3, <1>5 DEF IInv, DqTypeOK, ThiefInv, Stealing, shared
<1>6. ThiefInv'
  <2>1. t[c] \in Nat BY DEF IInv, ThiefInv, Stealing
  <2> QED BY <2>1, <1>3, <1>4, <1>5
<1> QED BY <1>1, <1>2, <1>6 DEF IInv

LEMMA StealReadIInv ==
  ASSUME IInv, NEW c \in DqCpus \ {Owner}, StealRead(c)
  PROVE  IInv' /\ Same
<1> USE DequeAssumption DEF StealRead, dqGoto
<1>0. t[c] \in Nat /\ slot(t[c]) \in DqSlots
  <2>1. t[c] \in Nat BY DEF IInv, ThiefInv, Stealing
  <2> QED BY <2>1 DEF slot, DqSlots
<1>1. DqTypeOK' BY <1>0 DEF IInv, DqTypeOK, shared
<1>2. Limit' = Limit /\ OwnerInv' /\ QueueInv' /\ Same
  BY ThiefAside DEF IInv, DqTypeOK, Pushing
<1>3. ThiefInv' BY <1>2 DEF IInv, DqTypeOK, ThiefInv, Stealing, shared
<1> QED BY <1>1, <1>2, <1>3 DEF IInv

LEMMA StealCasIInv ==
  ASSUME IInv, NEW c \in DqCpus \ {Owner}, StealCas(c)
  PROVE  IInv' /\ (Same \/ Lost(c, top))
<1> USE DequeAssumption DEF StealCas, Return, dqGoto
<1>1. CASE top # t[c]
  <2>1. DqTypeOK' BY <1>1 DEF IInv, DqTypeOK
  <2>2. Limit' = Limit /\ OwnerInv' /\ QueueInv' /\ Same
    <3>1. UNCHANGED <<shared, held>> BY <1>1 DEF IInv, DqTypeOK, shared
    <3> QED BY <1>1, <3>1, ThiefAside DEF IInv, DqTypeOK, Pushing
  <2>3. ThiefInv' BY <1>1, <2>2 DEF IInv, DqTypeOK, ThiefInv, Stealing
  <2> QED BY <2>1, <2>2, <2>3 DEF IInv
<1>2. CASE top = t[c]
  <2>0. top < Limit /\ task[c] = dqBuffer[slot(top)] /\ top \in Nat
    BY <1>2 DEF IInv, DqTypeOK, ThiefInv
  <2>1. Limit <= End /\ End \in Int /\ top \in top..(End - 1)
    BY <2>0 DEF IInv, DqTypeOK, OwnerInv, Limit, End, Popping
  <2>2. task[c] \in DqTasks BY <2>0, <2>1 DEF IInv, QueueInv, Filled
  <2>3. DqTypeOK' BY <1>2, <2>2, <2>0 DEF IInv, DqTypeOK
  <2>4. End' = End /\ Limit' = Limit BY <1>2 DEF IInv, DqTypeOK, End, Limit, Popping
  <2>5. OwnerInv'
    BY <1>2, <2>0, <2>1, <2>4
    DEF IInv, DqTypeOK, OwnerInv, Popping, Pushing, Stealing, Limit
  <2>6. ThiefInv' BY <1>2, <2>0, <2>4 DEF IInv, DqTypeOK, ThiefInv, Stealing
  <2>7. Owned(c)' = Owned(c) \cup {dqBuffer[slot(top)]}
    BY <1>2, <2>0, <2>2, SMTT(30) DEF IInv, DqTypeOK, Owned
  <2>8. \A d \in DqCpus \ {c} : Owned(d)' = Owned(d)
    BY <1>2 DEF IInv, DqTypeOK, Owned
  <2>9. Lost(c, top) BY <1>2, <2>0, <2>1, <2>4, <2>7, <2>8 DEF Lost
  <2>10. QueueInv'
    <3>1. QueueInv /\ DqTypeOK BY <1>2 DEF IInv
    <3> QED BY <3>1, <2>1, <2>9, QueueShrinks
  <2> QED BY <2>3, <2>5, <2>6, <2>9, <2>10 DEF IInv
<1> QED BY <1>1, <1>2

LEMMA RequeueIInv ==
  ASSUME IInv, NEW c \in DqCpus, c # Owner, Requeue(c, Owner)
  PROVE  IInv'
<1> USE DequeAssumption DEF shared, locals
<1>0. PICK x \in held[c] :
        /\ held' = [e \in DqCpus |-> IF e = Owner THEN held[Owner] \cup {x}
                                                ELSE held[e] \ {x}]
        /\ UNCHANGED <<shared, dqPc, locals>>
  BY Zenon DEF Requeue
<1>1. x \in DqTasks /\ x \in Owned(c) BY DEF IInv, DqTypeOK, Owned
<1>2. DqTypeOK' BY <1>0, <1>1 DEF IInv, DqTypeOK
<1>3. End' = End /\ Limit' = Limit BY <1>0 DEF End, Limit, Popping
<1>4. x \notin Owned(Owner) BY <1>1 DEF IInv, QueueInv, OneOwner
<1>5. OwnerInv'
  BY <1>0, <1>3, <1>4, <1>2
  DEF IInv, DqTypeOK, OwnerInv, Popping, Pushing, Stealing, Owned
<1>6. ThiefInv' BY <1>0, <1>3, Zenon DEF IInv, ThiefInv
<1>7. Owned(Owner)' = Owned(Owner) \cup {x} BY <1>0 DEF IInv, DqTypeOK, Owned
<1>8. \A d \in DqCpus \ {Owner} : Owned(d)' = Owned(d) \ {x}
  BY <1>0 DEF IInv, DqTypeOK, Owned, ThiefInv, Stealing
<1>9. QueueInv'
  <2> USE DEF IInv, QueueInv
  <2>1. Filled' <=> \A i \in top'..(End' - 1) : dqBuffer'[slot(i)] \in DqTasks BY DEF Filled
  <2>2. Filled' BY <1>0, <1>3, <2>1 DEF Filled
  <2>3. \A d, e \in DqCpus : d # e => Owned(d)' \cap Owned(e)' = {}
    BY <1>7, <1>8 DEF OneOwner
  <2>4. \A d \in DqCpus : \A i \in top'..(End' - 1) : dqBuffer'[slot(i)] \notin Owned(d)'
    BY <1>0, <1>1, <1>3, <1>7, <1>8 DEF OneOwner
  <2>5. \A i, j \in top'..(End' - 1) : i # j => dqBuffer'[slot(i)] # dqBuffer'[slot(j)]
    BY <1>0, <1>3 DEF OneOwner
  <2>6. OneOwner' BY <2>3, <2>4, <2>5 DEF OneOwner
  <2>7. NoTaskLost' <=>
          \A y \in DqTasks :
            \/ \E d \in DqCpus : y \in Owned(d)'
            \/ \E i \in top'..(End' - 1) : dqBuffer'[slot(i)] = y
    BY DEF NoTaskLost
  <2>8. NoTaskLost' BY <1>0, <1>3, <1>7, <1>8, <2>7 DEF NoTaskLost
  <2> QED BY <2>2, <2>6, <2>8
<1> QED BY <1>2, <1>5, <1>6, <1>9 DEF IInv

-----------------------------------------------------------------------------
(* The theorems *)

LEMMA NextIInv ==
  ASSUME Pushers = {Owner}
  PROVE  IInv /\ [DqNext]_dqVars => IInv'
<1> SUFFICES ASSUME IInv, [DqNext]_dqVars PROVE IInv' OBVIOUS
<1>1. CASE \E c \in Pushers : PushStep(c)
  BY <1>1, PushIInv, PushTopIInv, PushStoreIInv, PushPublishIInv DEF PushStep
<1>2. CASE PopStep(Owner)
  BY <1>2, PopIInv, PopStoreIInv, PopTopIInv, PopReadIInv, PopCasIInv, PopRestoreIInv
  DEF PopStep
<1>3. CASE \E c \in DqCpus \ {Owner} : StealStep(c)
  BY <1>3, StealIInv, StealBottomIInv, StealReadIInv, StealCasIInv DEF StealStep
<1>4. CASE \E c \in DqCpus, d \in Pushers : c # d /\ Requeue(c, d)
  BY <1>4, RequeueIInv
<1>5. CASE UNCHANGED dqVars
  <2>1. /\ UNCHANGED <<top, bottom, dqBuffer, dqPc, t, b, task, held>>
    BY <1>5 DEF dqVars, shared, locals
  <2>2. End' = End /\ Limit' = Limit BY <2>1 DEF End, Limit, Popping
  <2>3. DqTypeOK' BY <2>1 DEF IInv, DqTypeOK
  <2>4. OwnerInv' BY <2>1, <2>2, SMTT(30) DEF IInv, OwnerInv, Popping
  <2>5. ThiefInv' BY <2>1, <2>2 DEF IInv, ThiefInv
  <2>6. \A c \in DqCpus : Owned(c)' = Owned(c) BY <2>1 DEF Owned
  <2>7. Same BY <2>1, <2>2, <2>6 DEF Same
  <2>8. QueueInv' BY <2>7, QueueKept DEF IInv
  <2> QED BY <2>3, <2>4, <2>5, <2>8 DEF IInv
<1> QED BY <1>1, <1>2, <1>3, <1>4, <1>5 DEF DqNext

LEMMA IInvariant == ASSUME Pushers = {Owner} PROVE DqSpec => []IInv
<1>1. DqInit => IInv BY InitIInv
<1>2. IInv /\ [DqNext]_dqVars => IInv' BY NextIInv
<1> QED BY <1>1, <1>2, PTL DEF DqSpec

\* Used by a single producer, no call of the deque returns a null pointer and
\* every variable keeps its type (push, pop, steal).
THEOREM TypeCorrect == ASSUME Pushers = {Owner} PROVE DqSpec => []DqTypeOK
<1>1. DqSpec => []IInv BY IInvariant
<1>2. IInv => DqTypeOK BY DEF IInv
<1> QED BY <1>1, <1>2, PTL

\* Used by a single producer, a task never has two owners: pop and steal never
\* both return it, and neither returns it while it is still queued.
THEOREM OneOwnerHolds == ASSUME Pushers = {Owner} PROVE DqSpec => []OneOwner
<1>1. DqSpec => []IInv BY IInvariant
<1>2. IInv => OneOwner BY DEF IInv, QueueInv
<1> QED BY <1>1, <1>2, PTL

\* Used by a single producer, no task is lost: push never overwrites a queued
\* task and no failed compare-exchange drops one.
THEOREM NoTaskLostHolds == ASSUME Pushers = {Owner} PROVE DqSpec => []NoTaskLost
<1>1. DqSpec => []IInv BY IInvariant
<1>2. IInv => NoTaskLost BY DEF IInv, QueueInv
<1> QED BY <1>1, <1>2, PTL

-----------------------------------------------------------------------------
(* Refinement *)

\* The tasks at indices lo..hi-1 of a dqBuffer.
Window(buf, lo, hi) == [i \in 1..(hi - lo) |-> buf[slot(lo + i - 1)]]

LEMMA WindowSeq ==
  ASSUME NEW buf, NEW lo \in Nat, NEW hi \in Int, lo <= hi,
         \A i \in lo..(hi - 1) : buf[slot(i)] \in DqTasks
  PROVE  Window(buf, lo, hi) \in Seq(DqTasks) /\ Len(Window(buf, lo, hi)) = hi - lo
<1>1. hi - lo \in Nat OBVIOUS
<1>2. \A i \in 1..(hi - lo) : lo + i - 1 \in lo..(hi - 1) OBVIOUS
<1>3. \A i \in 1..(hi - lo) : buf[slot(lo + i - 1)] \in DqTasks BY <1>2
<1> QED BY <1>1, <1>3 DEF Window

LEMMA WindowAppend ==
  ASSUME NEW buf, NEW lo \in Nat, NEW hi \in Int, lo <= hi,
         \A i \in lo..hi : buf[slot(i)] \in DqTasks
  PROVE  Window(buf, lo, hi + 1) = Append(Window(buf, lo, hi), buf[slot(hi)])
<1> DEFINE w == Window(buf, lo, hi)
           v == Window(buf, lo, hi + 1)
<1>1. w \in Seq(DqTasks) /\ Len(w) = hi - lo BY WindowSeq
<1>2. v \in Seq(DqTasks) /\ Len(v) = (hi + 1) - lo BY WindowSeq
<1>3. \A i \in 1..(hi - lo) : v[i] = w[i] BY DEF Window
<1>4. v[(hi - lo) + 1] = buf[slot(hi)]
  <2>1. (hi - lo) + 1 \in 1..((hi + 1) - lo) /\ lo + ((hi - lo) + 1) - 1 = hi OBVIOUS
  <2> QED BY <2>1 DEF Window
<1>5. buf[slot(hi)] \in DqTasks OBVIOUS
<1> HIDE DEF w, v
<1>6. v = Append(w, buf[slot(hi)]) BY <1>1, <1>2, <1>3, <1>4, <1>5
<1> QED BY <1>6 DEF w, v

LEMMA WindowFront ==
  ASSUME NEW buf, NEW lo \in Nat, NEW hi \in Int, lo < hi,
         \A i \in lo..(hi - 1) : buf[slot(i)] \in DqTasks
  PROVE  LET w == Window(buf, lo, hi) IN
         /\ w # <<>>
         /\ w[Len(w)] = buf[slot(hi - 1)] /\ Head(w) = buf[slot(lo)]
         /\ Window(buf, lo, hi - 1) = SubSeq(w, 1, Len(w) - 1)
         /\ Window(buf, lo + 1, hi) = Tail(w)
<1> DEFINE w == Window(buf, lo, hi)
           f == Window(buf, lo, hi - 1)
           r == Window(buf, lo + 1, hi)
<1>1. w \in Seq(DqTasks) /\ Len(w) = hi - lo BY WindowSeq
<1>2. f \in Seq(DqTasks) /\ Len(f) = (hi - 1) - lo
  <2>1. hi - 1 \in Int /\ lo <= hi - 1 OBVIOUS
  <2>2. \A i \in lo..((hi - 1) - 1) : buf[slot(i)] \in DqTasks OBVIOUS
  <2> QED BY <2>1, <2>2, WindowSeq
<1>3. r \in Seq(DqTasks) /\ Len(r) = hi - (lo + 1)
  <2>1. lo + 1 \in Nat /\ lo + 1 <= hi OBVIOUS
  <2>2. \A i \in (lo + 1)..(hi - 1) : buf[slot(i)] \in DqTasks OBVIOUS
  <2> QED BY <2>1, <2>2, WindowSeq, Zenon
<1>4. w[hi - lo] = buf[slot(hi - 1)] /\ w[1] = buf[slot(lo)]
  <2>1. /\ hi - lo \in 1..(hi - lo) /\ lo + (hi - lo) - 1 = hi - 1
        /\ 1 \in 1..(hi - lo) /\ lo + 1 - 1 = lo
    OBVIOUS
  <2> QED BY <2>1 DEF Window
<1>5. \A i \in 1..((hi - 1) - lo) : f[i] = w[i] BY DEF Window
<1>6. \A i \in 1..(hi - (lo + 1)) : r[i] = w[i + 1]
  <2> TAKE i \in 1..(hi - (lo + 1))
  <2>1. i + 1 \in 1..(hi - lo) /\ (lo + 1) + i - 1 = lo + (i + 1) - 1 OBVIOUS
  <2> QED BY <2>1 DEF Window
<1> HIDE DEF w, f, r
<1>7. f = SubSeq(w, 1, Len(w) - 1) BY <1>1, <1>2, <1>5
<1>8. r = Tail(w) BY <1>1, <1>3, <1>6
<1>9. w # <<>> /\ w[Len(w)] = buf[slot(hi - 1)] /\ Head(w) = buf[slot(lo)]
  BY <1>1, <1>4
<1> QED BY <1>7, <1>8, <1>9 DEF w, f, r

LEMMA SameStutters ==
  ASSUME IInv, Same
  PROVE  UNCHANGED Abstract!vars
<1>1. top \in Nat /\ End \in Int BY DequeAssumption DEF IInv, DqTypeOK, End
<1>2. \A i \in 1..(End - top) : top + i - 1 \in top..(End - 1) BY <1>1
<1>3. DqQueued' = DqQueued BY <1>1, <1>2 DEF DqQueued, Same
<1>4. [c \in DqCpus |-> Owned(c)]' = [c \in DqCpus |-> Owned(c)] BY DEF Same
<1> QED BY <1>3, <1>4 DEF Abstract!vars

LEMMA GrewSimulates ==
  ASSUME IInv, Grew
  PROVE  Abstract!PushBack(Owner)
<1> USE DequeAssumption
<1> DEFINE own == [c \in DqCpus |-> Owned(c)]
           x == dqBuffer[slot(End)]
<1>1. top \in Nat /\ End \in Int /\ top <= End BY DEF IInv, DqTypeOK, OwnerInv, End
<1>2. \A i \in top..(End - 1) : dqBuffer[slot(i)] \in DqTasks BY DEF IInv, QueueInv, Filled
<1>3. \A i \in top..End : dqBuffer[slot(i)] \in DqTasks BY <1>1, <1>2 DEF Grew
<1>4. DqQueued = Window(dqBuffer, top, End) /\ Len(DqQueued) = End - top
  BY <1>1, <1>2, WindowSeq DEF DqQueued, Window
<1>5. DqQueued' = Window(dqBuffer, top, End + 1) BY DEF DqQueued, Window, Grew
<1>6. DqQueued' = Append(DqQueued, x) BY <1>1, <1>3, <1>4, <1>5, WindowAppend
<1>7. x \in own[Owner] /\ own' = [own EXCEPT ![Owner] = @ \ {x}] BY Zenon DEF Grew
<1>8. Len(DqQueued) < Size BY <1>4 DEF Grew
<1> HIDE DEF own, x
<1> QED BY <1>6, <1>7, <1>8, Zenon DEF Abstract!PushBack, own

LEMMA LostLastSimulates ==
  ASSUME IInv, Lost(Owner, End - 1)
  PROVE  Abstract!PopBack
<1> USE DequeAssumption
<1> DEFINE own == [c \in DqCpus |-> Owned(c)]
           x == dqBuffer[slot(End - 1)]
<1>1. top \in Nat /\ End \in Int /\ top < End BY DEF IInv, DqTypeOK, End, Lost
<1>2. \A i \in top..(End - 1) : dqBuffer[slot(i)] \in DqTasks BY DEF IInv, QueueInv, Filled
<1>3. DqQueued = Window(dqBuffer, top, End) BY DEF DqQueued, Window
<1>4. /\ DqQueued # <<>> /\ DqQueued[Len(DqQueued)] = x
      /\ Window(dqBuffer, top, End - 1) = SubSeq(DqQueued, 1, Len(DqQueued) - 1)
  BY <1>1, <1>2, <1>3, WindowFront
<1>5. DqQueued' = Window(dqBuffer, top, End - 1)
  <2>1. DqQueued' = Window(dqBuffer, top', End') BY DEF DqQueued, Window, Lost
  <2>2. CASE End' = End - 1 /\ top' = top BY <2>1, <2>2
  <2>3. CASE End - 1 = top /\ End' = End /\ top' = top + 1
    <3>1. End' - top' = 0 /\ (End - 1) - top = 0 BY <1>1, <2>3
    <3> QED BY <2>1, <3>1 DEF Window
  <2> QED BY <2>2, <2>3 DEF Lost
<1>6. own' = [own EXCEPT ![Owner] = @ \cup {x}] BY Zenon DEF Lost
<1> HIDE DEF own, x
<1>7. own' = [own EXCEPT ![Owner] = @ \cup {DqQueued[Len(DqQueued)]}] BY <1>4, <1>6
<1> QED BY <1>4, <1>5, <1>7 DEF Abstract!PopBack, Abstract!Give, own

LEMMA LostFirstSimulates ==
  ASSUME IInv, NEW c \in DqCpus, Lost(c, top)
  PROVE  Abstract!TakeFront(c)
<1> USE DequeAssumption
<1> DEFINE own == [d \in DqCpus |-> Owned(d)]
           x == dqBuffer[slot(top)]
<1>1. top \in Nat /\ End \in Int /\ top < End BY DEF IInv, DqTypeOK, End, Lost
<1>2. \A i \in top..(End - 1) : dqBuffer[slot(i)] \in DqTasks BY DEF IInv, QueueInv, Filled
<1>3. DqQueued = Window(dqBuffer, top, End) BY DEF DqQueued, Window
<1>4. /\ DqQueued # <<>> /\ Head(DqQueued) = x
      /\ Window(dqBuffer, top + 1, End) = Tail(DqQueued)
  BY <1>1, <1>2, <1>3, WindowFront
<1>5. DqQueued' = Window(dqBuffer, top + 1, End)
  <2>1. DqQueued' = Window(dqBuffer, top', End') BY DEF DqQueued, Window, Lost
  <2>2. CASE End' = End /\ top' = top + 1 BY <2>1, <2>2
  <2>3. CASE top = End - 1 /\ End' = End - 1 /\ top' = top
    <3>1. End' - top' = 0 /\ End - (top + 1) = 0 BY <1>1, <2>3
    <3> QED BY <2>1, <3>1 DEF Window
  <2> QED BY <2>2, <2>3 DEF Lost
<1>6. own' = [own EXCEPT ![c] = @ \cup {x}] BY Zenon DEF Lost
<1> HIDE DEF own, x
<1>7. own' = [own EXCEPT ![c] = @ \cup {Head(DqQueued)}] BY <1>4, <1>6, Zenon
<1> QED BY <1>4, <1>5, <1>7 DEF Abstract!TakeFront, Abstract!Give, own

LEMMA RequeueSimulates ==
  ASSUME IInv, NEW c \in DqCpus, c # Owner, Requeue(c, Owner)
  PROVE  Abstract!Requeue(c, Owner)
<1> USE DequeAssumption DEF shared, locals
<1> DEFINE own == [d \in DqCpus |-> Owned(d)]
<1>0. PICK x \in held[c] :
        /\ held' = [e \in DqCpus |-> IF e = Owner THEN held[Owner] \cup {x}
                                                ELSE held[e] \ {x}]
        /\ UNCHANGED <<shared, dqPc, locals>>
  BY Zenon DEF Requeue
<1>1. DqQueued' = DqQueued BY <1>0 DEF DqQueued, End, Popping
<1>2. Owned(Owner)' = Owned(Owner) \cup {x} BY <1>0 DEF IInv, DqTypeOK, Owned
<1>3. \A d \in DqCpus \ {Owner} : Owned(d)' = Owned(d) \ {x}
  BY <1>0 DEF IInv, DqTypeOK, Owned, ThiefInv, Stealing
<1>4. x \in own[c] BY DEF Owned
<1>5. own' = [e \in DqCpus |-> IF e = Owner THEN own[Owner] \cup {x} ELSE own[e] \ {x}]
  BY <1>2, <1>3
<1> HIDE DEF own
<1> QED BY <1>1, <1>4, <1>5 DEF Abstract!Requeue, own

\* Every step of the deque is one of the atomic queue's, or leaves it alone.
LEMMA StepSimulation ==
  ASSUME Pushers = {Owner}, IInv, [DqNext]_dqVars
  PROVE  [Abstract!Next]_(Abstract!vars)
<1> USE DequeAssumption
<1>s. Same => UNCHANGED Abstract!vars BY SameStutters
<1>1. CASE \E c \in Pushers : PushStep(c)
  <2>1. ASSUME NEW x \in DqTasks, PushTask(Owner, x) PROVE Same BY <2>1, PushIInv
  <2>2. ASSUME PushPublish(Owner) PROVE Abstract!PushBack(Owner)
    BY <2>2, PushPublishIInv, GrewSimulates
  <2>3. ASSUME PushTop(Owner) \/ PushStore(Owner) PROVE Same
    BY <2>3, PushTopIInv, PushStoreIInv
  <2> QED BY <1>1, <1>s, <2>1, <2>2, <2>3 DEF PushStep, Abstract!Next
<1>2. CASE PopStep(Owner)
  <2>1. ASSUME PopTask(Owner) \/ PopStore(Owner) \/ PopTop(Owner) \/ PopRestore(Owner)
        PROVE  Same
    BY <2>1, PopIInv, PopStoreIInv, PopTopIInv, PopRestoreIInv
  <2>2. ASSUME PopRead(Owner) \/ PopCas(Owner) PROVE Same \/ Abstract!PopBack
    BY <2>2, PopReadIInv, PopCasIInv, LostLastSimulates
  <2> QED BY <1>2, <1>s, <2>1, <2>2 DEF PopStep, Abstract!Next
<1>3. CASE \E c \in DqCpus \ {Owner} : StealStep(c)
  <2> PICK c \in DqCpus \ {Owner} : StealStep(c) BY <1>3
  <2>1. ASSUME Steal(c) \/ StealBottom(c) \/ StealRead(c) PROVE Same
    BY <2>1, StealIInv, StealBottomIInv, StealReadIInv
  <2>2. ASSUME StealCas(c) PROVE Same \/ Abstract!TakeFront(c)
    BY <2>2, StealCasIInv, LostFirstSimulates
  <2> QED BY <1>s, <2>1, <2>2 DEF StealStep, Abstract!Next
<1>4. CASE \E c \in DqCpus, d \in Pushers : c # d /\ Requeue(c, d)
  BY <1>4, RequeueSimulates DEF Abstract!Next
<1>5. CASE UNCHANGED dqVars
  <2>1. UNCHANGED <<top, bottom, dqBuffer, dqPc, t, b, task, held>>
    BY <1>5 DEF dqVars, shared, locals
  <2>2. Same BY <2>1 DEF Same, End, Popping, Owned
  <2> QED BY <1>s, <2>2
<1> QED BY <1>1, <1>2, <1>3, <1>4, <1>5 DEF DqNext

\* Used by a single producer, the lock-free deque of task/deque.rs is an atomic
\* double-ended queue: LIFO for its owner, FIFO for thieves, at most Size tasks.
THEOREM DequeIsAtomic == ASSUME Pushers = {Owner} PROVE DqSpec => ImplementsDeque
<1>1. DqInit => Abstract!Init
  <2> SUFFICES ASSUME DqInit PROVE Abstract!Init OBVIOUS
  <2>1. IInv BY InitIInv
  <2>2. End = 0 /\ top = 0 BY DequeAssumption DEF DqInit, End, Popping
  <2>3. DqQueued = <<>> BY <2>2 DEF DqQueued
  <2>4. \A c \in DqCpus : Owned(c) \in SUBSET DqTasks BY <2>1, Zenon DEF IInv, DqTypeOK, Owned, DqInit
  <2> QED BY <2>3, <2>4 DEF Abstract!Init
<1>2. IInv /\ [DqNext]_dqVars => [Abstract!Next]_(Abstract!vars) BY StepSimulation
<1>3. DqSpec => []IInv BY IInvariant
<1> QED BY <1>1, <1>2, <1>3, PTL DEF DqSpec, ImplementsDeque, Abstract!Spec
=============================================================================
