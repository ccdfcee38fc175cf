-------------------------- MODULE Scheduler_proofs --------------------------
(***************************************************************************)
(* Proofs about the scheduler, for any number of CPUs and tasks and every  *)
(* capacity of a deque.  A task's Box is in one place at a time: IInv      *)
(* names that place by two functions, kind (which list) and cpu (whose),   *)
(* and every action moves at most one task from one place to another.  The *)
(* first part says what the operations on the queues add and remove, the   *)
(* second has one lemma per action, the third reads the properties off.    *)
(***************************************************************************)
EXTENDS Scheduler, TLAPS

-----------------------------------------------------------------------------
(* What the operations on a queue of tasks add and remove. *)

\* No task is twice in the queue.
Distinct(q) == \A i, j \in 1..Len(q) : q[i] = q[j] => i = j

\* The queue r is q with t in addition.
Added(r, q, t) ==
    /\ r \in Seq(Tasks) /\ Len(r) = Len(q) + 1
    /\ \A x \in Tasks : Contains(r, x) <=> Contains(q, x) \/ x = t
    /\ Distinct(r)

\* The queue r is q without t.
Removed(r, q, t) ==
    /\ r \in Seq(Tasks) /\ Len(r) + 1 = Len(q)
    /\ \A x \in Tasks : Contains(r, x) <=> Contains(q, x) /\ x # t
    /\ Distinct(r)

LEMMA QueueDomain ==
    ASSUME NEW q \in Seq(Tasks)
    PROVE  DOMAIN q = 1..Len(q) /\ \A i \in DOMAIN q : q[i] \in Tasks
OBVIOUS

LEMMA AppendAdds ==
    ASSUME NEW q \in Seq(Tasks), NEW t \in Tasks, Distinct(q), ~ Contains(q, t)
    PROVE  Added(Append(q, t), q, t)
<1> DEFINE r == Append(q, t)
<1>1. /\ r \in Seq(Tasks) /\ Len(r) = Len(q) + 1 /\ Len(q) \in Nat
      /\ \A i \in 1..Len(q) : r[i] = q[i]
      /\ r[Len(q) + 1] = t
  OBVIOUS
<1> HIDE DEF r
<1>2. Distinct(r) BY <1>1 DEF Distinct, Contains
<1>3. ASSUME NEW x \in Tasks PROVE Contains(r, x) <=> Contains(q, x) \/ x = t
  BY <1>1 DEF Contains
<1> QED BY <1>1, <1>2, <1>3 DEF Added, r

\* The part of a queue from place m up to place k.
LEMMA PartOf ==
    ASSUME NEW q \in Seq(Tasks), NEW m \in Nat \ {0}, NEW k \in Nat, k <= Len(q), m <= k + 1
    PROVE  /\ SubSeq(q, m, k) \in Seq(Tasks)
           /\ Len(SubSeq(q, m, k)) = (k + 1) - m
           /\ \A j \in 1..((k + 1) - m) : SubSeq(q, m, k)[j] = q[(m - 1) + j]
OBVIOUS

LEMMA FrontRemoves ==
    ASSUME NEW q \in Seq(Tasks), q # <<>>, Distinct(q)
    PROVE  /\ Last(q) \in Tasks /\ Contains(q, Last(q))
           /\ Removed(Front(q), q, Last(q))
<1> DEFINE n == Len(q)
           r == SubSeq(q, 1, n - 1)
<1>1. n \in Nat \ {0} OBVIOUS
<1>2. \A i \in 1..n : q[i] \in Tasks OBVIOUS
<1>3. n - 1 \in Nat /\ n - 1 <= Len(q) /\ 1 <= (n - 1) + 1 BY <1>1
<1> HIDE DEF n
<1>4. /\ r \in Seq(Tasks) /\ Len(r) = ((n - 1) + 1) - 1
      /\ \A i \in 1..(((n - 1) + 1) - 1) : r[i] = q[(1 - 1) + i]
  BY <1>3, PartOf
<1>5. Last(q) = q[n] /\ Front(q) = r BY DEF Last, Front, n
<1> HIDE DEF r
<1>6. Len(r) = n - 1 /\ \A i \in 1..(n - 1) : r[i] = q[i] BY <1>1, <1>4
<1>7. Distinct(r) BY <1>1, <1>6 DEF Distinct, n
<1>8. ASSUME NEW x \in Tasks PROVE Contains(r, x) <=> Contains(q, x) /\ x # q[n]
  BY <1>1, <1>6 DEF Contains, Distinct, n
<1>9. Contains(q, q[n]) /\ q[n] \in Tasks BY <1>1, <1>2 DEF Contains, n
<1>10. Len(r) + 1 = Len(q) BY <1>1, <1>6 DEF n
<1> QED BY <1>4, <1>5, <1>7, <1>8, <1>9, <1>10 DEF Removed

LEMMA TailRemoves ==
    ASSUME NEW q \in Seq(Tasks), q # <<>>, Distinct(q)
    PROVE  /\ Head(q) \in Tasks /\ Contains(q, Head(q))
           /\ Removed(Tail(q), q, Head(q))
<1> DEFINE r == Tail(q)
           n == Len(q)
<1>1. /\ r \in Seq(Tasks) /\ Len(r) = n - 1 /\ n \in Nat \ {0}
      /\ \A i \in 1..(n - 1) : r[i] = q[i + 1]
      /\ \A i \in 1..n : q[i] \in Tasks
  OBVIOUS
<1>2. Head(q) = q[1] OBVIOUS
<1> HIDE DEF r, n
<1>3. Distinct(r) BY <1>1 DEF Distinct, n
<1>4. ASSUME NEW x \in Tasks PROVE Contains(r, x) <=> Contains(q, x) /\ x # q[1]
  <2>1. Contains(r, x) => Contains(q, x) /\ x # q[1]
    BY <1>1 DEF Contains, Distinct, n
  <2>2. ASSUME Contains(q, x), x # q[1] PROVE Contains(r, x)
    <3>1. PICK i \in 1..n : q[i] = x BY <2>2 DEF Contains, n
    <3>2. i - 1 \in 1..(n - 1) /\ r[i - 1] = x BY <1>1, <2>2, <3>1
    <3> QED BY <1>1, <3>2 DEF Contains
  <2> QED BY <2>1, <2>2
<1>5. Contains(q, q[1]) BY <1>1 DEF Contains, n
<1> QED BY <1>1, <1>2, <1>3, <1>4, <1>5 DEF Removed, r, n

\* What is left when the place i of a queue is emptied, in any order.
LEMMA PickedFrom ==
    ASSUME NEW q \in Seq(Tasks), Distinct(q), NEW i \in 1..Len(q),
           NEW r \in Seq(Tasks), Len(r) + 1 = Len(q),
           NEW p \in [1..Len(r) -> 1..Len(q)],
           \A j \in 1..Len(r) : r[j] = q[p[j]] /\ p[j] # i,
           \A j, k \in 1..Len(r) : p[j] = p[k] => j = k,
           \A k \in 1..Len(q) : k # i => \E j \in 1..Len(r) : p[j] = k
    PROVE  Removed(r, q, q[i])
<1>1. ASSUME NEW j \in 1..Len(r), NEW k \in 1..Len(r), r[j] = r[k] PROVE j = k
  <2>1. q[p[j]] = q[p[k]] /\ p[j] \in 1..Len(q) /\ p[k] \in 1..Len(q) BY <1>1
  <2>2. p[j] = p[k] BY <2>1 DEF Distinct
  <2> QED BY <2>2
<1>2. ASSUME NEW x \in Tasks PROVE Contains(r, x) <=> Contains(q, x) /\ x # q[i]
  <2>1. Contains(r, x) => Contains(q, x) /\ x # q[i] BY DEF Contains, Distinct
  <2>2. ASSUME Contains(q, x), x # q[i] PROVE Contains(r, x)
    <3>1. PICK k \in 1..Len(q) : q[k] = x BY <2>2 DEF Contains
    <3>2. PICK j \in 1..Len(r) : p[j] = k BY <2>2, <3>1
    <3> QED BY <3>1, <3>2, Zenon DEF Contains
  <2> QED BY <2>1, <2>2
<1> QED BY <1>1, <1>2 DEF Removed, Distinct

LEMMA ReverseKeeps ==
    ASSUME NEW q \in Seq(Tasks), Distinct(q)
    PROVE  /\ Reverse(q) \in Seq(Tasks) /\ Len(Reverse(q)) = Len(q)
           /\ \A x \in Tasks : Contains(Reverse(q), x) <=> Contains(q, x)
           /\ Distinct(Reverse(q))
<1> DEFINE r == Reverse(q)
           n == Len(q)
<1>1. n \in Nat /\ \A i \in 1..n : q[i] \in Tasks OBVIOUS
<1>2. r = [i \in 1..n |-> q[(n - i) + 1]] BY DEF Reverse
<1> HIDE DEF r, n
<1>3. \A i \in 1..n : (n - i) + 1 \in 1..n BY <1>1
<1>4. r \in [1..n -> Tasks] BY <1>1, <1>2, <1>3
<1>5. r \in Seq(Tasks) /\ Len(r) = n BY <1>1, <1>4
<1>6. \A i \in 1..n : r[i] = q[(n - i) + 1] BY <1>2
<1>7. ASSUME NEW x \in Tasks PROVE Contains(r, x) <=> Contains(q, x)
  <2>1. ASSUME NEW i \in 1..n, q[i] = x PROVE \E j \in 1..n : r[j] = x
    <3>1. (n - i) + 1 \in 1..n /\ (n - ((n - i) + 1)) + 1 = i BY <1>1
    <3> QED BY <1>6, <2>1, <3>1
  <2> QED BY <1>3, <1>5, <1>6, <2>1, Zenon DEF Contains, n
<1>8. Distinct(r) BY <1>1, <1>3, <1>5, <1>6 DEF Distinct, n
<1> QED BY <1>5, <1>7, <1>8 DEF r, n

\* The two parts of a queue below and above place i.
LEMMA PartsAround ==
    ASSUME NEW q \in Seq(Tasks), NEW i \in 1..Len(q)
    PROVE  /\ SubSeq(q, 1, i - 1) \in Seq(Tasks) /\ Len(SubSeq(q, 1, i - 1)) = i - 1
           /\ \A k \in 1..(i - 1) : SubSeq(q, 1, i - 1)[k] = q[k]
           /\ SubSeq(q, i + 1, Len(q)) \in Seq(Tasks)
           /\ Len(SubSeq(q, i + 1, Len(q))) = Len(q) - i
           /\ \A k \in 1..(Len(q) - i) : SubSeq(q, i + 1, Len(q))[k] = q[i + k]
<1> DEFINE n == Len(q)
           a == SubSeq(q, 1, i - 1)
           b == SubSeq(q, i + 1, Len(q))
<1>1. n \in Nat /\ i \in 1..n OBVIOUS
<1>2. i - 1 \in Nat /\ i - 1 <= n /\ 1 <= (i - 1) + 1 /\ i + 1 \in Nat \ {0} /\ i + 1 <= n + 1
  BY <1>1
<1>3. /\ a \in Seq(Tasks) /\ Len(a) = ((i - 1) + 1) - 1
      /\ \A k \in 1..(((i - 1) + 1) - 1) : a[k] = q[(1 - 1) + k]
  BY <1>1, <1>2, PartOf
<1>4. /\ b \in Seq(Tasks) /\ Len(b) = (n + 1) - (i + 1)
      /\ \A k \in 1..((n + 1) - (i + 1)) : b[k] = q[((i + 1) - 1) + k]
  BY <1>1, <1>2, PartOf
<1> HIDE DEF a, b
<1>5. Len(a) = i - 1 /\ \A k \in 1..(i - 1) : a[k] = q[k] BY <1>1, <1>3
<1>6. Len(b) = n - i /\ \A k \in 1..(n - i) : b[k] = q[i + k]
  <2> HIDE DEF n
  <2>1. (n + 1) - (i + 1) = n - i BY <1>1
  <2>2. ASSUME NEW k \in 1..(n - i) PROVE b[k] = q[i + k]
    <3>1. ((i + 1) - 1) + k = i + k BY <1>1
    <3> QED BY <2>1, <3>1, <1>4
  <2> QED BY <2>1, <2>2, <1>4
<1> QED BY <1>3, <1>4, <1>5, <1>6 DEF a, b, n

\* Two queues behind one another.
LEMMA Behind ==
    ASSUME NEW a \in Seq(Tasks), NEW b \in Seq(Tasks)
    PROVE  /\ a \o b \in Seq(Tasks) /\ Len(a \o b) = Len(a) + Len(b)
           /\ \A k \in 1..Len(a) : (a \o b)[k] = a[k]
           /\ \A k \in 1..Len(b) : (a \o b)[Len(a) + k] = b[k]
<1> DEFINE r == a \o b
<1>1. Len(a) \in Nat /\ Len(b) \in Nat OBVIOUS
<1>2. /\ r \in Seq(Tasks) /\ Len(r) = Len(a) + Len(b)
      /\ \A k \in 1..(Len(a) + Len(b)) : r[k] = IF k <= Len(a) THEN a[k] ELSE b[k - Len(a)]
  OBVIOUS
<1> HIDE DEF r
<1>3. \A k \in 1..Len(a) : r[k] = a[k] BY <1>1, <1>2
<1>4. ASSUME NEW k \in 1..Len(b) PROVE r[Len(a) + k] = b[k]
  <2>1. /\ Len(a) + k \in 1..(Len(a) + Len(b)) /\ ~(Len(a) + k <= Len(a))
        /\ (Len(a) + k) - Len(a) = k
    BY <1>1
  <2> QED BY <1>2, <2>1
<1> QED BY <1>2, <1>3, <1>4 DEF r

\* take_task_from_worker_by_id on the local deque.
LEMMA RemoveAtRemoves ==
    ASSUME NEW q \in Seq(Tasks), Distinct(q), NEW i \in 1..Len(q)
    PROVE  Removed(RemoveAt(q, i), q, q[i])
<1> DEFINE n == Len(q)
           a == SubSeq(q, 1, i - 1)
           b == SubSeq(q, i + 1, n)
           r == a \o b
           P(j) == IF j < i THEN j ELSE j + 1
           p == [j \in 1..(n - 1) |-> P(j)]
<1>1. n \in Nat /\ i \in 1..n OBVIOUS
<1>2. /\ a \in Seq(Tasks) /\ Len(a) = i - 1 /\ (\A k \in 1..(i - 1) : a[k] = q[k])
      /\ b \in Seq(Tasks) /\ Len(b) = n - i /\ (\A k \in 1..(n - i) : b[k] = q[i + k])
  BY PartsAround
<1> HIDE DEF n, a, b
<1>3. /\ r \in Seq(Tasks) /\ Len(r) = Len(a) + Len(b)
      /\ \A k \in 1..Len(a) : r[k] = a[k]
      /\ \A k \in 1..Len(b) : r[Len(a) + k] = b[k]
  BY <1>2, Behind, Zenon
<1>4. RemoveAt(q, i) = r BY DEF RemoveAt, a, b, n
<1> HIDE DEF r
<1>5. Len(r) = n - 1 BY <1>1, <1>2, <1>3
<1>6. \A j \in 1..(n - 1) : P(j) \in 1..n /\ P(j) # i BY <1>1
<1>7. ASSUME NEW j \in 1..(n - 1) PROVE r[j] = q[P(j)]
  <2>1. CASE j < i BY <2>1, <1>1, <1>2, <1>3
  <2>2. CASE ~(j < i)
    <3> DEFINE k == j - (i - 1)
    <3>1. k \in 1..(n - i) /\ (i - 1) + k = j /\ i + k = j + 1 BY <2>2, <1>1
    <3> HIDE DEF k
    <3>2. r[(i - 1) + k] = q[i + k] BY <3>1, <1>2, <1>3
    <3> QED BY <2>2, <3>1, <3>2
  <2> QED BY <2>1, <2>2
<1>8. \A j, k \in 1..(n - 1) : P(j) = P(k) => j = k BY <1>1
<1>9. ASSUME NEW k \in 1..n, k # i PROVE \E j \in 1..(n - 1) : P(j) = k
  <2>1. CASE k < i
    <3>1. k \in 1..(n - 1) /\ P(k) = k BY <2>1, <1>1
    <3> QED BY <3>1
  <2>2. CASE k > i
    <3>1. k - 1 \in 1..(n - 1) /\ P(k - 1) = k BY <2>2, <1>1
    <3> QED BY <3>1
  <2> QED BY <2>1, <2>2, <1>1, <1>9
<1>10. p \in [1..(n - 1) -> 1..n] /\ \A j \in 1..(n - 1) : p[j] = P(j) BY <1>6
<1> HIDE DEF P, p
<1>11. Len(r) + 1 = n BY <1>1, <1>5
<1>12. r \in Seq(Tasks) BY <1>3
<1>13. \A k \in 1..n : k # i => \E j \in 1..(n - 1) : p[j] = k BY <1>9, <1>10
<1>14. \A j \in 1..(n - 1) : r[j] = q[p[j]] /\ p[j] # i BY <1>6, <1>7, <1>10
<1>15. \A j, k \in 1..(n - 1) : p[j] = p[k] => j = k BY <1>8, <1>10
<1>16. /\ p \in [1..Len(r) -> 1..Len(q)] /\ Len(r) + 1 = Len(q)
       /\ \A j \in 1..Len(r) : r[j] = q[p[j]] /\ p[j] # i
       /\ \A j, k \in 1..Len(r) : p[j] = p[k] => j = k
       /\ \A k \in 1..Len(q) : k # i => \E j \in 1..Len(r) : p[j] = k
  BY <1>5, <1>10, <1>11, <1>13, <1>14, <1>15 DEF n
<1>17. Removed(r, q, q[i]) BY <1>3, <1>16, PickedFrom, ZenonT(30)
<1> QED BY <1>4, <1>17

\* take_task_from_worker_by_id on another CPU's deque: what was taken off above the task
\* that was looked for is below the rest afterwards, in reverse.
LEMMA ScanRemoves ==
    ASSUME NEW q \in Seq(Tasks), Distinct(q), NEW i \in 1..Len(q)
    PROVE  Removed(SubSeq(q, i + 1, Len(q)) \o Reverse(SubSeq(q, 1, i - 1)), q, q[i])
<1> DEFINE n == Len(q)
           a == SubSeq(q, 1, i - 1)
           b == SubSeq(q, i + 1, n)
           c == Reverse(a)
           r == b \o c
           P(j) == IF j <= n - i THEN i + j ELSE n - j
           p == [j \in 1..(n - 1) |-> P(j)]
<1>1. n \in Nat /\ i \in 1..n OBVIOUS
<1>2. /\ a \in Seq(Tasks) /\ Len(a) = i - 1 /\ (\A k \in 1..(i - 1) : a[k] = q[k])
      /\ b \in Seq(Tasks) /\ Len(b) = n - i /\ (\A k \in 1..(n - i) : b[k] = q[i + k])
  BY PartsAround
<1> HIDE DEF n, a, b
<1>3. Distinct(a)
  <2>1. ASSUME NEW j \in 1..(i - 1), NEW k \in 1..(i - 1), a[j] = a[k] PROVE j = k
    <3>1. q[j] = q[k] /\ j \in 1..n /\ k \in 1..n BY <1>1, <1>2, <2>1
    <3> QED BY <3>1 DEF Distinct, n
  <2> QED BY <1>2, <2>1 DEF Distinct
<1>4. c \in Seq(Tasks) /\ Len(c) = i - 1 BY <1>2, <1>3, ReverseKeeps
<1>5. \A k \in 1..(i - 1) : c[k] = a[((i - 1) - k) + 1] BY <1>2 DEF Reverse
<1> HIDE DEF c
<1>6. /\ r \in Seq(Tasks) /\ Len(r) = Len(b) + Len(c)
      /\ \A k \in 1..Len(b) : r[k] = b[k]
      /\ \A k \in 1..Len(c) : r[Len(b) + k] = c[k]
  BY <1>2, <1>4, Behind, Zenon
<1> HIDE DEF r
<1>7. Len(r) = n - 1 BY <1>1, <1>2, <1>4, <1>6
<1>8. \A j \in 1..(n - 1) : P(j) \in 1..n /\ P(j) # i BY <1>1
<1>9. ASSUME NEW j \in 1..(n - 1) PROVE r[j] = q[P(j)]
  <2>1. CASE j <= n - i BY <2>1, <1>1, <1>2, <1>6
  <2>2. CASE ~(j <= n - i)
    <3> DEFINE k == j - (n - i)
    <3>1. /\ k \in 1..(i - 1) /\ (n - i) + k = j /\ ((i - 1) - k) + 1 = n - j
          /\ n - j \in 1..(i - 1)
      BY <2>2, <1>1
    <3> HIDE DEF k
    <3>2. r[(n - i) + k] = c[k] BY <3>1, <1>2, <1>4, <1>6
    <3>3. c[k] = a[n - j] BY <3>1, <1>5
    <3>4. a[n - j] = q[n - j] BY <3>1, <1>2
    <3> QED BY <2>2, <3>1, <3>2, <3>3, <3>4
  <2> QED BY <2>1, <2>2
<1>10. \A j, k \in 1..(n - 1) : P(j) = P(k) => j = k BY <1>1
<1>11. ASSUME NEW k \in 1..n, k # i PROVE \E j \in 1..(n - 1) : P(j) = k
  <2>1. CASE k < i
    <3>1. n - k \in 1..(n - 1) /\ P(n - k) = k BY <2>1, <1>1
    <3> QED BY <3>1
  <2>2. CASE k > i
    <3>1. k - i \in 1..(n - 1) /\ P(k - i) = k BY <2>2, <1>1
    <3> QED BY <3>1
  <2> QED BY <2>1, <2>2, <1>1, <1>11
<1>12. p \in [1..(n - 1) -> 1..n] /\ \A j \in 1..(n - 1) : p[j] = P(j) BY <1>8
<1> HIDE DEF P, p
<1>13. Len(r) + 1 = n BY <1>1, <1>7
<1>14. \A k \in 1..n : k # i => \E j \in 1..(n - 1) : p[j] = k BY <1>11, <1>12
<1>15. \A j \in 1..(n - 1) : r[j] = q[p[j]] /\ p[j] # i BY <1>8, <1>9, <1>12
<1>16. \A j, k \in 1..(n - 1) : p[j] = p[k] => j = k BY <1>10, <1>12
<1>17. /\ p \in [1..Len(r) -> 1..Len(q)] /\ Len(r) + 1 = Len(q)
       /\ \A j \in 1..Len(r) : r[j] = q[p[j]] /\ p[j] # i
       /\ \A j, k \in 1..Len(r) : p[j] = p[k] => j = k
       /\ \A k \in 1..Len(q) : k # i => \E j \in 1..Len(r) : p[j] = k
  BY <1>7, <1>12, <1>13, <1>14, <1>15, <1>16 DEF n
<1>18. Removed(r, q, q[i]) BY <1>6, <1>17, PickedFrom, ZenonT(30)
<1> QED BY <1>18 DEF r, b, c, a, n
-----------------------------------------------------------------------------
(* The inductive invariant.  kind names the place of each task, cpu the CPU it is a *)
(* place of.                                                                        *)

\* The places the Box of a task can be in.
Kinds == {"nowhere", "current", "worker", "overflow", "waiters", "sleeping", "zombies", "dropped"}

\* The types of the deques and of OVERFLOW_TASKS.
QueueType(w, o) ==
    /\ w \in [Cpus -> Seq(Tasks)] /\ \A c \in Cpus : Len(w[c]) <= Cap
    /\ o \in Seq(Tasks)

\* The run queues hold the tasks whose kind says so, each at one place.
QueuePart(w, o, kind, cpu) ==
    /\ \A c \in Cpus : Distinct(w[c])
    /\ Distinct(o)
    /\ \A t \in Tasks, c \in Cpus : Contains(w[c], t) <=> kind[t] = "worker" /\ cpu[t] = c
    /\ \A t \in Tasks : Contains(o, t) <=> kind[t] = "overflow"

\* PER_CPU_CURRENT_TASK holds the tasks that run, on the CPU that runs them.
CurrentPart(cur, kind, cpu) ==
    \A t \in Tasks, c \in Cpus : cur[c] = t <=> kind[t] = "current" /\ cpu[t] = c

\* The WaitQueue, SLEEPING_TASKS, ZOMBIE_TASKS and what the vfork parents left.
RestPart(wq, sl, zo, dr, kind) ==
    /\ Distinct(wq)
    /\ \A t \in Tasks :
         /\ Contains(wq, t) <=> kind[t] = "waiters"
         /\ t \in sl <=> kind[t] = "sleeping"
         /\ t \in zo <=> kind[t] = "zombies"
         /\ t \in dr <=> kind[t] = "dropped"

\* No task writes the state of another one that is queued.
Calm == Signals = {} \/ \A c, d \in Cpus : c = d

\* Task::state and the place of the task. With Calm, the state a list calls for.
StatePart(st, kind) ==
    \A t \in Tasks :
        /\ st[t] = "New" <=> kind[t] = "nowhere"
        /\ Calm =>
             /\ kind[t] \in {"worker", "overflow"} => st[t] = "Ready"
             /\ kind[t] = "waiters" => st[t] = "Blocked"
             /\ kind[t] = "sleeping" => st[t] = "Sleeping"
             /\ kind[t] = "zombies" => st[t] = "Terminated"

KindType(kind, cpu) == kind \in [Tasks -> Kinds] /\ cpu \in [Tasks -> Cpus]

\* Every task has one place.
Placed ==
    \E kind \in [Tasks -> Kinds], cpu \in [Tasks -> Cpus] :
        /\ QueuePart(worker, overflow, kind, cpu)
        /\ CurrentPart(current, kind, cpu)
        /\ RestPart(waiters, sleeping, zombies, dropped, kind)
        /\ StatePart(state, kind)

\* What a CPU that is in the middle of something relies on.
Busy ==
    \A c \in Cpus :
        /\ pc[c] \in {"pick", "local"} => current[c] = NoTask
        /\ pc[c] = "vfork" => current[c] \in Tasks
        /\ pc[c] \in {"kill", "stop", "cont"} =>
             /\ old[c] \in Tasks /\ state[old[c]] # "New" /\ Signals # {}
             /\ (\A d, e \in Cpus : d = e) => current[c] = old[c]

\* The inductive invariant.
IInv == TypeOK /\ Placed /\ Busy
-----------------------------------------------------------------------------
(* How a task moves from one place to another. *)

\* Worker::push with its fallback: the task is in one of the two queues afterwards.
LEMMA PushAdds ==
    ASSUME NEW kind, NEW cpu, KindType(kind, cpu),
           QueueType(worker, overflow), QueuePart(worker, overflow, kind, cpu),
           NEW t \in Tasks, NEW c \in Cpus, kind[t] \notin {"worker", "overflow"},
           queues(push(<<worker, overflow>>, t, c))
    PROVE  /\ QueueType(worker', overflow')
           /\ \E k \in {"worker", "overflow"} :
                QueuePart(worker', overflow', [kind EXCEPT ![t] = k], [cpu EXCEPT ![t] = c])
<1>1. ~ Contains(worker[c], t) /\ ~ Contains(overflow, t) BY DEF QueuePart
<1>2. worker[c] \in Seq(Tasks) /\ overflow \in Seq(Tasks) /\ Distinct(worker[c]) /\ Distinct(overflow)
  BY DEF QueueType, QueuePart
<1>3. CASE Len(worker[c]) < Cap
  <2> DEFINE q == Append(worker[c], t)
             k2 == [kind EXCEPT ![t] = "worker"]
             c2 == [cpu EXCEPT ![t] = c]
  <2>1. worker' = [worker EXCEPT ![c] = q] /\ overflow' = overflow BY <1>3 DEF queues, push
  <2>2. Added(q, worker[c], t) BY <1>1, <1>2, AppendAdds
  <2>3. Len(worker[c]) \in Nat BY <1>2
  <2> HIDE DEF q
  <2>4. QueueType(worker', overflow')
    BY <1>3, <2>1, <2>2, <2>3, SchedulerAssumption DEF QueueType, Added
  <2>5. QueuePart(worker', overflow', k2, c2)
    BY <2>1, <2>2 DEF QueuePart, Added, QueueType, KindType
  <2> QED BY <2>4, <2>5
<1>4. CASE ~(Len(worker[c]) < Cap)
  <2> DEFINE q == Append(overflow, t)
             k2 == [kind EXCEPT ![t] = "overflow"]
             c2 == [cpu EXCEPT ![t] = c]
  <2>1. worker' = worker /\ overflow' = q BY <1>4 DEF queues, push
  <2>2. Added(q, overflow, t) BY <1>1, <1>2, AppendAdds
  <2> HIDE DEF q
  <2>3. QueueType(worker', overflow') BY <2>1, <2>2 DEF QueueType, Added
  <2>4. QueuePart(worker', overflow', k2, c2)
    BY <2>1, <2>2 DEF QueuePart, Added, QueueType, KindType
  <2> QED BY <2>3, <2>4
<1> QED BY <1>3, <1>4

\* A task taken out of a deque is in no queue.
LEMMA PopWorker ==
    ASSUME NEW kind, NEW cpu, KindType(kind, cpu),
           QueueType(worker, overflow), QueuePart(worker, overflow, kind, cpu),
           NEW t \in Tasks, NEW v \in Cpus, NEW c, NEW q,
           Contains(worker[v], t), Removed(q, worker[v], t),
           worker' = [worker EXCEPT ![v] = q], overflow' = overflow
    PROVE  /\ QueueType(worker', overflow')
           /\ QueuePart(worker', overflow', [kind EXCEPT ![t] = "current"], [cpu EXCEPT ![t] = c])
           /\ kind[t] = "worker"
<1>1. kind[t] = "worker" /\ cpu[t] = v BY DEF QueuePart
<1>2. Len(worker[v]) \in Nat /\ Len(q) \in Nat BY DEF QueueType, Removed
<1>3. Len(worker[v]) <= Cap /\ Cap \in Nat BY SchedulerAssumption DEF QueueType
<1>4. Len(q) <= Cap BY <1>2, <1>3 DEF Removed
<1>5. QueueType(worker', overflow') BY <1>4 DEF QueueType, Removed
<1>6. QueuePart(worker', overflow', [kind EXCEPT ![t] = "current"], [cpu EXCEPT ![t] = c])
  BY <1>1 DEF QueuePart, Removed, QueueType, KindType
<1> QED BY <1>1, <1>5, <1>6

\* A task taken out of OVERFLOW_TASKS is in no queue.
LEMMA PopShared ==
    ASSUME NEW kind, NEW cpu, KindType(kind, cpu),
           QueueType(worker, overflow), QueuePart(worker, overflow, kind, cpu),
           NEW t \in Tasks, NEW c,
           Contains(overflow, t), Removed(overflow', overflow, t), worker' = worker
    PROVE  /\ QueueType(worker', overflow')
           /\ QueuePart(worker', overflow', [kind EXCEPT ![t] = "current"], [cpu EXCEPT ![t] = c])
           /\ kind[t] = "overflow"
<1>1. kind[t] = "overflow" BY DEF QueuePart
<1>2. QueueType(worker', overflow') BY DEF QueueType, Removed
<1>3. QueuePart(worker', overflow', [kind EXCEPT ![t] = "current"], [cpu EXCEPT ![t] = c])
  BY <1>1 DEF QueuePart, Removed, QueueType, KindType
<1> QED BY <1>1, <1>2, <1>3

\* A task that moves between other places leaves the queues as they are.
LEMMA QueueFrame ==
    ASSUME NEW kind, NEW cpu, KindType(kind, cpu), NEW w, NEW o, QueuePart(w, o, kind, cpu),
           NEW t \in Tasks, NEW k, NEW c, kind[t] \notin {"worker", "overflow"},
           k \notin {"worker", "overflow"}
    PROVE  QueuePart(w, o, [kind EXCEPT ![t] = k], [cpu EXCEPT ![t] = c])
BY DEF QueuePart, KindType

LEMMA CurrentFrame ==
    ASSUME NEW kind, NEW cpu, KindType(kind, cpu), NEW cur, CurrentPart(cur, kind, cpu),
           NEW t \in Tasks, NEW k, NEW c, kind[t] # "current", k # "current"
    PROVE  CurrentPart(cur, [kind EXCEPT ![t] = k], [cpu EXCEPT ![t] = c])
BY DEF CurrentPart, KindType

LEMMA RestFrame ==
    ASSUME NEW kind, NEW cpu, KindType(kind, cpu), NEW wq, NEW sl, NEW zo, NEW dr,
           RestPart(wq, sl, zo, dr, kind), NEW t \in Tasks, NEW k,
           kind[t] \notin {"waiters", "sleeping", "zombies", "dropped"},
           k \notin {"waiters", "sleeping", "zombies", "dropped"}
    PROVE  RestPart(wq, sl, zo, dr, [kind EXCEPT ![t] = k])
BY DEF RestPart, KindType

\* The box leaves PER_CPU_CURRENT_TASK of CPU c ...
LEMMA CurrentLeaves ==
    ASSUME NEW kind, NEW cpu, KindType(kind, cpu), NEW cur \in [Cpus -> Tasks \cup {NoTask}],
           CurrentPart(cur, kind, cpu), NEW c \in Cpus, NEW t \in Tasks, cur[c] = t,
           NEW k, NEW d, k # "current"
    PROVE  /\ CurrentPart([cur EXCEPT ![c] = NoTask], [kind EXCEPT ![t] = k], [cpu EXCEPT ![t] = d])
           /\ kind[t] = "current" /\ cpu[t] = c
BY SchedulerAssumption DEF CurrentPart, KindType

\* ... and enters it.
LEMMA CurrentEnters ==
    ASSUME NEW kind, NEW cpu, KindType(kind, cpu), NEW cur \in [Cpus -> Tasks \cup {NoTask}],
           CurrentPart(cur, kind, cpu), NEW c \in Cpus, NEW t \in Tasks, cur[c] = NoTask,
           kind[t] # "current"
    PROVE  CurrentPart([cur EXCEPT ![c] = t], [kind EXCEPT ![t] = "current"], [cpu EXCEPT ![t] = c])
BY SchedulerAssumption DEF CurrentPart, KindType

\* The new kinds are kinds.
LEMMA MoveType ==
    ASSUME NEW kind, NEW cpu, KindType(kind, cpu), NEW t \in Tasks, NEW k \in Kinds, NEW c \in Cpus
    PROVE  /\ [kind EXCEPT ![t] = k] \in [Tasks -> Kinds]
           /\ [cpu EXCEPT ![t] = c] \in [Tasks -> Cpus]
BY DEF KindType

\* A task gets the state that its new place calls for.
LEMMA StateMoves ==
    ASSUME NEW kind, NEW cpu, KindType(kind, cpu), state \in [Tasks -> TaskState],
           StatePart(state, kind), NEW t \in Tasks, NEW s, NEW k, s # "New", k # "nowhere",
           set_state(t, s),
           k \in {"worker", "overflow"} => s = "Ready",
           k = "waiters" => s = "Blocked",
           k = "sleeping" => s = "Sleeping",
           k = "zombies" => s = "Terminated"
    PROVE  StatePart(state', [kind EXCEPT ![t] = k])
BY DEF StatePart, KindType, set_state

\* A task that stays where it is gets another state.
LEMMA StateWritten ==
    ASSUME NEW kind, NEW cpu, KindType(kind, cpu), state \in [Tasks -> TaskState],
           StatePart(state, kind), NEW t \in Tasks, NEW s, s # "New",
           set_state(t, s), kind[t] # "nowhere", Calm => kind[t] = "current"
    PROVE  StatePart(state', kind)
BY DEF StatePart, KindType, set_state

-----------------------------------------------------------------------------
(* The parts of the invariant an action leaves alone. *)

RestType ==
    /\ state \in [Tasks -> TaskState]
    /\ current \in [Cpus -> Tasks \cup {NoTask}]
    /\ waiters \in Seq(Tasks) /\ draining \in BOOLEAN
    /\ sleeping \subseteq Tasks /\ zombies \subseteq Tasks /\ dropped \subseteq Tasks
    /\ gate \subseteq Tasks /\ pending \subseteq Tasks
    /\ resched \in [Cpus -> BOOLEAN]
    /\ stealable \subseteq Cpus

PcType ==
    /\ pc \in [Cpus -> {"run", "vfork", "sched", "pick", "local", "switch", "unmark",
                        "kill", "stop", "cont"}]
    /\ old \in [Cpus -> Threads]

ContextType ==
    /\ flow \in [Cpus -> Threads]
    /\ saved \in [Threads -> Threads]
    /\ fresh \subseteq Threads

LEMMA TypeParts ==
    /\ TypeOK <=> QueueType(worker, overflow) /\ RestType /\ PcType /\ ContextType
    /\ TypeOK' <=> QueueType(worker', overflow') /\ RestType' /\ PcType' /\ ContextType'
<1>1. TypeOK <=> QueueType(worker, overflow) /\ RestType /\ PcType /\ ContextType
  BY Zenon DEF TypeOK, QueueType, RestType, PcType, ContextType
<1>2. TypeOK' <=> QueueType(worker', overflow') /\ RestType' /\ PcType' /\ ContextType'
  BY Zenon DEF TypeOK, QueueType, RestType, PcType, ContextType
<1> QED BY <1>1, <1>2

\* The witnesses of Placed.
LEMMA PlacedBy ==
    ASSUME NEW kind \in [Tasks -> Kinds], NEW cpu \in [Tasks -> Cpus],
           QueuePart(worker', overflow', kind, cpu), CurrentPart(current', kind, cpu),
           RestPart(waiters', sleeping', zombies', dropped', kind), StatePart(state', kind)
    PROVE  Placed'
BY Zenon DEF Placed

\* A task that is written by no one but the CPU it runs on.
LEMMA PlacedWritten ==
    ASSUME IInv, NEW t \in Tasks, NEW s \in TaskState \ {"New"}, set_state(t, s),
           state[t] # "New", Calm => \E c \in Cpus : current[c] = t,
           UNCHANGED <<current, worker, overflow, waiters, sleeping, zombies, dropped>>
    PROVE  Placed'
<1>1. PICK kind \in [Tasks -> Kinds], cpu \in [Tasks -> Cpus] :
        /\ QueuePart(worker, overflow, kind, cpu)
        /\ CurrentPart(current, kind, cpu)
        /\ RestPart(waiters, sleeping, zombies, dropped, kind)
        /\ StatePart(state, kind)
  BY Zenon DEF IInv, Placed
<1>2. KindType(kind, cpu) BY DEF KindType
<1>3. kind[t] # "nowhere" BY <1>1 DEF StatePart
<1>4. Calm => kind[t] = "current" BY <1>1 DEF CurrentPart
<1>5. state \in [Tasks -> TaskState] BY DEF IInv, TypeOK
<1>6. StatePart(state', kind) BY <1>1, <1>2, <1>3, <1>4, <1>5, StateWritten
<1>7. /\ QueuePart(worker', overflow', kind, cpu)
      /\ CurrentPart(current', kind, cpu)
      /\ RestPart(waiters', sleeping', zombies', dropped', kind)
  BY <1>1, Zenon
<1> QED BY <1>6, <1>7, PlacedBy

LEMMA PlacedSame ==
    ASSUME Placed, UNCHANGED <<state, current, worker, overflow, waiters, sleeping, zombies, dropped>>
    PROVE  Placed'
BY Zenon DEF Placed

\* What a step of CPU c has to see to.
LEMMA BusyStep ==
    ASSUME Busy, NEW c \in Cpus,
           \A d \in Cpus \ {c} : pc'[d] = pc[d] /\ current'[d] = current[d] /\ old'[d] = old[d],
           \A t \in Tasks : state'[t] = "New" => state[t] = "New",
           pc'[c] \in {"pick", "local"} => current'[c] = NoTask,
           pc'[c] = "vfork" => current'[c] \in Tasks,
           pc'[c] \in {"kill", "stop", "cont"} =>
             /\ old'[c] \in Tasks /\ state'[old'[c]] # "New" /\ Signals # {}
             /\ (\A d, e \in Cpus : d = e) => current'[c] = old'[c]
    PROVE  Busy'
<1> SUFFICES ASSUME NEW d \in Cpus
             PROVE  /\ pc'[d] \in {"pick", "local"} => current'[d] = NoTask
                    /\ pc'[d] = "vfork" => current'[d] \in Tasks
                    /\ pc'[d] \in {"kill", "stop", "cont"} =>
                         /\ old'[d] \in Tasks /\ state'[old'[d]] # "New" /\ Signals # {}
                         /\ (\A a, e \in Cpus : a = e) => current'[d] = old'[d]
  BY DEF Busy
<1>1. CASE d = c BY <1>1
<1>2. CASE d # c
  <2>1. pc'[d] = pc[d] /\ current'[d] = current[d] /\ old'[d] = old[d] BY <1>2
  <2> QED BY <2>1 DEF Busy
<1> QED BY <1>1, <1>2

LEMMA BusySame ==
    ASSUME Busy, UNCHANGED <<pc, current, old>>,
           \A t \in Tasks : state'[t] = "New" => state[t] = "New"
    PROVE  Busy'
BY DEF Busy

-----------------------------------------------------------------------------
(* Tasks that enter the run queues. *)

\* spawn_boxed of a task that is nowhere, asleep or taken out of a WaitQueue.
LEMMA Enqueues ==
    ASSUME IInv, NEW t \in Tasks, NEW d \in Cpus, set_state(t, "Ready"), enqueue_boxed_task(t, d),
           UNCHANGED <<current, zombies, dropped>>,
           NEW kind \in [Tasks -> Kinds], NEW cpu \in [Tasks -> Cpus],
           QueuePart(worker, overflow, kind, cpu), CurrentPart(current, kind, cpu),
           StatePart(state, kind), kind[t] \in {"nowhere", "sleeping", "waiters"},
           \A k \in {"worker", "overflow"} :
               RestPart(waiters', sleeping', zombies', dropped', [kind EXCEPT ![t] = k])
    PROVE  Placed' /\ QueueType(worker', overflow')
<1>1. KindType(kind, cpu) BY DEF KindType
<1>2. QueueType(worker, overflow) /\ state \in [Tasks -> TaskState] BY TypeParts DEF IInv, RestType
<1>3. kind[t] \notin {"worker", "overflow"} /\ kind[t] # "current" OBVIOUS
<1>4. queues(push(<<worker, overflow>>, t, d)) BY DEF enqueue_boxed_task
<1>5. /\ QueueType(worker', overflow')
      /\ \E k \in {"worker", "overflow"} :
           QueuePart(worker', overflow', [kind EXCEPT ![t] = k], [cpu EXCEPT ![t] = d])
  BY <1>1, <1>2, <1>3, <1>4, PushAdds, Zenon
<1>6. PICK k \in {"worker", "overflow"} :
        QueuePart(worker', overflow', [kind EXCEPT ![t] = k], [cpu EXCEPT ![t] = d])
  BY <1>5, Zenon
<1> DEFINE k2 == [kind EXCEPT ![t] = k]
           c2 == [cpu EXCEPT ![t] = d]
<1>7. CurrentPart(current', k2, c2)
  <2>1. k # "current" OBVIOUS
  <2>2. CurrentPart(current, k2, c2) BY <1>1, <1>3, <2>1, CurrentFrame, Zenon
  <2> QED BY <2>2
<1>8. StatePart(state', k2) BY <1>1, <1>2, StateMoves, Zenon
<1>9. k2 \in [Tasks -> Kinds] /\ c2 \in [Tasks -> Cpus] BY <1>1, MoveType DEF Kinds
<1>10. RestPart(waiters', sleeping', zombies', dropped', k2) BY Zenon
<1> HIDE DEF k2, c2
<1>11. QueuePart(worker', overflow', k2, c2) BY <1>6 DEF k2, c2
<1> QED BY <1>5, <1>7, <1>8, <1>9, <1>10, <1>11, PlacedBy

LEMMA SpawnPlaces ==
    ASSUME IInv, NEW t \in Tasks, NEW d \in Cpus, state[t] = "New", set_state(t, "Ready"),
           enqueue_boxed_task(t, d),
           UNCHANGED <<current, sleeping, waiters, zombies, dropped>>
    PROVE  Placed' /\ QueueType(worker', overflow')
<1>1. PICK kind \in [Tasks -> Kinds], cpu \in [Tasks -> Cpus] :
        /\ QueuePart(worker, overflow, kind, cpu)
        /\ CurrentPart(current, kind, cpu)
        /\ RestPart(waiters, sleeping, zombies, dropped, kind)
        /\ StatePart(state, kind)
  BY Zenon DEF IInv, Placed
<1>2. KindType(kind, cpu) BY DEF KindType
<1>3. kind[t] = "nowhere" BY <1>1 DEF StatePart
<1>4. ASSUME NEW k \in {"worker", "overflow"}
      PROVE  RestPart(waiters', sleeping', zombies', dropped', [kind EXCEPT ![t] = k])
  <2>1. RestPart(waiters, sleeping, zombies, dropped, [kind EXCEPT ![t] = k])
    BY <1>1, <1>2, <1>3, RestFrame, Zenon
  <2> QED BY <2>1
<1> QED BY <1>1, <1>3, <1>4, Enqueues, Zenon

LEMMA SpawnStep ==
    ASSUME IInv, NEW t \in Tasks, NEW d \in Cpus, Spawn(t, d)
    PROVE  IInv'
<1> USE DEF Spawn
<1>1. UNCHANGED <<current, sleeping, waiters, draining, zombies, dropped, gate, pending, resched,
                  pc, old, flow, saved, fresh>>
  BY DEF waitQueue, contexts
<1>2. Placed' /\ QueueType(worker', overflow') BY <1>1, SpawnPlaces
<1>3. RestType' BY <1>1, TypeParts DEF IInv, RestType, set_state, enqueue_boxed_task,
                   publish_worker_load, TaskState
<1>4. PcType' /\ ContextType' BY <1>1, TypeParts, Zenon DEF IInv, PcType, ContextType
<1>5. Busy'
  <2>1. \A x \in Tasks : state'[x] = "New" => state[x] = "New"
    BY TypeParts DEF IInv, RestType, set_state
  <2> QED BY <1>1, <2>1, BusySame DEF IInv
<1> QED BY <1>2, <1>3, <1>4, <1>5, TypeParts DEF IInv

LEMMA WakeSleepingStep ==
    ASSUME IInv, NEW t \in Tasks, NEW d \in Cpus, WakeSleeping(t, d)
    PROVE  IInv'
<1> USE DEF WakeSleeping
<1>1. UNCHANGED <<current, waiters, draining, zombies, dropped, gate, pending, resched,
                  pc, old, flow, saved, fresh>>
  BY DEF waitQueue, contexts
<1>2. PICK kind \in [Tasks -> Kinds], cpu \in [Tasks -> Cpus] :
        /\ QueuePart(worker, overflow, kind, cpu)
        /\ CurrentPart(current, kind, cpu)
        /\ RestPart(waiters, sleeping, zombies, dropped, kind)
        /\ StatePart(state, kind)
  BY Zenon DEF IInv, Placed
<1>3. kind[t] = "sleeping" BY <1>2 DEF RestPart
<1>4. ASSUME NEW k \in {"worker", "overflow"}
      PROVE  RestPart(waiters', sleeping', zombies', dropped', [kind EXCEPT ![t] = k])
  BY <1>1, <1>2, <1>3 DEF RestPart
<1>5. Placed' /\ QueueType(worker', overflow') BY <1>1, <1>2, <1>3, <1>4, Enqueues, Zenon
<1>6. RestType' BY <1>1, TypeParts DEF IInv, RestType, set_state, enqueue_boxed_task,
                   publish_worker_load, TaskState
<1>7. PcType' /\ ContextType' BY <1>1, TypeParts DEF IInv, PcType, ContextType
<1>8. Busy'
  <2>1. \A x \in Tasks : state'[x] = "New" => state[x] = "New"
    BY TypeParts DEF IInv, RestType, set_state
  <2> QED BY <1>1, <2>1, BusySame, Zenon DEF IInv
<1> QED BY <1>5, <1>6, <1>7, <1>8, TypeParts DEF IInv

\* A task taken out of the WaitQueue, at whichever end.
LEMMA WakeWaiter ==
    ASSUME IInv, NEW t \in Tasks, NEW d \in Cpus, Contains(waiters, t), Removed(waiters', waiters, t),
           set_state(t, "Ready"), enqueue_boxed_task(t, d), draining' \in BOOLEAN,
           UNCHANGED <<current, sleeping, zombies, dropped, gate, pending, resched, pc, old, contexts>>
    PROVE  IInv'
<1>1. UNCHANGED <<current, sleeping, zombies, dropped, gate, pending, resched,
                  pc, old, flow, saved, fresh>>
  BY DEF contexts
<1>2. PICK kind \in [Tasks -> Kinds], cpu \in [Tasks -> Cpus] :
        /\ QueuePart(worker, overflow, kind, cpu)
        /\ CurrentPart(current, kind, cpu)
        /\ RestPart(waiters, sleeping, zombies, dropped, kind)
        /\ StatePart(state, kind)
  BY Zenon DEF IInv, Placed
<1>3. kind[t] = "waiters" BY <1>2 DEF RestPart
<1>4. ASSUME NEW k \in {"worker", "overflow"}
      PROVE  RestPart(waiters', sleeping', zombies', dropped', [kind EXCEPT ![t] = k])
  BY <1>1, <1>2, <1>3 DEF RestPart, Removed
<1>5. Placed' /\ QueueType(worker', overflow') BY <1>1, <1>2, <1>3, <1>4, Enqueues, Zenon
<1>6. waiters' \in Seq(Tasks) BY Zenon DEF Removed
<1>7. RestType' BY <1>1, <1>6, TypeParts DEF IInv, RestType, set_state, enqueue_boxed_task,
                   publish_worker_load, TaskState
<1>8. PcType' /\ ContextType' BY <1>1, TypeParts DEF IInv, PcType, ContextType
<1>9. Busy'
  <2>1. \A x \in Tasks : state'[x] = "New" => state[x] = "New"
    BY TypeParts DEF IInv, RestType, set_state
  <2> QED BY <1>1, <2>1, BusySame DEF IInv
<1> QED BY <1>5, <1>7, <1>8, <1>9, TypeParts DEF IInv

LEMMA WaitersDistinct ==
    ASSUME IInv
    PROVE  waiters \in Seq(Tasks) /\ Distinct(waiters)
BY DEF IInv, TypeOK, Placed, RestPart

LEMMA WakeOneStep ==
    ASSUME IInv, NEW d \in Cpus, WakeOne(d)
    PROVE  IInv'
<1>1. /\ Last(waiters) \in Tasks /\ Contains(waiters, Last(waiters))
      /\ Removed(waiters', waiters, Last(waiters))
  BY WaitersDistinct, FrontRemoves DEF WakeOne
<1>2. draining' \in BOOLEAN BY DEF WakeOne, IInv, TypeOK
<1> QED BY <1>1, <1>2, WakeWaiter DEF WakeOne

LEMMA WakeAllStep ==
    ASSUME IInv, NEW d \in Cpus, WakeAll(d)
    PROVE  IInv'
<1>1. /\ Head(waiters) \in Tasks /\ Contains(waiters, Head(waiters))
      /\ Removed(waiters', waiters, Head(waiters))
  BY WaitersDistinct, TailRemoves DEF WakeAll
<1>2. draining' \in BOOLEAN BY DEF WakeAll
<1> QED BY <1>1, <1>2, WakeWaiter DEF WakeAll

-----------------------------------------------------------------------------
(* The calls of the running thread. *)

\* A step that moves no task and writes no state.
LEMMA StaysPut ==
    ASSUME IInv, UNCHANGED <<state, current, worker, overflow, waiters, sleeping, zombies, dropped>>
    PROVE  Placed' /\ QueueType(worker', overflow')
<1>1. Placed' BY PlacedSame DEF IInv
<1>2. QueueType(worker', overflow') BY TypeParts DEF IInv, QueueType
<1> QED BY <1>1, <1>2

\* The current task of c writes its own state and goes on at l.
LEMMA LeaveStep ==
    ASSUME IInv, NEW c \in Cpus, NEW s \in TaskState \ {"New"}, current[c] \in Tasks,
           set_state(current[c], s), goto(c, "sched"), gate' \subseteq gate,
           UNCHANGED <<current, places, pending, resched, old, contexts>>
    PROVE  IInv'
<1>1. UNCHANGED <<current, worker, overflow, stealable, sleeping, waiters, draining, zombies, dropped,
                  pending, resched, old, flow, saved, fresh>>
  BY Zenon DEF places, waitQueue, contexts
<1>2. state[current[c]] # "New"
  BY Zenon DEF IInv, Placed, CurrentPart, StatePart
<1>3. Placed' BY <1>1, <1>2, PlacedWritten
<1>4. QueueType(worker', overflow') BY <1>1, TypeParts DEF IInv, QueueType
<1>5. RestType' BY <1>1, TypeParts DEF IInv, RestType, set_state
<1>6. PcType' /\ ContextType' BY <1>1, TypeParts DEF IInv, PcType, ContextType, goto
<1>7. Busy'
  <2>1. \A x \in Tasks : state'[x] = "New" => state[x] = "New"
    BY TypeParts DEF IInv, RestType, set_state
  <2>2. pc'[c] = "sched" /\ \A d \in Cpus \ {c} : pc'[d] = pc[d]
    BY TypeParts DEF IInv, PcType, goto
  <2> QED BY <1>1, <2>1, <2>2, BusyStep DEF IInv
<1> QED BY <1>3, <1>4, <1>5, <1>6, <1>7, TypeParts DEF IInv

LEMMA CurrentIsTask ==
    ASSUME IInv, NEW c \in Cpus, current[c] # NoTask
    PROVE  current[c] \in Tasks
BY DEF IInv, TypeOK

LEMMA SleepStep ==
    ASSUME IInv, NEW c \in Cpus, sleep(c)
    PROVE  IInv'
<1>1. current[c] \in Tasks BY CurrentIsTask DEF sleep, leave
<1> QED BY <1>1, LeaveStep DEF sleep, leave, TaskState

LEMMA BlockStep ==
    ASSUME IInv, NEW c \in Cpus, block_current_task_vfork(c)
    PROVE  IInv'
<1>1. current[c] \in Tasks BY DEF block_current_task_vfork, IInv, Busy
<1> QED BY <1>1, LeaveStep DEF block_current_task_vfork, TaskState

LEMMA ExitStep ==
    ASSUME IInv, NEW c \in Cpus, exit(c)
    PROVE  IInv'
<1> DEFINE t == current[c]
<1>1. t \in Tasks BY CurrentIsTask DEF exit
<1>2. /\ goto(c, "sched") /\ gate' \subseteq gate
      /\ UNCHANGED <<current, places, pending, resched, old, contexts>>
  BY DEF exit
<1>3. CASE set_state(t, "Terminated") BY <1>1, <1>2, <1>3, LeaveStep DEF TaskState
<1>4. ASSUME NEW d \in Cpus \ {c}, current[d] # NoTask,
             state' = [state EXCEPT ![t] = "Terminated", ![current[d]] = "Ready"]
      PROVE  IInv'
  <2> DEFINE u == current[d]
  <2>1. u \in Tasks BY <1>4, CurrentIsTask
  <2>2. UNCHANGED <<current, worker, overflow, stealable, sleeping, waiters, draining, zombies,
                    dropped, pending, resched, old, flow, saved, fresh>>
    BY <1>2 DEF places, waitQueue, contexts
  <2>3. PICK kind \in [Tasks -> Kinds], cpu \in [Tasks -> Cpus] :
          /\ QueuePart(worker, overflow, kind, cpu)
          /\ CurrentPart(current, kind, cpu)
          /\ RestPart(waiters, sleeping, zombies, dropped, kind)
          /\ StatePart(state, kind)
    BY Zenon DEF IInv, Placed
  <2>4. kind[t] = "current" /\ kind[u] = "current" BY <1>1, <2>1, <2>3 DEF CurrentPart
  <2>5. state \in [Tasks -> TaskState] BY Zenon DEF IInv, TypeOK
  <2>6. StatePart(state', kind) BY <1>1, <1>4, <2>1, <2>3, <2>4, <2>5 DEF StatePart
  <2>7. /\ QueuePart(worker', overflow', kind, cpu)
        /\ CurrentPart(current', kind, cpu)
        /\ RestPart(waiters', sleeping', zombies', dropped', kind)
    BY <2>2, <2>3, Zenon
  <2>8. Placed' BY <2>6, <2>7, PlacedBy
  <2>9. QueueType(worker', overflow') BY <2>2, TypeParts DEF IInv, QueueType
  <2>10. RestType' BY <1>1, <1>2, <1>4, <2>1, <2>2, TypeParts DEF IInv, RestType, TaskState
  <2>11. PcType' /\ ContextType' BY <1>2, <2>2, TypeParts, Zenon DEF IInv, PcType, ContextType, goto
  <2>12. Busy'
    <3>1. \A x \in Tasks : state'[x] = "New" => state[x] = "New"
      BY <1>1, <1>4, <2>1, <2>5
    <3>2. pc'[c] = "sched" /\ \A e \in Cpus \ {c} : pc'[e] = pc[e]
      BY <1>2, TypeParts DEF IInv, PcType, goto
    <3> QED BY <2>2, <3>1, <3>2, BusyStep DEF IInv
  <2> QED BY <2>8, <2>9, <2>10, <2>11, <2>12, TypeParts DEF IInv
<1> QED BY <1>3, <1>4 DEF exit

LEMMA VforkStep ==
    ASSUME IInv, NEW c \in Cpus, NEW t \in Tasks, NEW d \in Cpus, vfork(c, t, d)
    PROVE  IInv'
<1> USE DEF vfork
<1>1. UNCHANGED <<current, sleeping, waiters, draining, zombies, dropped, pending, resched,
                  old, flow, saved, fresh>>
  BY Zenon DEF waitQueue, contexts
<1>2. Placed' /\ QueueType(worker', overflow') BY <1>1, SpawnPlaces, Zenon
<1>3. RestType' BY <1>1, TypeParts DEF IInv, RestType, set_state, enqueue_boxed_task,
                   publish_worker_load, TaskState
<1>4. PcType' /\ ContextType' BY <1>1, TypeParts DEF IInv, PcType, ContextType, goto
<1>5. Busy'
  <2>1. \A x \in Tasks : state'[x] = "New" => state[x] = "New"
    BY TypeParts, Zenon DEF IInv, RestType, set_state
  <2>2. pc'[c] = "vfork" /\ \A e \in Cpus \ {c} : pc'[e] = pc[e]
    BY TypeParts DEF IInv, PcType, goto
  <2>3. current[c] \in Tasks BY SchedulerAssumption, Zenon
  <2> QED BY <1>1, <2>1, <2>2, <2>3, BusyStep, Zenon DEF IInv
<1> QED BY <1>2, <1>3, <1>4, <1>5, TypeParts, Zenon DEF IInv

LEMMA WaitSleepStep ==
    ASSUME IInv, NEW c \in Cpus, WaitSleep(c)
    PROVE  IInv'
<1> USE DEF WaitSleep
<1> DEFINE t == current[c]
<1>1. UNCHANGED <<draining, worker, overflow, stealable, sleeping, zombies, dropped, gate,
                  pending, resched, old, flow, saved, fresh>>
  BY Zenon DEF contexts
<1>2. t \in Tasks BY SchedulerAssumption
<1>3. PICK kind \in [Tasks -> Kinds], cpu \in [Tasks -> Cpus] :
        /\ QueuePart(worker, overflow, kind, cpu)
        /\ CurrentPart(current, kind, cpu)
        /\ RestPart(waiters, sleeping, zombies, dropped, kind)
        /\ StatePart(state, kind)
  BY Zenon DEF IInv, Placed
<1> DEFINE k2 == [kind EXCEPT ![t] = "waiters"]
           c2 == [cpu EXCEPT ![t] = c]
<1>4. KindType(kind, cpu) BY DEF KindType
<1>5. state \in [Tasks -> TaskState] /\ current \in [Cpus -> Tasks \cup {NoTask}]
  BY Zenon DEF IInv, TypeOK
<1>6. kind[t] = "current" BY <1>2, <1>3 DEF CurrentPart
<1>7. CurrentPart(current', k2, c2)
  <2>1. CurrentPart([current EXCEPT ![c] = NoTask], k2, c2)
    BY <1>2, <1>3, <1>4, <1>5, CurrentLeaves, Zenon
  <2> QED BY <2>1
<1>8. QueuePart(worker', overflow', k2, c2)
  <2>1. QueuePart(worker, overflow, k2, c2) BY <1>2, <1>3, <1>4, <1>6, QueueFrame, Zenon
  <2> QED BY <1>1, <2>1, Zenon
<1>9. Added(waiters', waiters, t)
  <2>1. ~ Contains(waiters, t) BY <1>2, <1>3, <1>6, Zenon DEF RestPart
  <2> QED BY <1>2, <2>1, WaitersDistinct, AppendAdds, Zenon
<1>10. RestPart(waiters', sleeping', zombies', dropped', k2)
  BY <1>1, <1>2, <1>3, <1>6, <1>9, Zenon DEF RestPart, Added
<1>11. StatePart(state', k2) BY <1>2, <1>3, <1>4, <1>5, StateMoves, Zenon
<1>12. k2 \in [Tasks -> Kinds] /\ c2 \in [Tasks -> Cpus]
  BY <1>2, <1>4, MoveType DEF Kinds
<1> HIDE DEF k2, c2
<1>13. Placed' BY <1>7, <1>8, <1>10, <1>11, <1>12, PlacedBy, Zenon
<1>14. QueueType(worker', overflow') BY <1>1, TypeParts, Zenon DEF IInv, QueueType
<1>15. waiters' \in Seq(Tasks) BY <1>9, Zenon DEF Added
<1>16. RestType' BY <1>1, <1>2, <1>15, TypeParts, Zenon DEF IInv, RestType, set_state, TaskState
<1>17. PcType' /\ ContextType' BY <1>1, TypeParts DEF IInv, PcType, ContextType, goto
<1>18. Busy'
  <2>1. \A x \in Tasks : state'[x] = "New" => state[x] = "New" BY <1>5 DEF set_state
  <2>2. pc'[c] = "sched" /\ \A e \in Cpus \ {c} : pc'[e] = pc[e]
    BY TypeParts DEF IInv, PcType, goto
  <2>3. \A e \in Cpus \ {c} : current'[e] = current[e] BY <1>5
  <2> QED BY <1>1, <2>1, <2>2, <2>3, BusyStep, Zenon DEF IInv
<1> QED BY <1>13, <1>14, <1>16, <1>17, <1>18, TypeParts, Zenon DEF IInv

\* A step of CPU c that leaves the tasks alone.
LEMMA PcStep ==
    ASSUME IInv, NEW c \in Cpus,
           UNCHANGED <<state, current, worker, overflow, sleeping, waiters, draining, zombies,
                       dropped, gate, contexts>>,
           RestType', PcType',
           \A d \in Cpus \ {c} : pc'[d] = pc[d] /\ old'[d] = old[d],
           pc'[c] \in {"run", "sched", "switch", "unmark"}
    PROVE  IInv'
<1>1. Placed' /\ QueueType(worker', overflow') BY StaysPut, Zenon
<1>2. ContextType' BY TypeParts, Zenon DEF IInv, ContextType, contexts
<1>3. Busy' BY BusyStep, Zenon DEF IInv
<1> QED BY <1>1, <1>2, <1>3, TypeParts, Zenon DEF IInv

\* Yield, the idle loop, a schedule() that finds no task, a marked CPU found empty and the
\* timer interrupt.
LEMMA QuietStep ==
    ASSUME IInv, NEW c \in Cpus,
           \/ Yield(c) \/ idle_loop(c) \/ GoIdle(c) \/ tick(c) \/ set_stealable_bit(c)
           \/ \E v \in Cpus : choose_victim_cpu(c, v)
    PROVE  IInv'
<1> USE DEF places, waitQueue, goto
<1>1. RestType /\ PcType BY TypeParts DEF IInv
<1>2. CASE Yield(c)
  <2>1. RestType' BY <1>1, <1>2, Zenon DEF Yield, RestType
  <2>2. PcType' BY <1>1, <1>2, Zenon DEF Yield, PcType
  <2> QED BY <1>1, <1>2, <2>1, <2>2, PcStep, Zenon DEF Yield, PcType
<1>3. CASE idle_loop(c)
  <2>1. RestType' BY <1>1, <1>3, Zenon DEF idle_loop, RestType
  <2>2. PcType' BY <1>1, <1>3, Zenon DEF idle_loop, PcType
  <2> QED BY <1>1, <1>3, <2>1, <2>2, PcStep, Zenon DEF idle_loop, PcType
<1>4. CASE GoIdle(c)
  <2>1. RestType' BY <1>1, <1>4, Zenon DEF GoIdle, RestType
  <2>2. PcType' BY <1>1, <1>4, Zenon DEF GoIdle, PcType
  <2> QED BY <1>1, <1>4, <2>1, <2>2, PcStep, Zenon DEF GoIdle, PcType
<1>5. CASE tick(c)
  <2>1. RestType' BY <1>1, <1>5 DEF tick, RestType
  <2>2. PcType' BY <1>1, <1>5 DEF tick, PcType
  <2> QED BY <1>1, <1>5, <2>1, <2>2, PcStep DEF tick, PcType
<1>6. CASE set_stealable_bit(c)
  <2>1. RestType' BY <1>1, <1>6, Zenon DEF set_stealable_bit, RestType
  <2>2. PcType' BY <1>1, <1>6 DEF set_stealable_bit, PcType
  <2> QED BY <1>1, <1>6, <2>1, <2>2, PcStep DEF set_stealable_bit, PcType
<1>7. ASSUME NEW v \in Cpus, choose_victim_cpu(c, v) PROVE IInv'
  <2>1. RestType' BY <1>1, <1>7, Zenon DEF choose_victim_cpu, RestType
  <2>2. PcType' BY <1>1, <1>7, Zenon DEF choose_victim_cpu, PcType, Threads
  <2> QED BY <1>1, <1>7, <2>1, <2>2, PcStep, Zenon DEF choose_victim_cpu, PcType
<1> QED BY <1>2, <1>3, <1>4, <1>5, <1>6, <1>7

LEMMA SendSignalStep ==
    ASSUME IInv, NEW t \in Tasks, send_signal(t)
    PROVE  IInv'
<1> USE DEF send_signal, places, waitQueue, contexts
<1>1. Placed' /\ QueueType(worker', overflow') BY StaysPut
<1>2. RestType' BY TypeParts DEF IInv, RestType
<1>3. PcType' /\ ContextType' BY TypeParts DEF IInv, PcType, ContextType
<1>4. Busy' BY BusySame, Zenon DEF IInv
<1> QED BY <1>1, <1>2, <1>3, <1>4, TypeParts DEF IInv

LEMMA KillTaskStep ==
    ASSUME IInv, NEW c \in Cpus, NEW t \in Tasks, NEW s \in Signals, kill_task(c, t, s)
    PROVE  IInv'
<1> USE DEF kill_task
<1>1. UNCHANGED <<state, current, worker, overflow, stealable, sleeping, waiters, draining, zombies,
                  dropped, gate, pending, resched, flow, saved, fresh>>
  BY Zenon DEF places, waitQueue, contexts
<1>2. Placed' /\ QueueType(worker', overflow') BY <1>1, StaysPut, ZenonT(30)
<1>3. RestType' /\ ContextType' BY <1>1, TypeParts, Zenon DEF IInv, RestType, ContextType
<1>4. PcType BY TypeParts, Zenon DEF IInv
<1>5. PcType' BY <1>4, SchedulerAssumption, Zenon DEF PcType, goto, Threads
<1>6. Busy'
  <2>1. PICK d \in Cpus : current[d] = t BY Zenon
  <2>2. state[t] # "New" BY <2>1, Zenon DEF IInv, Placed, CurrentPart, StatePart
  <2>3. \A e \in Cpus \ {c} : pc'[e] = pc[e] /\ old'[e] = old[e] BY <1>4 DEF PcType, goto
  <2>4. pc'[c] = s /\ old'[c] = t /\ s \in {"kill", "stop", "cont"}
    BY <1>4, SchedulerAssumption DEF PcType, goto
  <2> QED BY <1>1, <2>1, <2>2, <2>3, <2>4, BusyStep, Zenon DEF IInv
<1> QED BY <1>2, <1>3, <1>5, <1>6, TypeParts, Zenon DEF IInv

LEMMA KillWriteStep ==
    ASSUME IInv, NEW c \in Cpus, KillWrite(c)
    PROVE  IInv'
<1> USE DEF KillWrite
<1> DEFINE t == old[c]
<1>1. UNCHANGED <<current, worker, overflow, stealable, sleeping, waiters, draining, zombies,
                  dropped, gate, pending, resched, old, flow, saved, fresh>>
  BY DEF places, waitQueue, contexts
<1>2. t \in Tasks /\ state[t] # "New" /\ (Calm => current[c] = t)
  BY Zenon DEF IInv, Busy, Calm
<1>3. RestType /\ PcType /\ ContextType BY TypeParts DEF IInv
<1>4. \/ state' = state
      \/ \E s \in {"Terminated", "Stopped", "Ready"} : set_state(t, s)
  BY Zenon
<1>5. QueueType(worker', overflow') BY <1>1, TypeParts, ZenonT(30) DEF IInv, QueueType
<1>6. Placed'
  <2>1. CASE state' = state BY <1>1, <2>1, StaysPut, Zenon
  <2>2. ASSUME NEW s \in {"Terminated", "Stopped", "Ready"}, set_state(t, s) PROVE Placed'
    <3>1. s \in TaskState \ {"New"} BY Zenon DEF TaskState
    <3> QED BY <1>1, <1>2, <2>2, <3>1, PlacedWritten, Zenon
  <2> QED BY <1>4, <2>1, <2>2
<1>7. state' \in [Tasks -> TaskState] /\ \A x \in Tasks : state'[x] = "New" => state[x] = "New"
  BY <1>2, <1>3, <1>4 DEF RestType, set_state, TaskState
<1>8. RestType' /\ ContextType' BY <1>1, <1>3, <1>7, Zenon DEF RestType, ContextType
<1>9. PcType' BY <1>1, <1>3 DEF PcType, goto
<1>10. pc'[c] = "run" /\ \A e \in Cpus \ {c} : pc'[e] = pc[e] BY <1>3, Zenon DEF PcType, goto
<1>11. Busy' BY <1>1, <1>7, <1>10, BusyStep DEF IInv
<1> QED BY <1>5, <1>6, <1>8, <1>9, <1>11, TypeParts, Zenon DEF IInv

-----------------------------------------------------------------------------
(* schedule(). *)

\* The task that was chosen, and is in no queue any more, becomes the current one.
LEMMA DispatchStep ==
    ASSUME IInv, NEW c \in Cpus, NEW t \in Tasks, picking(c), dispatch(c, t),
           stealable' \subseteq stealable \cup Cpus,
           NEW kind \in [Tasks -> Kinds], NEW cpu \in [Tasks -> Cpus],
           CurrentPart(current, kind, cpu),
           RestPart(waiters, sleeping, zombies, dropped, kind), StatePart(state, kind),
           kind[t] \in {"worker", "overflow"}, QueueType(worker', overflow'),
           QueuePart(worker', overflow', [kind EXCEPT ![t] = "current"], [cpu EXCEPT ![t] = c])
    PROVE  IInv'
<1> DEFINE k2 == [kind EXCEPT ![t] = "current"]
           c2 == [cpu EXCEPT ![t] = c]
<1>1. /\ pending' = pending \ {t} /\ set_state(t, "Running")
      /\ current' = [current EXCEPT ![c] = t] /\ goto(c, "switch")
      /\ UNCHANGED <<sleeping, waiters, draining, zombies, dropped, gate, resched, old,
                     flow, saved, fresh>>
  BY DEF dispatch, waitQueue, contexts
<1>2. KindType(kind, cpu) BY DEF KindType
<1>3. RestType /\ PcType /\ ContextType BY TypeParts DEF IInv
<1>4. current[c] = NoTask BY Zenon DEF picking, IInv, Busy
<1>5. CurrentPart([current EXCEPT ![c] = t], k2, c2)
  BY <1>2, <1>3, <1>4, CurrentEnters, Zenon DEF RestType
<1>6. RestPart(waiters, sleeping, zombies, dropped, k2) BY <1>2, RestFrame, Zenon
<1>7. StatePart(state', k2) BY <1>1, <1>2, <1>3, StateMoves, Zenon DEF RestType
<1>8. k2 \in [Tasks -> Kinds] /\ c2 \in [Tasks -> Cpus] BY <1>2, MoveType DEF Kinds
<1> HIDE DEF k2, c2
<1>9. QueuePart(worker', overflow', k2, c2) BY DEF k2, c2
<1>10. CurrentPart(current', k2, c2) BY <1>1, <1>5
<1>11. RestPart(waiters', sleeping', zombies', dropped', k2) BY <1>1, <1>6
<1>12. Placed' BY <1>7, <1>8, <1>9, <1>10, <1>11, PlacedBy
<1>13. RestType' BY <1>1, <1>3 DEF RestType, set_state, TaskState
<1>14. PcType' /\ ContextType' BY <1>1, <1>3 DEF PcType, ContextType, goto
<1>15. Busy'
  <2>1. \A x \in Tasks : state'[x] = "New" => state[x] = "New" BY <1>1, <1>3 DEF set_state, RestType
  <2>2. pc'[c] = "switch" /\ \A e \in Cpus \ {c} : pc'[e] = pc[e] BY <1>1, <1>3 DEF PcType, goto
  <2>3. \A e \in Cpus \ {c} : current'[e] = current[e] BY <1>1, <1>3 DEF RestType
  <2> QED BY <1>1, <2>1, <2>2, <2>3, BusyStep, Zenon DEF IInv
<1> QED BY <1>12, <1>13, <1>14, <1>15, TypeParts DEF IInv

\* ... out of the deque of v.
LEMMA TakenFrom ==
    ASSUME IInv, NEW c \in Cpus, NEW t \in Tasks, picking(c), dispatch(c, t),
           stealable' \subseteq stealable \cup Cpus, overflow' = overflow,
           NEW v \in Cpus, NEW q, Contains(worker[v], t), Removed(q, worker[v], t),
           worker' = [worker EXCEPT ![v] = q]
    PROVE  IInv'
<1>1. PICK kind \in [Tasks -> Kinds], cpu \in [Tasks -> Cpus] :
        /\ QueuePart(worker, overflow, kind, cpu)
        /\ CurrentPart(current, kind, cpu)
        /\ RestPart(waiters, sleeping, zombies, dropped, kind)
        /\ StatePart(state, kind)
  BY Zenon DEF IInv, Placed
<1>2. KindType(kind, cpu) BY DEF KindType
<1>3. QueueType(worker, overflow) BY TypeParts DEF IInv
<1>4. /\ QueueType(worker', overflow')
      /\ QueuePart(worker', overflow', [kind EXCEPT ![t] = "current"], [cpu EXCEPT ![t] = c])
      /\ kind[t] = "worker"
  BY <1>1, <1>2, <1>3, PopWorker, Zenon
<1> QED BY <1>1, <1>4, DispatchStep, Zenon

LEMMA DequesDistinct ==
    ASSUME IInv
    PROVE  /\ \A c \in Cpus : worker[c] \in Seq(Tasks) /\ Distinct(worker[c])
           /\ overflow \in Seq(Tasks) /\ Distinct(overflow)
BY DEF IInv, TypeOK, Placed, QueuePart

LEMMA PolicyTaskStep ==
    ASSUME IInv, NEW c \in Cpus, take_committed_policy_task(c)
    PROVE  IInv'
<1>0. PICK v \in Cpus : \E i \in DOMAIN worker[v] :
        /\ dispatch(c, worker[v][i])
        /\ worker' = [worker EXCEPT ![v] =
             IF v = c THEN RemoveAt(worker[v], i)
             ELSE SubSeq(worker[v], i + 1, Len(worker[v])) \o Reverse(SubSeq(worker[v], 1, i - 1))]
  BY Zenon DEF take_committed_policy_task
<1> DEFINE w == worker[v]
<1>1. PICK i \in DOMAIN w :
        /\ dispatch(c, w[i])
        /\ worker' = [worker EXCEPT ![v] =
             IF v = c THEN RemoveAt(w, i)
             ELSE SubSeq(w, i + 1, Len(w)) \o Reverse(SubSeq(w, 1, i - 1))]
  BY <1>0, Zenon
<1> DEFINE
           q == IF v = c THEN RemoveAt(w, i)
                ELSE SubSeq(w, i + 1, Len(w)) \o Reverse(SubSeq(w, 1, i - 1))
<1>2. w \in Seq(Tasks) /\ Distinct(w) BY DequesDistinct
<1>3. i \in 1..Len(w) BY <1>2, QueueDomain, Zenon
<1>4. w[i] \in Tasks /\ Contains(w, w[i]) BY <1>2, <1>3, QueueDomain, Zenon DEF Contains
<1>5. Removed(q, w, w[i])
  <2>1. CASE v = c BY <1>2, <1>3, <2>1, RemoveAtRemoves, Zenon
  <2>2. CASE v # c BY <1>2, <1>3, <2>2, ScanRemoves
  <2> QED BY <2>1, <2>2, Zenon
<1>6. picking(c) /\ UNCHANGED <<overflow, stealable>>
  BY DEF take_committed_policy_task, picking
<1> HIDE DEF q
<1>7. worker' = [worker EXCEPT ![v] = q] BY <1>1 DEF q
<1> QED BY <1>1, <1>4, <1>5, <1>6, <1>7, TakenFrom, Zenon

LEMMA PopLocalStep ==
    ASSUME IInv, NEW c \in Cpus, PopLocal(c)
    PROVE  IInv'
<1>1. /\ Last(worker[c]) \in Tasks /\ Contains(worker[c], Last(worker[c]))
      /\ Removed(Front(worker[c]), worker[c], Last(worker[c]))
  BY DequesDistinct, FrontRemoves DEF PopLocal
<1>2. worker' = [worker EXCEPT ![c] = Front(worker[c])] BY DEF PopLocal
<1> QED BY <1>1, <1>2, TakenFrom, ZenonT(30) DEF PopLocal

LEMMA StealStep ==
    ASSUME IInv, NEW c \in Cpus, NEW v \in Cpus, StealFrom(c, v)
    PROVE  IInv'
<1>1. /\ Head(worker[v]) \in Tasks /\ Contains(worker[v], Head(worker[v]))
      /\ Removed(Tail(worker[v]), worker[v], Head(worker[v]))
  BY DequesDistinct, TailRemoves DEF StealFrom
<1>2. worker' = [worker EXCEPT ![v] = Tail(worker[v])] BY DEF StealFrom
<1>3. stealable' \subseteq stealable \cup Cpus BY DEF StealFrom, publish_worker_load
<1> QED BY <1>1, <1>2, <1>3, TakenFrom, Zenon DEF StealFrom

LEMMA PopOverflowStep ==
    ASSUME IInv, NEW c \in Cpus, PopOverflow(c)
    PROVE  IInv'
<1> DEFINE t == Head(overflow)
<1>1. t \in Tasks /\ Contains(overflow, t) /\ Removed(overflow', overflow, t)
  BY DequesDistinct, TailRemoves DEF PopOverflow
<1>2. PICK kind \in [Tasks -> Kinds], cpu \in [Tasks -> Cpus] :
        /\ QueuePart(worker, overflow, kind, cpu)
        /\ CurrentPart(current, kind, cpu)
        /\ RestPart(waiters, sleeping, zombies, dropped, kind)
        /\ StatePart(state, kind)
  BY Zenon DEF IInv, Placed
<1>3. KindType(kind, cpu) BY DEF KindType
<1>4. QueueType(worker, overflow) BY TypeParts, Zenon DEF IInv
<1>5. picking(c) /\ dispatch(c, t) /\ UNCHANGED <<worker, stealable>> BY DEF PopOverflow
<1> HIDE DEF t
<1>6. /\ QueueType(worker', overflow')
      /\ QueuePart(worker', overflow', [kind EXCEPT ![t] = "current"], [cpu EXCEPT ![t] = c])
      /\ kind[t] = "overflow"
  BY <1>1, <1>2, <1>3, <1>4, <1>5, PopShared, Zenon
<1> QED BY <1>1, <1>2, <1>5, <1>6, DispatchStep, Zenon

\* The scan for a task that is not there turns the deque around.
LEMMA PolicyMissStep ==
    ASSUME IInv, NEW c \in Cpus, PolicyMiss(c)
    PROVE  IInv'
<1>1. PICK v \in Cpus \ {c} : worker' = [worker EXCEPT ![v] = Reverse(worker[v])]
  BY Zenon DEF PolicyMiss
<1>2. UNCHANGED <<state, current, overflow, stealable, sleeping, waiters, draining, zombies,
                  dropped, gate, pending, resched, old, flow, saved, fresh>>
  BY Zenon DEF PolicyMiss, waitQueue, contexts
<1> DEFINE q == Reverse(worker[v])
<1>3. /\ q \in Seq(Tasks) /\ Len(q) = Len(worker[v]) /\ Distinct(q)
      /\ \A x \in Tasks : Contains(q, x) <=> Contains(worker[v], x)
  BY DequesDistinct, ReverseKeeps
<1> HIDE DEF q
<1>4. worker' = [worker EXCEPT ![v] = q] BY <1>1 DEF q
<1>5. QueueType(worker', overflow') BY <1>2, <1>3, <1>4, TypeParts, Zenon DEF IInv, QueueType
<1>6. PICK kind \in [Tasks -> Kinds], cpu \in [Tasks -> Cpus] :
        /\ QueuePart(worker, overflow, kind, cpu)
        /\ CurrentPart(current, kind, cpu)
        /\ RestPart(waiters, sleeping, zombies, dropped, kind)
        /\ StatePart(state, kind)
  BY Zenon DEF IInv, Placed
<1>7. QueuePart(worker', overflow', kind, cpu)
  BY <1>2, <1>3, <1>4, <1>6, TypeParts DEF QueuePart, IInv, QueueType
<1>8. /\ CurrentPart(current', kind, cpu)
      /\ RestPart(waiters', sleeping', zombies', dropped', kind)
      /\ StatePart(state', kind)
  BY <1>2, <1>6
<1>9. Placed' BY <1>7, <1>8, PlacedBy
<1>10. RestType /\ PcType /\ ContextType BY TypeParts DEF IInv
<1>11. RestType' /\ ContextType' BY <1>2, <1>10 DEF RestType, ContextType
<1>12. PcType' BY <1>2, <1>10 DEF PcType, PolicyMiss, goto
<1>13. Busy'
  <2>1. pc'[c] = "local" /\ \A e \in Cpus \ {c} : pc'[e] = pc[e]
    BY <1>10 DEF PcType, PolicyMiss, goto
  <2>2. current[c] = NoTask BY Zenon DEF PolicyMiss, IInv, Busy
  <2> QED BY <1>2, <2>1, <2>2, BusyStep, Zenon DEF IInv
<1> QED BY <1>5, <1>9, <1>11, <1>12, <1>13, TypeParts DEF IInv

LEMMA SwitchStep ==
    ASSUME IInv, NEW c \in Cpus, switch_context(c)
    PROVE  IInv'
<1> USE DEF switch_context
<1>1. UNCHANGED <<state, current, worker, overflow, stealable, sleeping, waiters, draining, zombies,
                  dropped, gate, pending, resched, old>>
  BY ZenonT(30) DEF places, waitQueue
<1>2. Placed' /\ QueueType(worker', overflow') BY <1>1, StaysPut, Zenon
<1>3. RestType /\ PcType /\ ContextType BY TypeParts DEF IInv
<1>4. RestType' BY <1>1, <1>3, Zenon DEF RestType
<1>5. PcType' BY <1>1, <1>3 DEF PcType, goto
<1>6. old[c] \in Threads /\ Thread(c) \in Threads BY <1>3, Zenon DEF PcType, RestType, Thread, Threads
<1>7. ContextType'
  <2>1. CASE old[c] = Thread(c) BY <1>3, <2>1, Zenon DEF ContextType, contexts
  <2>2. CASE old[c] # Thread(c) BY <1>3, <1>6, <2>2, Zenon DEF ContextType
  <2> QED BY <2>1, <2>2, Zenon
<1>8. Busy'
  <2>1. pc'[c] = "run" /\ \A e \in Cpus \ {c} : pc'[e] = pc[e] BY <1>3, ZenonT(30) DEF PcType, goto
  <2> QED BY <1>1, <2>1, BusyStep DEF IInv
<1> QED BY <1>2, <1>4, <1>5, <1>7, <1>8, TypeParts, Zenon DEF IInv

\* The list that takes the box of the current task.
LEMMA PutAwayPlaces ==
    ASSUME IInv, NEW c \in Cpus, PutAway(c), current[c] # NoTask
    PROVE  Placed' /\ QueueType(worker', overflow') /\ state' \in [Tasks -> TaskState]
           /\ \A x \in Tasks : state'[x] = "New" => state[x] = "New"
<1> DEFINE t == current[c]
           s == IF state[t] = "Running" THEN "Ready" ELSE state[t]
<1>1. t \in Tasks BY CurrentIsTask
<1>2. RestType BY TypeParts DEF IInv
<1>3. PICK kind \in [Tasks -> Kinds], cpu \in [Tasks -> Cpus] :
        /\ QueuePart(worker, overflow, kind, cpu)
        /\ CurrentPart(current, kind, cpu)
        /\ RestPart(waiters, sleeping, zombies, dropped, kind)
        /\ StatePart(state, kind)
  BY Zenon DEF IInv, Placed
<1>4. KindType(kind, cpu) BY DEF KindType
<1>5. kind[t] = "current" BY <1>1, <1>3 DEF CurrentPart
<1>6. s \in {"Ready", "Sleeping", "Blocked", "Stopped", "Terminated"}
  BY <1>1, <1>2, <1>3, <1>5 DEF RestType, TaskState, StatePart
<1>7. /\ set_state(t, s)
      /\ current' = [current EXCEPT ![c] = NoTask]
      /\ IF s = "Ready" THEN queues(push(<<worker, overflow>>, t, c))
                        ELSE UNCHANGED <<worker, overflow>>
      /\ sleeping' = (IF s = "Sleeping" THEN sleeping \cup {t} ELSE sleeping)
      /\ zombies' = (IF s = "Terminated" THEN zombies \cup {t} ELSE zombies)
      /\ dropped' = (IF s \in {"Blocked", "Stopped"} THEN dropped \cup {t} ELSE dropped)
      /\ waiters' = waiters
  BY Zenon DEF PutAway, waitQueue
<1> HIDE DEF s, t
<1>8. state' \in [Tasks -> TaskState] /\ \A x \in Tasks : state'[x] = "New" => state[x] = "New"
  BY <1>1, <1>2, <1>6, <1>7 DEF RestType, set_state, TaskState
<1>9. QueueType(worker, overflow) BY TypeParts DEF IInv
<1>10. ASSUME NEW k \in Kinds, k # "current", k # "nowhere",
              QueuePart(worker', overflow', [kind EXCEPT ![t] = k], [cpu EXCEPT ![t] = c]),
              RestPart(waiters', sleeping', zombies', dropped', [kind EXCEPT ![t] = k]),
              k \in {"worker", "overflow"} => s = "Ready",
              k = "waiters" => s = "Blocked",
              k = "sleeping" => s = "Sleeping",
              k = "zombies" => s = "Terminated"
       PROVE  Placed'
  <2> DEFINE k2 == [kind EXCEPT ![t] = k]
             c2 == [cpu EXCEPT ![t] = c]
  <2>1. CurrentPart([current EXCEPT ![c] = NoTask], k2, c2)
    BY <1>1, <1>2, <1>3, <1>4, <1>10, CurrentLeaves, Zenon DEF RestType, t
  <2>2. StatePart(state', k2)
    BY <1>1, <1>2, <1>3, <1>4, <1>6, <1>7, <1>10, StateMoves, Zenon DEF RestType
  <2>3. k2 \in [Tasks -> Kinds] /\ c2 \in [Tasks -> Cpus]
    BY <1>1, <1>4, MoveType
  <2> HIDE DEF k2, c2
  <2>4. CurrentPart(current', k2, c2) BY <1>7, <2>1
  <2>5. /\ QueuePart(worker', overflow', k2, c2)
        /\ RestPart(waiters', sleeping', zombies', dropped', k2)
    BY <1>10 DEF k2, c2
  <2> QED BY <2>2, <2>3, <2>4, <2>5, PlacedBy
<1>11. CASE s = "Ready"
  <2>1. queues(push(<<worker, overflow>>, t, c)) /\ UNCHANGED <<sleeping, zombies, dropped, waiters>>
    BY <1>7, <1>11
  <2>2. /\ QueueType(worker', overflow')
        /\ \E k \in {"worker", "overflow"} :
             QueuePart(worker', overflow', [kind EXCEPT ![t] = k], [cpu EXCEPT ![t] = c])
    BY <1>1, <1>3, <1>4, <1>5, <1>9, <2>1, PushAdds, Zenon
  <2>3. PICK k \in {"worker", "overflow"} :
          QueuePart(worker', overflow', [kind EXCEPT ![t] = k], [cpu EXCEPT ![t] = c])
    BY <2>2, Zenon
  <2>4. RestPart(waiters, sleeping, zombies, dropped, [kind EXCEPT ![t] = k])
    BY <1>1, <1>3, <1>4, <1>5, RestFrame, Zenon
  <2>5. RestPart(waiters', sleeping', zombies', dropped', [kind EXCEPT ![t] = k])
    BY <2>1, <2>4
  <2>6. k \in Kinds BY DEF Kinds
  <2> QED BY <1>8, <1>10, <1>11, <2>2, <2>3, <2>5, <2>6, Zenon
<1>12. ASSUME NEW k \in {"sleeping", "zombies", "dropped"},
              s # "Ready",
              RestPart(waiters', sleeping', zombies', dropped', [kind EXCEPT ![t] = k]),
              k = "sleeping" => s = "Sleeping",
              k = "zombies" => s = "Terminated"
       PROVE  Placed' /\ QueueType(worker', overflow')
  <2>1. UNCHANGED <<worker, overflow>> BY <1>7, <1>12
  <2>2. QueuePart(worker, overflow, [kind EXCEPT ![t] = k], [cpu EXCEPT ![t] = c])
    BY <1>1, <1>3, <1>4, <1>5, QueueFrame, Zenon
  <2>3. QueuePart(worker', overflow', [kind EXCEPT ![t] = k], [cpu EXCEPT ![t] = c])
    BY <2>1, <2>2
  <2>4. k \in Kinds BY DEF Kinds
  <2>5. QueueType(worker', overflow') BY <1>9, <2>1
  <2> QED BY <1>10, <1>12, <2>3, <2>4, <2>5, Zenon
<1>13. CASE s = "Sleeping"
  <2>1. sleeping' = sleeping \cup {t} /\ UNCHANGED <<zombies, dropped, waiters>> BY <1>7, <1>13
  <2>2. RestPart(waiters', sleeping', zombies', dropped', [kind EXCEPT ![t] = "sleeping"])
    BY <1>1, <1>3, <1>5, <2>1 DEF RestPart
  <2> QED BY <1>8, <1>12, <1>13, <2>2
<1>14. CASE s = "Terminated"
  <2>1. zombies' = zombies \cup {t} /\ UNCHANGED <<sleeping, dropped, waiters>> BY <1>7, <1>14
  <2>2. RestPart(waiters', sleeping', zombies', dropped', [kind EXCEPT ![t] = "zombies"])
    BY <1>1, <1>3, <1>5, <2>1 DEF RestPart
  <2> QED BY <1>8, <1>12, <1>14, <2>2
<1>15. CASE s \in {"Blocked", "Stopped"}
  <2>1. dropped' = dropped \cup {t} /\ UNCHANGED <<sleeping, zombies, waiters>> BY <1>7, <1>15
  <2>2. RestPart(waiters', sleeping', zombies', dropped', [kind EXCEPT ![t] = "dropped"])
    BY <1>1, <1>3, <1>5, <2>1 DEF RestPart
  <2> QED BY <1>8, <1>12, <1>15, <2>2
<1> QED BY <1>6, <1>11, <1>13, <1>14, <1>15

LEMMA PutAwayStep ==
    ASSUME IInv, NEW c \in Cpus, PutAway(c)
    PROVE  IInv'
<1>1. RestType /\ PcType /\ ContextType BY TypeParts, ZenonT(30) DEF IInv
<1>2. /\ pc' = [pc EXCEPT ![c] = "pick"] /\ current' = [current EXCEPT ![c] = NoTask]
      /\ UNCHANGED <<stealable, waiters, draining, gate, pending, flow, saved, fresh>>
      /\ resched' = [resched EXCEPT ![c] = FALSE]
      /\ old' = [old EXCEPT ![c] = IF current[c] = NoTask THEN c ELSE current[c]]
  BY DEF PutAway, goto, waitQueue, contexts, places
<1>3. /\ Placed' /\ QueueType(worker', overflow') /\ state' \in [Tasks -> TaskState]
      /\ \A x \in Tasks : state'[x] = "New" => state[x] = "New"
  <2>1. CASE current[c] # NoTask BY <2>1, PutAwayPlaces
  <2>2. CASE current[c] = NoTask
    <3>1. current' = current BY <1>1, <1>2, <2>2 DEF RestType
    <3>2. UNCHANGED <<state, worker, overflow, waiters, sleeping, zombies, dropped>>
      BY <2>2, Zenon DEF PutAway, places, waitQueue
    <3> QED BY <1>1, <3>1, <3>2, StaysPut DEF RestType
  <2> QED BY <2>1, <2>2, Zenon
<1>4. sleeping' \subseteq Tasks /\ zombies' \subseteq Tasks /\ dropped' \subseteq Tasks
  <2>1. CASE current[c] # NoTask
    <3>1. current[c] \in Tasks BY <2>1, CurrentIsTask
    <3> QED BY <1>1, <2>1, <3>1, Zenon DEF PutAway, RestType
  <2>2. CASE current[c] = NoTask BY <1>1, <2>2, Zenon DEF PutAway, places, RestType
  <2> QED BY <2>1, <2>2
<1>5. RestType' BY <1>1, <1>2, <1>3, <1>4 DEF RestType
<1>6. PcType' /\ ContextType' BY <1>1, <1>2 DEF PcType, ContextType, Threads, RestType
<1>7. Busy'
  <2>1. /\ pc'[c] = "pick" /\ current'[c] = NoTask
        /\ \A e \in Cpus \ {c} : pc'[e] = pc[e] /\ old'[e] = old[e] /\ current'[e] = current[e]
    BY <1>1, <1>2 DEF PcType, RestType
  <2> QED BY <1>3, <2>1, BusyStep, Zenon DEF IInv
<1> QED BY <1>3, <1>5, <1>6, <1>7, TypeParts DEF IInv

-----------------------------------------------------------------------------
(* The invariant and what follows from it. *)

\* The boot state: no task is anywhere and every CPU is idle.
LEMMA InitIInv == Init => IInv
<1> SUFFICES ASSUME Init PROVE IInv OBVIOUS
<1> USE DEF Init
<1>1. TypeOK
  <2>1. QueueType(worker, overflow) BY SchedulerAssumption DEF QueueType
  <2>2. state \in [Tasks -> TaskState] BY DEF TaskState
  <2>3. current \in [Cpus -> Tasks \cup {NoTask}] /\ resched \in [Cpus -> BOOLEAN] OBVIOUS
  <2>4. RestType
    <3>1. waiters \in Seq(Tasks) OBVIOUS
    <3>2. draining \in BOOLEAN BY Zenon
    <3> QED BY <2>2, <2>3, <3>1, <3>2, Zenon DEF RestType
  <2>5. PcType /\ ContextType BY DEF PcType, ContextType, Threads
  <2> QED BY <2>1, <2>4, <2>5, TypeParts
<1>2. Busy BY Zenon DEF Busy
<1>3. Placed
  <2> DEFINE kind == [t \in Tasks |-> "nowhere"]
             cpu == [t \in Tasks |-> CHOOSE c \in Cpus : TRUE]
  <2>1. kind \in [Tasks -> Kinds] /\ cpu \in [Tasks -> Cpus] BY SchedulerAssumption, Zenon DEF Kinds
  <2>2. QueuePart(worker, overflow, kind, cpu)
    <3>1. Distinct(<<>>) /\ \A t \in Tasks : ~ Contains(<<>>, t) BY DEF Distinct, Contains
    <3>2. overflow = <<>> /\ \A c \in Cpus : worker[c] = <<>> OBVIOUS
    <3> QED BY <3>1, <3>2, Zenon DEF QueuePart
  <2>3. CurrentPart(current, kind, cpu) BY SchedulerAssumption, Zenon DEF CurrentPart
  <2>4. RestPart(waiters, sleeping, zombies, dropped, kind) BY DEF RestPart, Distinct, Contains
  <2>5. StatePart(state, kind) BY DEF StatePart
  <2> HIDE DEF kind, cpu
  <2> QED BY <2>1, <2>2, <2>3, <2>4, <2>5, Zenon DEF Placed
<1> QED BY <1>1, <1>2, <1>3 DEF IInv

\* One case per action.
LEMMA NextIInv == IInv /\ [Next]_vars => IInv'
<1> SUFFICES ASSUME IInv, [Next]_vars PROVE IInv' OBVIOUS
<1>1. ASSUME NEW t \in Tasks, NEW d \in Cpus, Spawn(t, d) PROVE IInv' BY <1>1, SpawnStep
<1>2. ASSUME NEW t \in Tasks, NEW d \in Cpus, WakeSleeping(t, d) PROVE IInv' BY <1>2, WakeSleepingStep
<1>3. ASSUME NEW d \in Cpus, WakeOne(d) \/ WakeAll(d) PROVE IInv' BY <1>3, WakeOneStep, WakeAllStep
<1>4. ASSUME NEW t \in Tasks, send_signal(t) PROVE IInv' BY <1>4, SendSignalStep
<1>5. ASSUME NEW c \in Cpus, Schedule(c) PROVE IInv'
  BY <1>5, PutAwayStep, PolicyTaskStep, PolicyMissStep, PopLocalStep, PopOverflowStep, StealStep,
     QuietStep, SwitchStep DEF Schedule
<1>6. ASSUME NEW c \in Cpus, Call(c) PROVE IInv'
  BY <1>6, SleepStep, ExitStep, BlockStep, WaitSleepStep, KillWriteStep, VforkStep, KillTaskStep
     DEF Call
<1>7. ASSUME NEW c \in Cpus, \/ Yield(c) \/ idle_loop(c) \/ tick(c) \/ set_stealable_bit(c)
                             \/ \E v \in Cpus : choose_victim_cpu(c, v)
      PROVE IInv'
  BY <1>7, QuietStep
<1>8. CASE UNCHANGED vars
  <2> USE <1>8 DEF vars, places, waitQueue, contexts
  <2>1. Placed' /\ QueueType(worker', overflow') BY StaysPut, Zenon
  <2>2. RestType' /\ PcType' /\ ContextType' BY TypeParts DEF IInv, RestType, PcType, ContextType
  <2>3. Busy' BY BusySame DEF IInv
  <2> QED BY <2>1, <2>2, <2>3, TypeParts DEF IInv
<1> QED BY <1>1, <1>2, <1>3, <1>4, <1>5, <1>6, <1>7, <1>8 DEF Next

\* Every step of every CPU keeps every task at one place, in the list its kind names.
THEOREM SpecIInv == Spec => []IInv
BY InitIInv, NextIInv, PTL DEF Spec

\* In every reachable state every variable has its type and no deque is longer than its
\* capacity, for any number of CPUs and tasks and any capacity.
THEOREM SchedulerTypes == Spec => []TypeOK
BY SpecIInv, PTL DEF IInv

\* The lists agree with Task::state as long as no CPU may kill or stop what another one
\* runs: there is one CPU, or kill_task is not called.
THEOREM StatesAgree ==
    ASSUME Signals = {} \/ \A c, d \in Cpus : c = d
    PROVE  Spec => []ListsMatchStates
<1>1. IInv => ListsMatchStates
  BY DEF IInv, Placed, QueuePart, RestPart, StatePart, Calm, ListsMatchStates, Queued
<1> QED BY <1>1, SpecIInv, PTL

\* What is in Holders(t).
LEMMA HoldersOf ==
    ASSUME NEW t \in Tasks, NEW h
    PROVE  h \in Holders(t) <=>
             \/ \E c \in Cpus : current[c] = t /\ h = <<"current", c>>
             \/ \E i \in DOMAIN overflow : overflow[i] = t /\ h = <<"overflow", i>>
             \/ \E i \in DOMAIN waiters : waiters[i] = t /\ h = <<"waiters", i>>
             \/ \E c \in Cpus : \E i \in DOMAIN worker[c] : worker[c][i] = t /\ h = <<"worker", c, i>>
             \/ t \in sleeping /\ h = <<"sleeping">>
             \/ t \in zombies /\ h = <<"zombies">>
             \/ t \in dropped /\ h = <<"dropped">>
<1> DEFINE A == {<<"current", c>> : c \in {d \in Cpus : current[d] = t}}
           B == {<<"overflow", i>> : i \in {j \in DOMAIN overflow : overflow[j] = t}}
           C == {<<"waiters", i>> : i \in {j \in DOMAIN waiters : waiters[j] = t}}
           W(c) == {<<"worker", c, i>> : i \in {j \in DOMAIN worker[c] : worker[c][j] = t}}
           D == UNION {W(c) : c \in Cpus}
           E == {<<"sleeping">> : x \in sleeping \cap {t}}
           F == {<<"zombies">> : x \in zombies \cap {t}}
           G == {<<"dropped">> : x \in dropped \cap {t}}
<1>1. Holders(t) = UNION {A, B, C, D, E, F, G} BY Zenon DEF Holders
<1>2. h \in A <=> \E c \in Cpus : current[c] = t /\ h = <<"current", c>> BY Zenon
<1>3. h \in B <=> \E i \in DOMAIN overflow : overflow[i] = t /\ h = <<"overflow", i>> OBVIOUS
<1>4. h \in C <=> \E i \in DOMAIN waiters : waiters[i] = t /\ h = <<"waiters", i>> OBVIOUS
<1>5. h \in D <=> \E c \in Cpus : \E i \in DOMAIN worker[c] : worker[c][i] = t /\ h = <<"worker", c, i>>
  <2>1. \A c \in Cpus : h \in W(c) <=> \E i \in DOMAIN worker[c] : worker[c][i] = t /\ h = <<"worker", c, i>>
    OBVIOUS
  <2> HIDE DEF W
  <2> QED BY <2>1
<1>6. h \in E <=> t \in sleeping /\ h = <<"sleeping">> OBVIOUS
<1>7. h \in F <=> t \in zombies /\ h = <<"zombies">> OBVIOUS
<1>8. h \in G <=> t \in dropped /\ h = <<"dropped">> OBVIOUS
<1> HIDE DEF A, B, C, D, E, F, G
<1>9. h \in Holders(t) <=> h \in A \/ h \in B \/ h \in C \/ h \in D \/ h \in E \/ h \in F \/ h \in G
  BY <1>1
<1> QED BY <1>2, <1>3, <1>4, <1>5, <1>6, <1>7, <1>8, <1>9, Zenon

\* The place of a task in a queue that holds it.
LEMMA OnePlace ==
    ASSUME NEW q \in Seq(Tasks), Distinct(q), NEW t \in Tasks, Contains(q, t)
    PROVE  \E i \in DOMAIN q : q[i] = t /\ \A j \in DOMAIN q : q[j] = t => j = i
BY DEF Distinct, Contains

LEMMA NoPlace ==
    ASSUME NEW q \in Seq(Tasks), NEW t \in Tasks, ~ Contains(q, t)
    PROVE  \A j \in DOMAIN q : q[j] # t
BY DEF Contains

\* The set S has the element x and no other.
Only(S, x) == \A h : h \in S <=> h = x

LEMMA OneHolder ==
    ASSUME IInv, NEW t \in Tasks, state[t] # "New"
    PROVE  \E x : Only(Holders(t), x)
<1>1. PICK kind \in [Tasks -> Kinds], cpu \in [Tasks -> Cpus] :
        /\ QueuePart(worker, overflow, kind, cpu)
        /\ CurrentPart(current, kind, cpu)
        /\ RestPart(waiters, sleeping, zombies, dropped, kind)
        /\ StatePart(state, kind)
  BY Zenon DEF IInv, Placed
<1>2. kind[t] \in Kinds \ {"nowhere"} BY <1>1 DEF StatePart
<1> DEFINE c == cpu[t]
           atCurrent(h) == \E d \in Cpus : current[d] = t /\ h = <<"current", d>>
           atOverflow(h) == \E i \in DOMAIN overflow : overflow[i] = t /\ h = <<"overflow", i>>
           atWaiters(h) == \E i \in DOMAIN waiters : waiters[i] = t /\ h = <<"waiters", i>>
           atWorker(h) == \E d \in Cpus : \E i \in DOMAIN worker[d] :
                            worker[d][i] = t /\ h = <<"worker", d, i>>
<1>3. c \in Cpus OBVIOUS
<1>4. \A h : h \in Holders(t) <=> \/ atCurrent(h) \/ atOverflow(h) \/ atWaiters(h) \/ atWorker(h)
                                  \/ t \in sleeping /\ h = <<"sleeping">>
                                  \/ t \in zombies /\ h = <<"zombies">>
                                  \/ t \in dropped /\ h = <<"dropped">>
  BY HoldersOf, Zenon
<1>5. \A d \in Cpus : current[d] = t <=> kind[t] = "current" /\ c = d BY <1>1, ZenonT(30) DEF CurrentPart
<1>6. /\ t \in sleeping <=> kind[t] = "sleeping"
      /\ t \in zombies <=> kind[t] = "zombies"
      /\ t \in dropped <=> kind[t] = "dropped"
      /\ Contains(waiters, t) <=> kind[t] = "waiters"
  BY <1>1 DEF RestPart
<1>7. /\ \A d \in Cpus : Contains(worker[d], t) <=> kind[t] = "worker" /\ c = d
      /\ Contains(overflow, t) <=> kind[t] = "overflow"
  BY <1>1, ZenonT(30) DEF QueuePart
<1>8. kind[t] # "current" => \A h : ~ atCurrent(h) BY <1>5, Zenon
<1>9. kind[t] # "overflow" => \A h : ~ atOverflow(h) BY <1>7, NoPlace, DequesDistinct, Zenon
<1>10. kind[t] # "waiters" => \A h : ~ atWaiters(h) BY <1>6, NoPlace, WaitersDistinct, Zenon
<1>11. kind[t] # "worker" => \A h : ~ atWorker(h) BY <1>7, NoPlace, DequesDistinct, Zenon
<1>12. kind[t] = "current" => \A h : atCurrent(h) <=> h = <<"current", c>> BY <1>3, <1>5, Zenon
<1>13. kind[t] = "overflow" => \E i : \A h : atOverflow(h) <=> h = <<"overflow", i>>
  <2> SUFFICES ASSUME kind[t] = "overflow" PROVE \E i : \A h : atOverflow(h) <=> h = <<"overflow", i>>
    BY Zenon
  <2>1. PICK i \in DOMAIN overflow : overflow[i] = t /\ \A j \in DOMAIN overflow : overflow[j] = t => j = i
    BY <1>7, OnePlace, DequesDistinct
  <2>2. \A h : atOverflow(h) <=> h = <<"overflow", i>> BY <2>1, Zenon
  <2> QED BY <2>2, Zenon
<1>14. kind[t] = "waiters" => \E i : \A h : atWaiters(h) <=> h = <<"waiters", i>>
  <2> SUFFICES ASSUME kind[t] = "waiters" PROVE \E i : \A h : atWaiters(h) <=> h = <<"waiters", i>>
    BY Zenon
  <2>1. PICK i \in DOMAIN waiters : waiters[i] = t /\ \A j \in DOMAIN waiters : waiters[j] = t => j = i
    BY <1>6, OnePlace, WaitersDistinct
  <2>2. \A h : atWaiters(h) <=> h = <<"waiters", i>> BY <2>1, Zenon
  <2> QED BY <2>2
<1>15. kind[t] = "worker" => \E i : \A h : atWorker(h) <=> h = <<"worker", c, i>>
  <2> SUFFICES ASSUME kind[t] = "worker" PROVE \E i : \A h : atWorker(h) <=> h = <<"worker", c, i>>
    BY Zenon
  <2>1. PICK i \in DOMAIN worker[c] :
          worker[c][i] = t /\ \A j \in DOMAIN worker[c] : worker[c][j] = t => j = i
    BY <1>3, <1>7, OnePlace, DequesDistinct, Zenon
  <2>2. \A d \in Cpus : d # c => \A j \in DOMAIN worker[d] : worker[d][j] # t
    BY <1>7, NoPlace, DequesDistinct
  <2>3. \A h : atWorker(h) <=> h = <<"worker", c, i>> BY <1>3, <2>1, <2>2, Zenon
  <2> QED BY <2>3, Zenon
<1> HIDE DEF atCurrent, atOverflow, atWaiters, atWorker, c
<1>16. CASE kind[t] = "current"
  <2>2. Only(Holders(t), <<"current", c>>) BY <1>16, <1>4, <1>6, <1>9, <1>10, <1>11, <1>12 DEF Only
  <2> QED BY <2>2
<1>17. CASE kind[t] = "worker"
  <2>1. PICK i : \A h : atWorker(h) <=> h = <<"worker", c, i>> BY <1>17, <1>15
  <2>2. Only(Holders(t), <<"worker", c, i>>) BY <1>17, <1>4, <1>6, <1>8, <1>9, <1>10, <2>1 DEF Only
  <2> QED BY <2>2
<1>18. CASE kind[t] = "overflow"
  <2>1. PICK i : \A h : atOverflow(h) <=> h = <<"overflow", i>> BY <1>18, <1>13
  <2>2. Only(Holders(t), <<"overflow", i>>) BY <1>18, <1>4, <1>6, <1>8, <1>10, <1>11, <2>1 DEF Only
  <2> QED BY <2>2
<1>19. CASE kind[t] = "waiters"
  <2>1. PICK i : \A h : atWaiters(h) <=> h = <<"waiters", i>> BY <1>19, <1>14
  <2>2. Only(Holders(t), <<"waiters", i>>) BY <1>19, <1>4, <1>6, <1>8, <1>9, <1>11, <2>1 DEF Only
  <2> QED BY <2>2
<1>20. CASE kind[t] = "sleeping"
  <2>2. Only(Holders(t), <<"sleeping">>) BY <1>20, <1>4, <1>6, <1>8, <1>9, <1>10, <1>11 DEF Only
  <2> QED BY <2>2
<1>21. CASE kind[t] = "zombies"
  <2>2. Only(Holders(t), <<"zombies">>) BY <1>21, <1>4, <1>6, <1>8, <1>9, <1>10, <1>11 DEF Only
  <2> QED BY <2>2
<1>22. CASE kind[t] = "dropped"
  <2>2. Only(Holders(t), <<"dropped">>) BY <1>22, <1>4, <1>6, <1>8, <1>9, <1>10, <1>11 DEF Only
  <2> QED BY <2>2
<1> QED BY <1>2, <1>16, <1>17, <1>18, <1>19, <1>20, <1>21, <1>22 DEF Kinds

\* A spawned task is in one place, for any number of CPUs and tasks, every capacity of the
\* deques and all signals.
THEOREM OneHome == Spec => []HeldOnce
<1>1. IInv => HeldOnce
  <2> SUFFICES ASSUME IInv, NEW t \in Tasks, state[t] # "New"
               PROVE  \E h \in Holders(t) : Holders(t) = {h}
    BY DEF HeldOnce
  <2> DEFINE H == Holders(t)
  <2>1. PICK x : Only(H, x) BY OneHolder
  <2> HIDE DEF H
  <2>2. x \in H /\ H = {x} BY <2>1 DEF Only
  <2> QED BY <2>2 DEF H
<1> QED BY <1>1, SpecIInv, PTL

-----------------------------------------------------------------------------
(* The saved contexts of a single CPU. *)

\* schedule() has put the current task away and has not switched yet.
Switching == {"pick", "local", "switch"}

\* From PutAway to switch_context the CPU is on the stack that old_context_ptr belongs to,
\* otherwise on its thread's; every thread but the running one has stopped where its
\* context says.
OwnContexts ==
    \A c \in Cpus :
        /\ pc[c] \notin Switching => flow[c] = Thread(c)
        /\ pc[c] \in Switching => flow[c] = old[c]
        /\ \A x \in Threads : saved[x] = x /\ (x # flow[c] => x \in fresh)

\* A step of CPU c that does not touch the contexts.
LEMMA ContextsKept ==
    ASSUME OwnContexts, NEW c \in Cpus, UNCHANGED contexts,
           \A d \in Cpus : d = c,
           \/ pc[c] \in Switching /\ pc'[c] \in Switching /\ old'[c] = old[c]
           \/ pc[c] \notin Switching /\ pc'[c] \notin Switching /\ current'[c] = current[c]
    PROVE  OwnContexts'
BY Zenon DEF OwnContexts, contexts, Thread

LEMMA PutAwayContexts ==
    ASSUME IInv, OwnContexts, NEW c \in Cpus, \A d \in Cpus : d = c, PutAway(c)
    PROVE  OwnContexts'
<1>1. PcType BY TypeParts DEF IInv
<1>2. pc'[c] = "pick" /\ pc[c] = "sched" /\ UNCHANGED <<flow, saved, fresh>>
  BY <1>1, Zenon DEF PutAway, goto, contexts, PcType
<1>3. old'[c] = Thread(c) BY <1>1, Zenon DEF PutAway, Thread, PcType
<1> QED BY <1>2, <1>3 DEF OwnContexts, Switching

LEMMA SwitchContexts ==
    ASSUME IInv, OwnContexts, NEW c \in Cpus, \A d \in Cpus : d = c, switch_context(c)
    PROVE  OwnContexts'
<1>1. RestType /\ PcType /\ ContextType BY TypeParts DEF IInv
<1> DEFINE new == Thread(c)
<1>2. old[c] \in Threads /\ new \in Threads BY <1>1 DEF PcType, RestType, Thread, Threads
<1>3. pc[c] = "switch" /\ pc'[c] = "run" /\ current' = current
  BY <1>1, Zenon DEF switch_context, PcType, goto
<1>4. flow[c] = old[c] /\ \A x \in Threads : saved[x] = x /\ (x # flow[c] => x \in fresh)
  BY <1>3, Zenon DEF OwnContexts, Switching
<1>5. flow'[c] = new /\ \A x \in Threads : saved'[x] = x /\ (x # new => x \in fresh')
  <2>1. CASE old[c] = new
    <3>1. UNCHANGED <<flow, saved, fresh>> BY <2>1, Zenon DEF switch_context, contexts
    <3> QED BY <1>4, <2>1, <3>1, Zenon
  <2>2. CASE old[c] # new
    <3>1. /\ saved' = [saved EXCEPT ![old[c]] = flow[c]]
          /\ flow' = [flow EXCEPT ![c] = saved'[new]]
          /\ fresh' = (fresh \cup {old[c]}) \ {new}
      BY <2>2, Zenon DEF switch_context
    <3>2. \A x \in Threads : saved'[x] = x BY <1>1, <1>2, <1>4, <3>1 DEF ContextType
    <3>3. flow'[c] = new BY <1>1, <1>2, <3>1, <3>2, Zenon DEF ContextType
    <3> QED BY <1>4, <3>1, <3>2, <3>3
  <2> QED BY <2>1, <2>2, Zenon
<1>6. Thread(c)' = new BY <1>3, Zenon DEF Thread
<1> HIDE DEF new
<1> QED BY <1>3, <1>5, <1>6, Zenon DEF OwnContexts, Switching

LEMMA NextContexts ==
    ASSUME \A c, d \in Cpus : c = d, Sleepers = {}, IInv, OwnContexts, [Next]_vars
    PROVE  OwnContexts'
<1>1. RestType /\ PcType BY TypeParts DEF IInv
<1>2. PICK c \in Cpus : \A d \in Cpus : d = c BY SchedulerAssumption
<1>3. ASSUME UNCHANGED contexts, UNCHANGED <<pc, old, current>> PROVE OwnContexts'
  BY <1>2, <1>3, ContextsKept
<1>4. ASSUME NEW t \in Tasks, NEW d \in Cpus, Spawn(t, d) \/ WakeSleeping(t, d) PROVE OwnContexts'
  BY <1>3, <1>4, Zenon DEF Spawn, WakeSleeping
<1>5. ASSUME NEW d \in Cpus, WakeOne(d) \/ WakeAll(d) PROVE OwnContexts'
  BY <1>3, <1>5 DEF WakeOne, WakeAll
<1>6. ASSUME NEW t \in Tasks, send_signal(t) PROVE OwnContexts'
  BY <1>3, <1>6 DEF send_signal
<1>7. ASSUME UNCHANGED contexts, UNCHANGED current, NEW l, goto(c, l), l \notin Switching,
             pc[c] \notin Switching
      PROVE  OwnContexts'
  <2>1. pc'[c] = l BY <1>1, <1>7 DEF goto, PcType
  <2> QED BY <1>2, <1>7, <2>1, ContextsKept, Zenon
<1>8. CASE Call(c)
  <2> USE DEF Switching
  <2>1. CASE sleep(c) BY <1>7, <2>1, ZenonT(30) DEF sleep, leave
  <2>2. CASE exit(c) BY <1>7, <2>2, Zenon DEF exit
  <2>3. CASE block_current_task_vfork(c) BY <1>7, <2>3, Zenon DEF block_current_task_vfork
  <2>4. CASE WaitSleep(c) BY <2>4 DEF WaitSleep
  <2>5. CASE KillWrite(c)
    <3>1. pc[c] \in {"kill", "stop", "cont"} /\ goto(c, "run") /\ UNCHANGED <<current, contexts>>
      BY <2>5, Zenon DEF KillWrite
    <3> QED BY <1>7, <3>1
  <2>6. ASSUME NEW t \in Tasks, NEW d \in Cpus, vfork(c, t, d) PROVE OwnContexts'
    BY <1>7, <2>6, Zenon DEF vfork
  <2>7. ASSUME NEW t \in Tasks, NEW s \in Signals, kill_task(c, t, s) PROVE OwnContexts'
    <3>1. s \notin Switching BY SchedulerAssumption, Zenon
    <3> QED BY <1>7, <2>7, <3>1, Zenon DEF kill_task
  <2> QED BY <1>8, <2>1, <2>2, <2>3, <2>4, <2>5, <2>6, <2>7 DEF Call
<1>9. ASSUME UNCHANGED contexts, UNCHANGED old, NEW l \in Switching, goto(c, l), picking(c)
      PROVE  OwnContexts'
  <2>1. pc'[c] = l /\ pc[c] \in Switching BY <1>1, <1>9 DEF goto, PcType, picking, Switching
  <2> QED BY <1>2, <1>9, <2>1, ContextsKept
<1>10. ASSUME NEW t, dispatch(c, t), picking(c) PROVE OwnContexts'
  BY <1>9, <1>10 DEF dispatch, Switching
<1>11. CASE Schedule(c)
  <2>1. CASE PutAway(c) BY <1>2, <2>1, PutAwayContexts
  <2>2. CASE take_committed_policy_task(c)
    BY <1>10, <2>2, Zenon DEF take_committed_policy_task, picking
  <2>3. CASE PolicyMiss(c) BY <1>9, <2>3 DEF PolicyMiss, picking, Switching
  <2>4. CASE PopLocal(c) BY <1>10, <2>4 DEF PopLocal
  <2>5. CASE PopOverflow(c) BY <1>10, <2>5 DEF PopOverflow
  <2>6. ASSUME NEW v \in Cpus, StealFrom(c, v) PROVE OwnContexts'
    BY <1>10, <2>6, Zenon DEF StealFrom
  <2>7. CASE GoIdle(c) BY <1>9, <2>7, Zenon DEF GoIdle, Switching
  <2>8. CASE switch_context(c) BY <1>2, <2>8, SwitchContexts
  <2> QED BY <1>11, <2>1, <2>2, <2>3, <2>4, <2>5, <2>6, <2>7, <2>8 DEF Schedule
<1>12. CASE Yield(c) \/ idle_loop(c) BY <1>7, <1>12, Zenon DEF Yield, idle_loop, Switching
<1>13. CASE tick(c) BY <1>3, <1>13 DEF tick
<1>14. CASE set_stealable_bit(c) BY <1>7, <1>14, Zenon DEF set_stealable_bit, Switching
<1>15. ASSUME NEW v \in Cpus, choose_victim_cpu(c, v) PROVE OwnContexts'
  BY <1>7, <1>15, Zenon DEF choose_victim_cpu, Switching
<1>16. CASE UNCHANGED vars BY <1>3, <1>16, Zenon DEF vars
<1> QED BY <1>2, <1>4, <1>5, <1>6, <1>8, <1>11, <1>12, <1>13, <1>14, <1>15, <1>16 DEF Next

LEMMA InitContexts ==
    ASSUME \A c, d \in Cpus : c = d
    PROVE  Init => OwnContexts
<1> SUFFICES ASSUME Init, NEW c \in Cpus
             PROVE  /\ pc[c] \notin Switching /\ flow[c] = Thread(c)
                    /\ \A x \in Threads : saved[x] = x /\ (x # flow[c] => x \in fresh)
  BY Zenon DEF OwnContexts
<1>1. pc[c] = "run" /\ current[c] = NoTask /\ flow[c] = c BY DEF Init
<1>2. ASSUME NEW x \in Threads PROVE saved[x] = x /\ (x # c => x \in fresh)
  BY <1>2 DEF Init, Threads
<1> QED BY <1>1, <1>2 DEF Thread, Switching

LEMMA SpecContexts ==
    ASSUME \A c, d \in Cpus : c = d, Sleepers = {}
    PROVE  Spec => [](IInv /\ OwnContexts)
<1>1. Init => IInv /\ OwnContexts BY InitIInv, InitContexts
<1>2. (IInv /\ OwnContexts) /\ [Next]_vars => (IInv /\ OwnContexts)' BY NextIInv, NextContexts
<1> QED BY <1>1, <1>2, PTL DEF Spec

\* On one CPU, whose tasks block on no WaitQueue, the thread that runs is the one
\* PER_CPU_CURRENT_TASK names.
THEOREM RunsCurrent ==
    ASSUME \A c, d \in Cpus : c = d, Sleepers = {}
    PROVE  Spec => []RunsItsCurrent
<1>1. OwnContexts => RunsItsCurrent BY DEF OwnContexts, RunsItsCurrent, Switching
<1> QED BY <1>1, SpecContexts, PTL

\* On such a CPU switch_context resumes every thread where it last stopped.
THEOREM ResumesThreads ==
    ASSUME \A c, d \in Cpus : c = d, Sleepers = {}
    PROVE  Spec => ResumesWhereItStopped
<1> DEFINE Resumed ==
      \A c \in Cpus :
        pc[c] = "switch" /\ pc'[c] = "run" /\ old[c] # Thread(c)
          => Thread(c) \in fresh /\ saved[Thread(c)] = Thread(c)
<1>1. IInv /\ OwnContexts => Resumed
  <2> SUFFICES ASSUME IInv, OwnContexts, NEW c \in Cpus, pc[c] = "switch", old[c] # Thread(c)
               PROVE  Thread(c) \in fresh /\ saved[Thread(c)] = Thread(c)
    BY Zenon
  <2>1. Thread(c) \in Threads BY Zenon DEF IInv, TypeOK, Thread, Threads
  <2>2. flow[c] = old[c] BY DEF OwnContexts, Switching
  <2> QED BY <2>1, <2>2, Zenon DEF OwnContexts
<1>2. Spec => [](IInv /\ OwnContexts) BY SpecContexts
<1>3. IInv /\ OwnContexts => [Resumed]_vars BY <1>1
<1> HIDE DEF Resumed
<1>4. Spec => [][Resumed]_vars BY <1>2, <1>3, PTL
<1> QED BY <1>4, Zenon DEF Resumed, ResumesWhereItStopped

=============================================================================
