------------------------- MODULE SleepClock_proofs -------------------------
(***************************************************************************)
(* Proofs about the timing wheel and the clock that turns it, for any      *)
(* number of tasks and CPUs, any WHEEL_SIZE from 2 and any sleeping times. *)
(* Every sleeper is in one bucket, and the wheels reach that bucket in     *)
(* time (InTime): a slot of wheel 0 is emptied when the task is due, one   *)
(* of a slower wheel is cascaded before.                                   *)
(***************************************************************************)
EXTENDS SleepClock, FiniteSetTheorems, TLAPS

W == WHEEL_SIZE

\* Division by the span p of a slot.
LEMMA Divided ==
  ASSUME NEW p \in Nat \ {0}, NEW n \in Nat
  PROVE  n \div p \in Nat /\ n % p \in 0 .. p - 1 /\ n = p * (n \div p) + (n % p)
OBVIOUS

\* Within p consecutive ticks every tick has a slot of its own.
LEMMA OwnSlot ==
  ASSUME NEW p \in Nat \ {0}, NEW n \in Nat, NEW m \in Nat, n < m, m - n < p
  PROVE  n % p # m % p
<1> SUFFICES ASSUME n % p = m % p PROVE FALSE OBVIOUS
<1> DEFINE q == n \div p
           r == m \div p
<1>1. q \in Nat /\ n = p * q + (n % p) BY Divided, Zenon
<1>2. r \in Nat /\ m = p * r + (m % p) BY Divided, Zenon
<1> HIDE DEF q, r
<1>3. CASE r <= q
  <2>1. p * r <= p * q BY <1>1, <1>2, <1>3
  <2> QED BY <1>1, <1>2, <2>1
<1>4. CASE r >= q + 1
  <2>1. p * r >= p * (q + 1) /\ p * (q + 1) = p * q + p BY <1>1, <1>2, <1>4
  <2> QED BY <1>1, <1>2, <2>1
<1> QED BY <1>1, <1>2, <1>3, <1>4

\* a is the quotient that its bounds say.
LEMMA Quotient ==
  ASSUME NEW p \in Nat \ {0}, NEW n \in Nat, NEW a \in Nat, p * a <= n, n < p * (a + 1)
  PROVE  n \div p = a
<1> DEFINE q == n \div p
<1>1. q \in Nat /\ n % p \in 0 .. p - 1 /\ n = p * q + (n % p) BY Divided, Zenon
<1> HIDE DEF q
<1>2. p * q < p * (a + 1) /\ p * a < p * (q + 1)
  <2>1. p * (q + 1) = p * q + p BY <1>1
  <2> QED BY <1>1, <2>1
<1>3. q < a + 1
  <2> SUFFICES ASSUME q >= a + 1 PROVE FALSE BY <1>1
  <2>1. p * q >= p * (a + 1) BY <1>1
  <2> QED BY <1>1, <1>2, <2>1
<1>4. a < q + 1
  <2> SUFFICES ASSUME a >= q + 1 PROVE FALSE BY <1>1
  <2>1. p * a >= p * (q + 1) BY <1>1
  <2> QED BY <1>1, <1>2, <2>1
<1> QED BY <1>1, <1>3, <1>4 DEF q

\* Whoever is at least p ahead is in a later slot; whoever is less than p * k ahead is at
\* most k slots ahead.
LEMMA SlotsAhead ==
  ASSUME NEW p \in Nat \ {0}, NEW n \in Nat, NEW m \in Nat
  PROVE  /\ n + p <= m => n \div p < m \div p
         /\ \A k \in Nat : m < n + p * k => m \div p <= (n \div p) + k
<1> DEFINE q == n \div p
           r == m \div p
<1>1. q \in Nat /\ n % p \in 0 .. p - 1 /\ n = p * q + (n % p) BY Divided, Zenon
<1>2. r \in Nat /\ m % p \in 0 .. p - 1 /\ m = p * r + (m % p) BY Divided, Zenon
<1> HIDE DEF q, r
<1>3. ASSUME n + p <= m, r <= q PROVE FALSE
  <2>1. p * r <= p * q BY <1>1, <1>2, <1>3
  <2> QED BY <1>1, <1>2, <1>3, <2>1
<1>4. ASSUME NEW k \in Nat, m < n + p * k, r >= q + k + 1 PROVE FALSE
  <2>1. p * r >= p * (q + k + 1) BY <1>1, <1>2, <1>4
  <2>2. p * (q + k + 1) = p * q + p * k + p BY <1>1, <1>4
  <2>3. p * k \in Nat /\ p * q \in Nat /\ p * r \in Nat BY <1>1, <1>2
  <2> QED BY <1>1, <1>2, <1>4, <2>1, <2>2, <2>3
<1>5. n + p <= m => q < r BY <1>1, <1>2, <1>3
<1>6. \A k \in Nat : m < n + p * k => r <= q + k BY <1>1, <1>2, <1>4
<1> QED BY <1>5, <1>6 DEF q, r

\* The slot changes when the next tick is a multiple of p, and only then.
LEMMA NextSlot ==
  ASSUME NEW p \in Nat \ {0}, NEW n \in Nat, NEW m \in Nat, m = n + 1
  PROVE  /\ m % p # 0 => m \div p = n \div p
         /\ m % p = 0 => m \div p = (n \div p) + 1 /\ m = p * (m \div p)
<1> DEFINE q == n \div p
           r == m \div p
<1>1. q \in Nat /\ n % p \in 0 .. p - 1 /\ n = p * q + (n % p) BY Divided, Zenon
<1>2. r \in Nat /\ m % p \in 0 .. p - 1 /\ m = p * r + (m % p) BY Divided, Zenon
<1>3. CASE n % p = p - 1
  <2> DEFINE a == q + 1
  <2>1. a \in Nat /\ m = p * a /\ p * a < p * (a + 1)
    <3>1. p * a = p * q + p /\ p * (a + 1) = p * q + p + p BY <1>1
    <3> QED BY <1>1, <1>3, <3>1
  <2> HIDE DEF a
  <2>2. r = a BY <2>1, Quotient
  <2>3. m % p = 0 BY <1>1, <1>2, <2>1, <2>2
  <2> QED BY <2>1, <2>2, <2>3 DEF a
<1>4. CASE n % p < p - 1
  <2>1. p * q <= m /\ m < p * (q + 1) /\ m # p * q
    <3>1. p * (q + 1) = p * q + p /\ p * q \in Nat BY <1>1
    <3> QED BY <1>1, <1>4, <3>1
  <2>2. r = q BY <1>1, <2>1, Quotient, Zenon
  <2>3. m % p # 0 BY <1>1, <1>2, <2>1, <2>2
  <2> QED BY <2>2, <2>3
<1> QED BY <1>1, <1>3, <1>4

-----------------------------------------------------------------------------
(* When a bucket is emptied *)

span(l) == Wheel!span(l)
Buckets == Wheel!Buckets

\* The bucket b is reached in time for a task that is to wake up at wake and was put to
\* sleep at slept, when the wheels are at now.  In wheel 0 the slot is emptied at e; in a
\* slower one it is cascaded before wake.
Timed(b, wake, slept, now) ==
  /\ b \in Buckets
  /\ b[1] = 0 =>
       \E e \in Nat : /\ e % W = b[2] /\ now <= e /\ e < now + W
                      /\ wake <= e /\ e <= Wheel!Later(wake, slept + 1) + 1
  /\ b[1] # 0 =>
       /\ b[2] = (wake \div span(b[1])) % W
       /\ now \div span(b[1]) < wake \div span(b[1])
       /\ b[1] < 3 => wake \div span(b[1]) <= (now \div span(b[1])) + W

\* The turn of wheel b[1] at now empties b.
Hit(b, now) == b[1] # 0 /\ now % span(b[1]) = 0 /\ b[2] = (now \div span(b[1])) % W

\* What ClockAssumption says of the size.
LEMMA WheelSize == W \in Nat /\ W >= 2 /\ W \in Nat \ {0}
BY ClockAssumption DEF W

\* A slot of each wheel lasts as long as a turn of the faster one.
LEMMA Spans ==
  /\ span(0) = 1 /\ span(1) = W /\ span(2) = W * W /\ span(3) = W * W * W
  /\ \A l \in 0 .. 3 : span(l) \in Nat \ {0}
  /\ \A l \in 0 .. 2 : span(l + 1) = span(l) * W
<1>1. span(0) = 1 /\ span(1) = W /\ span(2) = W * W /\ span(3) = W * W * W
  BY DEF span, Wheel!span, W
<1>2. W * W \in Nat \ {0} BY WheelSize
<1>3. W * W * W \in Nat \ {0} BY WheelSize, <1>2
<1>4. \A l \in 0 .. 3 : l = 0 \/ l = 1 \/ l = 2 \/ l = 3 OBVIOUS
<1>5. \A l \in 0 .. 3 : span(l) \in Nat \ {0} BY <1>1, <1>2, <1>3, <1>4, WheelSize
<1>6. \A l \in 0 .. 2 : span(l + 1) = span(l) * W BY <1>1, WheelSize
<1> QED BY <1>1, <1>5, <1>6

\* The mask of a number is a slot.
LEMMA Slot ==
  ASSUME NEW n \in Nat
  PROVE  n % W \in Wheel!Slots
BY Divided, WheelSize DEF Wheel!Slots, W

\* Where schedule() and cascade() look in wheel l.
LEMMA IndexIs ==
  ASSUME NEW n \in Nat, NEW l \in 0 .. 3
  PROVE  Wheel!index(n, l) = (n \div span(l)) % W /\ <<l, Wheel!index(n, l)>> \in Buckets
<1>1. Wheel!index(n, l) = (n \div span(l)) % W BY DEF Wheel!index, span, W
<1>2. (n \div span(l)) \in Nat BY Spans, Divided, Zenon
<1>3. (n \div span(l)) % W \in Wheel!Slots BY <1>2, Slot
<1> QED BY <1>1, <1>3 DEF Buckets, Wheel!Buckets

\* A task put into the wheel at now, at first or by a cascade.
LEMMA PutInTime ==
  ASSUME NEW wake \in Nat, NEW slept \in Nat, NEW now \in Nat,
         wake <= now => now <= Wheel!Later(wake, slept + 1)
  PROVE  Timed(Wheel!bucket(wake, now), wake, slept, now)
<1> DEFINE b == Wheel!bucket(wake, now)
<1>1. CASE wake <= now
  <2>1. b = <<0, (now + 1) % W>> BY <1>1 DEF Wheel!bucket, W
  <2>2. now + 1 \in Nat /\ (now + 1) % W \in Wheel!Slots BY Slot
  <2>3. b \in Buckets BY <2>1, <2>2 DEF Buckets, Wheel!Buckets
  <2>4. now + 1 <= Wheel!Later(wake, slept + 1) + 1 BY <1>1 DEF Wheel!Later
  <2> QED BY <1>1, <2>1, <2>2, <2>3, <2>4, WheelSize DEF Timed
<1>2. CASE wake > now /\ wake - now < W
  <2>1. b = <<0, wake % W>>
    <3>1. b = <<0, Wheel!index(wake, 0)>> BY <1>2, WheelSize DEF Wheel!bucket, Wheel!span, W
    <3>2. 0 \in 0 .. 3 /\ wake \div 1 = wake OBVIOUS
    <3>3. Wheel!index(wake, 0) = (wake \div span(0)) % W BY <3>2, IndexIs, Zenon
    <3> QED BY <3>1, <3>2, <3>3, Spans, Zenon
  <2>2. b \in Buckets BY <2>1, Slot DEF Buckets, Wheel!Buckets
  <2>3. wake <= Wheel!Later(wake, slept + 1) + 1 BY DEF Wheel!Later
  <2> QED BY <1>2, <2>1, <2>2, <2>3, WheelSize DEF Timed
<1>3. ASSUME NEW l \in 1 .. 3, b = <<l, Wheel!index(wake, l)>>, now + span(l) <= wake,
             l < 3 => wake < now + span(l) * W
      PROVE  Timed(b, wake, slept, now)
  <2> HIDE DEF b
  <2>1. span(l) \in Nat \ {0} BY Spans
  <2>2. now \div span(l) < wake \div span(l) BY <1>3, <2>1, SlotsAhead
  <2>3. l < 3 => wake \div span(l) <= (now \div span(l)) + W BY <1>3, <2>1, SlotsAhead, WheelSize
  <2>4. Wheel!index(wake, l) = (wake \div span(l)) % W /\ <<l, Wheel!index(wake, l)>> \in Buckets
    <3>1. l \in 0 .. 3 OBVIOUS
    <3> QED BY <3>1, IndexIs, Zenon
  <2>5. b \in Buckets /\ b[1] = l /\ b[2] = (wake \div span(l)) % W BY <1>3, <2>4
  <2> QED BY <2>2, <2>3, <2>5 DEF Timed
<1>4. CASE wake - now >= W
  <2>1. wake > now BY <1>4, WheelSize
  <2>2. CASE wake - now < W * W
    <3>1. b = <<1, Wheel!index(wake, 1)>> BY <1>4, <2>1, <2>2, Spans DEF Wheel!bucket, span
    <3> QED BY <1>3, <1>4, <2>2, <3>1, Spans, WheelSize
  <2>3. CASE wake - now >= W * W /\ wake - now < W * W * W
    <3>1. b = <<2, Wheel!index(wake, 2)>> BY <1>4, <2>1, <2>3, Spans DEF Wheel!bucket, span
    <3> QED BY <1>3, <2>3, <3>1, Spans, WheelSize
  <2>4. CASE wake - now >= W * W /\ wake - now >= W * W * W
    <3>1. b = <<3, Wheel!index(wake, 3)>> BY <1>4, <2>1, <2>4, Spans DEF Wheel!bucket, span
    <3> QED BY <1>3, <2>4, <3>1, Spans, WheelSize
  <2>5. W * W \in Nat /\ W * W * W \in Nat BY Spans
  <2> QED BY <2>2, <2>3, <2>4, <2>5
<1> QED BY <1>1, <1>2, <1>4, WheelSize

\* The wheels go on from now to next.  A bucket that is not emptied is still in time.
LEMMA StaysInTime ==
  ASSUME NEW wake \in Nat, NEW slept \in Nat, NEW now \in Nat, NEW next \in Nat, next = now + 1,
         NEW b, Timed(b, wake, slept, now), b # <<0, now % W>>, ~ Hit(b, next)
  PROVE  Timed(b, wake, slept, next)
<1>1. b \in Buckets BY DEF Timed
<1>2. PICK l \in 0 .. 3, s \in Wheel!Slots : b = <<l, s>> BY <1>1 DEF Buckets, Wheel!Buckets
<1>3. b[1] = l /\ b[2] = s BY <1>2
<1>4. CASE l = 0
  <2>1. PICK e \in Nat : /\ e % W = b[2] /\ now <= e /\ e < now + W
                         /\ wake <= e /\ e <= Wheel!Later(wake, slept + 1) + 1
    BY <1>3, <1>4 DEF Timed
  <2>2. e # now BY <1>2, <1>3, <1>4, <2>1
  <2>3. next <= e /\ e < next + W BY <2>1, <2>2, WheelSize
  <2> QED BY <1>1, <1>3, <1>4, <2>1, <2>3, Zenon DEF Timed
<1>5. CASE l # 0
  <2> DEFINE p == span(l)
             q == wake \div p
             n == now \div p
             m == next \div p
  <2>1. p \in Nat \ {0} BY Spans
  <2> HIDE DEF p
  <2>2. q \in Nat /\ n \in Nat /\ m \in Nat BY <2>1, Divided, Zenon
  <2>3. s = q % W /\ n < q /\ (l < 3 => q <= n + W) BY <1>3, <1>5 DEF Timed, p
  <2>4. next % p # 0 \/ s # m % W BY <1>3, <1>5 DEF Hit, p
  <2>5. (next % p # 0 => m = n) /\ (next % p = 0 => m = n + 1) BY <2>1, NextSlot, Zenon
  <2> HIDE DEF q, n, m
  <2>6. m < q /\ (l < 3 => q <= m + W) BY <2>2, <2>3, <2>4, <2>5, WheelSize
  <2> QED BY <1>1, <1>3, <1>5, <2>3, <2>6 DEF Timed, p, q, n, m
<1> QED BY <1>4, <1>5

\* A bucket of a slower wheel that is cascaded at next: the task is due at next or later,
\* and soon enough to go into a faster wheel, but for the slowest.
LEMMA HitInTime ==
  ASSUME NEW wake \in Nat, NEW slept \in Nat, NEW now \in Nat, NEW next \in Nat, next = now + 1,
         NEW b, Timed(b, wake, slept, now), Hit(b, next)
  PROVE  next <= wake /\ (b[1] < 3 => wake < next + span(b[1]))
<1>1. b \in Buckets BY DEF Timed
<1>2. PICK l \in 0 .. 3, s \in Wheel!Slots : b = <<l, s>> BY <1>1 DEF Buckets, Wheel!Buckets
<1>3. b[1] = l /\ b[2] = s /\ l # 0 BY <1>2 DEF Hit
<1> DEFINE p == span(l)
           q == wake \div p
           n == now \div p
           m == next \div p
<1>4. p \in Nat \ {0} BY Spans
<1> HIDE DEF p
<1>5. q \in Nat /\ n \in Nat /\ m \in Nat /\ wake % p \in 0 .. p - 1 /\ wake = p * q + (wake % p)
  BY <1>4, Divided, Zenon
<1>6. s = q % W /\ n < q /\ (l < 3 => q <= n + W) BY <1>3 DEF Timed, p
<1>7. next % p = 0 /\ s = m % W BY <1>3 DEF Hit, p
<1>8. m = n + 1 /\ next = p * m BY <1>4, <1>7, NextSlot, Zenon
<1> HIDE DEF q, n, m
<1>9. m <= q BY <1>5, <1>6, <1>8
<1>10. next <= wake
  <2>1. p * m <= p * q BY <1>4, <1>5, <1>9
  <2> QED BY <1>4, <1>5, <1>8, <2>1
<1>11. ASSUME l < 3 PROVE wake < next + p
  <2>1. q = m
    <3> SUFFICES ASSUME m < q PROVE FALSE BY <1>5, <1>9
    <3>1. q - m < W BY <1>5, <1>6, <1>8, <1>11, WheelSize
    <3> QED BY <1>5, <1>6, <1>7, <3>1, OwnSlot, WheelSize, Zenon
  <2> QED BY <1>4, <1>5, <1>8, <2>1
<1> QED BY <1>3, <1>10, <1>11 DEF p

-----------------------------------------------------------------------------
(* A task goes from bucket to bucket independently of the others. *)

WheelType(w) == w \in [Buckets -> [Tasks -> Nat]]

\* In the wheels w the task x is in b, once, and nowhere else.
At(w, x, b) == \A a \in Buckets : w[a][x] = IF a = b THEN 1 ELSE 0

Out(w, x) == \A a \in Buckets : w[a][x] = 0

\* The bucket x is in after the turn of wheel l, if it was in b before.
After(b, l, x, now) == IF b[1] = l /\ Hit(b, now) THEN Wheel!bucket(wake_tick[x], now) ELSE b

\* Emptying a bucket takes the task in it, and no other, to the bucket of its time.
LEMMA Moves ==
  ASSUME NEW w, WheelType(w), NEW x \in Tasks, NEW from \in Buckets, NEW now \in Nat,
         Wheel!bucket(wake_tick[x], now) \in Buckets
  PROVE  /\ \A b \in Buckets : At(w, x, b) =>
              At(Wheel!moved(w, from, now), x, IF b = from THEN Wheel!bucket(wake_tick[x], now) ELSE b)
         /\ Out(w, x) => Out(Wheel!moved(w, from, now), x)
<1> DEFINE t == Wheel!bucket(wake_tick[x], now)
           m == Wheel!moved(w, from, now)
<1>1. \A a \in Buckets : m[a][x] = (IF a = from THEN 0 ELSE w[a][x]) + (IF a = t THEN w[from][x] ELSE 0)
  BY DEF Wheel!moved, Buckets
<1> HIDE DEF t, m
<1>2. ASSUME NEW b \in Buckets, At(w, x, b) PROVE At(m, x, IF b = from THEN t ELSE b)
  BY <1>1, <1>2 DEF At
<1>3. Out(w, x) => Out(m, x) BY <1>1 DEF Out
<1> QED BY <1>2, <1>3 DEF t, m

\* A bucket counts its tasks, after a move too.
LEMMA MovedType ==
  ASSUME NEW w, WheelType(w), NEW from \in Buckets, NEW now
  PROVE  WheelType(Wheel!moved(w, from, now))
BY DEF WheelType, Wheel!moved, Buckets

\* The same for a turn of one wheel.
LEMMA TurnType ==
  ASSUME NEW w, WheelType(w), NEW l \in 1 .. 3, NEW now \in Nat
  PROVE  WheelType(Wheel!Turn(w, l, now))
<1>1. l \in 0 .. 3 OBVIOUS
<1>2. <<l, Wheel!index(now, l)>> \in Buckets BY <1>1, IndexIs, Zenon
<1>3. Wheel!Turn(w, l, now) \in {w, Wheel!moved(w, <<l, Wheel!index(now, l)>>, now)}
  BY DEF Wheel!Turn, Wheel!cascade
<1> QED BY <1>2, <1>3, MovedType

\* A turn of wheel l takes the tasks of the slot it reaches, and no other.
LEMMA TurnMoves ==
  ASSUME NEW w, WheelType(w), NEW x \in Tasks, NEW l \in 1 .. 3, NEW now \in Nat,
         Wheel!bucket(wake_tick[x], now) \in Buckets
  PROVE  /\ \A b \in Buckets : At(w, x, b) => At(Wheel!Turn(w, l, now), x, After(b, l, x, now))
         /\ Out(w, x) => Out(Wheel!Turn(w, l, now), x)
<1> DEFINE from == <<l, Wheel!index(now, l)>>
<1>1. l \in 0 .. 3 OBVIOUS
<1>2. from \in Buckets /\ Wheel!index(now, l) = (now \div span(l)) % W BY <1>1, IndexIs, Zenon
<1>3. Wheel!Turn(w, l, now) = IF now % span(l) = 0 THEN Wheel!moved(w, from, now) ELSE w
  BY DEF Wheel!Turn, Wheel!cascade, span
<1>4. ASSUME NEW b \in Buckets, now % span(l) = 0 PROVE (b = from) <=> (b[1] = l /\ Hit(b, now))
  <2>1. PICK k \in 0 .. 3, s \in Wheel!Slots : b = <<k, s>> BY DEF Buckets, Wheel!Buckets
  <2>2. b[1] = k /\ b[2] = s BY <2>1
  <2> QED BY <1>2, <1>4, <2>1, <2>2 DEF Hit
<1>5. CASE now % span(l) = 0
  <2> HIDE DEF from
  <2>1. Wheel!Turn(w, l, now) = Wheel!moved(w, from, now) BY <1>3, <1>5
  <2>2. Out(w, x) => Out(Wheel!Turn(w, l, now), x) BY <1>2, <2>1, Moves
  <2>3. ASSUME NEW b \in Buckets, At(w, x, b) PROVE At(Wheel!Turn(w, l, now), x, After(b, l, x, now))
    <3>1. At(Wheel!moved(w, from, now), x, IF b = from THEN Wheel!bucket(wake_tick[x], now) ELSE b)
      BY <1>2, <2>3, Moves
    <3>2. After(b, l, x, now) = IF b = from THEN Wheel!bucket(wake_tick[x], now) ELSE b
      BY <1>4, <1>5 DEF After
    <3> QED BY <2>1, <3>1, <3>2
  <2> QED BY <2>2, <2>3
<1>6. CASE now % span(l) # 0
  <2>1. Wheel!Turn(w, l, now) = w BY <1>3, <1>6
  <2>2. \A b \in Buckets : After(b, l, x, now) = b BY <1>6 DEF After, Hit
  <2> QED BY <2>1, <2>2
<1> QED BY <1>5, <1>6

\* The bucket schedule() chooses is one of the wheels', and faster than wheel k if the time
\* is less than a slot of wheel k away.
LEMMA BucketLevel ==
  ASSUME NEW wake \in Nat, NEW now \in Nat
  PROVE  /\ Wheel!bucket(wake, now) \in Buckets
         /\ \A k \in 1 .. 2 : wake < now + span(k) => Wheel!bucket(wake, now)[1] < k
<1>1. wake <= now => now <= Wheel!Later(wake, now + 1) BY DEF Wheel!Later
<1>2. Wheel!bucket(wake, now) \in Buckets BY <1>1, PutInTime DEF Timed
<1>3. ASSUME wake < now + span(1) PROVE Wheel!bucket(wake, now)[1] = 0
  BY <1>3, Spans, WheelSize DEF Wheel!bucket, span
<1>4. ASSUME wake < now + span(2) PROVE Wheel!bucket(wake, now)[1] \in {0, 1}
  BY <1>4, Spans DEF Wheel!bucket, span
<1>5. ASSUME NEW k \in 1 .. 2, wake < now + span(k) PROVE Wheel!bucket(wake, now)[1] < k
  BY <1>3, <1>4, <1>5
<1> QED BY <1>2, <1>5

\* What tick() leaves of the wheels.
Turned(w, now) == Wheel!Turn(Wheel!Turn(Wheel!Turn(w, 1, now), 2, now), 3, now)

\* The buckets keep their type.
LEMMA TurnedType ==
  ASSUME NEW w, WheelType(w), NEW now \in Nat
  PROVE  WheelType(Turned(w, now))
<1>1. WheelType(Wheel!Turn(w, 1, now)) BY TurnType
<1>2. WheelType(Wheel!Turn(Wheel!Turn(w, 1, now), 2, now)) BY <1>1, TurnType
<1> QED BY <1>2, TurnType DEF Turned

\* The three turns of a tick to next, one after the other: a task in time stays so.
LEMMA TurnedInTime ==
  ASSUME NEW w, WheelType(w), NEW x \in Tasks, NEW now \in Nat, NEW next \in Nat, next = now + 1,
         wake_tick \in [Tasks -> Nat], NEW slept \in Nat,
         NEW b \in Buckets, At(w, x, b), Timed(b, wake_tick[x], slept, now), b # <<0, now % W>>
  PROVE  \E c \in Buckets : At(Turned(w, next), x, c) /\ Timed(c, wake_tick[x], slept, next)
<1> DEFINE wake == wake_tick[x]
           t == Wheel!bucket(wake, next)
           w1 == Wheel!Turn(w, 1, next)
           w2 == Wheel!Turn(w1, 2, next)
<1>1. wake \in Nat /\ t \in Buckets BY BucketLevel
<1>2. WheelType(w1) BY TurnType
<1>3. WheelType(w2) BY <1>2, TurnType
<1>4. \A a \in Buckets :
        /\ At(w, x, a) => At(w1, x, After(a, 1, x, next))
        /\ At(w1, x, a) => At(w2, x, After(a, 2, x, next))
        /\ At(w2, x, a) => At(Turned(w, next), x, After(a, 3, x, next))
  BY <1>1, <1>2, <1>3, TurnMoves DEF Turned
<1>5. b[1] \in 0 .. 3 BY DEF Buckets, Wheel!Buckets
<1> HIDE DEF w1, w2
<1>6. CASE ~ Hit(b, next)
  <2>1. After(b, 1, x, next) = b /\ After(b, 2, x, next) = b /\ After(b, 3, x, next) = b
    BY <1>6 DEF After
  <2>2. At(w1, x, b) BY <1>4, <2>1, Zenon
  <2>3. At(w2, x, b) BY <1>4, <2>1, <2>2, Zenon
  <2>4. At(Turned(w, next), x, b) BY <1>4, <2>1, <2>3, Zenon
  <2>5. Timed(b, wake, slept, next) BY <1>1, <1>6, StaysInTime
  <2> QED BY <2>4, <2>5
<1>7. CASE Hit(b, next)
  <2>1. next <= wake /\ (b[1] < 3 => wake < next + span(b[1])) BY <1>1, <1>7, HitInTime
  <2>2. Timed(t, wake, slept, next) BY <1>1, <2>1, PutInTime DEF Wheel!Later
  <2>3. b[1] \in 1 .. 3 BY <1>5, <1>7 DEF Hit
  <2>4. b[1] < 3 => t[1] < b[1] BY <1>1, <2>1, <2>3, BucketLevel
  <2>5. t[1] \in 0 .. 3 BY <1>1 DEF Buckets, Wheel!Buckets
  <2>6. CASE b[1] = 1
    <3>1. After(b, 1, x, next) = t /\ After(t, 2, x, next) = t /\ After(t, 3, x, next) = t
      BY <1>7, <2>4, <2>5, <2>6 DEF After
    <3>2. At(w1, x, t) BY <1>4, <3>1, Zenon
    <3>3. At(w2, x, t) BY <1>1, <1>4, <3>1, <3>2, Zenon
    <3> QED BY <1>1, <1>4, <2>2, <3>1, <3>3, Zenon
  <2>7. CASE b[1] = 2
    <3>1. After(b, 1, x, next) = b /\ After(b, 2, x, next) = t /\ After(t, 3, x, next) = t
      BY <1>7, <2>4, <2>5, <2>7 DEF After
    <3>2. At(w1, x, b) BY <1>4, <3>1, Zenon
    <3>3. At(w2, x, t) BY <1>4, <3>1, <3>2, Zenon
    <3> QED BY <1>1, <1>4, <2>2, <3>1, <3>3, Zenon
  <2>8. CASE b[1] = 3
    <3>1. After(b, 1, x, next) = b /\ After(b, 2, x, next) = b /\ After(b, 3, x, next) = t
      BY <1>7, <2>8 DEF After
    <3>2. At(w1, x, b) BY <1>4, <3>1, Zenon
    <3>3. At(w2, x, b) BY <1>4, <3>1, <3>2, Zenon
    <3> QED BY <1>1, <1>4, <2>2, <3>1, <3>3, Zenon
  <2> QED BY <2>3, <2>6, <2>7, <2>8
<1> QED BY <1>6, <1>7

\* A task that is in no bucket stays out.
LEMMA TurnedOut ==
  ASSUME NEW w, WheelType(w), NEW x \in Tasks, NEW now \in Nat, wake_tick[x] \in Nat, Out(w, x)
  PROVE  Out(Turned(w, now), x)
<1>1. Wheel!bucket(wake_tick[x], now) \in Buckets BY BucketLevel
<1>2. WheelType(Wheel!Turn(w, 1, now)) /\ Out(Wheel!Turn(w, 1, now), x) BY <1>1, TurnType, TurnMoves
<1>3. /\ WheelType(Wheel!Turn(Wheel!Turn(w, 1, now), 2, now))
      /\ Out(Wheel!Turn(Wheel!Turn(w, 1, now), 2, now), x)
  BY <1>1, <1>2, TurnType, TurnMoves
<1> QED BY <1>1, <1>3, TurnMoves DEF Turned

-----------------------------------------------------------------------------
(* The wheels *)

WheelTypes ==
  /\ WheelType(wheels) /\ current_tick \in Nat /\ asleep \in SUBSET Tasks
  /\ wake_tick \in [Tasks -> Nat] /\ slept_at \in [Tasks -> Nat]

\* A sleeper is in one bucket, which is emptied in time; the others are in none.
InTime ==
  \A x \in Tasks :
    /\ x \in asleep =>
         \E b \in Buckets : At(wheels, x, b) /\ Timed(b, wake_tick[x], slept_at[x], current_tick)
    /\ x \notin asleep => Out(wheels, x)

\* schedule(): the new sleeper is put where it is reached in time, the others stay.
LEMMA ScheduleStep ==
  ASSUME WheelTypes, InTime, NEW x \in Tasks, NEW wake \in Nat, Wheel!Schedule(x, wake)
  PROVE  WheelTypes' /\ InTime'
<1> DEFINE b == Wheel!bucket(wake, current_tick)
<1>1. current_tick \in Nat BY DEF WheelTypes
<1>2. b \in Buckets BY <1>1, BucketLevel
<1>3. Timed(b, wake, current_tick, current_tick) BY <1>1, PutInTime DEF Wheel!Later
<1>4. /\ wheels' = [wheels EXCEPT ![b][x] = @ + 1] /\ x \notin asleep
      /\ wake_tick' = [wake_tick EXCEPT ![x] = wake]
      /\ slept_at' = [slept_at EXCEPT ![x] = current_tick]
      /\ asleep' = asleep \cup {x} /\ current_tick' = current_tick
  BY DEF Wheel!Schedule
<1> HIDE DEF b
<1>5. /\ WheelType(wheels')
      /\ \A a \in Buckets, y \in Tasks :
           wheels'[a][y] = IF a = b /\ y = x THEN wheels[a][y] + 1 ELSE wheels[a][y]
  BY <1>2, <1>4 DEF WheelTypes, WheelType
<1>6. /\ wake_tick' \in [Tasks -> Nat] /\ wake_tick'[x] = wake
      /\ slept_at' \in [Tasks -> Nat] /\ slept_at'[x] = current_tick
      /\ \A y \in Tasks \ {x} : wake_tick'[y] = wake_tick[y] /\ slept_at'[y] = slept_at[y]
  BY <1>1, <1>4 DEF WheelTypes
<1>7. WheelTypes' BY <1>4, <1>5, <1>6 DEF WheelTypes
<1>8. At(wheels', x, b)
  <2>1. \A a \in Buckets : wheels[a][x] = 0 BY <1>4 DEF InTime, Out
  <2> QED BY <1>2, <1>5, <2>1 DEF At
<1>9. ASSUME NEW y \in Tasks \ {x}
      PROVE  /\ \A a \in Buckets : At(wheels, y, a) => At(wheels', y, a)
             /\ Out(wheels, y) => Out(wheels', y)
  BY <1>5, <1>9 DEF At, Out
<1>10. ASSUME NEW y \in Tasks
       PROVE  /\ y \in asleep' => \E a \in Buckets : At(wheels', y, a) /\ Timed(a, wake_tick'[y], slept_at'[y], current_tick')
              /\ y \notin asleep' => Out(wheels', y)
  <2>1. CASE y = x BY <1>2, <1>3, <1>4, <1>6, <1>8, <2>1
  <2>2. CASE y # x
    <3>1. y \in asleep' <=> y \in asleep BY <1>4, <2>2
    <3>2. wake_tick'[y] = wake_tick[y] /\ slept_at'[y] = slept_at[y] BY <1>6, <2>2
    <3>3. CASE y \in asleep
      <4>1. PICK a \in Buckets : At(wheels, y, a) /\ Timed(a, wake_tick[y], slept_at[y], current_tick)
        BY <3>3 DEF InTime
      <4>2. At(wheels', y, a) BY <1>9, <2>2, <4>1
      <4> QED BY <1>4, <3>1, <3>2, <3>3, <4>1, <4>2
    <3>4. CASE y \notin asleep BY <1>9, <2>2, <3>1, <3>4 DEF InTime
    <3> QED BY <3>3, <3>4
  <2> QED BY <2>1, <2>2
<1>11. InTime' BY <1>10 DEF InTime, At, Out, Timed
<1> QED BY <1>7, <1>11

\* tick() returns the tasks whose slot is emptied now.
LEMMA TickStep ==
  ASSUME WheelTypes, InTime, Wheel!Tick
  PROVE  /\ WheelTypes' /\ InTime' /\ current_tick' = current_tick + 1 /\ asleep' \subseteq asleep
         /\ \A x \in asleep \ asleep' : current_tick >= wake_tick[x]
         /\ \A x \in asleep' : wake_tick'[x] = wake_tick[x]
<1> DEFINE now == current_tick
           next == current_tick + 1
           first == <<0, Wheel!index(now, 0)>>
           w == [wheels EXCEPT ![first] = Wheel!Empty]
<1>1. now \in Nat /\ next \in Nat BY DEF WheelTypes
<1>2. first = <<0, now % W>> /\ first \in Buckets
  <2>1. 0 \in 0 .. 3 /\ now \div 1 = now BY <1>1
  <2>2. Wheel!index(now, 0) = (now \div span(0)) % W /\ <<0, Wheel!index(now, 0)>> \in Buckets
    BY <1>1, <2>1, IndexIs, Zenon
  <2> QED BY <2>1, <2>2, Spans, Zenon
<1>3. /\ current_tick' = next /\ wheels' = Turned(w, next)
      /\ asleep' = {x \in asleep : ~ (wheels[first][x] > 0)}
      /\ wake_tick' = [x \in Tasks |-> IF wheels[first][x] > 0 THEN 0 ELSE wake_tick[x]]
      /\ slept_at' = [x \in Tasks |-> IF wheels[first][x] > 0 THEN 0 ELSE slept_at[x]]
  BY DEF Wheel!Tick, Turned
<1>4. /\ WheelType(w)
      /\ \A a \in Buckets, x \in Tasks : w[a][x] = IF a = first THEN 0 ELSE wheels[a][x]
  BY <1>2 DEF WheelTypes, WheelType, Wheel!Empty
<1> HIDE DEF w, first
<1>5. WheelTypes'
  <2>1. WheelType(wheels') BY <1>1, <1>3, <1>4, TurnedType
  <2>2. wake_tick' \in [Tasks -> Nat] /\ slept_at' \in [Tasks -> Nat] BY <1>3 DEF WheelTypes
  <2> QED BY <1>1, <1>3, <2>1, <2>2 DEF WheelTypes
<1>6. ASSUME NEW x \in Tasks
      PROVE  /\ x \in asleep' => \E a \in Buckets : At(wheels', x, a) /\ Timed(a, wake_tick'[x], slept_at'[x], current_tick')
             /\ x \notin asleep' => Out(wheels', x)
             /\ x \in asleep \ asleep' => current_tick >= wake_tick[x]
  <2>1. wake_tick[x] \in Nat /\ slept_at[x] \in Nat BY DEF WheelTypes
  <2>2. CASE x \notin asleep
    <3>1. Out(w, x) BY <1>4, <2>2 DEF InTime, Out
    <3>2. Out(wheels', x) BY <1>1, <1>3, <1>4, <2>1, <3>1, TurnedOut
    <3> QED BY <1>3, <2>2, <3>2
  <2>3. CASE x \in asleep
    <3>1. PICK b \in Buckets : At(wheels, x, b) /\ Timed(b, wake_tick[x], slept_at[x], now) BY <2>3 DEF InTime
    <3>2. wheels[first][x] = IF first = b THEN 1 ELSE 0 BY <1>2, <3>1 DEF At
    <3>3. CASE b = first
      <4>1. x \notin asleep' BY <1>3, <3>2, <3>3
      <4>2. Out(w, x) BY <1>4, <3>1, <3>3 DEF At, Out
      <4>3. Out(wheels', x) BY <1>1, <1>3, <1>4, <2>1, <4>2, TurnedOut
      <4>4. PICK e \in Nat : /\ e % W = b[2] /\ now <= e /\ e < now + W /\ wake_tick[x] <= e
        <5>1. b[1] = 0 BY <1>2, <3>3
        <5> QED BY <3>1, <5>1 DEF Timed
      <4>5. e % W = now % W BY <1>2, <3>3, <4>4
      <4>6. e = now
        <5> SUFFICES ASSUME now < e PROVE FALSE BY <1>1, <4>4
        <5>1. e - now < W BY <1>1, <4>4, WheelSize
        <5> QED BY <1>1, <4>5, <5>1, OwnSlot, WheelSize, Zenon
      <4> QED BY <4>1, <4>3, <4>4, <4>6
    <3>4. CASE b # first
      <4>1. x \in asleep' /\ wake_tick'[x] = wake_tick[x] /\ slept_at'[x] = slept_at[x] BY <1>3, <2>3, <3>2, <3>4
      <4>2. At(w, x, b) BY <1>4, <3>1, <3>4 DEF At
      <4>3. \E c \in Buckets : At(Turned(w, next), x, c) /\ Timed(c, wake_tick[x], slept_at[x], next)
        BY <1>1, <1>2, <1>4, <2>1, <3>1, <3>4, <4>2, TurnedInTime DEF WheelTypes
      <4> QED BY <1>3, <4>1, <4>3
    <3> QED BY <3>3, <3>4
  <2> QED BY <2>2, <2>3
<1>7. InTime' BY <1>6 DEF InTime, At, Out, Timed
<1>8. asleep' \subseteq asleep /\ \A x \in asleep' : wake_tick'[x] = wake_tick[x] BY <1>3 DEF WheelTypes
<1>9. \A x \in asleep \ asleep' : current_tick >= wake_tick[x] BY <1>6 DEF WheelTypes
<1> QED BY <1>3, <1>5, <1>7, <1>8, <1>9

-----------------------------------------------------------------------------
(* The clock *)

\* The CPUs that have counted a tick and not turned the wheel yet.
Behind == {c \in Cpus : clockPc[c] = "tick"}

ClockTypes ==
  /\ TICK_COUNT \in Nat /\ due \in [Tasks -> Nat]
  /\ clockPc \in [Cpus -> {"idle", "tick", "softirq"}]

\* A sleeper waits for the time that sleep() computed.
Awaited == \A x \in asleep : wake_tick[x] = due[x] /\ due[x] # None

ClockIInv == WheelTypes /\ InTime /\ ClockTypes /\ Awaited /\ WheelKeepsUp

\* There are finitely many CPUs.
LEMMA BehindFinite ==
  ASSUME NEW S \in SUBSET Cpus
  PROVE  IsFiniteSet(S) /\ Cardinality(S) \in Nat
<1>1. IsFiniteSet(S) BY ClockAssumption, FS_Subset
<1> QED BY <1>1, FS_CardinalityType

\* sleep() leaves the wheel alone.
LEMMA SleepStep ==
  ASSUME ClockIInv, NEW x \in Tasks, NEW n \in 0 .. MaxSleep, sleep(x, n)
  PROVE  ClockIInv'
<1> USE DEF ClockIInv
<1>1. UNCHANGED <<wheels, current_tick, wake_tick, asleep, slept_at, TICK_COUNT, clockPc>> BY DEF sleep, wheel
<1>2. due' \in [Tasks -> Nat] /\ \A y \in Tasks \ {x} : due'[y] = due[y]
  BY ClockAssumption DEF sleep, ClockTypes
<1>3. x \notin asleep BY DEF sleep, Awaited
<1>4. WheelTypes' /\ InTime' BY <1>1, Zenon DEF WheelTypes, WheelType, InTime, At, Out, Timed
<1>5. ClockTypes' BY <1>1, <1>2, Zenon DEF ClockTypes
<1>6. Awaited' BY <1>1, <1>2, <1>3 DEF Awaited, WheelTypes, None
<1>7. WheelKeepsUp' BY <1>1, Zenon DEF WheelKeepsUp
<1> QED BY <1>4, <1>5, <1>6, <1>7

\* schedule() hands over a task and keeps the time that sleep() computed.
LEMMA PutToSleepStep ==
  ASSUME ClockIInv, NEW x \in Tasks, PutToSleep(x)
  PROVE  ClockIInv'
<1> USE DEF ClockIInv
<1>1. Wheel!Schedule(x, due[x]) /\ due[x] \in Nat /\ due[x] # None /\ UNCHANGED <<TICK_COUNT, clockPc, due>>
  BY DEF PutToSleep, ClockTypes
<1>2. WheelTypes' /\ InTime' BY <1>1, ScheduleStep
<1>3. current_tick' = current_tick /\ asleep' = asleep \cup {x} /\ wake_tick' = [wake_tick EXCEPT ![x] = due[x]]
  BY <1>1 DEF Wheel!Schedule
<1>4. ClockTypes' BY <1>1, Zenon DEF ClockTypes
<1>5. Awaited' BY <1>1, <1>3 DEF Awaited, WheelTypes, None
<1>6. WheelKeepsUp' BY <1>1, <1>3, Zenon DEF WheelKeepsUp
<1> QED BY <1>2, <1>4, <1>5, <1>6

\* tick() counts: one more CPU is behind.
LEMMA CountStep ==
  ASSUME ClockIInv, NEW c \in Cpus, tick(c)
  PROVE  ClockIInv'
<1> USE DEF ClockIInv
<1>1. /\ UNCHANGED <<wheels, current_tick, wake_tick, asleep, slept_at, due>>
      /\ clockPc[c] = "idle" /\ TICK_COUNT' = TICK_COUNT + 1 /\ clockPc' = [clockPc EXCEPT ![c] = "tick"]
  BY DEF tick, wheel
<1>2. WheelTypes' /\ InTime' BY <1>1, Zenon DEF WheelTypes, WheelType, InTime, At, Out, Timed
<1>3. ClockTypes' BY <1>1 DEF ClockTypes
<1>4. Awaited' BY <1>1, Zenon DEF Awaited, None
<1>5. Behind' = Behind \cup {c} /\ c \notin Behind BY <1>1 DEF Behind, ClockTypes
<1>6. IsFiniteSet(Behind) /\ Cardinality(Behind) \in Nat BY BehindFinite DEF Behind
<1>7. Cardinality(Behind') = Cardinality(Behind) + 1 BY <1>5, <1>6, FS_AddElement
<1>8. WheelKeepsUp' BY <1>1, <1>6, <1>7 DEF WheelKeepsUp, Behind, ClockTypes, WheelTypes
<1> QED BY <1>2, <1>3, <1>4, <1>8

\* Both turns of an interrupt: the one of tick() makes up for the count.
LEMMA WakeStep ==
  ASSUME ClockIInv, NEW c \in Cpus, Tick(c) \/ process_deferred_timers(c)
  PROVE  ClockIInv' /\ \A x \in asleep \ asleep' : current_tick >= wake_tick[x]
<1> USE DEF ClockIInv
<1>1. PICK from \in {"tick", "softirq"}, to \in {"idle", "softirq"} : wake_sleeping_tasks(c, from, to)
  BY DEF Tick, process_deferred_timers
<1>2. /\ clockPc[c] = from /\ clockPc' = [clockPc EXCEPT ![c] = to] /\ Wheel!Tick /\ UNCHANGED TICK_COUNT
      /\ due' = [x \in Tasks |-> IF x \in asleep \ asleep' THEN None ELSE due[x]]
  BY <1>1 DEF wake_sleeping_tasks
<1>3. /\ WheelTypes' /\ InTime' /\ current_tick' = current_tick + 1 /\ asleep' \subseteq asleep
      /\ \A x \in asleep \ asleep' : current_tick >= wake_tick[x]
      /\ \A x \in asleep' : wake_tick'[x] = wake_tick[x]
  BY <1>2, TickStep
<1>4. None \in Nat BY ClockAssumption DEF None
<1>5. ClockTypes' BY <1>2, <1>4 DEF ClockTypes
<1>6. Awaited' BY <1>2, <1>3 DEF Awaited, WheelTypes, None
<1>7. Behind' = Behind \ {c} BY <1>2 DEF Behind, ClockTypes
<1>8. IsFiniteSet(Behind) /\ Cardinality(Behind) \in Nat BY BehindFinite DEF Behind
<1>9. Cardinality(Behind') + 1 >= Cardinality(Behind) /\ Cardinality(Behind') \in Nat
  <2>1. Cardinality(Behind') = IF c \in Behind THEN Cardinality(Behind) - 1 ELSE Cardinality(Behind)
    BY <1>7, <1>8, FS_RemoveElement, Zenon
  <2>2. Cardinality(Behind') \in Nat BY BehindFinite DEF Behind
  <2> QED BY <1>8, <2>1, <2>2
<1>10. WheelKeepsUp' BY <1>2, <1>3, <1>8, <1>9 DEF WheelKeepsUp, Behind, ClockTypes, WheelTypes
<1> QED BY <1>3, <1>5, <1>6, <1>10

\* Nobody sleeps at first.
LEMMA ClockInitIInv == ClockInit => ClockIInv
<1> SUFFICES ASSUME ClockInit PROVE ClockIInv OBVIOUS
<1> USE ClockAssumption DEF ClockInit, Wheel!Init
<1>1. WheelTypes BY DEF WheelTypes, WheelType, Wheel!Empty, Buckets
<1>2. InTime BY DEF InTime, Out, Wheel!Empty, Buckets
<1>3. None \in Nat BY DEF None
<1>4. ClockTypes BY <1>3 DEF ClockTypes
<1>5. Awaited BY DEF Awaited
<1>6. Cardinality(Behind) \in Nat BY BehindFinite DEF Behind
<1>7. WheelKeepsUp BY <1>6 DEF WheelKeepsUp, Behind
<1> QED BY <1>1, <1>2, <1>4, <1>5, <1>7 DEF ClockIInv

\* One lemma for each action.
LEMMA ClockNextIInv == ClockIInv /\ [ClockNext]_clockVars => ClockIInv'
<1> SUFFICES ASSUME ClockIInv, [ClockNext]_clockVars PROVE ClockIInv' OBVIOUS
<1>1. CASE UNCHANGED clockVars
  BY <1>1, Zenon DEF clockVars, wheel, ClockIInv, WheelTypes, WheelType, InTime, At, Out, Timed, ClockTypes,
     Awaited, None, WheelKeepsUp
<1>2. CASE ClockNext
  BY <1>2, SleepStep, PutToSleepStep, CountStep, WakeStep, Zenon DEF ClockNext
<1> QED BY <1>1, <1>2

\* Every sleeper is in one bucket, which the wheels reach in time; the wheels turn at least
\* as often as TICK_COUNT is counted.
THEOREM SpecClockIInv == ClockSpec => []ClockIInv
BY ClockInitIInv, ClockNextIInv, PTL DEF ClockSpec

\* For any size of the wheels, any number of tasks and CPUs and any sleeping times: however often
\* it is cascaded, a sleeper is in one bucket, once, and a task that is awake in none.
THEOREM NeverLost == ClockSpec => []InOneBucket
<1>1. ClockIInv => InOneBucket
  <2> SUFFICES ASSUME ClockIInv, NEW x \in Tasks
               PROVE  LET in == {b \in Buckets : wheels[b][x] > 0}
                      IN  IF x \in asleep THEN \E b \in in : in = {b} /\ wheels[b][x] = 1 ELSE in = {}
    BY DEF InOneBucket, Wheel!InOneBucket, Buckets
  <2>1. CASE x \in asleep
    <3>1. PICK b \in Buckets : At(wheels, x, b) BY <2>1 DEF ClockIInv, InTime
    <3>2. wheels[b][x] = 1 /\ \A a \in Buckets : wheels[a][x] > 0 <=> a = b BY <3>1 DEF At
    <3> QED BY <2>1, <3>2
  <2>2. CASE x \notin asleep
    <3>1. \A a \in Buckets : ~ (wheels[a][x] > 0) BY <2>2 DEF ClockIInv, InTime, Out
    <3> QED BY <2>2, <3>1
  <2> QED BY <2>1, <2>2
<1> QED BY <1>1, SpecClockIInv, PTL

\* tick() of the wheel returns no task before its wake_tick.
THEOREM WakesNoneEarly == ClockSpec => NeverEarly
<1>1. ASSUME ClockIInv, [ClockNext]_clockVars
      PROVE  [\A x \in asleep \ asleep' : current_tick >= wake_tick[x]]_clockVars
  <2>1. CASE UNCHANGED clockVars BY <2>1
  <2>2. ASSUME NEW x \in Tasks, NEW n \in 0 .. MaxSleep, sleep(x, n) PROVE asleep' = asleep
    BY <2>2 DEF sleep, wheel
  <2>3. ASSUME NEW x \in Tasks, PutToSleep(x) PROVE asleep \subseteq asleep'
    BY <2>3 DEF PutToSleep, Wheel!Schedule
  <2>4. ASSUME NEW c \in Cpus, tick(c) PROVE asleep' = asleep BY <2>4 DEF tick, wheel
  <2>5. CASE ClockNext BY <1>1, <2>2, <2>3, <2>4, <2>5, WakeStep, Zenon DEF ClockNext
  <2> QED BY <1>1, <2>1, <2>5
<1> QED BY <1>1, SpecClockIInv, PTL DEF ClockSpec, NeverEarly

\* No turn of the wheel is lost, in whatever order the timer interrupts of the CPUs interleave.
THEOREM NoTurnLost == ClockSpec => []WheelKeepsUp
BY SpecClockIInv, PTL DEF ClockIInv

\* A sleeper leaves at most one tick past its time by the clock of the wheel, and by TICK_COUNT
\* as soon as the CPUs have made the turns they have counted.
THEOREM SleepersLeave == ClockSpec => []NoOversleep
<1>1. ClockIInv => NoOversleep
  <2> SUFFICES ASSUME ClockIInv, NEW x \in asleep
               PROVE  /\ current_tick <= Wheel!Later(wake_tick[x], slept_at[x] + 1) + 1
                      /\ TICK_COUNT <= Wheel!Later(due[x], slept_at[x] + 1) + 1 + Cardinality(Behind)
    BY Zenon DEF NoOversleep, Wheel!AtMostOneLate, Behind
  <2>1. x \in Tasks /\ wake_tick[x] \in Nat /\ slept_at[x] \in Nat /\ current_tick \in Nat
    BY DEF ClockIInv, WheelTypes
  <2>2. PICK b \in Buckets : Timed(b, wake_tick[x], slept_at[x], current_tick) BY <2>1 DEF ClockIInv, InTime
  <2>3. current_tick <= Wheel!Later(wake_tick[x], slept_at[x] + 1) + 1
    <3>1. CASE b[1] = 0 BY <2>1, <2>2, <3>1 DEF Timed, Wheel!Later
    <3>2. CASE b[1] # 0
      <4> DEFINE p == span(b[1])
      <4>1. p \in Nat \ {0} BY Spans DEF Buckets, Wheel!Buckets
      <4>2. current_tick \div p < wake_tick[x] \div p BY <2>2, <3>2 DEF Timed
      <4> HIDE DEF p
      <4>3. 0 \in Nat /\ p * 0 = 0 BY <4>1
      <4>4. wake_tick[x] < current_tick + p * 0 => wake_tick[x] \div p <= (current_tick \div p) + 0
        BY <2>1, <4>1, <4>3, SlotsAhead, Zenon
      <4>5. wake_tick[x] \div p \in Nat /\ current_tick \div p \in Nat BY <2>1, <4>1, Divided, Zenon
      <4>6. ~ (wake_tick[x] < current_tick) BY <2>1, <4>2, <4>3, <4>4, <4>5
      <4> QED BY <2>1, <4>6 DEF Wheel!Later
    <3> QED BY <3>1, <3>2
  <2>4. due[x] = wake_tick[x] BY DEF ClockIInv, Awaited
  <2>5. Cardinality(Behind) \in Nat BY BehindFinite DEF Behind
  <2>6. TICK_COUNT <= current_tick + Cardinality(Behind) /\ TICK_COUNT \in Nat
    BY <2>1, <2>5 DEF ClockIInv, WheelKeepsUp, Behind, ClockTypes
  <2> QED BY <2>1, <2>3, <2>4, <2>5, <2>6 DEF Wheel!Later
<1> QED BY <1>1, SpecClockIInv, PTL
==============================================================================
