---------------------------- MODULE TimingWheel ----------------------------
(***************************************************************************)
(* The sleepers' list (task/timer.rs, TimingWheel): four wheels of         *)
(* WHEEL_SIZE buckets, wheel k turning WHEEL_SIZE^k times slower than      *)
(* wheel 0.  The scheduler calls schedule() when a task goes to sleep and  *)
(* tick() on every timer interrupt, both under the SLEEPING_TASKS mutex.   *)
(* A bucket is how often each task is in it: the order within one is of no *)
(* consequence to when a task wakes up.                                    *)
(***************************************************************************)
EXTENDS Naturals

CONSTANTS
  Tasks,
  WHEEL_SIZE,   \* 256 in the code
  MaxTick       \* bound: last tick

VARIABLES
  wheels,        \* wheels[<<level, slot>>][x]: how often x is in the bucket
  current_tick,
  wake_tick,     \* wake_tick[x]: TaskState::Sleeping { wake_tick }, when asleep
  asleep,        \* the tasks handed to schedule() and not yet returned by tick()
  slept_at       \* slept_at[x]: current_tick when x was handed to schedule()

Slots == 0 .. WHEEL_SIZE - 1
Buckets == (0 .. 3) \X Slots

Empty == [x \in Tasks |-> 0]

\* 1 << (level * WHEEL_BITS): the ticks that a slot of the wheel lasts.
span(level) == CASE level = 0 -> 1
                 [] level = 1 -> WHEEL_SIZE
                 [] level = 2 -> WHEEL_SIZE * WHEEL_SIZE
                 [] level = 3 -> WHEEL_SIZE * WHEEL_SIZE * WHEEL_SIZE

\* (tick >> (level * WHEEL_BITS)) & WHEEL_MASK
index(tick, level) == (tick \div span(level)) % WHEEL_SIZE

Init ==
  /\ wheels = [b \in Buckets |-> Empty]
  /\ current_tick = 0
  /\ wake_tick = [x \in Tasks |-> 0] /\ slept_at = [x \in Tasks |-> 0]
  /\ asleep = {}

\* Every task goes into the fastest wheel, however far away its time is.
bucketFastest(wake, now) == <<0, index(wake, 0)>>

\* Where schedule() puts a task: into the next slot if its time has come, otherwise into the
\* wheel whose reach covers the distance.
bucket(wake, now) ==
  IF wake <= now THEN <<0, (now + 1) % WHEEL_SIZE>>
  ELSE IF wake - now < span(1) THEN <<0, index(wake, 0)>>
  ELSE IF wake - now < span(2) THEN <<1, index(wake, 1)>>
  ELSE IF wake - now < span(3) THEN <<2, index(wake, 2)>>
  ELSE <<3, index(wake, 3)>>

\* The tasks of bucket from are taken out and scheduled anew.
moved(w, from, now) ==
  [b \in Buckets |-> [x \in Tasks |->
     (IF b = from THEN 0 ELSE w[b][x]) + (IF b = bucket(wake_tick[x], now) THEN w[from][x] ELSE 0)]]

\* cascade() that empties the slot one step too far.
cascadeNextSlot(w, level, now) == moved(w, <<level, index(now + span(level), level)>>, now)

\* cascade(): the bucket of a slower wheel is scheduled anew.
cascade(w, level, now) == moved(w, <<level, index(now, level)>>, now)

Turn(w, level, now) == IF now % span(level) = 0 THEN cascade(w, level, now) ELSE w

\* schedule(task, wake): the task sleeps until the absolute tick wake.
Schedule(x, wake) ==
  /\ x \notin asleep
  /\ wheels' = [wheels EXCEPT ![bucket(wake, current_tick)][x] = @ + 1]
  /\ wake_tick' = [wake_tick EXCEPT ![x] = wake]
  /\ slept_at' = [slept_at EXCEPT ![x] = current_tick]
  /\ asleep' = asleep \cup {x}
  /\ UNCHANGED current_tick

\* tick() that returns the tasks of the current slot but leaves them in it.
TickPeeks ==
  /\ current_tick < MaxTick
  /\ current_tick' = current_tick + 1
  /\ asleep' = {x \in asleep : wheels[<<0, index(current_tick, 0)>>][x] = 0}
  /\ wheels' = Turn(Turn(Turn(wheels, 1, current_tick'), 2, current_tick'), 3, current_tick')
  /\ UNCHANGED <<wake_tick, slept_at>>

\* tick(): empty the current slot of wheel 0, then turn the slower wheels.  The
\* tasks returned become Ready, which forgets their wake_tick.
Tick ==
  LET now == current_tick + 1
      first == <<0, index(current_tick, 0)>>
      w == [wheels EXCEPT ![first] = Empty]
      woken(x) == wheels[first][x] > 0
  IN /\ current_tick < MaxTick
     /\ current_tick' = now
     /\ asleep' = {x \in asleep : ~ woken(x)}
     /\ wheels' = Turn(Turn(Turn(w, 1, now), 2, now), 3, now)
     /\ wake_tick' = [x \in Tasks |-> IF woken(x) THEN 0 ELSE wake_tick[x]]
     /\ slept_at' = [x \in Tasks |-> IF woken(x) THEN 0 ELSE slept_at[x]]

-----------------------------------------------------------------------------
\* However often it is cascaded, a sleeping task is in exactly one bucket, and
\* there once, and a task that is awake in none (tick, cascade, schedule).
InOneBucket ==
  \A x \in Tasks :
    LET in == {b \in Buckets : wheels[b][x] > 0}
    IN  IF x \in asleep THEN \E b \in in : in = {b} /\ wheels[b][x] = 1 ELSE in = {}

Later(m, n) == IF m >= n THEN m ELSE n

\* No task oversleeps by more than the one tick that a wake-up time on the seam
\* of two wheels costs: every tick() finds all the earlier sleepers gone.
AtMostOneLate ==
  \A x \in asleep : current_tick <= Later(wake_tick[x], slept_at[x] + 1) + 1

=============================================================================
