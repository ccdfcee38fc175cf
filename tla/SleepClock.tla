----------------------------- MODULE SleepClock -----------------------------
(***************************************************************************)
(* scheduler::sleep() on top of the timing wheel.  sleep() computes an     *)
(* absolute wake-up time from TICK_COUNT; schedule() hands the task to the *)
(* wheel later.  The timer interrupt of every CPU (interrupts/mod.rs)      *)
(* counts TICK_COUNT and turns the wheel in tick(), then runs the Timer    *)
(* softirq, whose process_deferred_timers() turns the wheel once more.     *)
(***************************************************************************)
EXTENDS Naturals, FiniteSets

CONSTANTS Cpus, Tasks, WHEEL_SIZE, MaxSleep, MaxTick,
          MaxCount   \* bound: last value of TICK_COUNT

ASSUME ClockAssumption ==
    /\ IsFiniteSet(Cpus)
    /\ WHEEL_SIZE \in Nat \ {0, 1} /\ MaxSleep \in Nat /\ MaxTick \in Nat
    /\ MaxCount \in Nat /\ 2 * MaxCount <= MaxTick

VARIABLES
    wheels, current_tick, wake_tick, asleep, slept_at,   \* the wheel
    TICK_COUNT,
    clockPc,     \* where a CPU is in its timer interrupt
    due     \* due[x]: the wake-up time sleep() computed, None when awake

Wheel == INSTANCE TimingWheel

wheel == <<wheels, current_tick, wake_tick, asleep, slept_at>>
clockVars == <<wheel, TICK_COUNT, clockPc, due>>

None == MaxCount + MaxSleep + 1

ClockInit ==
    /\ Wheel!Init
    /\ TICK_COUNT = 0
    /\ clockPc = [c \in Cpus |-> "idle"]
    /\ due = [x \in Tasks |-> None]

\* sleep(n) of a running task.
sleep(x, n) ==
    /\ due[x] = None
    /\ due' = [due EXCEPT ![x] = TICK_COUNT + n]
    /\ UNCHANGED <<wheel, TICK_COUNT, clockPc>>

\* The schedule() that sleep() calls gives the task to SLEEPING_TASKS.
PutToSleep(x) ==
    /\ due[x] # None /\ x \notin asleep
    /\ Wheel!Schedule(x, due[x])
    /\ UNCHANGED <<TICK_COUNT, clockPc, due>>

\* The timer interrupt: tick() counts ...
tick(c) ==
    /\ clockPc[c] = "idle" /\ TICK_COUNT < MaxCount
    /\ TICK_COUNT' = TICK_COUNT + 1
    /\ clockPc' = [clockPc EXCEPT ![c] = "tick"]
    /\ UNCHANGED <<wheel, due>>

\* wake_sleeping_tasks that gives up when another CPU is at it (a try_lock).
wakeTryLock(c, from, to) ==
    /\ clockPc[c] = from
    /\ IF \E d \in Cpus \ {c} : clockPc[d] # "idle" THEN UNCHANGED wheel ELSE Wheel!Tick
    /\ due' = [x \in Tasks |-> IF x \in asleep \ asleep' THEN None ELSE due[x]]
    /\ clockPc' = [clockPc EXCEPT ![c] = to]
    /\ UNCHANGED TICK_COUNT

\* ... and wake_sleeping_tasks turns the wheel, whatever the tick it is given.
wake_sleeping_tasks(c, from, to) ==
    /\ clockPc[c] = from
    /\ Wheel!Tick
    /\ due' = [x \in Tasks |-> IF x \in asleep \ asleep' THEN None ELSE due[x]]
    /\ clockPc' = [clockPc EXCEPT ![c] = to]
    /\ UNCHANGED TICK_COUNT

Tick(c) == wake_sleeping_tasks(c, "tick", "softirq")

process_deferred_timers(c) == wake_sleeping_tasks(c, "softirq", "idle")

ClockNext ==
    \/ \E x \in Tasks, n \in 0..MaxSleep : sleep(x, n)
    \/ \E x \in Tasks : PutToSleep(x)
    \/ \E c \in Cpus : tick(c) \/ Tick(c) \/ process_deferred_timers(c)

ClockSpec == ClockInit /\ [][ClockNext]_clockVars

-----------------------------------------------------------------------------
\* However often cascade() moves it, a sleeping task is in exactly one bucket, once,
\* and a task that is awake in none.
InOneBucket == Wheel!InOneBucket

\* tick() of the wheel returns a task only when its wake_tick has come, however far away that
\* was and whatever the wheels between.
NeverEarly ==
    [][\A x \in asleep \ asleep' : current_tick >= wake_tick[x]]_clockVars

\* A CPU between the count and the turn is all that lets the wheel lag TICK_COUNT: the
\* interrupts of several CPUs interleave in any order and no turn is lost.
WheelKeepsUp ==
    current_tick + Cardinality({c \in Cpus : clockPc[c] = "tick"}) >= TICK_COUNT

\* sleep() never hangs: by the clock of the wheel a sleeper leaves at most one tick past its
\* time, and so by TICK_COUNT, but for the turns that CPUs have counted and not yet made.
NoOversleep ==
    /\ Wheel!AtMostOneLate
    /\ \A x \in asleep :
          TICK_COUNT <= Wheel!Later(due[x], slept_at[x] + 1) + 1
                        + Cardinality({c \in Cpus : clockPc[c] = "tick"})

=============================================================================
