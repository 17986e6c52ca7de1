---------------------------- MODULE FrtDelayUntil ---------------------------
(***************************************************************************)
(* A fixed-rate task over vTaskDelayUntil.  The guest keeps the previous   *)
(* wake time in a word of 32 bits that wraps with the tick counter;        *)
(* frt_delay_until() decides by a signed difference whether the next       *)
(* deadline has passed and otherwise sleeps for the difference, but never  *)
(* longer than frt_block_cycles() allows.                                  *)
(***************************************************************************)
EXTENDS Integers

CONSTANTS
    Half,       \* half the range of the tick counter (2^31 in the code)
    Increments, \* the periods the task asks for, in ticks
    SleepCap,   \* the longest sleep: 200000000 cycles, in ticks
    MaxTime     \* bound on the time a behaviour covers

DelayAssumption ==    \* evaluated by the MC module
    /\ Half \in Nat \ {0}
    /\ Increments \subseteq Nat
    /\ SleepCap \in Nat
    /\ MaxTime \in Nat /\ 2 * Half <= MaxTime

M == 2 * Half

VARIABLES
    now,        \* guest time in ticks, which does not wrap
    prev,       \* *previous_wake, the guest's word
    asleep,     \* is the task in TASK_SLEEPING?
    wake,       \* when its wake_cycle comes
    due         \* the deadline of the last call, which does not wrap

vars == <<now, prev, asleep, wake, due>>

TypeOK ==
    /\ now \in 0 .. MaxTime
    /\ prev \in 0 .. M - 1
    /\ asleep \in BOOLEAN
    /\ wake \in Nat
    /\ due \in Nat

\* The task starts its loop with previous_wake = xTaskGetTickCount(), close to
\* or far from the point where the counter wraps.
Init ==
    /\ now \in 0 .. M - 1
    /\ prev = now
    /\ asleep = FALSE
    /\ wake = 0
    /\ due = now

\* frt_tick_count(), and the (int32_t) of a difference.
TickCount == now % M

Signed(x) == LET y == x % M IN IF y < Half THEN y ELSE y - M

Target(inc) == (prev + inc) % M

Least(a, b) == IF a < b THEN a ELSE b

VTaskDelayUntil(inc) ==
    LET remaining == Signed(Target(inc) - TickCount)
    IN  /\ ~asleep
        /\ prev' = Target(inc)
        /\ due' = due + inc
        /\ IF remaining <= 0
           THEN UNCHANGED <<asleep, wake>>
           ELSE asleep' = TRUE /\ wake' = now + Least(remaining, SleepCap)
        /\ UNCHANGED now

\* sched_wake_sleepers() and a dispatch: not before wake_cycle.
Wakes ==
    /\ asleep
    /\ now >= wake
    /\ asleep' = FALSE
    /\ UNCHANGED <<now, prev, wake, due>>

\* Time passes, in the loop's body or while it sleeps.  A task that falls half
\* the counter's range (24 days) behind is outside what the code promises.
Advance ==
    /\ now < MaxTime
    /\ now + 1 - due < Half
    /\ now' = now + 1
    /\ UNCHANGED <<prev, asleep, wake, due>>

\* A task cannot run ahead of its deadlines, because each call waits for one.
Next ==
    \/ \E inc \in Increments : VTaskDelayUntil(inc)
    \/ Wakes
    \/ Advance

Spec == Init /\ [][Next]_vars

-----------------------------------------------------------------------------
\* "a loop keeps its rate": when a call has returned its deadline has come,
\* however long the body took and wherever the counter wrapped.
KeepsRate == ~asleep => now >= due

\* "instead of drifting by its own execution time": a task that sleeps is
\* woken at its deadline, not later.
NoDrift == asleep => wake <= due
=============================================================================
