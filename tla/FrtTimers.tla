------------------------------ MODULE FrtTimers -----------------------------
(***************************************************************************)
(* FreeRTOS software timers.  freertos_stubs_tick() walks the table once   *)
(* per batch with a time it read at the start; each due timer's callback   *)
(* is guest code that may command any timer, its own and the ones the walk *)
(* has not reached yet included, while the guest's clock goes on.          *)
(***************************************************************************)
EXTENDS Integers

CONSTANTS
    MaxTimers,  \* MAX_SW_TIMERS
    Periods,    \* the periods the guest asks for, in ticks; 0 is clamped
    MaxTime,    \* bound on the guest clock
    MaxCmds     \* bound on the commands of one callback

TimerAssumption ==    \* evaluated by the MC module
    /\ MaxTimers \in Nat \ {0}
    /\ Periods \subseteq Nat
    /\ MaxTime \in Nat
    /\ MaxCmds \in Nat

Timers == 1 .. MaxTimers

VARIABLES
    now,        \* the guest clock, in ticks
    timer,      \* the table of sw_timer_t
    count,      \* sw_timer_count
    at,         \* the slot freertos_stubs_tick() looks at next, 0 outside
    callback,   \* the timer whose callback runs, 0 for none
    tick_now,   \* the clock as that walk read it
    cmds,       \* commands the running callback has given
    base,       \* when each timer was last started
    fires       \* callbacks of each timer since then

vars == <<now, timer, count, at, callback, tick_now, cmds, base, fires>>
ghosts == <<base, fires>>

Clamp(p) == IF p = 0 THEN 1 ELSE p

Record == [used : BOOLEAN, active : BOOLEAN, autoreload : BOOLEAN,
           period : (Periods \cup {1}) \ {0}, alarm : Nat]

TypeOK ==
    /\ now \in 0 .. MaxTime
    /\ timer \in [Timers -> Record]
    /\ count \in 0 .. MaxTimers
    /\ at \in 0 .. MaxTimers + 1
    /\ callback \in {0} \cup Timers
    /\ tick_now \in 0 .. MaxTime
    /\ cmds \in 0 .. MaxCmds
    /\ base \in [Timers -> 0 .. MaxTime]
    /\ fires \in [Timers -> Nat]

Blank == [used |-> FALSE, active |-> FALSE, autoreload |-> FALSE,
          period |-> 1, alarm |-> 0]

Init ==
    /\ now = 0
    /\ timer = [i \in Timers |-> Blank]
    /\ count = 0
    /\ at = 0
    /\ callback = 0
    /\ tick_now = 0
    /\ cmds = 0
    /\ base = [i \in Timers |-> 0]
    /\ fires = [i \in Timers |-> 0]

-----------------------------------------------------------------------------
\* Guest code gives a command: between batches as often as it likes, in a
\* callback up to MaxCmds times.
GuestRuns ==
    \/ at = 0 /\ UNCHANGED cmds
    \/ callback # 0 /\ cmds < MaxCmds /\ cmds' = cmds + 1

Command(i) ==
    /\ GuestRuns
    /\ timer[i].used
    /\ UNCHANGED <<now, count, at, callback, tick_now>>

\* sw_timer_create(): the first free slot, or a new one.
FreeSlots == {i \in 1 .. count : ~timer[i].used}

XTimerCreate(p, autoreload) ==
    \E i \in Timers :
       /\ IF FreeSlots # {} THEN i \in FreeSlots /\ \A j \in FreeSlots : i <= j
                            ELSE i = count + 1
       /\ GuestRuns
       /\ timer' = [timer EXCEPT ![i] = [Blank EXCEPT !.used = TRUE,
                                                      !.period = Clamp(p),
                                                      !.autoreload = autoreload]]
       /\ count' = IF i > count THEN i ELSE count
       /\ base' = [base EXCEPT ![i] = 0]
       /\ fires' = [fires EXCEPT ![i] = 0]
       /\ UNCHANGED <<now, at, callback, tick_now>>

\* tmrCOMMAND_START and RESET, from a task or an ISR.
XTimerStart(i) ==
    /\ Command(i)
    /\ timer' = [timer EXCEPT ![i].active = TRUE,
                              ![i].alarm = now + timer[i].period]
    /\ base' = [base EXCEPT ![i] = now]
    /\ fires' = [fires EXCEPT ![i] = 0]

XTimerStop(i) ==
    /\ Command(i)
    /\ timer' = [timer EXCEPT ![i].active = FALSE]
    /\ UNCHANGED ghosts

\* tmrCOMMAND_CHANGE_PERIOD starts the timer as well.
XTimerChangePeriod(i, p) ==
    /\ Command(i)
    /\ timer' = [timer EXCEPT ![i].active = TRUE,
                              ![i].period = Clamp(p),
                              ![i].alarm = now + Clamp(p)]
    /\ base' = [base EXCEPT ![i] = now]
    /\ fires' = [fires EXCEPT ![i] = 0]

XTimerDelete(i) ==
    /\ Command(i)
    /\ timer' = [timer EXCEPT ![i].used = FALSE, ![i].active = FALSE]
    /\ UNCHANGED ghosts

-----------------------------------------------------------------------------
\* The guest clock advances while guest code runs, in a callback too.
Advance ==
    /\ at = 0 \/ callback # 0
    /\ now < MaxTime
    /\ now' = now + 1
    /\ UNCHANGED <<timer, count, at, callback, tick_now, cmds, ghosts>>

\* freertos_stubs_tick() begins: the time is read once.
BugTickBegins ==    \* mutation: a cached time is used
    /\ at = 0
    /\ at' = 1
    /\ UNCHANGED <<now, timer, count, callback, tick_now, cmds, ghosts>>

TickBegins ==
    /\ at = 0
    /\ at' = 1
    /\ tick_now' = now
    /\ UNCHANGED <<now, timer, count, callback, cmds, ghosts>>

BugDue(i) ==     \* mutation: off by one tick
    timer[i].used /\ timer[i].active /\ tick_now + 1 >= timer[i].alarm

Due(i) == timer[i].used /\ timer[i].active /\ tick_now >= timer[i].alarm

\* The next timer from slot at on that the walk finds due.
NextDue == {i \in at .. count : Due(i) /\ \A k \in at .. (i - 1) : ~Due(k)}

\* A due timer is settled before its callback runs.
Settled(i) ==
    IF timer[i].autoreload
    THEN [timer EXCEPT ![i].alarm = @ + timer[i].period]
    ELSE [timer EXCEPT ![i].active = FALSE]

\* The walk finds a due timer and calls its callback with guest_call8().
TickFires ==
    /\ at # 0
    /\ callback = 0
    /\ \E i \in NextDue :
          /\ timer' = Settled(i)
          /\ at' = i + 1
          /\ callback' = i
          /\ cmds' = 0
          /\ fires' = [fires EXCEPT ![i] = @ + 1]
    /\ UNCHANGED <<now, count, tick_now, base>>

BugCallbackReturns ==   \* mutation: the reload comes after the callback
    /\ callback # 0
    /\ callback' = 0
    /\ cmds' = 0
    /\ timer' = [timer EXCEPT ![callback].active = timer[callback].autoreload]
    /\ UNCHANGED <<now, count, at, tick_now, ghosts>>

\* The callback returns, or is cut off after SW_TIMER_CALLBACK_INSNS.
CallbackReturns ==
    /\ callback # 0
    /\ callback' = 0
    /\ cmds' = 0
    /\ UNCHANGED <<now, timer, count, at, tick_now, ghosts>>

TickEnds ==
    /\ at # 0
    /\ callback = 0
    /\ NextDue = {}
    /\ at' = 0
    /\ UNCHANGED <<now, timer, count, callback, tick_now, cmds, ghosts>>

Next ==
    \/ \E p \in Periods, autoreload \in BOOLEAN : XTimerCreate(p, autoreload)
    \/ \E i \in Timers : \/ XTimerStart(i)
                          \/ XTimerStop(i)
                          \/ \E p \in Periods : XTimerChangePeriod(i, p)
                          \/ XTimerDelete(i)
    \/ Advance
    \/ TickBegins
    \/ TickFires
    \/ CallbackReturns
    \/ TickEnds

Spec == Init /\ [][Next]_vars

\* freertos_stubs_tick goes on: batches keep coming and callbacks are bounded,
\* so every walk is finished and another one follows.
TickRuns == TickBegins \/ TickFires \/ CallbackReturns \/ TickEnds
FairSpec == Spec /\ WF_vars(TickRuns)

-----------------------------------------------------------------------------
\* A timer never fires early: the k-th callback after a start comes k periods
\* after it at the earliest, however late the earlier ones were noticed.
NeverEarly ==
    \A i \in Timers :
       fires[i] > 0 => base[i] + fires[i] * timer[i].period <= now

\* An active reloading timer keeps its phase: its alarm stays on the grid laid
\* by its last start, so late batches do not make it drift.
KeepsPhase ==
    \A i \in Timers :
       timer[i].active /\ timer[i].autoreload =>
          timer[i].alarm = base[i] + (fires[i] + 1) * timer[i].period

\* A one-shot timer fires at most once per start.
OneShotOnce ==
    \A i \in Timers : ~timer[i].autoreload => fires[i] <= 1

\* "a callback that stops or restarts its own timer wins over the reload": a
\* timer that is not active becomes active only by being started.
ActivatedByStart ==
    \A i \in Timers : ~timer[i].active /\ timer'[i].active =>
       fires'[i] = 0 /\ base'[i] = now
CallbackWins == [][ActivatedByStart]_vars

\* An overdue timer is served, or the guest takes the alarm back.
Overdue(i) == timer[i].used /\ timer[i].active /\ timer[i].alarm <= now

OverdueServed == \A i \in Timers : Overdue(i) ~> ~Overdue(i)
=============================================================================
