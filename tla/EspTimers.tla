------------------------------ MODULE EspTimers -----------------------------
(***************************************************************************)
(* The esp_timer service (src/src/esp_timer_stubs.c).  Expired timers are  *)
(* dispatched between two batches; the callback is guest code, and a timer *)
(* is rescheduled or deactivated only after its callback has returned.     *)
(* Each core has a clock of its own, and the later one becomes both at the *)
(* end of a batch; alarms are set and compared on core 0's clock.          *)
(***************************************************************************)
EXTENDS Integers, FiniteSets

CONSTANTS
    MaxTimers,  \* MAX_TIMERS: slots, not reused after a delete
    Periods,    \* the periods and timeouts the guest asks for
    MaxTime,    \* bound on the clocks
    MaxSkew,    \* how far a core runs ahead of the other within a batch
    MaxCmds,    \* bound on the commands of one callback
    Guest       \* which unusual things the firmware does, see Usages

\* "restart_self": a callback starts or stops the timer it belongs to
\* "core1_starts": a task on core 1 starts timers
Usages == {"restart_self", "core1_starts"}

EspTimerAssumption ==    \* evaluated by the MC module
    /\ MaxTimers \in Nat \ {0}
    /\ Periods \subseteq Nat \ {0}
    /\ {MaxTime, MaxSkew, MaxCmds} \subseteq Nat
    /\ Guest \subseteq Usages

Timers == 1 .. MaxTimers
Cores == {0, 1}

VARIABLES
    clock,      \* guest time of each core
    timer,      \* the table of emu_timer_t
    count,      \* timer_count
    at,         \* the slot dispatch_expired_timers() looks at next, 0 outside
    callback,   \* the timer whose callback runs, 0 for none
    tick_now,   \* the time that walk goes by
    cmds,       \* commands the running callback has given
    base,       \* when the guest last started each timer, on the caller's clock
    asked,      \* the period or timeout it asked for then
    fires,      \* callbacks of each timer since then
    armed       \* has the guest started it, and has it not fired (one-shot) or
                \* been stopped since?

vars == <<clock, timer, count, at, callback, tick_now, cmds, base,
          asked, fires, armed>>
ghosts == <<base, asked, fires, armed>>

Record == [handle : BOOLEAN, active : BOOLEAN, periodic : BOOLEAN,
           period : Periods \cup {0}, alarm : Nat]

TypeOK ==
    /\ clock \in [Cores -> 0 .. MaxTime]
    /\ timer \in [Timers -> Record]
    /\ count \in 0 .. MaxTimers
    /\ at \in 0 .. MaxTimers + 1
    /\ callback \in {0} \cup Timers
    /\ tick_now \in 0 .. MaxTime
    /\ cmds \in 0 .. MaxCmds
    /\ base \in [Timers -> 0 .. MaxTime]
    /\ asked \in [Timers -> Periods \cup {0}]
    /\ fires \in [Timers -> Nat]
    /\ armed \in [Timers -> BOOLEAN]

Blank == [handle |-> FALSE, active |-> FALSE, periodic |-> FALSE,
          period |-> 0, alarm |-> 0]

Init ==
    /\ clock = [c \in Cores |-> 0]
    /\ timer = [i \in Timers |-> Blank]
    /\ count = 0
    /\ at = 0 /\ callback = 0 /\ tick_now = 0 /\ cmds = 0
    /\ base = [i \in Timers |-> 0]
    /\ asked = [i \in Timers |-> 0]
    /\ fires = [i \in Timers |-> 0]
    /\ armed = [i \in Timers |-> FALSE]

-----------------------------------------------------------------------------
Later(a, b) == IF a > b THEN a ELSE b

\* current_time_us(): core 0's clock, whoever asks.
CurrentTime == clock[0]

\* current_time_us_seen_by(): what esp_timer_get_time tells a task on core c.
SeenBy(c) == Later(clock[c], clock[0])

\* Guest code on core c runs: in a batch, or on core 0 in a callback.
GuestRuns(c) ==
    \/ at = 0 /\ UNCHANGED cmds
    \/ callback # 0 /\ c = 0 /\ cmds < MaxCmds /\ cmds' = cmds + 1

Command(c, i) ==
    /\ GuestRuns(c)
    /\ timer[i].handle
    /\ callback = i => "restart_self" \in Guest
    /\ UNCHANGED <<clock, count, at, callback, tick_now>>

EspTimerCreate(c) ==
    /\ count < MaxTimers
    /\ GuestRuns(c)
    /\ timer' = [timer EXCEPT ![count + 1] = [Blank EXCEPT !.handle = TRUE]]
    /\ count' = count + 1
    /\ UNCHANGED <<clock, at, callback, tick_now, ghosts>>

\* esp_timer_start_periodic and esp_timer_start_once.
EspTimerStart(c, i, periodic, p) ==
    /\ Command(c, i)
    /\ c = 1 => "core1_starts" \in Guest
    /\ timer' = [timer EXCEPT
                   ![i] = [@ EXCEPT !.active = TRUE, !.periodic = periodic,
                                    !.period = IF periodic THEN p ELSE 0,
                                    !.alarm = CurrentTime + p]]
    /\ base' = [base EXCEPT ![i] = SeenBy(c)]
    /\ asked' = [asked EXCEPT ![i] = p]
    /\ fires' = [fires EXCEPT ![i] = 0]
    /\ armed' = [armed EXCEPT ![i] = TRUE]

EspTimerStop(c, i) ==
    /\ Command(c, i)
    /\ timer' = [timer EXCEPT ![i].active = FALSE]
    /\ armed' = [armed EXCEPT ![i] = FALSE]
    /\ UNCHANGED <<base, asked, fires>>

EspTimerDelete(c, i) ==
    /\ Command(c, i)
    /\ timer' = [timer EXCEPT ![i].active = FALSE, ![i].handle = FALSE]
    /\ armed' = [armed EXCEPT ![i] = FALSE]
    /\ UNCHANGED <<base, asked, fires>>

\* A core executes, or skips time with ets_delay_us, within its batch.
Advance(c) ==
    /\ at = 0 \/ (callback # 0 /\ c = 0)
    /\ clock[c] < MaxTime
    /\ clock[c] < clock[1 - c] + MaxSkew
    /\ clock' = [clock EXCEPT ![c] = @ + 1]
    /\ UNCHANGED <<timer, count, at, callback, tick_now, cmds, ghosts>>

-----------------------------------------------------------------------------
\* The end of a batch publishes the later clock and calls
\* esp_timer_stubs_tick(); usleep() and delay() dispatch in the same way.
BatchEnds ==
    /\ at = 0
    /\ at' = 1
    /\ clock' = [c \in Cores |-> Later(clock[0], clock[1])]
    /\ tick_now' = Later(clock[0], clock[1])
    /\ UNCHANGED <<timer, count, callback, cmds, ghosts>>

Due(i) == timer[i].active /\ tick_now >= timer[i].alarm

NextDue == {i \in at .. count : Due(i) /\ \A k \in at .. (i - 1) : ~Due(k)}

TickFires ==
    /\ at # 0
    /\ callback = 0
    /\ \E i \in NextDue :
          /\ at' = i + 1
          /\ callback' = i
          /\ cmds' = 0
          /\ fires' = [fires EXCEPT ![i] = @ + 1]
          /\ armed' = [armed EXCEPT ![i] = timer[i].periodic]
    /\ UNCHANGED <<clock, timer, count, tick_now, base, asked>>

\* The callback has returned: reschedule or deactivate what the table says now.
CallbackReturns ==
    /\ callback # 0
    /\ LET t == timer[callback]
       IN  timer' = [timer EXCEPT ![callback] =
                       IF t.periodic THEN [t EXCEPT !.alarm = t.alarm + t.period]
                       ELSE [t EXCEPT !.active = FALSE]]
    /\ callback' = 0
    /\ cmds' = 0
    /\ UNCHANGED <<clock, count, at, tick_now, ghosts>>

TickEnds ==
    /\ at # 0
    /\ callback = 0
    /\ NextDue = {}
    /\ at' = 0
    /\ UNCHANGED <<clock, timer, count, callback, tick_now, cmds, ghosts>>

Next ==
    \/ \E c \in Cores :
          \/ EspTimerCreate(c)
          \/ \E i \in Timers :
                \/ \E p \in Periods, periodic \in BOOLEAN :
                      EspTimerStart(c, i, periodic, p)
                \/ EspTimerStop(c, i)
                \/ EspTimerDelete(c, i)
          \/ Advance(c)
    \/ BatchEnds
    \/ TickFires
    \/ CallbackReturns
    \/ TickEnds

Spec == Init /\ [][Next]_vars

-----------------------------------------------------------------------------
\* What the guest has started is active: outside a dispatch no start is lost,
\* and nothing the guest has stopped, or that has fired once, is still active
\* ("Tick: dispatch any expired periodic/one-shot timers").
ArmedIsActive ==
    at = 0 => \A i \in Timers : armed[i] <=> timer[i].active

\* No timer fires before its timeout, or its k-th one before k periods, have
\* passed on the clock of the task that started it ("timers ... and both cores
\* preserve firmware-visible ordering").
NeverEarly ==
    \A i \in Timers : fires[i] > 0 =>
       base[i] + fires[i] * asked[i] <= Later(clock[0], clock[1])
=============================================================================
