----------------------------- MODULE TimerGroup -----------------------------
(***************************************************************************)
(* One ESP32-S3 timer group (timer_group.c): general-purpose timers and    *)
(* the four-stage watchdog, counting the cycles of the cores.              *)
(*                                                                         *)
(* Nothing runs between two accesses.  Every register access, every gate   *)
(* change and every event deadline first calls timer_group_sync, which     *)
(* converts the cycles since the last call into ticks and applies them at  *)
(* once; so the outcome must not depend on when somebody looked.           *)
(*                                                                         *)
(* The clock is kept in differences: unseen[c] is ccount - last_ccount of  *)
(* core c, lag[c] is cycles - core_cycles[c]; last_clock_cycles equals     *)
(* cycles after every call.  The CPU frequency is fixed.  Register masks,  *)
(* DATE, REGCLK and the overflow guards of timer_group_scaled_ticks (which *)
(* the batch length keeps out of reach) are left out.                      *)
(***************************************************************************)
EXTENDS Integers, FiniteSets, FiniteSetsExt

CONSTANTS
    Cores,          \* cores that may be attached to the group
    Timers,         \* indices of the general-purpose timers
    Radix,          \* values of one word of a two-word register
    Period,         \* counter mask + 1, a multiple of Radix
    CpuHz,          \* CPU clock
    ApbHz,          \* clock of the watchdog
    Configs,        \* values software writes to Tn_CONFIG
    LoadWords,      \* words software writes to Tn_LOADLO, Tn_LOADHI
    WdtConfigs,     \* values software writes to WDTCONFIG0
    Holds,          \* values software writes to WDTCONFIG2..5
    Prescalers,     \* values software writes to WDTCONFIG1
    HoldStages,     \* stages whose WDTCONFIG2..5 software writes
    MaxRun,         \* longest run of a core between two accesses
    Skew            \* largest lead of one core over the other

WDT == "wdt"
Events == Timers \cup {WDT}
Stages == 0..3      \* stage 4: the watchdog has expired

TimerConfigType ==
    [enable : BOOLEAN, increase : BOOLEAN, alarmEn : BOOLEAN, autoreload : BOOLEAN,
     source : Nat \ {0}, divider : Nat \ {0}]
WdtConfigType ==
    [enable : BOOLEAN,
     action : [Stages -> {"off", "interrupt", "resetCpu", "resetSystem"}]]

TimerGroupAssumption ==
    /\ Cores \subseteq {0, 1} /\ WDT \notin Timers
    /\ Radix \in Nat \ {0} /\ Period \in Nat \ {0} /\ Period % Radix = 0
    /\ CpuHz \in Nat \ {0} /\ ApbHz \in Nat \ {0}
    /\ Configs \subseteq TimerConfigType /\ LoadWords \subseteq 0..(Radix - 1)
    /\ WdtConfigs \subseteq WdtConfigType /\ HoldStages \subseteq Stages
    /\ Holds \subseteq Nat /\ Max(Holds) \in Holds
    /\ Prescalers \subseteq Nat /\ Min(Prescalers) \in Prescalers
    /\ MaxRun \in Nat /\ Skew \in Nat

VARIABLES
    group,          \* timer_group_state_t
    unseen, lag     \* timer_group_clock_t, in differences

vars == <<group, unseen, lag>>
-----------------------------------------------------------------------------
(* Cycles to ticks.  A phase is a pair of a remainder and a denominator.   *)

\* Mutant: the fraction of a tick is dropped.
BugScaledTicks(elapsed, source, denominator, phase) ==
    [ticks |-> (elapsed * source) \div denominator,
     phase |-> [rem |-> 0, den |-> denominator]]

\* timer_group_scaled_ticks: the fraction of a tick is carried over.
ScaledTicks(elapsed, source, denominator, phase) ==
    LET kept == IF phase.den = denominator THEN phase.rem ELSE 0
        numerator == elapsed * source + kept
    IN  [ticks |-> numerator \div denominator,
         phase |-> [rem |-> numerator % denominator, den |-> denominator]]

NoPhase == [rem |-> 0, den |-> 0]

\* Mutant: the fraction already counted is forgotten.
BugCyclesUntilTicks(ticks, source, denominator, phase) ==
    (ticks * denominator + source - 1) \div source

\* timer_group_cycles_until_ticks, below its INT32_MAX cap.
CyclesUntilTicks(ticks, source, denominator, phase) ==
    LET needed == ticks * denominator - phase.rem
    IN  IF needed <= 0 THEN 1 ELSE (needed + source - 1) \div source
-----------------------------------------------------------------------------
(* General-purpose timers.                                                 *)

Denominator(t) == CpuHz * t.cfg.divider

\* Equality is the compare point already observed: the next is a period away.
AlarmDistance(t) ==
    LET d == IF t.cfg.increase THEN (t.alarm - t.counter) % Period
                               ELSE (t.counter - t.alarm) % Period
    IN  IF d = 0 THEN Period ELSE d

Moved(t, from, ticks) ==
    (IF t.cfg.increase THEN from + ticks ELSE from - ticks) % Period

\* timer_group_advance_timer: does the alarm fire, and the timer after it.
Fires(t, ticks) == ticks > 0 /\ t.cfg.alarmEn /\ ticks >= AlarmDistance(t)

AdvanceTimer(t, ticks) ==
    IF Fires(t, ticks)
    THEN [t EXCEPT !.cfg.alarmEn = FALSE,
                   !.counter = Moved(t, IF t.cfg.autoreload THEN t.load
                                                            ELSE t.alarm,
                                     ticks - AlarmDistance(t))]
    ELSE [t EXCEPT !.counter = Moved(t, t.counter, ticks)]
-----------------------------------------------------------------------------
(* The watchdog.                                                           *)

WdtActive(w) == w.stage \in Stages /\ w.cfg.enable
WdtHold(w) == Max({w.hold[w.stage], 1})
WdtRemaining(w) == Max({WdtHold(w) - w.ticks, 1})

\* What is left of some ticks: the watchdog w, the ticks still to apply, and what
\* it raised on the way.
Untouched(w, ticks) == [w |-> w, ticks |-> ticks, raised |-> {}, reset |-> FALSE]

\* The end of a stage: what it does, and the stage after it.
StageEnd(s, rest) ==
    LET action == s.w.cfg.action[s.w.stage]
        reset == action \in {"resetCpu", "resetSystem"}
    IN  [w |-> [s.w EXCEPT !.ticks = 0,
                           !.stage = IF reset THEN 4 ELSE s.w.stage + 1],
         ticks |-> rest,
         raised |-> IF action = "interrupt" THEN {WDT} ELSE s.raised,
         reset |-> s.reset \/ reset]

\* One round of the loop of timer_group_advance_wdt.
WdtRound(s) ==
    CASE s.ticks = 0 \/ ~WdtActive(s.w) -> s
      [] s.ticks > 0 /\ WdtActive(s.w) /\ s.ticks < WdtRemaining(s.w) ->
           [s EXCEPT !.w.ticks = s.w.ticks + s.ticks, !.ticks = 0]
      [] OTHER -> StageEnd(s, s.ticks - WdtRemaining(s.w))

\* Every round that goes on leaves a stage behind: four rounds are enough.
AdvanceWdt(w, ticks) == WdtRound(WdtRound(WdtRound(WdtRound(Untouched(w, ticks)))))

WdtDenominator(w) == CpuHz * Max({w.prescaler, 1})
-----------------------------------------------------------------------------
\* timer_group_update_irqs: the levels of the interrupt lines.
UpdateIrqs(g) == [g EXCEPT !.level = g.intRaw \cap g.intEnable]

Ticks(t, elapsed) == ScaledTicks(elapsed, t.cfg.source, Denominator(t), t.phase)

ElapseTimer(t, elapsed) ==
    IF ~t.cfg.enable THEN t
    ELSE AdvanceTimer([t EXCEPT !.phase = Ticks(t, elapsed).phase],
                      Ticks(t, elapsed).ticks)

Alarms(g, elapsed) ==
    {i \in Timers : /\ g.timer[i].cfg.enable
                    /\ Fires(g.timer[i], Ticks(g.timer[i], elapsed).ticks)}

ElapseWdt(w, elapsed) ==
    LET s == ScaledTicks(elapsed, ApbHz, WdtDenominator(w), w.phase)
    IN  IF WdtActive(w) THEN AdvanceWdt([w EXCEPT !.phase = s.phase], s.ticks)
                        ELSE Untouched(w, 0)

\* The loop body of timer_group_sync: elapsed cycles reach a clocked group.
Elapse(g, elapsed) ==
    LET s == ElapseWdt(g.wdt, elapsed)
    IN  IF elapsed = 0 \/ ~g.clockEnabled \/ g.resetAsserted THEN g
        ELSE UpdateIrqs(
               [g EXCEPT
                  !.timer = [i \in Timers |-> ElapseTimer(g.timer[i], elapsed)],
                  !.wdt = s.w,
                  !.intRaw = g.intRaw \cup Alarms(g, elapsed) \cup s.raised,
                  !.resetRequested = g.resetRequested \/ s.reset])

\* flexe_timer_group_attach_cpus
Attached == DOMAIN unseen

\* timer_group_clock_now: the group's time is that of the leading core.
Elapsed == Max({0} \cup {unseen[c] - lag[c] : c \in Attached})

Sync ==
    /\ unseen' = [c \in Attached |-> 0]
    /\ lag' = [c \in Attached |-> Elapsed - (unseen[c] - lag[c])]

Now == Elapse(group, Elapsed)
-----------------------------------------------------------------------------
(* timer_group_reset_registers.                                            *)

ResetConfig == [enable |-> FALSE, increase |-> TRUE, alarmEn |-> FALSE,
                autoreload |-> TRUE, source |-> ApbHz, divider |-> 1]

\* WDTCONFIG0 comes up with the flash-boot enable set and every action off.
ResetWdtConfig == [enable |-> TRUE, action |-> [s \in Stages |-> "off"]]

ResetRegisters(g) ==
    [g EXCEPT
       !.timer = [i \in Timers |->
                    [cfg |-> ResetConfig, counter |-> 0,
                     alarm |-> 0, load |-> 0, phase |-> NoPhase]],
       !.wdt = [cfg |-> ResetWdtConfig, hold |-> [s \in Stages |-> Max(Holds)],
                prescaler |-> Min(Prescalers), unlocked |-> TRUE,
                stage |-> 0, ticks |-> 0, phase |-> NoPhase],
       !.intEnable = {}, !.intRaw = {}, !.level = {}]

Start(cores) ==
    /\ group = ResetRegisters(
                 [timer |-> <<>>, wdt |-> <<>>, intEnable |-> {}, intRaw |-> {},
                  level |-> {}, clockEnabled |-> TRUE, resetAsserted |-> FALSE,
                  resetRequested |-> FALSE])
    /\ unseen = [c \in cores |-> 0]
    /\ lag = [c \in cores |-> 0]

Init == \E cores \in SUBSET Cores \ {{}} : Start(cores)
-----------------------------------------------------------------------------
\* A core runs n cycles; nothing in the group moves.
Run(c, n) ==
    /\ unseen[c] + n <= MaxRun
    /\ \A d \in Attached \ {c} : (unseen[c] + n - lag[c]) - (unseen[d] - lag[d]) <= Skew
    /\ unseen' = [unseen EXCEPT ![c] = @ + n]
    /\ UNCHANGED <<group, lag>>

\* timer_group_read, flexe_timer_group_eval: an access that only looks.  A
\* write to Tn_UPDATE is another: the captured value is not kept here.
Look == Sync /\ group' = Now

WriteConfig(i, k) ==
    LET g == Now
        old == g.timer[i].cfg
        rephase == old.source # k.source \/ old.divider # k.divider
    IN  /\ Sync
        /\ \E divcntRst \in BOOLEAN :
             group' = UpdateIrqs(
               [g EXCEPT !.timer[i].cfg = k,
                         !.timer[i].phase = IF rephase \/ divcntRst
                                            THEN NoPhase ELSE g.timer[i].phase])

LowWord(v, word) == (v - (v % Radix)) + word
HighWord(v, word) == word * Radix + (v % Radix)

WriteAlarm(i, word) ==
    LET g == Now
    IN  /\ Sync
        /\ \/ group' = [g EXCEPT !.timer[i].alarm = LowWord(g.timer[i].alarm, word)]
           \/ /\ word < Period \div Radix
              /\ group' = [g EXCEPT !.timer[i].alarm = HighWord(g.timer[i].alarm, word)]

WriteLoad(i, word) ==
    LET g == Now
    IN  /\ Sync
        /\ \/ group' = [g EXCEPT !.timer[i].load = LowWord(g.timer[i].load, word)]
           \/ /\ word < Period \div Radix
              /\ group' = [g EXCEPT !.timer[i].load = HighWord(g.timer[i].load, word)]

\* Tn_LOAD
LoadCounter(i) ==
    LET g == Now
    IN  /\ Sync
        /\ group' = [g EXCEPT !.timer[i].counter = g.timer[i].load,
                              !.timer[i].phase = NoPhase]

Restarted(w) == [w EXCEPT !.stage = 0, !.ticks = 0, !.phase = NoPhase]

\* WDTCONFIG0: switching the watchdog on starts it afresh.
WriteWdtConfig(k) ==
    LET g == Now
        new == [g.wdt EXCEPT !.cfg = k]
    IN  /\ Sync
        /\ group' = UpdateIrqs(
             IF ~g.wdt.unlocked THEN g
             ELSE [g EXCEPT !.wdt = IF ~WdtActive(g.wdt) /\ WdtActive(new)
                                    THEN Restarted(new) ELSE new])

WriteWdtPrescaler(p) ==
    LET g == Now
    IN  /\ Sync
        /\ group' = UpdateIrqs(
             IF ~g.wdt.unlocked \/ g.wdt.prescaler = p THEN g
             ELSE [g EXCEPT !.wdt.prescaler = p, !.wdt.phase = NoPhase])

WriteWdtHold(stage, h) ==
    LET g == Now
    IN  /\ Sync
        /\ group' = UpdateIrqs(
             IF ~g.wdt.unlocked THEN g ELSE [g EXCEPT !.wdt.hold[stage] = h])

Feed ==
    LET g == Now
    IN  /\ Sync
        /\ group' = IF ~g.wdt.unlocked THEN g ELSE [g EXCEPT !.wdt = Restarted(g.wdt)]

Protect(unlock) ==
    /\ Sync
    /\ group' = [Now EXCEPT !.wdt.unlocked = unlock]

WriteIntEnable(es) ==
    /\ Sync
    /\ group' = UpdateIrqs([Now EXCEPT !.intEnable = es])

ClearInt(es) ==
    LET g == Now
    IN  /\ Sync
        /\ group' = UpdateIrqs([g EXCEPT !.intRaw = g.intRaw \ es])

\* flexe_timer_group_set_system_state
SetSystemState(clock, reset) ==
    LET now == Now
        g == IF reset /\ ~now.resetAsserted THEN ResetRegisters(now) ELSE now
    IN  /\ <<clock, reset>> # <<group.clockEnabled, group.resetAsserted>>
        /\ Sync
        /\ group' = [g EXCEPT !.clockEnabled = clock, !.resetAsserted = reset]

TimerNext ==
    \E i \in Timers :
        \/ \E k \in Configs : WriteConfig(i, k)
        \/ \E word \in 0..(Radix - 1) : WriteAlarm(i, word)
        \/ \E word \in LoadWords : WriteLoad(i, word)
        \/ LoadCounter(i)
        \/ WriteIntEnable({}) \/ WriteIntEnable({i}) \/ ClearInt({i})

WdtNext ==
    \/ \E k \in WdtConfigs : WriteWdtConfig(k)
    \/ \E p \in Prescalers : WriteWdtPrescaler(p)
    \/ \E s \in HoldStages, h \in Holds : WriteWdtHold(s, h)
    \/ Feed
    \/ \E unlock \in BOOLEAN : Protect(unlock)
    \/ WriteIntEnable({}) \/ WriteIntEnable({WDT}) \/ ClearInt({WDT})

Common ==
    \/ \E c \in Attached, n \in 1..MaxRun : Run(c, n)
    \/ Look
    \/ \E clock, reset \in BOOLEAN : SetSystemState(clock, reset)

Next == Common \/ TimerNext \/ WdtNext

Spec == Init /\ [][Next]_vars
-----------------------------------------------------------------------------
(* flexe_timer_group_next_event: cycles from now to the next event.        *)

NextEvents(g) ==
    IF ~g.clockEnabled \/ g.resetAsserted THEN {} ELSE
    {CyclesUntilTicks(AlarmDistance(t), t.cfg.source, Denominator(t), t.phase) :
        t \in {g.timer[i] : i \in {j \in Timers \cap g.intEnable :
                 g.timer[j].cfg.enable /\ g.timer[j].cfg.alarmEn}}}
      \cup (IF WdtActive(g.wdt)
            THEN {CyclesUntilTicks(WdtRemaining(g.wdt), ApbHz,
                                   WdtDenominator(g.wdt), g.wdt.phase)}
            ELSE {})
-----------------------------------------------------------------------------
(* Properties.                                                             *)

PhaseType == [rem : Nat, den : Nat]
TimerType ==
    [cfg : TimerConfigType, counter : 0..(Period - 1), alarm : 0..(Period - 1),
     load : 0..(Period - 1), phase : PhaseType]
WdtType ==
    [cfg : WdtConfigType, hold : [Stages -> Nat], prescaler : Nat, unlocked : BOOLEAN,
     stage : 0..4, ticks : Nat, phase : PhaseType]
GroupType ==
    [timer : [Timers -> TimerType], wdt : WdtType, intEnable : SUBSET Events,
     intRaw : SUBSET Events, level : SUBSET Events, clockEnabled : BOOLEAN,
     resetAsserted : BOOLEAN, resetRequested : BOOLEAN]

TypeOK ==
    /\ group \in GroupType
    /\ Attached \subseteq Cores
    /\ unseen \in [Attached -> 0..MaxRun] /\ lag \in [Attached -> Nat]

\* What the guest can ever tell apart: the phase of an expired watchdog is
\* reset before it counts again.
Visible(g) == IF g.wdt.stage = 4 THEN [g EXCEPT !.wdt.phase = NoPhase] ELSE g

\* Looking changes nothing: an access in the middle of an interval (any
\* register read calls timer_group_sync) leaves the counters, alarms, watchdog
\* stages, interrupt lines and reset requests at its end as they would be
\* without it, fractions of ticks, reloads and expired stages included.
SyncIsAdditive ==
    \A a, b \in 1..(MaxRun + 1) :
        Visible(Elapse(Elapse(group, a), b)) = Visible(Elapse(group, a + b))

\* What an event is, for the deadline: an alarm whose interrupt is enabled
\* fires, or a watchdog stage ends.
Happens(g, n) ==
    LET after == Elapse(g, n)
    IN  \/ after.wdt.stage # g.wdt.stage
        \/ \E i \in Timers \cap g.intEnable :
             g.timer[i].cfg.alarmEn /\ ~after.timer[i].cfg.alarmEn

\* The deadline flexe_timer_group_next_event gives the event scheduler is the
\* first cycle at which something happens: a core in WAITI is neither woken
\* too late nor in vain.
DeadlineExact ==
    LET g == Now
        deadline == Min(NextEvents(g))
    IN  IF NextEvents(g) = {}
        THEN \A n \in 1..(2 * MaxRun + 2) : ~Happens(g, n)
        ELSE Happens(g, deadline) /\ ~Happens(g, deadline - 1)
=============================================================================
