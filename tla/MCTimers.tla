------------------------------ MODULE MCTimers ------------------------------
(***************************************************************************)
(* The clock services, one at a time: FreeRTOS software timers, esp_timer, *)
(* and vTaskDelayUntil over a tick counter of a few bits, so that it wraps *)
(* (TimersNext); and the hardware timers of the ESP32-S3, one at a time: a *)
(* timer group of which software uses the general-purpose timers (service  *)
(* "timer", the cores TimerCores attached) or the watchdog ("watchdog",    *)
(* WdtCores), and the system timer (HwNext).  Ticks do not divide cycles   *)
(* there, so that every remainder occurs, and the counters have three or   *)
(* four values, so that they wrap.  The variables of the others stay Off.  *)
(***************************************************************************)
EXTENDS Integers

CONSTANTS
    MaxSwTimers, SwPeriods, SwTime, SwCmds,                 \* FrtTimers
    MaxEspTimers, EspPeriods, EspTime, EspSkew, EspCmds,    \* EspTimers
    HalfRange, Increments, SleepCap, DelayHorizon,          \* FrtDelayUntil
    TimerCores, WdtCores, GroupTimers, GroupRadix, GroupPeriod,       \* TimerGroup
    GroupCpuHz, GroupApbHz, GroupConfigs, GroupLoads,
    WdtConfigs, Holds, Prescalers, HoldStages, GroupRun, GroupSkew,
    SysUnits, SysAlarms, SysRadix, SysModulus, SysCpuHz, SysTimerHz,  \* Systimer
    SysPeriods, SysLoads, SysRun

VARIABLES service,
    timer, count, at, callback, tick_now, cmds, base, fires,    \* both timers
    now,                                    \* software timers and delays
    clock, asked, armed,                    \* esp_timer
    prev, asleep, wake, due,                \* delays
    group, lag,                             \* timer group
    st,                                     \* system timer
    unseen                                  \* both

Frt == INSTANCE FrtTimers WITH
    MaxTimers <- MaxSwTimers, Periods <- SwPeriods, MaxTime <- SwTime,
    MaxCmds <- SwCmds
Esp == INSTANCE EspTimers WITH
    MaxTimers <- MaxEspTimers, Periods <- EspPeriods, MaxTime <- EspTime,
    MaxSkew <- EspSkew, MaxCmds <- EspCmds, Guest <- {}
Delay == INSTANCE FrtDelayUntil WITH
    Half <- HalfRange, MaxTime <- DelayHorizon

Group == INSTANCE TimerGroup WITH
    Cores <- TimerCores \cup WdtCores, Timers <- GroupTimers, Radix <- GroupRadix,
    Period <- GroupPeriod, CpuHz <- GroupCpuHz, ApbHz <- GroupApbHz,
    Configs <- GroupConfigs, LoadWords <- GroupLoads,
    MaxRun <- GroupRun, Skew <- GroupSkew

System == INSTANCE Systimer WITH
    Units <- SysUnits, Alarms <- SysAlarms, Radix <- SysRadix, Modulus <- SysModulus,
    CpuHz <- SysCpuHz, TimerHz <- SysTimerHz, Periods <- SysPeriods,
    LoadWords <- SysLoads, MaxRun <- SysRun

ASSUME ServicesAssumption ==
       /\ Frt!TimerAssumption /\ Esp!EspTimerAssumption /\ Delay!DelayAssumption
       /\ Group!TimerGroupAssumption /\ System!SystimerAssumption

hwVars == <<group, lag, st, unseen>>
timersVars == <<service, Frt!vars, Esp!vars, Delay!vars, hwVars>>

Config(enable, increase, alarmEn, autoreload, divider) ==
    [enable |-> enable, increase |-> increase, alarmEn |-> alarmEn,
     autoreload |-> autoreload, source |-> 2, divider |-> divider]

TimerConfigs ==
    {Config(TRUE, TRUE, TRUE, FALSE, 2), Config(TRUE, FALSE, TRUE, TRUE, 1),
     Config(FALSE, TRUE, TRUE, FALSE, 2)}

Actions(a, b, c, d) ==
    [s \in 0..3 |-> CASE s = 0 -> a [] s = 1 -> b [] s = 2 -> c [] OTHER -> d]

WatchdogConfigs ==
    {[enable |-> TRUE, action |-> Actions("interrupt", "off", "resetCpu", "off")],
     [enable |-> FALSE, action |-> Actions("interrupt", "off", "off", "off")]}

Off == "off"

TimersOff ==
    /\ timer = Off /\ count = Off /\ at = Off /\ callback = Off
    /\ tick_now = Off /\ cmds = Off /\ base = Off /\ fires = Off
EspOff == clock = Off /\ asked = Off /\ armed = Off
DelayOff == prev = Off /\ asleep = Off /\ wake = Off /\ due = Off
GroupOff == group = Off /\ lag = Off
SystemOff == st = Off

TimersInit ==
    /\ \/ service = "frt" /\ Frt!Init /\ EspOff /\ DelayOff
       \/ service = "esp" /\ Esp!Init /\ DelayOff /\ now = Off
       \/ service = "delay" /\ Delay!Init /\ TimersOff /\ EspOff
    /\ GroupOff /\ SystemOff /\ unseen = Off

timerOnly == <<timer, count, at, callback, tick_now, cmds, base, fires>>
espOnly == <<clock, asked, armed>>
delayOnly == <<prev, asleep, wake, due>>

FrtStep(A) == service = "frt" /\ A /\ UNCHANGED <<service, espOnly, delayOnly, hwVars>>
EspStep == service = "esp" /\ Esp!Next /\ UNCHANGED <<service, delayOnly, now, hwVars>>
DelayStep ==
    /\ service = "delay"
    /\ Delay!Next \/ (now >= DelayHorizon /\ UNCHANGED <<now, delayOnly>>)
    /\ UNCHANGED <<service, timerOnly, espOnly, hwVars>>

TimersNext == FrtStep(Frt!Next) \/ EspStep \/ DelayStep

HwInit ==
    /\ \/ service = "timer" /\ Group!Start(TimerCores) /\ SystemOff
       \/ service = "watchdog" /\ Group!Start(WdtCores) /\ SystemOff
       \/ service = "system" /\ System!Init /\ GroupOff
    /\ TimersOff /\ EspOff /\ DelayOff /\ now = Off

HwNext ==
    /\ \/ service \in {"timer", "watchdog"} /\ Group!Common /\ UNCHANGED st
       \/ service = "timer" /\ Group!TimerNext /\ UNCHANGED st
       \/ service = "watchdog" /\ Group!WdtNext /\ UNCHANGED st
       \/ service = "system" /\ System!Next /\ UNCHANGED <<group, lag>>
    /\ UNCHANGED <<service, timerOnly, espOnly, delayOnly, now>>

ServicesInit == TimersInit \/ HwInit
ServicesNext == TimersNext \/ HwNext

\* Batches keep coming and callbacks are bounded (FrtTimers!FairSpec).
ServicesSpec ==
    /\ ServicesInit
    /\ [][ServicesNext]_timersVars
    /\ WF_timersVars(FrtStep(Frt!TickRuns))

-----------------------------------------------------------------------------
\* No software timer fires before its period has passed (freertos_stubs_tick),
\* no esp_timer before its time-out on the clock of the task that started it
\* (dispatch_expired_timers); late batches do not make a reloading timer drift,
\* a one-shot timer fires once per start, and a vTaskDelayUntil loop neither
\* runs ahead of its deadlines nor drifts behind them (frt_delay_until).
OnTime ==
    /\ service = "frt" => /\ Frt!TypeOK /\ Frt!NeverEarly
                          /\ Frt!KeepsPhase /\ Frt!OneShotOnce
    /\ service = "esp" => Esp!TypeOK /\ Esp!NeverEarly
    /\ service = "delay" => Delay!TypeOK /\ Delay!KeepsRate /\ Delay!NoDrift

\* What the guest has started, and only that, is active: an esp_timer across
\* stops and expiries (dispatch_expired_timers, esp_timer_stop), and a software
\* timer whose own callback stops or restarts it, against the reload that
\* follows (freertos_stubs_tick).
CommandsHonoured ==
    /\ [](service = "esp" => Esp!ArmedIsActive)
    /\ [][service = "frt" => Frt!ActivatedByStart]_timersVars

\* FrtTimers!OverdueServed: an overdue timer is served (freertos_stubs_tick).
OverdueServed ==
    \A i \in Frt!Timers :
       (service = "frt" /\ Frt!Overdue(i)) ~> (service = "frt" /\ ~Frt!Overdue(i))

\* TimerGroup!SyncIsAdditive: an access in the middle of an interval changes
\* nothing about its end (timer_group_sync).
SyncIsAdditive ==
    service \in {"timer", "watchdog"} => Group!TypeOK /\ Group!SyncIsAdditive

\* The event scheduler is told the first cycle at which an alarm or a watchdog
\* stage happens (flexe_timer_group_next_event), and no comparator of the system
\* timer is left due, its deadline at most one tick late
\* (systimer_evaluate_alarms, flexe_systimer_next_event).
AlarmsExact ==
    /\ service \in {"timer", "watchdog"} => Group!DeadlineExact
    /\ service = "system" => System!TypeOK /\ System!AlarmsServed
=============================================================================
