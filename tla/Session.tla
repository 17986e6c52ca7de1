------------------------------- MODULE Session -------------------------------
(***************************************************************************)
(* The emulator session (flexe_session.c): one host batch after the other  *)
(* runs core 0, then flexe_session_post_batch() runs core 1, publishes one *)
(* timeline to both cores and honours the requests guest code left in the  *)
(* RTC controller: APP-CPU reset, light and deep sleep, system reset.      *)
(*                                                                         *)
(* A core's clock is cycle_count (executed) plus virtual_time_us (skipped) *)
(* times the frequency; CCOUNT is the register the guest's own tick hangs  *)
(* on. Guest code is one operation at a time on the core whose turn it is. *)
(* The scheduler and the timer services the batch also calls are FrtTasks, *)
(* FrtTimers and EspTimers.                                                *)
(***************************************************************************)
EXTENDS Integers, FiniteSets, FiniteSetsExt, Functions

CONSTANTS
    Mhz,        \* cycles per microsecond (xtensa_cpu_freq_mhz)
    SliceUs,    \* SLICE_US: how far one poll of a sleeping chip steps
    BatchCycles,\* the batch sizes the host asks for while the chip sleeps
    Runs,       \* how many cycles one guest operation may execute
    Waits,      \* how long, in microseconds, guest code fast-forwards
    Alarms,     \* the wake-up delays guest code arms
    MaxClock,   \* bound: guest code does not run, or go to sleep, past this clock
    MaxResets   \* bound: no reset or deep sleep is asked for after this many

ASSUME SessionAssumption ==
    /\ {Mhz, SliceUs} \subseteq Nat \ {0}
    /\ BatchCycles \cup Runs \cup Waits \subseteq Nat \ {0}
    /\ Alarms \cup {MaxClock, MaxResets} \subseteq Nat

Cores   == {0, 1}
Forever == -1           \* PERIPH_SLEEP_FOREVER
Timer   == {"timer"}    \* RTC_TIMER_WAKE_CAUSE
Pin     == "pin"        \* EXT0, EXT1, touch: sources that outside events raise
Awake   == [on |-> FALSE, deep |-> FALSE, timeout |-> 0, elapsed |-> 0, phase |-> 0]

VARIABLES
    target,     \* "esp32" or "esp32s3"
    native,     \* native_freertos
    turn,       \* where the batch is: run0, post, poll, run1, publish, sleep,
                \* reset; or halted
    cyc, vt, ccount,            \* cycle_count, virtual_time_us, ccount of a core
    spent,                      \* what CCOUNT had counted before an APP-CPU reset
    started, running,           \* app_cpu_started, cpu[1].running
    released, boot,             \* the APP CPU is out of reset, has an entry point
    rtc,        \* the RTC controller: enable bit, request, alarm, wake sources
    wants,      \* pending requests: "reset", "app_reset"
    async,      \* async_sleep_*
    keep,       \* preserve_rtc_mem
    rtcmem,     \* RTC memory: "image" as loaded, "guest" as guest code left it
    resets, why,\* resets; the reset cause a booting guest reads
    \* history
    since,      \* what the clock showed when the chip was last reset
    woke        \* the wake the last step was: cause, sources, time slept and asked

clocks   == <<cyc, vt, ccount, spent, since>>
app      == <<started, running, released, boot>>
config   == <<target, native>>
history  == <<keep, rtcmem, resets, why>>
vars == <<config, turn, clocks, app, rtc, wants, async, history, woke>>

Clock(c) == cyc[c] + vt[c] * Mhz
Idle(c, n) == [ccount EXCEPT ![c] = @ + n]      \* xtensa_advance_idle_cycles
Both(f, n) == [c \in Cores |-> f[c] + n]

NotWoken == [cause |-> {}, polled |-> {}, slept |-> -1, asked |-> Forever]

NoWake == woke' = NotWoken

RtcReset == [ena |-> FALSE, requested |-> FALSE, sources |-> {},
             armed |-> FALSE, fired |-> FALSE, alarm |-> 0]

Init ==
    /\ target \in {"esp32", "esp32s3"}
    /\ native \in BOOLEAN /\ (target = "esp32s3" => native)
    /\ turn = "run0"
    /\ cyc = [c \in Cores |-> 0] /\ vt = cyc /\ ccount = cyc /\ spent = cyc
    /\ since = 0
    /\ started = FALSE /\ running = FALSE /\ released = FALSE /\ boot = FALSE
    /\ rtc = RtcReset /\ wants = {}
    /\ async = Awake /\ keep = FALSE /\ rtcmem = "image"
    /\ resets = 0 /\ why = "poweron" /\ woke = NotWoken

-----------------------------------------------------------------------------
\* Guest code, on the core whose turn it is.
Turn(c) == turn = (IF c = 0 THEN "run0" ELSE "run1") /\ ~async.on

Execute(c, n) ==
    /\ Turn(c) /\ Clock(c) + n <= MaxClock
    /\ cyc' = [cyc EXCEPT ![c] = @ + n] /\ ccount' = Idle(c, n)
    /\ UNCHANGED <<config, turn, vt, spent, since, app, rtc, wants, async, history>>
    /\ NoWake

\* delay(), usleep(), ets_delay_us() of the ESP32's compatibility hooks: the wait
\* is skipped, not executed.
FastForward(c, us) ==
    /\ Turn(c) /\ target = "esp32" /\ Clock(c) + us * Mhz <= MaxClock
    /\ vt' = [vt EXCEPT ![c] = @ + us] /\ ccount' = Idle(c, us * Mhz)
    /\ UNCHANGED <<config, turn, cyc, spent, since, app, rtc, wants, async, history>>
    /\ NoWake

\* A guest operation that touches only the RTC controller and its requests.
Writes(c, r, w) ==
    /\ Turn(c) /\ rtc' = r /\ wants' = w
    /\ UNCHANGED <<config, turn, clocks, app, async, history>>
    /\ NoWake

\* The wake-up timer: the S3 compares its counter with an absolute target, the
\* ESP32 takes the distance the guest computed from its own latched reading.
RtcUs(cc) == Max({cc[c] + spent[c] : c \in Cores}) \div Mhz      \* rtc_clock_now
NowUs == RtcUs(ccount)
Left == IF target = "esp32" THEN rtc.alarm
        ELSE IF rtc.armed THEN Max({0, rtc.alarm - NowUs}) ELSE 0

ArmAlarm(c, us) ==
    Writes(c, [rtc EXCEPT !.armed = TRUE,
                          !.alarm = IF target = "esp32" THEN us ELSE NowUs + us],
           wants)

ClearAlarm(c) == rtc.fired /\ Writes(c, [rtc EXCEPT !.fired = FALSE], wants)

SelectWake(c, S) == Writes(c, [rtc EXCEPT !.sources = S], wants)

\* The S3 refuses a sleep that nothing it knows could end.
CanSleep ==
    target = "esp32" \/
    (rtc.sources # {} /\ ("timer" \in rtc.sources => rtc.armed \/ rtc.fired))

EnterSleep(c) ==
    /\ Clock(c) < MaxClock /\ ccount[0] <= MaxClock
    /\ Writes(c, [rtc EXCEPT !.ena = TRUE, !.requested = CanSleep], wants)

LeaveSleep(c) ==
    Writes(c, [rtc EXCEPT !.ena = FALSE,
                          !.requested = target = "esp32" /\ rtc.requested], wants)

RequestReset(c) == resets < MaxResets /\ Writes(c, rtc, wants \cup {"reset"})
RequestAppReset(c) ==
    target = "esp32s3" /\ Writes(c, rtc, wants \cup {"app_reset"})

WriteRtcMem(c) ==
    /\ Turn(c) /\ rtcmem' = "guest"
    /\ UNCHANGED <<config, turn, clocks, app, rtc, wants, async, keep, resets,
                   why>>
    /\ NoWake

\* Core 0 releases the other core and gives it an entry point, or holds it.
ControlApp(r, b) ==
    /\ Turn(0) /\ released' = r /\ boot' = (boot \/ b)
    /\ UNCHANGED <<config, turn, clocks, started, running, rtc, wants, async,
                   history>>
    /\ NoWake

\* What flexe_session_post_batch() comes to next: steps with nothing to do are
\* passed over.
AfterRun == IF "app_reset" \in wants THEN "post" ELSE "poll"
AfterSleep == IF "reset" \in wants THEN "reset" ELSE "run0"
AfterPublish == IF rtc.requested THEN "sleep" ELSE AfterSleep

BatchEnds(c) ==
    /\ Turn(c) /\ turn' = (IF c = 1 THEN "publish" ELSE AfterRun)
    /\ UNCHANGED <<config, clocks, app, rtc, wants, async, history>>
    /\ NoWake

-----------------------------------------------------------------------------
\* flexe_session_run_core() while the chip sleeps: time passes, nothing runs.
SleepDeadline == async.timeout * Mhz

SleepStep(n) ==
    Min({n, SliceUs * Mhz} \cup
        (IF async.timeout = Forever THEN {}
         ELSE {Max({0, SleepDeadline - async.elapsed})}))

\* Bound: an endless sleep is not followed past twice MaxClock; the host's
\* batches are then empty.
Counted(n) == IF async.timeout = Forever /\ Clock(0) > 2 * MaxClock THEN 0 ELSE n

Phase(step) == (async.phase + step) % Mhz

RunAsleep(n) ==
    /\ turn = "run0" /\ async.on
    /\ LET step == SleepStep(Counted(n))
       IN  /\ async' = [async EXCEPT !.elapsed = @ + step, !.phase = Phase(step)]
           /\ vt' = Both(vt, (async.phase + step) \div Mhz)
           /\ ccount' = Both(ccount, step)
    /\ turn' = AfterRun
    /\ UNCHANGED <<config, cyc, spent, since, app, rtc, wants, history>>
    /\ NoWake

-----------------------------------------------------------------------------
\* flexe_session_reset(): every device is rebuilt, RTC memory is reloaded from
\* the image unless this is a deep-sleep wake, cycle_count goes on.
Fresh ==
    /\ started' = FALSE /\ running' = FALSE /\ released' = FALSE /\ boot' = FALSE
    /\ rtc' = RtcReset /\ wants' = {} /\ async' = Awake
    /\ vt' = [c \in Cores |-> 0] /\ ccount' = vt' /\ spent' = vt'
    /\ resets' = resets + 1

Rebuilt ==
    Fresh /\ cyc' = [c \in Cores |-> cyc[0]] /\ since' = cyc[0]

BugReset(k) ==          \* mutation: preserve_rtc_mem is not taken back
    /\ Rebuilt /\ keep' = k /\ rtcmem' = IF k THEN rtcmem ELSE "image"

Reset(k) ==             \* k: preserve_rtc_mem
    /\ Rebuilt /\ keep' = FALSE /\ rtcmem' = IF k THEN rtcmem ELSE "image"

\* The image or the ROM can no longer be loaded: both cores stop for good.
RebuildFails(k) ==
    /\ turn' = "halted" /\ keep' = k /\ async' = [async EXCEPT !.on = FALSE]
    /\ running' = FALSE
    /\ UNCHANGED <<clocks, started, released, boot, rtc, wants, rtcmem, resets, why>>

SoftReset ==
    \/ /\ Reset(keep) /\ turn' = "run0"
       /\ why' = IF target = "esp32s3" THEN "software" ELSE "poweron"
    \/ RebuildFails(keep)

\* A deep-sleep wake sets preserve_rtc_mem, resets, and then sets the causes.
DeepWake ==
    \/ Reset(TRUE) /\ turn' = "run0" /\ why' = "deepsleep"
    \/ RebuildFails(TRUE)

\* periph_finish_wake() of a light sleep.
LightWake ==
    /\ rtc' = IF target = "esp32" THEN [rtc EXCEPT !.ena = FALSE, !.requested = FALSE]
              ELSE [rtc EXCEPT !.ena = FALSE, !.requested = FALSE, !.armed = FALSE,
                               !.alarm = 0,
                               !.fired = @ \/ (rtc.armed /\ RtcUs(ccount') >= rtc.alarm)]
    /\ async' = Awake
    /\ UNCHANGED <<app, wants, keep, rtcmem, resets, why, spent, since>>

\* The wake-up cause the guest will read.
Told(cause, polled, slept, asked) ==
    woke' = [cause |-> cause, polled |-> polled, slept |-> slept, asked |-> asked]

\* periph_sleep_poll_wake(): the sources that may be asserted, outside events
\* being what they are, and the ones the chip looks at.
Polls == IF (target = "esp32" \/ rtc.ena) /\ Pin \in rtc.sources THEN {{}, {Pin}} ELSE {{}}

-----------------------------------------------------------------------------
\* flexe_session_post_batch() begins with the APP-CPU reset pulse
\* (session_reset_app_cpu): CCOUNT restarts, the host's accounting does not.
TakeAppReset ==
    /\ turn = "post" /\ turn' = "poll"
    /\ wants' = wants \ {"app_reset"}
    /\ ccount' = [ccount EXCEPT ![1] = 0]
    /\ spent' = [spent EXCEPT ![1] = @ + ccount[1]]
    /\ started' = FALSE /\ running' = FALSE
    /\ UNCHANGED <<config, cyc, vt, since, released, boot, rtc, async, history>>
    /\ NoWake

BugExpired ==       \* mutation: past the deadline, which the steps never go
    async.timeout # Forever /\ async.elapsed > SleepDeadline
Expired == async.timeout # Forever /\ async.elapsed >= SleepDeadline

BugWakeCause(polled) == IF Expired THEN Timer ELSE polled   \* mutation: timer first
WakeCause(polled) == IF polled # {} THEN polled ELSE IF Expired THEN Timer ELSE {}

\* session_finish_async_sleep()
FinishAsync(polled) ==
    /\ Told(WakeCause(polled), polled, async.elapsed, SleepDeadline)
    /\ \/ async.deep /\ DeepWake
       \/ /\ ~async.deep
          /\ UNCHANGED <<cyc, vt, ccount>>
          /\ LightWake /\ turn' = "run0"

PollAsleep ==
    /\ turn = "poll" /\ async.on
    /\ \E polled \in Polls :
         \/ WakeCause(polled) = {} /\ turn' = "run0"
            /\ UNCHANGED <<clocks, app, rtc, wants, async, history>> /\ NoWake
         \/ WakeCause(polled) # {} /\ FinishAsync(polled)
    /\ UNCHANGED config

\* Start core 1 once it is released and has an entry point, run it if it is
\* running; a parked core is resumed when the scheduler finds it a task.
Starts == released /\ boot /\ ~started

StartApp ==
    /\ turn = "poll" /\ ~async.on
    /\ started' = (started \/ Starts)
    /\ \/ /\ released /\ (running \/ Starts)
          /\ running' = TRUE /\ turn' = "run1"
       \/ /\ ~(released /\ (running \/ Starts))
          /\ running' \in {running, running \/ (released /\ ~native)}
          /\ turn' = "publish"
    /\ UNCHANGED <<config, clocks, released, boot, rtc, wants, async, history>>
    /\ NoWake

-----------------------------------------------------------------------------
\* Publish one timeline: native firmware only shares the executed cycles.
Latest(f) == Max({f[c] : c \in Cores})

BugPublishBehind ==     \* mutation: CCOUNT does not follow the published clock
    /\ cyc' = [c \in Cores |-> Latest(cyc)]
    /\ vt' = IF native THEN vt ELSE [c \in Cores |-> Latest(vt)]
    /\ UNCHANGED ccount

PublishClocks ==
    /\ cyc' = [c \in Cores |-> Latest(cyc)]
    /\ vt' = IF native THEN vt ELSE [c \in Cores |-> Latest(vt)]
    /\ ccount' = IF native THEN ccount
                 ELSE [c \in Cores |->
                          ccount[c] + (Latest(cyc) + Latest(vt) * Mhz) - Clock(c)]

Publish ==
    /\ turn = "publish" /\ PublishClocks /\ turn' = AfterPublish
    /\ UNCHANGED <<config, spent, since, app, rtc, wants, async, history>>
    /\ NoWake

-----------------------------------------------------------------------------
\* The sleep request guest code left behind. The S3 looks again whether the
\* sleep can end, since the other core may have changed the sources meanwhile.
DropRequest ==
    /\ turn = "sleep" /\ ~CanSleep /\ turn' = AfterSleep
    /\ rtc' = [rtc EXCEPT !.requested = FALSE]
    /\ UNCHANGED <<config, clocks, app, wants, async, history>>
    /\ NoWake

Sleeps == turn = "sleep" /\ CanSleep
SleepAsync == target = "esp32s3" /\ Pin \in rtc.sources     \* has_async_wake
\* Deep or light is whether firmware has let the digital domain power down.
Deep == IF resets < MaxResets THEN BOOLEAN ELSE {FALSE}
SleepFor == IF "timer" \in rtc.sources THEN Left ELSE Forever

\* Something outside could wake the chip: sleep one batch at a time, unless it
\* does so at once.
FallAsleep ==
    /\ Sleeps /\ SleepAsync /\ turn' = "run0"
    /\ \E deep \in Deep :
         async' = [Awake EXCEPT !.on = TRUE, !.deep = deep, !.timeout = SleepFor]
    /\ rtc' = [rtc EXCEPT !.requested = FALSE]
    /\ UNCHANGED <<config, clocks, app, wants, history>>
    /\ NoWake

WokenAtOnce ==
    /\ Sleeps /\ SleepAsync /\ {Pin} \in Polls
    /\ Told({Pin}, {Pin}, 0, SleepFor * Mhz)
    /\ \/ TRUE \in Deep /\ DeepWake
       \/ UNCHANGED <<cyc, vt, ccount>> /\ LightWake /\ turn' = "run0"
    /\ UNCHANGED config

\* Nothing could ever end the sleep: it is refused.
RefuseSleep ==
    /\ Sleeps /\ ~SleepAsync /\ SleepFor = Forever
    /\ UNCHANGED <<config, cyc, vt, ccount>>
    /\ LightWake /\ Told({}, {}, 0, Forever)
    /\ turn' = "run0"

\* The ESP32 steps through the whole sleep, polling after every slice; a level
\* source that a device event raises on the way ends it there.
SliceEnds(n) == {Min({k * SliceUs, n}) : k \in 1 .. (n + SliceUs - 1) \div SliceUs}

SleepThrough ==
    /\ Sleeps /\ ~SleepAsync
    /\ \E polled \in Polls, slept \in {0} \cup SliceEnds(Max({0, SleepFor})) :
         /\ polled # {} \/ slept = SleepFor
         /\ Told(IF polled # {} THEN polled ELSE Timer, polled, slept * Mhz,
                 SleepFor * Mhz)
         /\ \/ TRUE \in Deep /\ DeepWake
            \/ /\ vt' = Both(vt, slept) /\ ccount' = Both(ccount, slept * Mhz)
               /\ UNCHANGED cyc
               /\ LightWake /\ turn' = AfterSleep
    /\ UNCHANGED config

TakeReset ==
    turn = "reset" /\ SoftReset /\ UNCHANGED config /\ NoWake

-----------------------------------------------------------------------------
GuestStep(c) ==
    \/ \E n \in Runs : Execute(c, n)
    \/ \E us \in Waits : FastForward(c, us)
    \/ \E us \in Alarms : ArmAlarm(c, us)
    \/ \E S \in SUBSET {"timer", Pin} : SelectWake(c, S)
    \/ EnterSleep(c)
    \/ LeaveSleep(c)
    \/ ClearAlarm(c)
    \/ RequestReset(c)
    \/ RequestAppReset(c)
    \/ WriteRtcMem(c)

PostBatch ==
    \/ TakeAppReset \/ PollAsleep \/ StartApp \/ BatchEnds(1) \/ Publish \/ DropRequest \/ FallAsleep
    \/ WokenAtOnce \/ RefuseSleep \/ SleepThrough \/ TakeReset

RunSleeping == \E n \in BatchCycles : RunAsleep(n)

Halted == turn = "halted" /\ UNCHANGED vars

Next ==
    \/ Halted
    \/ \E c \in Cores : GuestStep(c)
    \/ \E r \in BOOLEAN, b \in BOOLEAN : ControlApp(r, b)
    \/ BatchEnds(0) \/ RunSleeping \/ PostBatch

Spec == Init /\ [][Next]_vars

\* The host keeps calling run_core and post_batch, and a core's batch ends.
Fairness ==
    WF_vars(BatchEnds(0)) /\ WF_vars(RunSleeping) /\ WF_vars(PostBatch)
FairSpec == Spec /\ Fairness

-----------------------------------------------------------------------------
Us == Nat \cup {Forever}
Causes == SUBSET {"timer", Pin}

TypeOK ==
    /\ turn \in {"run0", "post", "poll", "run1", "publish", "sleep", "reset", "halted"}
    /\ {cyc, vt, ccount, spent} \subseteq [Cores -> Nat] /\ since \in Nat
    /\ {started, running, released, boot, keep} \subseteq BOOLEAN
    /\ rtc \in [ena : BOOLEAN, requested : BOOLEAN, sources : Causes,
                 armed : BOOLEAN, fired : BOOLEAN, alarm : Nat]
    /\ async \in [on : BOOLEAN, deep : BOOLEAN, timeout : Us, elapsed : Nat,
                   phase : 0 .. Mhz - 1]
    /\ wants \subseteq {"reset", "app_reset"} /\ rtcmem \in {"image", "guest"}

\* Whatever moves a core's clock (executing, skipping a wait, the published
\* timeline, sleep) hands that core the CCOUNT to go with it; otherwise the
\* guest's tick, scheduled against CCOUNT, falls behind the time it reads.
\* (flexe_session_post_batch, xtensa_advance_idle_cycles; native firmware is
\* exempt, it keeps "loosely in sync".)
InStep == ~native => \A c \in Cores : ccount[c] = Clock(c) - since

\* No core's time runs backwards within one boot, whichever core was ahead and
\* whatever was slept, and executed cycles do not even across a reset; RTC
\* memory survives a deep-sleep wake and no other reset, also one that follows a
\* deep sleep (flexe_session_post_batch, flexe_session_reset, preserve_rtc_mem).
TimeForward ==
    \A c \in Cores :
        /\ cyc'[c] >= cyc[c]
        /\ resets' = resets => Clock(c)' >= Clock(c)
RtcMemoryKept ==
    resets' # resets => rtcmem' = IF why' = "deepsleep" THEN rtcmem ELSE "image"
AcrossResets == [][TimeForward /\ RtcMemoryKept]_vars

\* A chip never sleeps longer than it asked to, the timer is given as the cause
\* only when all of that time has passed, and only when no other source was
\* asserted; the part of a microsecond a batch leaves over is carried
\* (session_finish_async_sleep, flexe_session_post_batch).
WakesRight ==
    /\ async.phase \in 0 .. Mhz - 1
    /\ woke.asked >= 0 => woke.slept <= woke.asked
    /\ woke.cause = Timer => woke.slept = woke.asked /\ woke.polled = {}

\* A sleep with a timer armed ends, whatever the other sources do, as long as
\* the host keeps calling (flexe_session_run_core, flexe_session_post_batch).
SleepEnds == (async.on /\ async.timeout # Forever) ~> ~async.on

\* The published clock is the later of the two cores' clocks, as
\* current_time_us_seen_by() takes for granted. It is not: the executed cycles
\* of one core and the skipped time of the other are added.
PublishIsLater ==
    [][turn = "publish" /\ ~native =>
          \A c \in Cores : Clock(c)' = Max({Clock(d) : d \in Cores})]_vars
==============================================================================
