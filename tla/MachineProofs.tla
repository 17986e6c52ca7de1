---------------------------- MODULE MachineProofs ---------------------------
(***************************************************************************)
(* Proofs about the machine around the RTOS.                               *)
(*                                                                         *)
(* Time.  Session: for any frequency, any batch and slice size and         *)
(* whatever guest code executes, skips, arms and asks for, CCOUNT stays    *)
(* with the clock, sleeps end when they should and for the reason given,   *)
(* and neither time nor RTC memory is lost over a reset.  The clock        *)
(* services of MCTimers: for any number of timers, any periods and delays  *)
(* and batches of any length, software timers, esp_timer and               *)
(* vTaskDelayUntil are on time and do what the guest last told them.  A    *)
(* timer group: for any clocks, dividers, prescalers and counter widths,   *)
(* and any run between two accesses, looking at it changes nothing, and it *)
(* and the system timer act at the deadlines they give the event scheduler.*)
(*                                                                         *)
(* What is remembered.  FlashMmu: for any entries and pages, a mapped page *)
(* shows what its entry says, and no translation outlives its bytes.       *)
(* Savestate: for any number of checkpoints, a restored machine is the     *)
(* whole of one checkpoint.  Jit: for any ways and blocks, and whenever    *)
(* code bytes or flash change, no outdated translation of RAM runs, and of *)
(* flash none that the dispatcher enters.                                  *)
(***************************************************************************)
EXTENDS Session, MCTimers, Sequences, TLAPS, WellFoundedInduction

-----------------------------------------------------------------------------
(* The session (Session).                                                  *)


\* What is fixed when the session is built.
ConfigOK ==
    /\ target \in {"esp32", "esp32s3"}
    /\ native \in BOOLEAN
    /\ target = "esp32s3" => native

\* Only the S3 has an APP-CPU reset pulse and sleeps batch by batch.
S3Only ==
    \/ "app_reset" \in wants
    \/ turn = "post"
    \/ async.on
    => target = "esp32s3"

\* From the publication of the time line until core 0 runs again, and through a
\* sleep, both cores have executed the same number of cycles.
CyclesShared == (turn \in {"sleep", "reset"} \/ async.on) => cyc[0] = cyc[1]

\* A sleep with a deadline is never stepped past it.
NotOverslept == async.timeout # Forever => async.elapsed <= SleepDeadline

\* preserve_rtc_mem is only ever set on the way into a reset.
KeepTakenBack == turn # "halted" => keep = FALSE

\* What is known of the variables' values.
Known ==
    /\ TypeOK
    /\ ConfigOK
    /\ resets \in Nat

\* The inductive part of the invariant.
IndInv ==
    /\ Known
    /\ S3Only
    /\ CyclesShared
    /\ NotOverslept
    /\ KeepTakenBack

\* The invariant with the two properties it supports.
FullInv == IndInv /\ InStep /\ WakesRight

-----------------------------------------------------------------------------
\* The operators of FiniteSetsExt on the sets of two and three numbers that the
\* session takes the larger or the smaller of.
LEMMA MaxOfTwo ==
    ASSUME NEW a \in Int, NEW b \in Int
    PROVE  Max({a, b}) = IF a >= b THEN a ELSE b
<1>1. \E x \in {a, b} : \A y \in {a, b} : x >= y
  OBVIOUS
<1>2. Max({a, b}) \in {a, b} /\ \A y \in {a, b} : Max({a, b}) >= y
  BY <1>1 DEF Max
<1> QED BY <1>2

\* Min of two numbers, as a bound and a member.
LEMMA MinOfTwo ==
    ASSUME NEW a \in Int, NEW b \in Int
    PROVE  Min({a, b}) \in {a, b} /\ Min({a, b}) <= a /\ Min({a, b}) <= b
<1>1. \E x \in {a, b} : \A y \in {a, b} : x <= y
  OBVIOUS
<1> QED BY <1>1 DEF Min

\* Min of three numbers, as a bound and a member.
LEMMA MinOfThree ==
    ASSUME NEW a \in Int, NEW b \in Int, NEW d \in Int
    PROVE  /\ Min({a, b, d}) \in {a, b, d}
           /\ Min({a, b, d}) <= a /\ Min({a, b, d}) <= b /\ Min({a, b, d}) <= d
<1>1. \E x \in {a, b, d} : \A y \in {a, b, d} : x <= y
  OBVIOUS
<1> QED BY <1>1 DEF Min

\* The published clock is at least as late as either core's.
LEMMA LatestOf ==
    ASSUME NEW f \in [Cores -> Nat]
    PROVE  /\ Latest(f) \in Nat
           /\ \A c \in Cores : Latest(f) >= f[c]
           /\ f[0] = f[1] => Latest(f) = f[0]
<1>1. {f[c] : c \in Cores} = {f[0], f[1]}
  BY DEF Cores
<1>2. f[0] \in Int /\ f[1] \in Int /\ f[0] \in Nat /\ f[1] \in Nat
  BY DEF Cores
<1>3. Latest(f) = IF f[0] >= f[1] THEN f[0] ELSE f[1]
  BY <1>1, <1>2, MaxOfTwo DEF Latest
<1> QED BY <1>2, <1>3 DEF Cores

\* Multiplication by the frequency, which the provers do not treat as linear.
LEMMA TimesMhz ==
    /\ Mhz \in Nat /\ Mhz > 0
    /\ \A a \in Nat : a * Mhz \in Nat
    /\ \A a, b \in Nat : (a + b) * Mhz = a * Mhz + b * Mhz
    /\ \A a, b \in Nat : a <= b => a * Mhz <= b * Mhz
<1>1. Mhz \in Nat /\ Mhz > 0
  BY SessionAssumption
<1>2. \A a \in Nat : a * Mhz \in Nat
  BY <1>1
<1>3. \A a, b \in Nat : (a + b) * Mhz = a * Mhz + b * Mhz
  BY <1>1
<1>4. ASSUME NEW a \in Nat, NEW b \in Nat, a <= b
      PROVE  a * Mhz <= b * Mhz
  <2>1. PICK d \in Nat : b = a + d
    <3>1. b - a \in Nat /\ b = a + (b - a)
      BY <1>4
    <3> QED BY <3>1
  <2>2. b * Mhz = a * Mhz + d * Mhz
    BY <1>3, <2>1
  <2> QED BY <1>2, <2>2
<1> QED BY <1>1, <1>2, <1>3, <1>4

-----------------------------------------------------------------------------
\* What a step must preserve and never do, put together.
Kept == TimeForward /\ RtcMemoryKept

\* The members of the two records and of the sets of functions in TypeOK.
LEMMA Typed ==
    ASSUME Known
    PROVE  /\ cyc \in [Cores -> Nat] /\ vt \in [Cores -> Nat]
           /\ ccount \in [Cores -> Nat] /\ spent \in [Cores -> Nat]
           /\ since \in Nat
           /\ rtc.alarm \in Nat /\ rtc.sources \in Causes
           /\ async.timeout \in Us /\ async.elapsed \in Nat
           /\ async.phase \in 0 .. Mhz - 1
           /\ \A c \in Cores : vt[c] * Mhz \in Nat /\ Clock(c) \in Nat
<1>1. /\ cyc \in [Cores -> Nat] /\ vt \in [Cores -> Nat]
      /\ ccount \in [Cores -> Nat] /\ spent \in [Cores -> Nat]
      /\ since \in Nat
  BY DEF Known, TypeOK
<1>2. /\ rtc.alarm \in Nat /\ rtc.sources \in Causes
      /\ async.timeout \in Us /\ async.elapsed \in Nat
      /\ async.phase \in 0 .. Mhz - 1
  BY DEF Known, TypeOK
<1>3. \A c \in Cores : vt[c] * Mhz \in Nat /\ Clock(c) \in Nat
  BY <1>1, TimesMhz DEF Clock
<1> QED BY <1>1, <1>2, <1>3

\* The RTC's own reading of the time, from the CCOUNT of both cores.
LEMMA RtcUsTyped ==
    ASSUME Known, NEW cc \in [Cores -> Nat]
    PROVE  RtcUs(cc) \in Nat
<1>1. cc[0] + spent[0] \in Nat /\ cc[1] + spent[1] \in Nat
  BY Typed DEF Cores
<1>2. {cc[c] + spent[c] : c \in Cores} = {cc[0] + spent[0], cc[1] + spent[1]}
  BY DEF Cores
<1> DEFINE a == cc[0] + spent[0]
           b == cc[1] + spent[1]
           m == Max({cc[c] + spent[c] : c \in Cores})
<1>3. m = IF a >= b THEN a ELSE b
  <2> HIDE DEF a, b
  <2>1. a \in Int /\ b \in Int
    BY <1>1 DEF a, b
  <2>2. Max({a, b}) = IF a >= b THEN a ELSE b
    BY <2>1, MaxOfTwo
  <2> QED BY <1>2, <2>2 DEF a, b
<1>4. m \in Nat
  BY <1>1, <1>3
<1> HIDE DEF m
<1>5. m \div Mhz \in Nat
  BY <1>4, TimesMhz
<1> QED BY <1>5 DEF RtcUs, m

\* How long the chip will sleep: a number of microseconds or for ever.
LEMMA SleepForTyped ==
    ASSUME Known
    PROVE  SleepFor \in Us /\ Left \in Nat
<1>1. NowUs \in Nat
  BY Typed, RtcUsTyped DEF NowUs
<1>2. rtc.alarm \in Nat
  BY Typed
<1>3. Max({0, rtc.alarm - NowUs}) \in Nat
  <2> DEFINE d == rtc.alarm - NowUs
  <2>1. d \in Int
    BY <1>1, <1>2
  <2> HIDE DEF d
  <2>2. Max({0, d}) = IF 0 >= d THEN 0 ELSE d
    BY <2>1, MaxOfTwo
  <2>3. Max({0, d}) \in Nat
    BY <2>1, <2>2
  <2> QED BY <2>3 DEF d
<1>4. Left \in Nat
  BY <1>2, <1>3 DEF Left
<1> QED BY <1>4 DEF SleepFor, Us

\* One batch of a sleeping chip advances time, and never past the deadline.
LEMMA SleepStepTyped ==
    ASSUME Known, NEW n \in Nat
    PROVE  /\ SleepStep(n) \in Nat
           /\ async.timeout # Forever /\ async.elapsed <= SleepDeadline
              => async.elapsed + SleepStep(n) <= SleepDeadline
<1> DEFINE s == SliceUs * Mhz
           d == SleepDeadline - async.elapsed
<1>1. s \in Nat
  BY SessionAssumption, TimesMhz
<1>2. CASE async.timeout = Forever
  <2> HIDE DEF s
  <2>1. SleepStep(n) = Min({n, s})
    <3>1. SleepStep(n) = Min({n, s} \cup {})
      BY <1>2 DEF SleepStep, s
    <3>2. {n, s} \cup {} = {n, s}
      OBVIOUS
    <3> QED BY <3>1, <3>2
  <2>2. n \in Int /\ s \in Int
    BY <1>1
  <2>3. Min({n, s}) \in {n, s}
    BY <2>2, MinOfTwo
  <2> QED BY <1>1, <1>2, <2>1, <2>3
<1>3. CASE async.timeout # Forever
  <2>1. async.timeout \in Nat /\ async.elapsed \in Nat
    BY <1>3, Typed DEF Us
  <2>2. SleepDeadline \in Nat
    BY <2>1, TimesMhz DEF SleepDeadline
  <2>3. d \in Int
    BY <2>1, <2>2
  <2> HIDE DEF s, d
  <2> DEFINE m == Max({0, d})
  <2>4. m = IF 0 >= d THEN 0 ELSE d
    BY <2>3, MaxOfTwo
  <2>5. m \in Nat
    BY <2>3, <2>4
  <2>6. SleepStep(n) = Min({n, s, m})
    <3>1. {n, s} \cup {m} = {n, s, m}
      OBVIOUS
    <3>2. SleepStep(n) = Min({n, s} \cup {m})
      BY <1>3 DEF SleepStep, s, d, m
    <3> QED BY <3>1, <3>2
  <2>7. Min({n, s, m}) \in Nat /\ Min({n, s, m}) <= m
    <3> HIDE DEF m
    <3>1. n \in Int /\ s \in Int /\ m \in Int
      BY <1>1, <2>5
    <3>2. /\ Min({n, s, m}) \in {n, s, m}
          /\ Min({n, s, m}) <= m
      BY <3>1, MinOfThree
    <3> QED BY <1>1, <2>5, <3>2
  <2> QED BY <2>1, <2>2, <2>4, <2>6, <2>7 DEF d
<1> QED BY <1>2, <1>3

-----------------------------------------------------------------------------
\* Steps that move no clock.
LEMMA Clockless ==
    ASSUME FullInv, UNCHANGED <<config, clocks, async, keep, resets>>, NoWake,
           turn # "halted", TypeOK', S3Only', CyclesShared'
    PROVE  FullInv' /\ Kept
<1>1. /\ target' = target /\ native' = native
      /\ cyc' = cyc /\ vt' = vt /\ ccount' = ccount /\ since' = since
      /\ async' = async /\ keep' = keep /\ resets' = resets
  BY DEF config, clocks
<1>2. \A c \in Cores : Clock(c)' = Clock(c)
  BY <1>1 DEF Clock
<1>3. IndInv'
  BY <1>1 DEF FullInv, IndInv, Known, ConfigOK, NotOverslept, SleepDeadline, KeepTakenBack
<1>4. InStep'
  BY <1>1, <1>2 DEF FullInv, InStep
<1>5. WakesRight'
  BY <1>1 DEF FullInv, WakesRight, NoWake, NotWoken, Forever, Timer
<1>6. Kept
  <2>1. \A c \in Cores : cyc[c] \in Nat /\ Clock(c) \in Nat
    BY Typed DEF FullInv, IndInv
  <2> QED BY <1>1, <1>2, <2>1 DEF Kept, TimeForward, RtcMemoryKept
<1> QED BY <1>3, <1>4, <1>5, <1>6 DEF FullInv

\* Guest code that writes the RTC controller or leaves a request.
LEMMA WritesStep ==
    ASSUME FullInv, NEW c \in Cores, NEW r, NEW w, Writes(c, r, w),
           r \in [ena : BOOLEAN, requested : BOOLEAN, sources : Causes,
                  armed : BOOLEAN, fired : BOOLEAN, alarm : Nat],
           w \subseteq {"reset", "app_reset"},
           "app_reset" \in w \ wants => target = "esp32s3"
    PROVE  FullInv' /\ Kept
<1>1. /\ turn \in {"run0", "run1"} /\ ~async.on
      /\ rtc' = r /\ wants' = w /\ turn' = turn /\ async' = async
      /\ UNCHANGED <<config, clocks, app, async, keep, rtcmem, resets>>
      /\ NoWake
  BY DEF Writes, Turn, history
<1>2. TypeOK'
  BY <1>1 DEF FullInv, IndInv, Known, TypeOK, clocks, app
<1>3. S3Only'
  BY <1>1 DEF FullInv, IndInv, S3Only, config
<1>4. CyclesShared'
  BY <1>1 DEF CyclesShared
<1> QED BY <1>1, <1>2, <1>3, <1>4, Clockless

\* Every guest operation but the two that spend time is such a step.
LEMMA RequestSteps ==
    ASSUME FullInv, NEW c \in Cores,
           \/ \E us \in Alarms : ArmAlarm(c, us)
           \/ \E S \in SUBSET {"timer", Pin} : SelectWake(c, S)
           \/ EnterSleep(c)
           \/ LeaveSleep(c)
           \/ ClearAlarm(c)
           \/ RequestReset(c)
           \/ RequestAppReset(c)
    PROVE  FullInv' /\ Kept
<1> DEFINE R == [ena : BOOLEAN, requested : BOOLEAN, sources : Causes,
                 armed : BOOLEAN, fired : BOOLEAN, alarm : Nat]
<1>1. Known /\ rtc \in R /\ wants \subseteq {"reset", "app_reset"}
  BY DEF FullInv, IndInv, Known, TypeOK
<1>2. NowUs \in Nat
  BY <1>1, Typed, RtcUsTyped DEF NowUs
<1>3. CanSleep \in BOOLEAN
  BY DEF CanSleep
<1>4. ASSUME NEW us \in Alarms, ArmAlarm(c, us)
      PROVE  FullInv' /\ Kept
  <2>1. us \in Nat
    BY SessionAssumption
  <2>2. (IF target = "esp32" THEN us ELSE NowUs + us) \in Nat
    BY <1>2, <2>1
  <2>3. [rtc EXCEPT !.armed = TRUE,
                    !.alarm = IF target = "esp32" THEN us ELSE NowUs + us] \in R
    BY <1>1, <2>2
  <2> QED BY <1>1, <1>4, <2>3, WritesStep DEF ArmAlarm
<1>5. ASSUME NEW S \in SUBSET {"timer", Pin}, SelectWake(c, S)
      PROVE  FullInv' /\ Kept
  <2>1. [rtc EXCEPT !.sources = S] \in R
    BY <1>1 DEF Causes
  <2> QED BY <1>1, <1>5, <2>1, WritesStep DEF SelectWake
<1>6. CASE EnterSleep(c)
  <2>1. [rtc EXCEPT !.ena = TRUE, !.requested = CanSleep] \in R
    BY <1>1, <1>3
  <2> QED BY <1>1, <1>6, <2>1, WritesStep DEF EnterSleep
<1>7. CASE LeaveSleep(c)
  <2>1. (target = "esp32" /\ rtc.requested) \in BOOLEAN
    OBVIOUS
  <2>2. [rtc EXCEPT !.ena = FALSE,
                    !.requested = target = "esp32" /\ rtc.requested] \in R
    BY <1>1, <2>1
  <2> QED BY <1>1, <1>7, <2>2, WritesStep DEF LeaveSleep
<1>8. CASE ClearAlarm(c)
  <2>1. [rtc EXCEPT !.fired = FALSE] \in R
    BY <1>1
  <2> QED BY <1>1, <1>8, <2>1, WritesStep DEF ClearAlarm
<1>9. CASE RequestReset(c)
  BY <1>1, <1>9, WritesStep DEF RequestReset
<1>10. CASE RequestAppReset(c)
  BY <1>1, <1>10, WritesStep DEF RequestAppReset
<1> QED BY <1>4, <1>5, <1>6, <1>7, <1>8, <1>9, <1>10

\* The guest writes RTC memory.
LEMMA WriteRtcMemStep ==
    ASSUME FullInv, NEW c \in Cores, WriteRtcMem(c)
    PROVE  FullInv' /\ Kept
<1>1. /\ turn \in {"run0", "run1"} /\ ~async.on /\ turn' = turn
      /\ rtcmem' = "guest"
      /\ UNCHANGED <<config, clocks, app, rtc, wants, async, keep, resets>>
      /\ NoWake
  BY DEF WriteRtcMem, Turn
<1>2. TypeOK'
  BY <1>1 DEF FullInv, IndInv, Known, TypeOK, clocks, app
<1>3. S3Only' /\ CyclesShared'
  BY <1>1 DEF FullInv, IndInv, S3Only, CyclesShared, config
<1> QED BY <1>1, <1>2, <1>3, Clockless

\* The guest releases, holds or boots the second core.
LEMMA ControlAppStep ==
    ASSUME FullInv, NEW r \in BOOLEAN, NEW b \in BOOLEAN, ControlApp(r, b)
    PROVE  FullInv' /\ Kept
<1>1. /\ turn = "run0" /\ ~async.on /\ turn' = turn
      /\ released' = r /\ boot' = (boot \/ b)
      /\ UNCHANGED <<config, clocks, started, running, rtc, wants, async, keep,
                     rtcmem, resets>>
      /\ NoWake
  BY DEF ControlApp, Turn, history
<1>2. TypeOK'
  <2>1. boot' \in BOOLEAN
    BY <1>1 DEF FullInv, IndInv, Known, TypeOK
  <2> QED BY <1>1, <2>1 DEF FullInv, IndInv, Known, TypeOK, clocks
<1>3. S3Only' /\ CyclesShared'
  BY <1>1 DEF FullInv, IndInv, S3Only, CyclesShared, config
<1> QED BY <1>1, <1>2, <1>3, Clockless

\* A core's batch ends and the loop moves on.
LEMMA BatchEndsStep ==
    ASSUME FullInv, NEW c \in Cores, BatchEnds(c)
    PROVE  FullInv' /\ Kept
<1>1. /\ turn \in {"run0", "run1"} /\ ~async.on
      /\ turn' \in {"publish", AfterRun}
      /\ UNCHANGED <<config, clocks, app, rtc, wants, async, keep, rtcmem, resets>>
      /\ NoWake
  BY DEF BatchEnds, Turn, history
<1>2. TypeOK'
  BY <1>1 DEF FullInv, IndInv, Known, TypeOK, clocks, app, AfterRun
<1>3. S3Only' /\ CyclesShared'
  BY <1>1 DEF FullInv, IndInv, S3Only, CyclesShared, config, AfterRun
<1> QED BY <1>1, <1>2, <1>3, Clockless

\* The loop polls whether the second core starts.
LEMMA StartAppStep ==
    ASSUME FullInv, StartApp
    PROVE  FullInv' /\ Kept
<1>1. /\ turn = "poll" /\ ~async.on
      /\ turn' \in {"run1", "publish"}
      /\ started' = (started \/ Starts)
      /\ running' \in {TRUE, running, running \/ (released /\ ~native)}
      /\ UNCHANGED <<config, clocks, released, boot, rtc, wants, async, keep,
                     rtcmem, resets>>
      /\ NoWake
  BY DEF StartApp, history
<1>2. TypeOK'
  <2>1. started' \in BOOLEAN /\ running' \in BOOLEAN
    BY <1>1 DEF FullInv, IndInv, Known, TypeOK
  <2> QED BY <1>1, <2>1 DEF FullInv, IndInv, Known, TypeOK, clocks
<1>3. S3Only' /\ CyclesShared'
  BY <1>1 DEF FullInv, IndInv, S3Only, CyclesShared, config
<1> QED BY <1>1, <1>2, <1>3, Clockless

\* A sleep request the session does not accept.
LEMMA DropRequestStep ==
    ASSUME FullInv, DropRequest
    PROVE  FullInv' /\ Kept
<1>1. /\ turn = "sleep" /\ turn' \in {"reset", "run0"}
      /\ rtc' = [rtc EXCEPT !.requested = FALSE]
      /\ UNCHANGED <<config, clocks, app, wants, async, keep, rtcmem, resets>>
      /\ NoWake
  BY DEF DropRequest, AfterSleep, history
<1>2. TypeOK'
  BY <1>1 DEF FullInv, IndInv, Known, TypeOK, clocks, app
<1>3. S3Only' /\ CyclesShared'
  BY <1>1 DEF FullInv, IndInv, S3Only, CyclesShared, config, clocks
<1> QED BY <1>1, <1>2, <1>3, Clockless

\* Executing instructions counts them in cycle_count and in CCOUNT.
LEMMA ExecuteStep ==
    ASSUME FullInv, NEW c \in Cores, NEW n \in Runs, Execute(c, n)
    PROVE  FullInv' /\ Kept
<1>1. /\ turn \in {"run0", "run1"} /\ ~async.on
      /\ cyc' = [cyc EXCEPT ![c] = @ + n] /\ ccount' = [ccount EXCEPT ![c] = @ + n]
      /\ UNCHANGED <<config, turn, vt, spent, since, app, rtc, wants, async, keep,
                     rtcmem, resets>>
      /\ NoWake
  BY DEF Execute, Turn, Idle, history
<1>2. n \in Nat
  BY SessionAssumption
<1>3. /\ cyc \in [Cores -> Nat] /\ ccount \in [Cores -> Nat] /\ since \in Nat
      /\ \A k \in Cores : vt[k] * Mhz \in Nat
  BY Typed DEF FullInv, IndInv
<1>4. cyc' \in [Cores -> Nat] /\ ccount' \in [Cores -> Nat]
  BY <1>1, <1>2, <1>3
<1>5. TypeOK'
  BY <1>1, <1>4 DEF FullInv, IndInv, Known, TypeOK, app
<1>6. IndInv'
  BY <1>1, <1>5 DEF FullInv, IndInv, Known, ConfigOK, S3Only, CyclesShared,
                    NotOverslept, SleepDeadline, KeepTakenBack, config
<1>7. \A k \in Cores : /\ cyc'[k] = IF k = c THEN cyc[k] + n ELSE cyc[k]
                       /\ ccount'[k] = IF k = c THEN ccount[k] + n ELSE ccount[k]
                       /\ vt'[k] * Mhz = vt[k] * Mhz
  BY <1>1, <1>3
<1>8. InStep'
  BY <1>1, <1>2, <1>3, <1>7 DEF FullInv, InStep, Clock, config
<1>9. WakesRight'
  BY <1>1 DEF FullInv, WakesRight, NoWake, NotWoken, Forever, Timer
<1>10. Kept
  BY <1>1, <1>2, <1>3, <1>7 DEF Kept, TimeForward, RtcMemoryKept, Clock
<1> QED BY <1>6, <1>8, <1>9, <1>10 DEF FullInv

\* Skipping a wait advances virtual time, and CCOUNT by as many cycles.
LEMMA FastForwardStep ==
    ASSUME FullInv, NEW c \in Cores, NEW us \in Waits, FastForward(c, us)
    PROVE  FullInv' /\ Kept
<1>1. /\ turn \in {"run0", "run1"} /\ ~async.on
      /\ vt' = [vt EXCEPT ![c] = @ + us]
      /\ ccount' = [ccount EXCEPT ![c] = @ + us * Mhz]
      /\ UNCHANGED <<config, turn, cyc, spent, since, app, rtc, wants, async, keep,
                     rtcmem, resets>>
      /\ NoWake
  BY DEF FastForward, Turn, Idle, history
<1>2. us \in Nat /\ us * Mhz \in Nat
  BY SessionAssumption, TimesMhz
<1>3. /\ cyc \in [Cores -> Nat] /\ ccount \in [Cores -> Nat] /\ since \in Nat
      /\ vt \in [Cores -> Nat]
      /\ \A k \in Cores : vt[k] * Mhz \in Nat
  BY Typed DEF FullInv, IndInv
<1>4. vt' \in [Cores -> Nat] /\ ccount' \in [Cores -> Nat]
  BY <1>1, <1>2, <1>3
<1>5. TypeOK'
  BY <1>1, <1>4 DEF FullInv, IndInv, Known, TypeOK, app
<1>6. IndInv'
  BY <1>1, <1>5 DEF FullInv, IndInv, Known, ConfigOK, S3Only, CyclesShared,
                    NotOverslept, SleepDeadline, KeepTakenBack, config
<1>7. \A k \in Cores :
         /\ cyc'[k] = cyc[k]
         /\ ccount'[k] = IF k = c THEN ccount[k] + us * Mhz ELSE ccount[k]
         /\ vt'[k] * Mhz = IF k = c THEN vt[k] * Mhz + us * Mhz ELSE vt[k] * Mhz
  BY <1>1, <1>2, <1>3, TimesMhz
<1>8. InStep'
  BY <1>1, <1>2, <1>3, <1>7 DEF FullInv, InStep, Clock, config
<1>9. WakesRight'
  BY <1>1 DEF FullInv, WakesRight, NoWake, NotWoken, Forever, Timer
<1>10. Kept
  BY <1>1, <1>2, <1>3, <1>7 DEF Kept, TimeForward, RtcMemoryKept, Clock
<1> QED BY <1>6, <1>8, <1>9, <1>10 DEF FullInv

-----------------------------------------------------------------------------
\* The APP-CPU reset pulse restarts one CCOUNT; only native firmware has one.
LEMMA TakeAppResetStep ==
    ASSUME FullInv, TakeAppReset
    PROVE  FullInv' /\ Kept
<1>1. /\ turn = "post" /\ turn' = "poll"
      /\ wants' = wants \ {"app_reset"}
      /\ ccount' = [ccount EXCEPT ![1] = 0]
      /\ spent' = [spent EXCEPT ![1] = @ + ccount[1]]
      /\ started' = FALSE /\ running' = FALSE
      /\ UNCHANGED <<config, cyc, vt, since, released, boot, rtc, async, keep,
                     rtcmem, resets>>
      /\ NoWake
  BY DEF TakeAppReset, history
<1>2. /\ ccount \in [Cores -> Nat] /\ spent \in [Cores -> Nat] /\ cyc \in [Cores -> Nat]
      /\ \A k \in Cores : Clock(k) \in Nat
  BY Typed DEF FullInv, IndInv
<1>3. ccount' \in [Cores -> Nat] /\ spent' \in [Cores -> Nat]
  BY <1>1, <1>2 DEF Cores
<1>4. TypeOK'
  BY <1>1, <1>3, ZenonT(40) DEF FullInv, IndInv, Known, TypeOK
<1>5. IndInv'
  BY <1>1, <1>4 DEF FullInv, IndInv, Known, ConfigOK, S3Only, CyclesShared,
                    NotOverslept, SleepDeadline, KeepTakenBack, config
<1>6. native /\ native'
  BY <1>1 DEF FullInv, IndInv, Known, ConfigOK, S3Only, config
<1>7. InStep' /\ WakesRight'
  BY <1>1, <1>6 DEF FullInv, InStep, WakesRight, NoWake, NotWoken, Forever, Timer
<1>8. Kept
  BY <1>1, <1>2 DEF Kept, TimeForward, RtcMemoryKept, Clock
<1> QED BY <1>5, <1>7, <1>8 DEF FullInv

\* A batch of a sleeping chip: whole microseconds go to virtual time, the rest is
\* carried; only native firmware sleeps this way.
LEMMA RunAsleepStep ==
    ASSUME FullInv, NEW n \in BatchCycles, RunAsleep(n)
    PROVE  FullInv' /\ Kept
<1> DEFINE step == SleepStep(Counted(n))
           us == (async.phase + step) \div Mhz
<1>1. /\ turn = "run0" /\ async.on /\ turn' = AfterRun
      /\ async' = [async EXCEPT !.elapsed = @ + step, !.phase = Phase(step)]
      /\ vt' = Both(vt, us) /\ ccount' = Both(ccount, step)
      /\ UNCHANGED <<config, cyc, spent, since, app, rtc, wants, keep, rtcmem, resets>>
      /\ NoWake
  BY DEF RunAsleep, history
<1>2. Known
  BY DEF FullInv, IndInv
<1>3. /\ vt \in [Cores -> Nat] /\ ccount \in [Cores -> Nat] /\ cyc \in [Cores -> Nat]
      /\ async.elapsed \in Nat /\ async.phase \in 0 .. Mhz - 1
      /\ \A k \in Cores : vt[k] * Mhz \in Nat
  BY <1>2, Typed
<1>4. Counted(n) \in Nat
  BY SessionAssumption DEF Counted
<1> HIDE DEF step
<1>5. /\ step \in Nat
      /\ async.timeout # Forever => async.elapsed + step <= SleepDeadline
  BY <1>2, <1>4, SleepStepTyped DEF step, FullInv, IndInv, NotOverslept
<1>6. Phase(step) \in 0 .. Mhz - 1 /\ us \in Nat
  BY <1>3, <1>5, TimesMhz DEF Phase
<1> HIDE DEF us
<1>7. vt' \in [Cores -> Nat] /\ ccount' \in [Cores -> Nat]
  BY <1>1, <1>3, <1>5, <1>6 DEF Both
<1>8. /\ async' \in [on : BOOLEAN, deep : BOOLEAN, timeout : Us, elapsed : Nat,
                     phase : 0 .. Mhz - 1]
      /\ async'.on = async.on /\ async'.timeout = async.timeout
      /\ async'.elapsed = async.elapsed + step /\ async'.phase = Phase(step)
  <2> DEFINE A == [on : BOOLEAN, deep : BOOLEAN, timeout : Us, elapsed : Nat,
                   phase : 0 .. Mhz - 1]
  <2>1. async \in A
    BY <1>2 DEF Known, TypeOK
  <2>2. async.elapsed + step \in Nat
    BY <1>3, <1>5
  <2> DEFINE e == async.elapsed + step
             p == Phase(step)
  <2>3. e \in Nat /\ p \in 0 .. Mhz - 1
    BY <1>6, <2>2
  <2>4. async' = [async EXCEPT !.elapsed = e, !.phase = p]
    BY <1>1
  <2> HIDE DEF e, p
  <2>5. async' \in A
    BY <2>1, <2>3, <2>4
  <2>6. /\ async'.on = async.on /\ async'.timeout = async.timeout
        /\ async'.elapsed = e /\ async'.phase = p
    BY <2>1, <2>4
  <2> QED BY <2>5, <2>6 DEF e, p
<1>9. TypeOK'
  BY <1>1, <1>2, <1>7, <1>8 DEF Known, TypeOK, app, AfterRun
<1>10. NotOverslept'
  BY <1>5, <1>8 DEF NotOverslept, SleepDeadline
<1>11. IndInv'
  BY <1>1, <1>8, <1>9, <1>10
     DEF FullInv, IndInv, Known, ConfigOK, S3Only, CyclesShared, KeepTakenBack,
         config, AfterRun
<1>12. native /\ native'
  BY <1>1 DEF FullInv, IndInv, Known, ConfigOK, S3Only, config
<1>13. InStep' /\ WakesRight'
  BY <1>1, <1>6, <1>8, <1>12
     DEF InStep, WakesRight, NoWake, NotWoken, Forever, Timer
<1>14. Kept
  <2>1. \A k \in Cores : /\ cyc'[k] = cyc[k] /\ vt'[k] = vt[k] + us
                         /\ vt'[k] * Mhz = vt[k] * Mhz + us * Mhz
                         /\ us * Mhz \in Nat
    BY <1>1, <1>3, <1>6, TimesMhz DEF Both
  <2> QED BY <1>1, <1>3, <2>1 DEF Kept, TimeForward, RtcMemoryKept, Clock
<1> QED BY <1>11, <1>13, <1>14 DEF FullInv

\* Publishing one time line moves neither core back, and takes CCOUNT along.
LEMMA PublishStep ==
    ASSUME FullInv, Publish
    PROVE  FullInv' /\ Kept
<1> DEFINE lc == Latest(cyc)
           lv == Latest(vt)
<1>1. /\ turn = "publish" /\ turn' \in {"sleep", "reset", "run0"}
      /\ PublishClocks
      /\ UNCHANGED <<config, spent, since, app, rtc, wants, async, keep, rtcmem, resets>>
      /\ NoWake
  BY DEF Publish, AfterPublish, AfterSleep, history
<1>2. /\ vt \in [Cores -> Nat] /\ ccount \in [Cores -> Nat] /\ cyc \in [Cores -> Nat]
      /\ since \in Nat
      /\ \A k \in Cores : vt[k] * Mhz \in Nat /\ Clock(k) \in Nat
  BY Typed DEF FullInv, IndInv
<1>3. /\ lc \in Nat /\ lv \in Nat
      /\ \A k \in Cores : lc >= cyc[k] /\ lv >= vt[k]
  BY <1>2, LatestOf
<1> HIDE DEF lc, lv
<1>4. /\ lv * Mhz \in Nat
      /\ \A k \in Cores : lv * Mhz >= vt[k] * Mhz
  BY <1>2, <1>3, TimesMhz
<1>5. /\ cyc' = [k \in Cores |-> lc]
      /\ vt' = IF native THEN vt ELSE [k \in Cores |-> lv]
      /\ ccount' = IF native THEN ccount
                   ELSE [k \in Cores |-> ccount[k] + (lc + lv * Mhz) - Clock(k)]
  BY <1>1 DEF PublishClocks, lc, lv
<1>6. \A k \in Cores : ccount[k] + (lc + lv * Mhz) - Clock(k) \in Nat
  BY <1>2, <1>3, <1>4 DEF Clock
<1>7. cyc' \in [Cores -> Nat] /\ vt' \in [Cores -> Nat] /\ ccount' \in [Cores -> Nat]
  BY <1>2, <1>3, <1>5, <1>6
<1>8. TypeOK'
  BY <1>1, <1>7 DEF FullInv, IndInv, Known, TypeOK, app
<1>9. IndInv'
  <2>1. CyclesShared'
    BY <1>5 DEF CyclesShared, Cores
  <2> QED BY <1>1, <1>8, <2>1
          DEF FullInv, IndInv, Known, ConfigOK, S3Only, NotOverslept, SleepDeadline,
              KeepTakenBack, config
<1>10. InStep'
  <2> SUFFICES ASSUME ~native', NEW k \in Cores
               PROVE  ccount'[k] = Clock(k)' - since'
    BY DEF InStep
  <2>1. ~native /\ since' = since
    BY <1>1 DEF config
  <2>2. ccount[k] = Clock(k) - since
    BY <2>1 DEF FullInv, InStep
  <2>3. /\ ccount'[k] = ccount[k] + (lc + lv * Mhz) - Clock(k)
        /\ Clock(k)' = lc + lv * Mhz
    BY <1>5, <2>1 DEF Clock
  <2> QED BY <1>2, <1>3, <1>4, <2>1, <2>2, <2>3
<1>11. WakesRight'
  BY <1>1 DEF FullInv, WakesRight, NoWake, NotWoken, Forever, Timer
<1>12. Kept
  <2>1. \A k \in Cores : cyc'[k] = lc /\ cyc'[k] >= cyc[k]
    BY <1>3, <1>5
  <2>2. \A k \in Cores : vt'[k] * Mhz >= vt[k] * Mhz /\ vt'[k] * Mhz \in Nat
    BY <1>2, <1>4, <1>5
  <2>3. \A k \in Cores : Clock(k)' >= Clock(k)
    BY <1>2, <1>3, <2>1, <2>2 DEF Clock
  <2> QED BY <1>1, <2>1, <2>3 DEF Kept, TimeForward, RtcMemoryKept
<1> QED BY <1>9, <1>10, <1>11, <1>12 DEF FullInv

\* An accepted sleep request with a host to wait for.
LEMMA FallAsleepStep ==
    ASSUME FullInv, FallAsleep
    PROVE  FullInv' /\ Kept
<1>1. PICK deep \in Deep :
        async' = [Awake EXCEPT !.on = TRUE, !.deep = deep, !.timeout = SleepFor]
  BY DEF FallAsleep
<1>2. /\ turn = "sleep" /\ turn' = "run0" /\ target = "esp32s3"
      /\ rtc' = [rtc EXCEPT !.requested = FALSE]
      /\ UNCHANGED <<config, clocks, app, wants, keep, rtcmem, resets>>
      /\ NoWake
  BY DEF FallAsleep, Sleeps, SleepAsync, history
<1>3. SleepFor \in Us /\ deep \in BOOLEAN
  BY SleepForTyped DEF FullInv, IndInv, Deep
<1>4. /\ async' \in [on : BOOLEAN, deep : BOOLEAN, timeout : Us, elapsed : Nat,
                     phase : 0 .. Mhz - 1]
      /\ async'.timeout = SleepFor /\ async'.elapsed = 0 /\ async'.phase = 0
  <2>1. async' = [on |-> TRUE, deep |-> deep, timeout |-> SleepFor, elapsed |-> 0,
                  phase |-> 0]
    BY <1>1 DEF Awake
  <2>2. 0 \in 0 .. Mhz - 1
    BY TimesMhz
  <2> QED BY <1>3, <2>1, <2>2
<1>5. TypeOK'
  BY <1>2, <1>4 DEF FullInv, IndInv, Known, TypeOK, clocks, app
<1>6. NotOverslept'
  <2>1. SleepFor # Forever => SleepFor * Mhz \in Nat
    BY <1>3, TimesMhz DEF Us
  <2> QED BY <1>4, <2>1 DEF NotOverslept, SleepDeadline
<1>7. IndInv'
  BY <1>2, <1>5, <1>6 DEF FullInv, IndInv, Known, ConfigOK, S3Only, CyclesShared,
                          KeepTakenBack, config, clocks
<1>8. \A k \in Cores : Clock(k)' = Clock(k) /\ Clock(k) \in Nat /\ cyc[k] \in Nat
  BY <1>2, Typed DEF Clock, clocks, FullInv, IndInv
<1>9. InStep'
  BY <1>2, <1>8 DEF FullInv, InStep, config, clocks
<1>10. WakesRight'
  BY <1>2, <1>4, TimesMhz DEF WakesRight, NoWake, NotWoken, Forever, Timer
<1>11. Kept
  BY <1>2, <1>8 DEF Kept, TimeForward, RtcMemoryKept, clocks
<1> QED BY <1>7, <1>9, <1>10, <1>11 DEF FullInv

-----------------------------------------------------------------------------
\* What a step that wakes the chip leaves to be shown: the answer it gives.
AllButAnswer == IndInv /\ InStep

\* The facts about an answer that WakesRight asks for.
Answer(cause, polled, slept, ordered) ==
    /\ ordered >= 0 => slept <= ordered
    /\ cause = Timer => slept = ordered /\ polled = {}

\* A true account of a wake-up makes the answer right.
LEMMA AnswerRight ==
    ASSUME Known', NEW cause, NEW polled, NEW slept, NEW ordered,
           Told(cause, polled, slept, ordered), Answer(cause, polled, slept, ordered)
    PROVE  WakesRight'
<1>1. async'.phase \in 0 .. Mhz - 1
  BY DEF Known, TypeOK
<1> QED BY <1>1 DEF WakesRight, Told, Answer

\* A rebuilt chip: both cores start at the executed cycles the reset found.
LEMMA RebuiltStep ==
    ASSUME AllButAnswer, Rebuilt, UNCHANGED config, keep' = FALSE, turn' = "run0",
           rtcmem' \in {"image", "guest"}, cyc[0] = cyc[1]
    PROVE  AllButAnswer' /\ TimeForward /\ resets' # resets
<1>1. /\ started' = FALSE /\ running' = FALSE /\ released' = FALSE /\ boot' = FALSE
      /\ rtc' = RtcReset /\ wants' = {} /\ async' = Awake
      /\ vt' = [c \in Cores |-> 0] /\ ccount' = [c \in Cores |-> 0]
      /\ spent' = [c \in Cores |-> 0]
      /\ resets' = resets + 1
      /\ cyc' = [c \in Cores |-> cyc[0]] /\ since' = cyc[0]
  BY DEF Rebuilt, Fresh
<1>2. cyc \in [Cores -> Nat] /\ cyc[0] \in Nat /\ resets \in Nat
  BY Typed DEF AllButAnswer, IndInv, Known, Cores
<1>3. /\ cyc' \in [Cores -> Nat] /\ vt' \in [Cores -> Nat] /\ ccount' \in [Cores -> Nat]
      /\ spent' \in [Cores -> Nat] /\ since' \in Nat
  BY <1>1, <1>2
<1>4. 0 \in 0 .. Mhz - 1
  BY TimesMhz
<1>5. /\ rtc' \in [ena : BOOLEAN, requested : BOOLEAN, sources : Causes,
                   armed : BOOLEAN, fired : BOOLEAN, alarm : Nat]
      /\ async' \in [on : BOOLEAN, deep : BOOLEAN, timeout : Us, elapsed : Nat,
                     phase : 0 .. Mhz - 1]
      /\ async'.on = FALSE /\ async'.timeout = 0 /\ async'.elapsed = 0
  BY <1>1, <1>4 DEF RtcReset, Awake, Causes, Us
<1>6. TypeOK'
  BY <1>1, <1>3, <1>5 DEF TypeOK
<1>7. NotOverslept'
  BY <1>5, TimesMhz DEF NotOverslept, SleepDeadline
<1>8. IndInv'
  BY <1>1, <1>2, <1>5, <1>6, <1>7
     DEF AllButAnswer, IndInv, Known, ConfigOK, S3Only, CyclesShared, KeepTakenBack,
         config
<1>9. InStep'
  BY <1>1, <1>2, TimesMhz DEF InStep, Clock
<1>10. TimeForward /\ resets' # resets
  BY <1>1, <1>2 DEF TimeForward, Cores
<1> QED BY <1>8, <1>9, <1>10 DEF AllButAnswer

\* The rebuild fails: everything stops where it is.
LEMMA RebuildFailsStep ==
    ASSUME AllButAnswer, NEW k \in BOOLEAN, RebuildFails(k), UNCHANGED config
    PROVE  AllButAnswer' /\ Kept
<1>1. /\ turn' = "halted" /\ keep' = k /\ async' = [async EXCEPT !.on = FALSE]
      /\ running' = FALSE
      /\ UNCHANGED <<clocks, started, released, boot, rtc, wants, rtcmem, resets>>
  BY DEF RebuildFails
<1>2. /\ async' \in [on : BOOLEAN, deep : BOOLEAN, timeout : Us, elapsed : Nat,
                     phase : 0 .. Mhz - 1]
      /\ async'.on = FALSE /\ async'.timeout = async.timeout
      /\ async'.elapsed = async.elapsed
  BY <1>1 DEF AllButAnswer, IndInv, Known, TypeOK
<1>3. TypeOK'
  BY <1>1, <1>2 DEF AllButAnswer, IndInv, Known, TypeOK, clocks
<1>4. IndInv'
  BY <1>1, <1>2, <1>3
     DEF AllButAnswer, IndInv, Known, ConfigOK, S3Only, CyclesShared, NotOverslept,
         SleepDeadline, KeepTakenBack, config
<1>5. \A c \in Cores : Clock(c)' = Clock(c) /\ Clock(c) \in Nat /\ cyc[c] \in Nat
  BY <1>1, Typed DEF Clock, clocks, AllButAnswer, IndInv
<1>6. InStep'
  BY <1>1, <1>5 DEF AllButAnswer, InStep, config, clocks
<1>7. Kept
  BY <1>1, <1>5 DEF Kept, TimeForward, RtcMemoryKept, clocks
<1> QED BY <1>4, <1>6, <1>7 DEF AllButAnswer

\* A deep-sleep wake keeps RTC memory, a software reset does not.
LEMMA DeepWakeStep ==
    ASSUME AllButAnswer, DeepWake, UNCHANGED config, cyc[0] = cyc[1]
    PROVE  AllButAnswer' /\ Kept
<1>1. rtcmem \in {"image", "guest"}
  BY DEF AllButAnswer, IndInv, Known, TypeOK
<1>2. CASE Reset(TRUE) /\ turn' = "run0" /\ why' = "deepsleep"
  <2>1. AllButAnswer' /\ TimeForward
    BY <1>1, <1>2, RebuiltStep DEF Reset
  <2>2. RtcMemoryKept
    BY <1>2 DEF Reset, RtcMemoryKept
  <2> QED BY <2>1, <2>2 DEF Kept
<1>3. CASE RebuildFails(TRUE)
  BY <1>3, RebuildFailsStep
<1> QED BY <1>2, <1>3 DEF DeepWake

\* A reset other than the one that ends a deep sleep.
LEMMA SoftResetStep ==
    ASSUME AllButAnswer, SoftReset, UNCHANGED config, cyc[0] = cyc[1],
           turn # "halted"
    PROVE  AllButAnswer' /\ Kept
<1>1. rtcmem \in {"image", "guest"} /\ keep = FALSE
  BY DEF AllButAnswer, IndInv, Known, TypeOK, KeepTakenBack
<1>2. CASE /\ Reset(keep) /\ turn' = "run0"
           /\ why' = IF target = "esp32s3" THEN "software" ELSE "poweron"
  <2>1. AllButAnswer' /\ TimeForward
    BY <1>1, <1>2, RebuiltStep DEF Reset
  <2>2. RtcMemoryKept
    BY <1>1, <1>2 DEF Reset, RtcMemoryKept
  <2> QED BY <2>1, <2>2 DEF Kept
<1>3. CASE RebuildFails(keep)
  BY <1>1, <1>3, RebuildFailsStep
<1> QED BY <1>2, <1>3 DEF SoftReset

\* A light sleep that ends after slept microseconds of virtual time.
LEMMA LightWakeStep ==
    ASSUME AllButAnswer, LightWake, UNCHANGED config, NEW slept \in Nat,
           vt' = Both(vt, slept), ccount' = Both(ccount, slept * Mhz),
           UNCHANGED cyc, turn # "halted", turn' \in {"run0", "reset"},
           turn' = "reset" => cyc[0] = cyc[1]
    PROVE  AllButAnswer' /\ Kept
<1>1. /\ async' = Awake
      /\ UNCHANGED <<app, wants, keep, rtcmem, resets, why, spent, since>>
      /\ target' = target /\ native' = native
  BY DEF LightWake, config
<1>2. Known
  BY DEF AllButAnswer, IndInv
<1>3. /\ vt \in [Cores -> Nat] /\ ccount \in [Cores -> Nat] /\ cyc \in [Cores -> Nat]
      /\ spent \in [Cores -> Nat] /\ since \in Nat /\ slept * Mhz \in Nat
      /\ \A c \in Cores : vt[c] * Mhz \in Nat
  BY <1>2, Typed, TimesMhz
<1>4. vt' \in [Cores -> Nat] /\ ccount' \in [Cores -> Nat]
  BY <1>3 DEF Both
<1> DEFINE A == [on : BOOLEAN, deep : BOOLEAN, timeout : Us, elapsed : Nat,
                 phase : 0 .. Mhz - 1]
           R == [ena : BOOLEAN, requested : BOOLEAN, sources : Causes,
                 armed : BOOLEAN, fired : BOOLEAN, alarm : Nat]
<1>5. async' \in A /\ async'.on = FALSE /\ async'.timeout = 0 /\ async'.elapsed = 0
  <2>1. 0 \in 0 .. Mhz - 1
    BY TimesMhz
  <2> QED BY <1>1, <2>1 DEF Awake, Us
<1>6. rtc' \in R
  <2>1. rtc \in R
    BY <1>2 DEF Known, TypeOK
  <2>2. CASE target = "esp32"
    BY <2>1, <2>2 DEF LightWake
  <2>3. CASE target # "esp32"
    <3> DEFINE f == rtc.fired \/ (rtc.armed /\ RtcUs(ccount') >= rtc.alarm)
    <3>1. rtc' = [rtc EXCEPT !.ena = FALSE, !.requested = FALSE, !.armed = FALSE,
                             !.alarm = 0, !.fired = f]
      BY <2>3 DEF LightWake
    <3>2. f \in BOOLEAN
      OBVIOUS
    <3> HIDE DEF f
    <3> QED BY <2>1, <3>1, <3>2
  <2> QED BY <2>2, <2>3
<1>7. TypeOK'
  BY <1>1, <1>2, <1>3, <1>4, <1>5, <1>6 DEF Known, TypeOK, app
<1>8. NotOverslept'
  BY <1>5, TimesMhz DEF NotOverslept, SleepDeadline
<1>9. IndInv'
  BY <1>1, <1>5, <1>7, <1>8
     DEF AllButAnswer, IndInv, Known, ConfigOK, S3Only, CyclesShared, KeepTakenBack
<1>10. \A c \in Cores : /\ ccount'[c] = ccount[c] + slept * Mhz
                        /\ cyc'[c] = cyc[c]
                        /\ vt'[c] * Mhz = vt[c] * Mhz + slept * Mhz
  BY <1>3, TimesMhz DEF Both
<1>11. InStep'
  BY <1>1, <1>3, <1>10 DEF AllButAnswer, InStep, Clock
<1>12. Kept
  BY <1>1, <1>3, <1>10 DEF Kept, TimeForward, RtcMemoryKept, Clock
<1> QED BY <1>9, <1>11, <1>12 DEF AllButAnswer

\* The same for a wake at once, which leaves the clocks alone.
LEMMA LightWakeAtOnce ==
    ASSUME AllButAnswer, LightWake, UNCHANGED config, UNCHANGED <<cyc, vt, ccount>>,
           turn # "halted", turn' = "run0"
    PROVE  AllButAnswer' /\ Kept
<1>1. vt \in [Cores -> Nat] /\ ccount \in [Cores -> Nat] /\ 0 * Mhz = 0
  BY Typed, TimesMhz DEF AllButAnswer, IndInv
<1>2. vt' = Both(vt, 0) /\ ccount' = Both(ccount, 0 * Mhz)
  BY <1>1 DEF Both
<1> QED BY <1>2, LightWakeStep

-----------------------------------------------------------------------------
\* The end of a sleep that was slept batch by batch.
LEMMA PollAsleepStep ==
    ASSUME FullInv, PollAsleep
    PROVE  FullInv' /\ Kept
<1>1. /\ turn = "poll" /\ async.on /\ UNCHANGED config
      /\ AllButAnswer /\ Known /\ cyc[0] = cyc[1]
  BY DEF PollAsleep, FullInv, AllButAnswer, IndInv, CyclesShared
<1>2. PICK polled \in Polls :
         \/ WakeCause(polled) = {} /\ turn' = "run0"
            /\ UNCHANGED <<clocks, app, rtc, wants, async, history>> /\ NoWake
         \/ WakeCause(polled) # {} /\ FinishAsync(polled)
  BY DEF PollAsleep
<1>3. CASE WakeCause(polled) = {} /\ turn' = "run0"
           /\ UNCHANGED <<clocks, app, rtc, wants, async, history>> /\ NoWake
  <2>1. /\ UNCHANGED <<config, clocks, app, rtc, wants, async, keep, rtcmem, resets>>
        /\ NoWake /\ turn' = "run0"
    BY <1>1, <1>3 DEF history
  <2>2. TypeOK'
    BY <1>1, <2>1 DEF Known, TypeOK, clocks, app
  <2>3. S3Only' /\ CyclesShared'
    BY <1>1, <2>1 DEF FullInv, IndInv, S3Only, CyclesShared, config, clocks
  <2> QED BY <1>1, <2>1, <2>2, <2>3, Clockless
<1>4. CASE FinishAsync(polled)
  <2>1. AllButAnswer' /\ Kept
    <3>1. CASE DeepWake
      BY <1>1, <3>1, DeepWakeStep
    <3>2. CASE UNCHANGED <<cyc, vt, ccount>> /\ LightWake /\ turn' = "run0"
      BY <1>1, <3>2, LightWakeAtOnce
    <3> QED BY <1>4, <3>1, <3>2 DEF FinishAsync
  <2>2. Answer(WakeCause(polled), polled, async.elapsed, SleepDeadline)
    <3>1. async.elapsed \in Nat /\ async.timeout \in Us
      BY <1>1, Typed
    <3>2. CASE async.timeout = Forever
      <4>1. ~Expired
        BY <3>2 DEF Expired
      <4>2. WakeCause(polled) # Timer
        <5>1. polled # Timer
          BY <1>2 DEF Polls, Timer, Pin
        <5> QED BY <4>1, <5>1 DEF WakeCause, Timer
      <4>3. SleepDeadline < 0
        BY <3>2, TimesMhz DEF SleepDeadline, Forever
      <4>4. SleepDeadline \in Int
        BY <3>2, TimesMhz DEF SleepDeadline, Forever
      <4> QED BY <4>2, <4>3, <4>4 DEF Answer
    <3>3. CASE async.timeout # Forever
      <4>1. SleepDeadline \in Nat
        BY <3>1, <3>3, TimesMhz DEF SleepDeadline, Us
      <4>2. async.elapsed <= SleepDeadline
        BY <3>3 DEF FullInv, IndInv, NotOverslept
      <4>3. WakeCause(polled) = Timer => Expired /\ polled = {}
        BY <1>2 DEF WakeCause, Polls, Timer, Pin
      <4>4. Expired => async.elapsed = SleepDeadline
        BY <3>1, <4>1, <4>2 DEF Expired
      <4> QED BY <4>2, <4>3, <4>4 DEF Answer
    <3> QED BY <3>2, <3>3
  <2>3. WakesRight'
    BY <1>4, <2>1, <2>2, AnswerRight DEF FinishAsync, AllButAnswer, IndInv
  <2> QED BY <2>1, <2>3 DEF FullInv, AllButAnswer
<1> QED BY <1>2, <1>3, <1>4

\* An external source was asserted when the chip was about to fall asleep.
LEMMA WokenAtOnceStep ==
    ASSUME FullInv, WokenAtOnce
    PROVE  FullInv' /\ Kept
<1>1. /\ turn = "sleep" /\ UNCHANGED config /\ AllButAnswer /\ Known
      /\ cyc[0] = cyc[1]
  BY DEF WokenAtOnce, Sleeps, FullInv, AllButAnswer, IndInv, CyclesShared
<1>2. AllButAnswer' /\ Kept
  <2>1. CASE DeepWake
    BY <1>1, <2>1, DeepWakeStep
  <2>2. CASE UNCHANGED <<cyc, vt, ccount>> /\ LightWake /\ turn' = "run0"
    BY <1>1, <2>2, LightWakeAtOnce
  <2> QED BY <2>1, <2>2 DEF WokenAtOnce
<1>3. WakesRight'
  <2>1. SleepFor * Mhz \in Int
    BY <1>1, SleepForTyped, TimesMhz DEF Us, Forever
  <2>2. Answer({Pin}, {Pin}, 0, SleepFor * Mhz)
    BY <2>1 DEF Answer, Pin, Timer
  <2> QED BY <1>2, <2>2, AnswerRight DEF WokenAtOnce, AllButAnswer, IndInv
<1> QED BY <1>2, <1>3 DEF FullInv, AllButAnswer

\* A sleep nothing could end is refused.
LEMMA RefuseSleepStep ==
    ASSUME FullInv, RefuseSleep
    PROVE  FullInv' /\ Kept
<1>1. /\ turn = "sleep" /\ UNCHANGED config /\ AllButAnswer
      /\ UNCHANGED <<cyc, vt, ccount>> /\ LightWake /\ turn' = "run0"
      /\ Told({}, {}, 0, Forever)
  BY DEF RefuseSleep, Sleeps, FullInv, AllButAnswer, config
<1>2. AllButAnswer' /\ Kept
  BY <1>1, LightWakeAtOnce
<1>3. WakesRight'
  <2>1. Answer({}, {}, 0, Forever)
    BY DEF Answer, Forever, Timer
  <2> QED BY <1>1, <1>2, <2>1, AnswerRight DEF AllButAnswer, IndInv
<1> QED BY <1>2, <1>3 DEF FullInv, AllButAnswer

\* A slice ends within the sleep.
LEMMA SliceEndsBound ==
    ASSUME NEW n \in Nat, NEW e \in SliceEnds(n)
    PROVE  e \in Nat /\ e <= n
<1>1. SliceUs \in Nat
  BY SessionAssumption
<1>2. PICK k \in 1 .. (n + SliceUs - 1) \div SliceUs : e = Min({k * SliceUs, n})
  BY DEF SliceEnds
<1>3. k * SliceUs \in Nat
  <2>1. k \in Nat
    BY <1>2
  <2> QED BY <1>1, <2>1
<1> DEFINE a == k * SliceUs
<1>4. a \in Int /\ n \in Int
  BY <1>3
<1> HIDE DEF a
<1>5. Min({a, n}) \in {a, n} /\ Min({a, n}) <= n
  BY <1>4, MinOfTwo
<1> QED BY <1>2, <1>3, <1>5 DEF a

\* The sleep of the ESP32, slice by slice until its end or until a source is
\* asserted.
LEMMA SleepThroughStep ==
    ASSUME FullInv, SleepThrough
    PROVE  FullInv' /\ Kept
<1>1. /\ turn = "sleep" /\ UNCHANGED config /\ AllButAnswer /\ Known
      /\ cyc[0] = cyc[1]
  BY DEF SleepThrough, Sleeps, FullInv, AllButAnswer, IndInv, CyclesShared
<1>2. PICK polled \in Polls, slept \in {0} \cup SliceEnds(Max({0, SleepFor})) :
         /\ polled # {} \/ slept = SleepFor
         /\ Told(IF polled # {} THEN polled ELSE Timer, polled, slept * Mhz,
                 SleepFor * Mhz)
         /\ \/ TRUE \in Deep /\ DeepWake
            \/ /\ vt' = Both(vt, slept) /\ ccount' = Both(ccount, slept * Mhz)
               /\ UNCHANGED cyc
               /\ LightWake /\ turn' = AfterSleep
  BY DEF SleepThrough
<1>3. SleepFor \in Us
  BY <1>1, SleepForTyped
<1> DEFINE m == Max({0, SleepFor})
<1>4. m \in Nat /\ (SleepFor # Forever => m = SleepFor)
  <2>1. SleepFor \in Int
    BY <1>3 DEF Us, Forever
  <2>2. m = IF 0 >= SleepFor THEN 0 ELSE SleepFor
    BY <2>1, MaxOfTwo
  <2> QED BY <1>3, <2>1, <2>2 DEF Us
<1> HIDE DEF m
<1>5. slept \in Nat /\ slept <= m
  BY <1>2, <1>4, SliceEndsBound DEF m
<1>6. AllButAnswer' /\ Kept
  <2>1. CASE DeepWake
    BY <1>1, <2>1, DeepWakeStep
  <2>2. CASE /\ vt' = Both(vt, slept) /\ ccount' = Both(ccount, slept * Mhz)
             /\ UNCHANGED cyc
             /\ LightWake /\ turn' = AfterSleep
    <3>1. turn' \in {"run0", "reset"}
      BY <2>2 DEF AfterSleep
    <3> QED BY <1>1, <1>5, <2>2, <3>1, LightWakeStep
  <2> QED BY <1>2, <2>1, <2>2
<1>7. Answer(IF polled # {} THEN polled ELSE Timer, polled, slept * Mhz, SleepFor * Mhz)
  <2>1. polled # Timer
    BY <1>2 DEF Polls, Timer, Pin
  <2>2. CASE SleepFor = Forever
    <3>1. SleepFor * Mhz < 0 /\ SleepFor * Mhz \in Int
      BY <2>2, TimesMhz DEF Forever
    <3>2. polled # {}
      BY <1>2, <1>5, <2>2 DEF Forever
    <3> QED BY <2>1, <3>1, <3>2 DEF Answer
  <2>3. CASE SleepFor # Forever
    <3>1. SleepFor \in Nat /\ slept <= SleepFor
      BY <1>3, <1>4, <1>5, <2>3 DEF Us
    <3>2. slept * Mhz <= SleepFor * Mhz
      BY <1>5, <3>1, TimesMhz
    <3> QED BY <1>2, <2>1, <3>2 DEF Answer
  <2> QED BY <2>2, <2>3
<1>8. WakesRight'
  BY <1>2, <1>6, <1>7, AnswerRight DEF AllButAnswer, IndInv
<1> QED BY <1>6, <1>8 DEF FullInv, AllButAnswer

\* The loop takes a pending reset.
LEMMA TakeResetStep ==
    ASSUME FullInv, TakeReset
    PROVE  FullInv' /\ Kept
<1>1. /\ turn = "reset" /\ SoftReset /\ UNCHANGED config /\ NoWake
      /\ AllButAnswer /\ cyc[0] = cyc[1]
  BY DEF TakeReset, FullInv, AllButAnswer, IndInv, CyclesShared
<1>2. AllButAnswer' /\ Kept
  BY <1>1, SoftResetStep
<1>3. async'.phase \in 0 .. Mhz - 1
  BY <1>2 DEF AllButAnswer, IndInv, Known, TypeOK
<1>4. WakesRight'
  BY <1>1, <1>3 DEF WakesRight, NoWake, NotWoken, Forever, Timer
<1> QED BY <1>2, <1>4 DEF FullInv, AllButAnswer

-----------------------------------------------------------------------------
\* The invariant holds at power-on.
LEMMA InitInv == Init => FullInv
<1> SUFFICES ASSUME Init PROVE FullInv
  OBVIOUS
<1>1. 0 \in 0 .. Mhz - 1
  BY TimesMhz
<1>2. /\ rtc \in [ena : BOOLEAN, requested : BOOLEAN, sources : Causes,
                  armed : BOOLEAN, fired : BOOLEAN, alarm : Nat]
      /\ async \in [on : BOOLEAN, deep : BOOLEAN, timeout : Us, elapsed : Nat,
                    phase : 0 .. Mhz - 1]
      /\ async.on = FALSE /\ async.timeout = 0 /\ async.elapsed = 0 /\ async.phase = 0
  BY <1>1 DEF Init, RtcReset, Awake, Causes, Us
<1>3. cyc = [c \in Cores |-> 0] /\ cyc \in [Cores -> Nat]
  BY DEF Init
<1>4. TypeOK
  BY <1>2, <1>3 DEF Init, TypeOK
<1>5. IndInv
  BY <1>2, <1>4, TimesMhz
     DEF Init, IndInv, Known, ConfigOK, S3Only, CyclesShared, NotOverslept,
         SleepDeadline, KeepTakenBack
<1>6. InStep
  BY <1>3, TimesMhz DEF Init, InStep, Clock
<1>7. WakesRight
  BY <1>1, <1>2 DEF Init, WakesRight, NotWoken, Forever, Timer
<1> QED BY <1>5, <1>6, <1>7 DEF FullInv

\* A stuttering step.
LEMMA StutterStep ==
    ASSUME FullInv, UNCHANGED vars
    PROVE  FullInv' /\ Kept
<1>1. /\ UNCHANGED <<target, native, turn, cyc, vt, ccount, spent, since, started,
                     running, released, boot, rtc, wants, async, keep, rtcmem,
                     resets, why, woke>>
  BY DEF vars, config, clocks, app, history
<1>2. \A c \in Cores : Clock(c)' = Clock(c) /\ Clock(c) \in Nat /\ cyc[c] \in Nat
  BY <1>1, Typed DEF Clock, FullInv, IndInv
<1>3. TypeOK'
  BY <1>1 DEF FullInv, IndInv, Known, TypeOK
<1>4. IndInv'
  BY <1>1, <1>3 DEF FullInv, IndInv, Known, ConfigOK, S3Only, CyclesShared, NotOverslept,
                    SleepDeadline, KeepTakenBack
<1>5. InStep' /\ WakesRight'
  BY <1>1, <1>2 DEF FullInv, InStep, WakesRight
<1>6. Kept
  BY <1>1, <1>2 DEF Kept, TimeForward, RtcMemoryKept
<1> QED BY <1>4, <1>5, <1>6 DEF FullInv

\* One step of the session, whichever it is.
LEMMA StepInv ==
    ASSUME FullInv, [Next]_vars
    PROVE  FullInv' /\ Kept
<1>1. CASE UNCHANGED vars
  BY <1>1, StutterStep
<1>2. CASE Halted
  BY <1>2, StutterStep DEF Halted
<1>3. ASSUME NEW c \in Cores, GuestStep(c)
      PROVE  FullInv' /\ Kept
  BY <1>3, ExecuteStep, FastForwardStep, RequestSteps, WriteRtcMemStep DEF GuestStep
<1>4. ASSUME NEW r \in BOOLEAN, NEW b \in BOOLEAN, ControlApp(r, b)
      PROVE  FullInv' /\ Kept
  BY <1>4, ControlAppStep
<1>5. ASSUME NEW c \in Cores, BatchEnds(c)
      PROVE  FullInv' /\ Kept
  BY <1>5, BatchEndsStep
<1>6. CASE RunSleeping
  BY <1>6, RunAsleepStep DEF RunSleeping
<1>7. CASE PostBatch
  <2>1. CASE BatchEnds(1)
    BY <1>5, <2>1 DEF Cores
  <2> QED
    BY <1>7, <2>1, TakeAppResetStep, PollAsleepStep, StartAppStep, PublishStep,
       DropRequestStep, FallAsleepStep, WokenAtOnceStep, RefuseSleepStep,
       SleepThroughStep, TakeResetStep DEF PostBatch
<1>8. CASE BatchEnds(0)
  BY <1>5, <1>8 DEF Cores
<1> QED BY <1>1, <1>2, <1>3, <1>4, <1>6, <1>7, <1>8 DEF Next

\* For every frequency and all batches: TypeOK, with the strengthening it needs.
THEOREM SessionInvariant == Spec => []FullInv
<1>1. FullInv /\ [Next]_vars => FullInv'
  BY StepInv
<1> QED BY <1>1, InitInv, PTL DEF Spec

\* CCOUNT follows the clock on both cores of firmware that is not native, over
\* execution, skipped waits, published time lines, sleeps and resets.
THEOREM CcountFollows == Spec => []InStep
<1>1. FullInv => InStep
  BY DEF FullInv
<1> QED BY <1>1, SessionInvariant, PTL

\* No sleep is overslept, and the timer is named as the cause only of a sleep that
\* took all of its time while nothing else was asserted.
THEOREM WakesAreRight == Spec => []WakesRight
<1>1. FullInv => WakesRight
  BY DEF FullInv
<1> QED BY <1>1, SessionInvariant, PTL

\* No step takes a core's time back within a boot, or its executed cycles ever; a
\* reset keeps RTC memory exactly when it is a deep-sleep wake.
THEOREM NothingLostOverResets == Spec => AcrossResets
<1>1. FullInv /\ [Next]_vars => [TimeForward /\ RtcMemoryKept]_vars
  BY StepInv DEF Kept
<1> QED BY <1>1, SessionInvariant, PTL DEF Spec, AcrossResets


-----------------------------------------------------------------------------
(* FreeRTOS software timers.                                               *)

\* The callbacks f that a timer r has had since its last start, its alarm and the
\* time b of that start determine one another: an active timer of either kind waits
\* for the next multiple of its period, and a one-shot timer has not fired yet.
SwTimerOK(r, b, f) ==
    /\ r.active => r.alarm = b + (f + 1) * r.period
    /\ f > 0 => b + f * r.period <= now
    /\ ~r.autoreload => f <= 1
    /\ ~r.autoreload /\ r.active => f = 0

\* The walk goes by a time that has come.
SwInv ==
    /\ Frt!TypeOK
    /\ tick_now <= now
    /\ \A i \in Frt!Timers : SwTimerOK(timer[i], base[i], fires[i])

\* A product grows by one factor when the other grows by one.
LEMMA OneMore ==
    ASSUME NEW k \in Nat, NEW p \in Nat
    PROVE  (k + 1) * p = k * p + p /\ k * p \in Nat
OBVIOUS

LEMMA SwInit == ASSUME Frt!TimerAssumption, Frt!Init PROVE SwInv
<1> USE DEF Frt!TimerAssumption, Frt!Init
<1>1. Frt!TypeOK
  BY DEF Frt!TypeOK, Frt!Record, Frt!Blank, Frt!Timers
<1>2. \A i \in Frt!Timers : SwTimerOK(timer[i], base[i], fires[i])
  BY DEF SwTimerOK, Frt!Blank, Frt!Timers
<1> QED BY <1>1, <1>2 DEF SwInv

\* The fields of a timer.
LEMMA SwFields ==
    ASSUME Frt!TimerAssumption, SwInv, NEW i \in Frt!Timers
    PROVE  /\ timer[i].used \in BOOLEAN /\ timer[i].active \in BOOLEAN
           /\ timer[i].autoreload \in BOOLEAN
           /\ timer[i].period \in (SwPeriods \cup {1}) \ {0} /\ timer[i].period \in Nat
           /\ timer[i].alarm \in Nat
           /\ base[i] \in 0 .. SwTime /\ base[i] \in Nat /\ fires[i] \in Nat
           /\ now \in 0 .. SwTime /\ now \in Nat
<1>1. timer[i] \in Frt!Record /\ base[i] \in 0 .. SwTime /\ fires[i] \in Nat
  BY DEF SwInv, Frt!TypeOK
<1>2. now \in 0 .. SwTime /\ SwTime \in Nat /\ (SwPeriods \cup {1}) \ {0} \subseteq Nat
  BY DEF SwInv, Frt!TypeOK, Frt!TimerAssumption
<1>3. base[i] \in Nat /\ now \in Nat
  BY <1>1, <1>2
<1>4. /\ timer[i].used \in BOOLEAN /\ timer[i].active \in BOOLEAN
      /\ timer[i].autoreload \in BOOLEAN
      /\ timer[i].period \in (SwPeriods \cup {1}) \ {0}
      /\ timer[i].alarm \in Nat
  BY <1>1 DEF Frt!Record
<1> QED BY <1>1, <1>2, <1>3, <1>4

\* A step that only sets one timer right leaves all of them right.
LEMMA SwOneTimer ==
    ASSUME Frt!TimerAssumption, SwInv, NEW i \in Frt!Timers,
           NEW r \in Frt!Record, NEW b \in 0 .. SwTime, NEW f \in Nat,
           timer' = [timer EXCEPT ![i] = r],
           base' = [base EXCEPT ![i] = b],
           fires' = [fires EXCEPT ![i] = f],
           now' = now, tick_now' = tick_now,
           count' \in 0 .. MaxSwTimers, at' \in 0 .. MaxSwTimers + 1,
           callback' \in {0} \cup Frt!Timers, cmds' \in 0 .. SwCmds,
           SwTimerOK(r, b, f)
    PROVE  SwInv'
<1>1. Frt!TypeOK'
  BY DEF SwInv, Frt!TypeOK
<1>2. ASSUME NEW j \in Frt!Timers PROVE SwTimerOK(timer[j], base[j], fires[j])'
  <2>1. CASE j = i
    <3>1. timer'[j] = r /\ base'[j] = b /\ fires'[j] = f
      BY <2>1 DEF SwInv, Frt!TypeOK
    <3> QED BY <3>1 DEF SwTimerOK
  <2>2. CASE j # i
    <3>1. timer'[j] = timer[j] /\ base'[j] = base[j] /\ fires'[j] = fires[j]
      BY <2>2, <1>2 DEF SwInv, Frt!TypeOK
    <3> QED BY <3>1, <1>2 DEF SwInv, SwTimerOK
  <2> QED BY <2>1, <2>2
<1> QED BY <1>1, <1>2 DEF SwInv

\* A guest call leaves the walk where it is.
LEMMA SwGuest ==
    ASSUME Frt!TimerAssumption, SwInv, Frt!GuestRuns,
           UNCHANGED <<now, count, at, callback, tick_now>>
    PROVE  /\ now' = now /\ tick_now' = tick_now
           /\ count' \in 0 .. MaxSwTimers /\ at' \in 0 .. MaxSwTimers + 1
           /\ callback' \in {0} \cup Frt!Timers /\ cmds' \in 0 .. SwCmds
BY DEF Frt!TimerAssumption, SwInv, Frt!TypeOK, Frt!GuestRuns

LEMMA SwStart ==
    ASSUME Frt!TimerAssumption, SwInv, NEW i \in Frt!Timers, Frt!XTimerStart(i)
    PROVE  SwInv'
<1> DEFINE r == [timer[i] EXCEPT !.active = TRUE, !.alarm = now + timer[i].period]
<1>1. timer \in [Frt!Timers -> Frt!Record]
  BY DEF SwInv, Frt!TypeOK
<1>2. timer' = [timer EXCEPT ![i] = r]
  BY <1>1 DEF Frt!XTimerStart
<1>3. /\ r.active = TRUE /\ r.autoreload = timer[i].autoreload
      /\ r.period = timer[i].period /\ r.alarm = now + timer[i].period
  BY <1>1 DEF Frt!Record
<1>4. now + timer[i].period \in Nat
  BY SwFields
<1>5. r \in Frt!Record
  BY <1>1, <1>4 DEF Frt!Record
<1> HIDE DEF r
<1>6. SwTimerOK(r, now, 0)
  BY <1>3, SwFields DEF SwTimerOK
<1>7. /\ base' = [base EXCEPT ![i] = now] /\ fires' = [fires EXCEPT ![i] = 0]
      /\ Frt!GuestRuns /\ UNCHANGED <<now, count, at, callback, tick_now>>
  BY DEF Frt!XTimerStart, Frt!Command
<1> QED BY <1>2, <1>5, <1>6, <1>7, SwOneTimer, SwGuest, SwFields

LEMMA SwChangePeriod ==
    ASSUME Frt!TimerAssumption, SwInv, NEW i \in Frt!Timers, NEW p \in SwPeriods,
           Frt!XTimerChangePeriod(i, p)
    PROVE  SwInv'
<1> DEFINE r == [timer[i] EXCEPT !.active = TRUE, !.period = Frt!Clamp(p),
                                 !.alarm = now + Frt!Clamp(p)]
<1>1. timer \in [Frt!Timers -> Frt!Record]
  BY DEF SwInv, Frt!TypeOK
<1>2. timer' = [timer EXCEPT ![i] = r]
  BY <1>1 DEF Frt!XTimerChangePeriod
<1>3. /\ r.active = TRUE /\ r.autoreload = timer[i].autoreload
      /\ r.period = Frt!Clamp(p) /\ r.alarm = now + Frt!Clamp(p)
  BY <1>1 DEF Frt!Record
<1>4. Frt!Clamp(p) \in Nat /\ Frt!Clamp(p) \in (SwPeriods \cup {1}) \ {0}
  BY DEF Frt!Clamp, Frt!TimerAssumption
<1>5. now + Frt!Clamp(p) \in Nat
  BY <1>4, SwFields
<1>6. r \in Frt!Record
  BY <1>1, <1>4, <1>5 DEF Frt!Record
<1> HIDE DEF r
<1>7. SwTimerOK(r, now, 0)
  BY <1>3, <1>4, SwFields DEF SwTimerOK
<1>8. /\ base' = [base EXCEPT ![i] = now] /\ fires' = [fires EXCEPT ![i] = 0]
      /\ Frt!GuestRuns /\ UNCHANGED <<now, count, at, callback, tick_now>>
  BY DEF Frt!XTimerChangePeriod, Frt!Command
<1> QED BY <1>2, <1>6, <1>7, <1>8, SwOneTimer, SwGuest, SwFields

LEMMA SwStop ==
    ASSUME Frt!TimerAssumption, SwInv, NEW i \in Frt!Timers,
           Frt!XTimerStop(i) \/ Frt!XTimerDelete(i)
    PROVE  SwInv'
<1>0. timer \in [Frt!Timers -> Frt!Record]
  BY DEF SwInv, Frt!TypeOK
<1>1. PICK r \in Frt!Record :
        /\ timer' = [timer EXCEPT ![i] = r]
        /\ r.active = FALSE /\ r.autoreload = timer[i].autoreload
        /\ r.period = timer[i].period
  <2>1. CASE Frt!XTimerStop(i)
    <3> DEFINE r == [timer[i] EXCEPT !.active = FALSE]
    <3>1. timer' = [timer EXCEPT ![i] = r]
      BY <1>0, <2>1 DEF Frt!XTimerStop
    <3>2. /\ r \in Frt!Record /\ r.active = FALSE
          /\ r.autoreload = timer[i].autoreload /\ r.period = timer[i].period
      BY <1>0 DEF Frt!Record
    <3> QED BY <3>1, <3>2
  <2>2. CASE Frt!XTimerDelete(i)
    <3> DEFINE r == [timer[i] EXCEPT !.used = FALSE, !.active = FALSE]
    <3>1. timer' = [timer EXCEPT ![i] = r]
      BY <1>0, <2>2 DEF Frt!XTimerDelete
    <3>2. /\ r \in Frt!Record /\ r.active = FALSE
          /\ r.autoreload = timer[i].autoreload /\ r.period = timer[i].period
      BY <1>0 DEF Frt!Record
    <3> QED BY <3>1, <3>2
  <2> QED BY <2>1, <2>2
<1>2. SwTimerOK(timer[i], base[i], fires[i])
  BY DEF SwInv
<1>3. SwTimerOK(r, base[i], fires[i])
  BY <1>1, <1>2, SwFields DEF SwTimerOK
<1>4. /\ base' = [base EXCEPT ![i] = base[i]] /\ fires' = [fires EXCEPT ![i] = fires[i]]
      /\ Frt!GuestRuns /\ UNCHANGED <<now, count, at, callback, tick_now>>
  BY DEF Frt!XTimerStop, Frt!XTimerDelete, Frt!Command, Frt!ghosts, SwInv, Frt!TypeOK
<1> QED BY <1>1, <1>3, <1>4, SwOneTimer, SwGuest, SwFields

LEMMA SwCreate ==
    ASSUME Frt!TimerAssumption, SwInv, NEW p \in SwPeriods, NEW autoreload \in BOOLEAN,
           Frt!XTimerCreate(p, autoreload)
    PROVE  SwInv'
<1> DEFINE r == [Frt!Blank EXCEPT !.used = TRUE, !.period = Frt!Clamp(p),
                                  !.autoreload = autoreload]
<1>1. PICK i \in Frt!Timers :
        /\ timer' = [timer EXCEPT ![i] = r]
        /\ count' = IF i > count THEN i ELSE count
        /\ base' = [base EXCEPT ![i] = 0]
        /\ fires' = [fires EXCEPT ![i] = 0]
        /\ Frt!GuestRuns
        /\ UNCHANGED <<now, at, callback, tick_now>>
  BY DEF Frt!XTimerCreate
<1>2. Frt!Clamp(p) \in Nat /\ Frt!Clamp(p) \in (SwPeriods \cup {1}) \ {0}
  BY DEF Frt!Clamp, Frt!TimerAssumption
<1>3. r \in Frt!Record
  BY <1>2 DEF Frt!Record, Frt!Blank
<1>4. /\ r.active = FALSE /\ r.autoreload = autoreload
      /\ r.period = Frt!Clamp(p) /\ r.alarm = 0
  BY DEF Frt!Blank
<1> HIDE DEF r
<1>5. SwTimerOK(r, 0, 0)
  BY <1>2, <1>4 DEF SwTimerOK
<1>6. /\ now' = now /\ tick_now' = tick_now
      /\ count' \in 0 .. MaxSwTimers /\ at' \in 0 .. MaxSwTimers + 1
      /\ callback' \in {0} \cup Frt!Timers /\ cmds' \in 0 .. SwCmds
  BY <1>1 DEF Frt!TimerAssumption, SwInv, Frt!TypeOK, Frt!GuestRuns, Frt!Timers
<1>7. 0 \in 0 .. SwTime
  BY DEF Frt!TimerAssumption
<1> QED BY <1>1, <1>3, <1>5, <1>6, <1>7, SwOneTimer

\* The walk settles a due timer before its callback: one more period has passed.
LEMMA SwFires ==
    ASSUME Frt!TimerAssumption, SwInv, Frt!TickFires
    PROVE  SwInv'
<1>1. PICK i \in Frt!NextDue :
        /\ timer' = Frt!Settled(i)
        /\ at' = i + 1
        /\ callback' = i
        /\ cmds' = 0
        /\ fires' = [fires EXCEPT ![i] = @ + 1]
  BY DEF Frt!TickFires
<1>2. UNCHANGED <<now, count, tick_now, base>>
  BY DEF Frt!TickFires
<1>3. i \in at .. count /\ at \in Nat /\ at # 0 /\ count \in 0 .. MaxSwTimers
      /\ MaxSwTimers \in Nat
  BY DEF Frt!NextDue, Frt!TickFires, SwInv, Frt!TypeOK, Frt!TimerAssumption
<1>4. i \in Frt!Timers
  BY <1>3 DEF Frt!Timers
<1>5. Frt!Due(i)
  BY DEF Frt!NextDue
<1> DEFINE t == timer[i]
<1>6. SwTimerOK(t, base[i], fires[i])
  BY <1>4 DEF SwInv
<1>7. t.active /\ t.alarm <= now
  BY <1>4, <1>5, SwFields DEF Frt!Due, SwInv, Frt!TypeOK, Frt!TimerAssumption
<1>8. t.alarm = base[i] + (fires[i] + 1) * t.period
  BY <1>6, <1>7 DEF SwTimerOK
<1>9. (fires[i] + 1 + 1) * t.period = (fires[i] + 1) * t.period + t.period
  BY <1>4, SwFields, OneMore, fires[i] + 1 \in Nat
<1>10. PICK r \in Frt!Record :
         /\ timer' = [timer EXCEPT ![i] = r]
         /\ r.active = t.autoreload /\ r.autoreload = t.autoreload /\ r.period = t.period
         /\ t.autoreload => r.alarm = t.alarm + t.period
  <2>0. timer \in [Frt!Timers -> Frt!Record]
    BY DEF SwInv, Frt!TypeOK
  <2>1. CASE t.autoreload
    <3> DEFINE r == [t EXCEPT !.alarm = t.alarm + t.period]
    <3>1. timer' = [timer EXCEPT ![i] = r]
      BY <1>1, <1>4, <2>0, <2>1 DEF Frt!Settled
    <3>2. t.active = TRUE /\ t.autoreload = TRUE
      BY <1>4, <1>7, <2>1, SwFields
    <3>3. /\ r.active = t.active /\ r.autoreload = t.autoreload /\ r.period = t.period
          /\ r.alarm = t.alarm + t.period
      BY <1>4, <2>0 DEF Frt!Record
    <3>4. r \in Frt!Record
      BY <1>4, <2>0, SwFields DEF Frt!Record
    <3> QED BY <3>1, <3>2, <3>3, <3>4
  <2>2. CASE ~t.autoreload
    <3> DEFINE r == [t EXCEPT !.active = FALSE]
    <3>1. timer' = [timer EXCEPT ![i] = r]
      BY <1>1, <1>4, <2>0, <2>2 DEF Frt!Settled
    <3>2. t.autoreload = FALSE
      BY <1>4, <2>2, SwFields
    <3>3. /\ r.active = FALSE /\ r.autoreload = t.autoreload /\ r.period = t.period
          /\ r \in Frt!Record
      BY <1>4, <2>0 DEF Frt!Record
    <3> QED BY <2>2, <3>1, <3>2, <3>3
  <2> QED BY <2>1, <2>2
<1>11. SwTimerOK(r, base[i], fires[i] + 1)
  BY <1>4, <1>6, <1>7, <1>8, <1>9, <1>10, SwFields DEF SwTimerOK
<1>13. base' = [base EXCEPT ![i] = base[i]] /\ fires' = [fires EXCEPT ![i] = fires[i] + 1]
  BY <1>1, <1>2 DEF SwInv, Frt!TypeOK
<1>14. /\ at' \in 0 .. MaxSwTimers + 1 /\ callback' \in {0} \cup Frt!Timers
       /\ cmds' \in 0 .. SwCmds /\ count' \in 0 .. MaxSwTimers
  BY <1>1, <1>2, <1>3, <1>4 DEF Frt!TimerAssumption, Frt!Timers
<1>15. base[i] \in 0 .. SwTime /\ fires[i] + 1 \in Nat
  BY <1>4, SwFields
<1> HIDE DEF t
<1> QED BY <1>2, <1>4, <1>10, <1>11, <1>13, <1>14, <1>15, SwOneTimer

LEMMA SwKeeps == ASSUME Frt!TimerAssumption, SwInv, Frt!Next PROVE SwInv'
<1>1. CASE \E p \in SwPeriods, autoreload \in BOOLEAN : Frt!XTimerCreate(p, autoreload)
  BY <1>1, SwCreate
<1>2. CASE \E i \in Frt!Timers : \/ Frt!XTimerStart(i)
                                 \/ Frt!XTimerStop(i)
                                 \/ \E p \in SwPeriods : Frt!XTimerChangePeriod(i, p)
                                 \/ Frt!XTimerDelete(i)
  BY <1>2, SwStart, SwStop, SwChangePeriod
<1>3. CASE Frt!Advance
  <2>1. now \in Nat /\ now' = now + 1 /\ now' \in 0 .. SwTime
    BY <1>3 DEF Frt!Advance, SwInv, Frt!TypeOK, Frt!TimerAssumption
  <2>2. UNCHANGED <<timer, count, at, callback, tick_now, cmds, base, fires>>
    BY <1>3 DEF Frt!Advance, Frt!ghosts
  <2>3. Frt!TypeOK'
    BY <2>1, <2>2 DEF SwInv, Frt!TypeOK
  <2>4. ASSUME NEW j \in Frt!Timers PROVE SwTimerOK(timer[j], base[j], fires[j])'
    BY <2>1, <2>2, <2>4, SwFields, OneMore DEF SwInv, SwTimerOK
  <2> QED BY <2>1, <2>2, <2>3, <2>4 DEF SwInv, Frt!TypeOK
<1>4. CASE Frt!TickBegins
  BY <1>4 DEF Frt!TickBegins, Frt!ghosts, SwInv, SwTimerOK, Frt!TypeOK, Frt!Timers,
              Frt!TimerAssumption
<1>5. CASE Frt!TickFires
  BY <1>5, SwFires
<1>6. CASE Frt!CallbackReturns
  BY <1>6 DEF Frt!CallbackReturns, Frt!ghosts, SwInv, SwTimerOK, Frt!TypeOK, Frt!Timers,
              Frt!TimerAssumption
<1>7. CASE Frt!TickEnds
  BY <1>7 DEF Frt!TickEnds, Frt!ghosts, SwInv, SwTimerOK, Frt!TypeOK, Frt!Timers,
              Frt!TimerAssumption
<1> QED BY <1>1, <1>2, <1>3, <1>4, <1>5, <1>6, <1>7 DEF Frt!Next

LEMMA SwPromises ==
    ASSUME SwInv
    PROVE  Frt!TypeOK /\ Frt!NeverEarly /\ Frt!KeepsPhase /\ Frt!OneShotOnce
BY DEF SwInv, SwTimerOK, Frt!NeverEarly, Frt!KeepsPhase, Frt!OneShotOnce

\* No step but a start makes a timer active.
LEMMA SwActivation ==
    ASSUME Frt!TimerAssumption, SwInv, Frt!Next
    PROVE  Frt!ActivatedByStart
<1> SUFFICES ASSUME NEW i \in Frt!Timers, ~timer[i].active, timer'[i].active
             PROVE  fires'[i] = 0 /\ base'[i] = now
  BY DEF Frt!ActivatedByStart
<1> USE DEF SwInv, Frt!TypeOK, Frt!Timers
<1>1. ASSUME NEW p \in SwPeriods, NEW a \in BOOLEAN, Frt!XTimerCreate(p, a) PROVE FALSE
  BY <1>1 DEF Frt!XTimerCreate, Frt!Blank
<1>2. ASSUME NEW j \in Frt!Timers, Frt!XTimerStart(j)
      PROVE  fires'[i] = 0 /\ base'[i] = now
  BY <1>2 DEF Frt!XTimerStart
<1>3. ASSUME NEW j \in Frt!Timers, NEW p \in SwPeriods, Frt!XTimerChangePeriod(j, p)
      PROVE  fires'[i] = 0 /\ base'[i] = now
  BY <1>3 DEF Frt!XTimerChangePeriod
<1>4. ASSUME NEW j \in Frt!Timers, Frt!XTimerStop(j) \/ Frt!XTimerDelete(j) PROVE FALSE
  <2>1. timer'[i].active = FALSE \/ timer'[i].active = timer[i].active
    BY <1>4 DEF Frt!XTimerStop, Frt!XTimerDelete, Frt!Record
  <2> QED BY <2>1
<1>5. ASSUME Frt!TickFires PROVE FALSE
  BY <1>5 DEF Frt!TickFires, Frt!Settled
<1>6. ASSUME \/ Frt!Advance \/ Frt!TickBegins \/ Frt!CallbackReturns \/ Frt!TickEnds
      PROVE  FALSE
  BY <1>6 DEF Frt!Advance, Frt!TickBegins, Frt!CallbackReturns, Frt!TickEnds
<1> QED BY <1>1, <1>2, <1>3, <1>4, <1>5, <1>6 DEF Frt!Next

-----------------------------------------------------------------------------
(* vTaskDelayUntil.                                                        *)

\* What the promise covers: periods below half the range of the counter, and not
\* longer than the longest sleep (frt_block_cycles).
IncrementsFit == \A inc \in Increments : inc < HalfRange /\ inc <= SleepCap

\* The guest's word is the deadline, modulo the counter's range; a task is awake
\* from its deadline on, and asleep until exactly then.
DelayInv ==
    /\ Delay!TypeOK
    /\ prev = due % Delay!M
    /\ now - due < HalfRange
    /\ IF asleep THEN wake = due ELSE due <= now

\* A number has one quotient and one remainder.
LEMMA ModUnique ==
    ASSUME NEW a \in Int, NEW m \in Nat \ {0}, NEW q \in Int, NEW r \in 0 .. (m - 1),
           a = q * m + r
    PROVE  a % m = r /\ a \div m = q
OBVIOUS

LEMMA DivMod ==
    ASSUME NEW a \in Int, NEW m \in Nat \ {0}
    PROVE  a = (a \div m) * m + (a % m) /\ a % m \in 0 .. (m - 1) /\ a \div m \in Int
OBVIOUS

\* Multiples of m do not matter.
LEMMA ModShift ==
    ASSUME NEW a \in Int, NEW m \in Nat \ {0}, NEW k \in Int
    PROVE  (a + k * m) % m = a % m
<1>1. a = (a \div m) * m + (a % m) /\ a % m \in 0 .. (m - 1) /\ a \div m \in Int
  BY DivMod
<1> DEFINE q == a \div m
           r == a % m
<1> HIDE DEF q, r
<1>2. a + k * m = (q + k) * m + r
  BY <1>1 DEF q, r
<1>3. r \in 0 .. (m - 1) /\ q + k \in Int /\ a + k * m \in Int
  BY <1>1 DEF q, r
<1>4. (a + k * m) % m = r
  BY <1>2, <1>3, ModUnique
<1> QED BY <1>4 DEF r

\* Adding up and taking differences modulo m.
LEMMA ModSum ==
    ASSUME NEW a \in Int, NEW b \in Int, NEW m \in Nat \ {0}
    PROVE  ((a % m) + b) % m = (a + b) % m
<1> DEFINE q == a \div m
           r == a % m
<1>1. a = q * m + r /\ r \in 0 .. (m - 1) /\ q \in Int
  BY DivMod
<1> HIDE DEF q, r
<1>2. a + b = (r + b) + q * m /\ r + b \in Int
  BY <1>1
<1>3. ((r + b) + q * m) % m = (r + b) % m
  BY <1>1, <1>2, ModShift
<1> QED BY <1>2, <1>3 DEF r

LEMMA ModDifference ==
    ASSUME NEW a \in Int, NEW b \in Int, NEW m \in Nat \ {0}
    PROVE  ((a % m) - (b % m)) % m = (a - b) % m
<1> DEFINE q == b \div m
           r == b % m
<1>1. b = q * m + r /\ r \in 0 .. (m - 1) /\ q \in Int
  BY DivMod
<1>2. a % m \in Int
  BY DivMod
<1>3. ((a % m) + (-r)) % m = (a + (-r)) % m
  BY <1>1, ModSum, -r \in Int
<1> HIDE DEF q, r
<1>4. a + (-r) = (a - b) + q * m /\ a - b \in Int
  BY <1>1
<1>5. ((a - b) + q * m) % m = (a - b) % m
  BY <1>1, <1>4, ModShift
<1>6. (a % m) - r = (a % m) + (-r)
  BY <1>1, <1>2
<1> QED BY <1>3, <1>4, <1>5, <1>6 DEF r

\* The signed difference of two counts is the difference of the times, if that is
\* less than half the range.
LEMMA SignedDifference ==
    ASSUME Delay!DelayAssumption, NEW a \in Nat, NEW inc \in Nat, NEW b \in Nat,
           -HalfRange < a + inc - b, a + inc - b < HalfRange
    PROVE  /\ Delay!Signed((((a % Delay!M) + inc) % Delay!M) - (b % Delay!M)) = a + inc - b
           /\ ((a % Delay!M) + inc) % Delay!M = (a + inc) % Delay!M
<1> DEFINE m == Delay!M
           d == a + inc - b
<1>1. HalfRange \in Nat \ {0} /\ m \in Nat \ {0} /\ m = 2 * HalfRange
  BY DEF Delay!DelayAssumption, Delay!M
<1> HIDE DEF m
<1>2. ((a % m) + inc) % m = (a + inc) % m
  BY <1>1, ModSum, a \in Int, inc \in Int
<1>3. (((a + inc) % m) - (b % m)) % m = d % m
  <2>1. (((a + inc) % m) - (b % m)) % m = ((a + inc) - b) % m
    BY <1>1, ModDifference, a + inc \in Int, b \in Int
  <2>2. (a + inc) - b = d
    OBVIOUS
  <2> QED BY <2>1, <2>2
<1>4. CASE d >= 0
  <2>1. d = 0 * m + d /\ d \in 0 .. (m - 1) /\ d \in Int
    BY <1>1, <1>4
  <2>2. d % m = d
    BY <2>1, <1>1, ModUnique
  <2> QED BY <2>2, <1>1, <1>2, <1>3 DEF m, Delay!Signed
<1>5. CASE d < 0
  <2>1. d = -1 * m + (d + m) /\ d + m \in 0 .. (m - 1) /\ d \in Int
    BY <1>1, <1>5
  <2>2. d % m = d + m
    BY <2>1, <1>1, ModUnique
  <2> QED BY <2>2, <1>1, <1>2, <1>3 DEF m, Delay!Signed
<1> QED BY <1>4, <1>5

LEMMA DelayInit == ASSUME Delay!DelayAssumption, Delay!Init PROVE DelayInv
<1>1. HalfRange \in Nat \ {0} /\ Delay!M = 2 * HalfRange /\ DelayHorizon \in Nat
      /\ 2 * HalfRange <= DelayHorizon
  BY DEF Delay!DelayAssumption, Delay!M
<1>2. now \in 0 .. (2 * HalfRange - 1) /\ prev = now /\ due = now /\ asleep = FALSE /\ wake = 0
  BY <1>1 DEF Delay!Init
<1>3. now = 0 * (2 * HalfRange) + now /\ 2 * HalfRange \in Nat \ {0} /\ now \in Int
  BY <1>1, <1>2
<1>4. now % (2 * HalfRange) = now
  BY <1>2, <1>3, ModUnique
<1>5. now \in 0 .. DelayHorizon /\ now \in Nat
  BY <1>1, <1>2
<1>6. Delay!TypeOK
  BY <1>1, <1>2, <1>5 DEF Delay!TypeOK
<1>7. prev = due % Delay!M
  BY <1>1, <1>2, <1>4
<1> QED BY <1>1, <1>2, <1>5, <1>6, <1>7 DEF DelayInv

LEMMA DelayKeeps ==
    ASSUME Delay!DelayAssumption, IncrementsFit, DelayInv, Delay!Next
    PROVE  DelayInv'
<1>1. HalfRange \in Nat \ {0} /\ Delay!M = 2 * HalfRange /\ DelayHorizon \in Nat
      /\ Delay!M \in Nat \ {0} /\ SleepCap \in Nat /\ Increments \subseteq Nat
  BY DEF Delay!DelayAssumption, Delay!M
<1>2. /\ now \in Nat /\ now \in 0 .. DelayHorizon /\ asleep \in BOOLEAN
      /\ wake \in Nat /\ due \in Nat /\ prev = due % Delay!M /\ now - due < HalfRange
      /\ prev \in 0 .. Delay!M - 1
  BY <1>1 DEF DelayInv, Delay!TypeOK
<1>3. CASE Delay!Wakes
  BY <1>1, <1>2, <1>3 DEF Delay!Wakes, DelayInv, Delay!TypeOK
<1>4. CASE Delay!Advance
  BY <1>1, <1>2, <1>4 DEF Delay!Advance, DelayInv, Delay!TypeOK
<1>5. ASSUME NEW inc \in Increments, Delay!VTaskDelayUntil(inc) PROVE DelayInv'
  <2>1. inc \in Nat /\ inc < HalfRange /\ inc <= SleepCap
    BY <1>1 DEF IncrementsFit
  <2>2. ~asleep /\ due <= now
    BY <1>5 DEF Delay!VTaskDelayUntil, DelayInv
  <2>3. -HalfRange < due + inc - now /\ due + inc - now < HalfRange
    BY <1>1, <1>2, <2>1, <2>2
  <2>4. /\ Delay!Signed(Delay!Target(inc) - Delay!TickCount) = due + inc - now
        /\ Delay!Target(inc) = (due + inc) % Delay!M
    BY <1>2, <2>1, <2>3, SignedDifference DEF Delay!Target, Delay!TickCount
  <2>5. /\ prev' = (due + inc) % Delay!M /\ due' = due + inc /\ now' = now
        /\ IF due + inc - now <= 0 THEN UNCHANGED <<asleep, wake>>
           ELSE asleep' = TRUE /\ wake' = now + Delay!Least(due + inc - now, SleepCap)
    BY <1>5, <2>4 DEF Delay!VTaskDelayUntil
  <2>6. prev' \in 0 .. Delay!M - 1 /\ due' \in Nat
    BY <1>1, <1>2, <2>1, <2>5, DivMod, due + inc \in Int, SMTT(30)
  <2>7. CASE due + inc - now <= 0
    BY <1>1, <1>2, <2>1, <2>2, <2>5, <2>6, <2>7 DEF DelayInv, Delay!TypeOK, Delay!M
  <2>8. CASE due + inc - now > 0
    <3>1. Delay!Least(due + inc - now, SleepCap) = due + inc - now
      BY <1>1, <1>2, <2>1, <2>2, <2>8 DEF Delay!Least
    <3>2. wake' = due' /\ asleep' = TRUE /\ wake' \in Nat
      BY <3>1, <2>5, <2>8, <1>2, <2>1
    <3> QED BY <3>2, <1>1, <1>2, <2>1, <2>2, <2>5, <2>6, <2>8
            DEF DelayInv, Delay!TypeOK, Delay!M
  <2> QED BY <1>2, <2>1, <2>7, <2>8
<1>6. \/ \E inc \in Increments : Delay!VTaskDelayUntil(inc)
      \/ Delay!Wakes
      \/ Delay!Advance
  BY DEF Delay!Next
<1> QED BY <1>3, <1>4, <1>5, <1>6

LEMMA DelayPromises ==
    ASSUME DelayInv
    PROVE  Delay!TypeOK /\ Delay!KeepsRate /\ Delay!NoDrift
BY DEF DelayInv, Delay!TypeOK, Delay!KeepsRate, Delay!NoDrift

-----------------------------------------------------------------------------
(* esp_timer.                                                              *)

\* The later of the two cores' clocks.
Top == Esp!Later(clock[0], clock[1])

\* A timer r started at b with a period or time-out of q has fired f times; its
\* alarm is the next multiple of q, or the one being served while its callback
\* runs, which is also the only time at which armed and active differ.
EspTimerOK(r, b, q, f, a, serving) ==
    /\ r.active => r.alarm = b + (IF serving THEN f ELSE f + 1) * q
    /\ r.periodic => r.period = q
    /\ f > 0 => b + f * q <= Top
    /\ r.active /\ ~r.periodic => f = IF serving THEN 1 ELSE 0
    /\ IF serving THEN r.active /\ a = r.periodic ELSE a = r.active

EspAllOK ==
    \A i \in Esp!Timers :
        /\ EspTimerOK(timer[i], base[i], asked[i], fires[i], armed[i], callback = i)
        /\ i > count => ~timer[i].handle /\ armed[i] = FALSE

\* The walk goes by a time that has come; a callback runs within a walk, for a
\* timer of the table.
EspInv ==
    /\ Esp!TypeOK
    /\ tick_now <= Top
    /\ callback <= count
    /\ callback # 0 => at # 0
    /\ EspAllOK

LEMMA EspBounds ==
    ASSUME Esp!EspTimerAssumption
    PROVE  /\ MaxEspTimers \in Nat \ {0} /\ EspTime \in Nat /\ EspSkew \in Nat
           /\ EspCmds \in Nat /\ EspPeriods \subseteq Nat \ {0}
BY DEF Esp!EspTimerAssumption

LEMMA EspTyped ==
    ASSUME Esp!EspTimerAssumption, EspInv
    PROVE  /\ clock \in [{0, 1} -> 0 .. EspTime] /\ timer \in [Esp!Timers -> Esp!Record]
           /\ clock[0] \in Nat /\ clock[1] \in Nat
           /\ clock[0] \in 0 .. EspTime /\ clock[1] \in 0 .. EspTime
           /\ Top \in Nat /\ Top \in 0 .. EspTime /\ Top >= clock[0] /\ Top >= clock[1]
           /\ count \in Nat /\ count <= MaxEspTimers
           /\ at \in Nat /\ at <= MaxEspTimers + 1
           /\ callback \in Nat /\ callback \in {0} \cup Esp!Timers
           /\ tick_now \in Nat /\ cmds \in 0 .. EspCmds
<1>1. clock \in [{0, 1} -> 0 .. EspTime] /\ EspTime \in Nat /\ MaxEspTimers \in Nat
  BY EspBounds DEF EspInv, Esp!TypeOK, Esp!Cores
<1>2. /\ clock[0] \in 0 .. EspTime /\ clock[1] \in 0 .. EspTime
      /\ clock[0] \in Nat /\ clock[1] \in Nat
  BY <1>1
<1>3. Top \in Nat /\ Top \in 0 .. EspTime /\ Top >= clock[0] /\ Top >= clock[1]
  BY <1>2 DEF Top, Esp!Later
<1>4. /\ timer \in [Esp!Timers -> Esp!Record]
      /\ count \in 0 .. MaxEspTimers /\ at \in 0 .. MaxEspTimers + 1
      /\ callback \in {0} \cup Esp!Timers /\ tick_now \in 0 .. EspTime
      /\ cmds \in 0 .. EspCmds
  BY DEF EspInv, Esp!TypeOK
<1>5. count \in Nat /\ at \in Nat /\ callback \in Nat /\ tick_now \in Nat
      /\ count <= MaxEspTimers /\ at <= MaxEspTimers + 1
  BY <1>1, <1>4 DEF Esp!Timers
<1> QED BY <1>1, <1>2, <1>3, <1>4, <1>5

LEMMA EspFields ==
    ASSUME Esp!EspTimerAssumption, EspInv, NEW i \in Esp!Timers
    PROVE  /\ timer[i] \in Esp!Record
           /\ timer[i].active \in BOOLEAN /\ timer[i].periodic \in BOOLEAN
           /\ timer[i].period \in EspPeriods \cup {0} /\ timer[i].period \in Nat
           /\ timer[i].alarm \in Nat
           /\ base[i] \in 0 .. EspTime /\ base[i] \in Nat
           /\ asked[i] \in EspPeriods \cup {0} /\ asked[i] \in Nat
           /\ fires[i] \in Nat /\ armed[i] \in BOOLEAN
<1>1. /\ timer[i] \in Esp!Record /\ base[i] \in 0 .. EspTime
      /\ asked[i] \in EspPeriods \cup {0} /\ fires[i] \in Nat /\ armed[i] \in BOOLEAN
  BY DEF EspInv, Esp!TypeOK
<1>2. EspPeriods \cup {0} \subseteq Nat /\ EspTime \in Nat
  BY EspBounds
<1>3. /\ timer[i].active \in BOOLEAN /\ timer[i].periodic \in BOOLEAN
      /\ timer[i].period \in EspPeriods \cup {0} /\ timer[i].alarm \in Nat
  BY <1>1 DEF Esp!Record
<1> QED BY <1>1, <1>2, <1>3

LEMMA EspInit == ASSUME Esp!EspTimerAssumption, Esp!Init PROVE EspInv
<1> USE EspBounds DEF Esp!Init
<1>1. Esp!TypeOK
  BY DEF Esp!TypeOK, Esp!Record, Esp!Blank, Esp!Cores
<1>2. ASSUME NEW i \in Esp!Timers
      PROVE  /\ EspTimerOK(timer[i], base[i], asked[i], fires[i], armed[i], callback = i)
             /\ i > count => ~timer[i].handle /\ armed[i] = FALSE
  <2>1. /\ timer[i] = Esp!Blank /\ fires[i] = 0 /\ armed[i] = FALSE
    OBVIOUS
  <2>2. ~(callback = i)
    BY DEF Esp!Timers
  <2>3. ~Esp!Blank.handle /\ ~Esp!Blank.active /\ ~Esp!Blank.periodic /\ (FALSE = Esp!Blank.active)
    BY DEF Esp!Blank
  <2>4. (IF callback = i THEN 1 ELSE 0) = 0
    BY <2>2
  <2>5. EspTimerOK(Esp!Blank, base[i], asked[i], 0, FALSE, FALSE)
    BY <2>3 DEF EspTimerOK
  <2> QED BY <2>1, <2>2, <2>3, <2>5
<1>3. Top = 0
  BY DEF Top, Esp!Later, Esp!Cores
<1>4. EspAllOK
  BY <1>2 DEF EspAllOK
<1>5. tick_now = 0 /\ callback = 0 /\ count = 0
  OBVIOUS
<1> QED BY ONLY <1>1, <1>3, <1>4, <1>5 DEF EspInv

\* A step writes one timer and what the guest knows of it.
EspSets(i, r, b, q, f, a) ==
    /\ i \in Esp!Timers
    /\ r \in Esp!Record /\ b \in 0 .. EspTime /\ q \in EspPeriods \cup {0}
    /\ f \in Nat /\ a \in BOOLEAN
    /\ timer' = [timer EXCEPT ![i] = r]
    /\ base' = [base EXCEPT ![i] = b]
    /\ asked' = [asked EXCEPT ![i] = q]
    /\ fires' = [fires EXCEPT ![i] = f]
    /\ armed' = [armed EXCEPT ![i] = a]

\* What the same step may do to the rest.
EspMoves(i) ==
    /\ clock' = clock /\ tick_now' = tick_now
    /\ count' \in 0 .. MaxEspTimers /\ count' >= count /\ i <= count'
    /\ at' \in 0 .. MaxEspTimers + 1 /\ cmds' \in 0 .. EspCmds
    /\ callback' \in {0} \cup Esp!Timers /\ callback' <= count'
    /\ callback' # 0 => at' # 0
    /\ \A j \in Esp!Timers \ {i} : (callback' = j) = (callback = j)

\* A step that only sets one timer right leaves all of them right.
LEMMA EspOneTimer ==
    ASSUME Esp!EspTimerAssumption, EspInv,
           NEW i, NEW r, NEW b, NEW q, NEW f, NEW a,
           EspSets(i, r, b, q, f, a), EspMoves(i),
           EspTimerOK(r, b, q, f, a, callback' = i)
    PROVE  EspInv'
<1> USE DEF EspSets, EspMoves
<1>1. Esp!TypeOK'
  BY DEF EspInv, Esp!TypeOK
<1>2. Top' = Top
  BY DEF Top, Esp!Later
<1>3. ASSUME NEW j \in Esp!Timers
      PROVE  /\ EspTimerOK(timer[j], base[j], asked[j], fires[j], armed[j],
                           callback = j)'
             /\ j > count' => ~timer'[j].handle /\ armed'[j] = FALSE
  <2>1. CASE j = i
    <3>1. timer'[j] = r /\ base'[j] = b /\ asked'[j] = q /\ fires'[j] = f /\ armed'[j] = a
      BY <2>1 DEF EspInv, Esp!TypeOK
    <3>2. EspTimerOK(r, b, q, f, a, callback' = j)
      BY <2>1
    <3>3. ~(j > count')
      BY <2>1, EspTyped DEF Esp!Timers
    <3> QED BY <2>1, <3>1, <3>2, <3>3, <1>2 DEF EspTimerOK
  <2>2. CASE j # i
    <3>1. /\ timer'[j] = timer[j] /\ base'[j] = base[j] /\ asked'[j] = asked[j]
          /\ fires'[j] = fires[j] /\ armed'[j] = armed[j] /\ (callback' = j) = (callback = j)
      BY <2>2, <1>3 DEF EspInv, Esp!TypeOK
    <3>2. /\ EspTimerOK(timer[j], base[j], asked[j], fires[j], armed[j], callback = j)
          /\ j > count => ~timer[j].handle /\ armed[j] = FALSE
      BY <1>3 DEF EspInv, EspAllOK
    <3>3. j > count' => j > count
      BY EspTyped, SMTT(30) DEF Esp!Timers
    <3> QED BY <3>1, <3>2, <3>3, <1>2 DEF EspTimerOK
  <2> QED BY <2>1, <2>2
<1>4. EspAllOK'
  BY <1>3 DEF EspAllOK
<1> QED BY <1>1, <1>2, <1>4 DEF EspInv

LEMMA EspCreate ==
    ASSUME Esp!EspTimerAssumption, EspInv, NEW c \in {0, 1}, Esp!EspTimerCreate(c)
    PROVE  EspInv'
<1> DEFINE r == [Esp!Blank EXCEPT !.handle = TRUE]
           i == count + 1
           b == base[i]
           q == asked[i]
           f == fires[i]
           a == armed[i]
<1>1. /\ count < MaxEspTimers /\ count' = i
      /\ timer' = [timer EXCEPT ![i] = r]
      /\ clock' = clock /\ at' = at /\ callback' = callback /\ tick_now' = tick_now
      /\ base' = base /\ asked' = asked /\ fires' = fires /\ armed' = armed
      /\ cmds' = cmds \/ (cmds < EspCmds /\ cmds' = cmds + 1)
  BY DEF Esp!EspTimerCreate, Esp!GuestRuns, Esp!ghosts
<1>2. /\ i \in Esp!Timers /\ i \in Nat /\ i > count /\ count' \in 0 .. MaxEspTimers
      /\ cmds' \in 0 .. EspCmds
  BY <1>1, EspTyped, EspBounds, SMTT(30) DEF Esp!Timers
<1>3. /\ r \in Esp!Record /\ ~r.active /\ ~r.periodic /\ (FALSE = r.active)
  BY DEF Esp!Record, Esp!Blank
<1>4. callback # i /\ callback <= i
  BY <1>2, EspTyped DEF EspInv
<1>5. a = FALSE /\ (f > 0 => b + f * q <= Top)
  BY <1>2 DEF EspInv, EspAllOK, EspTimerOK
<1>6. /\ b \in 0 .. EspTime /\ q \in EspPeriods \cup {0} /\ f \in Nat /\ a \in BOOLEAN
      /\ base' = [base EXCEPT ![i] = b] /\ asked' = [asked EXCEPT ![i] = q]
      /\ fires' = [fires EXCEPT ![i] = f]
      /\ armed' = [armed EXCEPT ![i] = a]
  BY <1>1, <1>2, EspFields DEF EspInv, Esp!TypeOK
<1> HIDE DEF r, b, q, f, a
<1>7. EspTimerOK(r, b, q, f, a, callback' = i)
  BY <1>1, <1>3, <1>4, <1>5 DEF EspTimerOK
<1>8. count' >= count /\ i <= count'
      /\ at' \in 0 .. MaxEspTimers + 1 /\ (callback' # 0 => at' # 0)
      /\ callback' \in {0} \cup Esp!Timers /\ callback' <= count'
      /\ \A j \in Esp!Timers \ {i} : (callback' = j) = (callback = j)
  BY <1>1, <1>2, <1>4, <1>5, EspTyped DEF EspInv, Esp!TypeOK
<1>9. EspSets(i, r, b, q, f, a)
  BY <1>1, <1>2, <1>3, <1>6 DEF EspSets
<1>10. EspMoves(i)
  BY <1>1, <1>2, <1>8 DEF EspMoves
<1> HIDE DEF i
<1> QED BY <1>7, <1>8, <1>9, <1>10, EspOneTimer

LEMMA EspCommand ==
    ASSUME Esp!EspTimerAssumption, EspInv, NEW c \in {0, 1}, NEW i \in Esp!Timers,
           Esp!Command(c, i)
    PROVE  /\ clock' = clock /\ count' = count /\ at' = at /\ callback' = callback
           /\ tick_now' = tick_now
           /\ cmds' \in 0 .. EspCmds
           /\ callback # i /\ i <= count
<1>1. timer[i].handle
  BY DEF Esp!Command
<1>2. ~(i > count)
  BY <1>1 DEF EspInv, EspAllOK
<1>3. i <= count
  BY <1>2, EspTyped DEF Esp!Timers
<1> QED BY <1>3, EspTyped, EspBounds DEF Esp!Command, Esp!GuestRuns

\* A timer whose callback does not run is set by a command of the guest.
LEMMA EspSetByCommand ==
    ASSUME Esp!EspTimerAssumption, EspInv, NEW c \in {0, 1},
           NEW i, NEW r, NEW b, NEW q, NEW f, NEW a,
           Esp!Command(c, i), EspSets(i, r, b, q, f, a),
           EspTimerOK(r, b, q, f, a, FALSE)
    PROVE  EspInv'
<1>0. i \in Esp!Timers
  BY DEF EspSets
<1>1. /\ clock' = clock /\ count' = count /\ at' = at /\ callback' = callback
      /\ tick_now' = tick_now /\ cmds' \in 0 .. EspCmds /\ (callback' = i) = FALSE
      /\ i <= count
  BY <1>0, EspCommand
<1>2. EspTimerOK(r, b, q, f, a, callback' = i)
  BY <1>1
<1>3. EspMoves(i)
  BY <1>1, EspTyped DEF EspInv, Esp!TypeOK, EspMoves
<1> QED BY <1>1, <1>2, <1>3, EspOneTimer

LEMMA EspStart ==
    ASSUME Esp!EspTimerAssumption, EspInv, NEW c \in {0, 1}, NEW i \in Esp!Timers,
           NEW p \in EspPeriods, NEW periodic \in BOOLEAN,
           Esp!EspTimerStart(c, i, periodic, p)
    PROVE  EspInv'
<1> DEFINE r == [timer[i] EXCEPT !.active = TRUE, !.periodic = periodic,
                                 !.period = IF periodic THEN p ELSE 0,
                                 !.alarm = clock[0] + p]
           b == clock[0]
<1>1. c = 0
  BY DEF Esp!EspTimerStart
<1>2. /\ Esp!Command(c, i)
      /\ timer' = [timer EXCEPT ![i] = r] /\ base' = [base EXCEPT ![i] = b]
      /\ asked' = [asked EXCEPT ![i] = p] /\ fires' = [fires EXCEPT ![i] = 0]
      /\ armed' = [armed EXCEPT ![i] = TRUE]
  BY <1>1, EspTyped DEF Esp!EspTimerStart, Esp!SeenBy, Esp!CurrentTime, Esp!Later
<1>3. /\ p \in Nat /\ p \in EspPeriods \cup {0} /\ b \in Nat /\ b \in 0 .. EspTime
      /\ b + p \in Nat /\ (IF periodic THEN p ELSE 0) \in EspPeriods \cup {0}
  BY EspBounds, EspTyped
<1>4. /\ r.active /\ r.periodic = periodic /\ r.alarm = b + p
      /\ r.period = IF periodic THEN p ELSE 0
  BY EspFields DEF Esp!Record
<1>5. r \in Esp!Record
  BY <1>3, EspFields DEF Esp!Record
<1> HIDE DEF r, b
<1>6. EspSets(i, r, b, p, 0, TRUE)
  BY <1>2, <1>3, <1>5 DEF EspSets
<1>7. (0 + 1) * p = p
  BY <1>3
<1>8. (TRUE = r.active) /\ (periodic => r.period = p)
  BY <1>4
<1>9. EspTimerOK(r, b, p, 0, TRUE, FALSE)
  BY <1>3, <1>4, <1>7, <1>8 DEF EspTimerOK
<1> QED BY <1>2, <1>6, <1>9, EspSetByCommand

LEMMA EspEnd ==
    ASSUME Esp!EspTimerAssumption, EspInv, NEW c \in {0, 1}, NEW i \in Esp!Timers,
           Esp!EspTimerStop(c, i) \/ Esp!EspTimerDelete(c, i)
    PROVE  EspInv'
<1> DEFINE r == timer'[i]
           b == base[i]
           q == asked[i]
           f == fires[i]
<1>1. /\ Esp!Command(c, i)
      /\ timer' = [timer EXCEPT ![i] = r]
      /\ r \in Esp!Record /\ ~r.active /\ r.periodic = timer[i].periodic
      /\ r.period = timer[i].period
  <2> DEFINE s == [timer[i] EXCEPT !.active = FALSE]
             d == [s EXCEPT !.handle = FALSE]
  <2>1. /\ s \in Esp!Record /\ ~s.active /\ s.periodic = timer[i].periodic
        /\ s.period = timer[i].period
    BY EspFields DEF Esp!Record
  <2>2. /\ d \in Esp!Record /\ ~d.active /\ d.periodic = timer[i].periodic
        /\ d.period = timer[i].period
    BY EspFields DEF Esp!Record
  <2>3. CASE Esp!EspTimerStop(c, i)
    <3>1. timer' = [timer EXCEPT ![i] = s] /\ Esp!Command(c, i)
      BY <2>3 DEF Esp!EspTimerStop
    <3> HIDE DEF s, d
    <3>2. timer'[i] = s
      BY <3>1, EspTyped
    <3> QED BY <2>1, <3>1, <3>2
  <2>4. CASE Esp!EspTimerDelete(c, i)
    <3>1. timer' = [timer EXCEPT ![i] = d] /\ Esp!Command(c, i)
      BY <2>4, EspTyped DEF Esp!EspTimerDelete
    <3> HIDE DEF s, d
    <3>2. timer'[i] = d
      BY <3>1, EspTyped
    <3> QED BY <2>2, <3>1, <3>2
  <2> QED BY <2>3, <2>4
<1>2. /\ base' = [base EXCEPT ![i] = b] /\ asked' = [asked EXCEPT ![i] = q]
      /\ fires' = [fires EXCEPT ![i] = f] /\ armed' = [armed EXCEPT ![i] = FALSE]
  BY DEF Esp!EspTimerStop, Esp!EspTimerDelete, EspInv, Esp!TypeOK
<1>3. EspTimerOK(timer[i], b, q, f, armed[i], FALSE)
  BY <1>1, EspCommand DEF EspInv, EspAllOK
<1>4. /\ b \in 0 .. EspTime /\ q \in EspPeriods \cup {0} /\ f \in Nat
  BY EspFields
<1>5. FALSE = r.active
  BY <1>1
<1> HIDE DEF r, b, q, f
<1>6. EspTimerOK(r, b, q, f, FALSE, FALSE)
  BY <1>1, <1>3, <1>5 DEF EspTimerOK
<1>7. EspSets(i, r, b, q, f, FALSE)
  BY <1>1, <1>2, <1>4 DEF EspSets
<1> QED BY <1>1, <1>6, <1>7, EspSetByCommand

LEMMA EspClock ==
    ASSUME Esp!EspTimerAssumption, EspInv, NEW c \in {0, 1}, Esp!Advance(c)
    PROVE  EspInv'
<1>1. /\ clock[c] < EspTime /\ clock' = [clock EXCEPT ![c] = @ + 1]
      /\ UNCHANGED <<timer, count, at, callback, tick_now, cmds, base, asked, fires, armed>>
  BY DEF Esp!Advance, Esp!ghosts
<1>2. Esp!TypeOK'
  BY <1>1, EspBounds, EspTyped DEF EspInv, Esp!TypeOK, Esp!Cores
<1>3. Top' >= Top /\ Top' \in Nat
  <2>1. CASE c = 0
    <3>1. clock'[0] = clock[0] + 1 /\ clock'[1] = clock[1]
      BY <1>1, <2>1, EspTyped
    <3> QED BY <3>1, EspTyped DEF Top, Esp!Later
  <2>2. CASE c = 1
    <3>1. clock'[1] = clock[1] + 1 /\ clock'[0] = clock[0]
      BY <1>1, <2>2, EspTyped
    <3> QED BY <3>1, EspTyped DEF Top, Esp!Later
  <2> QED BY <2>1, <2>2
<1>4. ASSUME NEW i \in Esp!Timers
      PROVE  /\ EspTimerOK(timer[i], base[i], asked[i], fires[i], armed[i], callback = i)'
             /\ i > count' => ~timer'[i].handle /\ armed'[i] = FALSE
  <2>1. /\ EspTimerOK(timer[i], base[i], asked[i], fires[i], armed[i], callback = i)
        /\ i > count => ~timer[i].handle /\ armed[i] = FALSE
    BY DEF EspInv, EspAllOK
  <2>2. base[i] + fires[i] * asked[i] \in Nat
    BY EspFields
  <2>3. base[i] + fires[i] * asked[i] <= Top => base[i] + fires[i] * asked[i] <= Top'
    BY <1>3, <2>2, EspTyped
  <2> QED BY <1>1, <2>1, <2>3 DEF EspTimerOK
<1>5. EspAllOK'
  BY <1>4 DEF EspAllOK
<1>6. tick_now' <= Top' /\ callback' <= count' /\ (callback' # 0 => at' # 0)
  BY <1>1, <1>3, EspTyped DEF EspInv
<1> QED BY <1>2, <1>5, <1>6 DEF EspInv

LEMMA EspBatchEnds ==
    ASSUME Esp!EspTimerAssumption, EspInv, Esp!BatchEnds
    PROVE  EspInv'
<1>1. /\ at = 0 /\ at' = 1 /\ tick_now' = Top /\ clock' = [c \in {0, 1} |-> Top]
      /\ UNCHANGED <<timer, count, callback, cmds, base, asked, fires, armed>>
  BY DEF Esp!BatchEnds, Esp!ghosts, Esp!Cores, Top
<1>2. Esp!TypeOK'
  BY <1>1, EspBounds, EspTyped DEF EspInv, Esp!TypeOK, Esp!Cores
<1>3. Top' = Top
  BY <1>1, EspTyped DEF Top, Esp!Later
<1>4. EspAllOK'
  <2>1. SUFFICES ASSUME NEW i \in Esp!Timers
        PROVE  /\ EspTimerOK(timer[i], base[i], asked[i], fires[i], armed[i], callback = i)'
               /\ (i > count => ~timer[i].handle /\ armed[i] = FALSE)'
    BY DEF EspAllOK
  <2>2. /\ EspTimerOK(timer[i], base[i], asked[i], fires[i], armed[i], callback = i)
        /\ i > count => ~timer[i].handle /\ armed[i] = FALSE
    BY DEF EspInv, EspAllOK
  <2> QED BY <1>1, <1>3, <2>2 DEF EspTimerOK
<1>5. tick_now' <= Top' /\ callback' <= count' /\ (callback' # 0 => at' # 0)
  BY <1>1, <1>3, EspTyped DEF EspInv
<1> QED BY <1>2, <1>4, <1>5 DEF EspInv

LEMMA EspFires ==
    ASSUME Esp!EspTimerAssumption, EspInv, Esp!TickFires
    PROVE  EspInv'
<1>1. at # 0 /\ callback = 0
  BY DEF Esp!TickFires
<1>2. PICK i \in Esp!NextDue :
         /\ at' = i + 1 /\ callback' = i /\ cmds' = 0
         /\ fires' = [fires EXCEPT ![i] = @ + 1]
         /\ armed' = [armed EXCEPT ![i] = timer[i].periodic]
  BY DEF Esp!TickFires
<1>3. UNCHANGED <<clock, timer, count, tick_now, base, asked>>
  BY DEF Esp!TickFires
<1>4. /\ i \in at .. count /\ timer[i].active /\ tick_now >= timer[i].alarm
  BY DEF Esp!NextDue, Esp!Due
<1>5. i \in Esp!Timers /\ i \in Nat /\ i <= count
  <2>1. at \in Nat \ {0} /\ count \in Nat /\ count <= MaxEspTimers /\ MaxEspTimers \in Nat
    BY <1>1, EspTyped, EspBounds
  <2>2. i \in Int /\ i >= at /\ i <= count
    BY <1>4, <2>1
  <2> QED BY <2>1, <2>2 DEF Esp!Timers
<1> DEFINE r == timer[i]
           b == base[i]
           q == asked[i]
           f == fires[i]
           a == timer[i].periodic
<1>6. /\ r \in Esp!Record /\ b \in 0 .. EspTime /\ b \in Nat /\ q \in EspPeriods \cup {0}
      /\ q \in Nat /\ f \in Nat /\ f + 1 \in Nat /\ a \in BOOLEAN /\ r.alarm \in Nat
  BY <1>5, EspFields
<1>7. /\ timer' = [timer EXCEPT ![i] = r] /\ base' = [base EXCEPT ![i] = b]
      /\ asked' = [asked EXCEPT ![i] = q] /\ fires' = [fires EXCEPT ![i] = f + 1]
      /\ armed' = [armed EXCEPT ![i] = a]
  BY <1>2, <1>3, <1>5 DEF EspInv, Esp!TypeOK
<1>8. EspTimerOK(r, b, q, f, armed[i], FALSE)
  <2>1. (callback = i) = FALSE
    BY <1>1, <1>5 DEF Esp!Timers
  <2> QED BY <2>1, <1>5 DEF EspInv, EspAllOK
<1>9. r.active /\ tick_now >= r.alarm /\ a = r.periodic
  BY <1>4
<1> HIDE DEF r, b, q, f, a
<1>10. r.alarm = b + (f + 1) * q /\ (r.periodic => r.period = q)
       /\ (~r.periodic => f + 1 = 1)
  BY <1>6, <1>8, <1>9 DEF EspTimerOK
<1>11. b + (f + 1) * q <= Top
  BY <1>6, <1>9, <1>10, EspTyped DEF EspInv
<1>12. EspTimerOK(r, b, q, f + 1, a, TRUE)
  BY <1>9, <1>10, <1>11 DEF EspTimerOK
<1>13. EspSets(i, r, b, q, f + 1, a)
  BY <1>5, <1>6, <1>7 DEF EspSets
<1>14. (callback' = i) = TRUE
  BY <1>2
<1>15. EspMoves(i)
  <2>1. ASSUME NEW j \in Esp!Timers \ {i} PROVE (callback' = j) = (callback = j)
    BY <1>1, <1>2 DEF Esp!Timers
  <2>2. /\ i + 1 \in 0 .. MaxEspTimers + 1 /\ i + 1 # 0 /\ 0 \in 0 .. EspCmds
        /\ count \in 0 .. MaxEspTimers
    BY <1>5, EspTyped, EspBounds
  <2> QED BY <1>2, <1>3, <1>5, <2>1, <2>2 DEF EspMoves
<1>16. EspTimerOK(r, b, q, f + 1, a, callback' = i)
  BY <1>12, <1>14
<1> QED BY <1>13, <1>15, <1>16, EspOneTimer

LEMMA EspReturns ==
    ASSUME Esp!EspTimerAssumption, EspInv, Esp!CallbackReturns
    PROVE  EspInv'
<1> DEFINE i == callback
           r == IF timer[i].periodic
                THEN [timer[i] EXCEPT !.alarm = timer[i].alarm + timer[i].period]
                ELSE [timer[i] EXCEPT !.active = FALSE]
           b == base[i]
           q == asked[i]
           f == fires[i]
           a == armed[i]
<1>1. /\ callback # 0 /\ callback' = 0 /\ cmds' = 0
      /\ timer' = [timer EXCEPT ![i] = r]
      /\ UNCHANGED <<clock, count, at, tick_now, base, asked, fires, armed>>
  BY DEF Esp!CallbackReturns, Esp!ghosts
<1>2. i \in Esp!Timers /\ i \in Nat /\ i <= count
  BY <1>1, EspTyped DEF EspInv
<1>3. /\ b \in 0 .. EspTime /\ b \in Nat /\ q \in EspPeriods \cup {0}
      /\ q \in Nat /\ f \in Nat /\ a \in BOOLEAN
      /\ timer[i].alarm \in Nat /\ timer[i].period \in Nat
      /\ timer[i].alarm + timer[i].period \in Nat
  BY <1>2, EspFields
<1>4. /\ base' = [base EXCEPT ![i] = b]
      /\ asked' = [asked EXCEPT ![i] = q] /\ fires' = [fires EXCEPT ![i] = f]
      /\ armed' = [armed EXCEPT ![i] = a]
  BY <1>1, <1>2 DEF EspInv, Esp!TypeOK
<1>5. /\ r \in Esp!Record /\ r.periodic = timer[i].periodic
      /\ r.period = timer[i].period
      /\ timer[i].periodic => r.active = timer[i].active
                              /\ r.alarm = timer[i].alarm + timer[i].period
      /\ ~timer[i].periodic => ~r.active /\ (FALSE = r.active)
  <2>1. CASE timer[i].periodic
    BY <2>1, <1>2, <1>3, EspFields DEF Esp!Record
  <2>2. CASE ~timer[i].periodic
    BY <2>2, <1>2, EspFields DEF Esp!Record
  <2> QED BY <2>1, <2>2
<1>6. EspTimerOK(timer[i], b, q, f, a, TRUE)
  <2>1. (callback = i) = TRUE
    OBVIOUS
  <2> QED BY <2>1, <1>2 DEF EspInv, EspAllOK
<1>7. timer[i].active \in BOOLEAN /\ timer[i].periodic \in BOOLEAN
  BY <1>2, EspFields
<1> HIDE DEF r, b, q, f, a
<1>8. EspTimerOK(r, b, q, f, a, FALSE)
  <2>1. CASE timer[i].periodic
    <3>1. /\ timer[i].active /\ a = timer[i].periodic /\ timer[i].alarm = b + f * q
          /\ timer[i].period = q /\ (f > 0 => b + f * q <= Top)
      BY <2>1, <1>6 DEF EspTimerOK
    <3>2. (b + f * q) + q = b + (f + 1) * q
      BY <1>3
    <3>3. r.active /\ a = r.active /\ r.periodic /\ r.period = q
          /\ r.alarm = b + (f + 1) * q
      BY <2>1, <3>1, <3>2, <1>5, <1>7
    <3> QED BY <3>1, <3>3 DEF EspTimerOK
  <2>2. CASE ~timer[i].periodic
    <3>1. /\ a = timer[i].periodic /\ (f > 0 => b + f * q <= Top)
      BY <2>2, <1>6 DEF EspTimerOK
    <3>2. ~r.active /\ a = r.active /\ ~r.periodic
      BY <2>2, <3>1, <1>5, <1>7
    <3> QED BY <3>1, <3>2 DEF EspTimerOK
  <2> QED BY <2>1, <2>2
<1>9. EspSets(i, r, b, q, f, a)
  BY <1>1, <1>2, <1>3, <1>4, <1>5 DEF EspSets
<1>10. (callback' = i) = FALSE
  BY <1>1
<1>11. EspMoves(i)
  <2>1. ASSUME NEW j \in Esp!Timers \ {i} PROVE (callback' = j) = (callback = j)
    BY <1>1 DEF Esp!Timers
  <2>2. 0 \in 0 .. EspCmds /\ count \in 0 .. MaxEspTimers /\ at \in 0 .. MaxEspTimers + 1
    BY EspTyped, EspBounds
  <2> QED BY <1>1, <1>2, <2>1, <2>2, EspTyped DEF EspMoves
<1>12. EspTimerOK(r, b, q, f, a, callback' = i)
  BY <1>8, <1>10
<1> QED BY <1>9, <1>11, <1>12, EspOneTimer

LEMMA EspTickEnds ==
    ASSUME Esp!EspTimerAssumption, EspInv, Esp!TickEnds
    PROVE  EspInv'
<1>1. /\ at' = 0 /\ callback = 0
      /\ UNCHANGED <<clock, timer, count, callback, tick_now, cmds, base, asked, fires, armed>>
  BY DEF Esp!TickEnds, Esp!ghosts
<1>2. Esp!TypeOK'
  BY <1>1, EspBounds DEF EspInv, Esp!TypeOK
<1>3. Top' = Top
  BY <1>1 DEF Top, Esp!Later
<1>4. EspAllOK'
  <2>1. SUFFICES ASSUME NEW i \in Esp!Timers
        PROVE  /\ EspTimerOK(timer[i], base[i], asked[i], fires[i], armed[i], callback = i)'
               /\ (i > count => ~timer[i].handle /\ armed[i] = FALSE)'
    BY DEF EspAllOK
  <2>2. /\ EspTimerOK(timer[i], base[i], asked[i], fires[i], armed[i], callback = i)
        /\ i > count => ~timer[i].handle /\ armed[i] = FALSE
    BY DEF EspInv, EspAllOK
  <2> QED BY <1>1, <1>3, <2>2 DEF EspTimerOK
<1> QED BY <1>1, <1>2, <1>3, <1>4 DEF EspInv

LEMMA EspKeeps ==
    ASSUME Esp!EspTimerAssumption, EspInv, Esp!Next \/ UNCHANGED Esp!vars
    PROVE  EspInv'
<1>1. CASE UNCHANGED Esp!vars
  <2>1. UNCHANGED <<clock, timer, count, at, callback, tick_now, cmds, base, asked, fires, armed>>
    BY <1>1 DEF Esp!vars
  <2> QED BY <2>1 DEF EspInv, EspAllOK, EspTimerOK, Top, Esp!Later, Esp!TypeOK
<1>2. ASSUME NEW c \in {0, 1}, Esp!EspTimerCreate(c) PROVE EspInv'
  BY <1>2, EspCreate
<1>3. ASSUME NEW c \in {0, 1}, NEW i \in Esp!Timers, NEW p \in EspPeriods,
             NEW periodic \in BOOLEAN, Esp!EspTimerStart(c, i, periodic, p)
      PROVE  EspInv'
  BY <1>3, EspStart
<1>4. ASSUME NEW c \in {0, 1}, NEW i \in Esp!Timers,
             Esp!EspTimerStop(c, i) \/ Esp!EspTimerDelete(c, i)
      PROVE  EspInv'
  BY <1>4, EspEnd
<1>5. ASSUME NEW c \in {0, 1}, Esp!Advance(c) PROVE EspInv'
  BY <1>5, EspClock
<1> QED BY <1>1, <1>2, <1>3, <1>4, <1>5, EspBatchEnds, EspFires, EspReturns, EspTickEnds
        DEF Esp!Next, Esp!Cores

LEMMA EspPromises ==
    ASSUME Esp!EspTimerAssumption, EspInv
    PROVE  Esp!TypeOK /\ Esp!NeverEarly /\ Esp!ArmedIsActive
<1>1. ASSUME NEW i \in Esp!Timers
      PROVE  EspTimerOK(timer[i], base[i], asked[i], fires[i], armed[i], callback = i)
  BY DEF EspInv, EspAllOK
<1>2. Esp!NeverEarly
  BY <1>1 DEF Esp!NeverEarly, EspTimerOK, Top
<1>3. ASSUME at = 0, NEW i \in Esp!Timers PROVE armed[i] <=> timer[i].active
  <2>1. ~(callback = i)
    BY <1>3, EspTyped DEF EspInv, Esp!Timers
  <2> QED BY <1>1, <2>1, EspFields DEF EspTimerOK
<1> QED BY <1>2, <1>3 DEF EspInv, Esp!ArmedIsActive

-----------------------------------------------------------------------------
(* The three services together (MCTimers).                                 *)

TimersInv ==
    /\ service = "frt" => SwInv
    /\ service = "esp" => EspInv
    /\ service = "delay" => DelayInv

LEMMA ServiceInit == ASSUME TimersInit PROVE TimersInv
<1>1. CASE service = "frt" /\ Frt!Init
  BY <1>1, SwInit, ServicesAssumption DEF TimersInv
<1>2. CASE service = "esp" /\ Esp!Init
  BY <1>2, EspInit, ServicesAssumption DEF TimersInv
<1>3. CASE service = "delay" /\ Delay!Init
  BY <1>3, DelayInit, ServicesAssumption DEF TimersInv
<1> QED BY <1>1, <1>2, <1>3 DEF TimersInit

LEMMA ServiceKeeps ==
    ASSUME IncrementsFit, TimersInv, [TimersNext]_timersVars
    PROVE  TimersInv' /\ (service = "frt" => Frt!ActivatedByStart)
<1> USE ServicesAssumption
<1>1. CASE UNCHANGED timersVars
  <2>1. /\ UNCHANGED <<service, now, timer, count, at, callback, tick_now, cmds, base, fires>>
        /\ UNCHANGED <<clock, asked, armed, prev, asleep, wake, due>>
    BY <1>1 DEF timersVars, Frt!vars, Esp!vars, Delay!vars
  <2>2. SwInv => SwInv'
    BY <2>1 DEF SwInv, Frt!TypeOK, SwTimerOK
  <2>3. EspInv => EspInv'
    BY <2>1, EspKeeps DEF Esp!vars
  <2>4. DelayInv => DelayInv'
    BY <2>1 DEF DelayInv, Delay!TypeOK
  <2>5. Frt!ActivatedByStart
    BY <2>1 DEF Frt!ActivatedByStart
  <2> QED BY <2>1, <2>2, <2>3, <2>4, <2>5 DEF TimersInv
<1>2. CASE FrtStep(Frt!Next)
  <2>1. service = "frt" /\ Frt!Next /\ service' = service
    BY <1>2 DEF FrtStep
  <2> QED BY <2>1, SwKeeps, SwActivation DEF TimersInv
<1>3. CASE EspStep
  <2>1. service = "esp" /\ Esp!Next /\ service' = service
    BY <1>3 DEF EspStep
  <2> QED BY <2>1, EspKeeps DEF TimersInv
<1>4. CASE DelayStep
  <2>1. service = "delay" /\ service' = service
    BY <1>4 DEF DelayStep
  <2>2. CASE Delay!Next
    BY <2>1, <2>2, DelayKeeps DEF TimersInv
  <2>3. CASE UNCHANGED <<now, delayOnly>>
    BY <2>1, <2>3 DEF TimersInv, delayOnly, DelayInv, Delay!TypeOK
  <2> QED BY <1>4, <2>2, <2>3 DEF DelayStep
<1> QED BY <1>1, <1>2, <1>3, <1>4 DEF TimersNext

\* Nothing happens to the clock services while a hardware timer is explored.
LEMMA HwKeepsTimers ==
    ASSUME HwNext
    PROVE  TimersInv' /\ (service = "frt" => Frt!ActivatedByStart)
<1>1. service' = service /\ service \in {"timer", "watchdog", "system"}
  BY DEF HwNext
<1> QED BY <1>1 DEF TimersInv

\* The clock services keep their invariants, for every number of timers, every set
\* of periods and every bound on time, commands and skew.
THEOREM TimersInvariant == IncrementsFit => (ServicesSpec => []TimersInv)
<1> SUFFICES ASSUME IncrementsFit PROVE ServicesSpec => []TimersInv
  OBVIOUS
<1>1. ServicesInit => TimersInv
  <2>1. HwInit => TimersInv
    BY DEF HwInit, TimersInv
  <2> QED BY <2>1, ServiceInit DEF ServicesInit
<1>2. TimersInv /\ [ServicesNext]_timersVars => TimersInv'
  BY ServiceKeeps, HwKeepsTimers DEF ServicesNext
<1> QED BY <1>1, <1>2, PTL DEF ServicesSpec

\* No timer fires early, late batches do not make a reloading timer drift, a one-shot
\* timer fires once, and a task of vTaskDelayUntil neither runs ahead of its
\* deadlines nor behind them, across wraps of the tick counter
\* (freertos_stubs_tick, dispatch_expired_timers, frt_delay_until).
THEOREM TimersOnTime == IncrementsFit => (ServicesSpec => []OnTime)
<1>1. TimersInv => OnTime
  BY SwPromises, EspPromises, DelayPromises, ServicesAssumption DEF TimersInv, OnTime
<1> QED BY <1>1, TimersInvariant, PTL

\* An esp_timer is active exactly when the guest has started it and it is still to
\* fire; a software timer becomes active by a start alone, its own callback's
\* commands included (dispatch_expired_timers, freertos_stubs_tick).
THEOREM TimersObey == IncrementsFit => (ServicesSpec => CommandsHonoured)
<1> SUFFICES ASSUME IncrementsFit PROVE ServicesSpec => CommandsHonoured
  OBVIOUS
<1>1. TimersInv => (service = "esp" => Esp!ArmedIsActive)
  BY EspPromises, ServicesAssumption DEF TimersInv
<1>2. TimersInv /\ [ServicesNext]_timersVars
        => [service = "frt" => Frt!ActivatedByStart]_timersVars
  BY ServiceKeeps, HwKeepsTimers DEF ServicesNext
<1> QED BY <1>1, <1>2, TimersInvariant, PTL DEF ServicesSpec, CommandsHonoured

-----------------------------------------------------------------------------
(* A timer group (TimerGroup).                                             *)

LEMMA NatDivMod ==
    ASSUME NEW a \in Nat, NEW m \in Nat \ {0}
    PROVE  a = (a \div m) * m + (a % m) /\ a % m \in 0 .. (m - 1) /\ a \div m \in Nat
OBVIOUS

\* The fraction of a tick is carried over: two intervals count the ticks of
\* their sum.
LEMMA TicksAdd ==
    ASSUME NEW a \in Nat, NEW b \in Nat, NEW source \in Nat, NEW den \in Nat \ {0},
           NEW phase \in Group!PhaseType
    PROVE  LET s == Group!ScaledTicks(a, source, den, phase)
               u == Group!ScaledTicks(b, source, den, s.phase)
               v == Group!ScaledTicks(a + b, source, den, phase)
           IN  /\ v.ticks = s.ticks + u.ticks /\ v.phase = u.phase
               /\ s.ticks \in Nat /\ u.ticks \in Nat
               /\ s.phase \in Group!PhaseType /\ s.phase.den = den /\ s.phase.rem < den
               /\ u.phase \in Group!PhaseType
<1> DEFINE s == Group!ScaledTicks(a, source, den, phase)
           u == Group!ScaledTicks(b, source, den, s.phase)
           v == Group!ScaledTicks(a + b, source, den, phase)
<1> DEFINE kept == IF phase.den = den THEN phase.rem ELSE 0
           m == a * source + kept
           q == m \div den
           r == m % den
           n == b * source + r
<1>1. kept \in Nat
  BY DEF Group!PhaseType
<1> HIDE DEF kept
<1>2. a * source \in Nat /\ b * source \in Nat
  OBVIOUS
<1>3. m \in Nat
  BY <1>1, <1>2
<1> HIDE DEF m
<1>4. m = q * den + r /\ r \in 0 .. (den - 1) /\ q \in Int
  BY <1>3, NatDivMod
<1>5. q \in Nat
  BY <1>3, NatDivMod
<1>6. s = [ticks |-> q, phase |-> [rem |-> r, den |-> den]]
  BY DEF Group!ScaledTicks, kept, m
<1> HIDE DEF q, r
<1>7. u = [ticks |-> n \div den, phase |-> [rem |-> n % den, den |-> den]]
  BY <1>6 DEF Group!ScaledTicks, n
<1>8. n \in Nat
  BY <1>2, <1>4 DEF n
<1> HIDE DEF n
<1> DEFINE w == n \div den
           z == n % den
<1>9. n = w * den + z /\ z \in 0 .. (den - 1) /\ w \in Nat
  BY <1>8, NatDivMod
<1> HIDE DEF w, z
<1>10. (a + b) * source + kept = m + b * source
  BY <1>1, <1>2 DEF m
<1>11. m + b * source = (q * den) + n
  BY <1>4, <1>2, q * den \in Int DEF n
<1>12. (q * den) + n = (q + w) * den + z
  BY <1>9, <1>5
<1>13. ((a + b) * source + kept) % den = z /\ ((a + b) * source + kept) \div den = q + w
  BY <1>9, <1>5, <1>10, <1>11, <1>12, <1>3, <1>2, ModUnique, q + w \in Int, m + b * source \in Int
<1>14. v = [ticks |-> q + w, phase |-> [rem |-> z, den |-> den]]
  BY <1>13 DEF Group!ScaledTicks, kept
<1> QED BY <1>4, <1>5, <1>6, <1>7, <1>9, <1>14 DEF Group!PhaseType, w, z

\* The configuration keeps everything but the alarm, which a timer switches off by firing.
LEMMA TimerFields ==
    ASSUME NEW t \in Group!TimerType
    PROVE  /\ t.cfg \in Group!TimerConfigType
           /\ t.cfg.enable \in BOOLEAN /\ t.cfg.increase \in BOOLEAN
           /\ t.cfg.alarmEn \in BOOLEAN /\ t.cfg.autoreload \in BOOLEAN
           /\ t.cfg.source \in Nat \ {0} /\ t.cfg.divider \in Nat \ {0}
           /\ t.counter \in 0 .. (GroupPeriod - 1) /\ t.alarm \in 0 .. (GroupPeriod - 1)
           /\ t.load \in 0 .. (GroupPeriod - 1) /\ t.phase \in Group!PhaseType
BY DEF Group!TimerType, Group!TimerConfigType

LEMMA DistanceBounds ==
    ASSUME Group!TimerGroupAssumption, NEW t \in Group!TimerType
    PROVE  Group!AlarmDistance(t) \in 1 .. GroupPeriod
<1>1. GroupPeriod \in Nat \ {0}
  BY DEF Group!TimerGroupAssumption
<1>2. t.alarm - t.counter \in Int /\ t.counter - t.alarm \in Int
  BY <1>1, TimerFields
<1>3. /\ (t.alarm - t.counter) % GroupPeriod \in 0 .. (GroupPeriod - 1)
      /\ (t.counter - t.alarm) % GroupPeriod \in 0 .. (GroupPeriod - 1)
  BY <1>1, <1>2, DivMod
<1> QED BY <1>1, <1>3 DEF Group!AlarmDistance

LEMMA MovedTyped ==
    ASSUME Group!TimerGroupAssumption, NEW t \in Group!TimerType,
           NEW from \in Int, NEW x \in Int
    PROVE  Group!Moved(t, from, x) \in 0 .. (GroupPeriod - 1)
<1>1. GroupPeriod \in Nat \ {0}
  BY DEF Group!TimerGroupAssumption
<1> QED BY <1>1, DivMod, from + x \in Int, from - x \in Int DEF Group!Moved

\* The fields of a timer that has advanced.
LEMMA AdvanceFields ==
    ASSUME Group!TimerGroupAssumption, NEW t \in Group!TimerType, NEW x \in Nat,
           NEW r, r = Group!AdvanceTimer(t, x)
    PROVE  /\ r \in Group!TimerType
           /\ r.alarm = t.alarm /\ r.load = t.load /\ r.phase = t.phase
           /\ r.cfg.enable = t.cfg.enable /\ r.cfg.increase = t.cfg.increase
           /\ r.cfg.autoreload = t.cfg.autoreload
           /\ r.cfg.source = t.cfg.source /\ r.cfg.divider = t.cfg.divider
           /\ r.cfg.alarmEn = (t.cfg.alarmEn /\ ~Group!Fires(t, x))
           /\ r.counter = IF Group!Fires(t, x)
                          THEN Group!Moved(t, IF t.cfg.autoreload THEN t.load ELSE t.alarm,
                                           x - Group!AlarmDistance(t))
                          ELSE Group!Moved(t, t.counter, x)
<1> USE TimerFields
<1>1. Group!AlarmDistance(t) \in Int
  BY DistanceBounds DEF Group!TimerGroupAssumption
<1>2. CASE Group!Fires(t, x)
  <2> DEFINE c == Group!Moved(t, IF t.cfg.autoreload THEN t.load ELSE t.alarm,
                              x - Group!AlarmDistance(t))
  <2>1. c \in 0 .. (GroupPeriod - 1)
    BY <1>1, MovedTyped, x - Group!AlarmDistance(t) \in Int,
       (IF t.cfg.autoreload THEN t.load ELSE t.alarm) \in Int
  <2>2. r = [t EXCEPT !.cfg.alarmEn = FALSE, !.counter = c]
    BY <1>2 DEF Group!AdvanceTimer
  <2> HIDE DEF c
  <2>3. r \in Group!TimerType
    <3>1. [t.cfg EXCEPT !.alarmEn = FALSE] \in Group!TimerConfigType
      BY DEF Group!TimerConfigType
    <3> QED BY <2>1, <2>2, <3>1 DEF Group!TimerType
  <2>4. /\ r.alarm = t.alarm /\ r.load = t.load /\ r.phase = t.phase /\ r.counter = c
        /\ r.cfg = [t.cfg EXCEPT !.alarmEn = FALSE]
    BY <2>2 DEF Group!TimerType
  <2> QED BY <1>2, <2>3, <2>4 DEF Group!TimerConfigType, c
<1>3. CASE ~Group!Fires(t, x)
  <2> DEFINE c == Group!Moved(t, t.counter, x)
  <2>1. c \in 0 .. (GroupPeriod - 1)
    BY MovedTyped, t.counter \in Int, x \in Int
  <2>2. r = [t EXCEPT !.counter = c]
    BY <1>3 DEF Group!AdvanceTimer
  <2> HIDE DEF c
  <2> QED BY <1>3, <2>1, <2>2 DEF Group!TimerType, c
<1> QED BY <1>2, <1>3

LEMMA ModTake ==
    ASSUME NEW a \in Int, NEW b \in Int, NEW m \in Nat \ {0}
    PROVE  (b - (a % m)) % m = (b - a) % m
<1> DEFINE q == a \div m
           r == a % m
<1>1. a = q * m + r /\ r \in 0 .. (m - 1) /\ q \in Int
  BY DivMod
<1> HIDE DEF q, r
<1>2. b - r = (b - a) + q * m /\ b - a \in Int
  BY <1>1
<1>3. ((b - a) + q * m) % m = (b - a) % m
  BY <1>1, <1>2, ModShift
<1> QED BY <1>2, <1>3 DEF r

LEMMA MovedSum ==
    ASSUME Group!TimerGroupAssumption, NEW t \in Group!TimerType, NEW r,
           r.cfg.increase = t.cfg.increase,
           NEW from \in Int, NEW x \in Int, NEW y \in Int
    PROVE  Group!Moved(r, Group!Moved(t, from, x), y) = Group!Moved(t, from, x + y)
<1> DEFINE p == GroupPeriod
<1>1. p \in Nat \ {0}
  BY DEF Group!TimerGroupAssumption
<1> HIDE DEF p
<1>2. CASE t.cfg.increase
  <2>1. (((from + x) % p) + y) % p = ((from + x) + y) % p
    BY <1>1, ModSum, from + x \in Int
  <2> QED BY <1>2, <2>1, (from + x) + y = from + (x + y) DEF Group!Moved, p
<1>3. CASE ~t.cfg.increase
  <2>1. (((from - x) % p) + (-y)) % p = ((from - x) + (-y)) % p
    BY <1>1, ModSum, from - x \in Int, -y \in Int
  <2>2. (from - x) % p \in Int
    BY <1>1, DivMod, from - x \in Int
  <2>3. ((from - x) % p) + (-y) = ((from - x) % p) - y
    BY <2>2
  <2>4. (from - x) + (-y) = from - (x + y)
    OBVIOUS
  <2>5. (((from - x) % p) - y) % p = (from - (x + y)) % p
    BY <2>1, <2>3, <2>4
  <2> QED BY <1>3, <2>5 DEF Group!Moved, p
<1> QED BY <1>2, <1>3

\* A whole turn away, or fewer than a turn: the way still to go is shorter by
\* what has been gone.
Way(p, e) == IF e % p = 0 THEN p ELSE e % p

LEMMA RestOfTurn ==
    ASSUME NEW p \in Nat \ {0}, NEW e \in Int, NEW x \in Nat, x < Way(p, e)
    PROVE  Way(p, e - x) = Way(p, e) - x
<1> USE DEF Way
<1> DEFINE q == e \div p
           r == e % p
           d == Way(p, e)
<1>1. e = q * p + r /\ r \in 0 .. (p - 1) /\ q \in Int
  BY DivMod
<1>2. d = IF r = 0 THEN p ELSE r
  OBVIOUS
<1>3. x < d
  OBVIOUS
<1>4. SUFFICES Way(p, e - x) = d - x
  OBVIOUS
<1> HIDE DEF q, r, d
<1>5. CASE r = 0 /\ x = 0
  <2>1. (e - x) % p = r
    BY <1>5, e - x = e DEF r
  <2> QED BY <1>2, <1>5, <2>1
<1>6. CASE r = 0 /\ x > 0
  <2>1. e - x = (q - 1) * p + (p - x)
    BY <1>1, <1>6
  <2>2. p - x \in 0 .. (p - 1) /\ q - 1 \in Int /\ e - x \in Int /\ p - x > 0
    BY <1>1, <1>2, <1>6, <1>3
  <2>3. (e - x) % p = p - x
    BY <1>3, <2>1, <2>2, ModUnique
  <2> QED BY <1>2, <1>6, <2>2, <2>3
<1>7. CASE r # 0
  <2>1. e - x = q * p + (r - x)
    BY <1>1
  <2>2. r - x \in 0 .. (p - 1) /\ e - x \in Int /\ r - x > 0
    BY <1>1, <1>2, <1>7, <1>3
  <2>3. (e - x) % p = r - x
    BY <1>1, <1>3, <2>1, <2>2, ModUnique
  <2> QED BY <1>2, <1>7, <2>2, <2>3
<1> QED BY <1>1, <1>5, <1>6, <1>7

LEMMA DistanceShrinks ==
    ASSUME Group!TimerGroupAssumption, NEW t \in Group!TimerType,
           NEW r \in Group!TimerType, NEW x \in Nat, x < Group!AlarmDistance(t),
           r.cfg.increase = t.cfg.increase, r.alarm = t.alarm,
           r.counter = Group!Moved(t, t.counter, x)
    PROVE  Group!AlarmDistance(r) = Group!AlarmDistance(t) - x
<1> DEFINE p == GroupPeriod
           c == t.counter
           a == t.alarm
<1>1. p \in Nat \ {0} /\ c \in Int /\ a \in Int
  BY TimerFields DEF Group!TimerGroupAssumption
<1> DEFINE d == Group!AlarmDistance(t)
<1> HIDE DEF p, c, a, d
<1>2. CASE t.cfg.increase
  <2> DEFINE e == a - c
  <2>1. (a - ((c + x) % p)) % p = (a - (c + x)) % p
    BY <1>1, ModTake, c + x \in Int
  <2>2. a - (c + x) = e - x /\ e \in Int
    BY <1>1
  <2>3. d = Way(p, e)
    BY <1>2 DEF Group!AlarmDistance, Way, p, c, a, d
  <2>4. Group!AlarmDistance(r) = Way(p, e - x)
    BY <1>2, <2>1, <2>2 DEF Group!AlarmDistance, Group!Moved, Way, p, c, a
  <2> HIDE DEF e
  <2>5. Way(p, e - x) = d - x
    BY <1>1, <2>2, <2>3, RestOfTurn, x < d DEF d
  <2> QED BY <2>4, <2>5 DEF d
<1>3. CASE ~t.cfg.increase
  <2> DEFINE e == c - a
  <2>1. (((c - x) % p) + (-a)) % p = ((c - x) + (-a)) % p
    BY <1>1, ModSum, c - x \in Int, -a \in Int
  <2>2. (c - x) + (-a) = e - x /\ e \in Int
    BY <1>1
  <2>3. (c - x) % p \in Int
    BY <1>1, DivMod, c - x \in Int
  <2>4. ((c - x) % p) + (-a) = ((c - x) % p) - a
    BY <1>1, <2>3
  <2>5. (((c - x) % p) - a) % p = (e - x) % p
    BY <2>1, <2>2, <2>4
  <2>6. d = Way(p, e)
    BY <1>3 DEF Group!AlarmDistance, Way, p, c, a, d
  <2>7. Group!AlarmDistance(r) = Way(p, e - x)
    BY <1>3, <2>5 DEF Group!AlarmDistance, Group!Moved, Way, p, c, a
  <2> HIDE DEF e
  <2>8. Way(p, e - x) = d - x
    BY <1>1, <2>2, <2>6, RestOfTurn, x < d DEF d
  <2> QED BY <2>7, <2>8 DEF d
<1> QED BY <1>2, <1>3

LEMMA SameTimer ==
    ASSUME NEW t \in Group!TimerType, NEW r \in Group!TimerType,
           r.counter = t.counter, r.alarm = t.alarm, r.load = t.load, r.phase = t.phase,
           r.cfg.enable = t.cfg.enable, r.cfg.increase = t.cfg.increase,
           r.cfg.alarmEn = t.cfg.alarmEn, r.cfg.autoreload = t.cfg.autoreload,
           r.cfg.source = t.cfg.source, r.cfg.divider = t.cfg.divider
    PROVE  r = t
<1>1. r.cfg = t.cfg
  <2>1. r.cfg \in Group!TimerConfigType /\ t.cfg \in Group!TimerConfigType
    BY TimerFields
  <2> QED BY <2>1 DEF Group!TimerConfigType
<1> QED BY <1>1 DEF Group!TimerType

\* A timer that is looked at on the way arrives where it would have anyway, and its
\* alarm goes off once, in one of the two parts.
LEMMA AdvanceAdds ==
    ASSUME Group!TimerGroupAssumption, NEW t \in Group!TimerType,
           NEW x \in Nat, NEW y \in Nat,
           NEW r, r = Group!AdvanceTimer(t, x)
    PROVE  /\ Group!AdvanceTimer(r, y) = Group!AdvanceTimer(t, x + y)
           /\ Group!Fires(t, x + y) <=> Group!Fires(t, x) \/ Group!Fires(r, y)
<1> DEFINE w == Group!AdvanceTimer(r, y)
           v == Group!AdvanceTimer(t, x + y)
           d == Group!AlarmDistance(t)
           from == IF t.cfg.autoreload THEN t.load ELSE t.alarm
<1>0. x + y \in Nat
  OBVIOUS
<1>1. d \in 1 .. GroupPeriod /\ GroupPeriod \in Nat
  BY DistanceBounds DEF Group!TimerGroupAssumption
<1>2. r \in Group!TimerType
  BY AdvanceFields
<1>3. w \in Group!TimerType /\ v \in Group!TimerType
  BY <1>0, <1>2, AdvanceFields
<1>4. /\ r.alarm = t.alarm /\ r.load = t.load /\ r.phase = t.phase
      /\ r.cfg.enable = t.cfg.enable /\ r.cfg.increase = t.cfg.increase
      /\ r.cfg.autoreload = t.cfg.autoreload
      /\ r.cfg.source = t.cfg.source /\ r.cfg.divider = t.cfg.divider
      /\ r.cfg.alarmEn = (t.cfg.alarmEn /\ ~Group!Fires(t, x))
  BY AdvanceFields
<1>5. /\ w.alarm = v.alarm /\ w.load = v.load /\ w.phase = v.phase
      /\ w.cfg.enable = v.cfg.enable /\ w.cfg.increase = v.cfg.increase
      /\ w.cfg.autoreload = v.cfg.autoreload
      /\ w.cfg.source = v.cfg.source /\ w.cfg.divider = v.cfg.divider
  <2>1. /\ w.alarm = r.alarm /\ w.load = r.load /\ w.phase = r.phase
        /\ w.cfg.enable = r.cfg.enable /\ w.cfg.increase = r.cfg.increase
        /\ w.cfg.autoreload = r.cfg.autoreload
        /\ w.cfg.source = r.cfg.source /\ w.cfg.divider = r.cfg.divider
    BY <1>2, AdvanceFields
  <2>2. /\ v.alarm = t.alarm /\ v.load = t.load /\ v.phase = t.phase
        /\ v.cfg.enable = t.cfg.enable /\ v.cfg.increase = t.cfg.increase
        /\ v.cfg.autoreload = t.cfg.autoreload
        /\ v.cfg.source = t.cfg.source /\ v.cfg.divider = t.cfg.divider
    BY <1>0, AdvanceFields
  <2> QED BY <1>4, <2>1, <2>2
<1>6. /\ w.cfg.alarmEn = (r.cfg.alarmEn /\ ~Group!Fires(r, y))
      /\ v.cfg.alarmEn = (t.cfg.alarmEn /\ ~Group!Fires(t, x + y))
  <2>1. w.cfg.alarmEn = (r.cfg.alarmEn /\ ~Group!Fires(r, y))
    BY <1>2, AdvanceFields, SMTT(30)
  <2>2. v.cfg.alarmEn = (t.cfg.alarmEn /\ ~Group!Fires(t, x + y))
    BY <1>0, AdvanceFields
  <2> QED BY <2>1, <2>2
<1>7. r.counter = IF Group!Fires(t, x) THEN Group!Moved(t, from, x - d)
                  ELSE Group!Moved(t, t.counter, x)
  BY AdvanceFields
<1>8. v.counter = IF Group!Fires(t, x + y) THEN Group!Moved(t, from, (x + y) - d)
                  ELSE Group!Moved(t, t.counter, x + y)
  BY <1>0, AdvanceFields
<1>9. w.counter = IF Group!Fires(r, y)
                  THEN Group!Moved(r, from, y - Group!AlarmDistance(r))
                  ELSE Group!Moved(r, r.counter, y)
  BY <1>2, <1>4, AdvanceFields
<1>10. from \in Int /\ t.counter \in Int /\ t.cfg.alarmEn \in BOOLEAN
  BY <1>1, TimerFields
<1>11. \A f : Group!Moved(r, f, y - Group!AlarmDistance(r))
                = Group!Moved(t, f, y - Group!AlarmDistance(r))
  BY <1>4 DEF Group!Moved
<1> HIDE DEF w, v, d, from
<1>12. /\ w.counter = v.counter /\ w.cfg.alarmEn = v.cfg.alarmEn
       /\ Group!Fires(t, x + y) <=> Group!Fires(t, x) \/ Group!Fires(r, y)
  <2>1. CASE Group!Fires(t, x)
    <3>1. x > 0 /\ t.cfg.alarmEn /\ x >= d
      BY <2>1 DEF Group!Fires, d
    <3>2. Group!Fires(t, x + y)
      BY <1>1, <3>1 DEF Group!Fires, d
    <3>3. ~r.cfg.alarmEn /\ ~Group!Fires(r, y)
      BY <1>4, <2>1 DEF Group!Fires
    <3>4. Group!Moved(r, Group!Moved(t, from, x - d), y) = Group!Moved(t, from, (x - d) + y)
      BY <1>1, <1>4, <1>10, MovedSum, x - d \in Int, y \in Int
    <3>5. (x - d) + y = (x + y) - d
      BY <1>1
    <3> QED BY <1>6, <1>7, <1>8, <1>9, <2>1, <3>2, <3>3, <3>4, <3>5
  <2>2. CASE ~Group!Fires(t, x)
    <3>1. Group!Moved(r, Group!Moved(t, t.counter, x), y) = Group!Moved(t, t.counter, x + y)
      BY <1>4, <1>10, MovedSum, x \in Int, y \in Int
    <3>2. r.cfg.alarmEn = t.cfg.alarmEn /\ r.counter = Group!Moved(t, t.counter, x)
      BY <1>4, <1>7, <1>10, <2>2
    <3>3. CASE ~t.cfg.alarmEn
      <4>1. ~Group!Fires(r, y) /\ ~Group!Fires(t, x + y)
        BY <3>2, <3>3 DEF Group!Fires
      <4> QED BY <1>6, <1>7, <1>8, <1>9, <2>2, <3>1, <3>2, <3>3, <4>1
    <3>4. CASE t.cfg.alarmEn
      <4>1. x < d
        BY <1>1, <2>2, <3>4 DEF Group!Fires, d
      <4>2. Group!AlarmDistance(r) = d - x
        BY <1>2, <1>4, <3>2, <4>1, DistanceShrinks DEF d
      <4>3. Group!Fires(r, y) <=> Group!Fires(t, x + y)
        BY <1>1, <3>2, <3>4, <4>1, <4>2 DEF Group!Fires, d
      <4>4. y - (d - x) = (x + y) - d
        BY <1>1
      <4> QED BY <1>6, <1>7, <1>8, <1>9, <1>11, <2>2, <3>1, <3>2, <4>2, <4>3, <4>4
    <3> QED BY <1>10, <3>3, <3>4
  <2> QED BY <2>1, <2>2
<1> QED BY <1>3, <1>5, <1>12, SameTimer DEF w, v

\* The fraction of a tick has no part in where a timer is and when it fires.
LEMMA OtherPhase ==
    ASSUME Group!TimerGroupAssumption, NEW t \in Group!TimerType,
           NEW r \in Group!TimerType, NEW p \in Group!PhaseType, NEW x \in Nat,
           r.phase = p, r.cfg = t.cfg, r.counter = t.counter,
           r.alarm = t.alarm, r.load = t.load
    PROVE  /\ Group!Fires(r, x) <=> Group!Fires(t, x)
           /\ Group!AdvanceTimer(r, x) = [Group!AdvanceTimer(t, x) EXCEPT !.phase = p]
<1>1. /\ r \in Group!TimerType /\ r.phase = p /\ r.cfg = t.cfg /\ r.counter = t.counter
      /\ r.alarm = t.alarm /\ r.load = t.load
  OBVIOUS
<1>2. Group!AlarmDistance(r) = Group!AlarmDistance(t)
  BY <1>1 DEF Group!AlarmDistance
<1>3. Group!Fires(r, x) <=> Group!Fires(t, x)
  BY <1>1, <1>2 DEF Group!Fires
<1>4. \A f, y : Group!Moved(r, f, y) = Group!Moved(t, f, y)
  BY <1>1 DEF Group!Moved
<1> DEFINE a == Group!AdvanceTimer(r, x)
           b == Group!AdvanceTimer(t, x)
           c == [b EXCEPT !.phase = p]
<1>5. a \in Group!TimerType /\ b \in Group!TimerType
  BY <1>1, AdvanceFields
<1>6. /\ a.alarm = r.alarm /\ a.load = r.load /\ a.phase = r.phase
      /\ a.cfg.enable = r.cfg.enable /\ a.cfg.increase = r.cfg.increase
      /\ a.cfg.autoreload = r.cfg.autoreload
      /\ a.cfg.source = r.cfg.source /\ a.cfg.divider = r.cfg.divider
      /\ a.cfg.alarmEn = (r.cfg.alarmEn /\ ~Group!Fires(r, x))
      /\ a.counter = IF Group!Fires(r, x)
                     THEN Group!Moved(r, IF r.cfg.autoreload THEN r.load ELSE r.alarm,
                                      x - Group!AlarmDistance(r))
                     ELSE Group!Moved(r, r.counter, x)
  BY AdvanceFields
<1>7. /\ b.alarm = t.alarm /\ b.load = t.load
      /\ b.cfg.enable = t.cfg.enable /\ b.cfg.increase = t.cfg.increase
      /\ b.cfg.autoreload = t.cfg.autoreload
      /\ b.cfg.source = t.cfg.source /\ b.cfg.divider = t.cfg.divider
      /\ b.cfg.alarmEn = (t.cfg.alarmEn /\ ~Group!Fires(t, x))
      /\ b.counter = IF Group!Fires(t, x)
                     THEN Group!Moved(t, IF t.cfg.autoreload THEN t.load ELSE t.alarm,
                                      x - Group!AlarmDistance(t))
                     ELSE Group!Moved(t, t.counter, x)
  BY AdvanceFields
<1> HIDE DEF a, b
<1>8. /\ c \in Group!TimerType /\ c.alarm = b.alarm /\ c.load = b.load /\ c.cfg = b.cfg
      /\ c.counter = b.counter /\ c.phase = p
  BY <1>5 DEF Group!TimerType
<1> HIDE DEF c
<1>9. a.counter = b.counter /\ a.cfg.alarmEn = b.cfg.alarmEn
  BY <1>1, <1>2, <1>3, <1>4, <1>6, <1>7
<1>10. a = c
  BY <1>1, <1>5, <1>6, <1>7, <1>8, <1>9, SameTimer
<1> QED BY <1>1, <1>3, <1>10 DEF a, b, c

LEMMA Rephased ==
    ASSUME Group!TimerGroupAssumption, NEW t \in Group!TimerType,
           NEW p \in Group!PhaseType, NEW x \in Nat,
           NEW r, r = [t EXCEPT !.phase = p]
    PROVE  /\ r \in Group!TimerType /\ r.phase = p
           /\ r.cfg = t.cfg /\ r.counter = t.counter
           /\ Group!Fires(r, x) <=> Group!Fires(t, x)
           /\ Group!AdvanceTimer(r, x) = [Group!AdvanceTimer(t, x) EXCEPT !.phase = p]
<1>1. /\ r \in Group!TimerType /\ r.phase = p /\ r.cfg = t.cfg /\ r.counter = t.counter
      /\ r.alarm = t.alarm /\ r.load = t.load
  BY DEF Group!TimerType
<1>2. \A z \in Group!TimerType :
        /\ z.phase = p /\ z.cfg = t.cfg /\ z.counter = t.counter
        /\ z.alarm = t.alarm /\ z.load = t.load
        => /\ Group!Fires(z, x) <=> Group!Fires(t, x)
           /\ Group!AdvanceTimer(z, x) = [Group!AdvanceTimer(t, x) EXCEPT !.phase = p]
  BY OtherPhase
<1> QED BY <1>1, <1>2

Rings(t, n) == t.cfg.enable /\ Group!Fires(t, Group!Ticks(t, n).ticks)

\* Looking at a timer on the way changes nothing about its end.
LEMMA TimerAdds ==
    ASSUME Group!TimerGroupAssumption, NEW t \in Group!TimerType,
           NEW a \in Nat, NEW b \in Nat, NEW r, r = Group!ElapseTimer(t, a)
    PROVE  /\ r \in Group!TimerType
           /\ Group!ElapseTimer(r, b) = Group!ElapseTimer(t, a + b)
           /\ Rings(t, a + b) <=> Rings(t, a) \/ Rings(r, b)
<1>1. CASE ~t.cfg.enable
  BY <1>1 DEF Group!ElapseTimer, Rings
<1>2. CASE t.cfg.enable
  <2> DEFINE src == t.cfg.source
             den == Group!Denominator(t)
             s == Group!ScaledTicks(a, src, den, t.phase)
             u == Group!ScaledTicks(b, src, den, s.phase)
             v == Group!ScaledTicks(a + b, src, den, t.phase)
  <2>1. src \in Nat /\ t.phase \in Group!PhaseType
    BY TimerFields
  <2>2. den \in Nat \ {0}
    BY TimerFields DEF Group!Denominator, Group!TimerGroupAssumption
  <2>3. Group!Ticks(t, a) = s /\ Group!Ticks(t, a + b) = v
    BY DEF Group!Ticks
  <2>4. u = Group!ScaledTicks(b, src, den, s.phase)
    OBVIOUS
  <2> HIDE DEF src, den
  <2>5. /\ v.ticks = s.ticks + u.ticks /\ v.phase = u.phase
        /\ s.ticks \in Nat /\ u.ticks \in Nat /\ s.phase \in Group!PhaseType
        /\ u.phase \in Group!PhaseType
    BY <2>1, <2>2, TicksAdd
  <2> HIDE DEF s, u, v
  <2>6. s.phase \in Group!PhaseType /\ u.phase \in Group!PhaseType /\ v.phase = u.phase
    BY <2>5
  <2> DEFINE x == s.ticks
             y == u.ticks
             ts == [t EXCEPT !.phase = s.phase]
             tu == [t EXCEPT !.phase = u.phase]
             q == Group!AdvanceTimer(tu, x)
  <2>7. x \in Nat /\ y \in Nat /\ x + y \in Nat /\ v.ticks = x + y
    BY <2>5
  <2>8. r = Group!AdvanceTimer(ts, x)
    BY <1>2, <2>3 DEF Group!ElapseTimer
  <2>9. Group!ElapseTimer(t, a + b) = Group!AdvanceTimer(tu, x + y)
    BY <1>2, <2>3, <2>6, <2>7 DEF Group!ElapseTimer
  <2>10. /\ ts = [t EXCEPT !.phase = s.phase] /\ tu = [t EXCEPT !.phase = u.phase]
         /\ q = Group!AdvanceTimer(tu, x)
    OBVIOUS
  <2>11. /\ Rings(t, a + b) <=> Group!Fires(t, x + y)
         /\ Rings(t, a) <=> Group!Fires(t, x)
    BY <1>2, <2>3, <2>7 DEF Rings
  <2> HIDE DEF x, y, ts, tu, q
  <2>12. /\ ts \in Group!TimerType /\ ts.phase = s.phase /\ ts.cfg = t.cfg
         /\ r = [Group!AdvanceTimer(t, x) EXCEPT !.phase = s.phase]
         /\ Group!Fires(ts, x) <=> Group!Fires(t, x)
    BY <2>6, <2>7, <2>8, <2>10, Rephased, SMTT(30)
  <2>13. /\ tu \in Group!TimerType /\ tu.cfg = t.cfg
         /\ q = [Group!AdvanceTimer(t, x) EXCEPT !.phase = u.phase]
         /\ Group!Fires(tu, x) <=> Group!Fires(t, x)
         /\ Group!Fires(tu, x + y) <=> Group!Fires(t, x + y)
    <3> DEFINE p == u.phase
               z == x + y
    <3>1. p \in Group!PhaseType /\ tu = [t EXCEPT !.phase = p] /\ x \in Nat /\ z \in Nat
      BY <2>6, <2>7, <2>10
    <3> HIDE DEF p, z
    <3>2. tu \in Group!TimerType /\ tu.cfg = t.cfg
      BY <3>1, Rephased
    <3>3. Group!AdvanceTimer(tu, x) = [Group!AdvanceTimer(t, x) EXCEPT !.phase = p]
      BY <3>1, Rephased
    <3>4. Group!Fires(tu, x) <=> Group!Fires(t, x)
      BY <3>1, Rephased
    <3>5. Group!Fires(tu, z) <=> Group!Fires(t, z)
      BY <3>1, Rephased
    <3> QED BY <2>10, <3>2, <3>3, <3>4, <3>5 DEF p, z
  <2>14. /\ r \in Group!TimerType /\ r.phase = s.phase
         /\ r.cfg.enable = t.cfg.enable /\ r.cfg.source = t.cfg.source
         /\ r.cfg.divider = t.cfg.divider
    <3>1. ts \in Group!TimerType
      BY <2>12
    <3>2. /\ r \in Group!TimerType /\ r.phase = ts.phase
          /\ r.cfg.enable = ts.cfg.enable /\ r.cfg.source = ts.cfg.source
          /\ r.cfg.divider = ts.cfg.divider
      BY <2>7, <2>8, <3>1, AdvanceFields
    <3> QED BY <2>12, <3>2
  <2>15. Group!Ticks(r, b) = u
    BY <2>4, <2>14 DEF Group!Ticks, Group!Denominator, src, den
  <2>16. q = [r EXCEPT !.phase = u.phase]
    <3>1. Group!AdvanceTimer(t, x) \in Group!TimerType
      BY <2>7, AdvanceFields
    <3> QED BY <2>12, <2>13, <3>1 DEF Group!TimerType
  <2>17. Group!ElapseTimer(r, b) = Group!AdvanceTimer(q, y)
    BY <1>2, <2>14, <2>15, <2>16 DEF Group!ElapseTimer, y
  <2>18. Group!Fires(q, y) <=> Group!Fires(r, y)
    BY <2>6, <2>7, <2>14, <2>16, Rephased
  <2>19. /\ Group!AdvanceTimer(q, y) = Group!AdvanceTimer(tu, x + y)
         /\ Group!Fires(tu, x + y) <=> Group!Fires(tu, x) \/ Group!Fires(q, y)
    BY <2>7, <2>10, <2>13, AdvanceAdds
  <2>20. Rings(r, b) <=> Group!Fires(r, y)
    BY <1>2, <2>14, <2>15 DEF Rings, y
  <2> QED BY <2>9, <2>11, <2>13, <2>14, <2>17, <2>18, <2>19, <2>20
<1> QED BY <1>1, <1>2, TimerFields

WdtRounds ==
    [w : Group!WdtType, ticks : Nat, raised : SUBSET {Group!WDT}, reset : BOOLEAN]

LEMMA LargerOf ==
    ASSUME NEW a \in Int, NEW b \in Int
    PROVE  Group!Max({a, b}) = IF a >= b THEN a ELSE b
<1>1. \E x \in {a, b} : \A y \in {a, b} : x >= y
  OBVIOUS
<1>2. Group!Max({a, b}) \in {a, b} /\ \A y \in {a, b} : Group!Max({a, b}) >= y
  BY <1>1 DEF Group!Max
<1> QED BY <1>2

LEMMA WdtFields ==
    ASSUME NEW w \in Group!WdtType
    PROVE  /\ w.cfg \in Group!WdtConfigType /\ w.cfg.enable \in BOOLEAN
           /\ w.hold \in [Group!Stages -> Nat] /\ w.prescaler \in Nat
           /\ w.stage \in 0 .. 4 /\ w.ticks \in Nat /\ w.phase \in Group!PhaseType
BY DEF Group!WdtType, Group!WdtConfigType

LEMMA RemainingBound ==
    ASSUME NEW w \in Group!WdtType, Group!WdtActive(w)
    PROVE  /\ Group!WdtRemaining(w) \in Nat \ {0}
           /\ w.stage \in 0 .. 3
           /\ Group!WdtRemaining(w) > 1 =>
                Group!WdtRemaining(w) = Group!WdtHold(w) - w.ticks
           /\ Group!WdtHold(w) - w.ticks > 0 =>
                Group!WdtRemaining(w) = Group!WdtHold(w) - w.ticks
<1>1. w.stage \in Group!Stages /\ w.hold[w.stage] \in Nat
  BY WdtFields DEF Group!WdtActive
<1>2. Group!WdtHold(w) \in Nat
  BY <1>1, LargerOf, 1 \in Int DEF Group!WdtHold
<1> DEFINE d == Group!WdtHold(w) - w.ticks
           r == Group!Max({d, 1})
<1>3. d \in Int
  BY <1>2, WdtFields
<1>4. Group!WdtRemaining(w) = r
  BY DEF Group!WdtRemaining
<1> HIDE DEF d
<1>5. r = IF d >= 1 THEN d ELSE 1
  BY <1>3, LargerOf, 1 \in Int
<1> HIDE DEF r
<1>6. /\ r \in Nat \ {0} /\ (r > 1 => r = d)
      /\ d > 0 => r = d
  BY <1>3, <1>5
<1>7. w.stage \in 0 .. 3
  BY <1>1 DEF Group!Stages
<1> QED BY <1>4, <1>6, <1>7 DEF d

\* A round that does nothing, one that stays in its stage, and one that ends it.
LEMMA RoundCases ==
    ASSUME NEW s \in WdtRounds
    PROVE  /\ s.ticks = 0 \/ ~Group!WdtActive(s.w) => Group!WdtRound(s) = s
           /\ s.ticks > 0 /\ Group!WdtActive(s.w) /\ s.ticks < Group!WdtRemaining(s.w)
                => Group!WdtRound(s) = [s EXCEPT !.w.ticks = s.w.ticks + s.ticks, !.ticks = 0]
           /\ s.ticks > 0 /\ Group!WdtActive(s.w) /\ ~(s.ticks < Group!WdtRemaining(s.w))
                => Group!WdtRound(s) = Group!StageEnd(s, s.ticks - Group!WdtRemaining(s.w))
<1> DEFINE left == Group!WdtRemaining(s.w)
           active == Group!WdtActive(s.w)
           idle == s.ticks = 0 \/ ~active
           within == s.ticks > 0 /\ active /\ s.ticks < left
           stays == [s EXCEPT !.w.ticks = s.w.ticks + s.ticks, !.ticks = 0]
           ends == Group!StageEnd(s, s.ticks - left)
<1>1. s.ticks \in Nat
  BY DEF WdtRounds
<1>2. Group!WdtRound(s) = CASE idle -> s [] within -> stays [] OTHER -> ends
  BY DEF Group!WdtRound
<1> HIDE DEF left, active, stays, ends
<1>3. idle => ~within
  BY <1>1
<1>4. s.ticks > 0 /\ active => ~idle
  BY <1>1
<1> HIDE DEF idle, within
<1>5. idle => Group!WdtRound(s) = s
  BY <1>2, <1>3
<1>6. ~idle /\ within => Group!WdtRound(s) = stays
  BY <1>2
<1>7. ~idle /\ ~within => Group!WdtRound(s) = ends
  BY <1>2
<1>8. (s.ticks = 0 \/ ~active) => Group!WdtRound(s) = s
  BY <1>5 DEF idle
<1>9. (s.ticks > 0 /\ active /\ s.ticks < left) => Group!WdtRound(s) = stays
  BY <1>4, <1>6 DEF within
<1>10. (s.ticks > 0 /\ active /\ ~(s.ticks < left)) => Group!WdtRound(s) = ends
  BY <1>4, <1>7 DEF within
<1> QED BY <1>8, <1>9, <1>10 DEF active, left, stays, ends

LEMMA StageEndFields ==
    ASSUME NEW s \in WdtRounds, Group!WdtActive(s.w), NEW n \in Nat
    PROVE  /\ Group!StageEnd(s, n) \in WdtRounds /\ Group!StageEnd(s, n).ticks = n
           /\ Group!StageEnd(s, n).w.stage > s.w.stage
           /\ Group!StageEnd(s, n).w.cfg = s.w.cfg
           /\ Group!StageEnd(s, n).w.prescaler = s.w.prescaler
           /\ Group!StageEnd(s, n).w.phase = s.w.phase
<1>1. s.w \in Group!WdtType /\ s.raised \in SUBSET {Group!WDT} /\ s.reset \in BOOLEAN
  BY DEF WdtRounds
<1>2. s.w.stage \in 0 .. 3
  BY <1>1, WdtFields DEF Group!WdtActive, Group!Stages
<1> DEFINE action == s.w.cfg.action[s.w.stage]
           reset == action \in {"resetCpu", "resetSystem"}
           next == IF reset THEN 4 ELSE s.w.stage + 1
           v == [s.w EXCEPT !.ticks = 0, !.stage = next]
           raised == IF action = "interrupt" THEN {Group!WDT} ELSE s.raised
<1>3. next \in 0 .. 4 /\ next > s.w.stage
  BY <1>2
<1>4. Group!StageEnd(s, n) = [w |-> v, ticks |-> n, raised |-> raised, reset |-> s.reset \/ reset]
  BY DEF Group!StageEnd
<1>5. raised \in SUBSET {Group!WDT} /\ (s.reset \/ reset) \in BOOLEAN
  BY <1>1
<1> HIDE DEF next, raised, reset
<1>6. v \in Group!WdtType /\ v.stage = next
      /\ v.cfg = s.w.cfg /\ v.prescaler = s.w.prescaler /\ v.phase = s.w.phase
  BY <1>1, <1>3 DEF Group!WdtType
<1> HIDE DEF v
<1> QED BY <1>3, <1>4, <1>5, <1>6 DEF WdtRounds

LEMMA RoundTyped ==
    ASSUME NEW s \in WdtRounds, NEW r, r = Group!WdtRound(s)
    PROVE  /\ r \in WdtRounds
           /\ r.w.stage >= s.w.stage /\ r.w.cfg = s.w.cfg
           /\ r.w.prescaler = s.w.prescaler /\ r.w.phase = s.w.phase
<1>1. s.w \in Group!WdtType /\ s.ticks \in Nat
  BY DEF WdtRounds
<1>2. s.w.stage \in 0 .. 4 /\ s.w.ticks \in Nat
  BY <1>1, WdtFields
<1>3. CASE s.ticks = 0 \/ ~Group!WdtActive(s.w)
  <2>1. r = s
    BY <1>3, RoundCases
  <2> QED BY <1>2, <2>1
<1>4. CASE s.ticks > 0 /\ Group!WdtActive(s.w) /\ s.ticks < Group!WdtRemaining(s.w)
  <2>1. r = [s EXCEPT !.w.ticks = s.w.ticks + s.ticks, !.ticks = 0]
    BY <1>4, RoundCases
  <2>2. s.w.ticks + s.ticks \in Nat
    BY <1>1, <1>2
  <2> DEFINE v == [s.w EXCEPT !.ticks = s.w.ticks + s.ticks]
  <2>3. v \in Group!WdtType /\ v.stage = s.w.stage
        /\ v.cfg = s.w.cfg /\ v.prescaler = s.w.prescaler /\ v.phase = s.w.phase
    BY <1>1, <2>2 DEF Group!WdtType
  <2>4. r = [s EXCEPT !.w = v, !.ticks = 0]
    BY <2>1
  <2> HIDE DEF v
  <2>5. s.raised \in SUBSET {Group!WDT} /\ s.reset \in BOOLEAN
    BY DEF WdtRounds
  <2>6. r = [w |-> v, ticks |-> 0, raised |-> s.raised, reset |-> s.reset]
    BY <2>4 DEF WdtRounds
  <2>7. r \in WdtRounds /\ r.w = v
    BY <2>3, <2>5, <2>6 DEF WdtRounds
  <2> QED BY <1>2, <2>3, <2>7
<1>5. CASE s.ticks > 0 /\ Group!WdtActive(s.w) /\ ~(s.ticks < Group!WdtRemaining(s.w))
  <2>1. r = Group!StageEnd(s, s.ticks - Group!WdtRemaining(s.w))
    BY <1>5, RoundCases
  <2>2. s.ticks - Group!WdtRemaining(s.w) \in Nat
    BY <1>1, <1>5, RemainingBound
  <2>3. /\ r \in WdtRounds /\ r.w.stage > s.w.stage /\ r.w.cfg = s.w.cfg
        /\ r.w.prescaler = s.w.prescaler /\ r.w.phase = s.w.phase
    BY <1>5, <2>1, <2>2, StageEndFields
  <2>4. r.w.stage \in 0 .. 4
    BY <2>3, WdtFields DEF WdtRounds
  <2> QED BY <1>2, <2>3, <2>4
<1> QED BY <1>1, <1>3, <1>4, <1>5

\* The same round with another number of ticks to apply.
Rest(s, n) == [s EXCEPT !.ticks = n]

LEMMA RestFields ==
    ASSUME NEW s \in WdtRounds, NEW n \in Nat, NEW r, r = Rest(s, n)
    PROVE  /\ r \in WdtRounds /\ r.w = s.w /\ r.ticks = n
           /\ r.raised = s.raised /\ r.reset = s.reset
           /\ Rest(s, s.ticks) = s /\ (\A m : Rest(r, m) = Rest(s, m))
BY DEF Rest, WdtRounds

\* Ticks that stay in the stage can be applied in two parts.
LEMMA StayShift ==
    ASSUME NEW s \in WdtRounds, s.ticks > 0, Group!WdtActive(s.w),
           s.ticks < Group!WdtRemaining(s.w), NEW r, r = Group!WdtRound(s),
           NEW y \in Nat, y > 0
    PROVE  Group!WdtRound(Rest(r, y)) = Group!WdtRound(Rest(s, s.ticks + y))
<1> DEFINE n == s.ticks
           a == Rest(r, y)
           b == Rest(s, n + y)
           v == [s.w EXCEPT !.ticks = s.w.ticks + n]
<1>1. s.w \in Group!WdtType /\ n \in Nat
  BY DEF WdtRounds
<1>2. s.w.ticks \in Nat /\ Group!WdtRemaining(s.w) \in Nat
      /\ Group!WdtRemaining(s.w) = Group!WdtHold(s.w) - s.w.ticks
      /\ s.w.hold \in [Group!Stages -> Nat] /\ s.w.stage \in Group!Stages
  BY <1>1, RemainingBound, WdtFields DEF Group!Stages
<1>3. Group!WdtHold(s.w) \in Int
  BY <1>2, LargerOf, s.w.hold[s.w.stage] \in Int, 1 \in Int DEF Group!WdtHold
<1>4. r = [s EXCEPT !.w = v, !.ticks = 0]
  BY RoundCases
<1>5. /\ v \in Group!WdtType /\ v.ticks = s.w.ticks + n /\ v.stage = s.w.stage
      /\ v.cfg = s.w.cfg /\ v.hold = s.w.hold
  BY <1>1, <1>2 DEF Group!WdtType
<1>6. v = [s.w EXCEPT !.ticks = s.w.ticks + n]
  OBVIOUS
<1> HIDE DEF v
<1>7. r \in WdtRounds /\ r.w = v /\ r.raised = s.raised /\ r.reset = s.reset
  <2>1. r.w = v /\ r.raised = s.raised /\ r.reset = s.reset
    BY <1>4 DEF WdtRounds
  <2> QED BY <2>1, RoundTyped
<1>8. /\ a \in WdtRounds /\ a.w = v /\ a.ticks = y
      /\ a.raised = s.raised /\ a.reset = s.reset
  BY <1>7, RestFields
<1>9. /\ b \in WdtRounds /\ b.w = s.w /\ b.ticks = n + y
      /\ b.raised = s.raised /\ b.reset = s.reset
  BY <1>1, RestFields, n + y \in Nat
<1>10. Group!WdtActive(v) /\ Group!WdtHold(v) = Group!WdtHold(s.w)
  BY <1>5 DEF Group!WdtActive, Group!WdtHold
<1>11. Group!WdtRemaining(v) = Group!WdtRemaining(s.w) - n
  <2>1. Group!WdtHold(v) - v.ticks = Group!WdtRemaining(s.w) - n
    BY <1>1, <1>2, <1>3, <1>5, <1>10
  <2>2. Group!WdtRemaining(s.w) - n > 0
    BY <1>1, <1>2
  <2> QED BY <1>5, <1>10, <2>1, <2>2, RemainingBound
<1> HIDE DEF a, b, n
<1>12. CASE y < Group!WdtRemaining(v)
  <2>1. Group!WdtRound(a) = [a EXCEPT !.w.ticks = v.ticks + y, !.ticks = 0]
    BY <1>8, <1>10, <1>12, RoundCases
  <2>2. Group!WdtRound(b) = [b EXCEPT !.w.ticks = s.w.ticks + (n + y), !.ticks = 0]
    <3>1. n + y < Group!WdtRemaining(s.w) /\ n + y > 0
      BY <1>1, <1>2, <1>11, <1>12
    <3> QED BY <1>9, <3>1, RoundCases
  <2>3. v.ticks + y = s.w.ticks + (n + y)
    BY <1>1, <1>2, <1>5
  <2>4. [v EXCEPT !.ticks = v.ticks + y] = [s.w EXCEPT !.ticks = s.w.ticks + (n + y)]
    BY <1>1, <1>6, <2>3 DEF Group!WdtType
  <2> DEFINE z == [v EXCEPT !.ticks = v.ticks + y]
  <2>5. /\ Group!WdtRound(a) = [a EXCEPT !.w = z, !.ticks = 0]
        /\ Group!WdtRound(b) = [b EXCEPT !.w = z, !.ticks = 0]
    BY <1>8, <1>9, <2>1, <2>2, <2>4
  <2> HIDE DEF z
  <2>6. [a EXCEPT !.w = z, !.ticks = 0] = [b EXCEPT !.w = z, !.ticks = 0]
    BY <1>8, <1>9 DEF WdtRounds
  <2> QED BY <2>5, <2>6 DEF a, b, n
<1>13. CASE ~(y < Group!WdtRemaining(v))
  <2>1. Group!WdtRound(a) = Group!StageEnd(a, y - Group!WdtRemaining(v))
    BY <1>8, <1>10, <1>13, RoundCases
  <2>2. Group!WdtRound(b) = Group!StageEnd(b, (n + y) - Group!WdtRemaining(s.w))
    <3>1. ~(n + y < Group!WdtRemaining(s.w)) /\ n + y > 0
      BY <1>1, <1>2, <1>11, <1>13
    <3> QED BY <1>9, <3>1, RoundCases
  <2>3. y - Group!WdtRemaining(v) = (n + y) - Group!WdtRemaining(s.w)
    BY <1>1, <1>2, <1>11
  <2>4. \A st1 : [v EXCEPT !.ticks = 0, !.stage = st1]
                   = [s.w EXCEPT !.ticks = 0, !.stage = st1]
    BY <1>1, <1>6 DEF Group!WdtType
  <2>5. Group!StageEnd(a, y - Group!WdtRemaining(v))
          = Group!StageEnd(b, (n + y) - Group!WdtRemaining(s.w))
    BY <1>5, <1>8, <1>9, <2>3, <2>4, ZenonT(30) DEF Group!StageEnd
  <2> QED BY <2>1, <2>2, <2>5 DEF a, b, n
<1> QED BY <1>12, <1>13

\* Ticks that end the stage: those that follow are added to what is left.
LEMMA EndShift ==
    ASSUME NEW s \in WdtRounds, s.ticks > 0, Group!WdtActive(s.w),
           ~(s.ticks < Group!WdtRemaining(s.w)), NEW r, r = Group!WdtRound(s),
           NEW y \in Nat
    PROVE  Group!WdtRound(Rest(s, s.ticks + y)) = Rest(r, r.ticks + y)
<1> DEFINE n == s.ticks
           m == Group!WdtRemaining(s.w)
           b == Rest(s, n + y)
<1>1. s.w \in Group!WdtType /\ n \in Nat
  BY DEF WdtRounds
<1>2. m \in Nat \ {0}
  BY <1>1, RemainingBound
<1>3. /\ b \in WdtRounds /\ b.w = s.w /\ b.ticks = n + y
      /\ b.raised = s.raised /\ b.reset = s.reset
  BY <1>1, RestFields, n + y \in Nat
<1>4. r = Group!StageEnd(s, n - m)
  BY RoundCases
<1> HIDE DEF b
<1>5. n + y > 0 /\ ~(n + y < m)
  BY <1>1, <1>2
<1>6. Group!WdtRound(b) = Group!StageEnd(b, (n + y) - m)
  BY <1>3, <1>5, RoundCases
<1>7. (n + y) - m = (n - m) + y
  BY <1>1, <1>2
<1> HIDE DEF n, m
<1>8. Group!StageEnd(b, (n - m) + y) = Group!StageEnd(s, (n - m) + y)
  BY <1>3 DEF Group!StageEnd
<1>9. Group!StageEnd(s, (n - m) + y) = Rest(Group!StageEnd(s, n - m), (n - m) + y)
  <2> DEFINE action == s.w.cfg.action[s.w.stage]
             reset == action \in {"resetCpu", "resetSystem"}
             w1 == [s.w EXCEPT !.ticks = 0, !.stage = IF reset THEN 4 ELSE s.w.stage + 1]
             raised == IF action = "interrupt" THEN {Group!WDT} ELSE s.raised
             out == s.reset \/ reset
  <2>1. \A k : Group!StageEnd(s, k) = [w |-> w1, ticks |-> k, raised |-> raised, reset |-> out]
    BY Zenon DEF Group!StageEnd
  <2> HIDE DEF w1, raised, out
  <2> QED BY <2>1 DEF Rest
<1>10. r.ticks = n - m
  BY <1>4 DEF Group!StageEnd
<1> QED BY <1>4, <1>6, <1>7, <1>8, <1>9, <1>10 DEF b, n

\* F applies the ticks of a watchdog that has at most k stages left: completely,
\* and in two parts as at once.
Applies(F, k) ==
    /\ F \in [WdtRounds -> WdtRounds]
    /\ \A s \in WdtRounds :
         /\ Group!WdtRound(s) = s => F[s] = s
         /\ F[Group!WdtRound(s)] = Group!WdtRound(F[s])
         /\ F[s].w.stage >= s.w.stage
    /\ \A s \in WdtRounds :
         s.w.stage >= 4 - k =>
           /\ Group!WdtRound(F[s]) = F[s]
           /\ \A y \in Nat :
                Rest(F[Rest(F[s], y)], 0) = Rest(F[Rest(s, s.ticks + y)], 0)

Nothing == [s \in WdtRounds |-> s]
OneMoreRound(F) == [s \in WdtRounds |-> F[Group!WdtRound(s)]]

LEMMA NoStages == Applies(Nothing, 0)
<1>1. Nothing \in [WdtRounds -> WdtRounds] /\ \A s \in WdtRounds : Nothing[s] = s
  BY DEF Nothing
<1>2. ASSUME NEW s \in WdtRounds
      PROVE  /\ Nothing[Group!WdtRound(s)] = Group!WdtRound(Nothing[s])
             /\ Nothing[s].w.stage >= s.w.stage
  <2>1. Group!WdtRound(s) \in WdtRounds
    BY RoundTyped
  <2>2. s.w.stage \in 0 .. 4
    BY WdtFields DEF WdtRounds
  <2> QED BY <1>1, <2>1, <2>2
<1>3. ASSUME NEW s \in WdtRounds, s.w.stage >= 4 - 0
      PROVE  /\ Group!WdtRound(Nothing[s]) = Nothing[s]
             /\ \A y \in Nat : Rest(Nothing[Rest(Nothing[s], y)], 0)
                                 = Rest(Nothing[Rest(s, s.ticks + y)], 0)
  <2>1. s.w.stage \in 0 .. 4 /\ s.ticks \in Nat
    BY WdtFields DEF WdtRounds
  <2>2. ~Group!WdtActive(s.w)
    BY <1>3, <2>1 DEF Group!WdtActive, Group!Stages
  <2>3. Group!WdtRound(s) = s
    BY <2>2, RoundCases
  <2>4. ASSUME NEW y \in Nat
        PROVE  Rest(Nothing[Rest(Nothing[s], y)], 0) = Rest(Nothing[Rest(s, s.ticks + y)], 0)
    <3>1. s.ticks + y \in Nat
      BY <2>1
    <3>2. Rest(s, y) \in WdtRounds /\ Rest(s, s.ticks + y) \in WdtRounds
      BY <3>1, RestFields
    <3>3. Rest(Rest(s, y), 0) = Rest(s, 0) /\ Rest(Rest(s, s.ticks + y), 0) = Rest(s, 0)
      BY <3>1, RestFields
    <3> QED BY <1>1, <3>2, <3>3
  <2> QED BY <1>1, <2>3, <2>4
<1> QED BY <1>1, <1>2, <1>3 DEF Applies

LEMMA MoreStages ==
    ASSUME NEW k \in 0 .. 3, NEW F, Applies(F, k)
    PROVE  Applies(OneMoreRound(F), k + 1)
<1> DEFINE R(s) == Group!WdtRound(s)
           G == OneMoreRound(F)
<1>1. F \in [WdtRounds -> WdtRounds]
  BY DEF Applies
<1>2. \A s \in WdtRounds : R(s) \in WdtRounds /\ R(s).w.stage >= s.w.stage
  BY RoundTyped
<1>3. \A s \in WdtRounds : s.w.stage \in 0 .. 4 /\ s.ticks \in Nat
  BY WdtFields DEF WdtRounds
<1>4. \A s \in WdtRounds : /\ R(s) = s => F[s] = s
                           /\ F[R(s)] = R(F[s]) /\ F[s].w.stage >= s.w.stage
  BY DEF Applies
<1>5. \A s \in WdtRounds : s.w.stage >= 4 - k => R(F[s]) = F[s]
  BY DEF Applies
<1>6. \A s \in WdtRounds : s.w.stage >= 4 - k =>
        \A y \in Nat : Rest(F[Rest(F[s], y)], 0) = Rest(F[Rest(s, s.ticks + y)], 0)
  BY DEF Applies
<1>7. G \in [WdtRounds -> WdtRounds] /\ \A s \in WdtRounds : G[s] = F[R(s)]
  BY <1>1, <1>2 DEF OneMoreRound
<1> HIDE DEF R, G
<1>8. \A s \in WdtRounds : s.w.stage >= 4 - k => G[s] = F[s]
  BY <1>4, <1>5, <1>7
<1>9. \A s \in WdtRounds : R(s) = s => G[s] = s
  BY <1>4, <1>7
<1>10. ASSUME NEW s \in WdtRounds
       PROVE  G[R(s)] = R(G[s]) /\ G[s].w.stage >= s.w.stage
  <2>1. G[R(s)] = F[R(R(s))] /\ F[R(R(s))] = R(F[R(s)]) /\ G[s] = F[R(s)]
    BY <1>2, <1>4, <1>7
  <2>2. F[R(s)].w.stage >= R(s).w.stage /\ R(s).w.stage >= s.w.stage
    BY <1>2, <1>4
  <2>3. F[R(s)].w.stage \in Int /\ R(s).w.stage \in Int /\ s.w.stage \in Int
    BY <1>1, <1>2, <1>3
  <2> QED BY <2>1, <2>2, <2>3
<1>11. ASSUME NEW s \in WdtRounds, s.w.stage >= 4 - (k + 1)
       PROVE  /\ R(G[s]) = G[s]
              /\ \A y \in Nat : Rest(G[Rest(G[s], y)], 0) = Rest(G[Rest(s, s.ticks + y)], 0)
  <2> DEFINE r == R(s)
  <2>1. s.ticks \in Nat /\ s.w.stage \in 0 .. 4 /\ r \in WdtRounds
    BY <1>2, <1>3
  <2>2. CASE s.w.stage >= 4 - k
    <3>1. R(G[s]) = G[s]
      BY <1>5, <1>8, <2>2
    <3>2. ASSUME NEW y \in Nat
          PROVE  Rest(G[Rest(G[s], y)], 0) = Rest(G[Rest(s, s.ticks + y)], 0)
      <4>1. Rest(s, s.ticks + y) \in WdtRounds /\ Rest(s, s.ticks + y).w = s.w
        BY <2>1, RestFields, s.ticks + y \in Nat
      <4>2. F[s] \in WdtRounds /\ F[s].w.stage >= s.w.stage
        BY <1>1, <1>4
      <4>3. Rest(F[s], y) \in WdtRounds /\ Rest(F[s], y).w = F[s].w
        BY <4>2, RestFields
      <4>4. F[s].w.stage >= 4 - k
        BY <1>3, <2>1, <2>2, <4>2
      <4>5. G[Rest(F[s], y)] = F[Rest(F[s], y)]
            /\ G[Rest(s, s.ticks + y)] = F[Rest(s, s.ticks + y)] /\ G[s] = F[s]
        BY <1>8, <2>2, <4>1, <4>3, <4>4
      <4>6. Rest(F[Rest(F[s], y)], 0) = Rest(F[Rest(s, s.ticks + y)], 0)
        BY <1>6, <2>2
      <4> QED BY <4>5, <4>6
    <3> QED BY <3>1, <3>2
  <2>3. CASE s.ticks = 0 \/ ~Group!WdtActive(s.w)
    <3>1. R(s) = s
      BY <2>3, RoundCases DEF R
    <3>2. G[s] = s
      BY <1>9, <3>1
    <3>3. ASSUME NEW y \in Nat
          PROVE  Rest(G[Rest(s, y)], 0) = Rest(G[Rest(s, s.ticks + y)], 0)
      <4>1. s.ticks + y \in Nat
        BY <2>1
      <4>2. CASE s.ticks = 0
        <5>1. s.ticks + y = y
          BY <4>2
        <5> QED BY <5>1
      <4>3. CASE ~Group!WdtActive(s.w)
        <5>1. /\ Rest(s, y) \in WdtRounds /\ Rest(s, y).w = s.w
              /\ Rest(s, s.ticks + y) \in WdtRounds /\ Rest(s, s.ticks + y).w = s.w
          BY <4>1, RestFields
        <5>2. R(Rest(s, y)) = Rest(s, y) /\ R(Rest(s, s.ticks + y)) = Rest(s, s.ticks + y)
          BY <4>3, <5>1, RoundCases DEF R
        <5>3. G[Rest(s, y)] = Rest(s, y) /\ G[Rest(s, s.ticks + y)] = Rest(s, s.ticks + y)
          BY <1>9, <5>1, <5>2
        <5>4. Rest(Rest(s, y), 0) = Rest(s, 0) /\ Rest(Rest(s, s.ticks + y), 0) = Rest(s, 0)
          BY <4>1, RestFields
        <5> QED BY <5>3, <5>4
      <4> QED BY <2>3, <4>2, <4>3
    <3> QED BY <3>1, <3>2, <3>3
  <2>4. CASE s.ticks > 0 /\ Group!WdtActive(s.w) /\ s.ticks < Group!WdtRemaining(s.w)
    <3>1. r.ticks = 0
      <4>1. r = [s EXCEPT !.w.ticks = s.w.ticks + s.ticks, !.ticks = 0]
        BY <2>4, RoundCases DEF R
      <4> QED BY <4>1 DEF WdtRounds
    <3>2. R(r) = r
      BY <2>1, <3>1, RoundCases DEF R
    <3>3. G[s] = r
      BY <1>4, <1>7, <2>1, <3>2
    <3>4. ASSUME NEW y \in Nat
          PROVE  Rest(G[Rest(r, y)], 0) = Rest(G[Rest(s, s.ticks + y)], 0)
      <4>1. Rest(r, y) \in WdtRounds /\ Rest(s, s.ticks + y) \in WdtRounds
        BY <2>1, RestFields, s.ticks + y \in Nat
      <4>2. CASE y = 0
        <5>1. Rest(r, y) = r /\ Rest(s, s.ticks + y) = s
          <6>1. Rest(r, r.ticks) = r /\ Rest(s, s.ticks) = s
            BY <2>1, RestFields
          <6>2. s.ticks + y = s.ticks
            BY <2>1, <4>2
          <6> QED BY <3>1, <4>2, <6>1, <6>2
        <5>2. G[r] = r
          BY <1>9, <2>1, <3>2
        <5> QED BY <3>3, <5>1, <5>2
      <4>3. CASE y > 0
        <5>1. R(Rest(r, y)) = R(Rest(s, s.ticks + y))
          BY <2>4, <4>3, StayShift DEF R
        <5> QED BY <1>7, <4>1, <5>1
      <4> QED BY <4>2, <4>3
    <3> QED BY <3>2, <3>3, <3>4
  <2>5. CASE s.ticks > 0 /\ Group!WdtActive(s.w) /\ ~(s.ticks < Group!WdtRemaining(s.w))
    <3>1. r.w.stage >= 4 - k
      <4>1. s.ticks - Group!WdtRemaining(s.w) \in Nat
        BY <2>1, <2>5, RemainingBound DEF WdtRounds
      <4>2. r = Group!StageEnd(s, s.ticks - Group!WdtRemaining(s.w))
        BY <2>5, RoundCases DEF R
      <4>3. r.w.stage > s.w.stage
        BY <2>5, <4>1, <4>2, StageEndFields
      <4>4. r.w.stage \in 0 .. 4
        BY <1>3, <2>1
      <4> QED BY <1>11, <2>1, <4>3, <4>4
    <3>2. G[s] = F[r] /\ R(F[r]) = F[r] /\ F[r] \in WdtRounds /\ r.ticks \in Nat
      BY <1>1, <1>3, <1>5, <1>7, <2>1, <3>1
    <3>3. ASSUME NEW y \in Nat
          PROVE  Rest(G[Rest(F[r], y)], 0) = Rest(G[Rest(s, s.ticks + y)], 0)
      <4>1. R(Rest(s, s.ticks + y)) = Rest(r, r.ticks + y)
        BY <2>5, EndShift DEF R
      <4>2. Rest(s, s.ticks + y) \in WdtRounds
        BY <2>1, RestFields, s.ticks + y \in Nat
      <4>3. G[Rest(s, s.ticks + y)] = F[Rest(r, r.ticks + y)]
        BY <1>7, <4>1, <4>2
      <4>4. Rest(F[r], y) \in WdtRounds /\ Rest(F[r], y).w = F[r].w
        BY <3>2, RestFields
      <4>5. F[r].w.stage >= 4 - k
        <5>1. F[r].w.stage >= r.w.stage /\ F[r].w.stage \in Int /\ r.w.stage \in Int
          BY <1>3, <1>4, <2>1, <3>2
        <5> QED BY <3>1, <5>1
      <4>6. G[Rest(F[r], y)] = F[Rest(F[r], y)]
        BY <1>8, <4>4, <4>5
      <4>7. Rest(F[Rest(F[r], y)], 0) = Rest(F[Rest(r, r.ticks + y)], 0)
        BY <1>6, <2>1, <3>1
      <4> QED BY <4>3, <4>6, <4>7
    <3> QED BY <3>2, <3>3
  <2> QED BY <2>1, <2>3, <2>4, <2>5
<1> QED BY <1>7, <1>9, <1>10, <1>11 DEF Applies, R, G

LEMMA SameRound ==
    ASSUME NEW s \in WdtRounds, NEW t \in WdtRounds,
           s.w = t.w, s.ticks = t.ticks, s.raised = t.raised, s.reset = t.reset
    PROVE  s = t
BY DEF WdtRounds

FourRounds(s) ==
    Group!WdtRound(Group!WdtRound(Group!WdtRound(Group!WdtRound(s))))

LEMMA FourAdd ==
    ASSUME NEW s \in WdtRounds, NEW r, r = FourRounds(s)
    PROVE  /\ r \in WdtRounds /\ r.w.cfg = s.w.cfg
           /\ r.w.prescaler = s.w.prescaler /\ r.w.phase = s.w.phase
           /\ Group!WdtRound(s) = s => r = s
           /\ \A y \in Nat :
                Rest(FourRounds(Rest(r, y)), 0) = Rest(FourRounds(Rest(s, s.ticks + y)), 0)
<1> DEFINE R(t) == Group!WdtRound(t)
           F1 == OneMoreRound(Nothing)
           F2 == OneMoreRound(F1)
           F3 == OneMoreRound(F2)
           F4 == OneMoreRound(F3)
<1>1. Applies(F1, 1)
  BY NoStages, MoreStages, 0 \in 0 .. 3, 0 + 1 = 1
<1>2. Applies(F2, 2)
  <2> HIDE DEF F1
  <2> QED BY <1>1, MoreStages, 1 \in 0 .. 3, 1 + 1 = 2
<1>3. Applies(F3, 3)
  <2> HIDE DEF F2
  <2> QED BY <1>2, MoreStages, 2 \in 0 .. 3, 2 + 1 = 3
<1>4. Applies(F4, 4)
  <2> HIDE DEF F3
  <2> QED BY <1>3, MoreStages, 3 \in 0 .. 3, 3 + 1 = 4
<1>5. \A t \in WdtRounds : /\ R(t) \in WdtRounds /\ R(t).w.cfg = t.w.cfg
                           /\ R(t).w.prescaler = t.w.prescaler /\ R(t).w.phase = t.w.phase
  BY RoundTyped
<1>6. \A t \in WdtRounds : F4[t] = FourRounds(t)
  <2> HIDE DEF R
  <2>0. \A t \in WdtRounds : Nothing[t] = t
    BY DEF Nothing
  <2>1. \A t \in WdtRounds : F1[t] = R(t)
    BY <1>5, <2>0 DEF OneMoreRound, R
  <2> HIDE DEF F1
  <2>2. \A t \in WdtRounds : F2[t] = R(R(t))
    BY <1>5, <2>1 DEF OneMoreRound, R
  <2> HIDE DEF F2
  <2>3. \A t \in WdtRounds : F3[t] = R(R(R(t)))
    BY <1>5, <2>2 DEF OneMoreRound, R
  <2> HIDE DEF F3
  <2>4. \A t \in WdtRounds : F4[t] = R(R(R(R(t))))
    BY <1>5, <2>3 DEF OneMoreRound, R
  <2> QED BY <2>4 DEF FourRounds, R
<1> HIDE DEF F4
<1>7. /\ r \in WdtRounds /\ r.w.cfg = s.w.cfg
      /\ r.w.prescaler = s.w.prescaler /\ r.w.phase = s.w.phase
  <2> DEFINE a == R(s)
             b == R(a)
             c == R(b)
  <2>1. a \in WdtRounds /\ a.w.cfg = s.w.cfg
        /\ a.w.prescaler = s.w.prescaler /\ a.w.phase = s.w.phase
    BY <1>5
  <2> HIDE DEF a
  <2>2. b \in WdtRounds /\ b.w.cfg = s.w.cfg
        /\ b.w.prescaler = s.w.prescaler /\ b.w.phase = s.w.phase
    BY <1>5, <2>1
  <2> HIDE DEF b
  <2>3. c \in WdtRounds /\ c.w.cfg = s.w.cfg
        /\ c.w.prescaler = s.w.prescaler /\ c.w.phase = s.w.phase
    BY <1>5, <2>2
  <2> HIDE DEF c
  <2>4. r = R(c)
    BY DEF FourRounds, a, b, c
  <2> QED BY <1>5, <2>3, <2>4
<1>8. Group!WdtRound(s) = s => r = s
  BY DEF FourRounds
<1>9. ASSUME NEW y \in Nat
      PROVE  Rest(FourRounds(Rest(r, y)), 0) = Rest(FourRounds(Rest(s, s.ticks + y)), 0)
  <2>1. s.ticks \in Nat /\ s.w.stage \in 0 .. 4
    BY WdtFields DEF WdtRounds
  <2>2. Rest(r, y) \in WdtRounds /\ Rest(s, s.ticks + y) \in WdtRounds
    BY <1>7, <2>1, RestFields, s.ticks + y \in Nat
  <2>3. s.w.stage >= 4 - 4
    BY <2>1
  <2>4. Rest(F4[Rest(F4[s], y)], 0) = Rest(F4[Rest(s, s.ticks + y)], 0)
    BY <1>4, <2>3 DEF Applies
  <2> QED BY <1>6, <2>2, <2>4
<1> QED BY <1>7, <1>8, <1>9

\* Another phase, and things raised before.
With(s, p, A, B) ==
    [w |-> [s.w EXCEPT !.phase = p], ticks |-> s.ticks,
     raised |-> s.raised \cup A, reset |-> s.reset \/ B]

LEMMA RoundWith ==
    ASSUME NEW s \in WdtRounds, NEW p \in Group!PhaseType,
           NEW A \in SUBSET {Group!WDT}, NEW B \in BOOLEAN,
           NEW t, t = With(s, p, A, B)
    PROVE  t \in WdtRounds /\ Group!WdtRound(t) = With(Group!WdtRound(s), p, A, B)
<1>1. s.w \in Group!WdtType /\ s.ticks \in Nat
      /\ s.raised \in SUBSET {Group!WDT} /\ s.reset \in BOOLEAN
  BY DEF WdtRounds
<1> DEFINE v == [s.w EXCEPT !.phase = p]
<1>2. /\ v \in Group!WdtType /\ v.cfg = s.w.cfg /\ v.stage = s.w.stage
      /\ v.ticks = s.w.ticks /\ v.hold = s.w.hold
  BY <1>1 DEF Group!WdtType
<1>3. v = [s.w EXCEPT !.phase = p]
  OBVIOUS
<1>4. t = [w |-> v, ticks |-> s.ticks, raised |-> s.raised \cup A, reset |-> s.reset \/ B]
  BY DEF With
<1> HIDE DEF v
<1>5. /\ t \in WdtRounds /\ t.w = v /\ t.ticks = s.ticks
      /\ t.raised = s.raised \cup A /\ t.reset = (s.reset \/ B)
  <2>1. (s.reset \/ B) \in BOOLEAN /\ s.raised \cup A \in SUBSET {Group!WDT}
    BY <1>1
  <2> QED BY <1>1, <1>2, <1>4, <2>1 DEF WdtRounds
<1>6. /\ Group!WdtActive(v) <=> Group!WdtActive(s.w)
      /\ Group!WdtRemaining(v) = Group!WdtRemaining(s.w)
  BY <1>2 DEF Group!WdtActive, Group!WdtRemaining, Group!WdtHold
<1>7. CASE s.ticks = 0 \/ ~Group!WdtActive(s.w)
  <2>1. Group!WdtRound(s) = s
    BY <1>7, RoundCases
  <2>2. Group!WdtRound(t) = t
    BY <1>5, <1>6, <1>7, RoundCases
  <2> QED BY <1>5, <2>1, <2>2
<1>8. CASE s.ticks > 0 /\ Group!WdtActive(s.w) /\ s.ticks < Group!WdtRemaining(s.w)
  <2> DEFINE n == s.w.ticks + s.ticks
  <2>1. Group!WdtRound(s) = [s EXCEPT !.w.ticks = n, !.ticks = 0]
    BY <1>8, RoundCases
  <2>2. Group!WdtRound(t) = [t EXCEPT !.w.ticks = n, !.ticks = 0]
    BY <1>2, <1>5, <1>6, <1>8, RoundCases, ZenonT(40)
  <2> HIDE DEF n
  <2> DEFINE z == [s.w EXCEPT !.ticks = n]
  <2>3. Group!WdtRound(s) = [w |-> z, ticks |-> 0, raised |-> s.raised, reset |-> s.reset]
    BY <2>1 DEF WdtRounds
  <2>4. Group!WdtRound(t) = [w |-> [v EXCEPT !.ticks = n], ticks |-> 0,
                             raised |-> t.raised, reset |-> t.reset]
    BY <1>5, <2>2 DEF WdtRounds
  <2>5. [v EXCEPT !.ticks = n] = [z EXCEPT !.phase = p]
    BY <1>1, <1>3 DEF Group!WdtType
  <2> HIDE DEF z
  <2> QED BY <1>5, <2>3, <2>4, <2>5 DEF With
<1>9. CASE s.ticks > 0 /\ Group!WdtActive(s.w) /\ ~(s.ticks < Group!WdtRemaining(s.w))
  <2> DEFINE n == s.ticks - Group!WdtRemaining(s.w)
             action == s.w.cfg.action[s.w.stage]
             reset == action \in {"resetCpu", "resetSystem"}
             next == IF reset THEN 4 ELSE s.w.stage + 1
             interrupt == action = "interrupt"
  <2>1. Group!WdtRound(s) = Group!StageEnd(s, n)
    BY <1>9, RoundCases
  <2>2. Group!WdtRound(t) = Group!StageEnd(t, n)
    BY <1>5, <1>6, <1>9, RoundCases
  <2> HIDE DEF n
  <2>3. Group!StageEnd(s, n) = [w |-> [s.w EXCEPT !.ticks = 0, !.stage = next], ticks |-> n,
                          raised |-> IF interrupt THEN {Group!WDT} ELSE s.raised,
                          reset |-> s.reset \/ reset]
    BY Zenon DEF Group!StageEnd
  <2>4. Group!StageEnd(t, n) = [w |-> [v EXCEPT !.ticks = 0, !.stage = next], ticks |-> n,
                          raised |-> IF interrupt THEN {Group!WDT} ELSE t.raised,
                          reset |-> t.reset \/ reset]
    BY <1>2, <1>5, Zenon DEF Group!StageEnd
  <2>5. interrupt \in BOOLEAN /\ reset \in BOOLEAN
    OBVIOUS
  <2> HIDE DEF reset, next, interrupt
  <2> DEFINE z == [s.w EXCEPT !.ticks = 0, !.stage = next]
             j == IF interrupt THEN {Group!WDT} ELSE s.raised
  <2>6. [v EXCEPT !.ticks = 0, !.stage = next] = [z EXCEPT !.phase = p]
    BY <1>1, <1>3 DEF Group!WdtType
  <2>7. (IF interrupt THEN {Group!WDT} ELSE t.raised) = j \cup A
    BY <1>1, <1>5, <2>5
  <2>8. (t.reset \/ reset) = ((s.reset \/ reset) \/ B)
    BY <1>1, <1>5, <2>5
  <2> DEFINE c == s.reset \/ reset
  <2> DEFINE e == Group!StageEnd(s, n)
  <2>9. e.w = z /\ e.ticks = n /\ e.raised = j /\ e.reset = c
    BY <2>3
  <2> HIDE DEF z, j, c, e
  <2>10. With(e, p, A, B)
          = [w |-> [z EXCEPT !.phase = p], ticks |-> n, raised |-> j \cup A,
             reset |-> c \/ B]
    BY <2>9, Zenon DEF With
  <2>11. Group!WdtRound(t) = [w |-> [z EXCEPT !.phase = p], ticks |-> n, raised |-> j \cup A,
                              reset |-> c \/ B]
    BY <2>2, <2>4, <2>6, <2>7, <2>8, Zenon DEF c
  <2> QED BY <1>5, <2>1, <2>10, <2>11 DEF e
<1> QED BY <1>1, <1>7, <1>8, <1>9

LEMMA FourWith ==
    ASSUME NEW s \in WdtRounds, NEW p \in Group!PhaseType,
           NEW A \in SUBSET {Group!WDT}, NEW B \in BOOLEAN
    PROVE  /\ With(s, p, A, B) \in WdtRounds
           /\ FourRounds(With(s, p, A, B)) = With(FourRounds(s), p, A, B)
<1> DEFINE R(t) == Group!WdtRound(t)
           W(t) == With(t, p, A, B)
<1>1. \A t \in WdtRounds : R(t) \in WdtRounds /\ W(t) \in WdtRounds /\ R(W(t)) = W(R(t))
  BY RoundTyped, RoundWith
<1> HIDE DEF R, W
<1>2. /\ R(s) \in WdtRounds /\ R(R(s)) \in WdtRounds /\ R(R(R(s))) \in WdtRounds
  BY <1>1
<1>3. R(R(R(R(W(s))))) = W(R(R(R(R(s)))))
  BY <1>1, <1>2
<1> QED BY <1>1, <1>3 DEF R, W, FourRounds

\* What the guest can tell apart of a watchdog.
SeenWdt(w) == IF w.stage = 4 THEN [w EXCEPT !.phase = Group!NoPhase] ELSE w

\* Looking at the watchdog on the way changes nothing about its end, nor what
\* it has raised by then.
Makes(a, b, c) == c = a + b

LEMMA WdtAdds ==
    ASSUME Group!TimerGroupAssumption, NEW w \in Group!WdtType,
           NEW a \in Nat, NEW b \in Nat,
           NEW r, r = Group!ElapseWdt(w, a), NEW q, q = Group!ElapseWdt(r.w, b),
           NEW c, Makes(a, b, c), NEW v, v = Group!ElapseWdt(w, c)
    PROVE  /\ r.w \in Group!WdtType /\ r.raised \in SUBSET {Group!WDT}
           /\ r.reset \in BOOLEAN
           /\ q.w \in Group!WdtType /\ SeenWdt(q.w) = SeenWdt(v.w)
           /\ v.raised = r.raised \cup q.raised /\ v.reset = (r.reset \/ q.reset)
<1> USE DEF Makes
<1>1. CASE ~Group!WdtActive(w)
  <2>1. r = Group!Untouched(w, 0) /\ v = Group!Untouched(w, 0)
    BY <1>1 DEF Group!ElapseWdt
  <2>2. q = Group!Untouched(w, 0)
    BY <1>1, <2>1 DEF Group!ElapseWdt, Group!Untouched
  <2>3. \A e \in {r, q, v} : e.w = w /\ e.raised = {} /\ e.reset = FALSE
    BY <2>1, <2>2 DEF Group!Untouched
  <2> QED BY <2>3
<1>2. CASE Group!WdtActive(w)
  <2> DEFINE den == Group!WdtDenominator(w)
             s == Group!ScaledTicks(a, GroupApbHz, den, w.phase)
             u == Group!ScaledTicks(b, GroupApbHz, den, s.phase)
             z == Group!ScaledTicks(a + b, GroupApbHz, den, w.phase)
             ws == [w EXCEPT !.phase = s.phase]
             wu == [w EXCEPT !.phase = u.phase]
             x == s.ticks
             y == u.ticks
  <2>1. GroupApbHz \in Nat /\ w.phase \in Group!PhaseType
    BY WdtFields DEF Group!TimerGroupAssumption
  <2>2. den \in Nat \ {0}
    BY WdtFields, LargerOf, 1 \in Int, w.prescaler \in Int
       DEF Group!WdtDenominator, Group!TimerGroupAssumption
  <2> HIDE DEF den
  <2>3. /\ z.ticks = x + y /\ z.phase = u.phase /\ x \in Nat /\ y \in Nat
        /\ s.phase \in Group!PhaseType /\ u.phase \in Group!PhaseType
    BY <2>1, <2>2, TicksAdd
  <2>4. r = FourRounds(Group!Untouched(ws, x))
    BY <1>2 DEF Group!ElapseWdt, Group!AdvanceWdt, FourRounds, den
  <2>5. v = FourRounds(Group!Untouched([w EXCEPT !.phase = z.phase], z.ticks))
    BY <1>2 DEF Group!ElapseWdt, Group!AdvanceWdt, FourRounds, den
  <2>6. u = Group!ScaledTicks(b, GroupApbHz, den, s.phase)
    OBVIOUS
  <2>7. s.phase \in Group!PhaseType /\ u.phase \in Group!PhaseType /\ z.phase = u.phase
    BY <2>3
  <2> HIDE DEF s, u, z
  <2>8. ws \in Group!WdtType /\ ws.cfg = w.cfg /\ ws.prescaler = w.prescaler
        /\ ws.phase = s.phase
    BY <2>7 DEF Group!WdtType
  <2>9. wu = [ws EXCEPT !.phase = u.phase]
    BY DEF Group!WdtType
  <2>10. v = FourRounds(Group!Untouched(wu, x + y))
    BY <2>3, <2>5, <2>7
  <2> HIDE DEF ws, wu, x, y
  <2> DEFINE S == Group!Untouched(ws, x)
             U == With(S, u.phase, {}, FALSE)
             Z == FourRounds(U)
  <2>11. S \in WdtRounds /\ S.w = ws
    BY <2>3, <2>8 DEF WdtRounds, Group!Untouched
  <2>12. /\ r \in WdtRounds /\ r.w.cfg = w.cfg
         /\ r.w.prescaler = w.prescaler /\ r.w.phase = s.phase
    BY <2>4, <2>8, <2>11, FourAdd
  <2>13. U.w = wu /\ U.ticks = x /\ U.raised = {} /\ U.reset = FALSE
    <3>1. S.w = ws /\ S.ticks = x /\ S.raised = {} /\ S.reset = FALSE
      BY DEF Group!Untouched
    <3> HIDE DEF S
    <3> QED BY <2>9, <3>1 DEF With
  <2>14. {} \in SUBSET {Group!WDT} /\ FALSE \in BOOLEAN
    OBVIOUS
  <2>15. U \in WdtRounds /\ Z = With(r, u.phase, {}, FALSE)
    BY <2>4, <2>7, <2>11, <2>14, FourWith, ZenonT(40)
  <2> HIDE DEF U
  <2>r. Rest(U, x + y) = Group!Untouched(wu, x + y)
    <3> DEFINE h == Rest(U, x + y)
               g == Group!Untouched(wu, x + y)
    <3>1. h \in WdtRounds /\ h.w = wu /\ h.ticks = x + y /\ h.raised = {} /\ h.reset = FALSE
      BY <2>3, <2>13, <2>15, RestFields, x + y \in Nat
    <3>2. g.w = wu /\ g.ticks = x + y /\ g.raised = {} /\ g.reset = FALSE
      BY DEF Group!Untouched
    <3>3. U.w \in Group!WdtType
      BY <2>15 DEF WdtRounds
    <3>4. g \in WdtRounds
      BY <2>3, <2>13, <3>3, x + y \in Nat DEF WdtRounds, Group!Untouched
    <3> HIDE DEF h, g
    <3> QED BY <3>1, <3>2, <3>4, SameRound DEF h, g
  <2>16. /\ r.w \in Group!WdtType /\ r.raised \in SUBSET {Group!WDT}
         /\ r.reset \in BOOLEAN
    BY <2>12 DEF WdtRounds
  <2>17. Rest(FourRounds(Rest(Z, y)), 0) = Rest(v, 0)
    <3>1. \A i \in WdtRounds : \A n \in Nat :
            Rest(FourRounds(Rest(FourRounds(i), n)), 0) = Rest(FourRounds(Rest(i, i.ticks + n)), 0)
      BY FourAdd
    <3>2. Rest(FourRounds(Rest(Z, y)), 0) = Rest(FourRounds(Rest(U, U.ticks + y)), 0)
      BY <2>3, <2>15, <3>1
    <3> QED BY <2>10, <2>13, <2>r, <3>2
  <2> DEFINE rp == [r.w EXCEPT !.phase = u.phase]
             T == Group!Untouched(rp, y)
  <2>18. rp \in Group!WdtType /\ rp.phase = u.phase /\ rp.cfg = r.w.cfg
         /\ rp.stage = r.w.stage
    BY <2>7, <2>16 DEF Group!WdtType
  <2>19. rp = [r.w EXCEPT !.phase = u.phase]
    OBVIOUS
  <2>20. rp = [rp EXCEPT !.phase = u.phase]
    BY <2>16 DEF Group!WdtType
  <2> HIDE DEF rp
  <2>21. T \in WdtRounds /\ T.w = rp
    BY <2>3, <2>18 DEF WdtRounds, Group!Untouched
  <2>22. Rest(Z, y) = With(T, u.phase, r.raised, r.reset)
    <3>1. /\ Z.w = rp /\ Z.raised = r.raised /\ Z.reset = r.reset
          /\ Z = [w |-> Z.w, ticks |-> Z.ticks, raised |-> Z.raised, reset |-> Z.reset]
      <4> HIDE DEF Z
      <4> QED BY <2>15, <2>16, <2>19 DEF With
    <3> HIDE DEF Z
    <3>2. Rest(Z, y) = [w |-> rp, ticks |-> y, raised |-> r.raised, reset |-> r.reset]
      BY <3>1 DEF Rest
    <3>3. T.w = rp /\ T.ticks = y /\ T.raised = {} /\ T.reset = FALSE
      BY DEF Group!Untouched
    <3> HIDE DEF T
    <3>4. With(T, u.phase, r.raised, r.reset)
            = [w |-> rp, ticks |-> y, raised |-> r.raised, reset |-> r.reset]
      BY <2>16, <2>20, <3>3 DEF With
    <3> QED BY <3>2, <3>4
  <2>23. FourRounds(Rest(Z, y)) = With(FourRounds(T), u.phase, r.raised, r.reset)
    <3> HIDE DEF T, Z
    <3> QED BY <2>7, <2>16, <2>21, <2>22, FourWith
  <2> DEFINE t == FourRounds(T)
  <2>24. t \in WdtRounds /\ t.w.phase = u.phase /\ (Group!WdtRound(T) = T => t = T)
    BY <2>18, <2>21, FourAdd
  <2> HIDE DEF t
  <2>25. v.w = [t.w EXCEPT !.phase = u.phase] /\ v.raised = t.raised \cup r.raised
         /\ v.reset = (t.reset \/ r.reset)
    <3>1. Rest(With(t, u.phase, r.raised, r.reset), 0) = Rest(v, 0)
      BY <2>17, <2>23 DEF t
    <3>2. v \in WdtRounds
      <4>1. Group!Untouched(wu, x + y) \in WdtRounds
        BY <2>3, <2>15, <2>r, RestFields, x + y \in Nat
      <4> QED BY <2>10, <4>1, FourAdd
    <3> DEFINE h == With(t, u.phase, r.raised, r.reset)
    <3>3. h.w = [t.w EXCEPT !.phase = u.phase] /\ h.raised = t.raised \cup r.raised
          /\ h.reset = (t.reset \/ r.reset)
      BY DEF With
    <3>4. h \in WdtRounds
      BY <2>7, <2>16, <2>24, FourWith
    <3> HIDE DEF h
    <3>5. h.w = v.w /\ h.raised = v.raised /\ h.reset = v.reset
      BY <3>1, <3>2, <3>4, RestFields, 0 \in Nat DEF h
    <3> QED BY <3>3, <3>5
  <2>26. v.w = t.w
    BY <2>24, <2>25 DEF WdtRounds, Group!WdtType
  <2>27. CASE Group!WdtActive(r.w)
    <3>1. Group!ScaledTicks(b, GroupApbHz, Group!WdtDenominator(r.w), r.w.phase) = u
      BY <2>6, <2>12 DEF Group!WdtDenominator, den
    <3>2. q = t
      BY <2>19, <2>27, <3>1 DEF Group!ElapseWdt, Group!AdvanceWdt, FourRounds, t, y
    <3> QED BY <2>16, <2>24, <2>25, <2>26, <3>2 DEF WdtRounds
  <2>28. CASE ~Group!WdtActive(r.w)
    <3>1. q = Group!Untouched(r.w, 0)
      BY <2>28 DEF Group!ElapseWdt
    <3>2. ~Group!WdtActive(T.w)
      BY <2>18, <2>21, <2>28 DEF Group!WdtActive
    <3>3. t = T
      BY <2>21, <2>24, <3>2, RoundCases
    <3>4. r.w.stage = 4
      BY <1>2, <2>12, <2>16, <2>28, WdtFields DEF Group!WdtActive, Group!Stages
    <3>5. v.w = rp /\ v.raised = r.raised /\ v.reset = r.reset
      BY <2>16, <2>25, <2>26, <3>3 DEF Group!Untouched
    <3>6. SeenWdt(v.w) = SeenWdt(r.w)
      BY <2>16, <2>18, <2>19, <3>4, <3>5 DEF SeenWdt, Group!WdtType
    <3> QED BY <2>16, <3>1, <3>5, <3>6 DEF Group!Untouched
  <2> QED BY <2>27, <2>28
<1> QED BY <1>1, <1>2

Running(g) == g.clockEnabled /\ ~g.resetAsserted

LEMMA GroupFields ==
    ASSUME NEW g \in Group!GroupType
    PROVE  /\ g.timer \in [GroupTimers -> Group!TimerType] /\ g.wdt \in Group!WdtType
           /\ g.intEnable \in SUBSET Group!Events /\ g.intRaw \in SUBSET Group!Events
           /\ g.level \in SUBSET Group!Events
           /\ g.clockEnabled \in BOOLEAN /\ g.resetAsserted \in BOOLEAN
           /\ g.resetRequested \in BOOLEAN
BY DEF Group!GroupType

LEMMA SameGroup ==
    ASSUME NEW g \in Group!GroupType, NEW h \in Group!GroupType,
           g.timer = h.timer, g.wdt = h.wdt, g.intEnable = h.intEnable,
           g.intRaw = h.intRaw, g.level = h.level, g.clockEnabled = h.clockEnabled,
           g.resetAsserted = h.resetAsserted, g.resetRequested = h.resetRequested
    PROVE  g = h
BY DEF Group!GroupType

\* A group that has run.
LEMMA ElapseFields ==
    ASSUME Group!TimerGroupAssumption, NEW g \in Group!GroupType, NEW n \in Nat \ {0},
           Running(g), NEW e, e = Group!Elapse(g, n),
           NEW s, s = Group!ElapseWdt(g.wdt, n)
    PROVE  /\ e \in Group!GroupType
           /\ e.timer = [i \in GroupTimers |-> Group!ElapseTimer(g.timer[i], n)]
           /\ e.wdt = s.w
           /\ e.intRaw = (g.intRaw \cup Group!Alarms(g, n)) \cup s.raised
           /\ e.intEnable = g.intEnable /\ e.level = e.intRaw \cap e.intEnable
           /\ e.clockEnabled = g.clockEnabled /\ e.resetAsserted = g.resetAsserted
           /\ e.resetRequested = (g.resetRequested \/ s.reset)
<1>1. 0 \in Nat /\ n \in Nat
  OBVIOUS
<1>2. s.w \in Group!WdtType /\ s.raised \in SUBSET {Group!WDT} /\ s.reset \in BOOLEAN
  <2> DEFINE q == Group!ElapseWdt(s.w, 0)
             v == Group!ElapseWdt(g.wdt, n + 0)
  <2>1. q = Group!ElapseWdt(s.w, 0) /\ v = Group!ElapseWdt(g.wdt, n + 0)
    OBVIOUS
  <2> HIDE DEF q, v
  <2> QED BY <1>1, <2>1, GroupFields, WdtAdds DEF Makes
<1> DEFINE tm == [i \in GroupTimers |-> Group!ElapseTimer(g.timer[i], n)]
           raw == (g.intRaw \cup Group!Alarms(g, n)) \cup s.raised
           req == g.resetRequested \/ s.reset
<1>3. tm \in [GroupTimers -> Group!TimerType]
  <2>1. ASSUME NEW i \in GroupTimers
        PROVE  Group!ElapseTimer(g.timer[i], n) \in Group!TimerType
    <3>1. g.timer[i] \in Group!TimerType
      BY GroupFields
    <3> DEFINE t == g.timer[i]
               r == Group!ElapseTimer(t, n)
    <3>2. r = Group!ElapseTimer(t, n)
      OBVIOUS
    <3> HIDE DEF t, r
    <3>3. r \in Group!TimerType
      BY <1>1, <3>1, <3>2, TimerAdds DEF t
    <3> QED BY <3>3 DEF r, t
  <2> QED BY <2>1
<1>4. raw \in SUBSET Group!Events
  BY <1>2, GroupFields DEF Group!Alarms, Group!Events
<1>5. req \in BOOLEAN
  BY <1>2, GroupFields
<1>6. /\ n # 0 /\ g.clockEnabled /\ ~g.resetAsserted
  BY DEF Running
<1>7. ~(n = 0 \/ ~g.clockEnabled \/ g.resetAsserted)
  BY <1>6
<1> DEFINE m == [g EXCEPT !.timer = tm, !.wdt = s.w, !.intRaw = raw, !.resetRequested = req]
<1>8. e = Group!UpdateIrqs(m)
  BY <1>7, Zenon DEF Group!Elapse
<1> HIDE DEF tm, raw, req
<1>9. /\ m \in Group!GroupType /\ m.timer = tm /\ m.wdt = s.w /\ m.intRaw = raw
      /\ m.intEnable = g.intEnable /\ m.clockEnabled = g.clockEnabled
      /\ m.resetAsserted = g.resetAsserted /\ m.resetRequested = req
  BY <1>2, <1>3, <1>4, <1>5 DEF Group!GroupType
<1> HIDE DEF m
<1>10. /\ e \in Group!GroupType /\ e.timer = m.timer /\ e.wdt = m.wdt /\ e.intRaw = m.intRaw
       /\ e.intEnable = m.intEnable /\ e.clockEnabled = m.clockEnabled
       /\ e.resetAsserted = m.resetAsserted /\ e.resetRequested = m.resetRequested
       /\ e.level = m.intRaw \cap m.intEnable
  BY <1>8, <1>9 DEF Group!UpdateIrqs, Group!GroupType
<1> QED BY <1>9, <1>10 DEF tm, raw, req

LEMMA ElapseStopped ==
    ASSUME NEW g, NEW n, n = 0 \/ ~Running(g)
    PROVE  Group!Elapse(g, n) = g
BY DEF Group!Elapse, Running

LEMMA ElapseTyped ==
    ASSUME Group!TimerGroupAssumption, NEW g \in Group!GroupType, NEW n \in Nat
    PROVE  Group!Elapse(g, n) \in Group!GroupType
<1>1. CASE n = 0 \/ ~Running(g)
  BY <1>1, ElapseStopped
<1>2. CASE n # 0 /\ Running(g)
  <2> DEFINE e == Group!Elapse(g, n)
             s == Group!ElapseWdt(g.wdt, n)
  <2>1. e = Group!Elapse(g, n) /\ s = Group!ElapseWdt(g.wdt, n)
    OBVIOUS
  <2> HIDE DEF e, s
  <2>2. e \in Group!GroupType
    BY <1>2, <2>1, ElapseFields
  <2> QED BY <2>2 DEF e
<1> QED BY <1>1, <1>2

LEMMA VisibleFields ==
    ASSUME NEW g \in Group!GroupType, NEW h, h = Group!Visible(g)
    PROVE  /\ h \in Group!GroupType /\ h.wdt = SeenWdt(g.wdt)
           /\ h.timer = g.timer /\ h.intEnable = g.intEnable /\ h.intRaw = g.intRaw
           /\ h.level = g.level /\ h.clockEnabled = g.clockEnabled
           /\ h.resetAsserted = g.resetAsserted /\ h.resetRequested = g.resetRequested
<1>1. CASE g.wdt.stage = 4
  <2> DEFINE w == [g.wdt EXCEPT !.phase = Group!NoPhase]
  <2>1. w \in Group!WdtType /\ w = SeenWdt(g.wdt)
    BY <1>1, GroupFields DEF Group!WdtType, Group!PhaseType, Group!NoPhase, SeenWdt
  <2>2. h = [g EXCEPT !.wdt = w]
    BY <1>1 DEF Group!Visible, Group!GroupType
  <2> HIDE DEF w
  <2> QED BY <2>1, <2>2 DEF Group!GroupType
<1>2. CASE g.wdt.stage # 4
  BY <1>2 DEF Group!Visible, SeenWdt
<1> QED BY <1>1, <1>2

\* Looking at a group on the way changes nothing about its end.
LEMMA ElapseAdds ==
    ASSUME Group!TimerGroupAssumption, NEW g \in Group!GroupType,
           NEW a \in Nat \ {0}, NEW b \in Nat \ {0}
    PROVE  Group!Visible(Group!Elapse(Group!Elapse(g, a), b))
             = Group!Visible(Group!Elapse(g, a + b))
<1>1. CASE ~Running(g)
  BY <1>1, ElapseStopped
<1>2. CASE Running(g)
  <2> DEFINE e == Group!Elapse(g, a)
             f == Group!Elapse(e, b)
             h == Group!Elapse(g, a + b)
             r == Group!ElapseWdt(g.wdt, a)
             q == Group!ElapseWdt(e.wdt, b)
             v == Group!ElapseWdt(g.wdt, a + b)
  <2>1. /\ e = Group!Elapse(g, a) /\ f = Group!Elapse(e, b) /\ h = Group!Elapse(g, a + b)
        /\ r = Group!ElapseWdt(g.wdt, a) /\ q = Group!ElapseWdt(e.wdt, b)
        /\ v = Group!ElapseWdt(g.wdt, a + b)
    OBVIOUS
  <2>2. a + b \in Nat \ {0} /\ a \in Nat /\ b \in Nat
    OBVIOUS
  <2>3. Group!Visible(f) = Group!Visible(h) => Group!Visible(Group!Elapse(Group!Elapse(g, a), b))
             = Group!Visible(Group!Elapse(g, a + b))
    OBVIOUS
  <2> HIDE DEF e, f, h, r, q, v
  <2>4. /\ e \in Group!GroupType
        /\ e.timer = [i \in GroupTimers |-> Group!ElapseTimer(g.timer[i], a)]
        /\ e.wdt = r.w
        /\ e.intRaw = (g.intRaw \cup Group!Alarms(g, a)) \cup r.raised
        /\ e.intEnable = g.intEnable
        /\ e.clockEnabled = g.clockEnabled /\ e.resetAsserted = g.resetAsserted
        /\ e.resetRequested = (g.resetRequested \/ r.reset)
    BY <1>2, <2>1, ElapseFields
  <2>5. Running(e)
    BY <1>2, <2>4 DEF Running
  <2>6. /\ f \in Group!GroupType
        /\ f.timer = [i \in GroupTimers |-> Group!ElapseTimer(e.timer[i], b)]
        /\ f.wdt = q.w
        /\ f.intRaw = (e.intRaw \cup Group!Alarms(e, b)) \cup q.raised
        /\ f.intEnable = e.intEnable /\ f.level = f.intRaw \cap f.intEnable
        /\ f.clockEnabled = e.clockEnabled /\ f.resetAsserted = e.resetAsserted
        /\ f.resetRequested = (e.resetRequested \/ q.reset)
    BY <2>1, <2>4, <2>5, ElapseFields
  <2>7. /\ h \in Group!GroupType
        /\ h.timer = [i \in GroupTimers |-> Group!ElapseTimer(g.timer[i], a + b)]
        /\ h.wdt = v.w
        /\ h.intRaw = (g.intRaw \cup Group!Alarms(g, a + b)) \cup v.raised
        /\ h.intEnable = g.intEnable /\ h.level = h.intRaw \cap h.intEnable
        /\ h.clockEnabled = g.clockEnabled /\ h.resetAsserted = g.resetAsserted
        /\ h.resetRequested = (g.resetRequested \/ v.reset)
    BY <1>2, <2>1, <2>2, ElapseFields
  <2>8. /\ SeenWdt(q.w) = SeenWdt(v.w) /\ v.raised = r.raised \cup q.raised
        /\ v.reset = (r.reset \/ q.reset) /\ r.reset \in BOOLEAN
    <3>1. g.wdt \in Group!WdtType
      BY GroupFields
    <3>2. q = Group!ElapseWdt(r.w, b)
      BY <2>1, <2>4
    <3> DEFINE w == g.wdt
    <3>3. w \in Group!WdtType /\ r = Group!ElapseWdt(w, a) /\ v = Group!ElapseWdt(w, a + b)
      BY <2>1, <3>1
    <3> HIDE DEF w
    <3> DEFINE c == a + b
    <3>4. Makes(a, b, c) /\ v = Group!ElapseWdt(w, c)
      BY <3>3 DEF Makes
    <3> HIDE DEF c
    <3>5. a \in Nat /\ b \in Nat
      BY <2>2
    <3>6. v.raised = r.raised \cup q.raised
      BY <3>2, <3>3, <3>4, <3>5, WdtAdds
    <3>7. SeenWdt(q.w) = SeenWdt(v.w)
      BY <3>2, <3>3, <3>4, <3>5, WdtAdds
    <3>8. r.reset \in BOOLEAN
      BY <3>2, <3>3, <3>4, <3>5, WdtAdds
    <3>9. v.reset = (r.reset \/ q.reset)
      BY <3>2, <3>3, <3>4, <3>5, WdtAdds
    <3> QED BY <3>6, <3>7, <3>8, <3>9
  <2>9. ASSUME NEW i \in GroupTimers
        PROVE  /\ Group!ElapseTimer(e.timer[i], b) = Group!ElapseTimer(g.timer[i], a + b)
               /\ Rings(g.timer[i], a + b) <=> Rings(g.timer[i], a) \/ Rings(e.timer[i], b)
    <3>1. g.timer[i] \in Group!TimerType
      BY GroupFields
    <3> DEFINE t == g.timer[i]
               k == e.timer[i]
    <3>2. t \in Group!TimerType /\ k = Group!ElapseTimer(t, a)
      BY <2>4, <3>1
    <3>3. a \in Nat /\ b \in Nat
      BY <2>2
    <3> HIDE DEF t, k
    <3>4. Group!ElapseTimer(k, b) = Group!ElapseTimer(t, a + b)
      BY <3>2, <3>3, TimerAdds
    <3>5. Rings(t, a + b) <=> Rings(t, a) \/ Rings(k, b)
      BY <3>2, <3>3, TimerAdds
    <3> QED BY <3>4, <3>5 DEF t, k
  <2>10. f.timer = h.timer
    BY <2>6, <2>7, <2>9
  <2>11. \A k, m : Group!Alarms(k, m) = {i \in GroupTimers : Rings(k.timer[i], m)}
    BY DEF Group!Alarms, Rings
  <2>12. Group!Alarms(g, a + b) = Group!Alarms(g, a) \cup Group!Alarms(e, b)
    BY <2>9, <2>11
  <2>13. f.intRaw = h.intRaw
    BY <2>4, <2>6, <2>7, <2>8, <2>12
  <2>14. f.resetRequested = h.resetRequested
    BY <2>4, <2>6, <2>7, <2>8
  <2>15. /\ f.intEnable = h.intEnable /\ f.level = h.level
         /\ f.clockEnabled = h.clockEnabled /\ f.resetAsserted = h.resetAsserted
    BY <2>4, <2>6, <2>7, <2>13
  <2> DEFINE c == Group!Visible(f)
             d == Group!Visible(h)
  <2>16. c = Group!Visible(f) /\ d = Group!Visible(h)
    OBVIOUS
  <2> HIDE DEF c, d
  <2>17. /\ c \in Group!GroupType /\ c.wdt = SeenWdt(f.wdt)
         /\ c.timer = f.timer /\ c.intEnable = f.intEnable /\ c.intRaw = f.intRaw
         /\ c.level = f.level /\ c.clockEnabled = f.clockEnabled
         /\ c.resetAsserted = f.resetAsserted /\ c.resetRequested = f.resetRequested
    BY <2>6, <2>16, VisibleFields
  <2>18. /\ d \in Group!GroupType /\ d.wdt = SeenWdt(h.wdt)
         /\ d.timer = h.timer /\ d.intEnable = h.intEnable /\ d.intRaw = h.intRaw
         /\ d.level = h.level /\ d.clockEnabled = h.clockEnabled
         /\ d.resetAsserted = h.resetAsserted /\ d.resetRequested = h.resetRequested
    BY <2>7, <2>16, VisibleFields
  <2>19. c = d
    <3>1. c.wdt = d.wdt
      BY <2>6, <2>7, <2>8, <2>17, <2>18
    <3>2. c.timer = d.timer /\ c.intRaw = d.intRaw /\ c.intEnable = d.intEnable
      BY <2>10, <2>13, <2>15, <2>17, <2>18
    <3>3. c.level = d.level
      BY <2>15, <2>17, <2>18
    <3>4. c.clockEnabled = d.clockEnabled
      BY <2>15, <2>17, <2>18
    <3>5. c.resetAsserted = d.resetAsserted
      BY <2>15, <2>17, <2>18
    <3>6. c.resetRequested = d.resetRequested
      BY <2>14, <2>17, <2>18
    <3> QED BY <2>17, <2>18, <3>1, <3>2, <3>3, <3>4, <3>5, <3>6, SameGroup
  <2> QED BY <2>3, <2>16, <2>19
<1> QED BY <1>1, <1>2

\* The group's time is that of the leading core.
LEMMA LeaderIs ==
    ASSUME NEW A \in SUBSET {0, 1}, NEW f \in [A -> Int],
           NEW m, m = Group!Max({0} \cup {f[c] : c \in A})
    PROVE  m \in Nat /\ \A c \in A : m >= f[c]
<1> DEFINE S == {0} \cup {f[c] : c \in A}
<1>1. \E x \in S : \A y \in S : x >= y
  <2>1. CASE A = {}
    BY <2>1
  <2>2. CASE A = {0}
    BY <2>2
  <2>3. CASE A = {1}
    BY <2>3
  <2>4. CASE A = {0, 1}
    <3>1. f[0] \in Int /\ f[1] \in Int /\ S = {0, f[0], f[1]}
      BY <2>4
    <3> HIDE DEF S
    <3>2. CASE f[0] >= 0 /\ f[0] >= f[1]
      BY <3>1, <3>2
    <3>3. CASE f[1] >= 0 /\ f[1] >= f[0]
      BY <3>1, <3>3
    <3>4. CASE f[0] < 0 /\ f[1] < 0
      BY <3>1, <3>4
    <3> QED BY <3>1, <3>2, <3>3, <3>4
  <2> QED BY <2>1, <2>2, <2>3, <2>4
<1>2. m \in S /\ \A y \in S : m >= y
  BY <1>1 DEF Group!Max
<1> QED BY <1>2

LEMMA SyncTyped ==
    ASSUME Group!TimerGroupAssumption, Group!TypeOK
    PROVE  /\ Group!Elapsed \in Nat /\ Group!Now \in Group!GroupType
           /\ Group!Sync => /\ Group!Attached' = Group!Attached
                            /\ unseen' \in [Group!Attached -> 0..GroupRun]
                            /\ lag' \in [Group!Attached -> Nat]
<1> DEFINE A == Group!Attached
           f == [c \in A |-> unseen[c] - lag[c]]
           m == Group!Elapsed
<1>1. A \in SUBSET {0, 1} /\ GroupRun \in Nat
  BY DEF Group!TypeOK, Group!TimerGroupAssumption
<1>2. unseen \in [A -> 0..GroupRun] /\ lag \in [A -> Nat] /\ f \in [A -> Int]
  BY DEF Group!TypeOK
<1>3. m = Group!Max({0} \cup {f[c] : c \in A})
  BY DEF Group!Elapsed
<1>4. m \in Nat /\ \A c \in A : m >= f[c]
  <2> HIDE DEF m, f, A
  <2> QED BY <1>1, <1>2, <1>3, LeaderIs
<1>5. Group!Now \in Group!GroupType
  BY <1>4, ElapseTyped DEF Group!Now, Group!TypeOK
<1>6. ASSUME Group!Sync
      PROVE  /\ Group!Attached' = A /\ unseen' \in [A -> 0..GroupRun]
             /\ lag' \in [A -> Nat]
  <2>1. unseen' = [c \in A |-> 0] /\ lag' = [c \in A |-> m - f[c]]
    BY <1>6 DEF Group!Sync
  <2>2. Group!Attached' = A
    BY <2>1 DEF Group!Attached
  <2> HIDE DEF m, f, A
  <2>3. \A c \in A : m - f[c] \in Nat
    BY <1>2, <1>4
  <2> QED BY <1>1, <2>1, <2>2, <2>3
<1> QED BY <1>4, <1>5, <1>6

LEMMA IrqsTyped ==
    ASSUME NEW g \in Group!GroupType
    PROVE  Group!UpdateIrqs(g) \in Group!GroupType
BY DEF Group!UpdateIrqs, Group!GroupType

LEMMA NoPhaseTyped == Group!NoPhase \in Group!PhaseType
BY DEF Group!NoPhase, Group!PhaseType

LEMMA ResetTyped ==
    ASSUME Group!TimerGroupAssumption, NEW g,
           g \in Group!GroupType \/
           g = [timer |-> <<>>, wdt |-> <<>>, intEnable |-> {}, intRaw |-> {},
                level |-> {}, clockEnabled |-> TRUE, resetAsserted |-> FALSE,
                resetRequested |-> FALSE]
    PROVE  Group!ResetRegisters(g) \in Group!GroupType
<1> DEFINE t == [cfg |-> Group!ResetConfig, counter |-> 0,
                 alarm |-> 0, load |-> 0, phase |-> Group!NoPhase]
           w == [cfg |-> Group!ResetWdtConfig,
                 hold |-> [s \in Group!Stages |-> Group!Max(Holds)],
                 prescaler |-> Group!Min(Prescalers), unlocked |-> TRUE,
                 stage |-> 0, ticks |-> 0, phase |-> Group!NoPhase]
           tm == [i \in GroupTimers |-> t]
           h == Group!ResetRegisters(g)
<1>1. t \in Group!TimerType
  <2>1. Group!ResetConfig \in Group!TimerConfigType
    BY DEF Group!TimerGroupAssumption, Group!ResetConfig, Group!TimerConfigType
  <2>2. 0 \in 0..(GroupPeriod - 1)
    BY DEF Group!TimerGroupAssumption
  <2> QED BY <2>1, <2>2, NoPhaseTyped DEF Group!TimerType
<1>2. w \in Group!WdtType
  <2>1. Group!ResetWdtConfig \in Group!WdtConfigType
    BY DEF Group!ResetWdtConfig, Group!WdtConfigType
  <2>2. Group!Max(Holds) \in Nat /\ Group!Min(Prescalers) \in Nat
    BY DEF Group!TimerGroupAssumption
  <2> QED BY <2>1, <2>2, NoPhaseTyped DEF Group!WdtType
<1>3. tm \in [GroupTimers -> Group!TimerType]
  <2> HIDE DEF t
  <2> QED BY <1>1
<1> HIDE DEF t, w, tm
<1>4. h = [g EXCEPT !.timer = tm, !.wdt = w, !.intEnable = {}, !.intRaw = {}, !.level = {}]
  BY DEF Group!ResetRegisters, t, w, tm
<1>5. CASE g \in Group!GroupType
  BY <1>2, <1>3, <1>4, <1>5 DEF Group!GroupType
<1>6. CASE g = [timer |-> <<>>, wdt |-> <<>>, intEnable |-> {}, intRaw |-> {},
                level |-> {}, clockEnabled |-> TRUE, resetAsserted |-> FALSE,
                resetRequested |-> FALSE]
  BY <1>2, <1>3, <1>4, <1>6 DEF Group!GroupType
<1> QED BY <1>5, <1>6

\* A word below k words of n values each.
LEMMA WordBelow ==
    ASSUME NEW q \in Nat, NEW k \in Nat, NEW n \in Nat \ {0}, NEW r \in 0..(n - 1)
    PROVE  /\ q < k => q * n + r \in 0..(k * n - 1)
           /\ q * n + r < k * n => q < k
<1>1. ASSUME NEW a \in Nat, NEW b \in Nat, a <= b
      PROVE  a * n <= b * n
  <2> DEFINE d == b - a
  <2>1. d \in Nat /\ b = a + d
    BY <1>1
  <2> HIDE DEF d
  <2>2. d * n \in Nat /\ b * n = a * n + d * n
    BY <2>1
  <2> QED BY <2>2
<1>2. ASSUME q < k
      PROVE  q * n + r \in 0..(k * n - 1)
  <2>1. (q + 1) * n <= k * n /\ (q + 1) * n = q * n + n /\ q * n \in Nat
    BY <1>1, <1>2
  <2> QED BY <2>1
<1>3. ASSUME q * n + r < k * n
      PROVE  q < k
  <2>1. CASE k <= q
    <3>1. k * n <= q * n /\ k * n \in Nat /\ q * n \in Nat
      BY <1>1, <2>1
    <3> QED BY <1>3, <3>1
  <2> QED BY <2>1
<1> QED BY <1>2, <1>3

\* One word of a register of two words replaced, low or high.
LEMMA WordPlaced ==
    ASSUME NEW m \in Nat \ {0}, NEW n \in Nat \ {0}, m % n = 0,
           NEW v \in 0..(m - 1), NEW word \in 0..(n - 1)
    PROVE  /\ (v - (v % n)) + word \in 0..(m - 1)
           /\ word < m \div n => word * n + (v % n) \in 0..(m - 1)
<1> DEFINE k == m \div n
           q == v \div n
           r == v % n
<1>1. v \in Nat /\ word \in Nat
  OBVIOUS
<1>2. v = q * n + r /\ r \in 0..(n - 1) /\ q \in Nat
  BY <1>1, NatDivMod
<1>3. m = k * n /\ k \in Nat
  <2>1. m = k * n + (m % n) /\ k \in Nat
    BY NatDivMod
  <2>2. k * n \in Nat
    BY <2>1
  <2> QED BY <2>1, <2>2
<1> HIDE DEF q, r, k
<1>4. q < k
  BY <1>1, <1>2, <1>3, WordBelow
<1>5. (v - r) + word \in 0..(k * n - 1)
  <2>1. q * n + word \in 0..(k * n - 1)
    BY <1>1, <1>2, <1>3, <1>4, WordBelow
  <2>2. (v - r) + word = q * n + word
    BY <1>1, <1>2
  <2> QED BY <2>1, <2>2
<1>6. word < k => word * n + r \in 0..(k * n - 1)
  BY <1>1, <1>2, <1>3, WordBelow
<1> QED BY <1>3, <1>5, <1>6 DEF k, r

LEMMA WordsTyped ==
    ASSUME Group!TimerGroupAssumption, NEW v \in 0..(GroupPeriod - 1),
           NEW word \in 0..(GroupRadix - 1)
    PROVE  /\ Group!LowWord(v, word) \in 0..(GroupPeriod - 1)
           /\ word < GroupPeriod \div GroupRadix =>
                Group!HighWord(v, word) \in 0..(GroupPeriod - 1)
<1>1. /\ GroupPeriod \in Nat \ {0} /\ GroupRadix \in Nat \ {0}
      /\ GroupPeriod % GroupRadix = 0
  BY DEF Group!TimerGroupAssumption
<1> QED BY <1>1, WordPlaced DEF Group!LowWord, Group!HighWord

\* A timer, the watchdog or the interrupt bits of a group replaced.
LEMMA TimerChanged ==
    ASSUME NEW g \in Group!GroupType, NEW i \in GroupTimers, NEW t \in Group!TimerType
    PROVE  [g EXCEPT !.timer[i] = t] \in Group!GroupType
BY DEF Group!GroupType

LEMMA WdtChanged ==
    ASSUME NEW g \in Group!GroupType, NEW w \in Group!WdtType
    PROVE  [g EXCEPT !.wdt = w] \in Group!GroupType
BY DEF Group!GroupType

LEMMA GroupStart ==
    ASSUME Group!TimerGroupAssumption, NEW cores \in SUBSET (TimerCores \cup WdtCores),
           Group!Start(cores)
    PROVE  Group!TypeOK
<1>1. group \in Group!GroupType
  BY ResetTyped DEF Group!Start
<1>2. Group!Attached = cores
  BY DEF Group!Start, Group!Attached
<1>3. unseen \in [cores -> 0..GroupRun] /\ lag \in [cores -> Nat]
  BY DEF Group!Start, Group!TimerGroupAssumption
<1> QED BY <1>1, <1>2, <1>3 DEF Group!TypeOK

-----------------------------------------------------------------------------
(* The deadlines of a timer group.                                         *)

LEMMA LeastOf ==
    ASSUME NEW S \in SUBSET Nat, S # {}, NEW m, m = Group!Min(S)
    PROVE  m \in S /\ \A k \in S : m <= k
<1> DEFINE R == OpToRel(<, Nat)
<1>1. IsWellFoundedOn(R, Nat)
  BY NatLessThanWellFounded
<1>2. \A x, y \in Nat : x < y => <<x, y>> \in R
  BY DEF OpToRel
<1> HIDE DEF R
<1>3. PICK l \in S : \A k \in S : ~(<<k, l>> \in R)
  BY <1>1, WFMin
<1>4. \A k \in S : ~(k < l)
  BY <1>2, <1>3
<1>5. l \in Nat /\ \A k \in S : k \in Nat
  OBVIOUS
<1>6. \A k \in S : l <= k
  BY <1>4, <1>5
<1> QED BY <1>3, <1>6 DEF Group!Min

LEMMA FactorsOrdered ==
    ASSUME NEW m \in Nat \ {0}, NEW a \in Nat, NEW b \in Nat
    PROVE  /\ a <= b <=> a * m <= b * m
           /\ a < b <=> a * m + m <= b * m
<1>1. ASSUME NEW x \in Nat, NEW y \in Nat, x <= y
      PROVE  x * m <= y * m
  <2> DEFINE d == y - x
  <2>1. d \in Nat /\ y = x + d
    BY <1>1
  <2> HIDE DEF d
  <2>2. d * m \in Nat /\ y * m = x * m + d * m
    BY <2>1
  <2> QED BY <2>2
<1>2. /\ (a + 1) * m = a * m + m /\ (b + 1) * m = b * m + m
      /\ a * m \in Nat /\ b * m \in Nat
  OBVIOUS
<1>3. a < b => a * m + m <= b * m
  BY <1>1, <1>2, a + 1 \in Nat
<1>4. b < a => b * m + m <= a * m
  BY <1>1, <1>2, b + 1 \in Nat
<1>5. a <= b => a * m <= b * m
  BY <1>1
<1> QED BY <1>2, <1>3, <1>4, <1>5

\* Division rounds down.
LEMMA RoundedDown ==
    ASSUME NEW a \in Nat, NEW m \in Nat \ {0}, NEW d \in Nat
    PROVE  (a \div m >= d) <=> (a >= d * m)
<1> DEFINE q == a \div m
           r == a % m
<1>1. a = q * m + r /\ r \in 0..(m - 1) /\ q \in Nat
  BY NatDivMod
<1> HIDE DEF q, r
<1>2. q * m \in Nat /\ d * m \in Nat
  BY <1>1
<1>3. q >= d => q * m >= d * m
  BY <1>1, FactorsOrdered
<1>4. q < d => q * m + m <= d * m
  BY <1>1, FactorsOrdered
<1>5. (q >= d) <=> (a >= d * m)
  BY <1>1, <1>2, <1>3, <1>4
<1> QED BY <1>5 DEF q

\* Division of a sum with m - 1 more rounds up.
LEMMA RoundedUp ==
    ASSUME NEW a \in Nat \ {0}, NEW m \in Nat \ {0}, NEW n \in Nat
    PROVE  (n >= (a + m - 1) \div m) <=> (n * m >= a)
<1> DEFINE x == a + m - 1
           q == x \div m
<1>1. x \in Nat
  OBVIOUS
<1> HIDE DEF x
<1>2. q \in Nat
  BY <1>1, NatDivMod
<1>3. (q >= n + 1) <=> (x >= (n + 1) * m)
  BY <1>1, RoundedDown, n + 1 \in Nat
<1> HIDE DEF q
<1>4. (n + 1) * m = n * m + m /\ n * m \in Nat
  OBVIOUS
<1>5. (n >= q) <=> (n * m >= a)
  BY <1>2, <1>3, <1>4 DEF x
<1> QED BY <1>5 DEF q, x

\* The fraction of a tick already counted belongs to the clock in use.
PhaseOK(phase, den) ==
    phase = Group!NoPhase \/ (phase.den = den /\ phase.rem < den)

\* The deadline of d ticks is the first cycle that completes them.
LEMMA TicksReach ==
    ASSUME NEW n \in Nat, NEW source \in Nat \ {0}, NEW den \in Nat \ {0},
           NEW phase \in Group!PhaseType, PhaseOK(phase, den), NEW d \in Nat \ {0},
           NEW c, c = Group!CyclesUntilTicks(d, source, den, phase),
           NEW s, s = Group!ScaledTicks(n, source, den, phase)
    PROVE  /\ c \in Nat \ {0} /\ (s.ticks >= d <=> n >= c) /\ s.ticks \in Nat
           /\ s.phase \in Group!PhaseType /\ PhaseOK(s.phase, den)
<1> DEFINE rem == phase.rem
           kept == IF phase.den = den THEN phase.rem ELSE 0
           N == n * source + rem
           need == d * den - rem
<1>1. rem \in Nat /\ rem < den /\ kept = rem
  BY DEF PhaseOK, Group!PhaseType, Group!NoPhase
<1>2. d * den \in Nat /\ d * den >= den /\ n * source \in Nat
  <2>1. 1 * den <= d * den
    BY FactorsOrdered, 1 \in Nat
  <2>2. d * den \in Nat /\ n * source \in Nat
    OBVIOUS
  <2> QED BY <2>1, <2>2
<1>3. N \in Nat /\ need \in Nat \ {0}
  BY <1>1, <1>2
<1>4. s = [ticks |-> N \div den, phase |-> [rem |-> N % den, den |-> den]]
  BY <1>1 DEF Group!ScaledTicks
<1>5. c = (need + source - 1) \div source
  BY <1>3 DEF Group!CyclesUntilTicks
<1> HIDE DEF rem, kept
<1>6. N >= d * den <=> n * source >= need
  BY <1>1, <1>2
<1> HIDE DEF N, need
<1>7. s.ticks >= d <=> N >= d * den
  BY <1>3, <1>4, RoundedDown, SMTT(30)
<1>8. n >= c <=> n * source >= need
  BY <1>3, <1>5, RoundedUp
<1>9. c \in Nat \ {0}
  <2>1. c \in Nat
    <3> DEFINE x == need + source - 1
    <3>1. x \in Nat
      BY <1>3
    <3> HIDE DEF x
    <3>2. x \div source \in Nat
      BY <3>1, NatDivMod
    <3> QED BY <1>5, <3>2 DEF x
  <2>2. 0 >= c <=> 0 * source >= need
    BY <1>3, <1>5, RoundedUp, 0 \in Nat
  <2>3. 0 * source = 0
    OBVIOUS
  <2> QED BY <1>3, <2>1, <2>2, <2>3
<1>10. N % den \in 0..(den - 1) /\ N \div den \in Nat
  BY <1>3, NatDivMod
<1>11. s.phase \in Group!PhaseType /\ PhaseOK(s.phase, den) /\ s.ticks \in Nat
  <2> DEFINE x == N % den
             y == N \div den
  <2>1. x \in Nat /\ x < den /\ y \in Nat
    BY <1>10
  <2> HIDE DEF x, y
  <2>2. s = [ticks |-> y, phase |-> [rem |-> x, den |-> den]]
    BY <1>4 DEF x, y
  <2> QED BY <2>1, <2>2 DEF Group!PhaseType, PhaseOK
<1> QED BY <1>6, <1>7, <1>8, <1>9, <1>11

TimerDeadline(t) ==
    Group!CyclesUntilTicks(Group!AlarmDistance(t), t.cfg.source, Group!Denominator(t), t.phase)

TimerPhaseOK(t) == PhaseOK(t.phase, Group!Denominator(t))

\* A timer's alarm fires at its deadline and not before.
LEMMA AlarmAtDeadline ==
    ASSUME Group!TimerGroupAssumption, NEW t \in Group!TimerType, TimerPhaseOK(t),
           NEW n \in Nat, NEW r, r = Group!ElapseTimer(t, n)
    PROVE  /\ r \in Group!TimerType /\ TimerPhaseOK(r) /\ TimerDeadline(t) \in Nat \ {0}
           /\ (t.cfg.alarmEn /\ ~r.cfg.alarmEn)
                <=> (t.cfg.enable /\ t.cfg.alarmEn /\ n >= TimerDeadline(t))
<1> DEFINE den == Group!Denominator(t)
           d == Group!AlarmDistance(t)
           c == TimerDeadline(t)
           s == Group!ScaledTicks(n, t.cfg.source, den, t.phase)
<1>1. /\ t.cfg.source \in Nat \ {0} /\ t.phase \in Group!PhaseType
      /\ t.cfg.enable \in BOOLEAN /\ t.cfg.alarmEn \in BOOLEAN
  BY TimerFields
<1>2. den \in Nat \ {0}
  <2>1. GroupCpuHz \in Nat \ {0} /\ t.cfg.divider \in Nat \ {0}
    BY TimerFields DEF Group!TimerGroupAssumption
  <2> QED BY <2>1 DEF Group!Denominator
<1>3. d \in Nat \ {0}
  BY DistanceBounds DEF Group!TimerGroupAssumption
<1>4. c = Group!CyclesUntilTicks(d, t.cfg.source, den, t.phase) /\ PhaseOK(t.phase, den)
  BY DEF TimerDeadline, TimerPhaseOK
<1>5. s = Group!ScaledTicks(n, t.cfg.source, den, t.phase)
  OBVIOUS
<1> DEFINE ph == s.phase
           x == s.ticks
           u == [t EXCEPT !.phase = ph]
           a == Group!AdvanceTimer(u, x)
<1>6. r = IF ~t.cfg.enable THEN t ELSE a
  BY DEF Group!ElapseTimer, Group!Ticks
<1> DEFINE src == t.cfg.source
<1>7. c = Group!CyclesUntilTicks(d, src, den, t.phase) /\ s = Group!ScaledTicks(n, src, den, t.phase)
  BY <1>4, <1>5
<1>8. src \in Nat \ {0}
  BY <1>1
<1> HIDE DEF den, d, c, s, src
<1>9. /\ c \in Nat \ {0} /\ (x >= d <=> n >= c) /\ x \in Nat
      /\ ph \in Group!PhaseType /\ PhaseOK(ph, den)
  BY <1>1, <1>2, <1>3, <1>4, <1>7, <1>8, TicksReach
<1> HIDE DEF ph, x
<1>10. /\ u \in Group!TimerType /\ u.phase = ph /\ u.cfg = t.cfg
      /\ u.alarm = t.alarm /\ u.counter = t.counter
  BY <1>9 DEF Group!TimerType
<1>11. a = Group!AdvanceTimer(u, x)
  OBVIOUS
<1> HIDE DEF u, a
<1>12. /\ a \in Group!TimerType /\ a.phase = u.phase
       /\ a.cfg.divider = u.cfg.divider
  BY <1>9, <1>10, <1>11, AdvanceFields
<1>13. a.cfg.alarmEn = (u.cfg.alarmEn /\ ~Group!Fires(u, x))
  BY <1>9, <1>10, <1>11, AdvanceFields
<1>14. Group!AlarmDistance(u) = d
  BY <1>10 DEF Group!AlarmDistance, d
<1>15. Group!Fires(u, x) <=> t.cfg.alarmEn /\ x >= d
  BY <1>3, <1>9, <1>10, <1>14 DEF Group!Fires
<1>16. TimerPhaseOK(a)
  BY <1>9, <1>10, <1>12 DEF TimerPhaseOK, Group!Denominator, den
<1>17. CASE ~t.cfg.enable
  BY <1>6, <1>9, <1>17 DEF c
<1>18. CASE t.cfg.enable
  <2>1. r = a
    BY <1>6, <1>18
  <2>2. (t.cfg.alarmEn /\ ~r.cfg.alarmEn) <=> (t.cfg.alarmEn /\ n >= c)
    BY <1>1, <1>9, <1>10, <1>15, <1>13, <2>1
  <2> QED BY <1>9, <1>12, <1>16, <1>18, <2>1, <2>2 DEF c
<1> QED BY <1>1, <1>17, <1>18

-----------------------------------------------------------------------------
WdtDeadline(w) ==
    Group!CyclesUntilTicks(Group!WdtRemaining(w), GroupApbHz, Group!WdtDenominator(w), w.phase)

WdtPhaseOK(w) == PhaseOK(w.phase, Group!WdtDenominator(w))

\* A stage of the watchdog ends as soon as what is left of it has passed.
LEMMA StageEndsAfter ==
    ASSUME NEW s \in WdtRounds, Group!WdtActive(s.w), NEW r, r = FourRounds(s)
    PROVE  (r.w.stage # s.w.stage) <=> s.ticks >= Group!WdtRemaining(s.w)
<1> DEFINE r1 == Group!WdtRound(s)
           r2 == Group!WdtRound(r1)
           r3 == Group!WdtRound(r2)
           r4 == Group!WdtRound(r3)
<1>1. r = r4
  BY DEF FourRounds
<1>2. /\ r1 = Group!WdtRound(s) /\ r2 = Group!WdtRound(r1)
      /\ r3 = Group!WdtRound(r2) /\ r4 = Group!WdtRound(r3)
  OBVIOUS
<1> HIDE DEF r1, r2, r3, r4
<1>3. r1 \in WdtRounds
  BY <1>2, RoundTyped
<1>4. r2 \in WdtRounds /\ r2.w.stage >= r1.w.stage
  BY <1>2, <1>3, RoundTyped
<1>5. r3 \in WdtRounds /\ r3.w.stage >= r2.w.stage
  BY <1>2, <1>4, RoundTyped
<1>6. r4 \in WdtRounds /\ r4.w.stage >= r3.w.stage
  BY <1>2, <1>5, RoundTyped
<1>7. \A x \in WdtRounds : x.w \in Group!WdtType /\ x.w.stage \in 0..4 /\ x.ticks \in Nat
  BY WdtFields DEF WdtRounds
<1>8. Group!WdtRemaining(s.w) \in Nat \ {0}
  BY <1>7, RemainingBound
<1>9. CASE s.ticks >= Group!WdtRemaining(s.w)
  <2>0. s.ticks > 0 /\ ~(s.ticks < Group!WdtRemaining(s.w))
    BY <1>7, <1>8, <1>9
  <2>1. r1 = Group!StageEnd(s, s.ticks - Group!WdtRemaining(s.w))
    BY <1>2, <2>0, RoundCases
  <2>2. s.ticks - Group!WdtRemaining(s.w) \in Nat
    BY <1>7, <1>8, <1>9
  <2>3. r1.w.stage > s.w.stage
    BY <2>1, <2>2, StageEndFields
  <2> QED BY <1>1, <1>3, <1>4, <1>5, <1>6, <1>7, <1>9, <2>3
<1>10. CASE ~(s.ticks >= Group!WdtRemaining(s.w))
  <2>1. r1.ticks = 0 /\ r1.w.stage = s.w.stage
    <3>1. CASE s.ticks = 0
      BY <1>2, <3>1, RoundCases
    <3>2. CASE s.ticks > 0
      <4>0. s.ticks < Group!WdtRemaining(s.w)
        BY <1>7, <1>8, <1>10
      <4>1. r1 = [s EXCEPT !.w.ticks = s.w.ticks + s.ticks, !.ticks = 0]
        BY <1>2, <3>2, <4>0, RoundCases
      <4> QED BY <1>7, <4>1 DEF WdtRounds, Group!WdtType
    <3> QED BY <1>7, <3>1, <3>2
  <2>2. r2 = r1
    BY <1>2, <1>3, <2>1, RoundCases
  <2>3. r3 = r2
    BY <1>2, <1>3, <2>1, <2>2, RoundCases
  <2>4. r4 = r3
    BY <1>2, <1>3, <2>1, <2>2, <2>3, RoundCases
  <2> QED BY <1>1, <1>10, <2>1, <2>2, <2>3, <2>4
<1> QED BY <1>9, <1>10

LEMMA StageAtDeadline ==
    ASSUME Group!TimerGroupAssumption, NEW w \in Group!WdtType, WdtPhaseOK(w),
           NEW n \in Nat, NEW r, r = Group!ElapseWdt(w, n)
    PROVE  /\ r.w \in Group!WdtType /\ WdtPhaseOK(r.w)
           /\ Group!WdtActive(w) => WdtDeadline(w) \in Nat \ {0}
           /\ (r.w.stage # w.stage) <=> Group!WdtActive(w) /\ n >= WdtDeadline(w)
<1>1. CASE ~Group!WdtActive(w)
  <2>1. r.w = w
    BY <1>1 DEF Group!ElapseWdt, Group!Untouched
  <2> QED BY <1>1, <2>1
<1>2. CASE Group!WdtActive(w)
  <2> DEFINE den == Group!WdtDenominator(w)
             d == Group!WdtRemaining(w)
             c == WdtDeadline(w)
             s == Group!ScaledTicks(n, GroupApbHz, den, w.phase)
  <2>1. GroupApbHz \in Nat \ {0} /\ w.phase \in Group!PhaseType
    BY WdtFields DEF Group!TimerGroupAssumption
  <2>2. den \in Nat \ {0}
    BY WdtFields, LargerOf, 1 \in Int, w.prescaler \in Int
       DEF Group!WdtDenominator, Group!TimerGroupAssumption
  <2>3. d \in Nat \ {0}
    BY <1>2, RemainingBound
  <2>4. c = Group!CyclesUntilTicks(d, GroupApbHz, den, w.phase) /\ PhaseOK(w.phase, den)
    BY DEF WdtDeadline, WdtPhaseOK
  <2>5. s = Group!ScaledTicks(n, GroupApbHz, den, w.phase)
    OBVIOUS
  <2> DEFINE ph == s.phase
             x == s.ticks
             v == [w EXCEPT !.phase = ph]
             a == FourRounds(Group!Untouched(v, x))
  <2>6. r = a
    BY <1>2 DEF Group!ElapseWdt, Group!AdvanceWdt, FourRounds
  <2> HIDE DEF den, d, c, s
  <2>7. /\ c \in Nat \ {0} /\ (x >= d <=> n >= c) /\ x \in Nat
        /\ ph \in Group!PhaseType /\ PhaseOK(ph, den)
    BY <2>1, <2>2, <2>3, <2>4, <2>5, TicksReach
  <2> HIDE DEF ph, x
  <2>8. /\ v \in Group!WdtType /\ v.phase = ph /\ v.cfg = w.cfg /\ v.hold = w.hold
        /\ v.prescaler = w.prescaler /\ v.stage = w.stage /\ v.ticks = w.ticks
    BY <2>7 DEF Group!WdtType
  <2> HIDE DEF v
  <2> DEFINE S == Group!Untouched(v, x)
  <2>9. S \in WdtRounds /\ S.w = v /\ S.ticks = x
    BY <2>7, <2>8 DEF WdtRounds, Group!Untouched
  <2>10. a = FourRounds(S)
    OBVIOUS
  <2> HIDE DEF S, a
  <2>11. /\ a \in WdtRounds /\ a.w.phase = ph /\ a.w.prescaler = w.prescaler
    BY <2>8, <2>9, <2>10, FourAdd
  <2>12. Group!WdtActive(v)
    BY <1>2, <2>8 DEF Group!WdtActive
  <2>13. Group!WdtRemaining(v) = d
    BY <2>8 DEF Group!WdtRemaining, Group!WdtHold, d
  <2>14. (r.w.stage # w.stage) <=> x >= d
    BY <2>6, <2>8, <2>9, <2>10, <2>12, <2>13, StageEndsAfter
  <2>15. r.w \in Group!WdtType
    BY <2>6, <2>11 DEF WdtRounds
  <2>16. WdtPhaseOK(r.w)
    BY <2>6, <2>7, <2>11 DEF WdtPhaseOK, Group!WdtDenominator, den
  <2> QED BY <1>2, <2>7, <2>14, <2>15, <2>16 DEF c
<1> QED BY <1>1, <1>2

PhasesOK(g) == (\A i \in GroupTimers : TimerPhaseOK(g.timer[i])) /\ WdtPhaseOK(g.wdt)

LEMMA ElapsePhases ==
    ASSUME Group!TimerGroupAssumption, NEW g \in Group!GroupType, NEW n \in Nat, PhasesOK(g)
    PROVE  PhasesOK(Group!Elapse(g, n))
<1>1. CASE n = 0 \/ ~Running(g)
  BY <1>1, ElapseStopped
<1>2. CASE n # 0 /\ Running(g)
  <2> DEFINE e == Group!Elapse(g, n)
             s == Group!ElapseWdt(g.wdt, n)
  <2>1. e = Group!Elapse(g, n) /\ s = Group!ElapseWdt(g.wdt, n)
    OBVIOUS
  <2> HIDE DEF e, s
  <2>2. /\ e.timer = [i \in GroupTimers |-> Group!ElapseTimer(g.timer[i], n)]
        /\ e.wdt = s.w
    BY <1>2, <2>1, ElapseFields
  <2>3. ASSUME NEW i \in GroupTimers
        PROVE  TimerPhaseOK(e.timer[i])
    <3>1. g.timer[i] \in Group!TimerType /\ TimerPhaseOK(g.timer[i])
      BY GroupFields DEF PhasesOK
    <3> QED BY <2>2, <3>1, AlarmAtDeadline
  <2>4. WdtPhaseOK(e.wdt)
    <3>1. g.wdt \in Group!WdtType /\ WdtPhaseOK(g.wdt)
      BY GroupFields DEF PhasesOK
    <3> QED BY <2>1, <2>2, <3>1, StageAtDeadline
  <2> QED BY <2>3, <2>4 DEF PhasesOK, e
<1> QED BY <1>1, <1>2

\* The timers whose alarm has a deadline.
Ringing(g) == {i \in GroupTimers \cap g.intEnable :
                 g.timer[i].cfg.enable /\ g.timer[i].cfg.alarmEn}

LEMMA EventsAre ==
    ASSUME NEW g, Running(g)
    PROVE  Group!NextEvents(g) =
             {TimerDeadline(g.timer[i]) : i \in Ringing(g)}
               \cup (IF Group!WdtActive(g.wdt) THEN {WdtDeadline(g.wdt)} ELSE {})
BY DEF Group!NextEvents, Running, Ringing, TimerDeadline, WdtDeadline

LEMMA EventsTyped ==
    ASSUME Group!TimerGroupAssumption, NEW g \in Group!GroupType, PhasesOK(g), Running(g)
    PROVE  Group!NextEvents(g) \in SUBSET (Nat \ {0})
<1>1. ASSUME NEW i \in GroupTimers
      PROVE  TimerDeadline(g.timer[i]) \in Nat \ {0}
  <2>1. g.timer[i] \in Group!TimerType /\ TimerPhaseOK(g.timer[i])
    BY GroupFields DEF PhasesOK
  <2> QED BY <2>1, AlarmAtDeadline, 0 \in Nat
<1>2. Group!WdtActive(g.wdt) => WdtDeadline(g.wdt) \in Nat \ {0}
  <2>1. g.wdt \in Group!WdtType /\ WdtPhaseOK(g.wdt)
    BY GroupFields DEF PhasesOK
  <2> QED BY <2>1, StageAtDeadline, 0 \in Nat
<1> QED BY <1>1, <1>2, EventsAre DEF Ringing

\* Something happens within n cycles exactly when a deadline is among them.
LEMMA HappensWhen ==
    ASSUME Group!TimerGroupAssumption, NEW g \in Group!GroupType, PhasesOK(g),
           NEW n \in Nat \ {0}, Running(g)
    PROVE  Group!Happens(g, n) <=> \E e \in Group!NextEvents(g) : n >= e
<1> DEFINE e == Group!Elapse(g, n)
           s == Group!ElapseWdt(g.wdt, n)
<1>1. e = Group!Elapse(g, n) /\ s = Group!ElapseWdt(g.wdt, n) /\ n \in Nat
  OBVIOUS
<1>2. Group!Happens(g, n) <=> \/ e.wdt.stage # g.wdt.stage
                              \/ \E i \in GroupTimers \cap g.intEnable :
                                   g.timer[i].cfg.alarmEn /\ ~e.timer[i].cfg.alarmEn
  BY DEF Group!Happens
<1> HIDE DEF e, s
<1>3. /\ e.timer = [i \in GroupTimers |-> Group!ElapseTimer(g.timer[i], n)]
      /\ e.wdt = s.w
  BY <1>1, ElapseFields
<1>4. ASSUME NEW i \in GroupTimers
      PROVE  (g.timer[i].cfg.alarmEn /\ ~e.timer[i].cfg.alarmEn)
               <=> (/\ g.timer[i].cfg.enable /\ g.timer[i].cfg.alarmEn
                    /\ n >= TimerDeadline(g.timer[i]))
  <2>1. g.timer[i] \in Group!TimerType /\ TimerPhaseOK(g.timer[i])
    BY GroupFields DEF PhasesOK
  <2>2. e.timer[i] = Group!ElapseTimer(g.timer[i], n)
    BY <1>3
  <2> QED BY <1>1, <2>1, <2>2, AlarmAtDeadline
<1>5. (e.wdt.stage # g.wdt.stage) <=> Group!WdtActive(g.wdt) /\ n >= WdtDeadline(g.wdt)
  <2>1. g.wdt \in Group!WdtType /\ WdtPhaseOK(g.wdt)
    BY GroupFields DEF PhasesOK
  <2> QED BY <1>1, <1>3, <2>1, StageAtDeadline
<1>6. (\E x \in Group!NextEvents(g) : n >= x)
        <=> \/ \E i \in Ringing(g) : n >= TimerDeadline(g.timer[i])
            \/ Group!WdtActive(g.wdt) /\ n >= WdtDeadline(g.wdt)
  BY EventsAre
<1>7. (\E i \in Ringing(g) : n >= TimerDeadline(g.timer[i]))
        <=> \E i \in GroupTimers \cap g.intEnable :
              g.timer[i].cfg.alarmEn /\ ~e.timer[i].cfg.alarmEn
  BY <1>4 DEF Ringing
<1> QED BY <1>2, <1>5, <1>6, <1>7

LEMMA NothingHappens ==
    ASSUME NEW g, NEW n, n = 0 \/ ~Running(g)
    PROVE  ~Group!Happens(g, n)
BY ElapseStopped DEF Group!Happens

LEMMA DeadlineIsExact ==
    ASSUME Group!TimerGroupAssumption, Group!TypeOK, PhasesOK(group)
    PROVE  Group!DeadlineExact
<1> DEFINE g == Group!Now
           m == Group!Min(Group!NextEvents(g))
           E == Group!NextEvents(g)
<1>1. g \in Group!GroupType /\ PhasesOK(g)
  <2>1. Group!Elapsed \in Nat /\ group \in Group!GroupType
    BY SyncTyped DEF Group!TypeOK
  <2> QED BY <2>1, SyncTyped, ElapsePhases DEF Group!Now
<1>2. SUFFICES IF E = {} THEN \A n \in 1..(2 * GroupRun + 2) : ~Group!Happens(g, n)
               ELSE Group!Happens(g, m) /\ ~Group!Happens(g, m - 1)
  BY DEF Group!DeadlineExact
<1>3. m = Group!Min(E)
  OBVIOUS
<1>4. GroupRun \in Nat
  BY DEF Group!TimerGroupAssumption
<1> HIDE DEF g, m
<1>5. CASE ~Running(g)
  <2>1. E = {}
    BY <1>5 DEF Group!NextEvents, Running
  <2> QED BY <1>5, <2>1, NothingHappens
<1>6. CASE Running(g) /\ E = {}
  <2>1. \A n \in 1..(2 * GroupRun + 2) : n \in Nat \ {0}
    BY <1>4
  <2> QED BY <1>1, <1>6, <2>1, HappensWhen
<1>7. CASE Running(g) /\ E # {}
  <2>1. E \in SUBSET (Nat \ {0})
    BY <1>1, <1>7, EventsTyped
  <2>2. m \in E /\ \A k \in E : m <= k
    <3> HIDE DEF E
    <3> QED BY <1>3, <1>7, <2>1, LeastOf
  <2>3. m \in Nat \ {0} /\ m - 1 \in Nat
    BY <2>1, <2>2
  <2>4. Group!Happens(g, m)
    BY <1>1, <1>7, <2>2, <2>3, HappensWhen
  <2>5. ~Group!Happens(g, m - 1)
    <3>1. CASE m - 1 = 0
      BY <3>1, NothingHappens
    <3>2. CASE m - 1 # 0
      <4>1. \A k \in E : ~(m - 1 >= k)
        BY <2>1, <2>2, <2>3
      <4> QED BY <1>1, <1>7, <2>3, <3>2, <4>1, HappensWhen
    <3> QED BY <3>1, <3>2
  <2> QED BY <1>7, <2>4, <2>5
<1> QED BY <1>5, <1>6, <1>7

\* h keeps the phases of g, or starts them afresh, and never changes the clock under one.
KeepsPhases(g, h) ==
    /\ \A i \in GroupTimers :
         \/ h.timer[i].phase = Group!NoPhase
         \/ /\ h.timer[i].phase = g.timer[i].phase
            /\ h.timer[i].cfg.divider = g.timer[i].cfg.divider
    /\ \/ h.wdt.phase = Group!NoPhase
       \/ h.wdt.phase = g.wdt.phase /\ h.wdt.prescaler = g.wdt.prescaler

LEMMA PhasesKept ==
    ASSUME NEW g, NEW h, PhasesOK(g), KeepsPhases(g, h)
    PROVE  PhasesOK(h)
<1>1. ASSUME NEW i \in GroupTimers
      PROVE  TimerPhaseOK(h.timer[i])
  BY DEF PhasesOK, KeepsPhases, TimerPhaseOK, PhaseOK, Group!Denominator
<1>2. WdtPhaseOK(h.wdt)
  BY DEF PhasesOK, KeepsPhases, WdtPhaseOK, PhaseOK, Group!WdtDenominator
<1> QED BY <1>1, <1>2 DEF PhasesOK

LEMMA SameKept ==
    ASSUME NEW g, NEW h, h.timer = g.timer, h.wdt = g.wdt
    PROVE  KeepsPhases(g, h)
BY DEF KeepsPhases

LEMMA IrqsKept ==
    ASSUME NEW g, NEW h \in Group!GroupType, KeepsPhases(g, h)
    PROVE  KeepsPhases(g, Group!UpdateIrqs(h))
<1>1. Group!UpdateIrqs(h).timer = h.timer /\ Group!UpdateIrqs(h).wdt = h.wdt
  BY DEF Group!UpdateIrqs, Group!GroupType
<1> QED BY <1>1 DEF KeepsPhases

LEMMA ResetPhases ==
    ASSUME NEW g,
           g \in Group!GroupType \/
           g = [timer |-> <<>>, wdt |-> <<>>, intEnable |-> {}, intRaw |-> {},
                level |-> {}, clockEnabled |-> TRUE, resetAsserted |-> FALSE,
                resetRequested |-> FALSE]
    PROVE  PhasesOK(Group!ResetRegisters(g))
<1> DEFINE h == Group!ResetRegisters(g)
<1>1. \A i \in GroupTimers : h.timer[i].phase = Group!NoPhase
  BY DEF Group!ResetRegisters, Group!GroupType
<1>2. h.wdt.phase = Group!NoPhase
  BY DEF Group!ResetRegisters, Group!GroupType
<1> QED BY <1>1, <1>2 DEF PhasesOK, TimerPhaseOK, WdtPhaseOK, PhaseOK

LEMMA GroupStep ==
    ASSUME Group!TimerGroupAssumption, Group!TypeOK, PhasesOK(group), Group!Next
    PROVE  Group!TypeOK' /\ PhasesOK(group')
<1> DEFINE cur == Group!Now
           Result == group' \in Group!GroupType /\ PhasesOK(group')
<1>1. cur \in Group!GroupType
  BY SyncTyped
<1>2. PhasesOK(cur)
  <2>1. Group!Elapsed \in Nat /\ group \in Group!GroupType
    BY SyncTyped DEF Group!TypeOK
  <2> QED BY <2>1, ElapsePhases DEF Group!Now
<1>3. cur.timer \in [GroupTimers -> Group!TimerType] /\ cur.wdt \in Group!WdtType
  BY <1>1, GroupFields
<1>4. \A i \in GroupTimers : cur.timer[i] \in Group!TimerType
  BY <1>3
<1> HIDE DEF cur
<1>5. ASSUME NEW h, KeepsPhases(cur, h), h \in Group!GroupType,
             group' = h \/ group' = Group!UpdateIrqs(h)
      PROVE  Result
  BY <1>2, <1>5, IrqsTyped, IrqsKept, PhasesKept
<1>6. KeepsPhases(cur, cur)
  BY SameKept
<1>7. ASSUME NEW c \in Group!Attached, NEW n \in 1..GroupRun, Group!Run(c, n)
      PROVE  Result
  BY <1>7 DEF Group!Run, Group!TypeOK
<1>8. ASSUME Group!Look
       PROVE  Result
  BY <1>1, <1>2, <1>8 DEF Group!Look, cur
<1>9. ASSUME NEW clk \in BOOLEAN, NEW reset \in BOOLEAN, Group!SetSystemState(clk, reset)
      PROVE  Result
  <2> DEFINE g == IF reset /\ ~cur.resetAsserted THEN Group!ResetRegisters(cur) ELSE cur
  <2>1. g \in Group!GroupType /\ PhasesOK(g)
    BY <1>1, <1>2, ResetTyped, ResetPhases
  <2>2. group' = [g EXCEPT !.clockEnabled = clk, !.resetAsserted = reset]
    BY <1>9 DEF Group!SetSystemState, cur
  <2> HIDE DEF g
  <2>3. /\ group' \in Group!GroupType
        /\ group'.timer = g.timer /\ group'.wdt = g.wdt
    BY <2>1, <2>2 DEF Group!GroupType
  <2> QED BY <2>1, <2>3, SameKept, PhasesKept
<1>10. ASSUME NEW i \in GroupTimers, NEW t \in Group!TimerType,
              \/ t.phase = Group!NoPhase
              \/ /\ t.phase = cur.timer[i].phase
                 /\ t.cfg.divider = cur.timer[i].cfg.divider
       PROVE  /\ [cur EXCEPT !.timer[i] = t] \in Group!GroupType
              /\ KeepsPhases(cur, [cur EXCEPT !.timer[i] = t])
  <2> DEFINE h == [cur EXCEPT !.timer[i] = t]
  <2>1. h \in Group!GroupType
    BY <1>1, TimerChanged
  <2>2. /\ h.timer = [cur.timer EXCEPT ![i] = t] /\ h.wdt = cur.wdt
    BY <1>1 DEF Group!GroupType
  <2> HIDE DEF h
  <2>3. KeepsPhases(cur, h)
    BY <1>3, <1>10, <2>2 DEF KeepsPhases
  <2> QED BY <2>1, <2>3 DEF h
<1>11. ASSUME NEW w \in Group!WdtType,
              \/ w.phase = Group!NoPhase
              \/ w.phase = cur.wdt.phase /\ w.prescaler = cur.wdt.prescaler
       PROVE  /\ [cur EXCEPT !.wdt = w] \in Group!GroupType
              /\ KeepsPhases(cur, [cur EXCEPT !.wdt = w])
  <2> DEFINE h == [cur EXCEPT !.wdt = w]
  <2>1. h \in Group!GroupType
    BY <1>1, WdtChanged
  <2>2. h.timer = cur.timer /\ h.wdt = w
    BY <1>1 DEF Group!GroupType
  <2> HIDE DEF h
  <2>3. KeepsPhases(cur, h)
    BY <1>11, <2>2 DEF KeepsPhases
  <2> QED BY <2>1, <2>3 DEF h
<1>12. ASSUME NEW i \in GroupTimers, NEW k \in GroupConfigs, Group!WriteConfig(i, k)
       PROVE  Result
  <2> DEFINE old == cur.timer[i].cfg
             rephase == old.source # k.source \/ old.divider # k.divider
  <2>1. PICK rst \in BOOLEAN :
          group' = Group!UpdateIrqs(
             [cur EXCEPT !.timer[i].cfg = k,
                         !.timer[i].phase = IF rephase \/ rst THEN Group!NoPhase
                                            ELSE cur.timer[i].phase])
    BY <1>12 DEF Group!WriteConfig, cur
  <2> DEFINE p == IF rephase \/ rst THEN Group!NoPhase ELSE cur.timer[i].phase
             t == [cur.timer[i] EXCEPT !.cfg = k, !.phase = p]
  <2>2. p \in Group!PhaseType
    BY <1>4, NoPhaseTyped DEF Group!TimerType
  <2>3. k \in Group!TimerConfigType
    BY DEF Group!TimerGroupAssumption
  <2>4. \/ p = Group!NoPhase
        \/ p = cur.timer[i].phase /\ k.divider = cur.timer[i].cfg.divider
    OBVIOUS
  <2>5. group' = Group!UpdateIrqs([cur EXCEPT !.timer[i].cfg = k, !.timer[i].phase = p])
    BY <2>1
  <2> HIDE DEF p
  <2>6. t \in Group!TimerType /\ t.phase = p /\ t.cfg = k
    BY <1>4, <2>2, <2>3 DEF Group!TimerType
  <2>7. [cur EXCEPT !.timer[i].cfg = k, !.timer[i].phase = p] = [cur EXCEPT !.timer[i] = t]
    BY <1>1, <1>3, <1>4 DEF Group!GroupType
  <2> HIDE DEF t
  <2> QED BY <1>5, <1>10, <2>4, <2>5, <2>6, <2>7
<1>13. ASSUME NEW i \in GroupTimers,
              \E x : \/ group' = [cur EXCEPT !.timer[i].alarm = x] /\ x \in 0..(GroupPeriod - 1)
                     \/ group' = [cur EXCEPT !.timer[i].load = x] /\ x \in 0..(GroupPeriod - 1)
       PROVE  Result
  <2>1. PICK x \in 0..(GroupPeriod - 1) : \/ group' = [cur EXCEPT !.timer[i].alarm = x]
                                          \/ group' = [cur EXCEPT !.timer[i].load = x]
    BY <1>13
  <2> DEFINE a == [cur.timer[i] EXCEPT !.alarm = x]
             l == [cur.timer[i] EXCEPT !.load = x]
  <2>2. /\ a \in Group!TimerType /\ a.phase = cur.timer[i].phase
        /\ a.cfg = cur.timer[i].cfg
        /\ l \in Group!TimerType /\ l.phase = cur.timer[i].phase
        /\ l.cfg = cur.timer[i].cfg
    BY <1>4 DEF Group!TimerType
  <2>3. group' = [cur EXCEPT !.timer[i] = a] \/ group' = [cur EXCEPT !.timer[i] = l]
    BY <1>1, <1>3, <1>4, <2>1 DEF Group!GroupType
  <2> HIDE DEF a, l
  <2> QED BY <1>5, <1>10, <2>2, <2>3
<1>14. ASSUME NEW i \in GroupTimers, NEW word \in 0..(GroupRadix - 1),
              Group!WriteAlarm(i, word)
       PROVE  Result
  <2> DEFINE v == cur.timer[i].alarm
  <2>1. v \in 0..(GroupPeriod - 1)
    BY <1>4 DEF Group!TimerType
  <2>2. \/ group' = [cur EXCEPT !.timer[i].alarm = Group!LowWord(v, word)]
        \/ /\ word < GroupPeriod \div GroupRadix
           /\ group' = [cur EXCEPT !.timer[i].alarm = Group!HighWord(v, word)]
    BY <1>14 DEF Group!WriteAlarm, cur
  <2> HIDE DEF v
  <2> QED BY <1>13, <2>1, <2>2, WordsTyped
<1>15. ASSUME NEW i \in GroupTimers, NEW word \in GroupLoads, Group!WriteLoad(i, word)
       PROVE  Result
  <2> DEFINE v == cur.timer[i].load
  <2>1. v \in 0..(GroupPeriod - 1) /\ word \in 0..(GroupRadix - 1)
    BY <1>4 DEF Group!TimerType, Group!TimerGroupAssumption
  <2>2. \/ group' = [cur EXCEPT !.timer[i].load = Group!LowWord(v, word)]
        \/ /\ word < GroupPeriod \div GroupRadix
           /\ group' = [cur EXCEPT !.timer[i].load = Group!HighWord(v, word)]
    BY <1>15 DEF Group!WriteLoad, cur
  <2> HIDE DEF v
  <2> QED BY <1>13, <2>1, <2>2, WordsTyped
<1>16. ASSUME NEW i \in GroupTimers, Group!LoadCounter(i)
       PROVE  Result
  <2> DEFINE v == cur.timer[i].load
             p == Group!NoPhase
             t == [cur.timer[i] EXCEPT !.counter = v, !.phase = p]
  <2>1. v \in 0..(GroupPeriod - 1) /\ p \in Group!PhaseType
    BY <1>4, NoPhaseTyped DEF Group!TimerType
  <2>2. group' = [cur EXCEPT !.timer[i].counter = v, !.timer[i].phase = p]
    BY <1>16 DEF Group!LoadCounter, cur
  <2>3. p = Group!NoPhase
    OBVIOUS
  <2> HIDE DEF v, p
  <2>4. t \in Group!TimerType /\ t.phase = p
    BY <1>4, <2>1 DEF Group!TimerType
  <2>5. group' = [cur EXCEPT !.timer[i] = t]
    BY <1>1, <1>3, <1>4, <2>2 DEF Group!GroupType
  <2> HIDE DEF t
  <2> QED BY <1>5, <1>10, <2>3, <2>4, <2>5
<1>17. ASSUME NEW es \in SUBSET Group!Events, Group!WriteIntEnable(es)
       PROVE  Result
  <2> DEFINE h == [cur EXCEPT !.intEnable = es]
  <2>1. h \in Group!GroupType /\ h.timer = cur.timer /\ h.wdt = cur.wdt
    BY <1>1 DEF Group!GroupType
  <2>2. group' = Group!UpdateIrqs(h)
    BY <1>17 DEF Group!WriteIntEnable, cur
  <2> HIDE DEF h
  <2> QED BY <1>5, <2>1, <2>2, SameKept
<1>18. ASSUME NEW es \in SUBSET Group!Events, Group!ClearInt(es)
       PROVE  Result
  <2> DEFINE h == [cur EXCEPT !.intRaw = cur.intRaw \ es]
  <2>1. h \in Group!GroupType /\ h.timer = cur.timer /\ h.wdt = cur.wdt
    BY <1>1, GroupFields DEF Group!GroupType
  <2>2. group' = Group!UpdateIrqs(h)
    BY <1>18 DEF Group!ClearInt, cur
  <2> HIDE DEF h
  <2> QED BY <1>5, <2>1, <2>2, SameKept
<1>19. ASSUME NEW w \in Group!WdtType
       PROVE  /\ Group!Restarted(w) \in Group!WdtType
              /\ Group!Restarted(w).phase = Group!NoPhase
  <2> DEFINE p == Group!NoPhase
  <2>1. Group!Restarted(w) = [w EXCEPT !.stage = 0, !.ticks = 0, !.phase = p]
    BY DEF Group!Restarted
  <2>2. p \in Group!PhaseType /\ p = Group!NoPhase
    BY NoPhaseTyped
  <2> HIDE DEF p
  <2>3. 0 \in 0..4 /\ 0 \in Nat
    OBVIOUS
  <2> QED BY <2>1, <2>2, <2>3 DEF Group!WdtType
<1>20. ASSUME NEW k \in WdtConfigs, Group!WriteWdtConfig(k)
       PROVE  Result
  <2> DEFINE new == [cur.wdt EXCEPT !.cfg = k]
             w == IF ~Group!WdtActive(cur.wdt) /\ Group!WdtActive(new)
                  THEN Group!Restarted(new) ELSE new
             h == IF ~cur.wdt.unlocked THEN cur ELSE [cur EXCEPT !.wdt = w]
  <2>1. /\ new \in Group!WdtType /\ new.phase = cur.wdt.phase
        /\ new.prescaler = cur.wdt.prescaler
    BY <1>3 DEF Group!TimerGroupAssumption, Group!WdtType
  <2>2. group' = Group!UpdateIrqs(h)
    BY <1>20, Zenon DEF Group!WriteWdtConfig, cur
  <2> HIDE DEF new
  <2>3. /\ w \in Group!WdtType
        /\ \/ w.phase = Group!NoPhase
           \/ w.phase = cur.wdt.phase /\ w.prescaler = cur.wdt.prescaler
    BY <1>19, <2>1
  <2> HIDE DEF w
  <2>4. h \in Group!GroupType /\ KeepsPhases(cur, h)
    BY <1>1, <1>6, <1>11, <2>3
  <2> HIDE DEF h
  <2> QED BY <1>5, <2>2, <2>4
<1>21. ASSUME NEW x \in Prescalers, Group!WriteWdtPrescaler(x)
       PROVE  Result
  <2> DEFINE p == Group!NoPhase
             w == [cur.wdt EXCEPT !.prescaler = x, !.phase = p]
             h == IF ~cur.wdt.unlocked \/ cur.wdt.prescaler = x THEN cur
                  ELSE [cur EXCEPT !.wdt.prescaler = x, !.wdt.phase = p]
  <2>1. p \in Group!PhaseType /\ p = Group!NoPhase
    BY NoPhaseTyped
  <2>2. group' = Group!UpdateIrqs(h)
    BY <1>21, Zenon DEF Group!WriteWdtPrescaler, cur
  <2> HIDE DEF p
  <2>3. w \in Group!WdtType /\ w.phase = p
    BY <1>3, <2>1 DEF Group!TimerGroupAssumption, Group!WdtType
  <2>4. [cur EXCEPT !.wdt.prescaler = x, !.wdt.phase = p] = [cur EXCEPT !.wdt = w]
    BY <1>1, <1>3 DEF Group!GroupType
  <2> HIDE DEF w
  <2>5. h \in Group!GroupType /\ KeepsPhases(cur, h)
    BY <1>1, <1>6, <1>11, <2>1, <2>3, <2>4
  <2> HIDE DEF h
  <2> QED BY <1>5, <2>2, <2>5
<1>22. ASSUME NEW s \in HoldStages, NEW x \in Holds, Group!WriteWdtHold(s, x)
       PROVE  Result
  <2> DEFINE w == [cur.wdt EXCEPT !.hold[s] = x]
             h == IF ~cur.wdt.unlocked THEN cur ELSE [cur EXCEPT !.wdt.hold[s] = x]
  <2>1. /\ w \in Group!WdtType /\ w.phase = cur.wdt.phase
        /\ w.prescaler = cur.wdt.prescaler
    <3>1. s \in Group!Stages /\ x \in Nat
      BY DEF Group!TimerGroupAssumption
    <3> DEFINE y == [cur.wdt.hold EXCEPT ![s] = x]
    <3>2. y \in [Group!Stages -> Nat]
      BY <1>3, <3>1 DEF Group!WdtType
    <3>3. w = [cur.wdt EXCEPT !.hold = y]
      BY <1>3, <3>1 DEF Group!WdtType
    <3> HIDE DEF y
    <3> QED BY <1>3, <3>2, <3>3 DEF Group!WdtType
  <2>2. [cur EXCEPT !.wdt.hold[s] = x] = [cur EXCEPT !.wdt = w]
    BY <1>1, <1>3 DEF Group!GroupType
  <2>3. group' = Group!UpdateIrqs(h)
    BY <1>22, Zenon DEF Group!WriteWdtHold, cur
  <2> HIDE DEF w
  <2>4. h \in Group!GroupType /\ KeepsPhases(cur, h)
    BY <1>1, <1>6, <1>11, <2>1, <2>2
  <2> HIDE DEF h
  <2> QED BY <1>5, <2>3, <2>4
<1>23. ASSUME Group!Feed
       PROVE  Result
  <2> DEFINE w == Group!Restarted(cur.wdt)
             h == IF ~cur.wdt.unlocked THEN cur ELSE [cur EXCEPT !.wdt = w]
  <2>1. w \in Group!WdtType /\ w.phase = Group!NoPhase
    BY <1>3, <1>19
  <2>2. group' = h
    BY <1>23 DEF Group!Feed, cur
  <2> HIDE DEF w
  <2>3. h \in Group!GroupType /\ KeepsPhases(cur, h)
    BY <1>1, <1>6, <1>11, <2>1
  <2> HIDE DEF h
  <2> QED BY <1>5, <2>2, <2>3
<1>24. ASSUME NEW unlock \in BOOLEAN, Group!Protect(unlock)
       PROVE  Result
  <2> DEFINE w == [cur.wdt EXCEPT !.unlocked = unlock]
  <2>1. /\ w \in Group!WdtType /\ w.phase = cur.wdt.phase
        /\ w.prescaler = cur.wdt.prescaler
    BY <1>3 DEF Group!WdtType
  <2>2. group' = [cur EXCEPT !.wdt.unlocked = unlock]
    BY <1>24 DEF Group!Protect, cur
  <2>3. group' = [cur EXCEPT !.wdt = w]
    BY <1>1, <1>3, <2>2 DEF Group!GroupType
  <2> HIDE DEF w
  <2> QED BY <1>5, <1>11, <2>1, <2>3
<1>25. \A i \in GroupTimers : {i} \in SUBSET Group!Events
  BY DEF Group!Events
<1>26. {Group!WDT} \in SUBSET Group!Events /\ {} \in SUBSET Group!Events
  BY DEF Group!Events
<1>27. ASSUME Group!Common
       PROVE  Result
  BY <1>7, <1>8, <1>9, <1>27 DEF Group!Common
<1>28. ASSUME Group!TimerNext
       PROVE  Result
  BY <1>12, <1>14, <1>15, <1>16, <1>17, <1>18, <1>25, <1>26, <1>28 DEF Group!TimerNext
<1>29. ASSUME Group!WdtNext
       PROVE  Result
  BY <1>17, <1>18, <1>20, <1>21, <1>22, <1>23, <1>24, <1>26, <1>29 DEF Group!WdtNext
<1>30. Result
  BY <1>27, <1>28, <1>29 DEF Group!Next
<1> HIDE DEF Result
<1>31. ASSUME Group!Sync
       PROVE  Group!TypeOK'
  BY <1>30, <1>31, SyncTyped DEF Group!TypeOK, Result
<1>32. ASSUME NEW c \in Group!Attached, NEW n \in 1..GroupRun, Group!Run(c, n)
       PROVE  Group!TypeOK'
  <2>1. unseen \in [Group!Attached -> 0..GroupRun] /\ n \in Nat /\ GroupRun \in Nat
    BY DEF Group!TypeOK, Group!TimerGroupAssumption
  <2>2. unseen' \in [Group!Attached -> 0..GroupRun]
    BY <1>32, <2>1 DEF Group!Run
  <2>3. Group!Attached' = Group!Attached
    BY <1>32, <2>1 DEF Group!Run, Group!Attached
  <2> QED BY <1>32, <2>2, <2>3 DEF Group!Run, Group!TypeOK
<1>33. Group!TimerNext \/ Group!WdtNext => Group!Sync
  BY DEF Group!TimerNext, Group!WdtNext, Group!WriteConfig, Group!WriteAlarm,
         Group!WriteLoad, Group!LoadCounter, Group!WriteIntEnable, Group!ClearInt,
         Group!WriteWdtConfig, Group!WriteWdtPrescaler, Group!WriteWdtHold,
         Group!Feed, Group!Protect
<1>34. Group!Common => Group!Sync \/ \E c \in Group!Attached, n \in 1..GroupRun : Group!Run(c, n)
  BY DEF Group!Common, Group!Look, Group!SetSystemState
<1>35. Group!TypeOK'
  BY <1>31, <1>32, <1>33, <1>34 DEF Group!Next
<1> QED BY <1>30, <1>35 DEF Result

-----------------------------------------------------------------------------
(* The system timer (Systimer).                                            *)

Half == SysModulus \div 2

LEMMA SysSizes ==
    ASSUME System!SystimerAssumption
    PROVE  /\ SysModulus \in Nat \ {0} /\ SysRadix \in Nat \ {0}
           /\ Half \in Nat \ {0} /\ SysModulus = 2 * Half
           /\ SysModulus % SysRadix = 0
           /\ SysCpuHz \in Nat \ {0} /\ SysTimerHz \in Nat \ {0} /\ SysRun \in Nat
           /\ SysPeriods \subseteq 0..(Half - 1) /\ 0 \in SysUnits
           /\ SysLoads \subseteq 0..(SysRadix - 1)
           /\ SysTimerHz <= SysCpuHz * (Half - 1)
<1> DEFINE M == SysModulus
           R == SysRadix
           k == M \div (2 * R)
<1>1. /\ M \in Nat \ {0} /\ R \in Nat \ {0} /\ M % (2 * R) = 0 /\ 2 * R \in Nat \ {0}
  BY DEF System!SystimerAssumption
<1>2. M = k * (2 * R) + (M % (2 * R)) /\ k \in Nat
  <2> DEFINE m == 2 * R
  <2>1. m \in Nat \ {0}
    BY <1>1
  <2> HIDE DEF m
  <2>2. M = (M \div m) * m + (M % m) /\ M \div m \in Nat
    BY <1>1, <2>1, NatDivMod
  <2> QED BY <2>2 DEF m
<1> HIDE DEF k
<1> DEFINE x == k * R
           y == k * 2
<1>3. M = 2 * x /\ x \in Nat /\ M = y * R /\ y \in Nat
  BY <1>1, <1>2
<1> HIDE DEF x, y
<1>4. M \div 2 = x /\ M % R = 0
  <2>1. M \div 2 = x
    BY <1>1, <1>3
  <2>2. M % R = 0
    <3>1. R \in Nat \ {0} /\ y \in Int /\ 0 \in 0..(R - 1) /\ M \in Int /\ M = y * R + 0
      BY <1>1, <1>3
    <3> QED BY <3>1, ModUnique
  <2> QED BY <2>1, <2>2
<1> QED BY <1>1, <1>3, <1>4 DEF System!SystimerAssumption, Half

\* A counter that wraps, moved by x, as seen from c.
LEMMA SeenFrom ==
    ASSUME NEW m \in Nat \ {0}, NEW a \in Int, NEW x \in Int, NEW c \in Int
    PROVE  /\ (((a + x) % m) - c) % m = (((a - c) % m) + x) % m
           /\ (a - ((c + x) % m)) % m = (((a - c) % m) - x) % m
<1> DEFINE n1 == a + x
           n2 == a - c
           n3 == c + x
           q1 == n1 \div m
           r1 == n1 % m
           q2 == n2 \div m
           r2 == n2 % m
           q3 == n3 \div m
           r3 == n3 % m
<1>1. /\ n1 = q1 * m + r1 /\ q1 \in Int /\ r1 \in Int
      /\ n2 = q2 * m + r2 /\ q2 \in Int /\ r2 \in Int
      /\ n3 = q3 * m + r3 /\ q3 \in Int /\ r3 \in Int
  <2>1. n1 \in Int /\ n2 \in Int /\ n3 \in Int
    OBVIOUS
  <2> HIDE DEF n1, n2, n3
  <2> QED BY <2>1, DivMod
<1> HIDE DEF q1, r1, q2, r2, q3, r3
<1>2. (r1 - c) % m = (r2 + x) % m
  <2> DEFINE q == q2 - q1
             n == r2 + x
             p == r1 - c
  <2>1. q \in Int /\ n \in Int /\ p = n + q * m
    BY <1>1
  <2> HIDE DEF q, n, p
  <2>2. (n + q * m) % m = n % m
    BY <2>1, ModShift
  <2>3. p % m = n % m
    BY <2>1, <2>2
  <2> QED BY <2>3 DEF n, p
<1>3. (a - r3) % m = (r2 - x) % m
  <2> DEFINE q == q2 + q3
             n == r2 - x
             p == a - r3
  <2>1. q \in Int /\ n \in Int /\ p = n + q * m
    BY <1>1
  <2> HIDE DEF q, n, p
  <2>2. (n + q * m) % m = n % m
    BY <2>1, ModShift
  <2>3. p % m = n % m
    BY <2>1, <2>2
  <2> QED BY <2>3 DEF n, p
<1> QED BY <1>2, <1>3 DEF r1, r2, r3

\* Less than a turn in either direction.
LEMMA OneTurn ==
    ASSUME NEW m \in Nat \ {0}, NEW r \in 0..(m - 1), NEW x \in Nat, x < m
    PROVE  /\ r + x < m => (r + x) % m = r + x
           /\ r + x >= m => (r + x) % m = r + x - m
           /\ r < x => (r - x) % m = r - x + m
<1>1. ASSUME r + x < m PROVE (r + x) % m = r + x
  <2>1. r + x \in 0..(m - 1) /\ r + x = 0 * m + (r + x) /\ r + x \in Int /\ 0 \in Int
    BY <1>1
  <2> QED BY <2>1, ModUnique
<1>2. ASSUME r + x >= m PROVE (r + x) % m = r + x - m
  <2>1. r + x - m \in 0..(m - 1) /\ r + x = 1 * m + (r + x - m) /\ r + x \in Int /\ 1 \in Int
    BY <1>2
  <2> QED BY <2>1, ModUnique
<1>3. ASSUME r < x PROVE (r - x) % m = r - x + m
  <2>1. r - x + m \in 0..(m - 1) /\ r - x = (-1) * m + (r - x + m) /\ r - x \in Int /\ -1 \in Int
    BY <1>3
  <2> QED BY <2>1, ModUnique
<1> QED BY <1>1, <1>2, <1>3

\* How far a target that is not reached is ahead, and when it is reached.
LEMMA Ahead ==
    ASSUME System!SystimerAssumption,
           NEW cur \in 0..(SysModulus - 1), NEW real \in 0..(SysModulus - 1),
           ~System!Reached(cur, real),
           NEW d, d = (real - cur) % SysModulus, NEW ticks \in Nat
    PROVE  /\ d \in 1..Half
           /\ ticks < d => ~System!Reached((cur + ticks) % SysModulus, real)
           /\ (d <= ticks /\ ticks < d + Half)
                => System!Reached((cur + ticks) % SysModulus, real)
<1> DEFINE M == SysModulus
           n == cur - real
           q == n \div M
           B == n % M
<1>1. M \in Nat \ {0} /\ Half \in Nat \ {0} /\ M = 2 * Half /\ M \div 2 = Half
  BY SysSizes DEF Half
<1>2. n = q * M + B /\ B \in 0..(M - 1) /\ q \in Int
  <2>1. n \in Int
    BY <1>1
  <2> HIDE DEF n
  <2> QED BY <1>1, <2>1, DivMod
<1>3. B >= Half
  BY <1>1, <1>2 DEF System!Reached
<1>4. (((cur + ticks) % M) - real) % M = (B + ticks) % M
  <2>1. M \in Nat \ {0} /\ cur \in Int /\ ticks \in Int /\ real \in Int
    BY <1>1
  <2> HIDE DEF M
  <2>2. (((cur + ticks) % M) - real) % M = (((cur - real) % M) + ticks) % M
    BY <2>1, SeenFrom
  <2> QED BY <2>2
<1> HIDE DEF q, B
<1>5. d = M - B
  <2> DEFINE w == real - cur
             k == (0 - q) - 1
  <2>1. /\ w \in Int /\ k \in Int /\ M - B \in 0..(M - 1)
        /\ w = k * M + (M - B)
    BY <1>1, <1>2, <1>3
  <2> HIDE DEF w, k
  <2>2. w % M = M - B
    BY <1>1, <2>1, ModUnique
  <2> QED BY <2>2 DEF w
<1>6. d \in 1..Half
  BY <1>1, <1>2, <1>3, <1>5
<1>7. ASSUME ticks < d PROVE (B + ticks) % M >= Half
  <2>1. ticks < M /\ B + ticks < M
    BY <1>1, <1>2, <1>5, <1>6, <1>7
  <2>2. (B + ticks) % M = B + ticks
    BY <1>1, <1>2, <2>1, OneTurn, ZenonT(40)
  <2> QED BY <1>1, <1>2, <1>3, <2>2
<1>8. ASSUME d <= ticks, ticks < d + Half PROVE (B + ticks) % M < Half
  <2>1. ticks < M /\ B + ticks >= M
    BY <1>1, <1>2, <1>5, <1>6, <1>8
  <2>2. (B + ticks) % M = B + ticks - M
    BY <1>1, <1>2, <2>1, OneTurn
  <2> QED BY <1>1, <1>2, <1>5, <1>8, <2>2
<1>9. (B + ticks) % M \in 0..(M - 1)
  BY <1>1, <1>2
<1> QED BY <1>1, <1>4, <1>6, <1>7, <1>8, <1>9 DEF System!Reached

\* A periodic comparator skips the periods gone by, and is ahead again.
LEMMA PeriodsSkipped ==
    ASSUME System!SystimerAssumption,
           NEW cur \in 0..(SysModulus - 1), NEW real \in 0..(SysModulus - 1),
           System!Reached(cur, real), NEW p \in 1..(Half - 1),
           NEW behind, behind = (cur - real) % SysModulus,
           NEW new, new = (real + (behind \div p + 1) * p) % SysModulus
    PROVE  /\ new \in 0..(SysModulus - 1) /\ ~System!Reached(cur, new) /\ new # real
<1> DEFINE M == SysModulus
           q == behind \div p
           r == behind % p
           x == (q + 1) * p
<1>1. M \in Nat \ {0} /\ Half \in Nat \ {0} /\ M = 2 * Half /\ M \div 2 = Half
  BY SysSizes DEF Half
<1>2. behind \in 0..(M - 1) /\ behind < Half
  <2>1. cur - real \in Int
    BY <1>1
  <2>2. behind \in 0..(M - 1)
    BY <1>1, <2>1, DivMod
  <2> QED BY <1>1, <2>2 DEF System!Reached
<1>3. behind = q * p + r /\ r \in 0..(p - 1) /\ q \in Nat
  <2>1. behind \in Nat /\ p \in Nat \ {0}
    BY <1>1, <1>2
  <2> QED BY <2>1, NatDivMod
<1> HIDE DEF q, r
<1>4. x = behind - r + p /\ x \in Nat
  <2>1. x = q * p + p
    BY <1>3
  <2> QED BY <1>2, <1>3, <2>1
<1>5. new = (real + x) % M
  BY DEF q
<1> HIDE DEF x
<1>6. new \in 0..(M - 1)
  BY <1>1, <1>4, <1>5
<1>7. (cur - new) % M = (behind - x) % M
  <2>1. (cur - ((real + x) % M)) % M = (((cur - real) % M) - x) % M
    BY <1>1, <1>4, SeenFrom
  <2> QED BY <1>5, <2>1
<1>8. (behind - x) % M = behind - x + M
  <2>1. behind < x /\ x < M
    BY <1>1, <1>2, <1>3, <1>4
  <2>2. behind \in 0..(M - 1) /\ M \in Nat \ {0}
    BY <1>1, <1>2
  <2> HIDE DEF M
  <2> QED BY <1>4, <2>1, <2>2, OneTurn
<1>9. behind - x + M >= Half
  BY <1>1, <1>2, <1>3, <1>4
<1>10. ~System!Reached(cur, new)
  BY <1>1, <1>7, <1>8, <1>9 DEF System!Reached
<1> QED BY <1>6, <1>10

\* What becomes of a comparator: it stays as it is unless it is due, and then
\* it is no longer due, and not what it was.
LEMMA AlarmAfter ==
    ASSUME System!SystimerAssumption, NEW s \in System!StType, NEW i \in SysAlarms,
           NEW a, a = System!AlarmNow(s, i)
    PROVE  /\ a \in System!AlarmType
           /\ a.cfg = s.alarm[i].cfg
           /\ ~System!Due(s, i) => a = s.alarm[i]
           /\ System!Due(s, i) => a # s.alarm[i]
           /\ (a.loaded /\ a.enable /\ s.counter[a.cfg.unit].enable)
                => ~System!Reached(s.counter[a.cfg.unit].value, a.real)
<1> DEFINE b == s.alarm[i]
           cur == s.counter[b.cfg.unit].value
<1>1. /\ b \in System!AlarmType /\ b.cfg.unit \in SysUnits
      /\ s.counter[b.cfg.unit] \in System!CounterType
  BY DEF System!StType, System!AlarmType
<1>2. cur \in 0..(SysModulus - 1) /\ b.real \in 0..(SysModulus - 1)
  BY <1>1 DEF System!CounterType, System!AlarmType
<1>3. b.period \in 0..(Half - 1)
  BY <1>1, SysSizes DEF System!AlarmType
<1>4. CASE ~System!Due(s, i)
  <2>1. a = b
    BY <1>4 DEF System!AlarmNow
  <2> QED BY <1>1, <1>4, <2>1 DEF System!Due, System!Armed
<1>5. CASE System!Due(s, i)
  <2>1. a = System!Served(b, cur)
    BY <1>5 DEF System!AlarmNow
  <2>2. b.enable /\ System!Reached(cur, b.real)
    BY <1>5 DEF System!Due, System!Armed
  <2>3. CASE b.cfg.periodic /\ b.period > 0
    <3> DEFINE behind == (cur - b.real) % SysModulus
               new == (b.real + (behind \div b.period + 1) * b.period) % SysModulus
    <3>1. a = [b EXCEPT !.real = new]
      BY <2>1, <2>3 DEF System!Served
    <3>2. new \in 0..(SysModulus - 1) /\ ~System!Reached(cur, new) /\ new # b.real
      <4>1. b.period \in 1..(Half - 1)
        BY <1>3, <2>3
      <4> DEFINE real == b.real
                 p == b.period
                 behind2 == (cur - real) % SysModulus
                 new2 == (real + (behind2 \div p + 1) * p) % SysModulus
      <4>2. new2 \in 0..(SysModulus - 1) /\ ~System!Reached(cur, new2) /\ new2 # real
        <5>1. real \in 0..(SysModulus - 1) /\ p \in 1..(Half - 1)
              /\ System!Reached(cur, real) /\ cur \in 0..(SysModulus - 1)
          BY <1>2, <2>2, <4>1
        <5> HIDE DEF real, p, cur
        <5> QED BY <5>1, PeriodsSkipped
      <4> QED BY <4>2
    <3> HIDE DEF new
    <3>3. /\ a \in System!AlarmType /\ a.cfg = b.cfg /\ a.real = new
      BY <1>1, <3>1, <3>2 DEF System!AlarmType
    <3> HIDE DEF b
    <3>4. a # b
      BY <3>2, <3>3
    <3> QED BY <1>5, <3>2, <3>3, <3>4 DEF b
  <2>4. CASE ~(b.cfg.periodic /\ b.period > 0)
    <3>1. a = [b EXCEPT !.enable = FALSE]
      BY <2>1, <2>4 DEF System!Served
    <3>2. a \in System!AlarmType /\ a.cfg = b.cfg /\ ~a.enable
      BY <1>1, <3>1 DEF System!AlarmType
    <3>3. a # b
      BY <2>2, <3>2
    <3> QED BY <1>5, <3>2, <3>3
  <2> QED BY <2>3, <2>4
<1> QED BY <1>4, <1>5

\* The comparators once evaluated: none is due.
LEMMA Evaluated ==
    ASSUME System!SystimerAssumption, NEW s \in System!StType,
           NEW e, e = System!EvaluateAlarms(s)
    PROVE  /\ e \in System!StType
           /\ e.counter = s.counter /\ e.rem = s.rem
           /\ e.clockEnabled = s.clockEnabled /\ e.resetAsserted = s.resetAsserted
           /\ \A i \in SysAlarms : ~System!Due(e, i) /\ e.alarm[i] = System!AlarmNow(s, i)
<1> DEFINE al == [i \in SysAlarms |-> System!AlarmNow(s, i)]
           raw == s.intRaw \cup {i \in SysAlarms : System!Due(s, i)}
<1>1. al \in [SysAlarms -> System!AlarmType]
  BY AlarmAfter
<1>2. raw \in SUBSET SysAlarms
  BY DEF System!StType
<1>3. e = System!UpdateIrqs([s EXCEPT !.intRaw = raw, !.alarm = al])
  BY DEF System!EvaluateAlarms
<1>4. \A i \in SysAlarms : al[i] = System!AlarmNow(s, i)
  OBVIOUS
<1> HIDE DEF al, raw
<1>5. /\ e \in System!StType
      /\ e.counter = s.counter /\ e.rem = s.rem /\ e.alarm = al
      /\ e.clockEnabled = s.clockEnabled /\ e.resetAsserted = s.resetAsserted
  BY <1>1, <1>2, <1>3, ZenonT(40) DEF System!UpdateIrqs, System!StType
<1>6. ASSUME NEW i \in SysAlarms PROVE ~System!Due(e, i)
  <2> DEFINE a == al[i]
  <2>1. (a.loaded /\ a.enable /\ s.counter[a.cfg.unit].enable)
          => ~System!Reached(s.counter[a.cfg.unit].value, a.real)
    BY <1>4, AlarmAfter
  <2> QED BY <1>5, <2>1 DEF System!Due, System!Armed
<1> QED BY <1>4, <1>5, <1>6

CountersMoved(s, t, ticks) ==
    \A u \in SysUnits :
       /\ t.counter[u].enable = s.counter[u].enable
       /\ s.counter[u].enable =>
            t.counter[u].value = (s.counter[u].value + ticks) % SysModulus

\* The counters after more cycles.
LEMMA CountedAs ==
    ASSUME System!SystimerAssumption, NEW s \in System!StType, NEW n \in Nat,
           NEW t, t = System!Counted(s, n),
           NEW ticks, ticks = System!Numerator(s, n) \div SysCpuHz
    PROVE  /\ t \in System!StType /\ t.alarm = s.alarm /\ ticks \in Nat
           /\ t.clockEnabled = s.clockEnabled /\ t.resetAsserted = s.resetAsserted
           /\ CountersMoved(s, t, ticks)
<1> DEFINE num == System!Numerator(s, n)
<1>1. num \in Nat /\ SysCpuHz \in Nat \ {0} /\ SysModulus \in Nat \ {0}
  BY SysSizes DEF System!Numerator, System!StType
<1>2. t = [s EXCEPT !.rem = num % SysCpuHz,
             !.counter = [u \in SysUnits |-> System!CounterAfter(s.counter[u], ticks)]]
  BY DEF System!Counted
<1> HIDE DEF num
<1>3. num % SysCpuHz \in 0..(SysCpuHz - 1) /\ ticks \in Nat
  BY <1>1, NatDivMod DEF num
<1>4. ASSUME NEW u \in SysUnits
      PROVE  /\ System!CounterAfter(s.counter[u], ticks) \in System!CounterType
             /\ System!CounterAfter(s.counter[u], ticks).enable = s.counter[u].enable
             /\ s.counter[u].enable =>
                  System!CounterAfter(s.counter[u], ticks).value
                    = (s.counter[u].value + ticks) % SysModulus
  <2> DEFINE c == s.counter[u]
             v == (c.value + ticks) % SysModulus
  <2>1. c \in System!CounterType
    BY DEF System!StType
  <2>2. v \in 0..(SysModulus - 1)
    <3>1. c.value + ticks \in Nat
      BY <1>1, <1>3, <2>1 DEF System!CounterType
    <3> QED BY <1>1, <3>1, NatDivMod
  <2> HIDE DEF c, v
  <2>3. CASE c.enable
    <3>1. System!CounterAfter(c, ticks) = [c EXCEPT !.value = v]
      BY <2>3 DEF System!CounterAfter, v
    <3>2. [c EXCEPT !.value = v] \in System!CounterType
      BY <2>1, <2>2 DEF System!CounterType
    <3>3. [c EXCEPT !.value = v].enable = c.enable /\ [c EXCEPT !.value = v].value = v
      BY <2>1 DEF System!CounterType
    <3> QED BY <3>1, <3>2, <3>3 DEF c, v
  <2>4. CASE ~c.enable
    <3>1. System!CounterAfter(c, ticks) = c
      BY <2>4 DEF System!CounterAfter
    <3> QED BY <2>1, <2>4, <3>1 DEF c
  <2> QED BY <2>3, <2>4
<1> DEFINE cs == [u \in SysUnits |-> System!CounterAfter(s.counter[u], ticks)]
<1>5. cs \in [SysUnits -> System!CounterType]
  BY <1>4
<1>6. \A u \in SysUnits : cs[u] = System!CounterAfter(s.counter[u], ticks)
  OBVIOUS
<1>7. t = [s EXCEPT !.rem = num % SysCpuHz, !.counter = cs]
  BY <1>2
<1> HIDE DEF cs
<1>8. /\ t \in System!StType /\ t.alarm = s.alarm /\ t.counter = cs
      /\ t.clockEnabled = s.clockEnabled /\ t.resetAsserted = s.resetAsserted
  BY <1>3, <1>5, <1>7 DEF System!StType
<1> QED BY <1>3, <1>4, <1>6, <1>8 DEF CountersMoved

SysDistance(s, i) ==
    (s.alarm[i].real - s.counter[s.alarm[i].cfg.unit].value) % SysModulus
SysCycles(d) == (d * SysCpuHz + SysTimerHz - 1) \div SysTimerHz
SysTicks(s, n) == System!Numerator(s, n) \div SysCpuHz

\* The ticks counted at a deadline, and MostLate cycles and more before it.
LEMMA TicksAtDeadline ==
    ASSUME System!SystimerAssumption, NEW s \in System!StType, NEW d \in 1..Half,
           NEW c, c = SysCycles(d), NEW n \in Nat
    PROVE  /\ c \in Nat \ {0} /\ System!MostLate \in Nat
           /\ n + System!MostLate + 1 <= c => SysTicks(s, n) < d
           /\ n = c => d <= SysTicks(s, n) /\ SysTicks(s, n) < d + Half
<1> DEFINE C == SysCpuHz
           T == SysTimerHz
           num == n * T + s.rem
           a == d * C
           L == System!MostLate
<1>1. /\ C \in Nat \ {0} /\ T \in Nat \ {0} /\ Half \in Nat \ {0}
      /\ T <= C * (Half - 1)
  BY SysSizes
<1>2. s.rem \in 0..(C - 1)
  BY DEF System!StType
<1>3. L \in Nat /\ L * T >= C - 1
  <2> DEFINE x == (C - 1) + (T - 1)
             q == x \div T
             r == x % T
  <2>1. x \in Nat
    BY <1>1
  <2>2. L = q
    BY <1>1 DEF System!MostLate
  <2> HIDE DEF x
  <2>3. x = q * T + r /\ r \in 0..(T - 1) /\ q \in Nat
    BY <1>1, <2>1, NatDivMod
  <2> HIDE DEF q, r
  <2>4. q * T \in Nat
    BY <1>1, <2>3
  <2>5. x = (C - 1) + (T - 1)
    BY DEF x
  <2> HIDE DEF L
  <2>6. q * T >= C - 1
    BY <1>1, <2>3, <2>4, <2>5
  <2> QED BY <2>2, <2>3, <2>6
<1>4. a \in Nat \ {0}
  BY <1>1
<1> HIDE DEF L
<1>5. ASSUME NEW k \in Nat PROVE (k >= c) <=> (k * T >= a)
  <2>1. c = (a + T - 1) \div T
    BY DEF SysCycles
  <2>2. T \in Nat \ {0}
    BY <1>1
  <2> HIDE DEF a, T
  <2> QED BY <1>4, <2>1, <2>2, RoundedUp
<1>6. c \in Nat \ {0}
  <2>1. c \in Nat
    <3> DEFINE x == (d * C) + (T - 1)
    <3>1. x \in Nat /\ c = x \div T
      BY <1>1 DEF SysCycles
    <3> HIDE DEF x
    <3> QED BY <1>1, <3>1, NatDivMod
  <2>2. ~(0 >= c)
    <3>1. 0 * T = 0 /\ ~(0 >= a)
      BY <1>1, <1>4
    <3> QED BY <1>5, <3>1
  <2> QED BY <2>1, <2>2
<1>7. num \in Nat /\ SysTicks(s, n) = num \div C /\ n * T \in Nat
  BY <1>1, <1>2 DEF SysTicks, System!Numerator
<1>8. ASSUME NEW k \in Nat PROVE (SysTicks(s, n) >= k) <=> (num >= k * C)
  <2>1. C \in Nat \ {0}
    BY <1>1
  <2> HIDE DEF num, C
  <2>2. (num \div C >= k) <=> (num >= k * C)
    BY <1>7, <2>1, RoundedDown
  <2> QED BY <1>7, <2>2
<1>9. SysTicks(s, n) \in Nat
  <2> HIDE DEF num
  <2> QED BY <1>1, <1>7, NatDivMod, ZenonT(40)
<1>10. ASSUME n + L + 1 <= c PROVE SysTicks(s, n) < d
  <2>1. ~(n + L >= c) /\ n + L \in Nat
    BY <1>3, <1>6, <1>10
  <2>2. ~((n + L) * T >= a)
    BY <1>5, <2>1
  <2>3. (n + L) * T = n * T + L * T /\ L * T \in Nat
    BY <1>1, <1>3
  <2>4. ~(num >= a)
    <3> HIDE DEF a
    <3> QED BY <1>1, <1>2, <1>3, <1>4, <1>7, <2>2, <2>3
  <2>5. ~(SysTicks(s, n) >= d)
    BY <1>8, <2>4
  <2> QED BY <1>9, <2>5
<1>11. ASSUME n = c PROVE d <= SysTicks(s, n) /\ SysTicks(s, n) < d + Half
  <2>1. n * T >= a
    BY <1>5, <1>6, <1>11
  <2>2. SysTicks(s, n) >= d
    <3>1. num >= a
      <4> HIDE DEF a
      <4> QED BY <1>2, <1>4, <1>7, <2>1
    <3> QED BY <1>8, <3>1
  <2>3. ~((n - 1) * T >= a)
    <3>1. n - 1 \in Nat /\ ~(n - 1 >= c)
      BY <1>6, <1>11
    <3> QED BY <1>5, <3>1
  <2>4. (n - 1) * T = n * T - T
    BY <1>1, <1>6, <1>11
  <2>5. (d + Half) * C = a + C * (Half - 1) + C /\ C * (Half - 1) \in Int
    BY <1>1
  <2>6. ~(num >= (d + Half) * C)
    <3> DEFINE w == C * (Half - 1)
               z == (d + Half) * C
               y == n * T
               v == (n - 1) * T
    <3>1. /\ z = a + w + C /\ w \in Int /\ T <= w /\ ~(v >= a) /\ v = y - T
          /\ num = y + s.rem /\ y \in Nat /\ s.rem \in 0..(C - 1) /\ a \in Nat
          /\ C \in Nat /\ T \in Nat
      BY <1>1, <1>2, <1>4, <1>7, <2>3, <2>4, <2>5
    <3> HIDE DEF w, z, y, v, a, num
    <3>2. ~(num >= z)
      BY <3>1
    <3> QED BY <3>2 DEF z
  <2>7. ~(SysTicks(s, n) >= d + Half)
    BY <1>1, <1>8, <2>6, d + Half \in Nat
  <2> QED BY <1>1, <1>9, <2>2, <2>7
<1> QED BY <1>3, <1>6, <1>10, <1>11 DEF L

LEMMA SoonestOf ==
    ASSUME NEW S \in SUBSET Nat, S # {}, NEW m, m = System!Min(S)
    PROVE  m \in S /\ \A k \in S : m <= k
<1>1. System!Min(S) = Group!Min(S)
  BY DEF System!Min, Group!Min
<1>2. m = Group!Min(S)
  BY <1>1
<1> QED BY <1>2, LeastOf

\* The registers after more cycles keep their types, and no comparator is due.
LEMMA SysElapsed ==
    ASSUME System!SystimerAssumption, NEW s \in System!StType, NEW n \in Nat,
           \A i \in SysAlarms : ~System!Due(s, i), NEW e, e = System!Elapse(s, n)
    PROVE  e \in System!StType /\ \A i \in SysAlarms : ~System!Due(e, i)
<1> DEFINE t == IF n = 0 THEN s ELSE System!Counted(s, n)
<1>1. CASE ~s.clockEnabled \/ s.resetAsserted
  <2>1. e = s
    BY <1>1 DEF System!Elapse
  <2> QED BY <2>1
<1>2. CASE ~(~s.clockEnabled \/ s.resetAsserted)
  <2>1. e = System!EvaluateAlarms(t)
    BY <1>2 DEF System!Elapse
  <2>2. t \in System!StType
    <3>1. System!Counted(s, n) \in System!StType
      BY CountedAs
    <3> QED BY <3>1
  <2> HIDE DEF t
  <2> QED BY <2>1, <2>2, Evaluated
<1> QED BY <1>1, <1>2

\* An armed comparator changes when the counter has come to its target.
LEMMA AlarmGoesOff ==
    ASSUME System!SystimerAssumption, NEW s \in System!StType, NEW n \in Nat,
           s.clockEnabled, ~s.resetAsserted, NEW i \in SysAlarms,
           System!Armed(s, i), ~System!Due(s, i),
           NEW d, d = SysDistance(s, i),
           NEW e, e = System!Elapse(s, n)
    PROVE  /\ d \in 1..Half
           /\ n = 0 \/ SysTicks(s, n) < d => e.alarm[i] = s.alarm[i]
           /\ n # 0 /\ d <= SysTicks(s, n) /\ SysTicks(s, n) < d + Half
                => e.alarm[i] # s.alarm[i]
<1> DEFINE a == s.alarm[i]
           u == a.cfg.unit
           cur == s.counter[u].value
           ticks == SysTicks(s, n)
           t == System!Counted(s, n)
<1>1. /\ a \in System!AlarmType /\ u \in SysUnits
      /\ s.counter[u] \in System!CounterType
  BY DEF System!StType, System!AlarmType
<1>2. /\ cur \in 0..(SysModulus - 1) /\ a.real \in 0..(SysModulus - 1)
      /\ ~System!Reached(cur, a.real) /\ d = (a.real - cur) % SysModulus
      /\ s.counter[u].enable
  BY <1>1 DEF System!CounterType, System!AlarmType, System!Due, System!Armed,
              SysDistance
<1>3. /\ t \in System!StType /\ t.alarm = s.alarm /\ ticks \in Nat
      /\ t.counter[u].enable = s.counter[u].enable
      /\ t.counter[u].value = (cur + ticks) % SysModulus
  <2>1. ticks = System!Numerator(s, n) \div SysCpuHz /\ t = System!Counted(s, n)
    BY DEF SysTicks
  <2> HIDE DEF t, ticks, cur, u
  <2>2. t \in System!StType /\ t.alarm = s.alarm /\ ticks \in Nat
    BY <2>1, CountedAs
  <2>3. CountersMoved(s, t, ticks)
    BY <2>1, CountedAs
  <2>4. /\ t.counter[u].enable = s.counter[u].enable
        /\ t.counter[u].value = (s.counter[u].value + ticks) % SysModulus
    BY <1>1, <1>2, <2>3 DEF CountersMoved
  <2> QED BY <2>2, <2>4 DEF cur
<1>4. /\ d \in 1..Half
      /\ ticks < d => ~System!Reached((cur + ticks) % SysModulus, a.real)
      /\ (d <= ticks /\ ticks < d + Half)
           => System!Reached((cur + ticks) % SysModulus, a.real)
  <2> DEFINE real == a.real
  <2>1. /\ cur \in 0..(SysModulus - 1) /\ real \in 0..(SysModulus - 1)
        /\ ~System!Reached(cur, real) /\ d = (real - cur) % SysModulus /\ ticks \in Nat
    BY <1>2, <1>3
  <2> HIDE DEF cur, real, ticks
  <2>2. /\ d \in 1..Half
        /\ ticks < d => ~System!Reached((cur + ticks) % SysModulus, real)
        /\ (d <= ticks /\ ticks < d + Half)
             => System!Reached((cur + ticks) % SysModulus, real)
    BY <2>1, Ahead
  <2> QED BY <2>2 DEF real
<1>5. System!Due(t, i) <=> System!Reached((cur + ticks) % SysModulus, a.real)
  <2>1. t.alarm[i] = a
    BY <1>3
  <2>2. a.loaded /\ a.enable
    BY DEF System!Armed
  <2> HIDE DEF a, t, cur, ticks
  <2> QED BY <1>2, <1>3, <2>1, <2>2 DEF System!Due, System!Armed
<1>6. ASSUME n = 0 PROVE e.alarm[i] = s.alarm[i]
  <2>1. e = System!EvaluateAlarms(s)
    BY <1>6 DEF System!Elapse
  <2>2. e.alarm[i] = System!AlarmNow(s, i)
    BY <2>1, Evaluated
  <2> QED BY <2>2, AlarmAfter
<1>7. ASSUME n # 0
      PROVE  /\ ~System!Due(t, i) => e.alarm[i] = s.alarm[i]
             /\ System!Due(t, i) => e.alarm[i] # s.alarm[i]
  <2>1. e = System!EvaluateAlarms(t)
    BY <1>7 DEF System!Elapse
  <2> HIDE DEF t
  <2>2. e.alarm[i] = System!AlarmNow(t, i)
    BY <1>3, <2>1, Evaluated
  <2>3. t \in System!StType
    BY <1>3
  <2> DEFINE z == e.alarm[i]
  <2> HIDE DEF z
  <2>4. z = System!AlarmNow(t, i)
    BY <2>2 DEF z
  <2>5. /\ ~System!Due(t, i) => z = t.alarm[i]
        /\ System!Due(t, i) => ~(z = t.alarm[i])
    BY <2>3, <2>4, AlarmAfter
  <2> QED BY <1>3, <2>5 DEF z
<1> HIDE DEF t, cur, a
<1> QED BY <1>4, <1>5, <1>6, <1>7

\* The deadline is one at which the soonest comparator goes off.
LEMMA SysDeadline ==
    ASSUME System!SystimerAssumption, NEW s \in System!StType,
           \A i \in SysAlarms : ~System!Due(s, i),
           NEW E, E = System!NextEvents(s), E # {},
           NEW c, c = System!Min(E)
    PROVE  /\ System!GoesOff(s, c)
           /\ c > System!MostLate => ~System!GoesOff(s, c - System!MostLate - 1)
<1>1. s.clockEnabled /\ ~s.resetAsserted
  BY DEF System!NextEvents
<1>2. E = {SysCycles(SysDistance(s, i)) : i \in {j \in SysAlarms : System!Armed(s, j)}}
  BY <1>1 DEF System!NextEvents, SysCycles, SysDistance
<1>3. ASSUME NEW i \in SysAlarms, System!Armed(s, i)
      PROVE  SysDistance(s, i) \in 1..Half
  BY <1>1, <1>3, AlarmGoesOff, 0 \in Nat
<1>4. ASSUME NEW i \in SysAlarms, System!Armed(s, i)
      PROVE  SysCycles(SysDistance(s, i)) \in Nat \ {0}
  BY <1>3, <1>4, TicksAtDeadline, 0 \in Nat
<1>5. E \in SUBSET Nat
  BY <1>2, <1>4
<1>6. c \in E /\ \A k \in E : c <= k
  BY <1>5, SoonestOf
<1>7. System!GoesOff(s, c)
  <2>1. PICK i \in SysAlarms : System!Armed(s, i) /\ c = SysCycles(SysDistance(s, i))
    BY <1>2, <1>6
  <2> DEFINE d == SysDistance(s, i)
             e == System!Elapse(s, c)
  <2>2. d \in 1..Half
    BY <1>3, <2>1
  <2>3. c \in Nat \ {0}
    BY <1>4, <2>1
  <2>4. d <= SysTicks(s, c) /\ SysTicks(s, c) < d + Half
    BY <2>1, <2>2, <2>3, TicksAtDeadline
  <2>5. e.alarm[i] # s.alarm[i]
    BY <1>1, <2>1, <2>3, <2>4, AlarmGoesOff
  <2> QED BY <2>1, <2>5 DEF System!GoesOff
<1>8. ASSUME c > System!MostLate PROVE ~System!GoesOff(s, c - System!MostLate - 1)
  <2> DEFINE n == c - System!MostLate - 1
  <2>1. ASSUME NEW i \in SysAlarms, System!Armed(s, i)
        PROVE  System!Elapse(s, n).alarm[i] = s.alarm[i]
    <3> DEFINE d == SysDistance(s, i)
               k == SysCycles(d)
    <3>1. d \in 1..Half /\ k \in E
      BY <1>2, <1>3, <2>1
    <3>2. System!MostLate \in Nat
      BY <3>1, TicksAtDeadline, 0 \in Nat
    <3>3. n \in Nat /\ n + System!MostLate + 1 = c /\ c <= k
      BY <1>5, <1>6, <1>8, <3>1, <3>2
    <3> HIDE DEF n, k
    <3>4. SysTicks(s, n) < d
      <4>1. n + System!MostLate + 1 <= k
        BY <3>3
      <4> QED BY <3>1, <3>3, <4>1, TicksAtDeadline DEF k
    <3> QED BY <1>1, <2>1, <3>3, <3>4, AlarmGoesOff
  <2> QED BY <2>1 DEF System!GoesOff
<1> QED BY <1>7, <1>8

\* The invariant of the system timer: no register access leaves a comparator due.
SysInv == System!TypeOK /\ \A i \in SysAlarms : ~System!Due(st, i)
NoneDue(s) == s \in System!StType /\ \A i \in SysAlarms : ~System!Due(s, i)

LEMMA SysWords ==
    ASSUME System!SystimerAssumption, NEW v \in 0..(SysModulus - 1),
           NEW word \in 0..(SysRadix - 1)
    PROVE  /\ System!LowWord(v, word) \in 0..(SysModulus - 1)
           /\ word < SysModulus \div SysRadix =>
                System!HighWord(v, word) \in 0..(SysModulus - 1)
BY SysSizes, WordPlaced DEF System!LowWord, System!HighWord

\* A comparator is due by its own target, mode and switches and its counter.
LEMMA SameDue ==
    ASSUME NEW s, NEW h, NEW i, h.alarm[i] = s.alarm[i], h.counter = s.counter,
           ~System!Due(s, i)
    PROVE  ~System!Due(h, i)
BY DEF System!Due, System!Armed

LEMMA IrqsSame ==
    ASSUME NEW s \in System!StType, NEW h, h = System!UpdateIrqs(s)
    PROVE  h \in System!StType /\ h.alarm = s.alarm /\ h.counter = s.counter
BY DEF System!UpdateIrqs, System!StType

LEMMA SysReset ==
    ASSUME System!SystimerAssumption, NEW s,
           s.clockEnabled \in BOOLEAN, s.resetAsserted \in BOOLEAN,
           NEW h, h = System!ResetRegisters(s),
           s = [counter |-> s.counter, alarm |-> s.alarm, rem |-> s.rem,
                intEnable |-> s.intEnable, intRaw |-> s.intRaw, level |-> s.level,
                clockEnabled |-> s.clockEnabled, resetAsserted |-> s.resetAsserted]
    PROVE  NoneDue(h)
<1> DEFINE cs == [u \in SysUnits |-> [enable |-> u = 0, value |-> 0, load |-> 0]]
           a == [staged |-> 0, dirty |-> FALSE, real |-> 0,
                 cfg |-> [unit |-> 0, periodic |-> FALSE, field |-> 0],
                 period |-> 0, loaded |-> FALSE, enable |-> FALSE]
           al == [i \in SysAlarms |-> a]
<1>1. /\ 0 \in 0..(SysModulus - 1) /\ 0 \in 0..(SysCpuHz - 1) /\ 0 \in SysUnits
  BY SysSizes
<1>2. cs \in [SysUnits -> System!CounterType]
  BY <1>1 DEF System!CounterType
<1>3. a \in System!AlarmType /\ ~a.enable
  BY <1>1 DEF System!AlarmType
<1>4. h = [s EXCEPT !.counter = cs, !.alarm = al, !.rem = 0, !.intEnable = {},
                    !.intRaw = {}, !.level = {}]
  BY DEF System!ResetRegisters
<1> HIDE DEF a
<1>5. al \in [SysAlarms -> System!AlarmType] /\ \A i \in SysAlarms : al[i] = a
  BY <1>3
<1> HIDE DEF cs, al
<1>6. h = [counter |-> cs, alarm |-> al, rem |-> 0, intEnable |-> {},
           intRaw |-> {}, level |-> {}, clockEnabled |-> s.clockEnabled,
           resetAsserted |-> s.resetAsserted]
  BY <1>4
<1>7. h \in System!StType /\ h.alarm = al
  BY <1>1, <1>2, <1>5, <1>6 DEF System!StType
<1> QED BY <1>3, <1>5, <1>7 DEF NoneDue, System!Due, System!Armed

LEMMA SysStart ==
    ASSUME System!SystimerAssumption, System!Init
    PROVE  SysInv
<1> DEFINE s == [counter |-> <<>>, alarm |-> <<>>, rem |-> 0, intEnable |-> {},
                 intRaw |-> {}, level |-> {}, clockEnabled |-> TRUE,
                 resetAsserted |-> FALSE]
<1>1. st = System!ResetRegisters(s) /\ unseen = 0
  BY DEF System!Init
<1>2. /\ s = [counter |-> s.counter, alarm |-> s.alarm, rem |-> s.rem,
              intEnable |-> s.intEnable, intRaw |-> s.intRaw, level |-> s.level,
              clockEnabled |-> s.clockEnabled, resetAsserted |-> s.resetAsserted]
      /\ s.clockEnabled \in BOOLEAN /\ s.resetAsserted \in BOOLEAN
  OBVIOUS
<1> HIDE DEF s
<1>3. NoneDue(st)
  BY <1>1, <1>2, SysReset
<1> QED BY <1>1, <1>3, SysSizes DEF SysInv, NoneDue, System!TypeOK

LEMMA SysStep ==
    ASSUME System!SystimerAssumption, SysInv, System!Next
    PROVE  SysInv'
<1> DEFINE g == System!Now
<1>1. /\ unseen \in 0..SysRun /\ SysRun \in Nat /\ NoneDue(st)
  BY SysSizes DEF SysInv, System!TypeOK, NoneDue
<1>2. NoneDue(g)
  BY <1>1, SysElapsed DEF System!Now, NoneDue
<1>3. g \in System!StType
  BY <1>2 DEF NoneDue
<1>4. /\ g.counter \in [SysUnits -> System!CounterType]
      /\ g.alarm \in [SysAlarms -> System!AlarmType]
      /\ g.intRaw \in SUBSET SysAlarms
  BY <1>3 DEF System!StType
<1> HIDE DEF g
<1>5. ASSUME NEW h \in System!StType PROVE NoneDue(System!EvaluateAlarms(h))
  BY Evaluated DEF NoneDue
<1>6. ASSUME NEW h \in System!StType, h.alarm = g.alarm, h.counter = g.counter
      PROVE  NoneDue(h)
  BY <1>2, <1>6, SameDue DEF NoneDue
<1>7. ASSUME NEW u \in SysUnits, NEW c \in System!CounterType
      PROVE  [g EXCEPT !.counter[u] = c] \in System!StType
  BY <1>3 DEF System!StType
<1>8. ASSUME NEW i \in SysAlarms, NEW a \in System!AlarmType
      PROVE  [g EXCEPT !.alarm[i] = a] \in System!StType
  BY <1>3 DEF System!StType
<1>9. ASSUME NEW u \in SysUnits, NEW x \in 0..(SysModulus - 1)
      PROVE  NoneDue([g EXCEPT !.counter[u].load = x])
  <2> DEFINE c == [g.counter[u] EXCEPT !.load = x]
             h == [g EXCEPT !.counter[u] = c]
  <2>1. /\ c \in System!CounterType /\ c.enable = g.counter[u].enable
        /\ c.value = g.counter[u].value
    BY <1>4 DEF System!CounterType
  <2>2. [g EXCEPT !.counter[u].load = x] = h
    BY <1>3, <1>4 DEF System!StType
  <2> HIDE DEF c
  <2>3. h \in System!StType
    BY <1>7, <2>1
  <2>4. h.alarm = g.alarm /\ h.counter = [g.counter EXCEPT ![u] = c]
    BY <1>3 DEF System!StType
  <2> HIDE DEF h
  <2>5. ASSUME NEW w \in SysUnits
        PROVE  /\ h.counter[w].value = g.counter[w].value
               /\ h.counter[w].enable => g.counter[w].enable
    BY <1>4, <2>1, <2>4
  <2>6. ASSUME NEW i \in SysAlarms PROVE ~System!Due(h, i)
    <3>1. h.alarm[i] = g.alarm[i] /\ g.alarm[i].cfg.unit \in SysUnits
      BY <1>4, <2>4 DEF System!AlarmType
    <3>2. ~System!Due(g, i)
      BY <1>2 DEF NoneDue
    <3> QED BY <2>5, <3>1, <3>2 DEF System!Due, System!Armed
  <2>7. NoneDue(h)
    BY <2>3, <2>6 DEF NoneDue
  <2> QED BY <2>2, <2>7
<1>10. ASSUME NEW i \in SysAlarms, NEW x \in 0..(SysModulus - 1)
       PROVE  NoneDue([g EXCEPT !.alarm[i].staged = x, !.alarm[i].dirty = TRUE])
  <2> DEFINE a == [g.alarm[i] EXCEPT !.staged = x, !.dirty = TRUE]
             h == [g EXCEPT !.alarm[i] = a]
  <2>1. /\ a \in System!AlarmType /\ a.cfg = g.alarm[i].cfg /\ a.real = g.alarm[i].real
        /\ a.loaded = g.alarm[i].loaded /\ a.enable = g.alarm[i].enable
    BY <1>4 DEF System!AlarmType
  <2>2. [g EXCEPT !.alarm[i].staged = x, !.alarm[i].dirty = TRUE] = h
    BY <1>3, <1>4 DEF System!StType
  <2> HIDE DEF a
  <2>3. h \in System!StType
    BY <1>8, <2>1
  <2>4. h.counter = g.counter /\ h.alarm = [g.alarm EXCEPT ![i] = a]
    BY <1>3 DEF System!StType
  <2> HIDE DEF h
  <2>5. ASSUME NEW j \in SysAlarms PROVE ~System!Due(h, j)
    <3>1. ~System!Due(g, j)
      BY <1>2 DEF NoneDue
    <3>2. CASE j = i
      <4>1. h.alarm[j] = a
        BY <1>4, <2>4, <3>2
      <4> QED BY <2>1, <2>4, <3>1, <3>2, <4>1 DEF System!Due, System!Armed
    <3>3. CASE j # i
      <4>1. h.alarm[j] = g.alarm[j]
        BY <1>4, <2>4, <3>3
      <4> QED BY <2>4, <3>1, <4>1, SameDue
    <3> QED BY <3>2, <3>3
  <2>6. NoneDue(h)
    BY <2>3, <2>5 DEF NoneDue
  <2> QED BY <2>2, <2>6
<1> DEFINE SysKept == NoneDue(st') /\ unseen' \in 0..SysRun
<1>11. ASSUME System!Sync, NoneDue(st') PROVE SysKept
  BY <1>1, <1>11 DEF System!Sync
<1>12. ASSUME NEW n \in 1..SysRun, System!Run(n) PROVE SysKept
  BY <1>1, <1>12 DEF System!Run
<1>13. ASSUME System!Look PROVE SysKept
  BY <1>2, <1>11, <1>13 DEF System!Look, g
<1>14. ASSUME NEW us \in SUBSET SysUnits, NEW is \in SUBSET SysAlarms,
              System!WriteConf(us, is)
       PROVE  SysKept
  <2> DEFINE cs == [u \in SysUnits |-> [g.counter[u] EXCEPT !.enable = u \in us]]
             al == [i \in SysAlarms |-> [g.alarm[i] EXCEPT !.enable = i \in is]]
             h == [g EXCEPT !.counter = cs, !.alarm = al]
  <2>1. st' = System!EvaluateAlarms(h) /\ System!Sync
    BY <1>14 DEF System!WriteConf, g
  <2>2. ASSUME NEW u \in SysUnits
        PROVE  [g.counter[u] EXCEPT !.enable = u \in us] \in System!CounterType
    <3> DEFINE on == u \in us
    <3>1. on \in BOOLEAN
      OBVIOUS
    <3> HIDE DEF on
    <3>2. [g.counter[u] EXCEPT !.enable = on] \in System!CounterType
      BY <1>4, <3>1 DEF System!CounterType
    <3> QED BY <3>2, Zenon DEF on
  <2>3. ASSUME NEW i \in SysAlarms
        PROVE  [g.alarm[i] EXCEPT !.enable = i \in is] \in System!AlarmType
    <3> DEFINE on == i \in is
    <3>1. on \in BOOLEAN
      OBVIOUS
    <3> HIDE DEF on
    <3>2. [g.alarm[i] EXCEPT !.enable = on] \in System!AlarmType
      BY <1>4, <3>1 DEF System!AlarmType
    <3> QED BY <3>2, Zenon DEF on
  <2>4. cs \in [SysUnits -> System!CounterType] /\ al \in [SysAlarms -> System!AlarmType]
    BY <2>2, <2>3, Zenon
  <2> HIDE DEF cs, al
  <2>5. h \in System!StType
    BY <1>3, <2>4 DEF System!StType
  <2> HIDE DEF h, SysKept
  <2> QED BY <1>5, <1>11, <2>1, <2>5
<1>15. ASSUME NEW u \in SysUnits, NEW word \in SysLoads, System!WriteLoad(u, word)
       PROVE  SysKept
  <2> DEFINE v == g.counter[u].load
  <2>1. v \in 0..(SysModulus - 1) /\ word \in 0..(SysRadix - 1)
    BY <1>4, SysSizes DEF System!CounterType
  <2>2. /\ System!Sync
        /\ \/ st' = [g EXCEPT !.counter[u].load = System!LowWord(v, word)]
           \/ /\ word < SysModulus \div SysRadix
              /\ st' = [g EXCEPT !.counter[u].load = System!HighWord(v, word)]
    BY <1>15 DEF System!WriteLoad, g
  <2> HIDE DEF v, SysKept
  <2>3. PICK x \in 0..(SysModulus - 1) : st' = [g EXCEPT !.counter[u].load = x]
    BY <2>1, <2>2, SysWords
  <2> QED BY <1>9, <1>11, <2>2, <2>3
<1>16. ASSUME NEW u \in SysUnits, System!LoadCounter(u) PROVE SysKept
  <2> DEFINE c == [g.counter[u] EXCEPT !.value = g.counter[u].load]
             h == [g EXCEPT !.counter[u] = c]
  <2>1. st' = System!EvaluateAlarms([g EXCEPT !.counter[u].value = g.counter[u].load])
        /\ System!Sync
    BY <1>16 DEF System!LoadCounter, g
  <2>2. c \in System!CounterType
    BY <1>4 DEF System!CounterType
  <2>3. [g EXCEPT !.counter[u].value = g.counter[u].load] = h
    BY <1>3, <1>4 DEF System!StType
  <2> HIDE DEF c
  <2>4. h \in System!StType
    BY <1>7, <2>2
  <2> HIDE DEF h, SysKept
  <2> QED BY <1>5, <1>11, <2>1, <2>3, <2>4
<1>17. ASSUME NEW i \in SysAlarms, NEW word \in 0..(SysRadix - 1),
              System!WriteTarget(i, word)
       PROVE  SysKept
  <2> DEFINE v == g.alarm[i].staged
  <2>1. v \in 0..(SysModulus - 1)
    BY <1>4 DEF System!AlarmType
  <2>2. /\ System!Sync
        /\ \/ st' = [g EXCEPT !.alarm[i].staged = System!LowWord(v, word),
                              !.alarm[i].dirty = TRUE]
           \/ /\ word < SysModulus \div SysRadix
              /\ st' = [g EXCEPT !.alarm[i].staged = System!HighWord(v, word),
                                 !.alarm[i].dirty = TRUE]
    BY <1>17 DEF System!WriteTarget, g
  <2> HIDE DEF v, SysKept
  <2>3. PICK x \in 0..(SysModulus - 1) :
          st' = [g EXCEPT !.alarm[i].staged = x, !.alarm[i].dirty = TRUE]
    BY <2>1, <2>2, SysWords
  <2> QED BY <1>10, <1>11, <2>2, <2>3
<1>18. ASSUME NEW i \in SysAlarms, NEW u \in SysUnits, NEW m \in BOOLEAN,
              NEW p \in SysPeriods, System!WriteTargetConf(i, u, m, p)
       PROVE  SysKept
  <2> DEFINE k == [unit |-> u, periodic |-> m, field |-> p]
             a == [g.alarm[i] EXCEPT !.cfg = k]
             h == [g EXCEPT !.alarm[i] = a]
  <2>1. st' = System!EvaluateAlarms([g EXCEPT !.alarm[i].cfg = k]) /\ System!Sync
    BY <1>18 DEF System!WriteTargetConf, g
  <2>2. a \in System!AlarmType
    <3>1. k \in [unit : SysUnits, periodic : BOOLEAN, field : SysPeriods \cup {0}]
      OBVIOUS
    <3> HIDE DEF k
    <3> QED BY <1>4, <3>1, ZenonT(40) DEF System!AlarmType
  <2> HIDE DEF k
  <2>3. [g EXCEPT !.alarm[i].cfg = k] = h
    BY <1>3, <1>4 DEF System!StType
  <2> HIDE DEF a
  <2>4. h \in System!StType
    BY <1>8, <2>2
  <2> HIDE DEF h, SysKept
  <2> QED BY <1>5, <1>11, <2>1, <2>3, <2>4
<1>19. ASSUME NEW i \in SysAlarms, System!LoadComparator(i) PROVE SysKept
  <2> DEFINE old == g.alarm[i]
             a == System!Loaded(g, i)
             h == [g EXCEPT !.alarm[i] = a]
             next == (g.counter[old.cfg.unit].value + old.cfg.field) % SysModulus
             real == IF old.cfg.periodic \/ ~old.dirty THEN next ELSE old.staged
  <2>1. st' = System!EvaluateAlarms(h) /\ System!Sync
    BY <1>19 DEF System!LoadComparator, g
  <2>2. old \in System!AlarmType /\ g.counter[old.cfg.unit] \in System!CounterType
    BY <1>4 DEF System!AlarmType
  <2>3. next \in 0..(SysModulus - 1)
    <3> DEFINE x == g.counter[old.cfg.unit].value + old.cfg.field
    <3>1. x \in Nat
      BY <2>2, SysSizes DEF System!CounterType, System!AlarmType
    <3> HIDE DEF x
    <3>2. SysModulus \in Nat \ {0}
      BY SysSizes
    <3>3. x % SysModulus \in 0..(SysModulus - 1)
      BY <3>1, <3>2, NatDivMod
    <3> QED BY <3>3 DEF x
  <2>4. a = [old EXCEPT !.period = old.cfg.field, !.real = real, !.dirty = FALSE,
                        !.loaded = TRUE]
    BY DEF System!Loaded
  <2> HIDE DEF a, next, old
  <2>5. real \in 0..(SysModulus - 1)
    BY <2>2, <2>3 DEF System!AlarmType
  <2> HIDE DEF real
  <2>6. a \in System!AlarmType
    BY <2>2, <2>4, <2>5 DEF System!AlarmType
  <2>7. h \in System!StType
    BY <1>8, <2>6
  <2> HIDE DEF h, SysKept
  <2> QED BY <1>5, <1>11, <2>1, <2>7
<1>20. ASSUME NEW h \in System!StType, h.alarm = g.alarm, h.counter = g.counter
       PROVE  NoneDue(System!UpdateIrqs(h))
  <2> DEFINE f == System!UpdateIrqs(h)
  <2>1. f \in System!StType /\ f.alarm = g.alarm /\ f.counter = g.counter
    BY <1>20, IrqsSame
  <2> HIDE DEF f
  <2>2. NoneDue(f)
    BY <1>6, <2>1
  <2> QED BY <2>2 DEF f
<1>21. ASSUME NEW is \in SUBSET SysAlarms, System!WriteIntEnable(is) PROVE SysKept
  <2> DEFINE h == [g EXCEPT !.intEnable = is]
  <2>1. st' = System!UpdateIrqs(h) /\ System!Sync
    BY <1>21 DEF System!WriteIntEnable, g
  <2>2. h \in System!StType /\ h.alarm = g.alarm /\ h.counter = g.counter
    BY <1>3 DEF System!StType
  <2> HIDE DEF h, SysKept
  <2> QED BY <1>11, <1>20, <2>1, <2>2
<1>22. ASSUME NEW is \in SUBSET SysAlarms, System!ClearInt(is) PROVE SysKept
  <2> DEFINE raw == g.intRaw \ is
             h == [g EXCEPT !.intRaw = raw]
  <2>1. st' = System!UpdateIrqs(h) /\ System!Sync
    BY <1>22 DEF System!ClearInt, g
  <2>2. raw \in SUBSET SysAlarms
    BY <1>4
  <2> HIDE DEF raw
  <2>3. h \in System!StType /\ h.alarm = g.alarm /\ h.counter = g.counter
    BY <1>3, <2>2 DEF System!StType
  <2> HIDE DEF h, SysKept
  <2> QED BY <1>11, <1>20, <2>1, <2>3
<1>23. ASSUME NEW clk \in BOOLEAN, NEW reset \in BOOLEAN,
              System!SetSystemState(clk, reset)
       PROVE  SysKept
  <2> DEFINE s == IF reset /\ ~g.resetAsserted THEN System!ResetRegisters(g) ELSE g
             h == [s EXCEPT !.clockEnabled = clk, !.resetAsserted = reset]
  <2>1. st' = h /\ System!Sync
    BY <1>23 DEF System!SetSystemState, g
  <2>2. NoneDue(System!ResetRegisters(g))
    <3>1. /\ g = [counter |-> g.counter, alarm |-> g.alarm, rem |-> g.rem,
                  intEnable |-> g.intEnable, intRaw |-> g.intRaw, level |-> g.level,
                  clockEnabled |-> g.clockEnabled, resetAsserted |-> g.resetAsserted]
          /\ g.clockEnabled \in BOOLEAN /\ g.resetAsserted \in BOOLEAN
      BY <1>3 DEF System!StType
    <3> QED BY <3>1, SysReset
  <2>3. NoneDue(s)
    BY <1>2, <2>2
  <2> HIDE DEF s
  <2>4. h \in System!StType /\ h.alarm = s.alarm /\ h.counter = s.counter
    BY <2>3 DEF NoneDue, System!StType
  <2> HIDE DEF h
  <2>5. NoneDue(h)
    BY <2>3, <2>4, SameDue DEF NoneDue
  <2> HIDE DEF SysKept
  <2> QED BY <1>11, <2>1, <2>5
<1>24. SysKept
  <2> HIDE DEF SysKept
  <2> QED BY <1>12, <1>13, <1>14, <1>15, <1>16, <1>17, <1>18, <1>19, <1>21, <1>22,
             <1>23 DEF System!Next
<1> QED BY <1>24 DEF SysInv, NoneDue, System!TypeOK

-----------------------------------------------------------------------------
(* What the hardware timers keep.                                          *)

OnGroup == service \in {"timer", "watchdog"}
GroupInv == OnGroup => Group!TypeOK /\ PhasesOK(group)
HwInv == GroupInv /\ (service = "system" => SysInv)

\* The inductive invariant of the hardware timers: the types, tick fractions
\* that fit their dividers, and no comparator of the system timer due
\* (timer_group.c, systimer.c).
THEOREM HwInvariant == ServicesSpec => []HwInv
<1>0. Group!TimerGroupAssumption /\ System!SystimerAssumption
  BY ServicesAssumption DEF ServicesAssumption
<1>1. HwInit => HwInv
  <2> SUFFICES ASSUME HwInit PROVE HwInv
    OBVIOUS
  <2>1. ASSUME OnGroup PROVE Group!TypeOK /\ PhasesOK(group)
    <3>1. Group!Start(TimerCores) \/ Group!Start(WdtCores)
      BY <2>1 DEF HwInit, OnGroup
    <3>2. Group!TypeOK
      BY <1>0, <3>1, GroupStart
    <3>3. PhasesOK(group)
      BY <1>0, <3>1, ResetPhases DEF Group!Start
    <3> QED BY <3>2, <3>3
  <2>2. ASSUME service = "system" PROVE SysInv
    <3>1. System!Init
      BY <2>2 DEF HwInit
    <3> QED BY <1>0, <3>1, SysStart
  <2> QED BY <2>1, <2>2 DEF HwInv, GroupInv
<1>2. HwInv /\ [HwNext]_timersVars => HwInv'
  <2> SUFFICES ASSUME HwInv, [HwNext]_timersVars PROVE HwInv'
    OBVIOUS
  <2>1. service' = service
    BY DEF HwNext, timersVars
  <2>2. ASSUME OnGroup PROVE Group!TypeOK' /\ PhasesOK(group)'
    <3>1. Group!TypeOK /\ PhasesOK(group)
      BY <2>2 DEF HwInv, GroupInv
    <3>2. CASE HwNext
      <4>1. Group!Next
        BY <2>2, <3>2 DEF HwNext, OnGroup, Group!Next
      <4> QED BY <1>0, <3>1, <4>1, GroupStep
    <3>3. CASE UNCHANGED timersVars
      <4>1. group' = group /\ unseen' = unseen /\ lag' = lag
        BY <3>3 DEF timersVars, hwVars
      <4>2. Group!TypeOK'
        BY <3>1, <4>1 DEF Group!TypeOK, Group!Attached
      <4> QED BY <3>1, <4>1, <4>2 DEF PhasesOK
    <3> QED BY <3>2, <3>3
  <2>3. ASSUME service = "system" PROVE SysInv'
    <3>1. SysInv
      BY <2>3 DEF HwInv
    <3>2. CASE HwNext
      <4>1. System!Next
        BY <2>3, <3>2 DEF HwNext
      <4> QED BY <1>0, <3>1, <4>1, SysStep
    <3>3. CASE UNCHANGED timersVars
      <4>1. st' = st /\ unseen' = unseen
        BY <3>3 DEF timersVars, hwVars
      <4> QED BY <3>1, <4>1 DEF SysInv, System!TypeOK, System!Due, System!Armed
    <3> QED BY <3>2, <3>3
  <2> QED BY <2>1, <2>2, <2>3 DEF HwInv, GroupInv, OnGroup
<1>3. ServicesInit => HwInv
  BY <1>1 DEF ServicesInit, TimersInit, HwInv, GroupInv, OnGroup
<1>4. HwInv /\ [ServicesNext]_timersVars => HwInv'
  <2>1. TimersNext => service' = service /\ service \in {"frt", "esp", "delay"}
    BY DEF TimersNext, FrtStep, EspStep, DelayStep
  <2>2. TimersNext => HwInv'
    BY <2>1 DEF HwInv, GroupInv, OnGroup
  <2> QED BY <1>2, <2>2 DEF ServicesNext
<1> QED BY <1>3, <1>4, PTL DEF ServicesSpec

\* SyncIsAdditive: a register access in the middle of an interval leaves the
\* counters, alarms, watchdog stages, lines and reset requests of a timer group
\* at its end as they would be without it (timer_group_sync).
THEOREM TimersSync == ServicesSpec => []SyncIsAdditive
<1>1. HwInv => SyncIsAdditive
  <2> SUFFICES ASSUME HwInv, OnGroup PROVE Group!TypeOK /\ Group!SyncIsAdditive
    BY DEF SyncIsAdditive, OnGroup
  <2>1. Group!TypeOK /\ group \in Group!GroupType
    BY DEF HwInv, GroupInv, Group!TypeOK
  <2>2. Group!TimerGroupAssumption /\ GroupRun \in Nat
    BY ServicesAssumption DEF ServicesAssumption, Group!TimerGroupAssumption
  <2>3. ASSUME NEW a \in 1..(GroupRun + 1), NEW b \in 1..(GroupRun + 1)
        PROVE  Group!Visible(Group!Elapse(Group!Elapse(group, a), b))
                 = Group!Visible(Group!Elapse(group, a + b))
    <3>1. a \in Nat \ {0} /\ b \in Nat \ {0}
      BY <2>2
    <3> QED BY <2>1, <2>2, <3>1, ElapseAdds
  <2> QED BY <2>1, <2>3 DEF Group!SyncIsAdditive
<1> QED BY <1>1, HwInvariant, PTL

\* AlarmsExact: the deadline a timer group gives the event scheduler is the
\* first cycle at which an alarm or a watchdog stage happens, and that of the
\* system timer one at which its soonest comparator goes off, late by no more
\* than the fraction of a tick already counted; no comparator is left due
\* (timer_group_next_event, flexe_systimer_next_event).
THEOREM AlarmsOnDeadline == ServicesSpec => []AlarmsExact
<1>1. HwInv => AlarmsExact
  <2> SUFFICES ASSUME HwInv PROVE AlarmsExact
    OBVIOUS
  <2>0. Group!TimerGroupAssumption /\ System!SystimerAssumption
    BY ServicesAssumption DEF ServicesAssumption
  <2>1. ASSUME service \in {"timer", "watchdog"} PROVE Group!DeadlineExact
    <3>1. Group!TypeOK /\ PhasesOK(group)
      BY <2>1 DEF HwInv, GroupInv, OnGroup
    <3> QED BY <2>0, <3>1, DeadlineIsExact
  <2>2. ASSUME service = "system" PROVE System!TypeOK /\ System!AlarmsServed
    <3> DEFINE g == System!Now
               E == System!NextEvents(g)
               c == System!Min(E)
    <3>1. SysInv
      BY <2>2 DEF HwInv
    <3>2. /\ st \in System!StType /\ unseen \in Nat
          /\ \A i \in SysAlarms : ~System!Due(st, i)
      BY <2>0, <3>1, SysSizes DEF SysInv, System!TypeOK
    <3>3. g \in System!StType /\ \A i \in SysAlarms : ~System!Due(g, i)
      BY <2>0, <3>2, SysElapsed DEF System!Now
    <3>4. ASSUME E # {}
          PROVE  /\ System!GoesOff(g, c)
                 /\ c > System!MostLate => ~System!GoesOff(g, c - System!MostLate - 1)
      <4> HIDE DEF g
      <4> QED BY <2>0, <3>3, <3>4, SysDeadline
    <3> QED BY <3>1, <3>2, <3>4 DEF SysInv, System!AlarmsServed
  <2> QED BY <2>1, <2>2 DEF AlarmsExact
<1> QED BY <1>1, HwInvariant, PTL

-----------------------------------------------------------------------------
(* The flash MMU (FlashMmu), for any entries and any flash pages.          *)

CONSTANTS MmuCores, MmuData, MmuCode, MmuPhys, MmuBeyond, MmuVersions
VARIABLE mmu

Mmu == INSTANCE FlashMmu WITH
    Cores <- MmuCores, DataEntries <- MmuData, CodeEntries <- MmuCode,
    Phys <- MmuPhys, Beyond <- MmuBeyond, MaxVersions <- MmuVersions, dev <- mmu

\* What a translation remembers: the page it was made from, in its version.
Translations == (MmuPhys \X Nat) \union {Mmu!Unmapped}

MmuState ==
    [shared    : BOOLEAN,
     own       : [MmuCores -> [Mmu!Entries -> Mmu!Values]],
     effective : [Mmu!Entries -> Mmu!Values \union {Mmu!Loader}],
     page      : [Mmu!Entries -> MmuPhys \union {Mmu!Unmapped, Mmu!Loader}],
     version   : [MmuPhys -> 0 .. MmuVersions],
     code      : [MmuCode -> Translations]]

\* The page table shows the value that was applied to it last.
Applied(s, e) ==
    s.page[e] = IF s.effective[e] = Mmu!Loader THEN Mmu!Loader
                ELSE Mmu!Mapping(s.effective[e])

\* The value applied is one that some core asked for, Invalid only if none did; the
\* loader's mapping lasts as long as no core has written the entry.
Honoured(s, e) ==
    IF s.shared THEN s.effective[e] # Mmu!Loader
    ELSE s.effective[e] # Mmu!Loader =>
           IF \A c \in MmuCores : s.own[c][e] = Mmu!Invalid
           THEN s.effective[e] = Mmu!Invalid
           ELSE \E c \in MmuCores : /\ s.own[c][e] # Mmu!Invalid
                                    /\ s.effective[e] = s.own[c][e]

\* A translation is of the page its entry shows, in its present version.
Current(s, e) ==
    s.code[e] # Mmu!Unmapped =>
        /\ s.page[e] \in MmuPhys
        /\ s.code[e] = <<s.page[e], s.version[s.page[e]]>>

\* Every page is its value's, and every translation current.
Coherent(s) ==
    /\ s \in MmuState
    /\ \A f \in Mmu!Entries : Applied(s, f)
    /\ \A f \in MmuCode : Current(s, f)

MmuInv == Coherent(mmu) /\ \A e \in Mmu!Entries : Honoured(mmu, e)

\* The names of the other states of an entry are no pages.
LEMMA MmuNames ==
    ASSUME Mmu!FlashMmuAssumption
    PROVE  /\ Mmu!Loader \notin Mmu!Values /\ Mmu!Unmapped \notin MmuPhys
           /\ Mmu!Loader \notin MmuPhys /\ Mmu!Invalid \notin MmuPhys
           /\ Mmu!Unmapped # Mmu!Loader
           /\ Mmu!Invalid \in Mmu!Values /\ MmuCode \subseteq Mmu!Entries
           /\ MmuPhys \subseteq Mmu!Values
           /\ \A v : Mmu!Mapping(v) \in MmuPhys \union {Mmu!Unmapped}
           /\ \A v : Mmu!Mapping(v) \in MmuPhys => Mmu!Mapping(v) = v
BY DEF Mmu!FlashMmuAssumption, Mmu!Values, Mmu!Loader, Mmu!Unmapped, Mmu!Invalid, Mmu!Mapping,
       Mmu!Entries

\* There are two cores, and each has the other.
LEMMA MmuOther ==
    ASSUME Mmu!FlashMmuAssumption, NEW c \in MmuCores
    PROVE  Mmu!Other(c) \in MmuCores /\ Mmu!Other(c) # c /\ MmuCores = {c, Mmu!Other(c)}
<1>1. PICK a \in MmuCores, b \in MmuCores : a # b /\ MmuCores = {a, b}
  BY DEF Mmu!FlashMmuAssumption
<1>2. \E d \in MmuCores : d # c
  BY <1>1
<1>3. Mmu!Other(c) \in MmuCores /\ Mmu!Other(c) # c
  BY <1>2 DEF Mmu!Other
<1> QED BY <1>1, <1>3

\* The entry takes the value, and the page table follows.
TakeValue(s, e, v) == Mmu!ApplyEntry([s EXCEPT !.effective[e] = v], e, v)

\* z is s with the value v taken by the entry e, and by no other.
Taken(z, s, e, v) ==
    /\ z \in MmuState
    /\ z.shared = s.shared /\ z.own = s.own /\ z.version = s.version
    /\ z.effective[e] = v /\ z.page[e] = Mmu!Mapping(v)
    /\ \A f \in Mmu!Entries \ {e} :
         z.effective[f] = s.effective[f] /\ z.page[f] = s.page[f]
    /\ \A f \in MmuCode : z.code[f] = IF f = e THEN Mmu!Unmapped ELSE s.code[f]

LEMMA AppliedEntry ==
    ASSUME Mmu!FlashMmuAssumption, NEW s \in MmuState, NEW e \in Mmu!Entries,
           NEW v \in Mmu!Values, NEW z, z = TakeValue(s, e, v)
    PROVE  Taken(z, s, e, v)
<1> DEFINE ef == [s.effective EXCEPT ![e] = v]
           pg == [s.page EXCEPT ![e] = Mmu!Mapping(v)]
           cd == [f \in MmuCode |-> IF f \in {e} \intersect MmuCode THEN Mmu!Unmapped
                                    ELSE s.code[f]]
<1>1. z = [s EXCEPT !.effective = ef, !.page = pg, !.code = cd]
  BY DEF TakeValue, Mmu!ApplyEntry, Mmu!InvalidateCode, MmuState
<1>2. ef \in [Mmu!Entries -> Mmu!Values \union {Mmu!Loader}]
  BY DEF MmuState
<1>3. pg \in [Mmu!Entries -> MmuPhys \union {Mmu!Unmapped, Mmu!Loader}]
  BY MmuNames DEF MmuState
<1>4. cd \in [MmuCode -> Translations]
  BY DEF MmuState, Translations
<1>5. /\ ef[e] = v /\ pg[e] = Mmu!Mapping(v)
      /\ \A f \in Mmu!Entries \ {e} : ef[f] = s.effective[f] /\ pg[f] = s.page[f]
      /\ \A f \in MmuCode : cd[f] = IF f = e THEN Mmu!Unmapped ELSE s.code[f]
  BY DEF MmuState
<1> HIDE DEF ef, pg, cd
<1>6. z \in MmuState
  BY <1>1, <1>2, <1>3, <1>4 DEF MmuState
<1>7. /\ z.shared = s.shared /\ z.own = s.own /\ z.version = s.version
      /\ z.effective = ef /\ z.page = pg /\ z.code = cd
  BY <1>1 DEF MmuState
<1> QED BY <1>5, <1>6, <1>7 DEF Taken

\* Taking a value keeps it so.
LEMMA AppliedKept ==
    ASSUME Mmu!FlashMmuAssumption, NEW s, Coherent(s), NEW e \in Mmu!Entries,
           NEW v \in Mmu!Values, NEW z, Taken(z, s, e, v)
    PROVE  Coherent(z)
<1>1. ASSUME NEW f \in Mmu!Entries PROVE Applied(z, f)
  <2>1. CASE f = e
    BY <2>1, MmuNames DEF Applied, Taken
  <2>2. CASE f # e
    BY <2>2 DEF Applied, Taken, Coherent
  <2> QED BY <2>1, <2>2
<1>2. ASSUME NEW f \in MmuCode PROVE Current(z, f)
  <2>1. CASE f = e
    BY <2>1 DEF Current, Taken
  <2>2. CASE f # e
    BY <2>2, MmuNames DEF Current, Taken, Coherent
  <2> QED BY <2>1, <2>2
<1> QED BY <1>1, <1>2 DEF Coherent, Taken

LEMMA MmuInitOK ==
    ASSUME Mmu!FlashMmuAssumption, Mmu!Init
    PROVE  MmuInv
<1>1. PICK shared \in BOOLEAN :
        mmu = [shared    |-> shared,
               own       |-> [c \in MmuCores |-> [e \in Mmu!Entries |-> Mmu!Invalid]],
               effective |-> [e \in Mmu!Entries |->
                                IF shared THEN Mmu!Invalid ELSE Mmu!Loader],
               page      |-> [e \in Mmu!Entries |->
                                IF shared THEN Mmu!Unmapped ELSE Mmu!Loader],
               version   |-> [p \in MmuPhys |-> 0],
               code      |-> [e \in MmuCode |-> Mmu!Unmapped]]
  BY DEF Mmu!Init
<1>2. mmu \in MmuState
  BY <1>1, MmuNames DEF MmuState, Translations, Mmu!FlashMmuAssumption
<1>3. ASSUME NEW e \in Mmu!Entries PROVE Applied(mmu, e) /\ Honoured(mmu, e)
  BY <1>1, MmuNames DEF Applied, Honoured, Mmu!Mapping
<1>4. ASSUME NEW e \in MmuCode PROVE Current(mmu, e)
  BY <1>1 DEF Current
<1> QED BY <1>2, <1>3, <1>4 DEF Coherent, MmuInv

LEMMA MmuWriteEntry ==
    ASSUME Mmu!FlashMmuAssumption, MmuInv, NEW c \in MmuCores, NEW e \in Mmu!Entries,
           NEW v \in Mmu!Values, Mmu!WriteEntry(c, e, v)
    PROVE  MmuInv'
<1> DEFINE d      == Mmu!Other(c)
           other  == mmu.own[d][e]
           chosen == IF v = Mmu!Invalid /\ other # Mmu!Invalid THEN other ELSE v
           o      == [mmu.own EXCEPT ![c][e] = v]
           s      == [mmu EXCEPT !.own = o]
<1>1. d \in MmuCores /\ d # c /\ MmuCores = {c, d}
  BY MmuOther
<1>2. /\ mmu \in MmuState /\ ~mmu.shared
      /\ mmu' = IF mmu.effective[e] = chosen THEN s
                ELSE Mmu!ApplyEntry([s EXCEPT !.effective[e] = chosen], e, chosen)
  BY DEF Mmu!WriteEntry, Coherent, MmuInv, MmuState
<1>3. other \in Mmu!Values /\ chosen \in Mmu!Values
  BY <1>1, <1>2 DEF MmuState
<1>4. /\ o \in [MmuCores -> [Mmu!Entries -> Mmu!Values]]
      /\ o[c][e] = v /\ o[d][e] = other
      /\ \A f \in Mmu!Entries \ {e} : o[c][f] = mmu.own[c][f] /\ o[d][f] = mmu.own[d][f]
  BY <1>1, <1>2 DEF MmuState
<1>5. /\ v = Mmu!Invalid /\ other = Mmu!Invalid => chosen = Mmu!Invalid
      /\ chosen = v \/ chosen = other
      /\ v # Mmu!Invalid \/ other # Mmu!Invalid => chosen # Mmu!Invalid
  OBVIOUS
<1> HIDE DEF d, other, chosen, o
<1>6. /\ s \in MmuState /\ s.shared = mmu.shared /\ s.own = o /\ s.version = mmu.version
      /\ s.effective = mmu.effective /\ s.page = mmu.page /\ s.code = mmu.code
  BY <1>2, <1>4 DEF MmuState
<1>7. /\ Coherent(mmu') /\ ~mmu'.shared /\ mmu'.own = o /\ mmu'.effective[e] = chosen
      /\ \A f \in Mmu!Entries \ {e} : mmu'.effective[f] = mmu.effective[f]
  <2>1. CASE mmu.effective[e] = chosen
    <3>1. mmu' = s
      BY <1>2, <2>1
    <3> HIDE DEF s
    <3>2. \A f \in Mmu!Entries : Applied(mmu', f)
      BY <1>6, <3>1 DEF Applied, Coherent, MmuInv
    <3>3. \A f \in MmuCode : Current(mmu', f)
      BY <1>6, <3>1 DEF Current, Coherent, MmuInv
    <3> QED BY <1>2, <1>6, <2>1, <3>1, <3>2, <3>3 DEF Coherent
  <2>2. CASE mmu.effective[e] # chosen
    <3>1. mmu' = TakeValue(s, e, chosen)
      BY <1>2, <2>2 DEF TakeValue
    <3> HIDE DEF s
    <3>2. Taken(mmu', s, e, chosen)
      BY <1>3, <1>6, <3>1, AppliedEntry
    <3>3. \A f \in Mmu!Entries : Applied(s, f)
      BY <1>6 DEF Applied, Coherent, MmuInv
    <3>4. \A f \in MmuCode : Current(s, f)
      BY <1>6 DEF Current, Coherent, MmuInv
    <3>5. Coherent(mmu')
      BY <1>3, <1>6, <3>2, <3>3, <3>4, AppliedKept DEF Coherent
    <3> QED BY <1>2, <1>6, <3>2, <3>5 DEF Taken
  <2> QED BY <2>1, <2>2
<1>8. ASSUME NEW f \in Mmu!Entries PROVE Honoured(mmu', f)
  <2>1. CASE f = e
    BY <1>1, <1>4, <1>5, <1>7, <2>1 DEF Honoured
  <2>2. CASE f # e
    <3>1. Honoured(mmu, f) /\ mmu'.effective[f] = mmu.effective[f]
      BY <1>7, <2>2 DEF Coherent, MmuInv
    <3>2. \A k \in MmuCores : mmu'.own[k][f] = mmu.own[k][f]
      BY <1>1, <1>4, <1>7, <2>2
    <3> QED BY <1>2, <1>7, <3>1, <3>2 DEF Honoured
  <2> QED BY <2>1, <2>2
<1> QED BY <1>7, <1>8 DEF Coherent, MmuInv

LEMMA MmuWriteShared ==
    ASSUME Mmu!FlashMmuAssumption, MmuInv, NEW e \in Mmu!Entries, NEW v \in Mmu!Values,
           Mmu!WriteShared(e, v)
    PROVE  MmuInv'
<1>1. mmu \in MmuState /\ mmu.shared
  BY DEF Mmu!WriteShared, Coherent, MmuInv, MmuState
<1>2. CASE mmu.effective[e] = v
  BY <1>2 DEF Mmu!WriteShared, Coherent, MmuInv
<1>3. CASE mmu.effective[e] # v
  <2>1. mmu' = TakeValue(mmu, e, v)
    BY <1>1, <1>3 DEF Mmu!WriteShared, TakeValue
  <2>2. Taken(mmu', mmu, e, v)
    BY <1>1, <2>1, AppliedEntry
  <2>3. Coherent(mmu')
    BY <2>2, AppliedKept DEF MmuInv
  <2>4. ASSUME NEW f \in Mmu!Entries PROVE Honoured(mmu', f)
    BY <1>1, <2>2, MmuNames DEF Taken, Honoured, MmuInv
  <2> QED BY <2>3, <2>4 DEF MmuInv
<1> QED BY <1>2, <1>3

LEMMA MmuFlashChanged ==
    ASSUME Mmu!FlashMmuAssumption, MmuInv, NEW p \in MmuPhys, Mmu!FlashChanged(p)
    PROVE  MmuInv'
<1> DEFINE ver == [mmu.version EXCEPT ![p] = @ + 1]
           cd  == [f \in MmuCode |->
                     IF f \in {g \in MmuCode : mmu.effective[g] = p} THEN Mmu!Unmapped
                     ELSE mmu.code[f]]
<1>1. mmu \in MmuState /\ mmu' = [mmu EXCEPT !.version = ver, !.code = cd]
  BY DEF Mmu!FlashChanged, Mmu!InvalidateCode, Coherent, MmuInv, MmuState
<1>2. ver \in [MmuPhys -> 0 .. MmuVersions] /\ \A q \in MmuPhys \ {p} : ver[q] = mmu.version[q]
  BY <1>1 DEF Mmu!FlashChanged, MmuState, Mmu!FlashMmuAssumption
<1>3. /\ cd \in [MmuCode -> Translations]
      /\ \A f \in MmuCode : cd[f] = IF mmu.effective[f] = p THEN Mmu!Unmapped ELSE mmu.code[f]
  BY <1>1 DEF MmuState, Translations
<1> HIDE DEF ver, cd
<1>4. /\ mmu' \in MmuState /\ mmu'.shared = mmu.shared /\ mmu'.own = mmu.own
      /\ mmu'.effective = mmu.effective /\ mmu'.page = mmu.page
      /\ mmu'.version = ver /\ mmu'.code = cd
  BY <1>1, <1>2, <1>3 DEF MmuState
<1>5. ASSUME NEW f \in Mmu!Entries PROVE Applied(mmu', f) /\ Honoured(mmu', f)
  BY <1>4 DEF Applied, Honoured, Coherent, MmuInv
<1>6. ASSUME NEW f \in MmuCode PROVE Current(mmu', f)
  <2>1. Current(mmu, f) /\ Applied(mmu, f) /\ f \in Mmu!Entries
    BY MmuNames DEF Coherent, MmuInv
  <2>2. CASE mmu.effective[f] = p
    BY <1>3, <1>4, <2>2 DEF Current
  <2>3. CASE mmu.effective[f] # p
    <3>1. mmu.page[f] # p
      BY <2>1, <2>3, MmuNames DEF Applied
    <3> QED BY <1>2, <1>3, <1>4, <2>1, <2>3, <3>1 DEF Current
  <2> QED BY <2>2, <2>3
<1> QED BY <1>4, <1>5, <1>6 DEF Coherent, MmuInv

LEMMA MmuExecute ==
    ASSUME Mmu!FlashMmuAssumption, MmuInv, NEW e \in MmuCode, Mmu!Execute(e)
    PROVE  MmuInv'
<1> DEFINE t  == <<mmu.page[e], mmu.version[mmu.page[e]]>>
           cd == [mmu.code EXCEPT ![e] = t]
<1>1. mmu \in MmuState /\ mmu.page[e] \in MmuPhys /\ mmu' = [mmu EXCEPT !.code = cd]
  BY DEF Mmu!Execute, Coherent, MmuInv, MmuState
<1>2. t \in Translations
  BY <1>1 DEF Translations, MmuState, Mmu!FlashMmuAssumption
<1>3. cd \in [MmuCode -> Translations] /\ cd[e] = t /\ \A f \in MmuCode \ {e} : cd[f] = mmu.code[f]
  <2> HIDE DEF t
  <2> QED BY <1>1, <1>2 DEF MmuState
<1> HIDE DEF cd
<1>4. /\ mmu' \in MmuState /\ mmu'.shared = mmu.shared /\ mmu'.own = mmu.own
      /\ mmu'.effective = mmu.effective /\ mmu'.page = mmu.page
      /\ mmu'.version = mmu.version /\ mmu'.code = cd
  BY <1>1, <1>3 DEF MmuState
<1>5. ASSUME NEW f \in Mmu!Entries PROVE Applied(mmu', f) /\ Honoured(mmu', f)
  BY <1>4 DEF Applied, Honoured, Coherent, MmuInv
<1>6. ASSUME NEW f \in MmuCode PROVE Current(mmu', f)
  BY <1>1, <1>3, <1>4 DEF Current, Coherent, MmuInv
<1> QED BY <1>4, <1>5, <1>6 DEF Coherent, MmuInv

\* What the invariant says in the words of the component.
LEMMA MmuInvSays ==
    ASSUME Mmu!FlashMmuAssumption, MmuInv
    PROVE  Mmu!TypeOK /\ Mmu!MappingsHonoured /\ Mmu!NoStaleCode
<1>1. mmu \in MmuState
  BY DEF Coherent, MmuInv
<1>2. Mmu!TypeOK
  BY <1>1 DEF MmuState, Mmu!TypeOK
<1>3. Mmu!NoStaleCode
  BY DEF Coherent, MmuInv, Current, Mmu!NoStaleCode
<1>4. ASSUME NEW e \in Mmu!Entries
      PROVE  /\ mmu.shared => mmu.page[e] = Mmu!Mapping(mmu.effective[e])
             /\ ~mmu.shared /\ mmu.page[e] # Mmu!Loader =>
                  LET wanted == {mmu.own[c][e] : c \in MmuCores} \ {Mmu!Invalid}
                  IN  IF wanted = {} THEN mmu.page[e] = Mmu!Unmapped
                      ELSE mmu.page[e] \in {Mmu!Mapping(v) : v \in wanted}
  <2>1. Applied(mmu, e) /\ Honoured(mmu, e)
    BY DEF Coherent, MmuInv
  <2>2. Mmu!Mapping(Mmu!Invalid) = Mmu!Unmapped
    BY MmuNames DEF Mmu!Mapping
  <2> DEFINE wanted == {mmu.own[c][e] : c \in MmuCores} \ {Mmu!Invalid}
  <2>3. wanted = {} <=> \A c \in MmuCores : mmu.own[c][e] = Mmu!Invalid
    OBVIOUS
  <2>4. \A c \in MmuCores : mmu.own[c][e] # Mmu!Invalid => mmu.own[c][e] \in wanted
    OBVIOUS
  <2> HIDE DEF wanted
  <2>5. mmu.shared => mmu.page[e] = Mmu!Mapping(mmu.effective[e])
    BY <2>1 DEF Applied, Honoured
  <2>6. ASSUME ~mmu.shared, mmu.page[e] # Mmu!Loader
        PROVE  IF wanted = {} THEN mmu.page[e] = Mmu!Unmapped
               ELSE mmu.page[e] \in {Mmu!Mapping(v) : v \in wanted}
    <3>1. mmu.effective[e] # Mmu!Loader /\ mmu.page[e] = Mmu!Mapping(mmu.effective[e])
      BY <2>1, <2>6 DEF Applied
    <3>2. CASE wanted = {}
      BY <2>1, <2>2, <2>3, <2>6, <3>1, <3>2 DEF Honoured
    <3>3. CASE wanted # {}
      <4>1. mmu.effective[e] \in wanted
        BY <2>1, <2>3, <2>4, <2>6, <3>1, <3>3 DEF Honoured
      <4> QED BY <3>1, <3>3, <4>1
    <3> QED BY <3>2, <3>3
  <2> QED BY <2>5, <2>6 DEF wanted
<1>5. Mmu!MappingsHonoured
  BY <1>4 DEF Mmu!MappingsHonoured
<1> QED BY <1>2, <1>3, <1>5

\* flash_mmu_write_entry, flash_mmu_apply_entry and periph_flash_changed: whatever two cores
\* write to their tables, and whatever pages are programmed while code runs from them, the
\* page table shows what some core asked for, and no translation outlives its bytes.
THEOREM FlashMmuInvariant ==
    ASSUME Mmu!FlashMmuAssumption
    PROVE  Mmu!Spec => [](Mmu!TypeOK /\ Mmu!MappingsHonoured /\ Mmu!NoStaleCode)
<1>1. Mmu!Init => MmuInv
  BY MmuInitOK
<1>2. MmuInv /\ [Mmu!Next]_mmu => MmuInv'
  <2> SUFFICES ASSUME MmuInv, [Mmu!Next]_mmu PROVE MmuInv'
    OBVIOUS
  <2>1. CASE UNCHANGED mmu
    BY <2>1 DEF Coherent, MmuInv
  <2>2. ASSUME NEW c \in MmuCores, NEW e \in Mmu!Entries, NEW v \in Mmu!Values,
               Mmu!WriteEntry(c, e, v)
        PROVE  MmuInv'
    BY <2>2, MmuWriteEntry
  <2>3. ASSUME NEW e \in Mmu!Entries, NEW v \in Mmu!Values, Mmu!WriteShared(e, v)
        PROVE  MmuInv'
    BY <2>3, MmuWriteShared
  <2>4. ASSUME NEW p \in MmuPhys, Mmu!FlashChanged(p) PROVE MmuInv'
    BY <2>4, MmuFlashChanged
  <2>5. ASSUME NEW e \in MmuCode, Mmu!Execute(e) PROVE MmuInv'
    BY <2>5, MmuExecute
  <2> QED BY <2>1, <2>2, <2>3, <2>4, <2>5 DEF Mmu!Next
<1>3. MmuInv => Mmu!TypeOK /\ Mmu!MappingsHonoured /\ Mmu!NoStaleCode
  BY MmuInvSays
<1> QED BY <1>1, <1>2, <1>3, PTL DEF Mmu!Spec

-----------------------------------------------------------------------------
(* Savestates (Savestate), for any number of checkpoints and any geometry. *)

CONSTANTS SnapEpochs, SnapGeometries, SnapInterval, SnapSlots
VARIABLE snap

Snapshot == INSTANCE Savestate WITH
    MaxEpoch <- SnapEpochs, Geometries <- SnapGeometries, Interval <- SnapInterval,
    TaskSlots <- SnapSlots, dev <- snap

Epochs == 1 .. SnapEpochs

Machines ==
    [core0 : 0 .. SnapEpochs, core1 : Nat, memory : 0 .. SnapEpochs, frt : Nat,
     win : 0 .. 1, hazard : 0 .. 1, pending : BOOLEAN, irq_check : BOOLEAN,
     scheduler : BOOLEAN, idles : Nat, idle_ready : BOOLEAN, mixed : BOOLEAN]

\* What may stand in a file.
Headers == [is : {"header"}, geometry : SnapGeometries]
CoreParts == [is : {"core0"}, epoch : 0 .. SnapEpochs, win : 0 .. 1, pending : BOOLEAN]
MemoryParts == [is : {"memory"}, epoch : 0 .. SnapEpochs]
Markers == [is : {"marker"}, present : BOOLEAN]
Schedulers == [is : {"frt"}, epoch : Nat, idles : Nat, scheduler : BOOLEAN, mixed : BOOLEAN]
FileParts == Headers \union CoreParts \union MemoryParts \union Markers \union Schedulers

Snaps ==
    [phase : {"stopped", "running", "saving", "restoring"}, machine : Machines,
     geometry : SnapGeometries, stubs : BOOLEAN, files : [Epochs -> Seq(FileParts)],
     at : Epochs, done : 0 .. 5, due : Nat]

\* What stands at the place i of a file of the epoch e.
PartOf(p, i, e) ==
    /\ i = 1 => p \in Headers
    /\ i = 2 => p \in CoreParts /\ p.epoch = e
    /\ i = 3 => p \in MemoryParts /\ p.epoch = e
    /\ i = 4 => p \in Markers
    /\ i = 5 => p \in Schedulers /\ (~p.mixed => p.epoch = e)

\* A file of the epoch e, cut off wherever its writing ended.
FileOf(f, e) == Len(f) <= 5 /\ \A i \in 1 .. Len(f) : PartOf(f[i], i, e)

\* The parts of a machine that runs belong together.
Whole(m, stubs) ==
    m.core0 = m.memory /\ (stubs /\ ~m.mixed => m.frt = m.core0)

\* What has been read of the file is in the machine.
ReadBack(m, n, e) ==
    /\ n >= 2 => m.core0 = e
    /\ n >= 3 => m.memory = e
    /\ n >= 5 => (~m.mixed => m.frt = e)

SnapInv ==
    /\ snap \in Snaps
    /\ \A e \in Epochs : FileOf(snap.files[e], e)
    /\ snap.phase = "stopped" => snap.machine = Snapshot!Fresh
    /\ snap.phase \in {"running", "saving"} => Whole(snap.machine, snap.stubs)
    /\ snap.phase = "saving" => snap.at = snap.machine.core0
    /\ snap.phase = "restoring" =>
         /\ snap.done <= Len(snap.files[snap.at])
         /\ ReadBack(snap.machine, snap.done, snap.at)

LEMMA FreshMachine ==
    ASSUME Snapshot!SavestateAssumption
    PROVE  Snapshot!Fresh \in Machines /\ \A stubs \in BOOLEAN : Whole(Snapshot!Fresh, stubs)
BY DEF Snapshot!Fresh, Machines, Whole, Snapshot!SavestateAssumption

LEMMA SnapInitOK ==
    ASSUME Snapshot!SavestateAssumption, Snapshot!Init
    PROVE  SnapInv
<1>1. /\ 1 \in Epochs /\ 0 \in 0 .. 5 /\ SnapInterval \in Nat
      /\ [e \in Epochs |-> Snapshot!NoFile] \in [Epochs -> Seq(FileParts)]
      /\ Len(Snapshot!NoFile) = 0
  BY DEF Snapshot!SavestateAssumption, Epochs, Snapshot!NoFile
<1>2. /\ snap.phase = "stopped" /\ snap.machine = Snapshot!Fresh
      /\ snap.files = [e \in Epochs |-> Snapshot!NoFile]
  BY DEF Snapshot!Init, Epochs
<1>3. snap \in Snaps
  BY <1>1, FreshMachine DEF Snapshot!Init, Snaps, Epochs
<1>4. ASSUME NEW e \in Epochs PROVE FileOf(snap.files[e], e)
  BY <1>1, <1>2 DEF FileOf
<1> QED BY <1>2, <1>3, <1>4 DEF SnapInv

\* A step of the machine alone: nothing is read or written.
LEMMA MachineStep ==
    ASSUME SnapInv, snap.phase = "running", NEW m \in Machines, Whole(m, snap.stubs),
           snap' = [snap EXCEPT !.machine = m]
    PROVE  SnapInv'
<1>1. /\ snap' \in Snaps /\ snap'.phase = "running" /\ snap'.machine = m
      /\ snap'.stubs = snap.stubs /\ snap'.files = snap.files
  BY DEF SnapInv, Snaps
<1> QED BY <1>1 DEF SnapInv

LEMMA SnapRun ==
    ASSUME Snapshot!SavestateAssumption, SnapInv, Snapshot!Run
    PROVE  SnapInv'
<1>1. PICK win \in 0 .. 1 :
        LET m == snap.machine IN
        snap' = [snap EXCEPT !.machine =
                   [m EXCEPT !.core0 = m.core0 + 1, !.core1 = m.core1 + 1,
                             !.memory = m.memory + 1,
                             !.frt = IF snap.stubs THEN m.frt + 1 ELSE m.frt,
                             !.win = win,
                             !.hazard = IF win = m.win THEN m.hazard ELSE win]]
  BY DEF Snapshot!Run
<1> DEFINE m == snap.machine
           f == IF snap.stubs THEN m.frt + 1 ELSE m.frt
           h == IF win = m.win THEN m.hazard ELSE win
           a == m.core0 + 1
           b == m.core1 + 1
           c == m.memory + 1
           n == [m EXCEPT !.core0 = a, !.core1 = b, !.memory = c, !.frt = f,
                          !.win = win, !.hazard = h]
<1>2. snap \in Snaps /\ m \in Machines /\ snap.phase = "running" /\ m.core0 < SnapEpochs
  BY DEF SnapInv, Snaps, Snapshot!Run, Snapshot!Epoch
<1>3. snap' = [snap EXCEPT !.machine = n]
  BY <1>1, Zenon
<1>4. Whole(m, snap.stubs)
  BY <1>2 DEF SnapInv
<1>5. n \in Machines
  <2>1. a \in 0 .. SnapEpochs /\ b \in Nat /\ c \in 0 .. SnapEpochs /\ c = a
    BY <1>2, <1>4 DEF Machines, Whole, Snapshot!SavestateAssumption
  <2>2. f \in Nat /\ h \in 0 .. 1
    BY <1>2 DEF Machines
  <2> HIDE DEF a, b, c, f, h
  <2> QED BY <1>2, <2>1, <2>2 DEF Machines
<1>6. /\ n.core0 = m.core0 + 1 /\ n.memory = m.memory + 1 /\ n.mixed = m.mixed
      /\ n.frt = f
  <2>1. n.core0 = a /\ n.memory = c /\ n.mixed = m.mixed /\ n.frt = f
    <3> HIDE DEF a, b, c, f, h
    <3> QED BY <1>2 DEF Machines
  <2> QED BY <2>1
<1> HIDE DEF n
<1>7. Whole(n, snap.stubs)
  BY <1>4, <1>6 DEF Whole
<1> QED BY <1>2, <1>3, <1>5, <1>7, MachineStep

LEMMA SnapHousekeeping ==
    ASSUME Snapshot!SavestateAssumption, SnapInv,
           Snapshot!Schedule \/ Snapshot!Raise \/ Snapshot!Dispatch
    PROVE  SnapInv'
<1> DEFINE m == snap.machine
<1>1. /\ snap \in Snaps /\ m \in Machines /\ snap.phase = "running" /\ Whole(m, snap.stubs)
  BY DEF SnapInv, Snaps, Snapshot!Schedule, Snapshot!Raise, Snapshot!Dispatch
<1>2. PICK n \in Machines :
        /\ snap' = [snap EXCEPT !.machine = n]
        /\ n.core0 = m.core0 /\ n.memory = m.memory /\ n.frt = m.frt /\ n.mixed = m.mixed
  <2>1. CASE Snapshot!Schedule
    <3> DEFINE room == ~m.idle_ready /\ m.idles + 2 <= SnapSlots
               ready == m.idle_ready \/ room
               many == IF room THEN m.idles + 2 ELSE m.idles
               n == [m EXCEPT !.scheduler = TRUE, !.idle_ready = ready, !.idles = many]
    <3>1. snap' = [snap EXCEPT !.machine = n]
      BY <1>1, <2>1 DEF Snapshot!Schedule, Snaps, Machines
    <3>2. ready \in BOOLEAN /\ many \in Nat
      BY <1>1 DEF Machines
    <3> HIDE DEF ready, many, room
    <3>3. n \in Machines
      BY <1>1, <3>2 DEF Machines
    <3>4. n.core0 = m.core0 /\ n.memory = m.memory /\ n.frt = m.frt /\ n.mixed = m.mixed
      BY <1>1 DEF Machines
    <3> QED BY <3>1, <3>3, <3>4
  <2>2. CASE Snapshot!Raise
    <3> DEFINE n == [m EXCEPT !.pending = TRUE, !.irq_check = TRUE]
    <3>1. snap' = [snap EXCEPT !.machine = n]
      BY <1>1, <2>2 DEF Snapshot!Raise, Snaps, Machines
    <3>2. n \in Machines /\ n.core0 = m.core0 /\ n.memory = m.memory /\ n.frt = m.frt
          /\ n.mixed = m.mixed
      BY <1>1 DEF Machines
    <3> QED BY <3>1, <3>2
  <2>3. CASE Snapshot!Dispatch
    <3> DEFINE n == [m EXCEPT !.pending = FALSE, !.irq_check = FALSE]
    <3>1. snap' = [snap EXCEPT !.machine = n]
      BY <1>1, <2>3 DEF Snapshot!Dispatch, Snaps, Machines
    <3>2. n \in Machines /\ n.core0 = m.core0 /\ n.memory = m.memory /\ n.frt = m.frt
          /\ n.mixed = m.mixed
      BY <1>1 DEF Machines
    <3> QED BY <3>1, <3>2
  <2> QED BY <2>1, <2>2, <2>3
<1>3. Whole(n, snap.stubs)
  BY <1>1, <1>2 DEF Whole
<1> QED BY <1>1, <1>2, <1>3, MachineStep

LEMMA SnapStop ==
    ASSUME Snapshot!SavestateAssumption, SnapInv, Snapshot!Stop
    PROVE  SnapInv'
<1>1. snap' = [snap EXCEPT !.phase = "stopped", !.machine = Snapshot!Fresh, !.due = SnapInterval]
  BY DEF Snapshot!Stop
<1>2. /\ snap' \in Snaps /\ snap'.phase = "stopped" /\ snap'.machine = Snapshot!Fresh
      /\ snap'.files = snap.files
  BY <1>1, FreshMachine DEF SnapInv, Snaps, Snapshot!SavestateAssumption
<1> QED BY <1>2 DEF SnapInv

LEMMA SnapSaveBegin ==
    ASSUME Snapshot!SavestateAssumption, SnapInv, Snapshot!SaveBegin
    PROVE  SnapInv'
<1> DEFINE e  == snap.machine.core0
           fs == [snap.files EXCEPT ![e] = Snapshot!NoFile]
<1>1. /\ snap \in Snaps /\ snap.phase = "running" /\ e > 0 /\ Whole(snap.machine, snap.stubs)
      /\ snap' = [snap EXCEPT !.phase = "saving", !.at = e, !.files = fs]
  BY DEF Snapshot!SaveBegin, Snapshot!Epoch, SnapInv, Snaps
<1>2. e \in Epochs /\ Len(Snapshot!NoFile) = 0 /\ Snapshot!NoFile \in Seq(FileParts)
  BY <1>1 DEF Snaps, Machines, Epochs, Snapshot!NoFile, Snapshot!SavestateAssumption
<1>3. /\ fs \in [Epochs -> Seq(FileParts)] /\ fs[e] = Snapshot!NoFile
      /\ \A k \in Epochs \ {e} : fs[k] = snap.files[k]
  BY <1>1, <1>2 DEF Snaps
<1>4. ASSUME NEW k \in Epochs PROVE FileOf(fs[k], k)
  BY <1>2, <1>3 DEF FileOf, SnapInv
<1> HIDE DEF fs
<1>5. /\ snap' \in Snaps /\ snap'.phase = "saving" /\ snap'.at = e /\ snap'.files = fs
      /\ snap'.machine = snap.machine /\ snap'.stubs = snap.stubs
  BY <1>1, <1>2, <1>3 DEF Snaps
<1> QED BY <1>1, <1>4, <1>5 DEF SnapInv

\* What is written is of the machine's one epoch.
LEMMA ContentOfEpoch ==
    ASSUME SnapInv, snap.phase = "saving", NEW n \in 1 .. Snapshot!Last
    PROVE  /\ Snapshot!Content(Snapshot!Sections[n]) \in FileParts
           /\ PartOf(Snapshot!Content(Snapshot!Sections[n]), n, snap.at)
<1> DEFINE m == snap.machine
           p == Snapshot!Content(Snapshot!Sections[n])
<1>1. /\ snap \in Snaps /\ m \in Machines /\ Whole(m, snap.stubs) /\ snap.at = m.core0
      /\ n \in 1 .. 5 /\ (n = 5 => snap.stubs)
  BY DEF SnapInv, Snaps, Snapshot!Last
<1>2. CASE n = 1
  <2>1. p = [is |-> "header", geometry |-> snap.geometry]
    BY <1>2 DEF Snapshot!Content, Snapshot!Sections
  <2> QED BY <1>1, <1>2, <2>1 DEF Headers, FileParts, PartOf, Snaps
<1>3. CASE n = 2
  <2>1. p = [is |-> "core0", epoch |-> m.core0, win |-> m.win, pending |-> m.pending]
    BY <1>3 DEF Snapshot!Content, Snapshot!Sections
  <2>2. p \in CoreParts /\ p.epoch = snap.at
    BY <1>1, <2>1 DEF CoreParts, Machines
  <2> QED BY <1>3, <2>2 DEF FileParts, PartOf
<1>4. CASE n = 3
  <2>1. p = [is |-> "memory", epoch |-> m.memory]
    BY <1>4 DEF Snapshot!Content, Snapshot!Sections
  <2>2. p \in MemoryParts /\ p.epoch = snap.at
    BY <1>1, <2>1 DEF MemoryParts, Machines, Whole
  <2> QED BY <1>4, <2>2 DEF FileParts, PartOf
<1>5. CASE n = 4
  <2>1. p = [is |-> "marker", present |-> snap.stubs]
    BY <1>5 DEF Snapshot!Content, Snapshot!Sections
  <2>2. p \in Markers
    BY <1>1, <2>1 DEF Markers, Snaps
  <2> QED BY <1>5, <2>2 DEF FileParts, PartOf
<1>6. CASE n = 5
  <2>1. p = [is |-> "frt", epoch |-> m.frt, idles |-> m.idles,
             scheduler |-> m.scheduler, mixed |-> m.mixed]
    BY <1>6 DEF Snapshot!Content, Snapshot!Sections
  <2>2. p \in Schedulers /\ p.mixed = m.mixed /\ p.epoch = m.frt
    BY <1>1, <2>1 DEF Schedulers, Machines
  <2> QED BY <1>1, <1>6, <2>2 DEF FileParts, PartOf, Whole
<1> QED BY <1>1, <1>2, <1>3, <1>4, <1>5, <1>6

LEMMA SnapSaveSection ==
    ASSUME Snapshot!SavestateAssumption, SnapInv, Snapshot!SaveSection
    PROVE  SnapInv'
<1> DEFINE e  == snap.at
           f  == snap.files[e]
           n  == Len(f) + 1
           p  == Snapshot!Content(Snapshot!Sections[n])
           g  == Append(f, p)
           fs == [snap.files EXCEPT ![e] = g]
<1>1. /\ snap \in Snaps /\ snap.phase = "saving" /\ Len(f) < Snapshot!Last
      /\ snap' = [snap EXCEPT !.files = fs]
  BY DEF Snapshot!SaveSection, SnapInv, Snaps
<1>2. e \in Epochs /\ f \in Seq(FileParts) /\ FileOf(f, e)
  BY <1>1 DEF Snaps, SnapInv
<1>3. n \in 1 .. Snapshot!Last /\ n <= 5 /\ n = Len(f) + 1
  BY <1>1, <1>2 DEF Snapshot!Last
<1> HIDE DEF n
<1>4. p \in FileParts /\ PartOf(p, n, e)
  BY <1>1, <1>3, ContentOfEpoch
<1> HIDE DEF p
<1>5. g \in Seq(FileParts) /\ Len(g) = n /\ g[n] = p /\ \A i \in 1 .. Len(f) : g[i] = f[i]
  BY <1>2, <1>3, <1>4
<1> HIDE DEF g
<1>6. FileOf(g, e)
  BY <1>2, <1>3, <1>4, <1>5, SMTT(30) DEF FileOf
<1>7. /\ fs \in [Epochs -> Seq(FileParts)] /\ fs[e] = g
      /\ \A k \in Epochs \ {e} : fs[k] = snap.files[k]
  BY <1>1, <1>2, <1>5 DEF Snaps
<1>8. ASSUME NEW k \in Epochs PROVE FileOf(fs[k], k)
  BY <1>6, <1>7 DEF SnapInv
<1> HIDE DEF fs
<1>9. /\ snap' \in Snaps /\ snap'.phase = "saving" /\ snap'.at = e /\ snap'.files = fs
      /\ snap'.machine = snap.machine /\ snap'.stubs = snap.stubs
  BY <1>1, <1>7 DEF Snaps
<1> QED BY <1>1, <1>8, <1>9 DEF SnapInv

LEMMA SnapSaveEnd ==
    ASSUME Snapshot!SavestateAssumption, SnapInv, Snapshot!SaveEnd
    PROVE  SnapInv'
<1> DEFINE d == snap.due + SnapInterval
<1>1. snap' = [snap EXCEPT !.phase = "running", !.due = d]
      /\ snap.phase = "saving" /\ snap \in Snaps
  BY DEF Snapshot!SaveEnd, SnapInv, Snaps
<1>d. d \in Nat
  BY <1>1 DEF Snaps, Snapshot!SavestateAssumption
<1> HIDE DEF d
<1>2. /\ snap' \in Snaps /\ snap'.phase = "running" /\ snap'.machine = snap.machine
      /\ snap'.files = snap.files /\ snap'.stubs = snap.stubs
  BY <1>1, <1>d DEF Snaps
<1> QED BY <1>1, <1>2 DEF SnapInv

LEMMA SnapBoot ==
    ASSUME Snapshot!SavestateAssumption, SnapInv, Snapshot!Boot
    PROVE  SnapInv'
<1>1. snap \in Snaps /\ snap.phase = "stopped" /\ snap.machine = Snapshot!Fresh
  BY DEF Snapshot!Boot, SnapInv
<1>2. PICK g \in SnapGeometries, stubs \in BOOLEAN :
        \/ snap' = [snap EXCEPT !.phase = "running", !.geometry = g, !.stubs = stubs]
        \/ \E e \in 1 .. SnapEpochs :
             snap' = [snap EXCEPT !.phase = "restoring", !.at = e, !.done = 0,
                                  !.geometry = g, !.stubs = stubs]
  BY DEF Snapshot!Boot
<1>3. CASE snap' = [snap EXCEPT !.phase = "running", !.geometry = g, !.stubs = stubs]
  <2>1. /\ snap' \in Snaps /\ snap'.phase = "running" /\ snap'.machine = Snapshot!Fresh
        /\ snap'.files = snap.files /\ snap'.stubs = stubs
    BY <1>1, <1>3 DEF Snaps
  <2>2. Whole(Snapshot!Fresh, stubs)
    BY FreshMachine
  <2> QED BY <2>1, <2>2 DEF SnapInv
<1>4. ASSUME NEW e \in 1 .. SnapEpochs,
             snap' = [snap EXCEPT !.phase = "restoring", !.at = e, !.done = 0,
                                  !.geometry = g, !.stubs = stubs]
      PROVE  SnapInv'
  <2> DEFINE z == 0
  <2>a. z \in 0 .. 5 /\ e \in Epochs
    BY DEF Epochs
  <2>b. snap' = [snap EXCEPT !.phase = "restoring", !.at = e, !.done = z,
                             !.geometry = g, !.stubs = stubs]
    BY <1>4
  <2>c. z = 0
    OBVIOUS
  <2> HIDE DEF z
  <2>1. /\ snap' \in Snaps /\ snap'.phase = "restoring" /\ snap'.done = z /\ snap'.at = e
        /\ snap'.files = snap.files
    BY <1>1, <2>b, <2>a DEF Snaps
  <2>2. Len(snap'.files[e]) \in Nat
    BY <1>1, <2>1 DEF Snaps, Epochs
  <2> QED BY <2>1, <2>2, <2>c DEF SnapInv, ReadBack
<1> QED BY <1>2, <1>3, <1>4

LEMMA SnapRestoreFails ==
    ASSUME Snapshot!SavestateAssumption, SnapInv, Snapshot!RestoreFails
    PROVE  SnapInv'
<1>1. snap' = [snap EXCEPT !.phase = "stopped", !.machine = Snapshot!Fresh]
  BY DEF Snapshot!RestoreFails
<1>2. /\ snap' \in Snaps /\ snap'.phase = "stopped" /\ snap'.machine = Snapshot!Fresh
      /\ snap'.files = snap.files
  BY <1>1, FreshMachine DEF SnapInv, Snaps
<1> QED BY <1>2 DEF SnapInv

\* What one section does to the machine it is loaded into.
LEMMA LoadedPart ==
    ASSUME NEW m \in Machines, NEW e \in Epochs, NEW n \in 0 .. 4, NEW p \in FileParts,
           PartOf(p, n + 1, e), ReadBack(m, n, e)
    PROVE  /\ Snapshot!Load(m, p) \in Machines
           /\ ReadBack(Snapshot!Load(m, p), n + 1, e)
<1> DEFINE l == Snapshot!Load(m, p)
<1>1. CASE n = 0
  <2>1. l = m
    BY <1>1 DEF PartOf, Headers, Snapshot!Load
  <2> QED BY <1>1, <2>1 DEF ReadBack
<1>2. CASE n = 1
  <2>1. p \in CoreParts /\ p.epoch = e
    BY <1>2 DEF PartOf
  <2>2. l = [m EXCEPT !.core0 = p.epoch, !.win = p.win, !.pending = p.pending]
    BY <2>1 DEF CoreParts, Snapshot!Load
  <2>3. l \in Machines /\ l.core0 = e
    BY <2>1, <2>2 DEF CoreParts, Machines
  <2> QED BY <1>2, <2>3 DEF ReadBack
<1>3. CASE n = 2
  <2>1. p \in MemoryParts /\ p.epoch = e
    BY <1>3 DEF PartOf
  <2>2. l = [m EXCEPT !.memory = p.epoch]
    BY <2>1 DEF MemoryParts, Snapshot!Load
  <2>3. l \in Machines /\ l.core0 = m.core0 /\ l.memory = e
    BY <2>1, <2>2 DEF MemoryParts, Machines
  <2> QED BY <1>3, <2>3 DEF ReadBack
<1>4. CASE n = 3
  <2>1. l = m
    BY <1>4 DEF PartOf, Markers, Snapshot!Load
  <2> QED BY <1>4, <2>1 DEF ReadBack
<1>5. CASE n = 4
  <2>1. p \in Schedulers /\ (~p.mixed => p.epoch = e)
    BY <1>5 DEF PartOf
  <2>2. l = [m EXCEPT !.frt = p.epoch, !.idles = p.idles,
                      !.scheduler = p.scheduler, !.mixed = p.mixed]
    BY <2>1 DEF Schedulers, Snapshot!Load
  <2>3. /\ l \in Machines /\ l.core0 = m.core0 /\ l.memory = m.memory
        /\ l.frt = p.epoch /\ l.mixed = p.mixed
    BY <2>1, <2>2 DEF Schedulers, Machines
  <2> QED BY <1>5, <2>1, <2>3 DEF ReadBack
<1> QED BY <1>1, <1>2, <1>3, <1>4, <1>5

LEMMA SnapRestoreSection ==
    ASSUME Snapshot!SavestateAssumption, SnapInv, Snapshot!RestoreSection
    PROVE  SnapInv'
<1> DEFINE e == snap.at
           f == snap.files[e]
           n == snap.done
           p == f[n + 1]
           m == snap.machine
           l == Snapshot!Load(m, p)
           k == n + 1
<1>1. /\ snap \in Snaps /\ snap.phase = "restoring" /\ n <= Len(f) /\ ReadBack(m, n, e)
      /\ e \in Epochs /\ f \in Seq(FileParts) /\ FileOf(f, e) /\ m \in Machines /\ n \in 0 .. 5
  BY DEF Snapshot!RestoreSection, SnapInv, Snaps
<1>2. n # Len(f) /\ n # 5
  BY DEF Snapshot!RestoreSection, Snapshot!Unusable, Snapshot!Finished, Snapshot!File
<1>3. n \in 0 .. 4 /\ n < Len(f) /\ k \in 1 .. Len(f) /\ k \in 0 .. 5
  BY <1>1, <1>2
<1>4. p \in FileParts /\ PartOf(p, k, e)
  BY <1>1, <1>3 DEF FileOf
<1>5. l \in Machines /\ ReadBack(l, k, e)
  <2> HIDE DEF p, e, m
  <2> QED BY <1>1, <1>3, <1>4, LoadedPart DEF k
<1>6. snap' = [snap EXCEPT !.done = k, !.machine = l]
  BY <1>1, <1>3 DEF Snapshot!RestoreSection, Snapshot!File, Snaps
<1> HIDE DEF l, k
<1>7. /\ snap' \in Snaps /\ snap'.phase = "restoring" /\ snap'.done = k /\ snap'.machine = l
      /\ snap'.at = snap.at /\ snap'.files = snap.files
  BY <1>1, <1>3, <1>5, <1>6 DEF Snaps
<1> QED BY <1>3, <1>5, <1>7 DEF SnapInv

LEMMA SnapRestoreEnd ==
    ASSUME Snapshot!SavestateAssumption, SnapInv, Snapshot!RestoreEnd
    PROVE  SnapInv'
<1> DEFINE m == snap.machine
           x == snap.stubs /\ (m.mixed \/ snap.done = 4)
           l == [m EXCEPT !.mixed = x]
<1>1. /\ snap \in Snaps /\ snap.phase = "restoring" /\ ReadBack(m, snap.done, snap.at)
      /\ m \in Machines /\ (snap.done = 4 \/ snap.done = 5)
      /\ snap' = [snap EXCEPT !.phase = "running", !.machine = l]
  BY DEF Snapshot!RestoreEnd, Snapshot!Finished, SnapInv, Snaps, Machines
<1>2. x \in BOOLEAN
  OBVIOUS
<1>3. m.core0 = snap.at /\ m.memory = snap.at
  BY <1>1 DEF ReadBack
<1>4. snap.stubs /\ ~x => m.frt = snap.at
  BY <1>1 DEF ReadBack
<1> HIDE DEF x
<1>5. l \in Machines /\ l.core0 = m.core0 /\ l.memory = m.memory /\ l.frt = m.frt /\ l.mixed = x
  BY <1>1, <1>2 DEF Machines
<1>6. Whole(l, snap.stubs)
  BY <1>3, <1>4, <1>5 DEF Whole
<1> HIDE DEF l
<1>7. /\ snap' \in Snaps /\ snap'.phase = "running" /\ snap'.machine = l
      /\ snap'.stubs = snap.stubs /\ snap'.files = snap.files
  BY <1>1, <1>5 DEF Snaps
<1> QED BY <1>6, <1>7 DEF SnapInv

\* What the invariant says in the words of the component.
LEMMA SnapInvSays ==
    ASSUME Snapshot!SavestateAssumption, SnapInv
    PROVE  Snapshot!TypeOK /\ Snapshot!NeverTorn /\ Snapshot!FilesWhole
<1>1. snap \in Snaps
  BY DEF SnapInv
<1>2. Snapshot!TypeOK
  <2>1. \A e \in 1 .. SnapEpochs : Len(snap.files[e]) <= Len(Snapshot!Sections)
    BY DEF SnapInv, FileOf, Epochs, Snapshot!Sections
  <2> QED BY <1>1, <2>1 DEF Snaps, Machines, Snapshot!TypeOK
<1>3. Snapshot!NeverTorn
  BY DEF SnapInv, Whole, Snapshot!NeverTorn
<1>4. ASSUME NEW e \in 1 .. SnapEpochs, NEW i \in 1 .. Len(snap.files[e]),
             snap.files[e][i].is \in {"core0", "memory"}
      PROVE  snap.files[e][i].epoch = e
  <2> DEFINE p == snap.files[e][i]
  <2>1. i \in 1 .. 5 /\ PartOf(p, i, e)
    BY <1>1 DEF SnapInv, FileOf, Epochs, Snaps
  <2> HIDE DEF p
  <2>2. p.is \in {"core0", "memory"}
    BY <1>4 DEF p
  <2>3. p.epoch = e
    BY <2>1, <2>2 DEF PartOf, Headers, Markers, Schedulers
  <2> QED BY <2>3 DEF p
<1> QED BY <1>2, <1>3, <1>4 DEF Snapshot!FilesWhole

\* savestate_save and savestate_restore: whichever section's write failed, and wherever the
\* process died while it wrote or read one, a machine that runs is of one epoch, and a
\* file holds no other epoch than its own.
THEOREM SavestateInvariant ==
    ASSUME Snapshot!SavestateAssumption
    PROVE  Snapshot!Spec => [](Snapshot!TypeOK /\ Snapshot!NeverTorn /\ Snapshot!FilesWhole)
<1>1. Snapshot!Init => SnapInv
  BY SnapInitOK
<1>2. SnapInv /\ [Snapshot!Next]_<<snap>> => SnapInv'
  <2> SUFFICES ASSUME SnapInv, [Snapshot!Next]_<<snap>> PROVE SnapInv'
    OBVIOUS
  <2>1. CASE UNCHANGED <<snap>>
    BY <2>1 DEF SnapInv
  <2>2. CASE Snapshot!Run
    BY <2>2, SnapRun
  <2>3. CASE Snapshot!Schedule \/ Snapshot!Raise \/ Snapshot!Dispatch
    BY <2>3, SnapHousekeeping
  <2>4. CASE Snapshot!Stop
    BY <2>4, SnapStop
  <2>5. CASE Snapshot!SaveBegin
    BY <2>5, SnapSaveBegin
  <2>6. CASE Snapshot!SaveSection
    BY <2>6, SnapSaveSection
  <2>7. CASE Snapshot!SaveEnd
    BY <2>7, SnapSaveEnd
  <2>8. CASE Snapshot!Boot
    BY <2>8, SnapBoot
  <2>9. CASE Snapshot!RestoreFails
    BY <2>9, SnapRestoreFails
  <2>10. CASE Snapshot!RestoreSection
    BY <2>10, SnapRestoreSection
  <2>11. CASE Snapshot!RestoreEnd
    BY <2>11, SnapRestoreEnd
  <2> QED BY <2>1, <2>2, <2>3, <2>4, <2>5, <2>6, <2>7, <2>8, <2>9, <2>10, <2>11
          DEF Snapshot!Next
<1>3. SnapInv => Snapshot!TypeOK /\ Snapshot!NeverTorn /\ Snapshot!FilesWhole
  BY SnapInvSays
<1> QED BY <1>1, <1>2, <1>3, PTL DEF Snapshot!Spec, Snapshot!vars

-----------------------------------------------------------------------------
(* The code cache (Jit), with any number of ways and blocks, whatever the  *)
(* guest runs and stores, and whenever flash changes.                      *)

CONSTANTS BlockRegs, BlockLink, BlockKinds, BlockLength, BlockModulus, BlockCount,
          CacheWays, CacheHot, CacheLoop, CacheBlocks, CacheStores, CacheChanges
VARIABLE cache

Native == INSTANCE Jit WITH
    Regs <- BlockRegs, Link <- BlockLink, Kinds <- BlockKinds, Length <- BlockLength,
    Modulus <- BlockModulus, MaxCount <- BlockCount,
    Ways <- CacheWays, Threshold <- CacheHot, MaxLoop <- CacheLoop,
    MaxBlocks <- CacheBlocks, Stores <- CacheStores, MaxChanges <- CacheChanges,
    dev <- cache

\* The instructions of the guest, and where the scan of a block ends.
LEMMA GuestCode ==
    /\ Native!PCs = {0, 3, 6, 8, 10, 13} /\ Native!Ram = 0 .. 9 /\ Native!Flash = 10 .. 15
    /\ Native!Code[0] = [len |-> 3, kind |-> "straight", to |-> 0]
    /\ Native!Code[3] = [len |-> 3, kind |-> "loop", to |-> 0]
    /\ Native!Code[6] = [len |-> 2, kind |-> "branch", to |-> 13]
    /\ Native!Code[8] = [len |-> 2, kind |-> "straight", to |-> 0]
    /\ Native!Code[10] = [len |-> 3, kind |-> "jump", to |-> 0]
    /\ Native!Code[13] = [len |-> 3, kind |-> "jump", to |-> 8]
BY DEF Native!PCs, Native!Code, Native!Ram, Native!Flash, Native!PageEnd

LEMMA GuestAfter ==
    /\ Native!After(0) = 3 /\ Native!After(3) = 6 /\ Native!After(6) = 8
    /\ Native!After(8) = 10 /\ Native!After(10) = 13 /\ Native!After(13) = 16
BY GuestCode DEF Native!After

\* A scan never crosses the page: a block that starts in RAM stays in RAM.
LEMMA ScanStays ==
    ASSUME NEW d, NEW pc \in Native!PCs
    PROVE  Native!ScanEnd(d, pc) \in Nat /\ (pc \in Native!Ram => Native!ScanEnd(d, pc) <= 10)
<1> DEFINE bounded == Native!LoopVariant(d, pc) = 1
           stop(a) == \/ Native!Code[a].kind \in {"jump", "loop"}
                      \/ Native!After(a) >= Native!PageEnd /\ a < Native!PageEnd
                      \/ bounded /\ Native!After(a) >= Native!Lend
           Scans(f) == f = [a \in Native!PCs |->
                              IF stop(a) THEN Native!After(a)
                              ELSE IF Native!After(a) \in Native!PCs THEN f[Native!After(a)]
                              ELSE Native!After(a)]
           scan == CHOOSE f : Scans(f)
           g == [a \in Native!PCs |-> CASE a \in {0, 3} -> 6 [] a \in {6, 8} -> 10
                                        [] a = 10 -> 13 [] a = 13 -> 16]
<1>1. Native!ScanEnd(d, pc) = scan[pc]
  BY DEF Native!ScanEnd
<1> HIDE DEF bounded
<1>2. ~stop(0) /\ stop(3) /\ ~stop(6) /\ stop(8) /\ stop(10) /\ stop(13)
  BY GuestCode, GuestAfter DEF Native!PageEnd, Native!Lend
<1> HIDE DEF stop
<1>3. Scans(g)
  BY <1>2, GuestCode, GuestAfter
<1>4. Scans(scan)
  <2> HIDE DEF Scans, g
  <2> QED BY <1>3
<1> HIDE DEF scan
<1>5. scan[3] = 6 /\ scan[8] = 10 /\ scan[10] = 13 /\ scan[13] = 16
  BY <1>2, <1>4, GuestCode, GuestAfter
<1>6. scan[0] = 6 /\ scan[6] = 10
  BY <1>2, <1>4, <1>5, GuestCode, GuestAfter
<1> QED BY <1>1, <1>5, <1>6, GuestCode

CacheEntries ==
    [pc : Native!PCs \union {99}, lv : 0 .. 1, code : BOOLEAN, count : Nat, never : BOOLEAN]
NativeBlocks == [pc : Native!PCs, lv : 0 .. 1, end : Nat]
Entrances == {"none", "dispatch", "chain"}
Stalenesses == {"ram", "flash", "flash_chained", "table"}

CacheState ==
    [pc : Native!PCs, lcount : 0 .. CacheLoop, table : BOOLEAN,
     pre : SUBSET Native!PCs, preOld : SUBSET Native!PCs, marks : SUBSET Native!Ram,
     divert : SUBSET {"ram"}, ways : [1 .. CacheWays -> CacheEntries],
     blocks : SUBSET NativeBlocks, old : SUBSET NativeBlocks,
     chains : SUBSET (NativeBlocks \X Native!PCs), pend : SUBSET (NativeBlocks \X Native!PCs),
     full : BOOLEAN, running : NativeBlocks \union {Native!None}, pending : BOOLEAN,
     limit : BOOLEAN, stale : SUBSET Stalenesses,
     entered : Entrances, overrun : SUBSET Entrances, changes : Nat]

LEMMA LeastIndex ==
    ASSUME NEW S \in SUBSET Nat, S # {}
    PROVE  \E m \in S : \A k \in S : m <= k
<1> DEFINE R == OpToRel(<, Nat)
<1>1. IsWellFoundedOn(R, Nat)
  BY NatLessThanWellFounded
<1>2. \A x, y \in Nat : x < y => <<x, y>> \in R
  BY DEF OpToRel
<1> HIDE DEF R
<1>3. PICK l \in S : \A k \in S : ~(<<k, l>> \in R)
  BY <1>1, WFMin
<1>4. \A k \in S : ~(k < l)
  BY <1>2, <1>3
<1>5. l \in Nat /\ \A k \in S : k \in Nat
  OBVIOUS
<1> QED BY <1>4, <1>5

\* Of the candidates with the least count, the first.
LEMMA ColdestOf ==
    ASSUME NEW W \in SUBSET Nat, W # {}, NEW n \in [W -> Nat]
    PROVE  \E w \in W : /\ \A v \in W : n[w] <= n[v]
                        /\ \A v \in W : v < w => n[w] < n[v]
<1> DEFINE counts == {n[w] : w \in W}
<1>1. counts \in SUBSET Nat /\ counts # {}
  OBVIOUS
<1>2. PICK c \in counts : \A k \in counts : c <= k
  BY <1>1, LeastIndex
<1>3. \A v \in W : c <= n[v]
  BY <1>2
<1> DEFINE S == {w \in W : n[w] = c}
<1>4. S \in SUBSET Nat /\ S # {}
  BY <1>2
<1> HIDE DEF counts
<1>5. PICK w \in S : \A k \in S : w <= k
  BY <1>4, LeastIndex
<1>6. w \in W /\ n[w] = c
  OBVIOUS
<1>7. ASSUME NEW v \in W, v < w PROVE n[w] < n[v]
  <2>1. v \notin S
    BY <1>4, <1>5, <1>7, w \in Nat, v \in Nat
  <2>2. n[v] # c
    BY <2>1
  <2> QED BY <1>3, <1>6, <2>2, c \in Nat, n[v] \in Nat
<1> HIDE DEF S
<1> QED BY <1>3, <1>6, <1>7

\* jit_get_or_create: there is always a way to take.
LEMMA VictimIsWay ==
    ASSUME Native!CodeCacheAssumption, NEW d \in CacheState
    PROVE  Native!Victim(d) \in 1 .. CacheWays
<1> DEFINE W == 1 .. CacheWays
           occupied(w) == d.ways[w] # Native!Free
           colder(v, w) == \/ ~d.ways[v].code /\ d.ways[w].code
                           \/ /\ d.ways[v].code = d.ways[w].code
                              /\ d.ways[v].count < d.ways[w].count
<1>1. W \in SUBSET Nat /\ 1 \in W /\ d.ways \in [W -> CacheEntries]
  BY DEF Native!CodeCacheAssumption, CacheState
<1>2. CASE \E w \in W : ~occupied(w)
  <2> DEFINE S == {w \in W : ~occupied(w)}
  <2>1. PICK w \in S : \A k \in S : w <= k
    <3>1. S \in SUBSET Nat /\ S # {}
      BY <1>1, <1>2
    <3> HIDE DEF S
    <3> QED BY <3>1, LeastIndex
  <2>2. \A v \in 1 .. (w - 1) : occupied(v)
    <3> SUFFICES ASSUME NEW v \in 1 .. (w - 1), ~occupied(v) PROVE FALSE
      OBVIOUS
    <3>1. v \in W /\ v < w
      BY <1>1, <2>1 DEF Native!CodeCacheAssumption
    <3> QED BY <2>1, <3>1
  <2>3. Native!Victim(d) = CHOOSE k \in W : ~occupied(k) /\ \A v \in 1 .. (k - 1) : occupied(v)
    BY <1>2 DEF Native!Victim
  <2> HIDE DEF occupied
  <2> QED BY <2>1, <2>2, <2>3
<1>3. CASE ~\E w \in W : ~occupied(w)
  <2>1. Native!Victim(d) = CHOOSE w \in W : /\ \A v \in W : ~colder(v, w)
                                            /\ \A v \in 1 .. (w - 1) : colder(w, v)
    BY <1>3 DEF Native!Victim
  <2> DEFINE bare == {w \in W : ~d.ways[w].code}
             pool == IF bare = {} THEN W ELSE bare
             n    == [w \in pool |-> d.ways[w].count]
  <2>2. \A w \in W : d.ways[w].code \in BOOLEAN /\ d.ways[w].count \in Nat
    BY <1>1 DEF CacheEntries
  <2>3. pool \in SUBSET Nat /\ pool # {} /\ pool \subseteq W /\ n \in [pool -> Nat]
    BY <1>1, <2>2
  <2>4. \A w \in W : w \in pool <=> (~d.ways[w].code \/ \A v \in W : d.ways[v].code)
    OBVIOUS
  <2>5. \A w \in pool : n[w] = d.ways[w].count
    OBVIOUS
  <2> HIDE DEF pool, n, bare
  <2>6. PICK w \in pool : /\ \A v \in pool : n[w] <= n[v]
                          /\ \A v \in pool : v < w => n[w] < n[v]
    BY <2>3, ColdestOf
  <2>7. w \in W
    BY <2>3
  <2>8. ASSUME NEW v \in W PROVE ~colder(v, w)
    <3>1. CASE v \in pool
      BY <2>2, <2>4, <2>5, <2>6, <2>7, <3>1
    <3>2. CASE v \notin pool
      BY <2>2, <2>4, <2>7, <3>2
    <3> QED BY <3>1, <3>2
  <2>9. ASSUME NEW v \in 1 .. (w - 1) PROVE colder(w, v)
    <3>1. v \in W /\ v < w
      BY <2>7 DEF Native!CodeCacheAssumption
    <3>2. CASE v \in pool
      BY <2>2, <2>4, <2>5, <2>6, <2>7, <3>1, <3>2
    <3>3. CASE v \notin pool
      BY <2>2, <2>4, <2>7, <3>1, <3>3
    <3> QED BY <3>2, <3>3
  <2> HIDE DEF colder
  <2> QED BY <2>1, <2>7, <2>8, <2>9
<1> QED BY <1>2, <1>3

\* The bytes of RAM a block was made from are marked, on a page whose stores are
\* diverted.
Watches(marks, divert, b) ==
    /\ Native!Covers(b) \intersect Native!Ram \subseteq marks
    /\ Native!Covers(b) \intersect Native!Ram # {} => "ram" \in divert
    /\ b.pc \in Native!Ram => b.end <= 10

Watched(d) ==
    /\ \A b \in d.blocks : Watches(d.marks, d.divert, b)
    /\ d.old \subseteq d.blocks

\* What looking up, counting and compiling a block leaves alone.
Untouched(e, d) ==
    /\ e.pc = d.pc /\ e.lcount = d.lcount /\ e.pre = d.pre /\ e.preOld = d.preOld
    /\ e.running = d.running /\ (e.pending <=> d.pending) /\ (e.limit <=> d.limit)
    /\ e.stale = d.stale /\ e.entered = d.entered /\ e.overrun = d.overrun

Translated(e, d) ==
    /\ e \in CacheState /\ Untouched(e, d) /\ Watched(e)
    /\ e.old \subseteq d.old /\ d.divert \subseteq e.divert

LEMMA CompileTranslates ==
    ASSUME NEW d \in CacheState, Watched(d), NEW w \in 1 .. CacheWays,
           d.ways[w].pc \in Native!PCs
    PROVE  Translated(Native!Compile(d, w), d)
<1> DEFINE pc  == d.ways[w].pc
           lv  == d.ways[w].lv
           b   == [pc |-> pc, lv |-> lv, end |-> Native!ScanEnd(d, pc)]
           out == IF lv # 0 \/ Native!SetsLoop(b) THEN {}
                  ELSE {<<b, t>> : t \in Native!Exits(b) \intersect Native!PCs}
           linked == {<<b, t>> : t \in {x[2] : x \in out}}
                    \ {x \in out : ~Native!Unbounded(d, x[2])}
           in  == IF lv # 0 THEN {} ELSE {x \in d.pend \union out : x[2] = pc}
           e   == Native!Compile(d, w)
<1>1. /\ pc \in Native!PCs /\ lv \in 0 .. 1 /\ d.ways \in [1 .. CacheWays -> CacheEntries]
      /\ d.ways[w] \in CacheEntries
  BY DEF CacheState, CacheEntries
<1>2. Native!ScanEnd(d, pc) \in Nat /\ (pc \in Native!Ram => Native!ScanEnd(d, pc) <= 10)
  BY ScanStays
<1>3. b \in NativeBlocks /\ b.pc = pc /\ b.end = Native!ScanEnd(d, pc)
  BY <1>1, <1>2 DEF NativeBlocks
<1> DEFINE div == IF pc \in Native!Ram THEN {"ram"} ELSE d.divert
           mks == d.marks \union (Native!Covers(b) \intersect Native!Ram)
           ws  == [d.ways EXCEPT ![w].code = TRUE]
           nws == [d.ways EXCEPT ![w].never = TRUE]
           ch  == d.chains \union linked \union in
           pe  == (d.pend \union out) \ (linked \union in)
           bs  == d.blocks \union {b}
           od  == d.old \ {b}
<1>4. \/ e = d
      \/ e = [d EXCEPT !.ways = nws]
      \/ e = [d EXCEPT !.full = TRUE]
      \/ e = [d EXCEPT !.ways = ws, !.blocks = bs, !.old = od, !.marks = mks,
                       !.divert = div, !.chains = ch, !.pend = pe]
  <2> DEFINE large == Native!Cardinality(d.blocks \union {b}) > CacheBlocks
  <2>1. CASE d.full
    BY <2>1 DEF Native!Compile
  <2>2. CASE ~d.full /\ b.end = pc
    <3>1. e = [d EXCEPT !.ways[w].never = TRUE]
      BY <2>2 DEF Native!Compile
    <3> QED BY <3>1, SMTT(40)
  <2>3. CASE ~d.full /\ b.end # pc /\ large
    BY <2>3 DEF Native!Compile
  <2>4. CASE ~d.full /\ b.end # pc /\ ~large
    <3>1. e = [d EXCEPT !.ways[w].code = TRUE, !.blocks = @ \union {b},
                        !.old = @ \ {b},
                        !.marks = @ \union (Native!Covers(b) \intersect Native!Ram),
                        !.divert = IF pc \in Native!Ram THEN {"ram"} ELSE @,
                        !.chains = @ \union linked \union in,
                        !.pend = (@ \union out) \ (linked \union in)]
      BY <2>4 DEF Native!Compile
    <3> HIDE DEF b, out, linked, in
    <3> QED BY <3>1
  <2> QED BY <2>1, <2>2, <2>3, <2>4
<1>5. /\ ws \in [1 .. CacheWays -> CacheEntries] /\ nws \in [1 .. CacheWays -> CacheEntries]
  BY <1>1 DEF CacheEntries
<1>6. /\ bs \in SUBSET NativeBlocks /\ od \in SUBSET NativeBlocks
      /\ mks \in SUBSET Native!Ram /\ div \in SUBSET {"ram"}
  <2> HIDE DEF b
  <2> QED BY <1>3 DEF CacheState
<1>7. ch \in SUBSET (NativeBlocks \X Native!PCs) /\ pe \in SUBSET (NativeBlocks \X Native!PCs)
  <2> HIDE DEF b
  <2>1. out \in SUBSET (NativeBlocks \X Native!PCs)
    BY <1>3
  <2>2. linked \in SUBSET (NativeBlocks \X Native!PCs)
    <3>1. \A x \in out : x[2] \in Native!PCs
      BY <2>1
    <3> HIDE DEF out
    <3> QED BY <1>3, <3>1
  <2>3. in \in SUBSET (NativeBlocks \X Native!PCs)
    <3> HIDE DEF out
    <3> QED BY <2>1 DEF CacheState
  <2> HIDE DEF out, linked, in
  <2> QED BY <2>1, <2>2, <2>3 DEF CacheState
<1>8. d.marks \subseteq mks /\ d.divert \subseteq div
  BY DEF CacheState
<1>9. Watches(mks, div, b)
  <2>1. Native!Covers(b) \intersect Native!Ram # {} => pc \in Native!Ram
    BY <1>1, <1>2, <1>3, GuestCode, SMTT(40) DEF Native!Covers
  <2> HIDE DEF b
  <2>2. Native!Covers(b) \intersect Native!Ram \subseteq mks
    OBVIOUS
  <2> HIDE DEF mks
  <2> QED BY <1>2, <1>3, <2>1, <2>2 DEF Watches
<1>10. \A x \in bs : Watches(mks, div, x)
  <2> HIDE DEF b, mks, div
  <2> QED BY <1>8, <1>9 DEF Watches, Watched
<1>11. od \subseteq bs /\ od \subseteq d.old
  BY DEF Watched
<1> HIDE DEF ws, nws, bs, od, mks, div, ch, pe, b, out, linked, in
<1>12. CASE e = d
  BY <1>12 DEF Translated, Untouched
<1>13. CASE e = [d EXCEPT !.ways = nws]
  <2>1. e \in CacheState /\ Untouched(e, d) /\ e.old = d.old /\ e.divert = d.divert
        /\ e.blocks = d.blocks /\ e.marks = d.marks
    BY <1>5, <1>13 DEF CacheState, Untouched
  <2> QED BY <2>1 DEF Translated, Watched
<1>14. CASE e = [d EXCEPT !.full = TRUE]
  <2>1. e \in CacheState /\ Untouched(e, d) /\ e.old = d.old /\ e.divert = d.divert
        /\ e.blocks = d.blocks /\ e.marks = d.marks
    BY <1>14, ZenonT(80) DEF CacheState, Untouched
  <2> QED BY <2>1 DEF Translated, Watched
<1>15. CASE e = [d EXCEPT !.ways = ws, !.blocks = bs, !.old = od, !.marks = mks,
                          !.divert = div, !.chains = ch, !.pend = pe]
  <2> HIDE DEF e
  <2>1. e \in CacheState
    BY <1>5, <1>6, <1>7, <1>15, ZenonT(80) DEF CacheState
  <2>2. Untouched(e, d)
    BY <1>15 DEF CacheState, Untouched
  <2>3. e.old = od /\ e.divert = div /\ e.blocks = bs /\ e.marks = mks
    BY <1>15 DEF CacheState
  <2>4. Translated(e, d)
    BY <1>8, <1>10, <1>11, <2>1, <2>2, <2>3 DEF Translated, Watched
  <2> QED BY <2>4 DEF e
<1> QED BY <1>4, <1>12, <1>13, <1>14, <1>15

\* Translations follow one another.
LEMMA TranslatedOnce ==
    ASSUME NEW c, NEW d, NEW e, Translated(d, c), Translated(e, d)
    PROVE  Translated(e, c)
BY DEF Translated, Untouched

LEMMA ConsiderTranslates ==
    ASSUME NEW d \in CacheState, Watched(d), NEW w \in 1 .. CacheWays,
           d.ways[w].pc \in Native!PCs
    PROVE  Translated(Native!Consider(d, w), d)
<1> DEFINE e == d.ways[w]
           k == IF e.count < CacheHot THEN e.count + 1 ELSE e.count
           ws == [d.ways EXCEPT ![w] = [e EXCEPT !.count = k]]
           n == [d EXCEPT !.ways = ws]
<1>1. d.ways \in [1 .. CacheWays -> CacheEntries] /\ e \in CacheEntries /\ k \in Nat
  <2>1. d.ways \in [1 .. CacheWays -> CacheEntries]
    BY DEF CacheState
  <2>2. e \in CacheEntries
    BY <2>1
  <2>3. e.count \in Nat
    BY <2>2 DEF CacheEntries
  <2> HIDE DEF e
  <2> QED BY <2>1, <2>2, <2>3
<1>2. \/ Native!Consider(d, w) = d
      \/ Native!Consider(d, w) = n
      \/ Native!Consider(d, w) = Native!Compile(n, w)
  <2>1. [d EXCEPT !.ways[w].count = IF @ < CacheHot THEN @ + 1 ELSE @] = n
    BY <1>1 DEF CacheEntries, CacheState
  <2> HIDE DEF n
  <2> QED BY <2>1 DEF Native!Consider
<1>3. ws \in [1 .. CacheWays -> CacheEntries] /\ ws[w].pc = e.pc
  <2> HIDE DEF k
  <2> QED BY <1>1 DEF CacheEntries
<1> HIDE DEF ws
<1>4. /\ n \in CacheState /\ Untouched(n, d) /\ n.old = d.old /\ n.divert = d.divert
      /\ n.blocks = d.blocks /\ n.marks = d.marks /\ n.ways = ws
  BY <1>3 DEF CacheState, Untouched
<1> HIDE DEF n
<1>5. Translated(n, d)
  BY <1>4 DEF Translated, Watched
<1>6. Translated(Native!Compile(n, w), n)
  BY <1>3, <1>4, <1>5, CompileTranslates DEF Translated
<1>7. Translated(d, d)
  BY DEF Translated, Untouched
<1> QED BY <1>2, <1>5, <1>6, <1>7, TranslatedOnce

LEMMA GetBlockTranslates ==
    ASSUME Native!CodeCacheAssumption, NEW d \in CacheState, Watched(d), NEW pc \in Native!PCs
    PROVE  Translated(Native!GetBlock(d, pc), d)
<1> DEFINE lv == Native!LoopVariant(d, pc)
           here == {w \in 1 .. CacheWays : Native!Matches(d.ways[w], pc, lv)}
           v  == Native!Victim(d)
           x  == [Native!Free EXCEPT !.pc = pc, !.lv = lv]
           ws == [d.ways EXCEPT ![v] = x]
           n  == [d EXCEPT !.ways = ws]
<1>1. d.ways \in [1 .. CacheWays -> CacheEntries] /\ lv \in 0 .. 1
  BY DEF CacheState, Native!LoopVariant
<1>2. CASE here # {}
  <2> DEFINE w == CHOOSE k \in here : TRUE
  <2>1. Native!GetBlock(d, pc) = Native!Consider(d, w)
    BY <1>2 DEF Native!GetBlock, Native!GetOrCreate
  <2>2. w \in here
    BY <1>2
  <2>3. w \in 1 .. CacheWays /\ d.ways[w].pc = pc
    BY <2>2 DEF Native!Matches
  <2> QED BY <2>1, <2>3, ConsiderTranslates
<1>3. CASE here = {}
  <2>1. Native!GetBlock(d, pc) = Native!Consider(n, v)
    BY <1>3 DEF Native!GetBlock, Native!GetOrCreate
  <2>2. v \in 1 .. CacheWays
    BY VictimIsWay
  <2> HIDE DEF v, lv
  <2>3. x \in CacheEntries /\ x.pc = pc
    BY <1>1 DEF Native!Free, CacheEntries
  <2> HIDE DEF x
  <2>4. ws \in [1 .. CacheWays -> CacheEntries] /\ ws[v] = x
    BY <1>1, <2>2, <2>3
  <2> HIDE DEF ws
  <2>5. /\ n \in CacheState /\ Untouched(n, d) /\ n.old = d.old /\ n.divert = d.divert
        /\ n.blocks = d.blocks /\ n.marks = d.marks /\ n.ways = ws
    BY <2>4 DEF CacheState, Untouched
  <2> HIDE DEF n
  <2>6. Translated(n, d)
    BY <2>5 DEF Translated, Watched
  <2>7. Translated(Native!Consider(n, v), n)
    BY <2>2, <2>3, <2>4, <2>5, <2>6, ConsiderTranslates DEF Translated
  <2> QED BY <2>1, <2>6, <2>7, TranslatedOnce
<1> QED BY <1>2, <1>3

-----------------------------------------------------------------------------
\* Changed blocks wait for a flush that a running block defers, and native code does not
\* reach those in RAM; the table holds nothing changed; a body entered from the dispatcher
\* is bounded as long as the loop is live; and the history shows no exception.
Sound(d) ==
    /\ d.old # {} => d.pending = TRUE
    /\ d.pending = TRUE => d.running # Native!None
    /\ d.limit = TRUE => \A b \in d.old : b.pc \notin Native!Ram
    /\ d.preOld = {} /\ (d.pre # {} => "ram" \in d.divert)
    /\ d.running = Native!None => d.entered = "none"
    /\ d.entered = "dispatch" =>
         d.running.lv = 1 \/ d.running.pc < 6 \/ d.running.pc >= 10 \/ d.lcount = 0
    /\ d.stale \subseteq {"flash_chained"} /\ "dispatch" \notin d.overrun

CacheInv == cache \in CacheState /\ Watched(cache) /\ Sound(cache)

LEMMA CacheInitOK ==
    ASSUME Native!CodeCacheAssumption, Native!CacheInit
    PROVE  CacheInv
<1> DEFINE ws == [w \in 1 .. CacheWays |-> Native!Free]
<1>1. Native!Free \in CacheEntries /\ 0 \in Native!PCs /\ 0 \in 0 .. CacheLoop
  BY GuestCode DEF Native!Free, CacheEntries, Native!CodeCacheAssumption
<1>2. ws \in [1 .. CacheWays -> CacheEntries]
  BY <1>1
<1>3. PICK table \in BOOLEAN :
        cache = [pc |-> 0, lcount |-> 0, table |-> table,
                 pre |-> IF table THEN Native!PCs ELSE {}, preOld |-> {}, marks |-> {},
                 divert |-> IF table THEN {"ram"} ELSE {}, ways |-> ws,
                 blocks |-> {}, old |-> {}, chains |-> {}, pend |-> {}, full |-> FALSE,
                 running |-> Native!None, pending |-> FALSE, limit |-> TRUE,
                 stale |-> {}, entered |-> "none", overrun |-> {}, changes |-> 0]
  BY DEF Native!CacheInit
<1> HIDE DEF ws
<1>4. /\ cache.old = {} /\ cache.blocks = {} /\ cache.running = Native!None
      /\ cache.pending = FALSE /\ cache.preOld = {} /\ cache.entered = "none"
      /\ cache.stale = {} /\ cache.overrun = {}
      /\ (cache.pre # {} => "ram" \in cache.divert)
  BY <1>3
<1>5. cache \in CacheState
  BY <1>1, <1>2, <1>3 DEF CacheState, Entrances
<1>6. Watched(cache)
  BY <1>4 DEF Watched
<1>7. Sound(cache)
  BY <1>4 DEF Sound
<1> QED BY <1>5, <1>6, <1>7 DEF CacheInv

\* What a flush leaves alone.
Standing(z, d) ==
    /\ z \in CacheState /\ Watched(z)
    /\ z.running = d.running /\ z.divert = d.divert /\ z.limit = d.limit
    /\ z.stale = d.stale /\ z.entered = d.entered /\ z.overrun = d.overrun

HasFlushed(z, d) ==
    /\ Standing(z, d) /\ z.pc = d.pc /\ z.lcount = d.lcount
    /\ z.pre = d.pre /\ z.preOld = d.preOld
    /\ d.running # Native!None => z.old = d.old /\ z.pending = TRUE
    /\ d.running = Native!None => z.old = {} /\ z.pending = FALSE

\* jit_flush: at once, or when the running block is left.
LEMMA Flushed ==
    ASSUME NEW d \in CacheState, Watched(d), NEW z, z = Native!CacheFlush(d)
    PROVE  HasFlushed(z, d)
<1>1. CASE d.running # Native!None
  <2>1. z = [d EXCEPT !.pending = TRUE]
    BY <1>1 DEF Native!CacheFlush
  <2>2. /\ z \in CacheState /\ z.pending = TRUE
        /\ z.pc = d.pc /\ z.lcount = d.lcount /\ z.pre = d.pre /\ z.preOld = d.preOld
        /\ z.running = d.running /\ z.divert = d.divert /\ z.limit = d.limit
        /\ z.stale = d.stale /\ z.entered = d.entered /\ z.overrun = d.overrun
        /\ z.old = d.old /\ z.blocks = d.blocks /\ z.marks = d.marks
    BY <2>1, ZenonT(80) DEF CacheState
  <2> QED BY <1>1, <2>2 DEF Watched, HasFlushed, Standing
<1>2. CASE d.running = Native!None
  <2> DEFINE ws == [w \in 1 .. CacheWays |-> Native!Free]
  <2>1. z = [d EXCEPT !.ways = ws, !.blocks = {}, !.old = {}, !.chains = {}, !.pend = {},
                      !.full = FALSE, !.pending = FALSE, !.marks = {}]
    BY <1>2 DEF Native!CacheFlush
  <2>2. ws \in [1 .. CacheWays -> CacheEntries]
    BY DEF Native!Free, CacheEntries
  <2> HIDE DEF ws
  <2>3. z \in CacheState
    <3> DEFINE W == [1 .. CacheWays -> CacheEntries]
               B == SUBSET NativeBlocks
               M == SUBSET Native!Ram
               C == SUBSET (NativeBlocks \X Native!PCs)
               x == {}
    <3>1. ws \in W /\ x \in B /\ x \in M /\ x \in C
      BY <2>2
    <3>2. CacheState =
            [pc : Native!PCs, lcount : 0 .. CacheLoop, table : BOOLEAN,
             pre : SUBSET Native!PCs, preOld : SUBSET Native!PCs, marks : M,
             divert : SUBSET {"ram"}, ways : W, blocks : B, old : B, chains : C, pend : C,
             full : BOOLEAN, running : NativeBlocks \union {Native!None},
             pending : BOOLEAN, limit : BOOLEAN, stale : SUBSET Stalenesses,
             entered : Entrances, overrun : SUBSET Entrances, changes : Nat]
      BY DEF CacheState
    <3>3. z = [d EXCEPT !.ways = ws, !.blocks = x, !.old = x, !.chains = x, !.pend = x,
                        !.full = FALSE, !.pending = FALSE, !.marks = x]
      BY <2>1
    <3> HIDE DEF W, B, M, C, x
    <3> DEFINE y == [d EXCEPT !.ways = ws, !.blocks = x, !.old = x, !.chains = x]
    <3>4. y \in CacheState
      BY <3>1, <3>2
    <3>5. z = [y EXCEPT !.pend = x, !.full = FALSE, !.pending = FALSE, !.marks = x]
      BY <3>3
    <3> HIDE DEF y
    <3> QED BY <3>1, <3>2, <3>4, <3>5, ZenonT(80)
  <2>4. /\ z.pending = FALSE
        /\ z.pc = d.pc /\ z.lcount = d.lcount /\ z.pre = d.pre /\ z.preOld = d.preOld
        /\ z.running = d.running /\ z.divert = d.divert /\ z.limit = d.limit
        /\ z.stale = d.stale /\ z.entered = d.entered /\ z.overrun = d.overrun
        /\ z.old = {} /\ z.blocks = {}
    BY <2>1, SMTT(30) DEF CacheState
  <2> QED BY <1>2, <2>3, <2>4 DEF Watched, HasFlushed, Standing
<1> QED BY <1>1, <1>2

\* A block starts.
LEMMA Begun ==
    ASSUME NEW d \in CacheState, Watched(d), NEW b \in NativeBlocks, NEW how \in Entrances,
           NEW z, z = Native!Begin(d, b, how)
    PROVE  /\ z \in CacheState /\ Watched(z) /\ z.running = b /\ z.entered = how
           /\ z.lcount = d.lcount /\ z.pre = d.pre /\ z.preOld = d.preOld
           /\ z.divert = d.divert /\ z.limit = d.limit /\ z.pending = d.pending
           /\ z.old = d.old /\ z.overrun = d.overrun
           /\ \/ b \notin d.old
              \/ b.pc \notin Native!Ram /\ d.running # Native!None
              => z.stale \subseteq d.stale \union {"flash_chained"}
<1> DEFINE hist == IF b \in d.old THEN d.stale \union {Native!StaleKind(d, b)} ELSE d.stale
<1>1. z = [d EXCEPT !.running = b, !.entered = how, !.stale = hist]
  BY DEF Native!Begin
<1>2. hist \in SUBSET Stalenesses
  BY DEF CacheState, Native!StaleKind, Stalenesses
<1>3. \/ b \notin d.old
      \/ b.pc \notin Native!Ram /\ d.running # Native!None
      => hist \subseteq d.stale \union {"flash_chained"}
  BY DEF Native!StaleKind
<1> HIDE DEF hist
<1>4. z \in CacheState
  <2> DEFINE R == NativeBlocks \union {Native!None}
             T == SUBSET Stalenesses
             C == SUBSET (NativeBlocks \X Native!PCs)
             E == Entrances
  <2>1. b \in R /\ how \in E /\ hist \in T
    BY <1>2
  <2>2. CacheState =
          [pc : Native!PCs, lcount : 0 .. CacheLoop, table : BOOLEAN,
           pre : SUBSET Native!PCs, preOld : SUBSET Native!PCs, marks : SUBSET Native!Ram,
           divert : SUBSET {"ram"}, ways : [1 .. CacheWays -> CacheEntries],
           blocks : SUBSET NativeBlocks, old : SUBSET NativeBlocks, chains : C, pend : C,
           full : BOOLEAN, running : R, pending : BOOLEAN, limit : BOOLEAN, stale : T,
           entered : E, overrun : SUBSET Entrances, changes : Nat]
    BY DEF CacheState
  <2> HIDE DEF R, T, C, E
  <2> QED BY <1>1, <2>1, <2>2, ZenonT(80)
<1>5. /\ z.running = b /\ z.entered = how
      /\ z.lcount = d.lcount /\ z.pre = d.pre /\ z.preOld = d.preOld
      /\ z.divert = d.divert /\ z.limit = d.limit /\ z.pending = d.pending
      /\ z.old = d.old /\ z.overrun = d.overrun /\ z.stale = hist
      /\ z.blocks = d.blocks /\ z.marks = d.marks
  BY <1>1, SMTT(30) DEF CacheState
<1> QED BY <1>3, <1>4, <1>5 DEF Watched

\* jit_pc_hook
LEMMA CacheDispatch ==
    ASSUME Native!CodeCacheAssumption, CacheInv, Native!Dispatch
    PROVE  CacheInv'
<1> DEFINE pc == cache.pc
           lv == Native!LoopVariant(cache, pc)
           here == {w \in 1 .. CacheWays : Native!Matches(cache.ways[w], pc, lv)}
           d  == IF \E w \in here : cache.ways[w].code THEN cache
                 ELSE IF \E w \in here : cache.ways[w].never THEN cache
                 ELSE Native!GetBlock(cache, pc)
           ok == {b \in d.blocks :
                     /\ Native!Matches(b, pc, lv)
                     /\ \E w \in 1 .. CacheWays : Native!Matches(d.ways[w], pc, lv) /\ d.ways[w].code
                     /\ ~(cache.lcount # 0 /\ Native!Lend > pc /\ Native!Lend < b.end)}
<1>1. /\ cache \in CacheState /\ Watched(cache) /\ Sound(cache) /\ cache.running = Native!None
      /\ pc \in Native!PCs
  BY DEF Native!Dispatch, CacheInv, CacheState
<1>2. \/ ok = {} /\ cache' = d
      \/ \E b \in ok : cache' = Native!Begin([d EXCEPT !.limit = TRUE], b, "dispatch")
  BY DEF Native!Dispatch
<1>3. Translated(d, cache)
  <2>1. Translated(cache, cache)
    BY <1>1 DEF Translated, Untouched
  <2>2. Translated(Native!GetBlock(cache, pc), cache)
    BY <1>1, GetBlockTranslates
  <2> QED BY <2>1, <2>2
<1>4. \A b \in ok : b \in d.blocks /\ b.pc = pc /\ b.lv = lv
  BY DEF Native!Matches
<1>5. lv = 0 => pc < 6 \/ pc >= 10 \/ cache.lcount = 0
  BY <1>1, GuestCode DEF Native!LoopVariant, Native!Lbeg, Native!Lend, CacheState
<1>6. lv \in 0 .. 1
  BY DEF Native!LoopVariant
<1> HIDE DEF d, ok, lv
<1>7. /\ d \in CacheState /\ Untouched(d, cache) /\ Watched(d) /\ d.old = {}
      /\ d.pending = cache.pending /\ d.limit = cache.limit
      /\ d.pre = cache.pre /\ d.preOld = cache.preOld /\ d.running = Native!None
      /\ cache.divert \subseteq d.divert /\ d.entered = cache.entered
      /\ d.stale = cache.stale /\ d.overrun = cache.overrun /\ d.lcount = cache.lcount
      /\ cache.pending = FALSE
  BY <1>1, <1>3 DEF Translated, Untouched, Sound, CacheState
<1>8. CASE cache' = d
  BY <1>1, <1>7, <1>8 DEF CacheInv, Sound
<1>9. ASSUME NEW b \in ok, cache' = Native!Begin([d EXCEPT !.limit = TRUE], b, "dispatch")
      PROVE  CacheInv'
  <2> DEFINE n == [d EXCEPT !.limit = TRUE]
  <2>1. /\ n \in CacheState /\ n.old = {} /\ n.blocks = d.blocks /\ n.marks = d.marks
        /\ n.divert = d.divert
    BY <1>7, ZenonT(80) DEF CacheState
  <2>2. /\ n.pre = d.pre /\ n.preOld = d.preOld /\ n.stale = d.stale /\ n.overrun = d.overrun
        /\ n.pending = d.pending /\ n.lcount = d.lcount
    BY <1>7 DEF CacheState
  <2>3. Watched(n)
    BY <1>7, <2>1 DEF Watched
  <2>4. b \in NativeBlocks /\ b.pc = pc /\ b.lv = lv /\ "dispatch" \in Entrances
    BY <1>4, <1>7 DEF CacheState, Entrances
  <2> HIDE DEF n
  <2> DEFINE z == cache'
  <2>5. z = Native!Begin(n, b, "dispatch")
    BY <1>9 DEF n
  <2>6. /\ z \in CacheState /\ Watched(z) /\ z.running = b /\ z.entered = "dispatch"
        /\ z.lcount = n.lcount /\ z.pre = n.pre /\ z.preOld = n.preOld
        /\ z.divert = n.divert /\ z.pending = n.pending
        /\ z.old = n.old /\ z.overrun = n.overrun
        /\ z.stale \subseteq n.stale \union {"flash_chained"}
    <3> HIDE DEF z
    <3> QED BY <2>1, <2>3, <2>4, <2>5, Begun
  <2>7. b # Native!None
    BY <2>4, GuestCode DEF NativeBlocks, Native!None
  <2>8. b.lv = 1 \/ b.pc < 6 \/ b.pc >= 10 \/ cache.lcount = 0
    BY <1>5, <1>6, <2>4
  <2>9. Sound(z)
    <3> HIDE DEF z
    <3> QED BY <1>1, <1>7, <2>1, <2>2, <2>6, <2>7, <2>8 DEF Sound
  <2> QED BY <2>6, <2>9 DEF CacheInv
<1> QED BY <1>2, <1>8, <1>9

\* A block is left, and the history notes a body that ran past the end of a live loop.
LEMMA BlockLeft ==
    ASSUME CacheInv, cache.running # Native!None, NEW to \in Native!PCs,
           NEW z, z = Native!LeavesTo(cache.running, to)
    PROVE  /\ z \in CacheState /\ Watched(z) /\ "dispatch" \notin z.overrun
           /\ z.running = cache.running /\ z.lcount = cache.lcount /\ z.pre = cache.pre
           /\ z.preOld = cache.preOld /\ z.divert = cache.divert /\ z.limit = cache.limit
           /\ z.pending = cache.pending /\ z.old = cache.old /\ z.stale = cache.stale
           /\ z.blocks = cache.blocks
<1> DEFINE b       == cache.running
           before  == {Native!Code[a].to : a \in {x \in Native!PCs :
                         /\ x \in Native!Covers(b) /\ x < Native!Lend
                         /\ Native!Code[x].kind = "branch"}}
           crossed == /\ cache.lcount # 0
                      /\ b.pc >= Native!Lbeg /\ b.pc < Native!Lend
                      /\ b.lv = 0
                      /\ to \notin before
           o       == IF crossed THEN cache.overrun \union {cache.entered} ELSE cache.overrun
<1>1. z = [cache EXCEPT !.pc = to, !.overrun = o]
  BY DEF Native!LeavesTo
<1>2. cache \in CacheState /\ Watched(cache) /\ Sound(cache) /\ b \in NativeBlocks
  BY DEF CacheInv, CacheState
<1>3. o \in SUBSET Entrances
  <2> HIDE DEF crossed
  <2> QED BY <1>2 DEF CacheState
<1>4. "dispatch" \notin o
  <2>1. cache.entered = "dispatch" => ~crossed
    <3>1. b.pc \in Nat /\ b.lv \in 0 .. 1
      BY <1>2, GuestCode DEF NativeBlocks
    <3> QED BY <1>2, <3>1 DEF Sound, Native!Lbeg, Native!Lend
  <2> HIDE DEF crossed
  <2> QED BY <1>2, <2>1 DEF Sound
<1> HIDE DEF o
<1>5. z \in CacheState
  BY <1>1, <1>2, <1>3, ZenonT(80) DEF CacheState
<1>6. /\ z.running = cache.running /\ z.lcount = cache.lcount /\ z.pre = cache.pre
      /\ z.preOld = cache.preOld /\ z.divert = cache.divert /\ z.limit = cache.limit
      /\ z.pending = cache.pending /\ z.old = cache.old /\ z.stale = cache.stale
      /\ z.blocks = cache.blocks /\ z.marks = cache.marks /\ z.overrun = o
  BY <1>1, <1>2 DEF CacheState
<1>7. Watched(z)
  BY <1>2, <1>6 DEF Watched
<1> QED BY <1>4, <1>5, <1>6, <1>7

\* A patched jump.
LEMMA CacheChain ==
    ASSUME CacheInv, Native!Chain
    PROVE  CacheInv'
<1>1. /\ cache \in CacheState /\ Watched(cache) /\ Sound(cache)
      /\ cache.running # Native!None /\ cache.limit = TRUE
  BY DEF Native!Chain, CacheInv, CacheState
<1>2. PICK x \in cache.chains, b \in cache.blocks :
        b.pc = x[2] /\ cache' = Native!Begin(Native!LeavesTo(cache.running, x[2]), b, "chain")
  BY DEF Native!Chain
<1>3. b \in NativeBlocks /\ b.pc \in Native!PCs /\ b # Native!None /\ "chain" \in Entrances
  <2>1. b \in NativeBlocks
    BY <1>1 DEF CacheState
  <2> QED BY <2>1, GuestCode DEF NativeBlocks, Native!None, Entrances
<1> DEFINE y == Native!LeavesTo(cache.running, b.pc)
           z == cache'
<1>4. /\ y \in CacheState /\ Watched(y) /\ "dispatch" \notin y.overrun
      /\ y.running = cache.running /\ y.lcount = cache.lcount /\ y.pre = cache.pre
      /\ y.preOld = cache.preOld /\ y.divert = cache.divert /\ y.limit = cache.limit
      /\ y.pending = cache.pending /\ y.old = cache.old /\ y.stale = cache.stale
  <2> HIDE DEF y
  <2> QED BY <1>1, <1>3, BlockLeft DEF y
<1>5. z = Native!Begin(y, b, "chain")
  BY <1>2
<1>6. b \notin y.old \/ (b.pc \notin Native!Ram /\ y.running # Native!None)
  BY <1>1, <1>4 DEF Sound
<1> HIDE DEF y, z
<1>7. /\ z \in CacheState /\ Watched(z) /\ z.running = b /\ z.entered = "chain"
      /\ z.pre = y.pre /\ z.preOld = y.preOld
      /\ z.divert = y.divert /\ z.limit = y.limit /\ z.pending = y.pending
      /\ z.old = y.old /\ z.overrun = y.overrun
      /\ z.stale \subseteq y.stale \union {"flash_chained"}
  BY <1>3, <1>4, <1>5, <1>6, Begun
<1>8. Sound(z)
  BY <1>1, <1>3, <1>4, <1>7 DEF Sound
<1> QED BY <1>7, <1>8 DEF CacheInv, z

\* The body that loops on itself.
LEMMA CacheLoopNatively ==
    ASSUME Native!CodeCacheAssumption, CacheInv, Native!LoopNatively
    PROVE  CacheInv'
<1> DEFINE b == cache.running
           l == cache.lcount - 1
           y == [cache EXCEPT !.lcount = l]
           z == cache'
<1>1. /\ cache \in CacheState /\ Watched(cache) /\ Sound(cache)
      /\ b # Native!None /\ b \in NativeBlocks /\ cache.limit = TRUE /\ b.lv = 1
      /\ cache.lcount > 0 /\ cache.entered \in Entrances
      /\ z = Native!Begin(y, b, cache.entered)
  BY DEF Native!LoopNatively, CacheInv, CacheState
<1>2. l \in 0 .. CacheLoop
  <2>1. cache.lcount \in 0 .. CacheLoop
    BY <1>1 DEF CacheState
  <2> QED BY <1>1, <2>1 DEF Native!CodeCacheAssumption
<1> HIDE DEF l
<1>3. /\ y \in CacheState /\ y.old = cache.old /\ y.blocks = cache.blocks
      /\ y.marks = cache.marks /\ y.divert = cache.divert
      /\ y.pre = cache.pre /\ y.preOld = cache.preOld /\ y.limit = cache.limit
      /\ y.pending = cache.pending /\ y.stale = cache.stale /\ y.overrun = cache.overrun
      /\ y.running = cache.running
  BY <1>1, <1>2 DEF CacheState
<1>4. Watched(y)
  BY <1>1, <1>3 DEF Watched
<1>5. b \notin y.old \/ (b.pc \notin Native!Ram /\ y.running # Native!None)
  BY <1>1, <1>3 DEF Sound
<1> HIDE DEF y, z, b
<1>6. /\ z \in CacheState /\ Watched(z) /\ z.running = b /\ z.entered = cache.entered
      /\ z.pre = y.pre /\ z.preOld = y.preOld
      /\ z.divert = y.divert /\ z.limit = y.limit /\ z.pending = y.pending
      /\ z.old = y.old /\ z.overrun = y.overrun
      /\ z.stale \subseteq y.stale \union {"flash_chained"}
  BY <1>1, <1>3, <1>4, <1>5, Begun
<1>7. Sound(z)
  BY <1>1, <1>3, <1>6 DEF Sound
<1> QED BY <1>6, <1>7 DEF CacheInv, z

\* The guest is elsewhere, and the cache as it was.
Moved(z, d) ==
    /\ Standing(z, d) /\ z.pre = d.pre /\ z.preOld = d.preOld
    /\ z.pending = d.pending /\ z.old = d.old

\* The zero-overhead back edge changes nothing but where the guest is.
LEMMA BackEdgeOnly ==
    ASSUME Native!CodeCacheAssumption, NEW d \in CacheState, Watched(d),
           NEW z, z = Native!BackEdge(d)
    PROVE  Moved(z, d)
<1>1. CASE ~(d.pc = Native!Lend /\ d.lcount > 0)
  BY <1>1 DEF Native!BackEdge, Moved, Standing
<1>2. CASE d.pc = Native!Lend /\ d.lcount > 0
  <2> DEFINE l == d.lcount - 1
             g == Native!Lbeg
  <2>1. d.lcount \in 0 .. CacheLoop
    BY DEF CacheState
  <2>2. l \in 0 .. CacheLoop /\ g \in Native!PCs
    BY <1>2, <2>1, GuestCode DEF Native!CodeCacheAssumption, Native!Lbeg
  <2>3. z = [d EXCEPT !.lcount = l, !.pc = g]
    BY <1>2 DEF Native!BackEdge
  <2> HIDE DEF l, g
  <2>4. z \in CacheState
    BY <2>2, <2>3, ZenonT(80) DEF CacheState
  <2>5. /\ z.pre = d.pre /\ z.preOld = d.preOld
        /\ z.running = d.running /\ z.divert = d.divert /\ z.limit = d.limit
        /\ z.pending = d.pending /\ z.old = d.old /\ z.stale = d.stale
        /\ z.entered = d.entered /\ z.overrun = d.overrun
        /\ z.blocks = d.blocks /\ z.marks = d.marks
    BY <2>3 DEF CacheState
  <2> QED BY <2>4, <2>5 DEF Watched, Moved, Standing
<1> QED BY <1>1, <1>2

\* The epilogue of a block.
LEMMA CacheReturn ==
    ASSUME Native!CodeCacheAssumption, CacheInv, Native!Return
    PROVE  CacheInv'
<1>1. /\ cache \in CacheState /\ Watched(cache) /\ Sound(cache)
      /\ cache.running # Native!None
  BY DEF Native!Return, CacheInv
<1>2. PICK to \in Native!PCs, n \in 0 .. CacheLoop :
        LET left == Native!LeavesTo(cache.running, to)
            out  == [left EXCEPT !.running = Native!None, !.entered = "none",
                                 !.lcount = IF Native!SetsLoop(cache.running) THEN n ELSE @]
            kept == IF cache.pending THEN Native!CacheFlush(out) ELSE out
            back == IF cache.running.lv = 1 /\ cache.running.end = Native!Lend
                         /\ to = Native!Lend
                    THEN Native!BackEdge(kept) ELSE kept
        IN  cache' = Native!GetBlock(back, back.pc)
  BY DEF Native!Return
<1> DEFINE left == Native!LeavesTo(cache.running, to)
           l    == IF Native!SetsLoop(cache.running) THEN n ELSE left.lcount
           out  == [left EXCEPT !.running = Native!None, !.entered = "none", !.lcount = l]
           kept == IF cache.pending THEN Native!CacheFlush(out) ELSE out
           back == IF cache.running.lv = 1 /\ cache.running.end = Native!Lend
                         /\ to = Native!Lend
                   THEN Native!BackEdge(kept) ELSE kept
           z    == cache'
<1>3. z = Native!GetBlock(back, back.pc)
  BY <1>2, Zenon
<1>4. /\ left \in CacheState /\ Watched(left) /\ "dispatch" \notin left.overrun
      /\ left.pre = cache.pre
      /\ left.preOld = cache.preOld /\ left.divert = cache.divert
      /\ left.pending = cache.pending /\ left.old = cache.old /\ left.stale = cache.stale
      /\ left.blocks = cache.blocks
  <2> HIDE DEF left
  <2> QED BY <1>1, BlockLeft DEF left
<1> HIDE DEF left
<1>5. l \in 0 .. CacheLoop
  BY <1>4 DEF CacheState
<1> HIDE DEF l
<1>6. out \in CacheState
  <2> DEFINE r == Native!None
             i == "none"
  <2>1. r \in NativeBlocks \union {Native!None} /\ i \in Entrances
    BY DEF Entrances
  <2>2. out = [left EXCEPT !.running = r, !.entered = i, !.lcount = l]
    OBVIOUS
  <2> HIDE DEF r, i, out
  <2> QED BY <1>4, <1>5, <2>1, <2>2, ZenonT(80) DEF CacheState
<1>7. /\ out.running = Native!None /\ out.entered = "none"
      /\ out.pre = left.pre /\ out.preOld = left.preOld /\ out.divert = left.divert
      /\ out.pending = left.pending /\ out.old = left.old /\ out.stale = left.stale
      /\ out.overrun = left.overrun /\ out.blocks = left.blocks /\ out.marks = left.marks
  BY <1>4 DEF CacheState
<1> HIDE DEF out
<1>8. Watched(out)
  BY <1>4, <1>7 DEF Watched
<1>9. /\ kept \in CacheState /\ Watched(kept) /\ kept.old = {} /\ kept.pending = FALSE
      /\ kept.running = Native!None /\ kept.entered = "none"
      /\ kept.pre = cache.pre /\ kept.preOld = cache.preOld /\ kept.divert = cache.divert
      /\ kept.stale = cache.stale /\ "dispatch" \notin kept.overrun
  <2>1. CASE cache.pending
    <3>1. kept = Native!CacheFlush(out)
      BY <2>1
    <3> HIDE DEF kept
    <3>2. HasFlushed(kept, out)
      BY <1>6, <1>8, <3>1, Flushed
    <3> QED BY <1>4, <1>7, <3>2 DEF HasFlushed, Standing
  <2>2. CASE ~cache.pending
    <3>1. kept = out
      BY <2>2
    <3>2. cache.old = {} /\ cache.pending = FALSE
      BY <1>1, <2>2 DEF Sound, CacheState
    <3> HIDE DEF kept
    <3> QED BY <1>4, <1>6, <1>7, <1>8, <3>1, <3>2
  <2> QED BY <2>1, <2>2
<1> HIDE DEF kept
<1>10. /\ back \in CacheState /\ Watched(back) /\ back.old = {} /\ back.pending = FALSE
       /\ back.running = Native!None /\ back.entered = "none"
       /\ back.pre = cache.pre /\ back.preOld = cache.preOld /\ back.divert = cache.divert
       /\ back.stale = cache.stale /\ "dispatch" \notin back.overrun
  <2>1. CASE back = kept
    BY <1>9, <2>1
  <2>2. CASE back = Native!BackEdge(kept)
    <3> HIDE DEF back
    <3>1. Moved(back, kept)
      BY <1>9, <2>2, BackEdgeOnly
    <3> QED BY <1>9, <3>1 DEF Moved, Standing
  <2> QED BY <2>1, <2>2
<1> HIDE DEF back
<1>11. Translated(z, back)
  <2>1. back.pc \in Native!PCs
    BY <1>10 DEF CacheState
  <2> QED BY <1>3, <1>10, <2>1, GetBlockTranslates
<1> HIDE DEF z
<1>12. z \in CacheState /\ Watched(z) /\ z.old = {} /\ z.pending = FALSE
  BY <1>10, <1>11 DEF Translated, Untouched, CacheState
<1>13. Sound(z)
  BY <1>1, <1>10, <1>11, <1>12 DEF Sound, Translated, Untouched
<1> QED BY <1>12, <1>13 DEF CacheInv, z

\* An interpreted instruction.
LEMMA CacheInterpret ==
    ASSUME Native!CodeCacheAssumption, CacheInv, Native!Interpret
    PROVE  CacheInv'
<1> DEFINE a    == cache.pc
           hist   == IF a \in cache.pre /\ a \in cache.preOld
                   THEN cache.stale \union {"table"} ELSE cache.stale
           seen == [cache EXCEPT !.stale = hist]
           z    == cache'
<1>1. /\ cache \in CacheState /\ Watched(cache) /\ Sound(cache)
      /\ cache.running = Native!None /\ a \in Native!PCs
  BY DEF Native!Interpret, CacheInv, CacheState
<1>2. \/ /\ Native!Code[a].kind \in {"straight", "branch"}
         /\ z = Native!BackEdge([seen EXCEPT !.pc = Native!After(a)])
      \/ /\ Native!Code[a].kind \in {"branch", "jump"}
         /\ z = [seen EXCEPT !.pc = Native!Code[a].to]
      \/ /\ Native!Code[a].kind = "loop"
         /\ \E n \in 0 .. CacheLoop : z = [seen EXCEPT !.pc = Native!After(a), !.lcount = n]
  BY DEF Native!Interpret
<1>3. seen = cache
  <2>1. hist = cache.stale
    BY <1>1 DEF Sound
  <2> HIDE DEF hist
  <2> QED BY <1>1, <2>1 DEF CacheState
<1> HIDE DEF seen
<1>4. /\ Native!Code[a].kind \in {"straight", "branch", "loop"} => Native!After(a) \in Native!PCs
      /\ Native!Code[a].kind \in {"branch", "jump"} => Native!Code[a].to \in Native!PCs
  BY <1>1, GuestCode, GuestAfter
<1>5. ASSUME NEW to \in Native!PCs, NEW n \in 0 .. CacheLoop, NEW y,
             y = [cache EXCEPT !.pc = to, !.lcount = n]
      PROVE  Moved(y, cache)
  <2>1. y \in CacheState
    BY <1>1, <1>5 DEF CacheState
  <2>2. /\ y.pre = cache.pre /\ y.preOld = cache.preOld /\ y.running = cache.running
        /\ y.divert = cache.divert /\ y.limit = cache.limit
        /\ y.pending = cache.pending /\ y.old = cache.old /\ y.stale = cache.stale
        /\ y.entered = cache.entered /\ y.overrun = cache.overrun
        /\ y.blocks = cache.blocks /\ y.marks = cache.marks
    BY <1>1, <1>5 DEF CacheState
  <2> QED BY <1>1, <2>1, <2>2 DEF Watched, Moved, Standing
<1>6. ASSUME NEW to
      PROVE  [cache EXCEPT !.pc = to] = [cache EXCEPT !.pc = to, !.lcount = cache.lcount]
  BY <1>1 DEF CacheState
<1>7. cache.lcount \in 0 .. CacheLoop
  BY <1>1 DEF CacheState
<1> HIDE DEF a, z
<1>8. Moved(z, cache)
  <2>1. CASE /\ Native!Code[a].kind \in {"straight", "branch"}
             /\ z = Native!BackEdge([seen EXCEPT !.pc = Native!After(a)])
    <3> DEFINE y == [cache EXCEPT !.pc = Native!After(a)]
    <3>1. Moved(y, cache)
      <4>1. y = [cache EXCEPT !.pc = Native!After(a), !.lcount = cache.lcount]
        BY <1>6
      <4>2. Native!After(a) \in Native!PCs
        BY <1>4, <2>1
      <4> HIDE DEF y
      <4> QED BY <1>5, <1>7, <4>1, <4>2
    <3>2. z = Native!BackEdge(y)
      BY <1>3, <2>1
    <3> HIDE DEF y
    <3>3. Moved(z, y)
      BY <3>1, <3>2, BackEdgeOnly DEF Moved, Standing
    <3> QED BY <3>1, <3>3 DEF Moved, Standing
  <2>2. CASE /\ Native!Code[a].kind \in {"branch", "jump"}
             /\ z = [seen EXCEPT !.pc = Native!Code[a].to]
    <3>1. z = [cache EXCEPT !.pc = Native!Code[a].to, !.lcount = cache.lcount]
      BY <1>3, <1>6, <2>2
    <3>2. Native!Code[a].to \in Native!PCs
      BY <1>4, <2>2
    <3> QED BY <1>5, <1>7, <3>1, <3>2
  <2>3. CASE /\ Native!Code[a].kind = "loop"
             /\ \E n \in 0 .. CacheLoop :
                    z = [seen EXCEPT !.pc = Native!After(a), !.lcount = n]
    <3>1. PICK n \in 0 .. CacheLoop : z = [cache EXCEPT !.pc = Native!After(a), !.lcount = n]
      BY <1>3, <2>3
    <3>2. Native!After(a) \in Native!PCs
      BY <1>4, <2>3
    <3> QED BY <1>5, <3>1, <3>2
  <2> QED BY <1>2, <2>1, <2>2, <2>3
<1>9. Sound(z)
  BY <1>1, <1>8 DEF Sound, Moved, Standing
<1> QED BY <1>8, <1>9 DEF CacheInv, Moved, Standing, z

\* What changed bytes make of the translations.
HasAged(z, d, bytes) ==
    /\ Standing(z, d) /\ z.pre = d.pre /\ z.pending = d.pending /\ z.lcount = d.lcount
    /\ z.blocks = d.blocks /\ z.marks = d.marks
    /\ z.old = d.old \union {b \in d.blocks : Native!Covers(b) \intersect bytes # {}}
    /\ z.preOld = {a \in Native!PCs : \/ a \in d.preOld
                                       \/ Native!Bytes(a) \intersect bytes # {}}
                   \intersect d.pre

LEMMA Aged ==
    ASSUME NEW d \in CacheState, Watched(d), NEW bytes, NEW z, z = Native!Age(d, bytes)
    PROVE  HasAged(z, d, bytes)
<1> DEFINE o == d.old \union {b \in d.blocks : Native!Covers(b) \intersect bytes # {}}
           p == {a \in Native!PCs : \/ a \in d.preOld
                                    \/ Native!Bytes(a) \intersect bytes # {}}
                \intersect d.pre
           c == d.changes + 1
<1>1. z = [d EXCEPT !.old = o, !.preOld = p, !.changes = c]
  BY DEF Native!Age
<1>2. o \in SUBSET NativeBlocks /\ p \in SUBSET Native!PCs /\ c \in Nat /\ o \subseteq d.blocks
  BY DEF CacheState, Watched
<1> HIDE DEF o, p, c
<1>3. z \in CacheState
  BY <1>1, <1>2, ZenonT(80) DEF CacheState
<1>4. /\ z.pre = d.pre /\ z.running = d.running /\ z.divert = d.divert
      /\ z.limit = d.limit /\ z.pending = d.pending /\ z.stale = d.stale
      /\ z.entered = d.entered /\ z.overrun = d.overrun /\ z.lcount = d.lcount
      /\ z.blocks = d.blocks /\ z.marks = d.marks /\ z.old = o /\ z.preOld = p
  BY <1>1, SMTT(30) DEF CacheState
<1>5. Watched(z)
  BY <1>2, <1>4 DEF Watched
<1> QED BY <1>3, <1>4, <1>5 DEF o, p, HasAged, Standing

\* Entries of the table are dropped.
HasDropped(z, d, S) ==
    /\ Standing(z, d) /\ z.pre = d.pre \ S /\ z.preOld = d.preOld \ S
    /\ z.pending = d.pending /\ z.lcount = d.lcount
    /\ z.blocks = d.blocks /\ z.marks = d.marks /\ z.old = d.old

LEMMA Dropped ==
    ASSUME NEW d \in CacheState, Watched(d), NEW S, NEW z,
           z = [d EXCEPT !.pre = d.pre \ S, !.preOld = d.preOld \ S]
    PROVE  HasDropped(z, d, S)
<1> DEFINE p == d.pre \ S
           q == d.preOld \ S
<1>1. p \in SUBSET Native!PCs /\ q \in SUBSET Native!PCs
  BY DEF CacheState
<1> HIDE DEF p, q
<1>2. z = [d EXCEPT !.pre = p, !.preOld = q]
  BY DEF p, q
<1>3. z \in CacheState
  <2> DEFINE P == SUBSET Native!PCs
  <2>1. CacheState =
          [pc : Native!PCs, lcount : 0 .. CacheLoop, table : BOOLEAN,
           pre : P, preOld : P, marks : SUBSET Native!Ram,
           divert : SUBSET {"ram"}, ways : [1 .. CacheWays -> CacheEntries],
           blocks : SUBSET NativeBlocks, old : SUBSET NativeBlocks,
           chains : SUBSET (NativeBlocks \X Native!PCs),
           pend : SUBSET (NativeBlocks \X Native!PCs),
           full : BOOLEAN, running : NativeBlocks \union {Native!None},
           pending : BOOLEAN, limit : BOOLEAN, stale : SUBSET Stalenesses,
           entered : Entrances, overrun : SUBSET Entrances, changes : Nat]
    BY DEF CacheState
  <2>2. p \in P /\ q \in P
    BY <1>1
  <2> HIDE DEF P
  <2> QED BY <1>2, <2>1, <2>2, ZenonT(80)
<1>4. /\ z.pre = p /\ z.preOld = q
      /\ z.running = d.running /\ z.divert = d.divert
      /\ z.limit = d.limit /\ z.pending = d.pending /\ z.stale = d.stale
      /\ z.entered = d.entered /\ z.overrun = d.overrun /\ z.lcount = d.lcount
      /\ z.blocks = d.blocks /\ z.marks = d.marks /\ z.old = d.old
  BY <1>2, ZenonT(80) DEF CacheState
<1>5. Watched(z)
  BY <1>4 DEF Watched
<1> QED BY <1>3, <1>4, <1>5 DEF p, q, HasDropped, Standing

\* A store: the block whose bytes it changes is known to the pages it diverts.
LEMMA CacheStore ==
    ASSUME Native!CodeCacheAssumption, CacheInv, NEW byte \in CacheStores, Native!Store(byte)
    PROVE  CacheInv'
<1> DEFINE aged == Native!Age(cache, {byte})
           drop == {a \in Native!PCs : a + 2 >= byte /\ a <= byte}
           p    == [aged EXCEPT !.pre = aged.pre \ drop, !.preOld = aged.preOld \ drop]
           fl   == Native!CacheFlush(p)
           z    == cache'
<1>1. cache \in CacheState /\ Watched(cache) /\ Sound(cache) /\ byte \in Native!Ram
  BY DEF CacheInv, Native!CodeCacheAssumption
<1>2. \/ "ram" \notin cache.divert /\ z = aged
      \/ "ram" \in cache.divert /\ byte \in aged.marks /\ z = [fl EXCEPT !.limit = FALSE]
      \/ "ram" \in cache.divert /\ byte \notin aged.marks /\ z = p
  BY DEF Native!Store, Native!CodeModified
<1> DEFINE hit == {b \in cache.blocks : Native!Covers(b) \intersect {byte} # {}}
<1>3. /\ aged \in CacheState /\ Watched(aged)
      /\ aged.pre = cache.pre /\ aged.running = cache.running /\ aged.divert = cache.divert
      /\ aged.limit = cache.limit /\ aged.pending = cache.pending
      /\ aged.stale = cache.stale /\ aged.entered = cache.entered
      /\ aged.overrun = cache.overrun /\ aged.lcount = cache.lcount
      /\ aged.blocks = cache.blocks /\ aged.marks = cache.marks
      /\ aged.old = cache.old \union hit
      /\ aged.preOld = {a \in Native!PCs : \/ a \in cache.preOld
                                            \/ Native!Bytes(a) \intersect {byte} # {}}
                       \intersect cache.pre
  <2>1. HasAged(aged, cache, {byte})
    BY <1>1, Aged
  <2> HIDE DEF aged
  <2> QED BY <2>1 DEF HasAged, Standing
<1>4. "ram" \notin cache.divert \/ byte \notin cache.marks => hit = {}
  BY <1>1 DEF Watched, Watches
<1>5. \A a \in Native!PCs : Native!Bytes(a) \intersect {byte} # {} => a \in drop
  BY <1>1, GuestCode DEF Native!Bytes
<1>6. aged.preOld \ drop = {}
  BY <1>1, <1>3, <1>5 DEF Sound
<1>7. "ram" \notin cache.divert => aged.preOld = {}
  BY <1>1, <1>3 DEF Sound
<1> HIDE DEF aged, drop, hit
<1>8. /\ p \in CacheState /\ Watched(p)
      /\ p.pre = aged.pre \ drop /\ p.preOld = aged.preOld \ drop
      /\ p.running = aged.running /\ p.divert = aged.divert
      /\ p.limit = aged.limit /\ p.pending = aged.pending /\ p.stale = aged.stale
      /\ p.entered = aged.entered /\ p.overrun = aged.overrun /\ p.lcount = aged.lcount
      /\ p.blocks = aged.blocks /\ p.marks = aged.marks /\ p.old = aged.old
  <2>1. HasDropped(p, aged, drop)
    BY <1>3, Dropped
  <2> HIDE DEF p
  <2> QED BY <2>1 DEF HasDropped, Standing
<1> HIDE DEF p
<1>9. /\ fl \in CacheState /\ Watched(fl) /\ fl.lcount = p.lcount
      /\ fl.pre = p.pre /\ fl.preOld = p.preOld
      /\ fl.running = p.running /\ fl.divert = p.divert
      /\ fl.stale = p.stale /\ fl.entered = p.entered /\ fl.overrun = p.overrun
      /\ p.running # Native!None => fl.old = p.old /\ fl.pending = TRUE
      /\ p.running = Native!None => fl.old = {} /\ fl.pending = FALSE
  <2>1. HasFlushed(fl, p)
    BY <1>8, Flushed
  <2> HIDE DEF fl
  <2> QED BY <2>1 DEF HasFlushed, Standing
<1> HIDE DEF fl, z
<1>10. CASE "ram" \notin cache.divert /\ z = aged
  <2>1. aged.old = cache.old
    BY <1>3, <1>4, <1>10
  <2>2. Sound(z)
    BY <1>1, <1>3, <1>7, <1>10, <2>1 DEF Sound
  <2> QED BY <1>3, <1>10, <2>2 DEF CacheInv, z
<1>11. CASE "ram" \in cache.divert /\ byte \notin aged.marks /\ z = p
  <2>1. aged.old = cache.old
    BY <1>3, <1>4, <1>11
  <2>2. p.preOld = {}
    BY <1>6, <1>8
  <2>3. Sound(z)
    BY <1>1, <1>3, <1>8, <1>11, <2>1, <2>2 DEF Sound
  <2> QED BY <1>8, <1>11, <2>3 DEF CacheInv, z
<1>12. CASE "ram" \in cache.divert /\ byte \in aged.marks /\ z = [fl EXCEPT !.limit = FALSE]
  <2>1. z \in CacheState
    BY <1>9, <1>12 DEF CacheState
  <2>2. /\ z.pre = fl.pre /\ z.preOld = fl.preOld /\ z.lcount = fl.lcount
        /\ z.running = fl.running /\ z.divert = fl.divert /\ z.limit = FALSE
        /\ z.pending = fl.pending /\ z.stale = fl.stale
        /\ z.entered = fl.entered /\ z.overrun = fl.overrun
        /\ z.blocks = fl.blocks /\ z.marks = fl.marks /\ z.old = fl.old
    BY <1>9, <1>12, SMTT(30) DEF CacheState
  <2>3. Watched(z)
    BY <1>9, <2>2 DEF Watched
  <2>4. z.preOld = {} /\ z.divert = cache.divert /\ "ram" \in z.divert
    BY <1>3, <1>6, <1>8, <1>9, <1>12, <2>2
  <2>5. /\ z.running = cache.running /\ z.stale = cache.stale /\ z.entered = cache.entered
        /\ z.overrun = cache.overrun /\ z.lcount = cache.lcount
    BY <1>3, <1>8, <1>9, <2>2
  <2>6. /\ z.running # Native!None => z.pending = TRUE
        /\ z.running = Native!None => z.old = {} /\ z.pending = FALSE
    BY <1>9, <2>2
  <2>7. Sound(z)
    BY <1>1, <2>2, <2>4, <2>5, <2>6 DEF Sound
  <2> QED BY <2>1, <2>3, <2>7 DEF CacheInv, z
<1> QED BY <1>2, <1>10, <1>11, <1>12

\* Flash changes: no block of RAM covers it.
LEMMA CacheFlashChange ==
    ASSUME Native!CodeCacheAssumption, CacheInv, Native!FlashChange
    PROVE  CacheInv'
<1> DEFINE aged == Native!Age(cache, Native!Flash)
           p    == [aged EXCEPT !.pre = aged.pre \ Native!Flash,
                                !.preOld = aged.preOld \ Native!Flash]
           z    == cache'
           hit  == {b \in cache.blocks : Native!Covers(b) \intersect Native!Flash # {}}
<1>1. cache \in CacheState /\ Watched(cache) /\ Sound(cache)
  BY DEF CacheInv
<1>2. z = Native!CacheFlush(p)
  BY DEF Native!FlashChange
<1>3. /\ aged \in CacheState /\ Watched(aged)
      /\ aged.pre = cache.pre /\ aged.running = cache.running /\ aged.divert = cache.divert
      /\ aged.limit = cache.limit /\ aged.pending = cache.pending
      /\ aged.stale = cache.stale /\ aged.entered = cache.entered
      /\ aged.overrun = cache.overrun /\ aged.lcount = cache.lcount
      /\ aged.blocks = cache.blocks /\ aged.marks = cache.marks
      /\ aged.old = cache.old \union hit
      /\ aged.preOld = {a \in Native!PCs : \/ a \in cache.preOld
                                            \/ Native!Bytes(a) \intersect Native!Flash # {}}
                       \intersect cache.pre
  <2>1. HasAged(aged, cache, Native!Flash)
    BY <1>1, Aged
  <2> HIDE DEF aged
  <2> QED BY <2>1 DEF HasAged, Standing
<1>4. \A b \in hit : b.pc \notin Native!Ram
  <2> SUFFICES ASSUME NEW b \in hit, b.pc \in Native!Ram PROVE FALSE
    OBVIOUS
  <2>1. b \in NativeBlocks /\ b \in cache.blocks
    BY <1>1 DEF CacheState
  <2>2. b.end <= 10 /\ b.end \in Nat /\ b.pc \in Nat
    BY <1>1, <2>1, GuestCode DEF Watched, Watches, NativeBlocks
  <2>3. PICK x \in Native!Covers(b) : x \in Native!Flash
    OBVIOUS
  <2> QED BY <2>2, <2>3, GuestCode DEF Native!Covers
<1>5. \A a \in Native!PCs : Native!Bytes(a) \intersect Native!Flash # {} => a \in Native!Flash
  <2>1. /\ Native!Bytes(0) = 0 .. 2 /\ Native!Bytes(3) = 3 .. 5 /\ Native!Bytes(6) = 6 .. 7
        /\ Native!Bytes(8) = 8 .. 9
    BY GuestCode DEF Native!Bytes
  <2> QED BY <2>1, GuestCode
<1>6. aged.preOld \ Native!Flash = {}
  BY <1>1, <1>3, <1>5 DEF Sound
<1> HIDE DEF aged, hit
<1>7. /\ p \in CacheState /\ Watched(p)
      /\ p.pre = aged.pre \ Native!Flash /\ p.preOld = aged.preOld \ Native!Flash
      /\ p.running = aged.running /\ p.divert = aged.divert
      /\ p.limit = aged.limit /\ p.pending = aged.pending /\ p.stale = aged.stale
      /\ p.entered = aged.entered /\ p.overrun = aged.overrun /\ p.lcount = aged.lcount
      /\ p.blocks = aged.blocks /\ p.marks = aged.marks /\ p.old = aged.old
  <2>1. HasDropped(p, aged, Native!Flash)
    BY <1>3, Dropped
  <2> HIDE DEF p
  <2> QED BY <2>1 DEF HasDropped, Standing
<1> HIDE DEF p, z
<1>8. /\ z \in CacheState /\ Watched(z) /\ z.lcount = p.lcount
      /\ z.pre = p.pre /\ z.preOld = p.preOld /\ z.limit = p.limit
      /\ z.running = p.running /\ z.divert = p.divert
      /\ z.stale = p.stale /\ z.entered = p.entered /\ z.overrun = p.overrun
      /\ p.running # Native!None => z.old = p.old /\ z.pending = TRUE
      /\ p.running = Native!None => z.old = {} /\ z.pending = FALSE
  <2>1. HasFlushed(z, p)
    BY <1>2, <1>7, Flushed
  <2> QED BY <2>1 DEF HasFlushed, Standing
<1>9. z.preOld = {} /\ (z.pre # {} => "ram" \in z.divert)
  BY <1>1, <1>3, <1>6, <1>7, <1>8 DEF Sound
<1>10. z.limit = TRUE => \A b \in z.old : b.pc \notin Native!Ram
  <2>1. z.old \subseteq cache.old \union hit
    BY <1>3, <1>7, <1>8
  <2>2. z.limit = cache.limit
    BY <1>3, <1>7, <1>8
  <2> QED BY <1>1, <1>4, <2>1, <2>2 DEF Sound
<1>11. /\ z.running = cache.running /\ z.stale = cache.stale /\ z.entered = cache.entered
       /\ z.overrun = cache.overrun /\ z.lcount = cache.lcount
  BY <1>3, <1>7, <1>8
<1>12. /\ z.running # Native!None => z.pending = TRUE
       /\ z.running = Native!None => z.old = {} /\ z.pending = FALSE
  BY <1>8
<1>13. Sound(z)
  BY <1>1, <1>9, <1>10, <1>11, <1>12 DEF Sound
<1> QED BY <1>8, <1>13 DEF CacheInv, z

\* What the invariant says of the runs' properties.
LEMMA CacheInvSays ==
    ASSUME CacheInv
    PROVE  /\ Native!CacheTypeOK /\ Native!NoStaleTranslation /\ Native!FlushNotForgotten
           /\ Native!BytesWatched /\ Native!BodyStaysInLoop
<1>1. cache \in CacheState /\ Watched(cache) /\ Sound(cache)
  BY DEF CacheInv
<1>2. Native!CacheTypeOK
  BY <1>1 DEF CacheState, Watched, Native!CacheTypeOK
<1>3. Native!NoStaleTranslation
  BY <1>1 DEF Sound, Native!NoStaleTranslation
<1>4. Native!FlushNotForgotten
  BY <1>1 DEF Sound, CacheState, Native!FlushNotForgotten
<1>5. Native!BytesWatched
  BY <1>1 DEF Watched, Watches, Native!BytesWatched
<1>6. Native!BodyStaysInLoop
  BY <1>1 DEF Sound, Native!BodyStaysInLoop
<1> QED BY <1>2, <1>3, <1>4, <1>5, <1>6

\* jit.c, memory.c and the table: whatever the guest stores, and whenever flash changes
\* under a running block, no block compiled from old bytes of RAM and no outdated entry of
\* the table runs, the dispatcher never finds an outdated block (a chain or a native loop
\* that is running when flash changes may go on through one), every compiled byte of RAM is
\* watched, and the dispatcher lets no loop body run past its end.
THEOREM CodeCacheInvariant ==
    ASSUME Native!CodeCacheAssumption
    PROVE  Native!CacheSpec =>
             [](/\ Native!CacheTypeOK /\ Native!NoStaleTranslation
                /\ Native!FlushNotForgotten /\ Native!BytesWatched
                /\ Native!BodyStaysInLoop)
<1>1. Native!CacheInit => CacheInv
  BY CacheInitOK
<1>2. CacheInv /\ [Native!CacheNext]_cache => CacheInv'
  <2> SUFFICES ASSUME CacheInv, [Native!CacheNext]_cache PROVE CacheInv'
    OBVIOUS
  <2>1. CASE Native!Dispatch
    BY <2>1, CacheDispatch
  <2>2. CASE Native!Chain
    BY <2>2, CacheChain
  <2>3. CASE Native!LoopNatively
    BY <2>3, CacheLoopNatively
  <2>4. CASE Native!Return
    BY <2>4, CacheReturn
  <2>5. CASE Native!Interpret
    BY <2>5, CacheInterpret
  <2>6. CASE \E byte \in CacheStores : Native!Store(byte)
    BY <2>6, CacheStore
  <2>7. CASE Native!FlashChange
    BY <2>7, CacheFlashChange
  <2>8. CASE UNCHANGED cache
    BY <2>8 DEF CacheInv, Watched, Sound
  <2> QED BY <2>1, <2>2, <2>3, <2>4, <2>5, <2>6, <2>7, <2>8 DEF Native!CacheNext
<1>3. CacheInv => /\ Native!CacheTypeOK /\ Native!NoStaleTranslation
                  /\ Native!FlushNotForgotten /\ Native!BytesWatched
                  /\ Native!BodyStaysInLoop
  BY CacheInvSays
<1> QED BY <1>1, <1>2, <1>3, PTL DEF Native!CacheSpec
=============================================================================
