----------------------------- MODULE RtcDomain ------------------------------
(***************************************************************************)
(* The RTC controller: its clock, alarm and watchdog, its power domains    *)
(* and sleep, and the register layout a target describes it by.            *)
(* Each part stands alone: dev is the state of the one being explored.     *)
(***************************************************************************)
EXTENDS Integers, FiniteSets, Sequences, SequencesExt

VARIABLE dev

-----------------------------------------------------------------------------
(***************************************************************************)
(* The always-on counter of the ESP32-S3 RTC controller (rtc_cntl.c), its  *)
(* sleep alarm and its staged watchdog, which are brought up to date only  *)
(* when something looks at them, and the deadline the session is given for *)
(* them.                                                                   *)
(*                                                                         *)
(* Time is CPU cycles since the last rtc_sync (lag); Slow ticks pass in    *)
(* every Cpu cycles and the fraction of a tick is kept.  What the session  *)
(* does at the end of a sleep is in Session.                               *)
(***************************************************************************)
CONSTANTS
    Slow, Cpu,     \* rtc_slow_clock_hz, rtc_cpu_hz
    CounterMod,    \* values of the counter (2^48 in the hardware)
    Stages,        \* FLEXE_TARGET_RTC_WDT_STAGE_MAX
    ClockHolds,         \* values of a stage's timeout register
    Acts,          \* the actions the last stage may be configured for
    MaxLag         \* cycles between two looks at the device

RtcClockAssumption ==
    /\ Slow \in Nat \ {0} /\ Cpu \in Nat \ {0} /\ CounterMod \in Nat \ {0}
    /\ Stages \in Nat \ {0} /\ ClockHolds \subseteq Nat /\ MaxLag \in Nat

Never == CounterMod * Cpu + MaxLag

\* flexe_rtc_cntl_create and flexe_rtc_cntl_application_handoff
ClockInit ==
    \E hold \in ClockHolds, last \in Acts :
       LET act == [k \in 0..(Stages - 1) |-> IF k + 1 < Stages THEN "interrupt" ELSE last] IN
       dev = [counter |-> 0, rem |-> 0, lag |-> 0, alarm |-> 0, armed |-> FALSE,
              raw |-> {}, ena |-> {}, line |-> FALSE, hold |-> hold, act |-> act,
              on |-> FALSE, pause |-> FALSE, stage |-> 0, ticks |-> 0, unlocked |-> FALSE,
              asleep |-> FALSE, resets |-> 0, due |-> Never]

-----------------------------------------------------------------------------
(* Lazy evaluation.                                                        *)

\* rtc_cntl_update_interrupt
UpdateInterrupt(d) == [d EXCEPT !.line = d.raw \intersect d.ena # {}]

\* rtc_wdt_active, rtc_wdt_paused, rtc_wdt_stage_hold (stage 0 has a
\* multiplier, here 2)
WdtActive(d) == d.stage < Stages /\ d.on
WdtPaused(d) == d.pause /\ d.asleep
StageHold(d) == IF d.hold = 0 THEN 1 ELSE IF d.stage = 0 THEN 2 * d.hold ELSE d.hold

\* rtc_advance_wdt: one stage's end
StageEnd(d) ==
    CASE d.act[d.stage] = "reset" ->
           [d EXCEPT !.ticks = 0, !.stage = Stages, !.resets = 1]
      [] d.act[d.stage] = "interrupt" ->
           [d EXCEPT !.ticks = 0, !.stage = @ + 1, !.raw = @ \union {"wdt"}]
      [] OTHER -> [d EXCEPT !.ticks = 0, !.stage = @ + 1]

Left(d) == IF d.ticks < StageHold(d) THEN StageHold(d) - d.ticks ELSE 1

AdvanceWdt(d, ticks) ==
    LET go[k \in 0..Stages] ==
            IF k = 0 THEN <<d, ticks>>
            ELSE LET was == go[k - 1]
                     e == was[1]
                     n == was[2]
                 IN  IF n = 0 \/ ~WdtActive(e) THEN was
                     ELSE IF n < Left(e) THEN <<[e EXCEPT !.ticks = @ + n], 0>>
                     ELSE <<StageEnd(e), n - Left(e)>>
    IN  IF WdtPaused(d) THEN d ELSE go[Stages][1]

\* rtc_sync after n cycles, with rtc_scaled_ticks
Sync(d, n) ==
    LET fraction == n * Slow + d.rem
        ticks == fraction \div Cpu
        w == AdvanceWdt([d EXCEPT !.counter = (@ + ticks) % CounterMod, !.rem = fraction % Cpu,
                                  !.lag = 0], ticks)
        rings == d.armed /\ (d.alarm - d.counter + CounterMod) % CounterMod <= ticks
    IN  IF n = 0 THEN d
        ELSE UpdateInterrupt(IF rings THEN [w EXCEPT !.armed = FALSE, !.alarm = 0, !.raw = @ \union {"alarm"}] ELSE w)

Synced == Sync(dev, dev.lag)

\* rtc_cycles_until_ticks
CyclesUntil(d, ticks) ==
    IF ticks = 0 \/ ticks * Cpu <= d.rem THEN 1
    ELSE (ticks * Cpu - d.rem + Slow - 1) \div Slow

\* flexe_rtc_cntl_next_event of a synced device, in cycles from now
NextEvent(d) ==
    LET wdt   == IF WdtActive(d) /\ ~WdtPaused(d) THEN {CyclesUntil(d, Left(d))} ELSE {}
        alarm == IF d.armed THEN {CyclesUntil(d, (d.alarm - d.counter + CounterMod) % CounterMod)} ELSE {}
        all   == wdt \union alarm \union {Never}
    IN  CHOOSE c \in all : \A e \in all : c <= e

\* rtc_cntl_notify: the session asks for the next event again
Notify(d) == [d EXCEPT !.due = NextEvent(d)]

\* A register access: sync, and notify when that changed something
Looked ==
    LET d == Synced
    IN  IF d.raw # dev.raw \/ d.armed # dev.armed \/ d.stage # dev.stage \/ d.resets # dev.resets
        THEN Notify(d) ELSE d

-----------------------------------------------------------------------------
(* Cycles pass; the session evaluates at the deadline.                     *)

\* One CPU cycle, but not past the deadline.
Cycle == dev.lag < MaxLag /\ dev.due > 0 /\ dev' = [dev EXCEPT !.lag = @ + 1, !.due = IF @ = Never THEN @ ELSE @ - 1]

\* flexe_rtc_cntl_eval at the deadline, and the next event
Eval == dev.due = 0 /\ dev' = Notify(Synced)

\* rtc_cntl_read, and writes that change nothing of this module
Access == dev.lag > 0 /\ dev' = Looked

-----------------------------------------------------------------------------
(* rtc_cntl_write.                                                         *)

\* SLP_TIMER0 and SLP_TIMER1 in one: the alarm's value, and its enable strobe
\* (the value is kept as 0 while the alarm is not armed: every write that arms
\* it also gives it one)
WriteAlarm(value, enable) ==
    LET armed == Looked.armed \/ enable
    IN  dev' = Notify([Looked EXCEPT !.alarm = IF armed THEN value ELSE 0, !.armed = armed])

\* WDTCONFIG0 while unlocked; a watchdog that was not active starts over
WriteWdtConfig(on, pause) ==
    LET d == Looked
        e == [d EXCEPT !.on = on, !.pause = pause]
    IN  dev' = IF ~d.unlocked THEN d
               ELSE Notify(IF ~WdtActive(d) /\ WdtActive(e) THEN [e EXCEPT !.stage = 0, !.ticks = 0] ELSE e)

\* WDTFEED
Feed ==
    LET d == Looked
    IN  dev' = IF ~d.unlocked THEN d ELSE Notify([d EXCEPT !.stage = 0, !.ticks = 0])

\* WDTWPROTECT
WriteProtect(unlocked) == dev' = [Looked EXCEPT !.unlocked = unlocked]

\* SLEEP_STATE: SLEEP_ENA set by the guest
EnterSleep(on) ==
    LET d == Looked
    IN  dev' = IF d.asleep = on THEN d ELSE Notify([d EXCEPT !.asleep = on])

\* flexe_rtc_cntl_finish_wake: the last interval counts as asleep
ClockFinishWake ==
    /\ dev.asleep
    /\ dev' = Notify(UpdateInterrupt([Synced EXCEPT !.asleep = FALSE, !.armed = FALSE, !.alarm = 0,
                                                    !.raw = @ \union {"wake"}]))

\* INT_ENA and INT_CLR
WriteEna(on) == dev' = UpdateInterrupt([Looked EXCEPT !.ena = IF on THEN {"wdt", "alarm", "wake"} ELSE {}])
WriteClr == dev' = UpdateInterrupt([Looked EXCEPT !.raw = {}])

ClockNext ==
    \/ Cycle \/ Eval \/ Access \/ Feed \/ ClockFinishWake \/ WriteClr
    \/ \E v \in 0..(CounterMod - 1), on \in BOOLEAN : WriteAlarm(v, on)
    \/ \E on, pause \in BOOLEAN : WriteWdtConfig(on, pause)
    \/ \E on \in BOOLEAN : WriteProtect(on) \/ EnterSleep(on) \/ WriteEna(on)

ClockSpec == ClockInit /\ [][ClockNext]_dev

-----------------------------------------------------------------------------
ClockTypeOK ==
    /\ dev.counter \in 0..(CounterMod - 1) /\ dev.rem \in 0..(Cpu - 1)
    /\ dev.stage \in 0..Stages /\ dev.due \in 0..Never

(* rtc_cntl_update_interrupt and its callers: once the device is looked at,  *)
(* its line is up exactly while an enabled condition is latched.             *)
IrqExact == dev.line <=> dev.raw \intersect dev.ena # {}

(* rtc_sync: looking at the device after n cycles leaves it as looking at it *)
(* on every cycle would, several watchdog stages and the alarm included, so  *)
(* what the guest sees does not depend on when anyone looked.                *)
SyncAdditive ==
    \A n \in 1..(Cpu + 1) : Sync(dev, n) = Sync(Sync(dev, n - 1), 1)

(* flexe_rtc_cntl_next_event: nothing happens before the cycle it names, and *)
(* something does at that cycle.                                             *)
Same(d, e) == d.raw = e.raw /\ d.armed = e.armed /\ d.stage = e.stage
DeadlineExact ==
    LET d == Synced
        n == NextEvent(d)
    IN  n # Never =>
           /\ \A k \in 1..(n - 1) : Same(Sync(d, k), d)
           /\ ~Same(Sync(d, n), d)

(* rtc_cntl_notify: every write that can bring the next event forward tells  *)
(* the session, so the deadline it holds is never later than the event.      *)
NoEventLate ==
    \/ dev.due <= dev.lag
    \/ \A k \in 0..(dev.due - 1) : k <= Cpu => Same(Sync(dev, dev.lag + k), Synced)

-----------------------------------------------------------------------------
(***************************************************************************)
(* The power side of the RTC controller (rtc_cntl.c): digital and RTC      *)
(* domains, their isolation, the supplies, the analog and option controls  *)
(* and the pad holds, which other devices hear of through listeners, and   *)
(* the life of a sleep request from SLEEP_ENA to the wake.                 *)
(*                                                                         *)
(* Each control word is the set of its fields that are set.  There is one  *)
(* digital domain (the CPU's), one RTC domain, which may follow it, one    *)
(* supply in each word that has some, one RTC pad and one digital pad.  In  *)
(* one behaviour the guest writes the words of one part: the domains, the  *)
(* controls, or those of a sleep.                                          *)
(* Time is in RtcClock.                                                    *)
(***************************************************************************)
CONSTANTS
    Sources,     \* wake sources the guest may enable
    Devices      \* sources some device has registered

Native == {"timer", "ext0", "ext1"}

RtcPowerAssumption == Devices \intersect Native = {}

-----------------------------------------------------------------------------
(* What the words mean.                                                    *)

\* rtc_supply_powered, rtc_force_pair_set
SupplyPowered(word) == "down" \notin word
ForcePairSet(word) == "set" \in word

\* rtc_digital_domain_powered, flexe_rtc_cntl_isolated_digital_domains
DigitalPowered(d) ==
    /\ "down" \notin d.digital_power
    /\ "up" \in d.digital_power \/ ~d.sleep_ena \/ "sleep_down" \notin d.digital_power

DigitalIsolated(d) ==
    \/ "force_iso" \in d.digital_iso
    \/ "force_noiso" \notin d.digital_iso /\ ~DigitalPowered(d)

\* rtc_power_domain_powered, flexe_rtc_cntl_isolated_rtc_domains
RtcPowered(d) ==
    /\ "down" \notin d.rtc_power
    /\ \/ "up" \in d.rtc_power
       \/ IF "follow_cpu" \in d.rtc_power THEN DigitalPowered(d)
          ELSE ~d.sleep_ena \/ "sleep_down" \notin d.rtc_power

RtcIsolated(d) ==
    \/ "force_iso" \in d.rtc_power
    \/ "force_noiso" \notin d.rtc_power /\ ~RtcPowered(d)

\* rtc_all_pad_hold_pins
PowerPadHolds(d) ==
    (IF "pad_hold" \in d.rtc_power \/ "rtc" \in d.hold THEN {"rtc"} ELSE {})
    \union (IF ("hold" \in d.digital_iso /\ "unhold" \notin d.digital_iso) \/ "digital" \in d.hold
            THEN {"digital"} ELSE {})

\* flexe_rtc_cntl_control_state
ControlState(d) ==
    <<SupplyPowered(d.options), ForcePairSet(d.options), "control" \in d.analog,
      SupplyPowered(d.analog), ForcePairSet(d.digital_iso), "autohold_enable" \in d.digital_iso>>

-----------------------------------------------------------------------------
(* The publish operations.                                                 *)

PublishDigital(d) == [d EXCEPT !.heard.digital = <<DigitalPowered(d), DigitalIsolated(d)>>]
PublishRtc(d) == [d EXCEPT !.heard.rtc = <<RtcPowered(d), RtcIsolated(d)>>]
PublishSupplies(d) == [d EXCEPT !.heard.supplies = SupplyPowered(d.regulator)]
PublishHolds(d) == [d EXCEPT !.heard.holds = PowerPadHolds(d)]

\* rtc_cntl_publish_controls_if_changed; old is the device before the write
PublishControls(old, d) ==
    IF ControlState(old) = ControlState(d) THEN d ELSE [d EXCEPT !.heard.controls = ControlState(d)]

RtcChanged(old, d) == RtcPowered(old) # RtcPowered(d) \/ RtcIsolated(old) # RtcIsolated(d)
PublishRtcIfChanged(old, d) == IF RtcChanged(old, d) THEN PublishRtc(d) ELSE d

\* flexe_rtc_cntl_create, then the listeners' registration, which tells each
\* of them the state at once
PowerInit ==
    \E part \in {"domains", "controls", "sleep"} :
    \E d \in {[digital_power |-> {}, digital_iso |-> {"unhold", "autohold"}, rtc_power |-> {},
               regulator |-> {}, options |-> {}, analog |-> {}, hold |-> {}, part |-> part,
               sleep_ena |-> FALSE, woken |-> FALSE, requested |-> FALSE, asleep |-> "no",
               armed |-> FALSE, rung |-> FALSE, enable |-> {}, cause |-> {}, ext1_select |-> {},
               ext1_status |-> {}, ext1_any_high |-> TRUE, refused |-> FALSE,
               heard |-> [digital |-> <<TRUE, FALSE>>, rtc |-> <<TRUE, FALSE>>, supplies |-> TRUE,
                          holds |-> {}, controls |-> <<>>]]} :
        dev = [d EXCEPT !.heard.controls = ControlState(d)]

-----------------------------------------------------------------------------
(* rtc_cntl_write of the control words, by a running guest.                *)

Running == dev.asleep = "no"

\* DIG_PWC: an RTC domain that follows the CPU changes with it
WriteDigitalPower(word) ==
    /\ Running
    /\ LET d == [dev EXCEPT !.digital_power = word]
       IN  dev' = IF word = dev.digital_power THEN dev ELSE PublishRtcIfChanged(dev, PublishDigital(d))

\* PWC: the hold listener first, then the domains
WriteRtcPower(word) ==
    /\ Running
    /\ LET d == [dev EXCEPT !.rtc_power = word]
           h == IF ("pad_hold" \in word) # ("pad_hold" \in dev.rtc_power) THEN PublishHolds(d) ELSE d
       IN  dev' = IF word \ {"pad_hold"} = dev.rtc_power \ {"pad_hold"} THEN h
                  ELSE PublishRtcIfChanged(dev, h)

\* DIG_ISO: the clear strobe takes the autohold status with it
WriteDigitalIso(word, strobe) ==
    /\ Running
    /\ LET next == (word \ {"autohold"}) \union (IF strobe THEN {} ELSE dev.digital_iso \intersect {"autohold"})
           d == [dev EXCEPT !.digital_iso = next]
           bits == {"hold", "unhold"}
           h == IF next \intersect bits # dev.digital_iso \intersect bits THEN PublishHolds(d) ELSE d
           i == IF DigitalPowered(dev) # DigitalPowered(d) \/ DigitalIsolated(dev) # DigitalIsolated(d)
                THEN PublishDigital(h) ELSE h
       IN  dev' = PublishControls(dev, i)

\* REG, OPTIONS0, ANA_CONF
WriteRegulator(word) ==
    /\ Running
    /\ LET d == [dev EXCEPT !.regulator = word]
       IN  dev' = IF SupplyPowered(word) # SupplyPowered(dev.regulator) THEN PublishSupplies(d) ELSE d

WriteOptions(word) == Running /\ dev' = PublishControls(dev, [dev EXCEPT !.options = word])
WriteAnalog(word) == Running /\ dev' = PublishControls(dev, [dev EXCEPT !.analog = word])

\* PAD_HOLD and DIG_PAD_HOLD
WriteHold(pads) ==
    /\ Running
    /\ dev' = IF pads = dev.hold THEN dev ELSE PublishHolds([dev EXCEPT !.hold = pads])

-----------------------------------------------------------------------------
(* Sleep.                                                                  *)

\* rtc_supported_wakeup_mask and the rest of what makes a request acceptable
Acceptable(d) ==
    /\ d.enable # {} /\ d.enable \subseteq Native \union Devices
    /\ "timer" \in d.enable => d.armed \/ d.rung
    /\ "ext1" \in d.enable => d.ext1_select # {}

WriteWakeup(sources) == Running /\ dev' = [dev EXCEPT !.enable = sources]
ArmAlarm == Running /\ dev' = [dev EXCEPT !.armed = TRUE]
AckAlarm == Running /\ dev' = [dev EXCEPT !.rung = FALSE]
WriteExt1(select, any_high, clear) ==
    /\ Running
    /\ dev' = [dev EXCEPT !.ext1_select = select, !.ext1_any_high = any_high,
                          !.ext1_status = IF clear THEN {} ELSE @]

\* SLEEP_STATE: a request that could not end is refused, and said so
WriteSleepState(ena) ==
    /\ Running
    /\ LET d == [dev EXCEPT !.sleep_ena = ena, !.woken = IF ena THEN FALSE ELSE @,
                            !.requested = ena /\ Acceptable(dev),
                            !.refused = ena /\ ~Acceptable(dev)]
       IN  dev' = IF d.sleep_ena = dev.sleep_ena /\ d.woken = dev.woken THEN d
                  ELSE PublishRtcIfChanged(dev, PublishDigital(d))

\* flexe_rtc_cntl_take_sleep_request: the guest may have changed the sources
\* since it asked, so they are looked at again
TakeRequest ==
    /\ Running /\ dev.requested
    /\ dev' = [dev EXCEPT !.requested = FALSE,
                          !.asleep = IF ~Acceptable(dev) THEN "no"
                                     ELSE IF "sleep_down" \in dev.digital_power THEN "deep" ELSE "light"]

\* The alarm rings, asleep or not (rtc_sync)
Ring == dev.armed /\ dev' = [dev EXCEPT !.armed = FALSE, !.rung = TRUE]

\* flexe_rtc_cntl_poll_wake with the levels the host finds
Causes(d, ext0, high, asserted) ==
    LET sel == high \intersect d.ext1_select
    IN  (IF "ext0" \in d.enable /\ ext0 THEN {"ext0"} ELSE {})
        \union (IF /\ "ext1" \in d.enable /\ d.ext1_select # {}
                   /\ IF d.ext1_any_high THEN sel # {} ELSE sel = {}
                THEN {"ext1"} ELSE {})
        \union (d.enable \intersect Devices \intersect asserted)

\* flexe_rtc_cntl_finish_wake
PowerFinishWake(d, causes) ==
    LET e == [d EXCEPT !.cause = causes, !.sleep_ena = FALSE, !.woken = TRUE, !.armed = FALSE,
                       !.requested = FALSE, !.asleep = "no"]
    IN  PublishRtcIfChanged(d, PublishDigital(e))

\* The session polls; the timer is a cause once it has rung
PollWake(ext0, high, asserted) ==
    /\ dev.asleep = "light"
    /\ LET sel == high \intersect dev.ext1_select
           hit == Causes(dev, ext0, high, asserted)
           causes == hit \union (IF "timer" \in dev.enable /\ dev.rung THEN {"timer"} ELSE {})
           d == IF "ext1" \in hit
                THEN [dev EXCEPT !.ext1_status = IF dev.ext1_any_high THEN sel ELSE dev.ext1_select]
                ELSE dev
       IN  dev' = IF causes = {} THEN d ELSE PowerFinishWake(d, causes)

\* A deep sleep ends in a reset: the words start over, EXT1's status and the
\* cause survive (retained_snapshot, retained_restore, set_wake_state)
DeepWake(source) ==
    /\ dev.asleep = "deep" /\ source \in dev.enable
    /\ source = "timer" => dev.rung
    /\ \E d \in {[dev EXCEPT !.digital_power = {}, !.digital_iso = {"unhold", "autohold"},
                             !.rtc_power = {}, !.regulator = {}, !.options = {}, !.analog = {},
                             !.hold = {}, !.sleep_ena = FALSE, !.woken = FALSE, !.asleep = "no",
                             !.armed = FALSE, !.rung = FALSE, !.enable = {}, !.cause = {source},
                             !.ext1_select = {}, !.ext1_any_high = TRUE, !.refused = FALSE,
                             !.ext1_status = IF source = "ext1" THEN dev.ext1_select ELSE @]} :
          dev' = [PublishDigital(PublishRtc(PublishSupplies(PublishHolds(d))))
                     EXCEPT !.heard.controls = ControlState(d)]

PowerNext ==
    \/ /\ dev.part # "controls"
       /\ \E w \in {{}, {"up"}, {"down"}, {"sleep_down"}} : WriteDigitalPower(w)
    \/ /\ dev.part # "sleep"
       /\ \E w \in {{}, {"down"}, {"follow_cpu"}, {"sleep_down"}, {"pad_hold"}, {"sleep_down", "force_noiso"}} :
             WriteRtcPower(w)
    \/ /\ dev.part # "sleep"
       /\ \E w \in {{"unhold"}, {"hold"}, {"force_iso"}, {"set", "autohold_enable"}}, s \in BOOLEAN :
             WriteDigitalIso(w, s)
    \/ /\ dev.part = "controls"
       /\ \/ \E w \in {{}, {"down"}} : WriteRegulator(w) \/ WriteOptions(w) \/ WriteAnalog(w)
          \/ \E pads \in SUBSET {"rtc", "digital"} : WriteHold(pads)
    \/ /\ dev.part = "sleep"
       /\ \/ ArmAlarm \/ AckAlarm
          \/ \E sel \in {{}, {"p"}}, high, c \in BOOLEAN : WriteExt1(sel, high, c)
    \/ dev.part = "sleep" /\ \E s \in SUBSET Sources : WriteWakeup(s)
    \/ dev.part = "domains" /\ WriteWakeup(Devices)
    \/ dev.part # "controls" /\ \E ena \in BOOLEAN : WriteSleepState(ena)
    \/ TakeRequest \/ Ring
    \/ \E ext0 \in BOOLEAN, high \in {{}, {"p"}}, a \in SUBSET Devices : PollWake(ext0, high, a)
    \/ \E s \in Sources : DeepWake(s)

PowerSpec == PowerInit /\ [][PowerNext]_dev

-----------------------------------------------------------------------------
PowerTypeOK ==
    /\ dev.asleep \in {"no", "light", "deep"} /\ dev.enable \subseteq Sources
    /\ dev.cause \subseteq Sources /\ dev.ext1_status \subseteq {"p"}

(* The publish calls of rtc_cntl_write and flexe_rtc_cntl_finish_wake: what  *)
(* each listener was last told is the state as it is, whichever word, sleep  *)
(* or wake changed it.                                                       *)
ListenersCurrent ==
    /\ dev.heard.digital = <<DigitalPowered(dev), DigitalIsolated(dev)>>
    /\ dev.heard.rtc = <<RtcPowered(dev), RtcIsolated(dev)>>
    /\ dev.heard.supplies = SupplyPowered(dev.regulator)
    /\ dev.heard.holds = PowerPadHolds(dev)
    /\ dev.heard.controls = ControlState(dev)

(* flexe_rtc_cntl_take_sleep_request: the session never goes to sleep with   *)
(* no way to wake: some enabled source can still assert.                     *)
CanWake ==
    dev.asleep # "no" =>
       \/ dev.enable \intersect ({"ext0"} \union Devices) # {}
       \/ "ext1" \in dev.enable /\ dev.ext1_select # {}
       \/ "timer" \in dev.enable /\ (dev.armed \/ dev.rung)

-----------------------------------------------------------------------------
(***************************************************************************)
(* How rtc_cntl.c admits a target's description of the RTC controller: the *)
(* registers' offsets and the control words' fields are data of the target *)
(* (target.c), rtc_cntl_geometry_valid refuses a description that the      *)
(* handlers could not decode, and rtc_cntl_read and rtc_cntl_write then    *)
(* test the offset against one register after another.                     *)
(*                                                                         *)
(* A description starts with every register and field at a place of its    *)
(* own; registers and fields are then put on another's place (MaxMoves).   *)
(* Reset values, clock rates and the address window are left out.          *)
(***************************************************************************)
CONSTANT MaxMoves

RtcLayoutAssumption == MaxMoves \in Nat

Times == {"time_update", "time_low", "time_high"}
Ints == {"int_enable", "int_raw", "int_status", "int_clear"}
IntPair == {"int_enable_set", "int_enable_clear"}
WdtConfigs == {"wdt_config0", "wdt_config1"}
LayoutHolds == {"rtc_pad_hold", "digital_pad_hold"}
Stores == {"store0", "store1"}
Stalls == {"stall_options", "stall_high"}
Sleeps == {"sleep_timer_low", "sleep_timer_high", "sleep_state", "wakeup_state", "digital_power",
           "wakeup_cause", "regulator", "rtc_power", "digital_iso", "ext_wakeup_config",
           "ext1_select", "ext1_status", "brownout"}
Sequenced == {"sequence0", "sequence1"}
Configs == {"config0", "config1"}

\* The parts of the controller that a target may leave out
Options == {"int_pair", "holds", "stall", "sleep", "usb"}

\* The order in which rtc_cntl_read tests an offset
ReadOrder ==
    <<"store0", "store1", "sequence0", "sequence1", "config0", "config1", "wdt_config0",
      "wdt_config1", "time_update", "time_low", "time_high", "reset_state", "sleep_timer_low",
      "sleep_timer_high", "sleep_state", "wakeup_state", "digital_power", "wakeup_cause",
      "regulator", "rtc_power", "digital_iso", "ext_wakeup_config", "ext1_select", "ext1_status",
      "brownout", "stall_options", "stall_high", "clock_conf", "analog_conf", "date", "usb_conf",
      "int_enable", "int_raw", "int_status", "int_clear", "int_enable_set", "int_enable_clear",
      "wdt_feed", "wdt_protect", "rtc_pad_hold", "digital_pad_hold">>

\* The order of rtc_cntl_write: RESET_STATE is not writable
WriteOrder == SelectSeq(ReadOrder, LAMBDA r : r # "reset_state")

Registers == ToSet(ReadOrder)

\* The fields of three control words, one bit each; 0 is a field the target lacks
DomainPower == {"sleep_down", "up", "down"}
DomainIso == {"noiso", "iso"}
Domains == {1, 2}
PowerFields == Domains \X DomainPower
IsoFields == Domains \X DomainIso
IsoMisc == {"strobe", "read_only", "hold", "unhold", "pad_clear", "pad_set", "autohold", "clear", "set"}
IsoWord == IsoFields \union ({0} \X IsoMisc)
RtcWord == (Domains \X (DomainPower \union DomainIso \union {"follow_cpu"})) \union {<<0, "pad_hold">>}

Fields == [word : {"power"}, f : PowerFields] \union [word : {"iso"}, f : IsoWord]
          \union [word : {"rtc"}, f : RtcWord]

\* A place for every field, different in each word
FieldNames == <<"sleep_down", "up", "down", "noiso", "iso", "follow_cpu", "pad_hold", "strobe",
                "read_only", "hold", "unhold", "pad_clear", "pad_set", "autohold", "clear", "set">>

LayoutInit ==
    \E opts \in {Options} \union {Options \ {o} : o \in Options} :
        dev = [off |-> [r \in Registers |-> CHOOSE i \in 1..Len(ReadOrder) : ReadOrder[i] = r],
               bit |-> [f \in Fields |-> Len(FieldNames) * f.f[1]
                                         + CHOOSE i \in 1..Len(FieldNames) : FieldNames[i] = f.f[2]],
               opts |-> opts, moves |-> 0, created |-> "no"]

-----------------------------------------------------------------------------
(* rtc_cntl_geometry_valid.                                                *)

Offs(l, S) == {l.off[r] : r \in S}
Apart(l, S) == \A r, q \in S : r # q => l.off[r] # l.off[q]
Clear(l, S, T) == Offs(l, S) \intersect Offs(l, T) = {}

\* The registers of an optional part, none when the target leaves it out
If(l, option, S) == IF option \in l.opts THEN S ELSE {}

\* rtc_interrupt_offset, rtc_wdt_offset, rtc_pad_hold_offset
Interrupts(l) == Ints \union If(l, "int_pair", IntPair)
Wdts == {"wdt_feed", "wdt_protect"} \union WdtConfigs
LayoutPadHolds(l) == If(l, "holds", LayoutHolds)
Sleeping(l) == If(l, "sleep", Sleeps)
Stalling(l) == If(l, "stall", Stalls)

\* What almost every later register is compared with
Common(l) == Times \union {"reset_state", "clock_conf", "analog_conf", "date"}
             \union Interrupts(l) \union Wdts \union LayoutPadHolds(l)

TimesValid(l) ==
    /\ Apart(l, Times \union {"reset_state"})
    /\ Clear(l, {"time_update", "time_low"}, {"clock_conf"})
    /\ Clear(l, Times \union {"reset_state", "clock_conf"}, Interrupts(l) \union Wdts)

\* rtc_hold_geometry_valid for both registers
HoldsValid(l) ==
    /\ Apart(l, LayoutPadHolds(l))
    /\ Clear(l, LayoutPadHolds(l), Times \union {"clock_conf", "reset_state", "date"} \union Interrupts(l) \union Wdts)

ClocksValid(l) ==
    /\ Apart(l, {"time_high", "clock_conf"}) /\ Apart(l, {"reset_state", "clock_conf"})
    /\ Apart(l, Ints) /\ Apart(l, {"wdt_feed", "wdt_protect"})
    /\ Clear(l, {"wdt_feed", "wdt_protect"}, Interrupts(l))

IntPairValid(l) ==
    LET pair == If(l, "int_pair", IntPair) IN Apart(l, pair) /\ Clear(l, pair, Ints)

AnalogValid(l) ==
    Clear(l, {"analog_conf"}, Common(l) \ {"analog_conf", "date"})

DateValid(l) == Clear(l, {"date"}, Common(l) \ {"date"})

WdtConfigsValid(l) ==
    /\ Apart(l, WdtConfigs)
    /\ Clear(l, WdtConfigs, (Common(l) \ WdtConfigs) \union {"wdt_feed", "wdt_protect"})

StoresValid(l) == Apart(l, Stores) /\ Clear(l, Stores, Common(l))

StallsValid(l) ==
    Apart(l, Stalling(l)) /\ Clear(l, Stalling(l), Common(l) \union Stores)

SleepsValid(l) ==
    /\ ("sleep" \in l.opts => "holds" \in l.opts)
    /\ Apart(l, Sleeping(l)) /\ Clear(l, Sleeping(l), Common(l) \union Stalling(l) \union Stores)

SequencesValid(l) ==
    /\ Apart(l, Sequenced)
    /\ Clear(l, Sequenced, Common(l) \union Stalling(l) \union Sleeping(l) \union Stores)

UsbValid(l) ==
    Clear(l, If(l, "usb", {"usb_conf"}),
          Common(l) \union Stalling(l) \union Stores \union Sequenced \union Sleeping(l))

\* The last loop, with rtc_existing_register_offset
ConfigsValid(l) ==
    /\ Apart(l, Configs)
    /\ Clear(l, Configs, Common(l) \union Stores \union Sequenced \union Stalling(l)
                         \union If(l, "usb", {"usb_conf"}) \union Sleeping(l))

\* The bits of some fields of one word
Bits(l, word, S) == {l.bit[[word |-> word, f |-> f]] : f \in S} \ {0}
Bit(l, word, f) == l.bit[[word |-> word, f |-> f]]

\* rtc_masks_disjoint
MasksDisjoint(l, word, S) == \A f, g \in S : f # g /\ Bit(l, word, f) # 0 => Bit(l, word, f) # Bit(l, word, g)

\* A domain's own fields: force up and down are there, isolation has both or none
DomainValid(l, word, isoword, d) ==
    /\ Bit(l, word, <<d, "up">>) # 0 /\ Bit(l, word, <<d, "down">>) # 0
    /\ (Bit(l, isoword, <<d, "noiso">>) = 0 <=> Bit(l, isoword, <<d, "iso">>) = 0)

\* rtc_power_domains_valid: each domain against itself and against the bits
\* of the force-hold field and of the domains before it
PowerDomainsValid(l) ==
    /\ Bit(l, "rtc", <<0, "pad_hold">>) # 0
    /\ \A d \in Domains :
          /\ DomainValid(l, "rtc", "rtc", d)
          /\ MasksDisjoint(l, "rtc", {f \in RtcWord : f[1] = d})
          /\ Bits(l, "rtc", {f \in RtcWord : f[1] = d})
                \intersect Bits(l, "rtc", {f \in RtcWord : f[1] < d}) = {}

\* rtc_digital_domains_valid: power fields in one word, isolation in another
DigitalDomainsValid(l) ==
    /\ \A m \in IsoMisc : Bit(l, "iso", <<0, m>>) # 0
    /\ \A d \in Domains :
          /\ DomainValid(l, "power", "iso", d)
          /\ MasksDisjoint(l, "power", {f \in PowerFields : f[1] = d})
          /\ MasksDisjoint(l, "iso", {f \in IsoFields : f[1] = d})
          /\ Bits(l, "power", {f \in PowerFields : f[1] = d})
                \intersect Bits(l, "power", {f \in PowerFields : f[1] < d}) = {}
          /\ Bits(l, "iso", {f \in IsoFields : f[1] = d})
                \intersect Bits(l, "iso", {f \in IsoFields : f[1] < d}) = {}
    /\ MasksDisjoint(l, "iso", {0} \X IsoMisc)
    /\ Bits(l, "iso", IsoFields) \intersect Bits(l, "iso", {0} \X IsoMisc) = {}

GeometryValid(l) ==
    /\ TimesValid(l) /\ HoldsValid(l) /\ ClocksValid(l) /\ IntPairValid(l) /\ AnalogValid(l)
    /\ DateValid(l) /\ WdtConfigsValid(l) /\ StoresValid(l) /\ StallsValid(l) /\ SleepsValid(l)
    /\ SequencesValid(l) /\ UsbValid(l) /\ ConfigsValid(l)
    /\ "sleep" \in l.opts => PowerDomainsValid(l) /\ DigitalDomainsValid(l)

-----------------------------------------------------------------------------
(* The description is written, then the controller is created.             *)

MoveRegister(r, q) ==
    dev' = [dev EXCEPT !.off[r] = dev.off[q], !.moves = @ + 1]

\* Onto another field's bit of the same word, or left out
MoveField(f, bit) ==
    /\ bit # dev.bit[f]
    /\ dev' = [dev EXCEPT !.bit[f] = bit, !.moves = @ + 1]

\* flexe_rtc_cntl_create
Create ==
    /\ dev.created = "no"
    /\ dev' = [dev EXCEPT !.created = IF GeometryValid(dev) THEN "yes" ELSE "refused"]

\* flexe_rtc_cntl_destroy; the same description may be used again
Destroy == dev.created # "no" /\ dev' = [dev EXCEPT !.created = "no"]

LayoutNext ==
    \/ /\ dev.created = "no" /\ dev.moves < MaxMoves
       \* offsets are only compared for equality: one of each pair is moved
       /\ \/ \E r, q \in Registers : dev.off[r] < dev.off[q] /\ MoveRegister(r, q)
          \/ \E f \in Fields :
                \E bit \in {0} \union {dev.bit[g] : g \in {h \in Fields : h.word = f.word}} :
                   MoveField(f, bit)
    \/ Create \/ Destroy

LayoutSpec == LayoutInit /\ [][LayoutNext]_dev

-----------------------------------------------------------------------------
LayoutTypeOK == dev.moves \in 0..MaxMoves /\ dev.created \in {"no", "yes", "refused"} /\ dev.opts \subseteq Options

Present(l) ==
    Registers \ ((IF "int_pair" \in l.opts THEN {} ELSE IntPair)
                 \union (IF "holds" \in l.opts THEN {} ELSE LayoutHolds)
                 \union (IF "stall" \in l.opts THEN {} ELSE Stalls)
                 \union (IF "sleep" \in l.opts THEN {} ELSE Sleeps)
                 \union (IF "usb" \in l.opts THEN {} ELSE {"usb_conf"}))

\* The register whose branch of the handler an offset reaches
Decode(l, order, offset) ==
    LET hits == {i \in 1..Len(order) : order[i] \in Present(l) /\ l.off[order[i]] = offset}
    IN  order[CHOOSE i \in hits : \A j \in hits : i <= j]

(* rtc_cntl_geometry_valid with rtc_cntl_read and rtc_cntl_write: in a       *)
(* controller that was created every register the target has is reached at   *)
(* its own offset, by reads and by writes, whatever parts it leaves out.     *)
EveryRegisterReached ==
    dev.created = "yes" =>
       \A r \in Present(dev) :
          /\ Decode(dev, ReadOrder, dev.off[r]) = r
          /\ (r # "reset_state" => Decode(dev, WriteOrder, dev.off[r]) = r)

(* The domain validators: in a controller that was created no bit of a       *)
(* control word is a field of two domains, or two fields of one.             *)
FieldsIndependent ==
    dev.created = "yes" /\ "sleep" \in dev.opts =>
       \A f, g \in Fields : f.word = g.word /\ f # g /\ dev.bit[f] # 0 => dev.bit[f] # dev.bit[g]
=============================================================================
