-------------------------------- MODULE Pins --------------------------------
(***************************************************************************)
(* The pins: GPIO interrupts, pads with their routing and holds, and the   *)
(* sigma-delta modulator that can drive one.                               *)
(* Each part stands alone: dev is the state of the one being explored.     *)
(***************************************************************************)
EXTENDS Integers, FiniteSets, FiniteSetsExt

VARIABLE dev

-----------------------------------------------------------------------------
(***************************************************************************)
(* The GPIO block of the ESP32 (peripherals.c): output latch, external     *)
(* input level, and per pin an interrupt type with a set of destinations   *)
(* (normal or NMI interrupt of either core).                               *)
(***************************************************************************)
CONSTANTS GpioPins

GpioTypes == {"off", "rise", "fall", "any", "low", "high"}
Kinds == {"intr", "nmi"}
Dests == {0, 1} \X Kinds        \* core, source

(* out, enable, in, status: the registers; type, ena: GPIO_PINn; level: the *)
(* four source levels, per core; told: the pin levels the host was told;    *)
(* edges: history - pins with an edge their type selects and no acknowledge *)
(* since.                                                                   *)

GpioTypeOK ==
    /\ dev.out \subseteq GpioPins /\ dev.in \subseteq GpioPins /\ dev.status \subseteq GpioPins
    /\ dev.type \in [GpioPins -> GpioTypes] /\ dev.ena \in [GpioPins -> SUBSET Dests]

GpioInit ==
    dev = [out |-> {}, in |-> {}, status |-> {}, type |-> [g \in GpioPins |-> "off"],
           ena |-> [g \in GpioPins |-> {}], level |-> [x \in Dests |-> FALSE],
           told |-> {}, edges |-> {}]
-----------------------------------------------------------------------------
\* gpio_latch_active_levels: a level trigger latches again at once.
ActiveLevels(d) ==
    {g \in GpioPins : /\ d.ena[g] # {}
                      /\ d.type[g] = (IF g \in d.in THEN "high" ELSE "low")}

\* gpio_routed_status
Routed(d, x) == {g \in d.status : x \in d.ena[g]}

BugIntrUpdate(d) ==     \* mutation: an acknowledge drops a level that is still active
    [d EXCEPT !.level = [x \in Dests |-> Routed(d, x) # {}]]

\* gpio_intr_update
IntrUpdate(d) ==
    LET e == [d EXCEPT !.status = @ \cup ActiveLevels(d)]
    IN  [e EXCEPT !.level = [x \in Dests |-> Routed(e, x) # {}]]
-----------------------------------------------------------------------------
\* gpio_write: OUT, OUT_W1TS, OUT_W1TC; changed pins are reported.
GpioWriteOut(out) == dev' = [dev EXCEPT !.out = out, !.told = out]
SetOut(mask) == GpioWriteOut(dev.out \cup mask)
ClearOut(mask) == GpioWriteOut(dev.out \ mask)

\* gpio_write: STATUS, STATUS_W1TS, STATUS_W1TC.
GpioWriteStatus(status) ==
    dev' = IntrUpdate([dev EXCEPT !.status = status, !.edges = @ \cap status])
SetStatus(mask) == GpioWriteStatus(dev.status \cup mask)
ClearStatus(mask) == GpioWriteStatus(dev.status \ mask)

\* gpio_write: GPIO_PINn.
GpioWritePin(g, type, ena) ==
    dev' = IntrUpdate([dev EXCEPT !.type[g] = type, !.ena[g] = ena])

\* periph_gpio_set_input: an unchanged level returns early.
GpioSetInput(g, high) ==
    LET in == IF high THEN dev.in \cup {g} ELSE dev.in \ {g}
        fire == dev.ena[g] # {} /\ dev.type[g] \in
                   IF high THEN {"rise", "any", "high"} ELSE {"fall", "any", "low"}
        d == [dev EXCEPT !.in = in, !.status = IF fire THEN @ \cup {g} ELSE @,
                         !.edges = IF fire THEN @ \cup {g} ELSE @]
    IN  dev' = IF in = dev.in THEN dev ELSE IntrUpdate(d)

GpioNext ==
    \/ \E mask \in SUBSET GpioPins : \/ GpioWriteOut(mask) \/ SetOut(mask) \/ ClearOut(mask)
                                     \/ GpioWriteStatus(mask) \/ SetStatus(mask) \/ ClearStatus(mask)
    \/ \E g \in GpioPins : \/ \E type \in GpioTypes, ena \in {{}, {<<1, "intr">>, <<0, "nmi">>}} :
                                 GpioWritePin(g, type, ena)
                           \/ \E high \in BOOLEAN : GpioSetInput(g, high)

GpioSpec == GpioInit /\ [][GpioNext]_dev
-----------------------------------------------------------------------------
\* Each core's normal and NMI source follows the latched status of the pins
\* routed there, and a level trigger that is still active cannot be
\* acknowledged away (gpio_intr_update).
LinesFollowStatus ==
    /\ \A x \in Dests : dev.level[x] <=> \E g \in dev.status : x \in dev.ena[g]
    /\ ActiveLevels(dev) \subseteq dev.status

\* An edge stays latched until the guest acknowledges that pin.
EdgesLatched == dev.edges \subseteq dev.status /\ dev.told = dev.out

-----------------------------------------------------------------------------
(***************************************************************************)
(* One pad of the ESP32-S3 GPIO block (gpio.c) and everything that can own *)
(* it: the software output latch, a peripheral signal of the GPIO matrix,  *)
(* the RTC domain, and a pad hold that freezes whatever was resolved.      *)
(* Levels are 0, 1 or Unknown (-1 in the code).                            *)
(***************************************************************************)
CONSTANTS
    PadRoutes,     \* subset of {"software", "signal", "signal_inv", "signal_oen"}
    PadTypes       \* interrupt types the guest selects

Unknown == 2
Levels == {0, 1, Unknown}
Undriven == [valid |-> FALSE, level |-> 0, enabled |-> 0]
NotOwned == [owned |-> FALSE, unknown |-> FALSE, output |-> 0, enabled |-> 0]
NotHeld == [on |-> FALSE, level |-> 0, enabled |-> 0]

(* out, enable, openDrain, route: registers of the pad; signal: the driven  *)
(* peripheral signal; rtc, held: the other owners; host: the external       *)
(* sample; ie: IO_MUX FUN_IE; input, unknown: the resolved input; type,     *)
(* status, irq: its interrupt.  told: what the output listener knows;       *)
(* edge: an edge the type selects was seen since the last acknowledge.      *)

PadInit ==
    dev = [out |-> 0, enable |-> 0, openDrain |-> FALSE, route |-> "software",
           signal |-> Undriven, rtc |-> NotOwned, held |-> NotHeld,
           host |-> Unknown, ie |-> TRUE, input |-> 0, unknown |-> FALSE,
           type |-> "off", status |-> FALSE, irq |-> FALSE,
           told |-> [level |-> 0, enabled |-> 0], edge |-> FALSE]

PadTypeOK ==
    /\ dev.out \in 0 .. 1 /\ dev.enable \in 0 .. 1 /\ dev.route \in PadRoutes
    /\ dev.host \in Levels /\ dev.input \in 0 .. 1
    /\ dev.told.level \in Levels /\ dev.told.enabled \in Levels
-----------------------------------------------------------------------------
\* flexe_gpio_pin_level
PinLevel(d) ==
    CASE d.held.on -> d.held.level
      [] ~d.held.on /\ d.rtc.owned -> IF d.rtc.unknown THEN Unknown ELSE d.rtc.output
      [] ~d.held.on /\ ~d.rtc.owned /\ d.route = "software" -> d.out
      [] OTHER -> IF ~d.signal.valid THEN Unknown
                  ELSE IF d.route = "signal_inv" THEN 1 - d.signal.level
                  ELSE d.signal.level

\* flexe_gpio_output_enabled: an open-drain pad drives only its low level.
OutputEnabled(d) ==
    LET fromSignal == d.route \in {"signal", "signal_inv"}
        source == IF fromSignal THEN IF d.signal.valid THEN d.signal.enabled ELSE Unknown
                  ELSE d.enable
    IN  CASE d.held.on -> d.held.enabled
          [] ~d.held.on /\ d.rtc.owned -> IF d.rtc.unknown THEN Unknown ELSE d.rtc.enabled
          [] OTHER -> IF source = 1 /\ d.openDrain
                      THEN IF PinLevel(d) = Unknown THEN Unknown ELSE 1 - PinLevel(d)
                      ELSE source

\* gpio_latch_active_levels and gpio_update_irq
UpdateIrq(d) ==
    LET active == /\ d.type = (IF d.input = 1 THEN "high" ELSE "low")
                  /\ ~d.rtc.owned /\ ~d.unknown /\ d.ie
        e == [d EXCEPT !.status = @ \/ active]
    IN  [e EXCEPT !.irq = e.status /\ d.type # "off"]

\* gpio_refresh_input_pin: an unknown producer is not an edge.
RefreshInput(d) ==
    LET enabled == OutputEnabled(d)
        drive == PinLevel(d)
        unknown == d.host = Unknown /\ (enabled = Unknown \/ drive = Unknown)
        level == IF d.host # Unknown THEN d.host
                 ELSE IF enabled = 1 /\ drive = 1 THEN 1 ELSE 0
        edge == ~d.unknown /\ ~unknown /\ level # d.input /\ ~d.rtc.owned /\ d.ie
        fire == edge /\ d.type \in IF level = 1 THEN {"rise", "high"} ELSE {"fall", "low"}
        e == [d EXCEPT !.input = level, !.unknown = unknown,
                       !.status = @ \/ fire, !.edge = @ \/ fire]
    IN  IF level = d.input /\ unknown = d.unknown THEN d ELSE UpdateIrq(e)

\* gpio_notify_pin: a held pad does not change.
NotifyPin(d) ==
    IF d.held.on THEN d
    ELSE LET e == RefreshInput(d)
         IN  [e EXCEPT !.told = [level |-> PinLevel(e), enabled |-> OutputEnabled(e)]]
-----------------------------------------------------------------------------
\* gpio_write: OUT and ENABLE registers notify the pins they change.
PadWriteOut(v) == dev' = IF v = dev.out THEN dev ELSE NotifyPin([dev EXCEPT !.out = v])
PadWriteEnable(v) == dev' = IF v = dev.enable THEN dev ELSE NotifyPin([dev EXCEPT !.enable = v])

\* gpio_write: STATUS registers.
PadWriteStatus(on) ==
    dev' = UpdateIrq([dev EXCEPT !.status = on, !.edge = @ /\ on])

\* gpio_write: GPIO_PINn.
PadWritePin(type, openDrain) ==
    LET d == [dev EXCEPT !.type = type, !.openDrain = openDrain]
    IN  dev' = UpdateIrq(IF openDrain # dev.openDrain THEN NotifyPin(d) ELSE d)

\* gpio_write: FUNC_OUT_SEL.
PadWriteRoute(route) ==
    dev' = IF route = dev.route THEN dev ELSE NotifyPin([dev EXCEPT !.route = route])

\* flexe_gpio_drive_output_signal: every pad routed to the signal is notified.
DriveSignal(signal) ==
    LET d == [dev EXCEPT !.signal = signal]
    IN  dev' = IF signal = dev.signal THEN dev
               ELSE IF dev.route # "software" THEN NotifyPin(d) ELSE d

\* flexe_gpio_set_rtc_state
SetRtcState(rtc) ==
    LET changed == \/ rtc.owned # dev.rtc.owned \/ rtc.unknown # dev.rtc.unknown
                   \/ (rtc.owned \/ dev.rtc.owned) /\ rtc # dev.rtc
        d == [dev EXCEPT !.rtc = rtc]
    IN  dev' = IF changed THEN NotifyPin(d) ELSE d

BugSetPadHold(on) ==        \* mutation: the release is not reported
    dev' = IF on THEN [dev EXCEPT !.held = [on |-> TRUE, level |-> PinLevel(dev),
                                            enabled |-> OutputEnabled(dev)]]
           ELSE [dev EXCEPT !.held = NotHeld]

\* flexe_gpio_set_pad_hold: the resolved pad is captured, and compared with
\* what has become of it on release.
SetPadHold(on) ==
    LET released == [dev EXCEPT !.held = NotHeld]
        differs == \/ PinLevel(released) # dev.held.level
                   \/ OutputEnabled(released) # dev.held.enabled
    IN  /\ on # dev.held.on
        /\ dev' = IF on THEN [dev EXCEPT !.held = [on |-> TRUE, level |-> PinLevel(dev),
                                                   enabled |-> OutputEnabled(dev)]]
                  ELSE IF differs THEN NotifyPin(released) ELSE released

\* flexe_gpio_pad_hold_restore after a reset of the digital domain: the pad is
\* held again at the level it had before the reset.
ResetAndRestore ==
    /\ dev.held.on
    /\ LET fresh == [dev EXCEPT !.out = 0, !.enable = 0, !.openDrain = FALSE,
                         !.route = "software", !.signal = Undriven, !.rtc = NotOwned,
                         !.host = Unknown, !.ie = TRUE, !.input = 0, !.unknown = FALSE,
                         !.type = "off", !.status = FALSE, !.irq = FALSE, !.edge = FALSE,
                         !.held = [on |-> TRUE, level |-> 0, enabled |-> 0],
                         !.told = [level |-> 0, enabled |-> 0]]
           again == [fresh EXCEPT !.held = dev.held]
       IN  dev' = IF again = fresh THEN fresh
                  ELSE [RefreshInput(again) EXCEPT
                          !.told = [level |-> dev.held.level, enabled |-> dev.held.enabled]]

\* flexe_gpio_set_input, flexe_gpio_set_input_enable
PadSetInput(level) == dev' = UpdateIrq(RefreshInput([dev EXCEPT !.host = level]))
SetInputEnable(on) ==
    dev' = IF on = dev.ie THEN dev ELSE UpdateIrq([dev EXCEPT !.ie = on])

Signals == {Undriven} \cup [valid : {TRUE}, level : 0 .. 1, enabled : 0 .. 1]
RtcStates == {NotOwned, [NotOwned EXCEPT !.owned = TRUE, !.unknown = TRUE]}
             \cup [owned : {TRUE}, unknown : {FALSE}, output : 0 .. 1, enabled : {1}]

PadNext ==
    \/ \E v \in 0 .. 1 : PadWriteOut(v) \/ PadWriteEnable(v) \/ PadSetInput(v)
    \/ \E on \in BOOLEAN : PadWriteStatus(on) \/ SetPadHold(on) \/ SetInputEnable(on)
    \/ \E type \in PadTypes, od \in BOOLEAN : PadWritePin(type, od)
    \/ \E route \in PadRoutes : PadWriteRoute(route)
    \/ \E signal \in Signals : DriveSignal(signal)
    \/ \E rtc \in RtcStates : SetRtcState(rtc)
    \/ ResetAndRestore

PadSpec == PadInit /\ [][PadNext]_dev
-----------------------------------------------------------------------------
\* The listener knows the pad as it resolves, whoever owns it and however
\* ownership moved, and a hold keeps it at what was resolved when it began,
\* also across a reset (gpio_notify_pin, flexe_gpio_set_pad_hold).
ListenerKnowsPad == dev.told = [level |-> PinLevel(dev), enabled |-> OutputEnabled(dev)]

\* The input the guest reads is the external sample or, without one, what the
\* pad itself drives; never a level left over from a former owner.
InputResolved ==
    IF dev.host # Unknown THEN dev.input = dev.host /\ ~dev.unknown
    ELSE /\ dev.unknown <=> PinLevel(dev) = Unknown \/ OutputEnabled(dev) = Unknown
         /\ dev.input = 1 <=> PinLevel(dev) = 1 /\ OutputEnabled(dev) = 1

\* The interrupt line is the latched status, an edge stays latched until it is
\* acknowledged.
LineFollowsStatus == (dev.irq <=> dev.status /\ dev.type # "off") /\ (dev.edge => dev.status)

-----------------------------------------------------------------------------
(***************************************************************************)
(* The sigma-delta modulator of the GPIO block (peripherals.c).  A channel *)
(* is not stepped: its level at any time follows from an anchor (time,     *)
(* accumulator, level) and its configuration, which a write re-anchors.    *)
(* Routes and enables of the pins decide what a host listener is told.     *)
(*                                                                         *)
(* The accumulator has Width values (256); one clock of prescaler 0 is one *)
(* cycle.  One channel; pins are numbered, the first routed one counts.    *)
(***************************************************************************)
CONSTANTS
    Width,          \* 2^8, the accumulator
    Increments,     \* duty + 128
    Prescalers,     \* the prescaler field
    SdmPins,           \* GPIO numbers
    MaxCycles

SigmaDeltaAssumption == Width \in Nat \ {0} /\ SdmPins \subseteq Nat /\ MaxCycles \in Nat

NoPin == 99
IncReset == Width \div 2     \* duty 0
PreReset == Max(Prescalers)
SdmRoutes == [on : BOOLEAN, inv : BOOLEAN]

(* now; inc, pre: the channel's config; anchor, acc0, level0: its anchor;   *)
(* route, enable: the GPIO block; last: what the listener was told last.    *)
(* acc, level, phase: history - a modulator stepped cycle by cycle.         *)

SdmInit ==
    dev = [now |-> 0, inc |-> IncReset, pre |-> PreReset,
           anchor |-> 0, acc0 |-> 0, level0 |-> FALSE,
           route |-> [g \in SdmPins |-> [on |-> FALSE, inv |-> FALSE]],
           enable |-> [g \in SdmPins |-> FALSE],
           last |-> [gpio |-> NoPin, inc |-> IncReset, pre |-> PreReset,
                     enabled |-> FALSE, inv |-> FALSE],
           acc |-> 0, level |-> FALSE, phase |-> 0]

SdmTypeOK ==
    /\ dev.acc0 \in 0 .. Width - 1 /\ dev.level0 \in BOOLEAN
    /\ dev.route \in [SdmPins -> SdmRoutes] /\ dev.enable \in [SdmPins -> BOOLEAN]
-----------------------------------------------------------------------------
\* sigmadelta_phase_at: the accumulator after the ticks since the anchor, and
\* whether the last of them carried.
PhaseAt(d) ==
    LET ticks == (d.now - d.anchor) \div (d.pre + 1)
        previous == (d.acc0 + ((ticks - 1) % Width) * d.inc) % Width
    IN  [acc |-> (d.acc0 + (ticks % Width) * d.inc) % Width,
         level |-> IF ticks = 0 THEN d.level0 ELSE previous + d.inc >= Width]

\* sigmadelta_sync_channel
SyncChannel(d) ==
    [d EXCEPT !.anchor = d.now, !.acc0 = PhaseAt(d).acc, !.level0 = PhaseAt(d).level]

\* sigmadelta_channel_gpio, sigmadelta_gpio_enabled
Output(d) ==
    LET routed == {g \in SdmPins : d.route[g].on}
        gpio == IF routed = {} THEN NoPin ELSE Min(routed)
    IN  [gpio |-> gpio, inc |-> d.inc, pre |-> d.pre,
         enabled |-> gpio # NoPin /\ d.enable[gpio],
         inv |-> gpio # NoPin /\ d.route[gpio].inv]

\* sigmadelta_emit_channel: the listener is told what changed.
Emit(d) == [d EXCEPT !.last = Output(d)]
-----------------------------------------------------------------------------
\* One cycle; the stepped modulator adds the increment every pre + 1 cycles.
Tick ==
    /\ dev.now < MaxCycles
    /\ LET step == dev.phase = dev.pre
       IN  dev' = [dev EXCEPT !.now = @ + 1, !.phase = IF step THEN 0 ELSE @ + 1,
                              !.acc = IF step THEN (@ + dev.inc) % Width ELSE @,
                              !.level = IF step THEN dev.acc + dev.inc >= Width ELSE @]

\* sigmadelta_write: the channel is re-anchored, so its prescaler restarts.
WriteChannel(inc, pre) ==
    dev' = Emit([SyncChannel(dev) EXCEPT !.inc = inc, !.pre = pre, !.phase = 0])

\* gpio_write of FUNC_OUT_SEL: sigmadelta_gpio_route_changed.
SdmWriteRoute(g, route) ==
    LET d == [dev EXCEPT !.route[g] = route]
    IN  dev' = IF dev.route[g].on \/ route.on THEN Emit(d) ELSE d

\* gpio_write of ENABLE: sigmadelta_gpio_enable_changed.
SdmWriteEnable(g, on) ==
    LET d == [dev EXCEPT !.enable[g] = on]
    IN  dev' = IF on # dev.enable[g] THEN Emit(d) ELSE d

\* sigmadelta_reset_state
Reset ==
    dev' = Emit([dev EXCEPT !.inc = IncReset, !.pre = PreReset, !.anchor = dev.now,
                            !.acc0 = 0, !.level0 = FALSE,
                            !.acc = 0, !.level = FALSE, !.phase = 0])

SdmNext ==
    \/ Tick
    \/ \E inc \in Increments, pre \in Prescalers : WriteChannel(inc, pre)
    \/ \E g \in SdmPins : \/ \E route \in SdmRoutes : SdmWriteRoute(g, route)
                          \/ \E on \in BOOLEAN : SdmWriteEnable(g, on)
    \/ Reset

SdmSpec == SdmInit /\ [][SdmNext]_dev
-----------------------------------------------------------------------------
\* The level computed from the anchor is the level of a modulator stepped cycle
\* by cycle, across any number of re-configurations (sigmadelta_phase_at).
PhaseExact == PhaseAt(dev) = [acc |-> dev.acc, level |-> dev.level]

\* The listener knows the output as it is: no route, enable or duty changes
\* behind its back (sigmadelta_emit_channel).
ListenerCurrent == dev.last = Output(dev)
=============================================================================
