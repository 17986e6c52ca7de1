---------------------------- MODULE PulseDevices ----------------------------
(***************************************************************************)
(* The devices that count or make pulses: pulse counter, motor PWM and     *)
(* LED PWM.                                                                *)
(* Each part stands alone: dev is the state of the one being explored.     *)
(***************************************************************************)
EXTENDS Integers, FiniteSets, FiniteSetsExt

VARIABLE dev

-----------------------------------------------------------------------------
(***************************************************************************)
(* A channel of the pulse counter (peripherals.c): a pulse and a control   *)
(* input from the GPIO matrix, each behind a glitch filter that accepts a  *)
(* level only after it has been stable for the programmed time, a signed   *)
(* counter with limits, and the events it latches.                         *)
(*                                                                         *)
(* Deadlines are kept as the time that is left.  A falling edge holds, a   *)
(* rising edge adds one, or subtracts one under a high control level.      *)
(***************************************************************************)
CONSTANTS
    FilterCycles,   \* pcnt_filter_cpu_cycles of the programmed threshold
    HighLimit,      \* counter limits; the low one is -LowLimit
    LowLimit,
    Threshold0

PcntAssumption == FilterCycles \in Nat \ {0} /\ HighLimit \in Nat /\ LowLimit \in Nat

Inputs == {"pulse", "control"}
Idle == FilterCycles + 1        \* no filter pending

(* pad: level of the routed pads; stable, left: accepted level and what is  *)
(* left of the filter; filter, paused, held: CONF0 and CTRL; count, events, *)
(* raw, ena, clock, reset, irq: registers and state.  age: history - how    *)
(* long the pad has had its level, up to FilterCycles.                      *)

PcntTypeOK ==
    /\ dev.pad \in [Inputs -> BOOLEAN] /\ dev.stable \in [Inputs -> BOOLEAN]
    /\ dev.left \in [Inputs -> 0 .. Idle]
    /\ dev.count \in -LowLimit .. HighLimit

PcntInit ==
    dev = [pad |-> [i \in Inputs |-> FALSE], stable |-> [i \in Inputs |-> FALSE],
           left |-> [i \in Inputs |-> Idle], filter |-> TRUE, paused |-> FALSE,
           held |-> FALSE, count |-> 0, events |-> {}, raw |-> FALSE, ena |-> FALSE,
           clock |-> TRUE, reset |-> FALSE, irq |-> FALSE, age |-> [i \in Inputs |-> FilterCycles]]
-----------------------------------------------------------------------------
\* pcnt_clocked
Clocked(d) == d.clock /\ ~d.reset

\* pcnt_update_irq
PcntUpdateIrq(d) == [d EXCEPT !.irq = Clocked(d) /\ d.raw /\ d.ena]

\* pcnt_unit_running: CTRL neither resets nor pauses the unit.
PcntRunning(d) == Clocked(d) /\ ~d.held /\ ~d.paused

\* pcnt_count_edge and pcnt_latch_events: a limit restarts the counter at zero.
CountEdge(d, rising) ==
    IF ~PcntRunning(d) \/ ~rising THEN d
    ELSE LET delta == IF d.stable["control"] THEN -1 ELSE 1
             candidate == d.count + delta
             high == delta > 0 /\ candidate >= HighLimit
             low == delta < 0 /\ candidate <= -LowLimit
             events == {e \in {"thres0", "zero", "high", "low"} :
                          \/ e = "thres0" /\ candidate = Threshold0
                          \/ e = "zero" /\ candidate = 0
                          \/ e = "high" /\ high
                          \/ e = "low" /\ low}
             c == [d EXCEPT !.count = IF high \/ low THEN 0 ELSE candidate]
         IN  IF events = {} THEN c
             ELSE PcntUpdateIrq([c EXCEPT !.events = events, !.raw = TRUE])

\* pcnt_accept_level: only the pulse input counts.
Accept(d, i) ==
    LET e == [d EXCEPT !.stable[i] = d.pad[i]]
    IN  IF i = "pulse" /\ d.stable[i] # d.pad[i] THEN CountEdge(e, d.pad[i]) ELSE e

\* pcnt_handle_signal_level
HandleLevel(d, i) ==
    LET direct == ~PcntRunning(d) \/ ~d.filter
    IN  IF direct THEN Accept([d EXCEPT !.left[i] = Idle], i)
        ELSE [d EXCEPT !.left[i] = IF d.pad[i] = d.stable[i] THEN Idle ELSE FilterCycles]

\* pcnt_rebind_signal
Rebind(d) == [d EXCEPT !.stable = d.pad, !.left = [i \in Inputs |-> Idle]]

\* pcnt_eval_filter: the pad is read again when its filter expires.
EvalFilter(d, i) ==
    IF d.left[i] # 0 THEN d ELSE Accept([d EXCEPT !.left[i] = Idle], i)

\* pcnt_eval_events: control first, so that a pulse sees the new control level.
PcntEvalEvents(d) == IF Clocked(d) THEN EvalFilter(EvalFilter(d, "control"), "pulse") ELSE d

\* pcnt_reset_state
PcntResetState(d) ==
    PcntUpdateIrq(Rebind([d EXCEPT !.filter = TRUE, !.paused = FALSE, !.held = TRUE,
                               !.count = 0, !.events = {}, !.raw = FALSE, !.ena = FALSE]))
-----------------------------------------------------------------------------
\* A cycle passes; the event hook runs in the cycle a filter expires.
Tick ==
    dev' = PcntEvalEvents(
        [dev EXCEPT !.left = [i \in Inputs |-> IF Clocked(dev) /\ @[i] \in 1 .. FilterCycles
                                               THEN @[i] - 1 ELSE @[i]],
                    !.age = [i \in Inputs |-> IF @[i] < FilterCycles THEN @[i] + 1 ELSE @[i]]])

\* pcnt_gpio_input_changed
PadChanged(i) ==
    dev' = HandleLevel([dev EXCEPT !.pad[i] = ~@, !.age[i] = 0], i)

\* pcnt_gpio_route_changed: another pad, its level is taken as it is.
RouteChanged(i, level) ==
    dev' = [dev EXCEPT !.pad[i] = level, !.stable[i] = level, !.left[i] = Idle,
                       !.age[i] = IF level = dev.pad[i] THEN @ ELSE 0]

\* pcnt_write: CONF0, CTRL, INT_ENA, INT_CLR.
PcntWriteConf0(filter) ==
    dev' = HandleLevel(HandleLevel([dev EXCEPT !.filter = filter], "pulse"), "control")
WriteCtrl(held, paused) ==
    dev' = [dev EXCEPT !.held = held, !.paused = paused,
                       !.count = IF held THEN 0 ELSE @, !.events = IF held THEN {} ELSE @]
PcntWriteIntEna(on) == dev' = PcntUpdateIrq([dev EXCEPT !.ena = on])
PcntWriteIntClr == dev' = PcntUpdateIrq([dev EXCEPT !.raw = FALSE])

\* pcnt_set_system_state
SetSystemState(clock, reset) ==
    LET d == [dev EXCEPT !.clock = clock, !.reset = reset]
    IN  dev' = IF reset /\ ~dev.reset THEN PcntResetState(d)
               ELSE PcntUpdateIrq(IF clock # dev.clock THEN Rebind(d) ELSE d)

PcntNext ==
    \/ Tick
    \/ \E i \in Inputs : PadChanged(i) \/ \E level \in BOOLEAN : RouteChanged(i, level)
    \/ \E on \in BOOLEAN : PcntWriteConf0(on) \/ PcntWriteIntEna(on)
    \/ \E held, paused \in BOOLEAN : WriteCtrl(held, paused)
    \/ PcntWriteIntClr
    \/ \E clock, reset \in BOOLEAN : SetSystemState(clock, reset)

PcntSpec == PcntInit /\ [][PcntNext]_dev
-----------------------------------------------------------------------------
\* The counter stays strictly inside its limits: the edge that reaches one
\* restarts it, whichever way it was counting (pcnt_count_edge).
WithinLimits == dev.count > -LowLimit /\ dev.count < HighLimit

\* A level that differs from the accepted one is always on its way to be
\* accepted, within the filter time: no edge is forgotten by a pause, a gated
\* clock or a new configuration; and the line follows the latched event.
NothingForgotten ==
    /\ dev.irq <=> Clocked(dev) /\ dev.raw /\ dev.ena
    /\ \A i \in Inputs : dev.pad[i] # dev.stable[i] => dev.left[i] \in 1 .. FilterCycles

\* A glitch is never counted: with the filter on, an edge counts only once its
\* level has lasted the filter time.
GlitchStep ==
    dev'.count # dev.count /\ dev.filter /\ dev'.filter /\ ~dev'.held
        => dev'.age["pulse"] >= FilterCycles
NoGlitchCounted == [][GlitchStep]_dev

-----------------------------------------------------------------------------
(***************************************************************************)
(* The motor-control PWM (peripherals.c), one timer driving one generator. *)
(* The code does not step the timer: it jumps from event to event, and     *)
(* over whole cycles when nothing can change, whenever a register is read  *)
(* or written or a deadline it announced is reached.  Period and compare   *)
(* values are shadowed and transferred at the event their update method    *)
(* names; faults override the generator cycle by cycle (cbc) or until the  *)
(* guest clears them (ost).                                                *)
(***************************************************************************)
CONSTANTS
    Periods,        \* values of TIMER_CFG0.period
    Compares,       \* values of GEN_TSTMP_A
    Operators,      \* the operators considered: [program : what the generator does,
                    \* "pulse" or "toggle", fault : what the pin raises, "cbc" or "ost"]
    PeriodMethods,  \* update methods: the sets of events a new period, or a new
    CompareMethods, \* compare value, waits for ({}: none, it is taken at once)
    Modes,          \* subset of {"up", "down", "updown"}
    Events,         \* the interrupt events the guest looks at
    MaxTicks        \* the longest time between two visits

McpwmAssumption ==
    /\ Periods \subseteq Nat \ {0} /\ Compares \subseteq Nat
    /\ Modes \subseteq {"up", "down", "updown"} /\ MaxTicks \in Nat
    /\ Operators \subseteq [program : {"pulse", "toggle"}, fault : {"cbc", "ost"}]
    /\ PeriodMethods \subseteq SUBSET {"tez", "sync"}
    /\ CompareMethods \subseteq SUBSET {"tez", "tep", "sync"} \cup {{"frozen"}}
    /\ Events \subseteq {"tez", "tep", "cmp", "stopped", "fault"}

\* The generator's actions at a zero, at the period, at a compare match, and when
\* the timer is synchronised (trigger t0 set to the timer's sync).
GeneratorActions(program) ==
    IF program = "pulse" THEN [tez |-> "high", tep |-> "keep", cmp |-> "low", sync |-> "high"]
    ELSE [tez |-> "keep", tep |-> "toggle", cmp |-> "keep", sync |-> "toggle"]
NoStop == "none"
Released == 2       \* no fault override

(* mode, period, phase, running, stop; next, pWait: the shadow period and    *)
(* the events it waits for; cmp, cmpNext, cWait: compare A; acts, level: the *)
(* generator; cbc, ost, cbcLevel, ostLevel: fault overrides; pin, cfg: fault *)
(* input and which fault it raises; raw, ena, irq, clock.                    *)

McpwmInit ==
    \E operator \in Operators :
        dev = [mode |-> "stop", period |-> Max(Periods), phase |-> 0, running |-> FALSE,
               stop |-> NoStop, next |-> Max(Periods), pWait |-> {},
               cmp |-> 0, cmpNext |-> 0, cWait |-> {},
               acts |-> GeneratorActions(operator.program), level |-> FALSE,
               cbc |-> FALSE, ost |-> FALSE, cbcLevel |-> Released, ostLevel |-> Released,
               pin |-> FALSE, cfg |-> operator.fault, raw |-> {}, ena |-> {}, irq |-> FALSE, clock |-> TRUE]

McpwmTypeOK ==
    /\ dev.phase \in 0 .. 2 * Max(Periods) /\ dev.period \in Periods
    /\ dev.level \in BOOLEAN /\ dev.running \in BOOLEAN
-----------------------------------------------------------------------------
\* mcpwm_timer_cycle, mcpwm_timer_count, mcpwm_timer_down
Cycle(d) == IF d.mode = "updown" THEN 2 * d.period ELSE d.period + 1
Count(d) ==
    LET phase == d.phase % Cycle(d)
    IN  CASE d.mode = "down" -> IF phase <= d.period THEN d.period - phase ELSE 0
          [] d.mode = "updown" /\ phase > d.period -> 2 * d.period - phase
          [] OTHER -> IF phase <= d.period THEN phase ELSE 0
Down(d) == d.mode = "down" \/ (d.mode = "updown" /\ d.phase > d.period)

\* mcpwm_set_timer_count
SetCount(d, count, down) ==
    LET c == IF count > d.period THEN d.period ELSE count
        phase == CASE d.mode = "down" -> d.period - c
                   [] d.mode = "updown" /\ down /\ c \notin {0, d.period} -> 2 * d.period - c
                   [] OTHER -> c
    IN  [d EXCEPT !.phase = phase % Cycle(d)]

\* mcpwm_transfer_period: the count survives a change of the period.
TakePeriod(d) == SetCount([d EXCEPT !.period = d.next, !.pWait = {}], Count(d), Down(d))
TransferPeriod(d, event) == IF event \in d.pWait THEN TakePeriod(d) ELSE d

\* mcpwm_transfer_operator
TakeCompare(d) == [d EXCEPT !.cmp = d.cmpNext, !.cWait = {}]
TransferOperator(d, event) == IF event \in d.cWait THEN TakeCompare(d) ELSE d

\* mcpwm_update_irq; an event nobody looks at need not be latched.
Latch(events) == events \cap Events
McpwmUpdateIrq(d) == [d EXCEPT !.irq = d.clock /\ d.raw \cap d.ena # {}]

\* mcpwm_apply_level_action
Apply(level, action) ==
    CASE action = "low" -> FALSE [] action = "high" -> TRUE
      [] action = "toggle" -> ~level [] OTHER -> level

\* mcpwm_forced_level: a one-shot override wins over a cycle-by-cycle one.
PinLevel(d) ==
    IF d.ost /\ d.ostLevel # Released THEN d.ostLevel = 1
    ELSE IF d.cbc /\ d.cbcLevel # Released THEN d.cbcLevel = 1
    ELSE d.level

FaultActive(d) == d.pin /\ d.cfg = "cbc"
ClearCbc(d) == [d EXCEPT !.cbc = FALSE, !.cbcLevel = Released]

\* mcpwm_timer_event, at the phase the timer has reached: shadow registers,
\* the generator, the end of a cycle-by-cycle fault, the requested stop.
TransferAt(d, tez, tep) ==
    LET e == IF tez THEN TransferOperator(TransferPeriod(d, "tez"), "tez") ELSE d
    IN  IF tep THEN TransferOperator(e, "tep") ELSE e

Generate(d, tez, tep) ==
    LET at == {x \in {"tez", "tep", "cmp"} : \/ x = "tez" /\ tez
                                             \/ x = "tep" /\ tep
                                             \/ x = "cmp" /\ d.cmp <= d.period /\ d.cmp = Count(d)}
        Act(level, x) == IF x \in at THEN Apply(level, d.acts[x]) ELSE level
    IN  [d EXCEPT !.level = Act(Act(Act(@, "tez"), "tep"), "cmp"), !.raw = @ \cup Latch(at)]

ReleaseCbc(d, tez) == IF d.cbc /\ ~FaultActive(d) /\ tez THEN ClearCbc(d) ELSE d

StopAt(d, tez, tep) ==
    IF (tez /\ d.stop = "tez") \/ (tep /\ d.stop = "tep")
    THEN [d EXCEPT !.running = FALSE, !.stop = NoStop, !.raw = @ \cup Latch({"stopped"})]
    ELSE d

TimerEvent(d) ==
    LET tez == Count(d) = 0
        tep == Count(d) = d.period
    IN  McpwmUpdateIrq(StopAt(ReleaseCbc(Generate(TransferAt(d, tez, tep), tez, tep), tez), tez, tep))

\* mcpwm_timer_next_event_ticks: from the phase to the next TEZ, TEP or match.
NextEventTicks(d) ==
    LET cycle == Cycle(d)
        match == IF d.cmp > d.period THEN {}
                 ELSE CASE d.mode = "down" -> {d.period - d.cmp}
                        [] d.mode = "updown" -> {d.cmp, 2 * d.period - d.cmp}
                        [] OTHER -> {d.cmp}
        Distance(x) == LET y == (x - d.phase) % cycle IN IF y = 0 THEN cycle ELSE y
    IN  Min({Distance(x) : x \in {y \in {0, d.period} \cup match : y < cycle}})

BugCanSkip(d) ==        \* mutation: a toggling waveform is skipped too
    d.pWait = {} /\ d.cWait = {} /\ d.stop = NoStop

\* mcpwm_timer_can_skip_cycles: not with work at a boundary or a toggle.
CanSkip(d) ==
    /\ d.pWait = {} /\ d.cWait = {} /\ d.stop = NoStop
    /\ \A x \in DOMAIN d.acts : d.acts[x] # "toggle"

\* mcpwm_advance_timer_ticks
AdvanceTicks(d, ticks) ==
    LET complete == ticks \div Cycle(d)
        rest == IF ticks > 2 * Cycle(d) /\ CanSkip(d) /\ complete > 1
                THEN ticks - (complete - 1) * Cycle(d) ELSE ticks
        visit[k \in 0 .. rest] ==
            IF k = 0 THEN [d |-> d, left |-> rest]
            ELSE LET v == visit[k - 1]
                     n == NextEventTicks(v.d)
                 IN  IF v.left = 0 \/ ~v.d.running THEN v
                     ELSE IF n > v.left
                     THEN [d |-> [v.d EXCEPT !.phase = (@ + v.left) % Cycle(v.d)], left |-> 0]
                     ELSE [d |-> TimerEvent([v.d EXCEPT !.phase = (@ + n) % Cycle(v.d)]),
                           left |-> v.left - n]
    IN  visit[rest].d

\* mcpwm_sync_timer_to: a stopped or unclocked timer lets the time go by.
SyncTo(d, ticks) ==
    IF ticks = 0 \/ ~d.running \/ d.mode = "stop" \/ ~d.clock THEN d ELSE AdvanceTicks(d, ticks)

\* mcpwm_next_fire: ticks to the next announced visit, 0 when there is none.
McpwmNextFire(d) ==
    IF d.running /\ d.mode # "stop" /\ d.clock
       /\ (d.ena \ d.raw # {} \/ d.stop # NoStop \/ d.pWait # {} \/ d.cWait # {})
    THEN NextEventTicks(d) ELSE 0
-----------------------------------------------------------------------------
\* Time passes up to a visit: any access, or the deadline announced before.
McpwmElapse(n) ==
    /\ McpwmNextFire(dev) = 0 \/ n <= McpwmNextFire(dev)
    /\ dev' = McpwmUpdateIrq(SyncTo(dev, n))

\* mcpwm_write_timer: TIMER_CFG0.
WritePeriod(period, method) ==
    LET d == [dev EXCEPT !.next = period, !.pWait = method]
    IN  dev' = IF method = {} THEN TakePeriod(d) ELSE d

\* mcpwm_write_timer: TIMER_CFG1 and mcpwm_start_timer; starting is an event, at
\* which a timer started for one period up to TEZ or TEP may stop at once.
StopAfter(command) ==
    CASE command \in {"stop_tez", "once_tez"} -> "tez"
      [] command \in {"stop_tep", "once_tep"} -> "tep"
      [] OTHER -> NoStop

WriteStart(mode, command) ==
    LET d == SetCount([dev EXCEPT !.mode = mode, !.stop = NoStop], Count(dev), Down(dev))
        e == CASE command \in {"stop_tez", "stop_tep"} /\ d.running ->
                    [d EXCEPT !.stop = StopAfter(command)]
               [] command \in {"start", "once_tez", "once_tep"} /\ mode # "stop" ->
                    [d EXCEPT !.running = TRUE, !.stop = StopAfter(command)]
               [] OTHER -> d
        started == ~dev.running /\ e.running
        f == IF started THEN TimerEvent(SetCount(e, IF mode = "down" THEN e.period ELSE 0,
                                                 mode = "down"))
             ELSE e
    IN  dev' = [f EXCEPT !.running = @ /\ mode # "stop"]

\* mcpwm_write_operator: the compare register and its update method.
WriteCompare(value, method) ==
    LET d == [dev EXCEPT !.cmpNext = value, !.cWait = method]
    IN  dev' = McpwmUpdateIrq(IF method = {} THEN TakeCompare(d) ELSE d)

\* mcpwm_write: UPDATE_CFG, mcpwm_flush_all.
Flush ==
    LET d == IF dev.pWait = {} THEN dev ELSE TakePeriod(dev)
    IN  dev' = IF dev.cWait = {} THEN d ELSE TakeCompare(d)

\* mcpwm_sync_timer: an external or software synchronisation transfers the shadows
\* that wait for it, sets the count and then triggers the operator.
SyncInput(phase, down) ==
    LET d == TransferOperator(SetCount(TransferPeriod(dev, "sync"), phase, down), "sync")
    IN  dev' = [d EXCEPT !.level = Apply(@, d.acts.sync)]

\* mcpwm_fault_transition and mcpwm_activate_operator_fault: the output is
\* forced low; a cycle-by-cycle fault ends with its input.
FaultPin ==
    LET d == [dev EXCEPT !.pin = ~@, !.raw = @ \cup Latch({"fault"})]
    IN  dev' = McpwmUpdateIrq(
            CASE d.pin /\ d.cfg = "cbc" -> [d EXCEPT !.cbc = TRUE, !.cbcLevel = 0]
              [] d.pin /\ d.cfg = "ost" -> [d EXCEPT !.ost = TRUE, !.ostLevel = 0]
              [] OTHER -> ClearCbc(d))

\* mcpwm_write_operator: FH_CFG1 raises a software fault or clears a one-shot.
SoftFault == dev' = McpwmUpdateIrq([dev EXCEPT !.cbc = TRUE, !.cbcLevel = 0, !.raw = @ \cup Latch({"fault"})])
ClearOneShot == dev' = McpwmUpdateIrq([dev EXCEPT !.ost = FALSE, !.ostLevel = Released])

McpwmWriteIntEna(mask) == dev' = McpwmUpdateIrq([dev EXCEPT !.ena = mask])
McpwmWriteIntClr == dev' = McpwmUpdateIrq([dev EXCEPT !.raw = {}])

\* mcpwm_set_system_state without a reset.
SetClock(on) == dev' = McpwmUpdateIrq([dev EXCEPT !.clock = on])

McpwmNext ==
    \/ \E n \in 1 .. MaxTicks : McpwmElapse(n)
    \/ \E p \in Periods, m \in PeriodMethods : WritePeriod(p, m)
    \/ \E mode \in Modes \cup {"stop"},
          c \in {"start", "once_tez", "once_tep", "stop_tez", "stop_tep", "none"} :
          WriteStart(mode, c)
    \/ \E v \in Compares, m \in CompareMethods : WriteCompare(v, m)
    \/ Flush \/ FaultPin \/ SoftFault \/ ClearOneShot \/ McpwmWriteIntClr
    \/ \E phase \in Compares, down \in BOOLEAN : SyncInput(phase, down)
    \/ \E mask \in {{}, Events} : McpwmWriteIntEna(mask)
    \/ \E on \in BOOLEAN : SetClock(on)

McpwmSpec == McpwmInit /\ [][McpwmNext]_dev
-----------------------------------------------------------------------------
\* The timer stepped tick by tick, an event considered at every tick.
Stepped(d, n) ==
    LET step[k \in 0 .. n] ==
            IF k = 0 THEN d
            ELSE LET e == step[k - 1]
                 IN  IF ~e.running \/ d.mode = "stop" \/ ~d.clock THEN e
                     ELSE TimerEvent([e EXCEPT !.phase = (@ + 1) % Cycle(e)])
    IN  step[n]

\* Jumping from event to event, and over whole cycles, ends in the state a
\* timer stepped tick by tick reaches: same phase, waveform, shadow transfers
\* and latched events (mcpwm_advance_timer_ticks, mcpwm_timer_can_skip_cycles).
JumpExact == \A n \in 1 .. MaxTicks : SyncTo(dev, n) = Stepped(dev, n)

\* The announced deadline is never late: no enabled interrupt would have been
\* raised before it, nor a stop or a shadow value applied (mcpwm_next_fire).
DeadlineHonest ==
    LET quiet == IF McpwmNextFire(dev) = 0 THEN MaxTicks ELSE McpwmNextFire(dev) - 1
        later == Stepped(dev, quiet)
    IN  /\ dev.raw \cap dev.ena = {} => later.raw \cap dev.ena = {}
        /\ later.running = dev.running /\ later.period = dev.period /\ later.cmp = dev.cmp

\* A fault that still lasts keeps its hand on the output: no boundary, restart
\* or other fault source releases it (mcpwm_timer_event, mcpwm_clear_operator_cbc).
FaultHeld == dev.pin => IF dev.cfg = "cbc" THEN dev.cbc /\ ~PinLevel(dev) ELSE TRUE

-----------------------------------------------------------------------------
(***************************************************************************)
(* The LED PWM controller (peripherals.c, the ESP32-S3 variant), one timer *)
(* and one channel.  The timer's count is derived from the cycle at which  *)
(* it was last anchored; a duty update waits for the next overflow and may *)
(* then fade in steps; its two deadlines and the next enabled overflow are *)
(* what the event clock is told.  Gating the clock postpones all of them.  *)
(* Absolute cycle stamps are kept as distances from now.                   *)
(***************************************************************************)
CONSTANTS
    Dividers,       \* TIMER_CONF.divider values; 0 stops the timer
    Sources,        \* source clocks selected by LEDC_CONF
    PeriodCounts,   \* counts per overflow, 2^resolution
    MaxDuty,        \* LEDC_V1_CH_DUTY_MASK
    Steps,          \* fade lengths written to CONF1
    MaxAge          \* cycles since the anchor, or in a pause, that are looked at

LedcAssumption ==
    /\ Dividers \subseteq Nat /\ Sources \subseteq Nat \ {0}
    /\ PeriodCounts \in Nat \ {0} /\ MaxDuty \in Nat
    /\ Steps \subseteq Nat /\ MaxAge \in Nat

(* div, source, pause: active timer configuration; count, age, wraps:        *)
(* anchor_count, cycles since anchor_cycles, reported_wraps; gate: system    *)
(* clock; lag: cycles since it was gated; duty: the DUTY register; conf1;    *)
(* active; upd: the running update; out: SIG_OUT_EN; told: the last report;  *)
(* raw, ena, irq; halts: the clock was gated since the timer was anchored.   *)

Conf1 == [begin : BOOLEAN, steps : Steps, up : BOOLEAN]
NoUpdate == [on |-> FALSE, started |-> FALSE, old |-> 0, from |-> 0, to |-> 0, steps |-> 0,
             each |-> 0, startIn |-> 0]
NoReport == [enabled |-> FALSE, duty |-> 0]

LedcResetState ==
    [div |-> 0, source |-> Min(Sources), pause |-> FALSE, count |-> 0, age |-> 0, wraps |-> 0,
     gate |-> TRUE, lag |-> 0, duty |-> 0, active |-> 0, upd |-> NoUpdate, out |-> FALSE,
     conf1 |-> [begin |-> FALSE, steps |-> Min(Steps), up |-> FALSE],
     told |-> NoReport, raw |-> {}, ena |-> {}, irq |-> FALSE, halts |-> FALSE]

LedcInit == dev = LedcResetState

LedcTypeOK ==
    /\ dev.age \in 0 .. MaxAge /\ dev.lag \in 0 .. MaxAge /\ dev.conf1 \in Conf1
    /\ dev.active \in 0 .. MaxDuty /\ dev.upd.to \in 0 .. MaxDuty
    /\ dev.raw \subseteq {"overflow", "duty"} /\ dev.ena \subseteq {"overflow", "duty"}
-----------------------------------------------------------------------------
\* ledc_timer_running
LedcRunning(d) == d.div # 0 /\ ~d.pause /\ d.gate

\* ledc_timer_total_counts, ledc_mul_div_floor, ledc_timer_count
TotalCounts(d) == IF LedcRunning(d) THEN d.count + (d.age * d.source) \div d.div ELSE d.count
TimerCount(d) == TotalCounts(d) % PeriodCounts

\* ledc_timer_counts_cpu_cycles, rounded up; ledc_timer_remaining_cpu_cycles
CountsToCycles(d, counts) ==
    IF LedcRunning(d) THEN (counts * d.div + d.source - 1) \div d.source ELSE 0
RemainingCycles(d) == CountsToCycles(d, PeriodCounts - TimerCount(d))

EndIn(u) == u.startIn + u.steps * u.each

\* ledc_current_duty_raw; a gated channel stands at the cycle of the gating.
CurrentDuty(d) ==
    LET u == d.upd
        startIn == IF d.gate THEN u.startIn ELSE u.startIn + d.lag
        endIn == startIn + u.steps * u.each
        moved == IF u.each = 0 THEN u.steps ELSE Min({(0 - startIn) \div u.each, u.steps})
    IN  IF ~u.on THEN d.active
        ELSE IF startIn > 0 THEN u.old
        ELSE IF endIn <= 0 THEN u.to
        ELSE IF u.to >= u.from THEN Min({u.from + moved, u.to}) ELSE Max({u.from - moved, u.to})

\* ledc_emit_channel
Output(d) == [enabled |-> d.out /\ LedcRunning(d), duty |-> CurrentDuty(d)]
Emit(d) == [d EXCEPT !.told = Output(d)]

LedcUpdateIrq(d) == [d EXCEPT !.irq = d.raw \cap d.ena # {}]

\* ledc_reanchor_timer
Reanchor(d, div, source, pause, reset) ==
    [d EXCEPT !.count = IF reset THEN 0 ELSE TimerCount(d), !.age = 0, !.wraps = 0,
              !.div = div, !.source = source, !.pause = pause \/ reset, !.halts = FALSE]

\* ledc_sync_timer_overflows
SyncOverflows(d) ==
    LET wraps == TotalCounts(d) \div PeriodCounts
    IN  IF LedcRunning(d) /\ wraps > d.wraps
        THEN [d EXCEPT !.wraps = wraps, !.raw = @ \cup {"overflow"}] ELSE d

\* ledc_start_channel_update: from the DUTY register, at the next overflow.
StartUpdate(d) ==
    LET c == d.conf1
        to == IF c.up THEN Min({d.duty + c.steps, MaxDuty}) ELSE Max({d.duty - c.steps, 0})
    IN  IF CountsToCycles(d, PeriodCounts) = 0 THEN [d EXCEPT !.upd = NoUpdate]
        ELSE [d EXCEPT !.active = CurrentDuty(d),
                       !.upd = [on |-> TRUE, started |-> FALSE, old |-> CurrentDuty(d),
                                from |-> d.duty, to |-> to, steps |-> c.steps,
                                each |-> CountsToCycles(d, PeriodCounts),
                                startIn |-> RemainingCycles(d)]]

\* ledc_finish_channel_update
FinishUpdate(d) ==
    Emit([d EXCEPT !.active = d.upd.to, !.upd = NoUpdate, !.conf1.begin = FALSE,
                   !.raw = @ \cup {"duty"}])

\* ledc_eval_events
LedcEvalEvents(d0) ==
    IF ~d0.gate THEN d0
    ELSE LET d1 == SyncOverflows(d0)
             d2 == IF d1.upd.on /\ ~d1.upd.started /\ d1.upd.startIn <= 0
                   THEN Emit([d1 EXCEPT !.active = d1.upd.from, !.upd.started = TRUE]) ELSE d1
             d3 == IF d2.upd.on /\ d2.upd.started /\ EndIn(d2.upd) <= 0
                   THEN FinishUpdate(d2) ELSE d2
         IN  LedcUpdateIrq(d3)

\* ledc_next_fire: the distances announced to the event clock.
LedcNextFire(d) ==
    IF ~d.gate THEN {}
    ELSE {t \in {IF d.upd.started THEN EndIn(d.upd) ELSE d.upd.startIn} : d.upd.on}
         \cup {t \in {RemainingCycles(d)} : "overflow" \in d.ena \ d.raw /\ LedcRunning(d)}
-----------------------------------------------------------------------------
Later(d, n) ==
    [d EXCEPT !.age = IF d.div # 0 /\ d.gate THEN @ + n ELSE @,
              !.lag = IF d.gate THEN @ ELSE @ + n,
              !.upd.startIn = IF d.upd.on THEN @ - n ELSE @]

\* Time passes up to a visit: an access, or the earliest announced deadline.
LedcElapse(n) ==
    /\ dev.age + n <= MaxAge /\ dev.lag + n <= MaxAge
    /\ \A t \in LedcNextFire(dev) : n <= t
    /\ dev' = LedcEvalEvents(Later(dev, n))

\* ledc_write refuses everything while the controller is gated.
Writable == dev.gate

\* ledc_write, TIMER_CONF: without PARA_UP only reset and pause take effect.
WriteTimer(div, pause, reset, paraUp) ==
    /\ Writable
    /\ LET d == LedcEvalEvents(dev)
           newDiv == IF paraUp THEN div ELSE d.div
           e == IF newDiv # d.div \/ (pause \/ reset) # d.pause
                THEN Reanchor(d, newDiv, d.source, pause, reset) ELSE d
           f == IF LedcRunning(e) /\ e.conf1.begin /\ ~e.upd.on THEN StartUpdate(e) ELSE e
       IN  dev' = Emit(f)

\* ledc_write, LEDC_CONF: the source clock; a waiting update is timed again.
WriteConf(source) ==
    /\ Writable
    /\ LET d == LedcEvalEvents(dev)
           e == Reanchor(d, d.div, source, d.pause, FALSE)
           f == IF e.upd.on /\ ~e.upd.started THEN StartUpdate(e) ELSE e
       IN  dev' = Emit(f)

\* ledc_write, channel CONF0, DUTY and CONF1.
LedcWriteConf0(out) == Writable /\ dev' = Emit([LedcEvalEvents(dev) EXCEPT !.out = out])
WriteDuty(v) == Writable /\ dev' = [LedcEvalEvents(dev) EXCEPT !.duty = v]
WriteConf1(c) ==
    /\ Writable
    /\ LET d == [LedcEvalEvents(dev) EXCEPT !.conf1 = c]
       IN  dev' = IF c.begin THEN StartUpdate(d)
                  ELSE Emit([d EXCEPT !.active = CurrentDuty(d), !.upd = NoUpdate])

LedcWriteIntEna(mask) == Writable /\ dev' = LedcUpdateIrq([LedcEvalEvents(dev) EXCEPT !.ena = mask])
LedcWriteIntClr == Writable /\ dev' = LedcUpdateIrq([LedcEvalEvents(dev) EXCEPT !.raw = {}])

\* ledc_set_system_state: gating keeps the count and postpones the update.
GateClock ==
    /\ dev.gate
    /\ dev' = Emit([dev EXCEPT !.count = TimerCount(dev), !.age = 0, !.gate = FALSE,
                               !.halts = TRUE])
UngateClock ==
    /\ ~dev.gate
    /\ dev' = Emit([dev EXCEPT !.age = 0, !.gate = TRUE, !.lag = 0,
                               !.upd.startIn = IF dev.upd.on THEN @ + dev.lag ELSE @])

\* ledc_set_system_state with reset asserted, ledc_reset_state.
SystemReset == dev' = Emit(LedcUpdateIrq(LedcResetState))

LedcNext ==
    \/ \E n \in 1 .. MaxAge : LedcElapse(n)
    \/ \E div \in Dividers, pause, reset, paraUp \in BOOLEAN : WriteTimer(div, pause, reset, paraUp)
    \/ \E s \in Sources : WriteConf(s)
    \/ \E out \in BOOLEAN : LedcWriteConf0(out)
    \/ \E v \in {0, MaxDuty} : WriteDuty(v)
    \/ \E c \in Conf1 : WriteConf1(c)
    \/ \E mask \in {{}, {"overflow", "duty"}} : LedcWriteIntEna(mask)
    \/ LedcWriteIntClr \/ GateClock \/ UngateClock \/ SystemReset

LedcSpec == LedcInit /\ [][LedcNext]_dev
-----------------------------------------------------------------------------
\* The interrupt line is the masked status, whatever raised or cleared it
\* (ledc_update_irq on every path that changes either).
IrqExact == dev.irq = (dev.raw \cap dev.ena # {})

\* The visits the announced deadlines cause miss nothing: every overflow since
\* the anchor has been reported, and a running update is neither late for its
\* start nor for its end (ledc_next_fire, ledc_sync_timer_overflows).
NothingMissed ==
    /\ LedcRunning(dev) /\ ~dev.halts => dev.wraps = TotalCounts(dev) \div PeriodCounts
    /\ dev.gate /\ dev.upd.started => EndIn(dev.upd) >= 0
    /\ dev.gate /\ dev.upd.on /\ ~dev.upd.started => dev.upd.startIn >= 0

\* Gating the clock stops the waveform where it stands: the duty the channel
\* has does not move until the clock is back (ledc_current_duty_raw).
GatedStep ==
    (~dev.gate \/ ~dev'.gate) /\ dev' # Emit(LedcUpdateIrq(LedcResetState))
        => CurrentDuty(dev') = CurrentDuty(dev)
GatedHolds == [][GatedStep]_dev

\* What the host listener was last told is the output, whenever the output is
\* on and no fade is moving it (ledc_emit_channel on every path).
ListenerCurrent ==
    ~dev.upd.on /\ (dev.told.enabled \/ Output(dev).enabled) => dev.told = Output(dev)
=============================================================================
