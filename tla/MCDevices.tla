----------------------------- MODULE MCDevices ------------------------------
(***************************************************************************)
(* The devices that drive and watch pins, keep time or power, and carry    *)
(* bytes without DMA, one at a time.  The widths and periods are small,    *)
(* so that counters wrap, FIFOs fill and every remainder of a clock        *)
(* divider occurs.                                                         *)
(***************************************************************************)
EXTENDS Integers

VARIABLES
    device,     \* which component is explored; it never changes
    dev         \* the state of that component

Serial == INSTANCE SerialPorts WITH
    FifoSize <- 2, Thresholds <- {0, 2}, Modeled <- TRUE, UartMaxBytes <- 3,
    MaxBurst <- 2,
    Endpoint <- 2, UsbMaxBytes <- 3, Watched <- {"in_empty", "recv"}
Pads == INSTANCE Pins WITH
    Width <- 4, Increments <- {1, 3}, Prescalers <- {0, 1}, SdmPins <- {1, 2},
    MaxCycles <- 5,
    GpioPins <- {1, 2},
    PadRoutes <- {"software", "signal_oen"}, PadTypes <- {"rise", "high"}
Pulses == INSTANCE PulseDevices WITH
    FilterCycles <- 2, HighLimit <- 3, LowLimit <- 2, Threshold0 <- 1,
    Periods <- {1, 2}, Compares <- {1},
    Operators <- {[program |-> "toggle", fault |-> "cbc"], [program |-> "pulse", fault |-> "ost"]},
    PeriodMethods <- {{}, {"tez", "sync"}}, CompareMethods <- {{}, {"tep", "sync"}},
    Events <- {"tez"}, Modes <- {"updown"}, MaxTicks <- 5,
    Dividers <- {3}, Sources <- {2}, PeriodCounts <- 2, MaxDuty <- 1, Steps <- {1},
    MaxAge <- 2
Chip == INSTANCE ChipControl WITH
    Whole <- {"uart"}, PerCore <- {"gpio"}, Routeable <- {1, 2}, Internal <- {16},
    MapReset <- 16, Conditions <- {"a", "b"},
    Devices <- {"x"}, Bits <- {0, 1}, Banks <- {0, 1}
Rtc == INSTANCE RtcDomain WITH
    Slow <- 1, Cpu <- 2, CounterMod <- 3, Stages <- 2, ClockHolds <- {1},
    Acts <- {"reset"}, MaxLag <- 1,
    Sources <- {"timer", "ext1", "uart"}, Devices <- {"uart"},
    MaxMoves <- 1
Remote == INSTANCE RemoteControl WITH
    Filter <- {0, 2}, Demod <- {0, 2}, RxIdle <- 3, RxCapacity <- 1,
    Wraps <- {FALSE, TRUE}, Limit <- 1, RxMaxCycles <- 5,
    NChannels <- 2, TxHalf <- 1, TxLengths <- {1, 3},
    Modes <- {"plain", "wrap", "counted", "forever", "count_only"}, Loops <- 2,
    TxMaxCycles <- 6,
    RmtHalf <- 2, RmtLengths <- {3, 5, 8}, MaxAdvance <- 5, DrainLimit <- 8

ASSUME
    /\ Serial!UartAssumption
    /\ Serial!UsbAssumption
    /\ Pads!SigmaDeltaAssumption
    /\ Pulses!PcntAssumption
    /\ Pulses!McpwmAssumption
    /\ Pulses!LedcAssumption
    /\ Chip!InterruptMatrixAssumption
    /\ Chip!SystemClockAssumption
    /\ Rtc!RtcClockAssumption
    /\ Rtc!RtcPowerAssumption
    /\ Rtc!RtcLayoutAssumption
    /\ Remote!RmtV1RxAssumption
    /\ Remote!RmtV1TxAssumption
    /\ Remote!RmtAssumption

vars == <<device, dev>>

Init ==
    \/ device = "uart" /\ Serial!UartInit
    \/ device = "usb" /\ Serial!UsbInit
    \/ device = "sigma_delta" /\ Pads!SdmInit
    \/ device = "gpio" /\ Pads!GpioInit
    \/ device = "pads" /\ Pads!PadInit
    \/ device = "pcnt" /\ Pulses!PcntInit
    \/ device = "mcpwm" /\ Pulses!McpwmInit
    \/ device = "ledc" /\ Pulses!LedcInit
    \/ device = "matrix" /\ Chip!MatrixInit
    \/ device = "gates" /\ Chip!GateInit
    \/ device = "rtc_clock" /\ Rtc!ClockInit
    \/ device = "rtc_power" /\ Rtc!PowerInit
    \/ device = "rtc_layout" /\ Rtc!LayoutInit
    \/ device = "rmt_rx" /\ Remote!RxInit
    \/ device = "rmt_tx" /\ Remote!TxInit
    \/ device = "rmt" /\ Remote!RmtInit

Next ==
    /\ UNCHANGED device
    /\ \/ device = "uart" /\ Serial!UartNext
       \/ device = "usb" /\ Serial!UsbNext
       \/ device = "sigma_delta" /\ Pads!SdmNext
       \/ device = "gpio" /\ Pads!GpioNext
       \/ device = "pads" /\ Pads!PadNext
       \/ device = "pcnt" /\ Pulses!PcntNext
       \/ device = "mcpwm" /\ Pulses!McpwmNext
       \/ device = "ledc" /\ Pulses!LedcNext
       \/ device = "matrix" /\ Chip!MatrixNext
       \/ device = "gates" /\ Chip!GateNext
       \/ device = "rtc_clock" /\ Rtc!ClockNext
       \/ device = "rtc_power" /\ Rtc!PowerNext
       \/ device = "rtc_layout" /\ Rtc!LayoutNext
       \/ device = "rmt_rx" /\ Remote!RxNext
       \/ device = "rmt_tx" /\ Remote!TxNext
       \/ device = "rmt" /\ Remote!RmtNext

Spec == Init /\ [][Next]_vars

-----------------------------------------------------------------------------
\* In every state a device has been brought to, by whatever order of events,
\* register writes, clock gating and resets, the level it last put on its
\* interrupt line is the one its raw and enable bits call for (the *_update_irq
\* and *_intr_update functions); and the interrupt matrix drives each CPU line as
\* the sources routed to it and tells a core of every condition it maps
\* (intmatrix_drive_line, periph_assert_interrupt_status).
LinesExact ==
    /\ device = "uart" => Serial!UartIrqExact
    /\ device = "usb" => Serial!UsbIrqExact
    /\ device = "gpio" => Pads!LinesFollowStatus /\ Pads!EdgesLatched
    /\ device = "pads" => Pads!LineFollowsStatus
    /\ device = "ledc" => Pulses!IrqExact
    /\ device = "matrix" => Chip!LineExact /\ Chip!EveryConditionTold
    /\ device = "rtc_clock" => Rtc!IrqExact
    /\ device = "rmt_rx" => Remote!RxIrqExact
    /\ device = "rmt" => Remote!RmtIrqExact

\* What is sent is what was put in, once and in order, over FIFOs that fill, halves of
\* a memory that are refilled while the other is sent, loops, stalls and restarts; and
\* a transmitter with something to send has an event ahead of it or waits for the guest
\* (uart_write, usb_write, rmt_eval_events, rmt_v1_tx_finish_segment).
StreamsIntact ==
    /\ device = "uart" => Serial!InOrder /\ Serial!IdleReported
    /\ device = "usb" => Serial!BytesInOrder /\ Serial!TransmitAlive
    /\ device = "rmt" =>
         /\ Remote!RmtStreamIntact /\ Remote!TransmitAlive /\ Remote!RmtEndComplete
    /\ device = "rmt_tx" =>
         /\ Remote!TxStreamIntact /\ Remote!TxEndComplete /\ Remote!StartTogether
    /\ device = "rmt_rx" => Remote!TimeConserved /\ Remote!WithinMemory

\* A device whose time moves only when somebody looks is where it would be had it been
\* stepped cycle by cycle: accesses in between, changes of its clock, long jumps and the
\* deadlines it gives the event scheduler make no difference, no event is late or lost,
\* and while its clock is gated, or a pulse is shorter than its filter, nothing is
\* counted (the *_sync, *_advance and *_next_event functions).
LazyExact ==
    /\ [](/\ device = "sigma_delta" => Pads!PhaseExact
          /\ device = "pcnt" => Pulses!WithinLimits /\ Pulses!NothingForgotten
          /\ device = "mcpwm" =>
               /\ Pulses!JumpExact /\ Pulses!DeadlineHonest /\ Pulses!FaultHeld
          /\ device = "ledc" => Pulses!NothingMissed
          /\ device = "rtc_clock" =>
               /\ Rtc!SyncAdditive /\ Rtc!DeadlineExact /\ Rtc!NoEventLate
          /\ device = "rmt_rx" => Remote!RxLazyExact /\ Remote!NoGlitchStored
          /\ device = "rmt_tx" => Remote!TxLazyExact)
    /\ [][/\ device = "pcnt" => Pulses!GlitchStep
          /\ device = "ledc" => Pulses!GatedStep]_vars

\* Whoever was told of a piece of state knows what it is now: the listener of a pad, of a
\* PWM output, of a clock gate or of a power domain, also after holds, unrouting, resets
\* and sleep; a chip asleep can be woken; and two registers that show one gate, or two
\* fields of one layout, do not disturb each other (gpio_notify_pad, ledc_publish,
\* system_clock_write, rtc_cntl_publish_*, rtc_layout_valid).
ViewsCurrent ==
    /\ device = "sigma_delta" => Pads!ListenerCurrent
    /\ device = "pads" => Pads!ListenerKnowsPad /\ Pads!InputResolved
    /\ device = "ledc" => Pulses!ListenerCurrent
    /\ device = "gates" => Chip!ListenersCurrent /\ Chip!ViewsAgree
    /\ device = "rtc_power" => Rtc!ListenersCurrent /\ Rtc!CanWake
    /\ device = "rtc_layout" => Rtc!EveryRegisterReached /\ Rtc!FieldsIndependent
    /\ device = "rmt_tx" => Remote!PadAgrees

\* The type invariants of the components.
TypeOK ==
    /\ device = "uart" => Serial!UartTypeOK
    /\ device = "usb" => Serial!UsbTypeOK
    /\ device = "sigma_delta" => Pads!SdmTypeOK
    /\ device = "gpio" => Pads!GpioTypeOK
    /\ device = "pads" => Pads!PadTypeOK
    /\ device = "pcnt" => Pulses!PcntTypeOK
    /\ device = "mcpwm" => Pulses!McpwmTypeOK
    /\ device = "ledc" => Pulses!LedcTypeOK
    /\ device = "matrix" => Chip!MatrixTypeOK
    /\ device = "gates" => Chip!GateTypeOK
    /\ device = "rtc_clock" => Rtc!ClockTypeOK
    /\ device = "rtc_power" => Rtc!PowerTypeOK
    /\ device = "rtc_layout" => Rtc!LayoutTypeOK
    /\ device = "rmt_rx" => Remote!RxTypeOK
    /\ device = "rmt_tx" => Remote!TxTypeOK
    /\ device = "rmt" => Remote!RmtTypeOK
=============================================================================
