---------------------------- MODULE SerialPorts -----------------------------
(***************************************************************************)
(* The two serial ports of the chip: UART and USB serial/JTAG.             *)
(* Each part stands alone: dev is the state of the one being explored.     *)
(***************************************************************************)
EXTENDS Integers, Sequences, FiniteSets

VARIABLE dev

-----------------------------------------------------------------------------
(***************************************************************************)
(* A UART of the chip (peripherals.c): the receive ring the host fills and *)
(* the guest drains, the raw and enabled interrupt conditions, the receive *)
(* idle time-out (a deferred callback), clock gate and reset.  Transmitted *)
(* bytes leave at once, so the transmit FIFO is always empty.              *)
(*                                                                         *)
(* Bytes are numbered in the order the host offers them.                   *)
(***************************************************************************)
CONSTANTS
    FifoSize,       \* UART_RX_FIFO_SIZE
    Thresholds,     \* values of rx_full_threshold in CONF1 (0 = off)
    Modeled,        \* uart_rx_timeout_modeled: the target names the threshold
    UartMaxBytes, MaxBurst

UartAssumption == FifoSize \in Nat \ {0} /\ MaxBurst \in Nat /\ Modeled \in BOOLEAN

Conditions == {"full", "tout", "ovf", "txempty", "txdone"}

(* ring, head, tail, count, raw, ena, threshold, toutEn, timer (the deferred *)
(* call is armed), clock, reset: uart_state_t.  irq: the level of the        *)
(* source.  offered, seen, lost: history - bytes offered, the last byte      *)
(* read, and whether the clock was gated over bytes in the ring.             *)

UartTypeOK ==
    /\ dev.ring \in [0 .. FifoSize - 1 -> 0 .. UartMaxBytes]
    /\ dev.head \in 0 .. FifoSize - 1 /\ dev.tail \in 0 .. FifoSize - 1
    /\ dev.count \in 0 .. FifoSize
    /\ dev.raw \subseteq Conditions /\ dev.ena \subseteq Conditions

UartInit ==
    dev = [ring |-> [i \in 0 .. FifoSize - 1 |-> 0], head |-> 0, tail |-> 0, count |-> 0,
           raw |-> {}, ena |-> {}, threshold |-> 0, toutEn |-> FALSE, timer |-> FALSE,
           clock |-> TRUE, reset |-> FALSE, irq |-> FALSE,
           offered |-> 0, seen |-> 0, lost |-> FALSE]
-----------------------------------------------------------------------------
Active(d) == d.clock /\ ~d.reset

\* uart_intr_update
IntrUpdate(d) == [d EXCEPT !.irq = Active(d) /\ d.raw \cap d.ena # {}]

\* uart_refresh_level_conditions
RefreshLevels(d) ==
    [d EXCEPT !.raw = @ \cup {x \in {"full"} : d.threshold > 0 /\ d.count >= d.threshold}
                        \cup {x \in {"txempty"} : x \in d.ena}]

ToutCondition(d) == Active(d) /\ d.count # 0 /\ d.toutEn

\* uart_rx_timeout_restart: without a free deferred slot it is raised now.
RestartTimeout(d, slot) ==
    LET armed == ToutCondition(d)
    IN  [d EXCEPT !.timer = armed /\ slot,
                  !.raw = @ \cup {x \in {"tout"} : armed /\ ~slot},
                  !.lost = @ /\ ~armed]

\* uart_reset_state
ResetState(d) ==
    IntrUpdate([d EXCEPT !.head = 0, !.tail = 0, !.count = 0, !.timer = FALSE,
                         !.threshold = 0, !.toutEn = FALSE, !.raw = {}, !.ena = {}])
-----------------------------------------------------------------------------
\* periph_uart_rx_inject_num: the UHCI takes the first dma bytes, the ring what
\* fits of the rest; what is left overflows.
Inject(n, dma, slot) ==
    /\ Active(dev) /\ dev.offered + n <= UartMaxBytes /\ dma <= n
    /\ LET fifo == IF n - dma < FifoSize - dev.count THEN n - dma ELSE FifoSize - dev.count
           filled == [dev EXCEPT
               !.ring = [i \in DOMAIN @ |->
                          LET k == (i - dev.head) % FifoSize
                          IN  IF k < fifo THEN dev.offered + dma + k + 1 ELSE @[i]],
               !.head = (@ + fifo) % FifoSize, !.count = @ + fifo,
               !.offered = @ + n]
           levels == RefreshLevels(filled)
           timed == IF fifo = 0 THEN levels
                    ELSE IF Modeled THEN RestartTimeout(levels, slot)
                    ELSE [levels EXCEPT !.raw = @ \cup {x \in {"tout"} : dev.toutEn}]
       IN  dev' = IntrUpdate([timed EXCEPT !.raw = @ \cup {x \in {"ovf"} : dma + fifo < n}])

\* uart_read of the FIFO; the interrupt conditions are left as they are.
ReadFifo ==
    /\ dev.count > 0
    /\ dev' = [dev EXCEPT !.seen = dev.ring[dev.tail], !.tail = (@ + 1) % FifoSize,
                          !.count = @ - 1,
                          !.timer = @ /\ ~(dev.count = 1 /\ Modeled)]

\* uart_rx_timeout_fire
TimeoutFire ==
    /\ dev.timer
    /\ LET d == [dev EXCEPT !.timer = FALSE]
       IN  dev' = IF ToutCondition(d) THEN IntrUpdate([d EXCEPT !.raw = @ \cup {"tout"}])
                  ELSE d

\* uart_write: nothing is written while reset is asserted.
WriteFifo ==        \* uart_emit_tx_byte
    /\ Active(dev)
    /\ dev' = IntrUpdate([dev EXCEPT !.raw = @ \cup {"txempty", "txdone"}])

WriteIntEna(mask) ==
    /\ ~dev.reset
    /\ dev' = IntrUpdate(RefreshLevels([dev EXCEPT !.ena = mask]))

WriteIntClr(mask) ==
    /\ ~dev.reset
    /\ LET clear == IF Modeled /\ dev.count # 0 THEN mask \ {"tout"} ELSE mask
       IN  dev' = IntrUpdate(RefreshLevels([dev EXCEPT !.raw = @ \ clear]))

WriteConf1(threshold, toutEn, slot) ==
    /\ ~dev.reset
    /\ LET d == RefreshLevels([dev EXCEPT !.threshold = threshold, !.toutEn = toutEn])
       IN  dev' = IntrUpdate(
               IF Modeled THEN RestartTimeout(d, slot)
               ELSE [d EXCEPT !.raw = @ \cup {x \in {"tout"} : d.count > 0 /\ toutEn}])

\* uart_set_system_state: a rising reset clears the controller.
SetSystemState(clock, reset) ==
    LET d == [dev EXCEPT !.clock = clock, !.reset = reset,
                         !.lost = @ \/ (~clock /\ dev.count > 0)]
    IN  dev' = IntrUpdate(IF reset /\ ~dev.reset THEN ResetState(d) ELSE d)

UartNext ==
    \/ \E n \in 1 .. MaxBurst, dma \in 0 .. 1, slot \in BOOLEAN : Inject(n, dma, slot)
    \/ ReadFifo
    \/ TimeoutFire
    \/ WriteFifo
    \/ \E mask \in {{}, {"tout"}, Conditions} : WriteIntEna(mask) \/ WriteIntClr(mask)
    \/ \E t \in Thresholds, en \in BOOLEAN, slot \in BOOLEAN : WriteConf1(t, en, slot)
    \/ \E clock \in BOOLEAN, reset \in BOOLEAN : SetSystemState(clock, reset)

UartSpec == UartInit /\ [][UartNext]_dev
-----------------------------------------------------------------------------
\* The source is asserted exactly while an enabled condition is raw and the
\* controller is clocked and out of reset (uart_intr_update).
UartIrqExact == dev.irq <=> Active(dev) /\ dev.raw \cap dev.ena # {}

\* What is in the ring are bytes the host offered after the last one read, in
\* the order it offered them, across every wrap of head and tail.
InOrder ==
    LET at(k) == dev.ring[(dev.tail + k) % FifoSize]
    IN  /\ \A k \in 0 .. dev.count - 1 : at(k) > dev.seen /\ at(k) <= dev.offered
        /\ \A j, k \in 0 .. dev.count - 1 : j < k => at(j) < at(k)
        /\ (dev.head - dev.tail) % FifoSize = dev.count % FifoSize

\* Bytes left in the FIFO do not wait in silence: with the time-out enabled it
\* is raised or still running, whatever was cleared, read or written meanwhile.
\* The one gap is a clock gated over bytes in the FIFO: a time-out that runs out
\* then is dropped, and nothing restarts it when the clock comes back.
IdleReported ==
    ToutCondition(dev) /\ ~dev.lost => "tout" \in dev.raw \/ dev.timer

-----------------------------------------------------------------------------
(***************************************************************************)
(* The USB Serial/JTAG console (usb_serial_jtag.c): a transmit endpoint    *)
(* that holds a flushed packet until the link is up, a receive endpoint    *)
(* that takes one packet at a time, and their interrupts.  The link is up  *)
(* when six independent conditions hold; each has its own entry point.     *)
(*                                                                         *)
(* Bytes are numbered in the order the firmware writes them (the host      *)
(* sends them); only the numbers are kept.                                 *)
(***************************************************************************)
CONSTANTS
    Endpoint,     \* endpoint_size (64)
    UsbMaxBytes,     \* bytes of one behaviour in each direction
    Watched       \* interrupts INT_ENA may enable

UsbAssumption ==
    /\ Endpoint \in Nat \ {0} /\ UsbMaxBytes \in Nat \ {0}
    /\ Watched \subseteq {"sof", "recv", "in_empty", "token", "zero"}

Switches == {"clock", "reset", "connected", "pad", "routed", "mem_down"}

\* raw and ena hold the interrupts of Watched; told is the level irq_changed
\* was last called with; out, eaten and nread are what the host received,
\* what the firmware read, and how many bytes each side has sent.
UsbInit ==
    dev = [tx |-> <<>>, waiting |-> FALSE, rx |-> <<>>,
           raw |-> {}, ena |-> {}, level |-> FALSE, told |-> FALSE,
           clock |-> TRUE, reset |-> FALSE, connected |-> TRUE, pad |-> TRUE,
           routed |-> TRUE, mem_down |-> FALSE,
           written |-> 0, out |-> <<>>, sent |-> 0, eaten |-> <<>>,
           flushed |-> 0]

Clocked(d) == d.clock /\ ~d.reset

LinkActive(d) ==
    Clocked(d) /\ d.connected /\ d.pad /\ d.routed /\ ~d.mem_down

UpdateIrq(d) ==
    LET level == Clocked(d) /\ d.raw \cap d.ena # {} IN
    [d EXCEPT !.level = level, !.told = IF level = d.level THEN @ ELSE level]

RaiseUsb(d, events) == UpdateIrq([d EXCEPT !.raw = @ \cup (events \cap Watched)])

\* A packet that waits is handed to the host once the link is up.
ConsumeTx(d) ==
    IF ~d.waiting \/ ~LinkActive(d) THEN d
    ELSE RaiseUsb([d EXCEPT !.out = @ \o d.tx, !.tx = <<>>, !.waiting = FALSE],
               {"in_empty", "token"})

FlushTx(d) ==
    IF d.waiting THEN d
    ELSE ConsumeTx([d EXCEPT !.waiting = TRUE, !.flushed = d.written])

\* Each look at the interrupt registers stands for the host's 1 ms frames.
Observe(d) ==
    IF ~LinkActive(d) THEN d
    ELSE RaiseUsb(d, {"sof"} \cup IF ~d.waiting /\ Len(d.tx) < Endpoint
                               THEN {"in_empty", "token"} ELSE {})

InFree(d) == Clocked(d) /\ ~d.waiting /\ Len(d.tx) < Endpoint /\ ~d.mem_down

-----------------------------------------------------------------------------
(* Registers: inert while the clock is gated or the reset asserted *)

\* The firmware asks for IN_FREE first, as its driver does; a byte written
\* without it is ignored.
WriteByte ==
    /\ InFree(dev) /\ dev.written < UsbMaxBytes
    /\ LET d == [dev EXCEPT !.tx = Append(@, dev.written + 1), !.written = @ + 1] IN
       dev' = IF Len(d.tx) = Endpoint THEN FlushTx(d) ELSE d

WrDone == Clocked(dev) /\ dev' = FlushTx(dev)

ReadByte ==
    /\ Clocked(dev) /\ dev.rx # <<>>
    /\ dev' = [dev EXCEPT !.eaten = Append(@, Head(dev.rx)), !.rx = Tail(@)]

ReadRaw == dev' = Observe(dev)

IntClr == /\ Clocked(dev)
          /\ \E e \in Watched : dev' = UpdateIrq([dev EXCEPT !.raw = @ \ {e}])

IntEna ==
    /\ Clocked(dev)
    /\ \E ena \in SUBSET Watched :
         LET d == [dev EXCEPT !.ena = ena] IN
         dev' = UpdateIrq(IF "in_empty" \in ena /\ InFree(d)
                          THEN [d EXCEPT !.raw = @ \cup {"in_empty"}] ELSE d)

Conf0 == /\ Clocked(dev)
         /\ dev' = ConsumeTx([dev EXCEPT !.pad = ~@])

MemConf == /\ Clocked(dev)
           /\ dev' = ConsumeTx([dev EXCEPT !.mem_down = ~@])

-----------------------------------------------------------------------------
(* SYSTEM, the RTC's PHY routing, and the host *)

\* Only the rising edge of the reset clears the block; what the endpoints
\* held is gone, so the history forgets it as well.
SystemState(clock, reset) ==
    LET rising == reset /\ ~dev.reset
        d0 == [dev EXCEPT !.clock = clock, !.reset = reset]
        d1 == IF ~rising THEN d0
              ELSE [d0 EXCEPT !.tx = <<>>, !.rx = <<>>, !.waiting = FALSE, !.raw = {},
                              !.ena = {}, !.pad = TRUE, !.mem_down = FALSE,
                              !.written = 0, !.out = <<>>, !.sent = 0, !.eaten = <<>>,
                              !.flushed = 0]
        d2 == UpdateIrq(d1)
    IN dev' = IF clock /\ ~reset THEN ConsumeTx(d2) ELSE d2

SetRouted ==
    LET d == [dev EXCEPT !.routed = ~@] IN
    dev' = IF d.routed THEN ConsumeTx(Observe(d)) ELSE d

SetConnected ==
    LET d == [dev EXCEPT !.connected = ~@] IN
    dev' = IF d.connected THEN ConsumeTx(Observe(d)) ELSE d

HostSof == dev' = Observe(dev)

BugRxInject ==
    /\ LinkActive(dev)
    /\ \E len \in 0..(UsbMaxBytes - dev.sent) :
         LET n == IF len > Endpoint THEN Endpoint ELSE len IN
         dev' = RaiseUsb([dev EXCEPT !.rx = [i \in 1..n |-> dev.sent + i], !.sent = @ + n],
                      {"recv"} \cup IF n = 0 THEN {"zero"} ELSE {})

\* A packet is refused while the one before is not read to its end; what
\* does not fit the endpoint is left to the caller.
RxInject ==
    /\ LinkActive(dev) /\ dev.rx = <<>>
    /\ \E len \in 0..(UsbMaxBytes - dev.sent) :
         LET n == IF len > Endpoint THEN Endpoint ELSE len IN
         dev' = RaiseUsb([dev EXCEPT !.rx = [i \in 1..n |-> dev.sent + i], !.sent = @ + n],
                      {"recv"} \cup IF n = 0 THEN {"zero"} ELSE {})

UsbNext ==
    \/ WriteByte \/ WrDone \/ ReadByte \/ ReadRaw \/ IntClr \/ IntEna
    \/ Conf0 \/ MemConf
    \/ \E clock, reset \in BOOLEAN : SystemState(clock, reset)
    \/ SetRouted \/ SetConnected \/ HostSof \/ RxInject

UsbSpec == UsbInit /\ [][UsbNext]_dev

-----------------------------------------------------------------------------
UsbTypeOK ==
    /\ \A s \in Switches : dev[s] \in BOOLEAN
    /\ Len(dev.tx) <= Endpoint /\ Len(dev.rx) <= Endpoint
    /\ dev.raw \subseteq Watched /\ dev.ena \subseteq Watched

\* The line told to the interrupt matrix is the one the registers show.
UsbIrqExact == dev.told = (Clocked(dev) /\ dev.raw \cap dev.ena # {})

\* A flushed packet never waits while the link is up, whichever of the six
\* conditions came back last: firmware would otherwise wait for IN_FREE for
\* ever.
TransmitAlive == dev.waiting => ~LinkActive(dev)

\* Both directions keep every byte, once, in order: what the host received
\* and what still sits in the endpoint is what was written, and likewise
\* for what the firmware read; nothing before a flush is left behind.
BytesInOrder ==
    /\ dev.out \o dev.tx = [i \in 1..dev.written |-> i]
    /\ dev.eaten \o dev.rx = [i \in 1..dev.sent |-> i]
    /\ ~dev.waiting => Len(dev.out) >= dev.flushed
=============================================================================
