--------------------------- MODULE BusControllers ---------------------------
(***************************************************************************)
(* The controllers of a bus: I2C, TWAI (CAN) and Ethernet.                 *)
(* Each part stands alone: dev is the state of the one being explored.     *)
(***************************************************************************)
EXTENDS Integers, Sequences, SequencesExt, FiniteSets

VARIABLE dev

-----------------------------------------------------------------------------
(***************************************************************************)
(* The I2C controllers (peripherals.c), one port.  As master it runs a     *)
(* command list in one go against the attached devices: written bytes are  *)
(* collected and handed to the device at the stop, at a repeated start for *)
(* another device, or with the read that follows them.  As slave it is     *)
(* driven by the host.  FIFO conditions are levels, the others are events. *)
(***************************************************************************)
CONSTANTS
    FifoSize,       \* I2C_FIFO_SIZE
    Lists,          \* names of the command lists the guest runs
    MaxBytes,       \* bytes pushed by the guest
    MaxRuns         \* lists run, transfers by the host

I2cAssumption == FifoSize \in Nat \ {0} /\ MaxBytes \in Nat /\ MaxRuns \in Nat

Present == 1        \* device addresses: one answers, one does not
Absent == 2
I2cNone == 0
AddressBytes == 1 .. 3
AddressOf(b) == IF b \in {1, 2} THEN Present ELSE Absent
IsRead(b) == b = 2
Underrun == 255     \* what an empty transmit FIFO supplies
FirstData == 10     \* data bytes are numbered from here in the order pushed

Cmd(op, n) == [op |-> op, n |-> n]
CommandList(name) ==
    CASE name = "write" -> <<Cmd("restart", 0), Cmd("write", 2), Cmd("stop", 0)>>
      [] name = "begin" -> <<Cmd("restart", 0), Cmd("write", 2), Cmd("end", 0)>>
      [] name = "finish" -> <<Cmd("write", 1), Cmd("stop", 0)>>
      [] name = "read" -> <<Cmd("restart", 0), Cmd("write", 2), Cmd("restart", 0),
                            Cmd("write", 1), Cmd("read", 1), Cmd("stop", 0)>>

(* tx, rx: the FIFOs; thr: the receive threshold; raw, ena, irq; clock,      *)
(* reset; master; active, expect, have, read, target, address, pending: the  *)
(* transaction; nack: the last acknowledge.  History: next: number of the    *)
(* next data byte; device: what the device was given, one entry a transfer;  *)
(* runs; dropped: bytes the host offered and the slave refused.              *)

Idle == [active |-> FALSE, expect |-> FALSE, have |-> FALSE, read |-> FALSE, target |-> FALSE,
         address |-> I2cNone, pending |-> <<>>]

I2cInit ==
    \E master \in BOOLEAN :
        dev = [tx |-> <<>>, rx |-> <<>>, thr |-> 0, raw |-> {"tx_empty"}, ena |-> {}, irq |-> FALSE,
               clock |-> TRUE, reset |-> FALSE, master |-> master, x |-> Idle,
               next |-> FirstData, device |-> <<>>, runs |-> 0, dropped |-> FALSE]

I2cTypeOK ==
    /\ Len(dev.tx) <= FifoSize /\ Len(dev.rx) <= FifoSize
    /\ dev.raw \subseteq {"tx_empty", "rx_full", "overflow", "end", "complete", "nack"}
-----------------------------------------------------------------------------
\* i2c_intr_update: the two FIFO conditions follow the FIFOs.
IntrUpdate(d) ==
    LET raw == (d.raw \ {"tx_empty", "rx_full"})
                 \cup {c \in {"tx_empty"} : d.tx = <<>>}
                 \cup {c \in {"rx_full"} : Len(d.rx) > d.thr}
    IN  IF d.reset THEN [d EXCEPT !.irq = FALSE]
        ELSE [d EXCEPT !.raw = raw, !.irq = d.clock /\ raw \cap d.ena # {}]

\* i2c_tx_pop
PopTx(d) == IF d.tx = <<>> THEN d ELSE [d EXCEPT !.tx = Tail(@)]
TxByte(d) == IF d.tx = <<>> THEN Underrun ELSE Head(d.tx)

\* i2c_commit_write: the collected bytes reach the device as one transfer.
Commit(d) ==
    IF ~d.x.have \/ d.x.read THEN d
    ELSE IF ~d.x.target THEN [d EXCEPT !.raw = @ \cup {"nack"}]
    ELSE [d EXCEPT !.device = Append(@, d.x.pending), !.x.pending = <<>>]

\* i2c_fill_read: the write before a combined read goes with it.
FillRead(d, wanted) ==
    LET count == IF wanted < FifoSize - Len(d.rx) THEN wanted ELSE FifoSize - Len(d.rx)
        answered == d.x.have /\ d.x.read /\ d.x.target
    IN  [d EXCEPT !.device = IF answered THEN Append(@, d.x.pending) ELSE @,
                  !.x.pending = <<>>,
                  !.rx = @ \o [i \in 1 .. count |-> Underrun],
                  !.raw = @ \cup (IF answered THEN {} ELSE {"nack"})
                            \cup (IF wanted > count THEN {"overflow"} ELSE {})]

\* i2c_select_address
SelectAddress(d, b) ==
    LET combined == d.x.have /\ ~d.x.read /\ IsRead(b) /\ d.x.address = AddressOf(b)
        e == IF d.x.have /\ ~d.x.read /\ ~combined THEN Commit(d) ELSE d
    IN  [e EXCEPT !.x = [@ EXCEPT !.address = AddressOf(b), !.read = IsRead(b), !.have = TRUE,
                                  !.expect = FALSE, !.target = AddressOf(b) = Present,
                                  !.pending = IF combined THEN @ ELSE <<>>]]

\* i2c_execute_write: an address after a restart, then data.
ExecuteWrite(d0, n) ==
    LET byte[k \in 0 .. n] ==
            IF k = 0 THEN [d |-> d0, nack |-> FALSE]
            ELSE LET v == byte[k - 1]
                     b == TxByte(v.d)
                     d == PopTx(v.d)
                     e == SelectAddress(d, b)
                 IN  IF d.x.expect \/ ~d.x.have THEN [d |-> e, nack |-> v.nack \/ ~e.x.target]
                     ELSE IF d.x.read \/ ~d.x.target THEN [d |-> d, nack |-> TRUE]
                     ELSE [d |-> [d EXCEPT !.x.pending = Append(@, b)], nack |-> v.nack]
    IN  [byte[n].d EXCEPT !.raw = IF byte[n].nack THEN @ \cup {"nack"} ELSE @]

\* i2c_execute: one command; stop tells whether the list ends there.
ExecuteOne(d, c) ==
    CASE c.op = "restart" -> [d |-> [d EXCEPT !.x.active = TRUE, !.x.expect = TRUE], stop |-> FALSE]
      [] c.op = "write" ->
            LET e == ExecuteWrite(d, c.n)
            IN  IF "nack" \in e.raw THEN [d |-> [e EXCEPT !.x = Idle], stop |-> TRUE]
                ELSE [d |-> e, stop |-> FALSE]
      [] c.op = "read" -> [d |-> FillRead(d, c.n), stop |-> FALSE]
      [] c.op = "stop" ->
            [d |-> [Commit(d) EXCEPT !.x = Idle, !.raw = @ \cup {"complete"}], stop |-> TRUE]
      [] c.op = "end" -> [d |-> [d EXCEPT !.raw = @ \cup {"end"}], stop |-> TRUE]

Execute(d, list) ==
    LET run == FoldLeft(LAMBDA acc, c : IF acc.stop THEN acc ELSE ExecuteOne(acc.d, c),
                        [d |-> d, stop |-> FALSE], list)
    IN  IntrUpdate(run.d)
-----------------------------------------------------------------------------
\* i2c_write, CTR with TRANS_START in master mode.
TransStart(name) ==
    /\ dev.clock /\ ~dev.reset /\ dev.master /\ dev.runs < MaxRuns
    /\ dev' = Execute([dev EXCEPT !.runs = @ + 1], CommandList(name))

\* i2c_write, DATA: an address byte or the next data byte; a full FIFO drops it.
PushTx(address) ==
    /\ ~dev.reset /\ dev.next < FirstData + MaxBytes /\ Len(dev.tx) < FifoSize
    /\ address # I2cNone => dev.master
    /\ dev' = IntrUpdate([dev EXCEPT !.tx = Append(@, IF address = I2cNone THEN dev.next ELSE address),
                                     !.next = IF address = I2cNone THEN @ + 1 ELSE @])

\* i2c_read, DATA
PopRx == dev' = IntrUpdate([dev EXCEPT !.rx = IF @ = <<>> THEN @ ELSE Tail(@)])

\* i2c_write, FIFO_CONF
WriteFifoConf(thr, txReset, rxReset) ==
    /\ ~dev.reset
    /\ dev' = IntrUpdate([dev EXCEPT !.thr = thr, !.tx = IF txReset THEN <<>> ELSE @,
                                     !.rx = IF rxReset THEN <<>> ELSE @])
I2cWriteIntEna(mask) == ~dev.reset /\ dev' = IntrUpdate([dev EXCEPT !.ena = mask])
WriteIntClr == ~dev.reset /\ dev' = IntrUpdate([dev EXCEPT !.raw = {}])

\* periph_i2c_master_xfer: the host writes n bytes to, and reads m bytes from, the slave.
MasterXfer(n, m) ==
    /\ dev.clock /\ ~dev.reset /\ ~dev.master /\ dev.runs < MaxRuns
    /\ LET room == FifoSize - Len(dev.rx)
           took == IF n <= room THEN n ELSE room
           given == IF m <= Len(dev.tx) THEN m ELSE Len(dev.tx)    \* then the bus floats
       IN  dev' = IntrUpdate([dev EXCEPT
               !.runs = @ + 1, !.rx = @ \o [i \in 1 .. took |-> FirstData],
               !.dropped = @ \/ took < n,
               !.device = Append(@, SubSeq(dev.tx, 1, given)),
               !.tx = SubSeq(@, given + 1, Len(@)),
               !.raw = @ \cup {"complete"} \cup (IF took < n THEN {"overflow"} ELSE {})])

\* i2c_set_system_state
I2cSetSystemState(clock, reset) ==
    LET d == [dev EXCEPT !.clock = clock, !.reset = reset]
    IN  dev' = IntrUpdate(IF reset /\ ~dev.reset
                          THEN [d EXCEPT !.tx = <<>>, !.rx = <<>>, !.raw = {}, !.ena = {},
                                         !.thr = 0, !.x = Idle, !.dropped = FALSE]
                          ELSE d)

I2cNext ==
    \/ \E l \in Lists : TransStart(l)
    \/ \E a \in {I2cNone} \cup AddressBytes : PushTx(a)
    \/ PopRx \/ WriteIntClr
    \/ \E thr \in 0 .. 1, t, r \in BOOLEAN : WriteFifoConf(thr, t, r)
    \/ \E mask \in {{}, {"complete", "nack", "rx_full"}} : I2cWriteIntEna(mask)
    \/ \E n, m \in 0 .. 2 : MasterXfer(n, m)
    \/ \E c, r \in BOOLEAN : I2cSetSystemState(c, r)

I2cSpec == I2cInit /\ [][I2cNext]_dev
-----------------------------------------------------------------------------
\* Interrupt status and line are exact: the FIFO conditions are there exactly
\* while they hold, so a driver that enables one late still gets it.
LevelsExact ==
    /\ dev.irq = (dev.clock /\ ~dev.reset /\ dev.raw \cap dev.ena # {})
    /\ ~dev.reset => /\ ("tx_empty" \in dev.raw) = (dev.tx = <<>>)
                     /\ ("rx_full" \in dev.raw) = (Len(dev.rx) > dev.thr)

\* Every byte the guest pushed reaches a device at most once and in order,
\* through repeated starts, lists continued after an end command and aborts
\* (i2c_commit_write, i2c_fill_read, i2c_end_transaction).
DeliveredInOrder ==
    LET got == SelectSeq(FlattenSeq(dev.device), LAMBDA b : b \in FirstData .. 254)
    IN  \A i, j \in 1 .. Len(got) : i < j => got[i] < got[j]

\* A byte the slave could not take is reported, until the guest clears it.
OverflowStep == dev'.dropped /\ ~dev.dropped => "overflow" \in dev'.raw
NoSilentDrop == [][OverflowStep]_dev

\* Outside a list the bus is either idle or held after an end command, with
\* the bytes collected so far addressed to a device that is there.
HeldConsistent == dev.x.pending # <<>> => dev.x.have /\ dev.x.target /\ dev.x.active

-----------------------------------------------------------------------------
(***************************************************************************)
(* The TWAI (CAN) controller (peripherals.c).  A frame is attempted on the *)
(* bus after its wire time, again and again until it is acknowledged or    *)
(* given up; errors count up to bus-off, from which the guest starts a     *)
(* recovery in two phases.  Received frames wait in a bounded FIFO.        *)
(***************************************************************************)
CONSTANTS
    FifoFrames,     \* TWAI_RX_FIFO_FRAMES
    FifoBytes,      \* TWAI_RX_FIFO_BYTES
    Warning,        \* error_warning_limit  (error counts are scaled down)
    Passive,        \* 128
    BusOff,         \* 256
    TwaiWatched,        \* the conditions the guest looks at; the others are not kept
    TwaiMaxFrames       \* frames the host offers

TwaiAssumption == Warning < Passive /\ Passive < BusOff /\ FifoFrames \in Nat \ {0}

ErrorStep == 2      \* 8

(* mode: subset of reset, listen, selftest; busy, complete, armed, frame:    *)
(* the transmission; busoff, phase, recovering; tec; rx, overrun; raw, ena,  *)
(* irq; clock.  History: owed: a frame whose end was not reported; early: an *)
(* interrupt was raised while one was owed and the buffer free; next, lost:  *)
(* frames offered, one dropped unseen; taken: the last one read; halted: a   *)
(* stopped clock ended or refused a recovery.                                *)

NoFrame == [single |-> FALSE, self |-> FALSE]

\* twai_reset_state
ResetState(d) ==
    [d EXCEPT !.mode = {"reset"}, !.busy = FALSE, !.complete = TRUE, !.armed = FALSE, !.frame = NoFrame,
              !.busoff = FALSE, !.phase = 0, !.recovering = FALSE, !.tec = 0, !.rx = <<>>,
              !.overrun = FALSE, !.raw = {}, !.ena = {}, !.irq = FALSE, !.owed = FALSE, !.lost = FALSE,
              !.halted = FALSE]

TwaiInit ==
    dev = [mode |-> {"reset"}, busy |-> FALSE, complete |-> TRUE, armed |-> FALSE, frame |-> NoFrame,
           busoff |-> FALSE, phase |-> 0, recovering |-> FALSE, tec |-> 0, rx |-> <<>>,
           overrun |-> FALSE, raw |-> {}, ena |-> {}, irq |-> FALSE, clock |-> TRUE,
           owed |-> FALSE, early |-> FALSE, next |-> 1, taken |-> 0, lost |-> FALSE, halted |-> FALSE]

Interrupts == {"rx", "tx", "error", "overrun", "passive", "arb", "bus"}
TwaiTypeOK ==
    /\ dev.mode \subseteq {"reset", "listen", "selftest"} /\ dev.raw \cup dev.ena \subseteq Interrupts
    /\ dev.tec \in 0 .. BusOff - 1 /\ dev.phase \in 0 .. 2
-----------------------------------------------------------------------------
\* twai_irq_update
TwaiIrqUpdate(d) ==
    LET active == d.clock /\ d.raw \cap d.ena # {}
    IN  [d EXCEPT !.raw = @ \cap TwaiWatched, !.irq = active, !.early = @ \/ (active /\ d.owed /\ ~d.busy)]

Bytes(rx) == FoldLeft(LAMBDA n, f : n + f.size, 0, rx)

\* twai_enqueue_rx: refused, filtered, dropped with a report, or queued.
EnqueueRx(d, frame, accepted) ==
    IF ~d.clock \/ d.busoff \/ "reset" \in d.mode \/ ~accepted THEN d
    ELSE IF Len(d.rx) >= FifoFrames \/ frame.size > FifoBytes - Bytes(d.rx)
         THEN TwaiIrqUpdate([d EXCEPT !.overrun = TRUE, !.raw = @ \cup {"overrun"}, !.lost = TRUE])
    ELSE TwaiIrqUpdate([d EXCEPT !.rx = Append(@, frame), !.raw = @ \cup {"rx"}])

\* twai_release_rx
ReleaseRx(d) ==
    LET rest == IF d.rx = <<>> THEN <<>> ELSE Tail(d.rx)
    IN  TwaiIrqUpdate([d EXCEPT !.rx = rest,
                            !.raw = IF rest = <<>> THEN @ \ {"rx"} ELSE @ \cup {"rx"}])

\* twai_update_error_thresholds
UpdateErrorThresholds(d, before) ==
    [d EXCEPT !.raw = @ \cup {c \in {"error"} : (before >= Warning) # (d.tec >= Warning)}
                        \cup {c \in {"passive"} : (before >= Passive) # (d.tec >= Passive)}]

\* The acknowledged attempt: the end is latched before the frame is received back.
FinishAck(d) ==
    LET e == UpdateErrorThresholds([d EXCEPT !.tec = IF @ = 0 THEN 0 ELSE @ - 1], d.tec)
        told == [e EXCEPT !.busy = FALSE, !.complete = TRUE, !.raw = @ \cup {"tx"}, !.owed = FALSE]
    IN  TwaiIrqUpdate(IF d.frame.self THEN EnqueueRx(told, [n |-> 0, size |-> 1], TRUE) ELSE told)

\* twai_finish_tx_attempt
FinishTxAttempt(d, result) ==
    LET tec == IF d.tec + ErrorStep >= BusOff THEN BusOff ELSE d.tec + ErrorStep
        lost == [d EXCEPT !.raw = @ \cup {"arb"}]
        failed == UpdateErrorThresholds([d EXCEPT !.tec = tec, !.raw = @ \cup {"bus"}], d.tec)
        e == IF result = "arb_lost" THEN lost ELSE failed
    IN  IF ~d.busy THEN d
        ELSE IF result = "ack" \/ (result = "no_ack" /\ "selftest" \in d.mode) THEN FinishAck(d)
        ELSE IF result # "arb_lost" /\ tec >= BusOff
             THEN TwaiIrqUpdate([failed EXCEPT !.busoff = TRUE, !.mode = @ \cup {"reset"}, !.tec = Passive,
                                           !.busy = FALSE, !.complete = FALSE,
                                           !.raw = @ \cup {"error"}, !.owed = FALSE])
        ELSE IF d.frame.single
             THEN TwaiIrqUpdate([e EXCEPT !.busy = FALSE, !.complete = FALSE, !.raw = @ \cup {"tx"},
                                      !.owed = FALSE])
        ELSE TwaiIrqUpdate([e EXCEPT !.armed = TRUE])

\* twai_start_tx
StartTx(d, single, self) ==
    IF ~d.clock \/ d.busy \/ d.busoff \/ d.mode \cap {"reset", "listen"} # {} THEN d
    ELSE [d EXCEPT !.frame = [single |-> single, self |-> self], !.busy = TRUE, !.complete = FALSE,
                   !.armed = TRUE, !.owed = TRUE]

\* twai_abort_tx
AbortTx(d) ==
    IF ~d.busy THEN d
    ELSE TwaiIrqUpdate([d EXCEPT !.busy = FALSE, !.complete = TRUE, !.armed = FALSE,
                             !.raw = @ \cup {"tx"}, !.owed = FALSE])

\* twai_start_recovery
StartRecovery(d) ==
    IF ~d.busoff THEN d
    ELSE IF ~d.clock THEN [d EXCEPT !.halted = TRUE]
    ELSE [d EXCEPT !.phase = 1, !.recovering = TRUE, !.halted = FALSE]

\* twai_recovery_step
RecoveryStep(d) ==
    IF ~d.busoff THEN d
    ELSE IF d.phase = 1
         THEN TwaiIrqUpdate([d EXCEPT !.tec = 0, !.raw = @ \cup {"error"}, !.phase = 2, !.recovering = TRUE])
    ELSE TwaiIrqUpdate([d EXCEPT !.busoff = FALSE, !.phase = 0, !.complete = TRUE, !.raw = @ \cup {"error"}])
-----------------------------------------------------------------------------
(* twai_eval_events, on a deadline and before every register access: the     *)
(* wire time of the frame or a recovery phase has passed.                    *)
TxEvent(result) ==
    /\ dev.clock /\ dev.armed
    /\ dev' = FinishTxAttempt([dev EXCEPT !.armed = FALSE], result)
RecoveryEvent ==
    /\ dev.clock /\ dev.recovering
    /\ dev' = RecoveryStep([dev EXCEPT !.recovering = FALSE])

\* twai_write_mode
WriteMode(mode) ==
    LET was == "reset" \in dev.mode
        now == "reset" \in mode
        d == [dev EXCEPT !.mode = mode]
        stopped == [d EXCEPT !.busy = FALSE, !.complete = TRUE, !.armed = FALSE, !.recovering = FALSE,
                             !.rx = <<>>, !.raw = @ \ {"rx"}, !.owed = FALSE]
    IN  /\ dev' = TwaiIrqUpdate(IF ~was /\ now THEN stopped
                                ELSE IF was /\ ~now /\ d.busoff THEN StartRecovery(d) ELSE d)

\* twai_write, COMMAND
WriteCommand(tx, self, abort, release, clear) ==
    LET r == IF release THEN ReleaseRx(dev) ELSE dev
        c == IF clear THEN [r EXCEPT !.overrun = FALSE, !.raw = @ \ {"overrun"}, !.lost = FALSE] ELSE r
        s == IF tx \/ self THEN StartTx(c, abort, self) ELSE IF abort THEN AbortTx(c) ELSE c
        taken == IF release /\ dev.rx # <<>> /\ Head(dev.rx).n # 0 THEN Head(dev.rx).n ELSE dev.taken
    IN  dev' = [TwaiIrqUpdate(s) EXCEPT !.taken = taken]

\* twai_write, INTERRUPT_ENABLE: only in reset mode
TwaiWriteIntEna(mask) ==
    /\ dev' = TwaiIrqUpdate(IF "reset" \in dev.mode THEN [dev EXCEPT !.ena = mask] ELSE dev)

\* twai_read, INTERRUPT: reading clears everything but a receive condition.
ReadInterrupt ==
    /\ dev' = TwaiIrqUpdate([dev EXCEPT !.raw = IF dev.rx = <<>> THEN {} ELSE @ \cap {"rx"}])

\* A frame from the bus (periph_twai_rx)
TwaiHostFrame(size, accepted) ==
    /\ dev.next <= TwaiMaxFrames
    /\ dev' = [EnqueueRx(dev, [n |-> dev.next, size |-> size], accepted) EXCEPT !.next = @ + 1]

\* twai_set_system_state, twai_clock_update
TwaiSetSystemState(clock, reset) ==
    LET d == IF reset THEN ResetState(dev) ELSE dev
    IN  /\ clock # dev.clock \/ reset
        /\ dev' = IF clock THEN TwaiIrqUpdate([d EXCEPT !.clock = TRUE])
                  ELSE [d EXCEPT !.clock = FALSE, !.armed = FALSE, !.recovering = FALSE, !.busy = FALSE,
                                 !.complete = TRUE, !.irq = FALSE, !.owed = FALSE,
                                 !.halted = @ \/ d.recovering]

TwaiNext ==
    \/ \E r \in {"ack", "no_ack", "arb_lost", "bus_error"} : TxEvent(r)
    \/ RecoveryEvent
    \/ \E m \in {{}, {"reset"}, {"selftest"}, {"listen"}} : WriteMode(m)
    \/ \E c \in {"tx", "self", "single", "abort", "release", "release_tx", "clear"} :
            WriteCommand(c \in {"tx", "single", "release_tx"}, c = "self", c \in {"single", "abort"},
                         c \in {"release", "release_tx"}, c = "clear")
    \/ \E m \in {{}, TwaiWatched} : TwaiWriteIntEna(m)
    \/ ReadInterrupt
    \/ \E size \in 1 .. 2, a \in BOOLEAN : TwaiHostFrame(size, a)
    \/ \E c, r \in BOOLEAN : TwaiSetSystemState(c, r)

TwaiSpec == TwaiInit /\ [][TwaiNext]_dev
-----------------------------------------------------------------------------
(* The line is high exactly for an enabled condition of a clocked controller,*)
(* and the receive condition stands exactly while a frame waits, also after  *)
(* the guest has read the register or released only the first of them.       *)
TwaiIrqExact == dev.irq = (dev.clock /\ dev.raw \cap dev.ena # {})
ReceiveLevel == ("rx" \in dev.raw) = (dev.rx # <<>>)

(* A frame under way always has its next attempt ahead, whatever errors,     *)
(* aborts, mode changes and clock stops came before.                         *)
TransmitAlive == /\ dev.busy => dev.armed /\ dev.clock /\ ~dev.busoff /\ "reset" \notin dev.mode
                 /\ dev.armed => dev.busy

(* A frame that leaves the buffer by itself has its end latched when the     *)
(* guest can first see the buffer free (the comment in                       *)
(* twai_finish_tx_attempt): no interrupt comes in between.                   *)
EndToldOnce == ~dev.early /\ (dev.owed => dev.busy)

(* A controller that is off the bus is in reset mode, where the guest can    *)
(* start the recovery, or a recovery is running, unless the clock stopped it.*)
RecoveryAlive ==
    dev.busoff => "reset" \in dev.mode \/ (dev.recovering /\ dev.phase # 0) \/ dev.halted \/ ~dev.clock

(* Frames come out in the order they arrived, and a dropped one is told.     *)
FramesInOrder ==
    LET kept == SelectSeq(dev.rx, LAMBDA f : f.n # 0)
    IN  /\ \A i, j \in 1 .. Len(kept) : i < j => kept[i].n < kept[j].n
        /\ \A i \in 1 .. Len(kept) : kept[i].n > dev.taken
        /\ dev.lost => dev.overrun
        /\ Bytes(dev.rx) <= FifoBytes

-----------------------------------------------------------------------------
(***************************************************************************)
(* The Ethernet MAC (peripherals.c): two rings of descriptors that the     *)
(* guest and the DMA pass to each other with an ownership bit.  A frame    *)
(* takes one descriptor or two.  Frames are sent when the guest polls, and *)
(* in loopback received again inside that poll.                            *)
(***************************************************************************)
CONSTANTS
    Ring,           \* descriptors in each ring (at most EMAC_DMA_MAX_DESCRIPTORS)
    EmacWatched,        \* the events the guest looks at; the others are not kept
    MaxMissed,      \* where the count of missed frames starts again (65535)
    Filters,        \* settings of the frame filter
    EmacMaxFrames       \* frames sent, and frames that arrive

EmacAssumption == "fatal" \in EmacWatched /\ Ring \in Nat \ {0} /\ EmacMaxFrames \in Nat

Normal == {"rx", "tx"}
Abnormal == {"rx_unavailable", "tx_unavailable", "fatal"}
EmacNone == 0

(* tx, rx: the rings; txcur, rxcur: where the DMA stands (None: not set);    *)
(* based; start, config: enabled directions in the DMA and in the MAC;       *)
(* status, sums, ena: events, summary bits, enables (with the summaries);    *)
(* irq; clock; missed; filter; mode: the traffic.  The guest: fill, drain,    *)
(* give: descriptors it prepares, takes and gives back next.  History: the   *)
(* frames prepared, sent, arrived, got; ok: in order and whole; polled: a poll *)
(* followed the last change.                                 *)

FreeTx == [own |-> FALSE, first |-> FALSE, last |-> FALSE, n |-> 0]
FreeRx == [own |-> FALSE, first |-> FALSE, last |-> FALSE, n |-> 0]
Rings == [i \in 1 .. Ring |-> FreeTx]
NextDesc(i) == (i % Ring) + 1

\* emac_reset_state
EmacInit ==
    \E f \in Filters, mode \in {"send", "receive", "loopback"} :
        dev = [tx |-> Rings, rx |-> Rings, txcur |-> EmacNone, rxcur |-> EmacNone, based |-> FALSE,
               start |-> {}, config |-> {}, status |-> {}, sums |-> {}, ena |-> {}, irq |-> FALSE,
               clock |-> TRUE, missed |-> 0, filter |-> f, mode |-> mode,
               fill |-> 1, drain |-> 1, give |-> 1, prepared |-> 0, sent |-> 0, arrived |-> 0,
               got |-> 0, ok |-> TRUE, polled |-> TRUE]

EmacTypeOK ==
    /\ dev.txcur \in 0 .. Ring /\ dev.rxcur \in 0 .. Ring
    /\ dev.status \subseteq Normal \cup Abnormal /\ dev.sums \subseteq {"normal", "abnormal"}
    /\ dev.got <= dev.arrived /\ dev.sent <= dev.prepared
-----------------------------------------------------------------------------
\* emac_refresh_summaries
RefreshSummaries(d) ==
    [d EXCEPT !.sums = @ \cup {s \in {"normal"} : s \in d.ena /\ d.status \cap d.ena \cap Normal # {}}
                         \cup {s \in {"abnormal"} : s \in d.ena /\ d.status \cap d.ena \cap Abnormal # {}}]

\* emac_irq_update
EmacIrqUpdate(d) ==
    LET raised(s, events) == s \in d.sums /\ s \in d.ena /\ d.status \cap d.ena \cap events # {}
    IN  [d EXCEPT !.irq = d.clock /\ (raised("normal", Normal) \/ raised("abnormal", Abnormal))]

\* emac_raise_status
RaiseStatus(d, events) == EmacIrqUpdate(RefreshSummaries([d EXCEPT !.status = @ \cup (events \cap EmacWatched)]))

\* emac_filter_frame: what happens to a frame for this destination
FilterFrame(filter, to) ==
    LET known == CASE to = "broadcast" -> "block_bcast" \notin filter
                   [] to = "station" -> "da_inverse" \notin filter
                   [] to = "multicast" -> ("all_multicast" \in filter) # ("da_inverse" \in filter)
    IN  IF "promiscuous" \in filter THEN [pass |-> TRUE, failed |-> FALSE]
        ELSE [pass |-> known \/ "receive_all" \in filter, failed |-> ~known]

\* emac_receive_frame: number n, in `size` descriptors, or a report and no change
ReceiveFrame(d, n, size, to) ==
    LET cur == IF d.rxcur = EmacNone /\ d.based THEN 1 ELSE d.rxcur
        \* the descriptors the frame takes
        used(k) == ((cur + k - 2) % Ring) + 1
        short == \E k \in 1 .. size : ~d.rx[used(k)].own
        after == ((cur + size - 1) % Ring) + 1
        filled(i) == CHOOSE k \in 1 .. size : used(k) = i
        put == [i \in 1 .. Ring |->
                  IF \E k \in 1 .. size : used(k) = i
                  THEN [own |-> FALSE, first |-> filled(i) = 1, last |-> filled(i) = size, n |-> n]
                  ELSE d.rx[i]]
    IN  IF ~d.clock \/ "rx" \notin d.start \/ "rx" \notin d.config \/ "fatal" \in d.status
           \/ ~FilterFrame(d.filter, to).pass THEN d
        ELSE IF cur = EmacNone THEN RaiseStatus(d, {"fatal"})
        ELSE IF short THEN RaiseStatus([d EXCEPT !.missed = IF @ = MaxMissed THEN 0 ELSE @ + 1],
                                       {"rx_unavailable"})
        ELSE RaiseStatus([d EXCEPT !.rx = put, !.rxcur = after], {"rx"})

\* The frame whose first descriptor is i: its last descriptor, or None if it is not all owned.
FrameEnd(d, i) ==
    IF ~d.tx[i].own THEN EmacNone
    ELSE IF d.tx[i].last THEN i
    ELSE IF d.tx[NextDesc(i)].own /\ d.tx[NextDesc(i)].last THEN NextDesc(i) ELSE EmacNone

\* One frame of emac_process_tx: sent, given back, told, looped back.
SendFrame(d, i) ==
    LET end == FrameEnd(d, i)
        used == IF end = i THEN {i} ELSE {i, end}
        n == d.tx[i].n
        e == [d EXCEPT !.tx = [j \in 1 .. Ring |-> IF j \in used THEN [@[j] EXCEPT !.own = FALSE] ELSE @[j]],
                       !.txcur = NextDesc(end), !.sent = n,
                       !.ok = @ /\ d.tx[i].first /\ n = d.sent + 1]
        told == RaiseStatus(e, {"tx"})
    IN  IF d.mode = "loopback" /\ told.arrived < EmacMaxFrames
        THEN ReceiveFrame([told EXCEPT !.arrived = @ + 1], told.arrived + 1, Cardinality(used), "station")
        ELSE told

\* emac_process_tx
ProcessTx(d) ==
    LET run[k \in 0 .. Ring] ==
            IF k = 0 THEN [d |-> d, go |-> TRUE]
            ELSE LET r == run[k - 1]
                     cur == IF r.d.txcur = EmacNone /\ r.d.based THEN 1 ELSE r.d.txcur
                 IN  IF ~r.go \/ cur = EmacNone THEN [r EXCEPT !.go = FALSE]
                     ELSE IF ~r.d.tx[cur].own
                          THEN [d |-> RaiseStatus(r.d, {"tx_unavailable"}), go |-> FALSE]
                     ELSE IF FrameEnd(r.d, cur) = EmacNone THEN [r EXCEPT !.go = FALSE]
                     ELSE LET sent == SendFrame(r.d, cur)
                          IN  IF sent.tx[sent.txcur].own THEN [d |-> sent, go |-> TRUE]
                              ELSE [d |-> RaiseStatus(sent, {"tx_unavailable"}), go |-> FALSE]
    IN  IF ~d.clock \/ "tx" \notin d.start \/ "tx" \notin d.config \/ "fatal" \in d.status THEN d
        ELSE [run[Ring].d EXCEPT !.polled = TRUE]
-----------------------------------------------------------------------------
\* The guest's driver: one descriptor of a frame of `size` is prepared and given away.
Prepare(size) ==
    LET d == dev.tx[dev.fill]
        prev == dev.tx[((dev.fill + Ring - 2) % Ring) + 1]
        inside == dev.prepared > 0 /\ prev.n = dev.prepared /\ ~prev.last
        n == IF inside THEN dev.prepared ELSE dev.prepared + 1
    IN  /\ dev.mode # "receive" /\ ~d.own /\ n <= EmacMaxFrames /\ size < Ring
        /\ inside => size = 1
        /\ dev' = [dev EXCEPT !.tx[dev.fill] = [own |-> TRUE, first |-> ~inside, last |-> size = 1, n |-> n],
                              !.fill = NextDesc(@), !.prepared = n, !.polled = FALSE]
\* emac_dma_write, TX_POLL
TxPoll == dev' = ProcessTx(dev)

\* The guest's driver: it takes the next received descriptor, and gives one back.
TakeRx ==
    LET d == dev.rx[dev.drain]
    IN  /\ ~d.own /\ d.n # 0
        /\ dev' = [dev EXCEPT !.rx[dev.drain] = FreeRx, !.drain = NextDesc(@),
                              !.got = d.n, !.ok = @ /\ (IF d.first THEN d.n > dev.got ELSE d.n = dev.got)]
GiveRx ==
    /\ dev.mode # "send" /\ ~dev.rx[dev.give].own /\ dev.rx[dev.give].n = 0
    /\ dev' = [dev EXCEPT !.rx[dev.give].own = TRUE, !.give = NextDesc(@)]

\* A frame from the wire (periph_emac_receive)
EmacHostFrame(size, to) ==
    /\ dev.arrived < EmacMaxFrames /\ dev.mode = "receive" /\ size < Ring
    /\ dev' = ReceiveFrame([dev EXCEPT !.arrived = @ + 1], dev.arrived + 1, size, to)

\* emac_dma_write, the base addresses, while the DMA is stopped
WriteBase == /\ dev.start = {} /\ ~dev.based
             /\ dev' = [dev EXCEPT !.based = TRUE, !.txcur = 1, !.rxcur = 1]
\* emac_dma_write, OPMODE
WriteOpmode ==
    /\ dev.start = {}
    /\ LET base == IF dev.based THEN 1 ELSE EmacNone
       IN  dev' = ProcessTx([dev EXCEPT !.start = {"rx", "tx"}, !.rxcur = base, !.txcur = base])
\* emac_write, MAC_CONFIG: no poll follows
WriteConfig(c) == dev' = [dev EXCEPT !.config = c, !.polled = FALSE]
BugWriteStatus(mask) ==     \* mutation: the summaries are not computed again
    dev' = EmacIrqUpdate([dev EXCEPT !.status = @ \ mask, !.sums = @ \ mask,
                                 !.polled = IF "fatal" \in mask THEN FALSE ELSE @])

\* emac_dma_write, STATUS: the cleared bits, the summaries among them
WriteStatus(mask) ==
    dev' = EmacIrqUpdate(RefreshSummaries([dev EXCEPT !.status = @ \ mask, !.sums = @ \ mask,
                                                  !.polled = IF "fatal" \in mask THEN FALSE ELSE @]))
\* emac_dma_write, INT_ENA
EmacWriteIntEna(mask) == dev' = EmacIrqUpdate(RefreshSummaries([dev EXCEPT !.ena = mask]))
\* emac_dport_update
DportUpdate(on) == dev' = EmacIrqUpdate([dev EXCEPT !.clock = on, !.polled = FALSE])
\* emac_reset_dma; the guest sets its rings up again
SwReset ==
    dev' = [dev EXCEPT !.tx = Rings, !.rx = Rings, !.txcur = EmacNone, !.rxcur = EmacNone, !.based = FALSE,
                       !.start = {}, !.status = {}, !.sums = {}, !.ena = {}, !.irq = FALSE, !.missed = 0,
                       !.fill = 1, !.drain = 1, !.give = 1, !.sent = dev.prepared, !.polled = TRUE]

EmacNext ==
    \/ \E size \in 1 .. 2 : Prepare(size)
    \/ TxPoll \/ TakeRx \/ GiveRx \/ WriteBase \/ WriteOpmode \/ SwReset
    \/ \E size \in 1 .. 2, to \in {"station", "broadcast", "multicast"} : EmacHostFrame(size, to)
    \/ \E c \in {{}, {"rx", "tx"}} : WriteConfig(c)
    \/ \E m \in {{"rx", "tx"}, {"normal"}, Abnormal \cup {"abnormal"}} : WriteStatus(m)
    \/ \E m \in {{}, EmacWatched \cup {"normal", "abnormal"}} : EmacWriteIntEna(m)
    \/ \E on \in BOOLEAN : DportUpdate(on)

EmacSpec == EmacInit /\ [][EmacNext]_dev
-----------------------------------------------------------------------------
(* Frames leave, and are received, whole and in order, however descriptors   *)
(* are given away between polls, in loopback too.                            *)
FramesIntact == dev.ok

(* The line is high exactly while an enabled event of an enabled class is    *)
(* latched: a guest that clears only the summary bit is interrupted again.   *)
EmacIrqExact ==
    dev.irq = (/\ dev.clock
               /\ \/ "normal" \in dev.ena /\ dev.status \cap dev.ena \cap Normal # {}
                  \/ "abnormal" \in dev.ena /\ dev.status \cap dev.ena \cap Abnormal # {})

(* After a poll no whole frame is left waiting in the ring.                  *)
PollComplete ==
    LET able == dev.clock /\ "tx" \in dev.start /\ "tx" \in dev.config /\ "fatal" \notin dev.status
    IN  able /\ dev.polled /\ dev.txcur # EmacNone => FrameEnd(dev, dev.txcur) = EmacNone

(* The DMA stands on the oldest descriptor the guest gave it: the descriptors*)
(* it owns are a run of the ring from there on.                              *)
OwnedFromCurrent ==
    /\ dev.txcur # EmacNone /\ (\E i \in 1 .. Ring : dev.tx[i].own) => dev.tx[dev.txcur].own
    /\ dev.rxcur # EmacNone /\ (\E i \in 1 .. Ring : dev.rx[i].own) => dev.rx[dev.rxcur].own

(* Only the DMA's own descriptors change when a frame is sent or received:   *)
(* one the guest holds keeps its contents.                                   *)
DmaStep ==
    \A i \in 1 .. Ring :
        /\ ~dev.tx[i].own /\ dev'.tx[i] # dev.tx[i] => dev'.tx[i].own \/ dev'.fill = 1
        /\ ~dev.rx[i].own /\ dev'.rx[i] # dev.rx[i] => dev'.rx[i].n = 0
OwnershipKept == [][DmaStep]_dev
=============================================================================
