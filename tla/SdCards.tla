------------------------------ MODULE SdCards -------------------------------
(***************************************************************************)
(* SD: the host controller, the SDIO slave, and the card behind SPI.       *)
(* Each part stands alone: dev is the state of the one being explored.     *)
(***************************************************************************)
EXTENDS Integers, Sequences, SequencesExt, FiniteSets, TLC

VARIABLE dev

-----------------------------------------------------------------------------
(***************************************************************************)
(* The SD host controller and the card behind it (peripherals.c): the      *)
(* command machine, a block transfer through the FIFO or by the internal   *)
(* DMA engine, which walks a ring of descriptors one timed event at a time *)
(* and waits, after each interrupting one, for the guest's acknowledgement *)
(* so that it can refill the ring.  One descriptor or FIFO word carries    *)
(* one block.                                                              *)
(***************************************************************************)
CONSTANTS
    SdmmcSectors,        \* blocks on the card
    RingSize,       \* descriptors in the ring
    FifoWords,      \* SDMMC_FIFO_WORDS
    MaxBlocks,      \* longest transfer
    MaxCommands     \* data commands issued

SdmmcAssumption ==
    /\ SdmmcSectors \in Nat \ {0} /\ RingSize \in Nat \ {0, 1}
    /\ FifoWords \in Nat \ {0} /\ MaxBlocks \in Nat \ {0}

NoTransfer == [active |-> FALSE, write |-> FALSE, dma |-> FALSE, pos |-> 0, total |-> 0,
               lba |-> 0, ack |-> FALSE, armed |-> FALSE, buf |-> <<>>]
Unwritten == 0
Supplied == 99      \* a block the guest writes

(* clock; attached, protected: the card; disk; broken: the host's write      *)
(* callback fails; x: the transfer; at: its descriptor; ring:   *)
(* per descriptor its owner, buffer and "disable interrupt" bit; fifo; dma:  *)
(* the DMA enables; raw, ids, irq.  History: read: what the guest got of this transfer; cmds; halted:    *)
(* the clock stopped during the transfer.                                    *)

SdmmcInit ==
    \E protected, broken \in BOOLEAN :
        dev = [clock |-> TRUE, attached |-> TRUE, protected |-> protected,
               disk |-> [b \in 1 .. SdmmcSectors |-> b], broken |-> broken,
               x |-> NoTransfer, at |-> 1,
               ring |-> [i \in 1 .. RingSize |-> [own |-> "cpu", buf |-> Unwritten, dic |-> FALSE]],
               fifo |-> <<>>, dma |-> TRUE, raw |-> {}, ids |-> {}, irq |-> FALSE,
               read |-> <<>>, cmds |-> 0, halted |-> FALSE]

SdmmcTypeOK ==
    /\ dev.x.pos \in 0 .. MaxBlocks /\ dev.x.total \in 0 .. MaxBlocks /\ dev.at \in 1 .. RingSize
    /\ Len(dev.fifo) <= FifoWords
    /\ dev.raw \subseteq {"cmd", "over", "resp", "timeout", "crc", "run", "rxdr", "txdr"}
    /\ dev.ids \subseteq {"done", "unavail", "card"}
-----------------------------------------------------------------------------
UpdateIrq(d) == [d EXCEPT !.irq = d.clock /\ (d.raw # {} \/ d.ids # {})]

\* sdmmc_cancel_transfer
Cancel(d) == [d EXCEPT !.x = NoTransfer]

\* sdmmc_arm_transfer
Arm(d) ==
    IF d.clock /\ d.x.active /\ d.x.dma /\ ~d.x.ack THEN [d EXCEPT !.x.armed = TRUE] ELSE d

\* sdmmc_commit_write and sdmmc_finish_transfer
SdmmcFinish(d) ==
    LET ok == d.x.write => ~d.protected /\ ~d.broken
        disk == IF ok /\ d.x.write
                THEN [b \in 1 .. SdmmcSectors |->
                        IF b \in d.x.lba .. d.x.lba + d.x.total - 1
                        THEN d.x.buf[b - d.x.lba + 1] ELSE d.disk[b]]
                ELSE d.disk
    IN  UpdateIrq([d EXCEPT !.disk = disk, !.x.active = FALSE, !.x.ack = FALSE, !.x.armed = FALSE,
                            !.raw = @ \cup (IF ok THEN {"over"} ELSE {"crc"}),
                            !.ids = IF ok THEN @ ELSE @ \cup {"card"}])

\* sdmmc_dma_error: the descriptor goes back to the guest, the transfer ends.
DmaError(d) ==
    UpdateIrq([d EXCEPT !.ids = @ \cup {"unavail"}, !.raw = @ \cup {"run"},
                        !.ring[d.at].own = "cpu", !.x.active = FALSE, !.x.armed = FALSE])

\* sdmmc_process_descriptor
ProcessDescriptor(d) ==
    LET desc == d.ring[d.at]
        block == d.x.pos + 1
        final == block = d.x.total
        interrupt == ~desc.dic \/ final
        e == [d EXCEPT !.x.pos = block,
                       !.x.buf = IF d.x.write THEN Append(@, desc.buf) ELSE @,
                       !.ring[d.at] = [desc EXCEPT !.own = "cpu",
                                                   !.buf = IF d.x.write THEN @ ELSE d.x.buf[block]],
                       !.ids = IF interrupt THEN @ \cup {"done"} ELSE @]
    IN  IF ~d.x.active \/ ~d.x.dma THEN d
        ELSE IF desc.own # "dma" THEN DmaError(d)
        ELSE IF final THEN SdmmcFinish(e)
        ELSE LET f == [e EXCEPT !.at = (d.at % RingSize) + 1]
             IN  UpdateIrq(IF interrupt THEN f ELSE Arm(f))

\* sdmmc_fifo_fill_read
FillFifo(d) ==
    LET n == IF d.x.total - d.x.pos < FifoWords - Len(d.fifo)
             THEN d.x.total - d.x.pos ELSE FifoWords - Len(d.fifo)
    IN  UpdateIrq([d EXCEPT !.fifo = @ \o SubSeq(d.x.buf, d.x.pos + 1, d.x.pos + n),
                            !.x.pos = @ + n, !.raw = @ \cup {"rxdr"}])

\* sdmmc_prepare_transfer: refused outside the card; a read is fetched whole.
Prepares(d, lba, n) == lba >= 1 /\ lba + n - 1 <= SdmmcSectors
Prepare(d, write, lba, n) ==
    [d EXCEPT !.x = [active |-> TRUE, write |-> write, dma |-> d.dma, pos |-> 0, total |-> n,
                     lba |-> lba, ack |-> d.dma, armed |-> FALSE,
                     buf |-> IF write THEN <<>> ELSE SubSeq(d.disk, lba, lba + n - 1)],
              !.at = 1, !.fifo = <<>>, !.read = <<>>, !.halted = FALSE]
-----------------------------------------------------------------------------
\* sdmmc_execute_command: data commands 17, 18, 24 and 25.
DataCommand(write, lba, n) ==
    /\ dev.clock /\ dev.cmds < MaxCommands /\ ~dev.x.active
    /\ LET d == [dev EXCEPT !.cmds = @ + 1]
           ok == d.attached /\ (write => ~d.protected) /\ Prepares(d, lba, n)
           e == IF ok THEN [Prepare(d, write, lba, n) EXCEPT !.raw = @ \cup {"cmd"}]
                ELSE IF ~d.attached THEN [d EXCEPT !.raw = @ \cup {"cmd", "timeout"}]
                ELSE [Cancel(d) EXCEPT !.raw = @ \cup {"cmd", "timeout", "over"}]
           f == IF e.x.active /\ ~e.x.dma /\ ok
                THEN IF write THEN [e EXCEPT !.raw = @ \cup {"txdr"}] ELSE FillFifo(e)
                ELSE e
       IN  dev' = UpdateIrq(f)

\* sdmmc_execute_command: a command without data, answered or refused.
Command(refused) ==
    /\ dev.clock /\ dev.attached
    /\ dev' = UpdateIrq([dev EXCEPT !.raw = @ \cup {"cmd"} \cup (IF refused THEN {"resp"} ELSE {})])

\* sdmmc_eval_events
DmaEvent ==
    /\ dev.clock /\ dev.x.armed
    /\ dev' = ProcessDescriptor([dev EXCEPT !.x.armed = FALSE])

\* sdmmc_write, RINTSTS: acknowledging the command lets the data phase start.
WriteRintsts ==
    /\ dev.raw # {}
    /\ LET d == [dev EXCEPT !.raw = {}]
           e == IF d.x.active /\ d.x.dma /\ d.x.ack /\ "cmd" \in dev.raw
                THEN Arm([d EXCEPT !.x.ack = FALSE]) ELSE d
       IN  dev' = UpdateIrq(e)

\* sdmmc_write, IDSTS: the acknowledgement that moves the ring on.
WriteIdsts ==
    /\ dev.ids # {}
    /\ dev' = UpdateIrq(Arm([dev EXCEPT !.ids = {}]))

PollDemand == dev.x.active /\ dev' = Arm(dev)

\* sdmmc_fifo_read, sdmmc_fifo_write
FifoRead ==
    /\ ~dev.dma
    /\ IF dev.fifo = <<>> THEN dev' = UpdateIrq([dev EXCEPT !.raw = @ \cup {"run"}])
       ELSE LET d == [dev EXCEPT !.fifo = Tail(@), !.read = Append(@, Head(dev.fifo))]
                e == IF d.fifo # <<>> THEN d ELSE [d EXCEPT !.raw = @ \ {"rxdr"}]
            IN  dev' = IF d.fifo = <<>> /\ d.x.active /\ ~d.x.write
                       THEN IF d.x.pos < d.x.total THEN FillFifo(e) ELSE SdmmcFinish(e)
                       ELSE e
FifoWrite ==
    /\ ~dev.dma /\ dev.x.active /\ dev.x.write
    /\ LET d == [dev EXCEPT !.x.buf = Append(@, Supplied), !.x.pos = @ + 1]
       IN  dev' = IF d.x.pos = d.x.total THEN SdmmcFinish([d EXCEPT !.raw = @ \ {"txdr"}])
                  ELSE UpdateIrq([d EXCEPT !.raw = @ \cup {"txdr"}])

\* The guest refills a descriptor it owns, having taken what a read left there.
GuestRefill(i, dic) ==
    /\ dev.ring[i].own = "cpu" /\ dev.dma
    /\ dev' = [dev EXCEPT
           !.ring[i] = [own |-> "dma", dic |-> dic,
                        buf |-> IF dev.x.active /\ dev.x.write THEN Supplied ELSE Unwritten],
           !.read = IF dev.ring[i].buf # Unwritten /\ ~dev.x.write
                    THEN Append(@, dev.ring[i].buf) ELSE @]

\* sdmmc_write, CTRL: DMA and FIFO reset; the enables change between transfers.
WriteCtrl(dma) ==
    dev' = UpdateIrq([Cancel(dev) EXCEPT !.fifo = <<>>, !.dma = dma])

\* sdmmc_clock_update: stopping the clock disarms, starting it does not arm.
GateClock ==
    dev.clock /\ dev' = UpdateIrq([dev EXCEPT !.clock = FALSE, !.x.armed = FALSE, !.halted = dev.x.active])
UngateClock == ~dev.clock /\ dev' = UpdateIrq([dev EXCEPT !.clock = TRUE])

SetCard(attached) == dev' = [dev EXCEPT !.attached = attached]

SdmmcNext ==
    \/ \E w \in BOOLEAN, lba \in 1 .. SdmmcSectors, n \in 1 .. MaxBlocks : DataCommand(w, lba, n)
    \/ DmaEvent \/ WriteRintsts \/ WriteIdsts \/ PollDemand
    \/ FifoRead \/ FifoWrite \/ GateClock \/ UngateClock
    \/ \E i \in 1 .. RingSize, dic \in BOOLEAN : GuestRefill(i, dic)
    \/ \E dma \in BOOLEAN : WriteCtrl(dma)
    \/ \E a \in BOOLEAN : SetCard(a) \/ Command(a)

SdmmcSpec == SdmmcInit /\ [][SdmmcNext]_dev
-----------------------------------------------------------------------------
\* The interrupt line is the status of a clocked host.
SdmmcIrqExact == dev.irq = (dev.clock /\ (dev.raw # {} \/ dev.ids # {}))

\* A DMA transfer in progress always has something that will move it: its
\* event, or an interrupt the guest has not acknowledged (sdmmc_arm_transfer
\* after every acknowledgement; stopping the clock is the exception).
TransferAlive ==
    dev.x.active /\ dev.x.dma /\ dev.clock /\ ~dev.halted =>
        dev.x.armed \/ (dev.x.ack /\ "cmd" \in dev.raw) \/ dev.ids # {}

\* The card changes in one step, from what it held to the whole transfer, and
\* only if card and host accept it: a transfer that fails or is cancelled
\* midway leaves it alone (sdmmc_commit_write runs at the end).
WriteStep ==
    dev.disk # dev'.disk =>
        /\ ~dev.protected /\ ~dev.broken /\ dev.x.active /\ dev.x.write
        /\ dev'.x.pos = dev'.x.total /\ "over" \in dev'.raw
WriteAtomic == [][WriteStep]_dev

\* The blocks of a read reach the guest in order, none twice and none skipped,
\* through the FIFO or around the ring: a descriptor the guest has not emptied
\* ends the transfer instead of being overwritten.
ReadInOrder == dev.x.total > 0 /\ ~dev.x.write /\ ~dev.dma => IsPrefix(dev.read, dev.x.buf)
RingStep ==
    \A i \in 1 .. RingSize :
        dev.ring[i].own = "cpu" /\ dev'.ring[i].own = "cpu" => dev'.ring[i] = dev.ring[i]
RingRespected == [][RingStep]_dev

-----------------------------------------------------------------------------
(***************************************************************************)
(* The SDIO slave (HINF, SLCHOST and SLC DMA of peripherals.c), channel 0. *)
(* The guest appends descriptors to two linked lists and restarts the DMA; *)
(* the host reads packets from one list as far as the running packet       *)
(* length says, and writes packets into the other as far as the tokens     *)
(* allow.  Descriptor i links to i + 1 once that one was appended.         *)
(***************************************************************************)
CONSTANTS
    LenMod,         \* SLC_LEN_VALUE_MASK + 1
    TokenMod,       \* SLC_TOKEN_VALUE_MASK + 1
    Watched,        \* the interrupts looked at; the others are not kept
    Lengths,        \* lengths of packets
    MaxDescs        \* descriptors appended to each list (also SLC_DMA_MAX_DESCRIPTORS)

SdioSlaveAssumption == LenMod \in Nat \ {0} /\ TokenMod \in Nat \ {0} /\ Lengths \subseteq Nat \ {0}

(* rx, tx: the DMA paths, named from the controller's side: the guest sends  *)
(* through rx and receives through tx.  A path has the list (descs), current *)
(* and last descriptor, running, and step, where the guest's driver is.      *)
(* plen, consumed: packet length and what the host has read of it; token;    *)
(* raw, ena, irq for the guest; host: interrupts for the host; clock, ready. *)
(* History: sent, got: packets sent by the guest, the last the host read;    *)
(* put, taken: packets by the host, the last the guest read; ok: each came   *)
(* whole and in order; way: the direction in use (they share only the        *)
(* interrupt registers).                                                     *)

NoPath == [descs |-> <<>>, cur |-> 0, last |-> 0, run |-> FALSE, step |-> "idle"]
Fresh == [rx |-> NoPath, tx |-> NoPath, plen |-> 0, consumed |-> 0, token |-> 0,
          raw |-> {}, ena |-> {}, irq |-> FALSE, host |-> {}, clock |-> TRUE, ready |-> FALSE,
          got |-> 0, put |-> 0, taken |-> 0, ok |-> TRUE]

\* sdio_slave_reset_state
SdioInit == \E way \in {"send", "receive"} : dev = Fresh @@ [way |-> way]

Interrupts == {"rx_start", "rx_eof", "rx_err", "tx_done", "tx_ovf", "tx_err", "token_empty", "tohost"}
SdioTypeOK ==
    /\ dev.raw \cup dev.ena \subseteq Interrupts
    /\ dev.plen \in 0 .. LenMod - 1 /\ dev.consumed \in 0 .. LenMod - 1 /\ dev.token \in 0 .. TokenMod - 1
    /\ \A p \in {dev.rx, dev.tx} : p.cur \in 0 .. Len(p.descs) /\ p.last \in 0 .. Len(p.descs)
-----------------------------------------------------------------------------
IrqUpdate(d) == [d EXCEPT !.raw = @ \cap Watched, !.host = @ \cap Watched,
                         !.irq = d.clock /\ d.raw \cap d.ena # {}]

SetInterrupts(d, bits) == IrqUpdate([d EXCEPT !.raw = @ \cup bits])

NextDesc(path, i) == IF i < Len(path.descs) THEN i + 1 ELSE 0

\* slc_link_start, on a START, RESTART or STOP write
LinkStart(path, cmd) ==
    IF cmd = "stop" THEN [path EXCEPT !.run = FALSE]
    ELSE LET cur == IF cmd = "start" THEN Len(path.descs)
                    ELSE IF path.cur = 0 /\ path.last # 0 THEN NextDesc(path, path.last)
                    ELSE path.cur
         IN  [path EXCEPT !.cur = cur, !.last = IF cmd = "start" THEN 0 ELSE @, !.run = cur # 0]

\* slc_token_set: the host and the guest are told of an edge.
TokenSet(d, value) ==
    LET v == value % TokenMod
        e == [d EXCEPT !.token = v,
                       !.host = @ \cup {b \in {"token_ready"} : d.token = 0 /\ v # 0}
                                  \cup {b \in {"token_empty"} : d.token # 0 /\ v = 0}]
    IN  IF d.token # 0 /\ v = 0 THEN SetInterrupts(e, {"token_empty"}) ELSE e

\* slc_packet_length_set
PacketLengthSet(d, value) ==
    LET v == value % LenMod
    IN  [d EXCEPT !.plen = v, !.host = @ \cup {b \in {"new_packet"} : d.plen # v}]

Available(d) == (d.plen - d.consumed) % LenMod
-----------------------------------------------------------------------------
(* The guest's driver sends: it appends an owned descriptor, restarts the    *)
(* list (starts it the first time) and then adds the length.                 *)
SendAppend(len) ==
    /\ dev.way = "send" /\ dev.rx.step = "idle" /\ Len(dev.rx.descs) < MaxDescs
    /\ Available(dev) + len < LenMod
    /\ dev' = [dev EXCEPT !.rx.descs = Append(@, [owned |-> TRUE, len |-> len]), !.rx.step = "appended"]

RxLink ==
    /\ dev.rx.step = "appended"
    /\ LET path == LinkStart(dev.rx, IF Len(dev.rx.descs) = 1 THEN "start" ELSE "restart")
           d == [dev EXCEPT !.rx = [path EXCEPT !.step = "linked"]]
       IN  dev' = SetInterrupts(d, IF path.run THEN {"rx_start"} ELSE {"rx_err"})

SendLength ==
    /\ dev.rx.step = "linked"
    /\ dev' = PacketLengthSet([dev EXCEPT !.rx.step = "idle"], dev.plen + Last(dev.rx.descs).len)

(* periph_sdio_slave_host_read_packet: all that is available, or nothing.    *)
HostReadPacket ==
    LET path == dev.rx
        want == Available(dev)
        \* descriptors from the current one, while they are owned and fit
        walk[k \in 0 .. MaxDescs] ==
            IF k = 0 THEN [left |-> want, desc |-> path.cur, n |-> 0]
            ELSE LET w == walk[k - 1]
                 IN  IF w.left = 0 \/ w.desc = 0 THEN w
                     ELSE IF ~path.descs[w.desc].owned \/ path.descs[w.desc].len > w.left THEN w
                     ELSE [left |-> w.left - path.descs[w.desc].len, desc |-> NextDesc(path, w.desc),
                           n |-> w.n + 1]
        found == walk[MaxDescs]
        used == path.cur .. path.cur + found.n - 1
    IN  /\ want # 0 /\ dev.clock /\ dev.ready /\ path.run /\ path.cur # 0
        /\ dev' = IF found.left # 0 THEN SetInterrupts(dev, {"rx_err"})
                  ELSE SetInterrupts([dev EXCEPT
                           !.rx.descs = [i \in DOMAIN @ |->
                                            IF i \in used THEN [@[i] EXCEPT !.owned = FALSE] ELSE @[i]],
                           !.rx.cur = found.desc, !.rx.last = path.cur + found.n - 1,
                           !.rx.run = found.desc # 0, !.consumed = dev.plen, !.host = @ \cup {"rx_eof"},
                           !.ok = @ /\ path.cur = dev.got + 1, !.got = path.cur + found.n - 1],
                           {"rx_eof"})

(* The guest's driver gives a receive buffer of one unit: append, restart,   *)
(* and then a token.                                                         *)
BufferAppend ==
    /\ dev.way = "receive" /\ dev.tx.step = "idle" /\ Len(dev.tx.descs) < MaxDescs
    /\ dev' = [dev EXCEPT !.tx.descs = Append(@, [owned |-> TRUE, len |-> 0, eof |-> FALSE, packet |-> 0]),
                          !.tx.step = "appended"]

TxLink ==
    /\ dev.tx.step = "appended"
    /\ LET path == LinkStart(dev.tx, IF Len(dev.tx.descs) = 1 THEN "start" ELSE "restart")
           d == [dev EXCEPT !.tx = [path EXCEPT !.step = "linked"]]
       IN  dev' = SetInterrupts(d, IF path.run THEN {} ELSE {"tx_err"})

BufferToken ==
    /\ dev.tx.step = "linked"
    /\ dev' = TokenSet([dev EXCEPT !.tx.step = "idle"], dev.token + 1)

(* periph_sdio_slave_host_write_packet: the packet fills as many buffers as  *)
(* it needs, each costing a token, or none at all.                           *)
HostWritePacket(len) ==
    LET path == dev.tx
        walk[k \in 0 .. MaxDescs] ==
            IF k = 0 THEN [left |-> len, desc |-> path.cur, n |-> 0]
            ELSE LET w == walk[k - 1]
                 IN  IF w.left = 0 \/ w.desc = 0 \/ w.n >= dev.token THEN w
                     ELSE IF ~path.descs[w.desc].owned THEN w
                     ELSE [left |-> w.left - 1, desc |-> NextDesc(path, w.desc), n |-> w.n + 1]
        found == walk[MaxDescs]
        used == path.cur .. path.cur + found.n - 1
        paid[k \in 0 .. found.n] == IF k = 0 THEN dev ELSE TokenSet(paid[k - 1], paid[k - 1].token - 1)
        d == paid[found.n]
    IN  /\ dev.clock /\ dev.ready /\ path.run /\ path.cur # 0 /\ dev.token # 0
        /\ dev' = IF found.left # 0
                  THEN SetInterrupts([dev EXCEPT !.host = @ \cup {"tx_ovf"}], {"tx_ovf"})
                  ELSE SetInterrupts([d EXCEPT
                           !.tx.descs = [i \in DOMAIN @ |->
                                            IF i \in used
                                            THEN [owned |-> FALSE, len |-> 1, packet |-> dev.put + 1,
                                                  eof |-> i = path.cur + found.n - 1]
                                            ELSE @[i]],
                           !.tx.cur = found.desc, !.tx.last = path.cur + found.n - 1,
                           !.tx.run = found.desc # 0, !.put = @ + 1],
                           {"tx_done"})

\* The guest takes the next received buffer.
TakeBuffer ==
    /\ dev.taken < Len(dev.tx.descs) /\ ~dev.tx.descs[dev.taken + 1].owned
    /\ LET b == dev.tx.descs[dev.taken + 1]
           before == IF dev.taken = 0 THEN [packet |-> 0, eof |-> TRUE] ELSE dev.tx.descs[dev.taken]
       IN  dev' = [dev EXCEPT !.taken = @ + 1,
                              !.ok = @ /\ b.packet = before.packet + (IF before.eof THEN 1 ELSE 0)]

\* slchost_apply_token_control: the host may set the token itself back to none.
HostClearToken == dev.token # 0 /\ dev' = TokenSet(dev, 0)

\* slc_write: a link is stopped and restarted; interrupts; CONF0 is a reset of both paths.
StopLink(name) ==
    /\ dev' = [dev EXCEPT ![name] = IF dev[name].run THEN LinkStart(@, "stop") ELSE LinkStart(@, "restart")]
    /\ dev[name].descs # <<>>
WriteIntEna(mask) == dev' = IrqUpdate([dev EXCEPT !.ena = mask])
WriteIntClr == dev' = IrqUpdate([dev EXCEPT !.raw = {}])
HostIntClr == dev' = [dev EXCEPT !.host = {}]
\* slc_write, INTVEC_TOHOST; periph_sdio_slave_host_interrupt
IntvecToHost == dev' = SetInterrupts([dev EXCEPT !.host = @ \cup {"message"}], {"tohost"})

\* hinf_write: IO ready, and the SDIO reset
WriteReady(on) == dev' = [dev EXCEPT !.ready = on]
SdioReset == dev' = [Fresh EXCEPT !.clock = dev.clock] @@ [way |-> dev.way]
\* sdio_slave_dport_update
DportUpdate(on) == dev' = IrqUpdate([dev EXCEPT !.clock = on])

SdioNext ==
    \/ \E n \in Lengths : SendAppend(n) \/ HostWritePacket(n)
    \/ RxLink \/ SendLength \/ HostReadPacket
    \/ BufferAppend \/ TxLink \/ BufferToken \/ TakeBuffer \/ HostClearToken
    \/ \E name \in {"rx", "tx"} : StopLink(name)
    \/ \E m \in {{}, Watched} : WriteIntEna(m)
    \/ WriteIntClr \/ HostIntClr \/ IntvecToHost \/ SdioReset
    \/ \E on \in BOOLEAN : WriteReady(on) \/ DportUpdate(on)

SdioSpec == SdioInit /\ [][SdioNext]_dev
-----------------------------------------------------------------------------
(* Packets arrive whole, once and in order in both directions, however the   *)
(* steps of the guest's driver interleave with the host's accesses.          *)
PacketsIntact == dev.ok

(* What the host may still read is exactly what is in the owned descriptors  *)
(* whose length was added; so a read never fails on the list.                *)
LengthMatchesList ==
    LET owned == SelectSeq(dev.rx.descs, LAMBDA b : b.owned)
        counted == IF dev.rx.step = "idle" THEN owned ELSE SubSeq(owned, 1, Len(owned) - 1)
    IN  /\ Available(dev) = FoldLeft(LAMBDA n, b : n + b.len, 0, counted)
        /\ "rx_err" \notin dev.raw

(* No appended descriptor is stranded: the DMA stands on the first owned     *)
(* one, or a restart will find it.                                           *)
NothingStranded ==
    \A path \in {dev.rx, dev.tx} :
        LET owned == {i \in DOMAIN path.descs : path.descs[i].owned}
            first == CHOOSE i \in owned : \A j \in owned : i <= j
        IN  owned # {} =>
                \/ path.cur = first
                \/ path.cur = 0 /\ path.step = "appended" /\ path.last + 1 = first

(* A token stands for a buffer the host may fill.                            *)
TokensCovered == dev.token <= Len(SelectSeq(dev.tx.descs, LAMBDA b : b.owned))
SdioIrqExact == dev.irq = (dev.clock /\ dev.raw \cap dev.ena # {})

-----------------------------------------------------------------------------
(***************************************************************************)
(* The SD card in SPI mode behind a GP-SPI host (src/src/spi_display.c,      *)
(* sd_byte and sd_execute), and a driver that talks to it byte by byte.      *)
(* Every byte clocked out brings one back: the next byte of the response     *)
(* queue, or 0xFF.  The queue is an array that only a command empties, so    *)
(* its length is what was queued since the last command, read or not.        *)
(*                                                                         *)
(* A command frame is two bytes here, the command and its argument; a block  *)
(* is Block bytes and one byte of CRC.                                       *)
(***************************************************************************)
CONSTANTS CardSectors,    \* sectors of the image
          Values,     \* bytes a block is made of
          Block,      \* bytes of a block (512)
          QueueSize,  \* capacity of the response queue (524)
          Busy,       \* bytes the card stays busy after a block (3)
          MaxMulti,   \* blocks of one multi-block command
          Patience    \* idle bytes a driver accepts before it gives up

Lba == 0 .. (CardSectors - 1)
Blocks == [1 .. Block -> Values]
Blank == [i \in 1 .. Block |-> CHOOSE v \in Values : TRUE]
NoSector == -1
Waiting == -1               \* sd_write_pos: a data token is expected

------------------------------------------------------------------------------
(* The card.                                                               *)
NewCard == [ready |-> FALSE, cmd |-> "none", resp |-> <<>>, len |-> 0,
            wsector |-> NoSector, wpos |-> 0, buf |-> Blank,
            multi |-> "none", msector |-> 0]

(* A response that does not fit is dropped, byte by byte or as a whole.     *)
Queue(c, bytes) ==
  IF c.len + Len(bytes) > QueueSize THEN c
  ELSE [c EXCEPT !.resp = @ \o bytes, !.len = @ + Len(bytes)]

QueueEach(c, bytes) ==
  LET after[i \in 0 .. Len(bytes)] ==
        IF i = 0 THEN c ELSE Queue(after[i - 1], <<bytes[i]>>)
  IN after[Len(bytes)]

ReadSector(img, lba) == IF lba \in Lba THEN img[lba] ELSE Blank

QueueBlockRead(c, img, lba) ==
  Queue(Queue(Queue(c, <<"fe">>), ReadSector(img, lba)), <<"crc">>)

Emptied(c) == [c EXCEPT !.resp = <<>>, !.len = 0]

Execute(c, img, arg) ==
  LET r1 == Queue(Emptied(c), <<"00">>)
  IN CASE c.cmd = "c0" -> Queue(Emptied(c), <<"01">>)
       [] c.cmd = "c41" -> [r1 EXCEPT !.ready = TRUE]
       [] c.cmd = "c55" -> IF c.ready THEN r1 ELSE Queue(Emptied(c), <<"01">>)
       [] c.cmd = "c12" ->   \* a stuff byte comes before the answer
            [Queue(Queue(Emptied(c), <<"ff">>), <<"00">>) EXCEPT
               !.multi = "none"]
       [] c.cmd = "c17" -> QueueBlockRead(r1, img, arg)
       [] c.cmd = "c18" ->
            QueueBlockRead([r1 EXCEPT !.multi = "read", !.msector = arg],
                           img, arg)
       [] c.cmd = "c24" -> [r1 EXCEPT !.wsector = arg, !.wpos = Waiting]
       [] c.cmd = "c25" -> [r1 EXCEPT !.multi = "write", !.msector = arg,
                                      !.wsector = arg, !.wpos = Waiting]
       [] OTHER -> Queue(Emptied(c), <<"05">>)   \* illegal

(* The bytes of a block as they arrive; the last CRC byte stores the block. *)
Capture(c, img, mosi) ==
  CASE c.wpos = Waiting ->
         (CASE mosi = "fe" \/ (c.multi = "write" /\ mosi = "fc") ->
                 [c |-> [c EXCEPT !.wpos = 0], img |-> img]
            [] mosi = "fd" /\ c.multi = "write" ->
                 [c |-> [c EXCEPT !.multi = "none", !.wsector = NoSector,
                                  !.wpos = 0], img |-> img]
            [] OTHER -> [c |-> c, img |-> img])
    [] c.wpos \in 0 .. (Block - 1) ->
         [c |-> [c EXCEPT !.buf[c.wpos + 1] = mosi, !.wpos = @ + 1],
          img |-> img]
    [] c.wpos = Block ->
         LET told == QueueEach([c EXCEPT !.wpos = @ + 1, !.buf = Blank],
                               <<"acc">> \o [i \in 1 .. Busy |-> "00"]
                                        \o <<"ff">>)
         IN [c |-> IF c.multi = "write"
                   THEN [told EXCEPT !.msector = @ + 1,
                                     !.wsector = c.msector + 1,
                                     !.wpos = Waiting]
                   ELSE [told EXCEPT !.wsector = NoSector],
             img |-> IF c.wsector \in Lba
                     THEN [img EXCEPT ![c.wsector] = c.buf] ELSE img]

CommandBytes == {"c0", "c12", "c13", "c17", "c18", "c24", "c25", "c41", "c55"}

(* One byte each way.                                                      *)
SdByte(d, mosi) ==
  LET pending == d.card.resp # <<>>
      miso == IF pending THEN Head(d.card.resp) ELSE "ff"
      c == IF pending THEN [d.card EXCEPT !.resp = Tail(@)] ELSE d.card
      cap == Capture(c, d.img, mosi)
      more == QueueBlockRead(Emptied([c EXCEPT !.msector = @ + 1]),
                             d.img, c.msector + 1)
  IN CASE c.wpos <= Block /\ c.wsector # NoSector ->
            [card |-> cap.c, img |-> cap.img, miso |-> miso]
       [] ~(c.wpos <= Block /\ c.wsector # NoSector)
          /\ c.multi = "read" /\ ~pending /\ c.cmd = "none" /\ mosi = "ff" ->
            [card |-> [more EXCEPT !.resp = Tail(@)], img |-> d.img,
             miso |-> Head(more.resp)]
       [] OTHER ->
            [card |-> IF c.cmd = "none"
                      THEN (IF mosi \in CommandBytes
                            THEN [c EXCEPT !.cmd = mosi] ELSE c)
                      ELSE [Execute(c, d.img, d.drv.at) EXCEPT !.cmd = "none"],
             img |-> d.img, miso |-> miso]

------------------------------------------------------------------------------
(* The driver: one operation at a time.  `out` is what it is about to clock  *)
(* out, `then` the phase it enters when that has gone.                       *)
Idle == [phase |-> "idle", op |-> "none", at |-> 0, left |-> 0, out |-> <<>>,
         then |-> "none", got |-> <<>>, data |-> Blank, quiet |-> 0,
         bad |-> FALSE]

CardInit == dev = [card |-> NewCard, img |-> [l \in Lba |-> Blank],
               want |-> [l \in Lba |-> Blank], drv |-> Idle]

Frame(cmd) == <<cmd, "arg">>   \* the argument is the driver's sector, `at`

Send(d, mosi) ==
  LET r == SdByte(d, mosi)
  IN [d EXCEPT !.card = r.card, !.img = r.img, !.drv.got = <<r.miso>>]

Begin(op, lba, n, data) ==
  /\ dev.drv.phase = "idle"
  /\ dev' = [dev EXCEPT !.drv = [Idle EXCEPT
               !.phase = "send", !.op = op, !.at = lba, !.left = n,
               !.out = Frame(CASE op = "read" -> (IF n = 1 THEN "c17" ELSE "c18")
                               [] op = "write" -> (IF n = 1 THEN "c24" ELSE "c25")
                               [] OTHER -> op),
               !.then = "r1", !.data = data]]

(* Clock out the next byte.                                                *)
SendNext ==
  /\ dev.drv.phase = "send"
  /\ LET d == Send(dev, Head(dev.drv.out))
         rest == Tail(dev.drv.out)
     IN dev' = [d EXCEPT !.drv.out = rest, !.drv.got = <<>>,
                  !.drv.phase = IF rest = <<>> THEN dev.drv.then ELSE "send",
                  !.drv.then = IF rest = <<>> THEN "none" ELSE @]

Block1(token, data) == <<token>> \o data \o <<"crc">>

CardFinish(d) == [d EXCEPT !.drv = Idle]

(* Poll for a byte: what a byte other than 0xFF means depends on the phase. *)
Poll ==
  /\ dev.drv.phase \in {"r1", "token", "accept", "stop"}
  /\ LET d == Send(dev, "ff")
         v == dev.drv
         miso == d.drv.got[1]
         on == [d EXCEPT !.drv.got = <<>>, !.drv.quiet = 0]
     IN dev' =
        CASE miso = "ff" ->
               IF v.quiet = Patience
               THEN [d EXCEPT !.drv = [Idle EXCEPT !.phase = "timeout"]]
               ELSE [on EXCEPT !.drv.quiet = v.quiet + 1]
          [] miso # "ff" /\ v.phase = "r1" ->
               (CASE v.op = "read" -> [on EXCEPT !.drv.phase = "token"]
                  [] v.op = "write" ->
                       [on EXCEPT !.drv.phase = "send", !.drv.then = "accept",
                          !.drv.out = Block1(IF v.left > 1 THEN "fc" ELSE "fe",
                                             v.data)]
                  [] OTHER -> CardFinish(on))
          [] miso # "ff" /\ v.phase = "token" ->
               [on EXCEPT !.drv.phase = "data", !.drv.bad = miso # "fe"]
          [] miso # "ff" /\ v.phase = "accept" ->
               [on EXCEPT !.drv.phase = "busy", !.drv.bad = miso # "acc"]
          [] miso # "ff" /\ v.phase = "stop" -> CardFinish(on)

(* The bytes of a block that is read, then its CRC.                        *)
ReadData ==
  /\ dev.drv.phase = "data"
  /\ LET d == Send(dev, "ff")
         v == dev.drv
         k == v.quiet + 1     \* bytes of this block so far
         right == k > Block \/ d.drv.got[1] = ReadSector(dev.img, v.at)[k]
         on == [d EXCEPT !.drv.got = <<>>, !.drv.bad = v.bad \/ ~right,
                         !.drv.quiet = k]
     IN dev' =
        IF k <= Block THEN on
        ELSE LET next == [on EXCEPT !.drv.quiet = 0, !.drv.at = v.at + 1,
                                    !.drv.left = v.left - 1]
             IN CASE v.left > 1 -> [next EXCEPT !.drv.phase = "token",
                                                !.drv.then = "multi"]
                  [] v.left = 1 /\ v.then = "multi" ->
                       [next EXCEPT !.drv.phase = "send",
                                    !.drv.out = Frame("c12"),
                                    !.drv.then = "stuff"]
                  [] OTHER -> IF next.drv.bad THEN next ELSE CardFinish(next)

Stuff ==
  /\ dev.drv.phase = "stuff"
  /\ LET d == Send(dev, "ff")
     IN dev' = [d EXCEPT !.drv.got = <<>>, !.drv.phase = "stop"]

(* The card is busy until it answers 0xFF; then the block has been written. *)
AwaitReady ==
  /\ dev.drv.phase = "busy"
  /\ LET d == Send(dev, "ff")
         v == dev.drv
         done == [d EXCEPT !.drv.got = <<>>, !.drv.at = v.at + 1,
                           !.drv.left = v.left - 1,
                           !.want = IF v.at \in Lba
                                    THEN [@ EXCEPT ![v.at] = v.data] ELSE @]
     IN dev' =
        IF d.drv.got[1] # "ff" THEN [d EXCEPT !.drv.got = <<>>]
        ELSE CASE v.left > 1 ->
                    [done EXCEPT !.drv.phase = "send", !.drv.then = "accept",
                       !.drv.op = "writes", !.drv.out = Block1("fc", v.data)]
               [] v.left = 1 /\ v.op = "writes" ->
                    [done EXCEPT !.drv.phase = "send", !.drv.out = <<"fd">>,
                                 !.drv.then = "over"]
               [] OTHER -> CardFinish(done)

Over == dev.drv.phase = "over" /\ dev' = CardFinish(dev)

CardNext == \/ \E op \in {"read", "write"}, lba \in Lba, n \in 1 .. MaxMulti,
                  data \in Blocks : (op = "read" => data = Blank)
                                    /\ Begin(op, lba, n, data)
            \/ \E op \in {"c0", "c13", "c41", "c55"} : Begin(op, 0, 0, Blank)
            \/ SendNext \/ Poll \/ ReadData \/ Stuff \/ AwaitReady \/ Over

CardSpec == CardInit /\ [][CardNext]_dev

------------------------------------------------------------------------------
CardTypeOK == /\ dev.img \in [Lba -> Blocks]
              /\ dev.card.len <= QueueSize
              /\ Len(dev.card.resp) <= dev.card.len
              /\ dev.card.wpos \in Waiting .. (Block + 1)

(* What the driver reads is the sector it asked for, block after block of a  *)
(* multi-block read, and what the card answers is never taken for another    *)
(* answer: no stale response byte is read as a token.                        *)
ReadsTrue == ~dev.drv.bad

(* Between operations the image holds exactly the blocks whose writes were   *)
(* acknowledged: whole, at consecutive sectors, and nothing else.            *)
WritesLand == dev.drv.phase = "idle" => dev.img = dev.want

(* Every command, block and stop is answered before the driver gives up      *)
(* (the response queue is large enough for what a command queues).           *)
Answered == dev.drv.phase # "timeout"
=============================================================================
