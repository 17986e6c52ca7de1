----------------------------- MODULE DmaDevices -----------------------------
(***************************************************************************)
(* The general DMA engine, the devices that stream through it (sound, the  *)
(* parallel display and camera port, the ADC of the ESP32-S3) and the two  *)
(* that walk descriptor lists of their own: UART DMA and I2S.              *)
(* Each part stands alone: dev is the state of the one being explored.     *)
(***************************************************************************)
EXTENDS Integers, Sequences, FiniteSets, SequencesExt, FiniteSetsExt, Functions

VARIABLE dev

-----------------------------------------------------------------------------
(***************************************************************************)
(* The ESP32-S3 descriptor DMA (gdma.c): channels that a guest links to a  *)
(* chain of descriptors and selects for a peripheral, and peripherals that *)
(* pull whole transfers or single descriptors through them, or push        *)
(* received data into them.  A behaviour uses one direction.               *)
(*                                                                         *)
(* A buffer's bytes are one flag: whether they were transferred since the  *)
(* guest prepared the descriptor.  Lengths are in units of the smallest    *)
(* transfer.  The descriptor-address registers that software only reads    *)
(* back (current, last EOF) are left out.                                  *)
(***************************************************************************)
CONSTANTS
    Channels,     \* DMA channels
    GdmaDescs,        \* descriptors in RAM: 1..Descs; 0 is the null address
    GdmaBufSize,      \* size field of every descriptor
    Watched       \* interrupt bits the guest enables

Addresses == 1..GdmaDescs
Bits == {"done", "eof", "total", "error", "empty"}

GdmaAssumption ==
    GdmaDescs \in Nat \ {0} /\ GdmaBufSize \in Nat \ {0} /\ Watched \subseteq Bits

\* gdma_tx_power_on_reset, gdma_rx_power_on_reset
Idle == [link |-> 0, next |-> 0, active |-> FALSE, raw |-> {}, ena |-> {}, line |-> FALSE,
         sel |-> FALSE, check |-> FALSE, wb |-> FALSE]

\* flexe_gdma_create; the guest's descriptors are built below.
GdmaInit ==
    \E dir \in {"tx", "rx"} :
       dev = [dir |-> dir, ch |-> [c \in Channels |-> Idle],
              mem |-> [a \in Addresses |-> [own |-> FALSE, len |-> 0, eof |-> FALSE, next |-> 0,
                                            ok |-> TRUE, used |-> FALSE]],
              twice |-> FALSE]

Tx == dev.dir = "tx"

-----------------------------------------------------------------------------
(* Interrupts and the ends of a transfer.                                  *)

\* gdma_update_irq
GdmaUpdateIrq(d, c) == [d EXCEPT !.ch[c].line = d.ch[c].raw \intersect d.ch[c].ena # {}]

\* gdma_tx_finish, gdma_rx_finish
Finish(d, c, bits) ==
    GdmaUpdateIrq([d EXCEPT !.ch[c].active = FALSE,
                        !.ch[c].raw = @ \union (bits \intersect Watched)], c)

\* gdma_active_tx_channel, gdma_active_rx_channel: the lowest one selected
Active(d) == {c \in Channels : d.ch[c].active /\ d.ch[c].sel}
Chosen(d) == CHOOSE c \in Active(d) : \A e \in Active(d) : c <= e

\* gdma_ram_range_valid of the descriptor
Readable(a) == a \in Addresses

\* The owner, length and buffer tests.
Usable(d, c, a, len) ==
    /\ d.ch[c].check => d.mem[a].own
    /\ len > 0 /\ len <= GdmaBufSize /\ d.mem[a].ok

\* Take descriptor a's data, status and write-back included.
Take(d, c, a) ==
    [d EXCEPT !.mem[a].used = @ \/ d.ch[c].wb,
              !.twice = @ \/ (d.ch[c].check /\ d.mem[a].used),
              !.mem[a].own = @ /\ ~d.ch[c].wb]

\* Fill descriptor a with the next len units.
Put(d, c, a, len) ==
    [d EXCEPT !.mem[a].used = TRUE,
              !.twice = @ \/ (d.ch[c].check /\ d.mem[a].used),
              !.mem[a].own = FALSE, !.mem[a].len = len]

-----------------------------------------------------------------------------
(* Whole transfers: AES, SHA, SPI.                                         *)

\* flexe_gdma_read_tx: units wanted, from the link address on
ReadTx(length) ==
    LET walk[n \in 0..GdmaDescs] ==
            \* n descriptors gone: <<state, address, units, outcome>>
            IF n = 0 THEN <<dev, dev.ch[Chosen(dev)].link, 0, "more">>
            ELSE LET was == walk[n - 1]
                     d == was[1]  a == was[2]  got == was[3]  c == Chosen(dev)
                 IN  IF was[4] # "more" THEN was
                     ELSE IF ~Readable(a) \/ ~Usable(d, c, a, d.mem[a].len)
                             \/ d.mem[a].len > length - got
                     THEN <<d, a, got, "error">>
                     ELSE LET e == Take(d, c, a)
                              sum == got + d.mem[a].len
                          IN  <<e, d.mem[a].next, sum,
                                CASE sum = length -> IF d.mem[a].eof THEN "success" ELSE "error"
                                  [] sum # length -> IF d.mem[a].eof \/ d.mem[a].next \in {0, a}
                                                     THEN "error" ELSE "more">>
        end == walk[GdmaDescs]
    IN  /\ Tx /\ Active(dev) # {}
        /\ end[4] # "more"
        /\ dev' = Finish(end[1], Chosen(dev),
                         IF end[4] = "success" THEN {"done", "total", "eof"} ELSE {"error"})

\* flexe_gdma_write_rx
GdmaWriteRx(length) ==
    LET walk[n \in 0..GdmaDescs] ==
            IF n = 0 THEN <<dev, dev.ch[Chosen(dev)].link, 0, "more">>
            ELSE LET was == walk[n - 1]
                     d == was[1]  a == was[2]  got == was[3]  c == Chosen(dev)
                 IN  IF was[4] # "more" THEN was
                     ELSE IF ~Readable(a) \/ ~Usable(d, c, a, GdmaBufSize)
                     THEN <<d, a, got, "error">>
                     ELSE LET chunk == IF GdmaBufSize > length - got THEN length - got ELSE GdmaBufSize
                          IN  <<Put(d, c, a, chunk), d.mem[a].next, got + chunk,
                                CASE got + chunk = length -> "success"
                                  [] got + chunk # length /\ d.mem[a].next = 0 -> "empty"
                                  [] got + chunk # length /\ d.mem[a].next = a -> "error"
                                  [] OTHER -> "more">>
        end == walk[GdmaDescs]
    IN  /\ ~Tx /\ Active(dev) # {}
        /\ end[4] # "more"
        /\ dev' = Finish(end[1], Chosen(dev),
                         CASE end[4] = "success" -> {"done", "eof"}
                           [] end[4] = "empty"   -> {"done", "empty"}
                           [] OTHER              -> {"error"})

-----------------------------------------------------------------------------
(* One descriptor at a time: I2S, the LCD and camera, RMT.                 *)

At(c) == IF dev.ch[c].next # 0 THEN dev.ch[c].next ELSE dev.ch[c].link

\* flexe_gdma_read_tx_descriptor
ReadTxDescriptor(capacity) ==
    LET c == Chosen(dev)
        a == At(c)
        x == dev.mem[a]
        e == Take(dev, c, a)
    IN  /\ Tx /\ Active(dev) # {}
        /\ dev' = IF ~Readable(a) \/ ~Usable(dev, c, a, x.len) \/ x.len > capacity
                  THEN Finish(dev, c, {"error"})
                  ELSE GdmaUpdateIrq([e EXCEPT
                          !.ch[c].raw = @ \union (Watched \intersect
                              ({"done"} \union (IF x.eof THEN {"eof"} ELSE {})
                                        \union (IF x.next = 0 THEN {"total"} ELSE {}))),
                          !.ch[c].next = x.next,
                          !.ch[c].active = x.next # 0], c)

\* flexe_gdma_write_rx_descriptor_eof
WriteRxDescriptor(len, eof) ==
    LET c == Chosen(dev)
        a == At(c)
        x == dev.mem[a]
        e == Put(dev, c, a, len)
    IN  /\ ~Tx /\ Active(dev) # {}
        /\ dev' = IF ~Readable(a) \/ ~Usable(dev, c, a, len)
                  THEN Finish(dev, c, {"error"})
                  ELSE GdmaUpdateIrq([e EXCEPT
                          !.ch[c].raw = @ \union (Watched \intersect
                              ({"done"} \union (IF eof THEN {"eof"} ELSE {}))),
                          !.ch[c].next = x.next,
                          !.ch[c].active = x.next # 0], c)

-----------------------------------------------------------------------------
(* The guest.                                                              *)

\* gdma_write: IN_CONF0 or OUT_CONF0 with and without the reset strobe
WriteConf0(c, reset, wb) ==
    /\ ~reset => dev.ch[c].link = 0          \* drivers set the mode before the first link
    /\ reset => wb = dev.ch[c].wb
    /\ dev' = IF reset THEN [dev EXCEPT !.ch[c].next = 0, !.ch[c].active = FALSE]
              ELSE [dev EXCEPT !.ch[c].wb = wb]

\* gdma_write: CONF1, INT_ENA, INT_CLR and PERI_SEL
WriteConf1(c, check) == dev.ch[c].link = 0 /\ dev' = [dev EXCEPT !.ch[c].check = check]
WriteEna(c, on) == dev' = GdmaUpdateIrq([dev EXCEPT !.ch[c].ena = IF on THEN Watched ELSE {}], c)
WriteClr(c, b) == b \in dev.ch[c].raw /\ dev' = GdmaUpdateIrq([dev EXCEPT !.ch[c].raw = @ \ {b}], c)
WriteSel(c, on) == dev.ch[c].sel # on /\ dev' = [dev EXCEPT !.ch[c].sel = on]

\* gdma_write: IN_LINK, OUT_LINK; START and RESTART both begin at the address
GdmaWriteLink(c, a, start) ==
    dev' = IF start THEN [dev EXCEPT !.ch[c].link = a, !.ch[c].active = TRUE, !.ch[c].next = a]
           ELSE [dev EXCEPT !.ch[c].link = a, !.ch[c].active = FALSE]

\* The guest prepares a descriptor it owns; transmit data is fresh.
Prepare(a, len, eof, next, ok) ==
    /\ ~dev.mem[a].own
    /\ ~Tx => len = 0 /\ ~eof
    /\ ~ok => next = 0 /\ (Tx => len = GdmaBufSize)        \* one fault at a time
    /\ dev' = [dev EXCEPT !.mem[a] = [own |-> TRUE, len |-> len, eof |-> eof, next |-> next,
                                      ok |-> ok, used |-> FALSE]]

GdmaNext ==
    \/ \E n \in 1..(2 * GdmaBufSize) : ReadTx(n) \/ GdmaWriteRx(n)
    \/ ReadTxDescriptor(GdmaBufSize)
    \/ \E n \in 1..GdmaBufSize, eof \in BOOLEAN : WriteRxDescriptor(n, eof)
    \/ \E c \in Channels :
          \/ \E reset, wb \in BOOLEAN : WriteConf0(c, reset, wb)
          \/ \E on \in BOOLEAN : WriteConf1(c, on) \/ WriteEna(c, on) \/ WriteSel(c, on)
          \/ \E b \in Bits : WriteClr(c, b)
          \/ \E a \in Addresses, start \in BOOLEAN : GdmaWriteLink(c, a, start)
    \/ \E a \in Addresses, next \in 0..GdmaDescs, eof, ok \in BOOLEAN, len \in 0..GdmaBufSize :
          Prepare(a, len, eof, next, ok)

GdmaSpec == GdmaInit /\ [][GdmaNext]_dev

-----------------------------------------------------------------------------
GdmaTypeOK ==
    \A c \in Channels : dev.ch[c].raw \subseteq Bits /\ dev.ch[c].next \in 0..GdmaDescs

(* gdma_update_irq and its callers: each channel's line is up exactly while  *)
(* an enabled condition is latched.                                          *)
GdmaIrqExact == \A c \in Channels : dev.ch[c].line <=> dev.ch[c].raw \intersect dev.ch[c].ena # {}

(* A device step on a channel that checks owners: a descriptor the DMA does  *)
(* not own is not written and not given back.                                *)
OwnerStep ==
    \A a \in Addresses :
       dev'.mem[a] # dev.mem[a] =>
          \/ dev.mem[a].own
          \/ dev'.mem[a].own
          \/ \E c \in Active(dev) : ~dev.ch[c].check
GdmaOwnershipKept == [][OwnerStep]_dev

(* Owner check and write-back together: whatever chains the guest links, in  *)
(* rings too, and whichever calls the peripherals use, no buffer is sent     *)
(* twice and none is filled again before the guest has taken it back.        *)
OnceEach == ~dev.twice

-----------------------------------------------------------------------------
(***************************************************************************)
(* The UART DMA controllers (peripherals.c), one port whose UART is looped *)
(* back to itself.  Transmission walks a descriptor list, one timed event  *)
(* a descriptor, and frames what it sends: a separator at both ends,       *)
(* escape pairs in between, and a checksum when the frame has a header.    *)
(* Reception undoes it into another list, which ends when the guest has    *)
(* not given descriptors back; what is not taken waits in the UART FIFO.   *)
(***************************************************************************)
CONSTANTS
    Modes,          \* subset of {"plain", "separator", "header"}
    DescSize,       \* bytes in one descriptor's buffer
    UhciDescs,          \* number of receive descriptors in the list
    Threshold,      \* PKT_THRES, the packet length of plain mode
    MaxFrames,      \* frames sent
    Lossy           \* may the line lose a byte

Sep == 0            \* the separator byte and the three of the escape pairs
Esc == 1
EscSep == 2
EscEsc == 3
Other == 4
Payloads == {<<Sep, EscSep>>, <<Esc, Other, Esc>>}   \* what the guest sends
HeaderOf(seq, len) == 10 + 2 * len + seq
SeqNumOf(h) == h % 2
LenOf(h) == (h - 10) \div 2
IsHeader(b) == b \in 10 .. 19
CrcOf(s) == 100 + FoldLeft(LAMBDA acc, b : (acc * 23 + b + 1) % 997, 0, s)

UhciAssumption ==
    /\ Modes \subseteq {"plain", "separator", "header"}
    /\ DescSize \in Nat \ {0} /\ UhciDescs \in Nat \ {0} /\ Threshold \in Nat \ {0}

(* mode; clock; txRun, txLeft, txArmed, txStarted, txBuf: the out link, the  *)
(* descriptors left (each <<data, eof>>), and the frame begun; wire: bytes   *)
(* on the line or in the UART FIFO; rxRun, rxDesc, rxBuf: the in link, the   *)
(* current descriptor (0: none) and what it holds; rxCount: bytes of the     *)
(* packet so far; frame, escaped, active: frame assembly; expect: the next   *)
(* sequence number; mem: the descriptors written back; own: who owns each;   *)
(* raw, ena, irq.  History: sent, got: frames the guest sent and took;       *)
(* part: bytes of descriptors without an end mark; lost: bytes were lost,    *)
(* on the line or because the list had ended.                                *)

UhciInit ==
    \E m \in Modes :
        dev = [mode |-> m, clock |-> TRUE, txRun |-> FALSE, txLeft |-> <<>>, txArmed |-> FALSE,
               txStarted |-> FALSE, txBuf |-> <<>>, wire |-> <<>>, rxRun |-> TRUE, rxDesc |-> 1,
               rxBuf |-> <<>>, rxCount |-> 0, frame |-> <<>>, escaped |-> FALSE,
               active |-> FALSE, expect |-> 0, mem |-> <<>>, own |-> [i \in 1 .. UhciDescs |-> "dma"],
               raw |-> {}, ena |-> {"in_done", "err", "empty"}, irq |-> FALSE,
               sent |-> <<>>, got |-> <<>>, part |-> <<>>, lost |-> FALSE]

UhciTypeOK ==
    /\ dev.rxDesc \in 0 .. UhciDescs /\ Len(dev.rxBuf) <= DescSize
    /\ dev.raw \subseteq {"out_done", "out_eof", "in_done", "eof", "err", "empty"}
    /\ \A i \in 1 .. UhciDescs : dev.own[i] \in {"dma", "cpu"}
-----------------------------------------------------------------------------
UhciUpdateIrq(d) == [d EXCEPT !.irq = d.clock /\ d.raw \cap d.ena # {}]

\* uhci_tx_escape_pair, uhci_emit_tx_octet: what one octet becomes on the line.
Escaped(d, b) ==
    CASE d.mode = "plain" -> <<b>>
      [] d.mode # "plain" /\ b = Sep -> <<Esc, EscSep>>
      [] d.mode # "plain" /\ b = Esc -> <<Esc, EscEsc>>
      [] OTHER -> <<b>>
EscapedAll(d, s) == FoldLeft(LAMBDA acc, b : acc \o Escaped(d, b), <<>>, s)
Separator(d) == IF d.mode = "plain" THEN <<>> ELSE <<Sep>>

\* uhci_arm_tx_event
ArmTx(d) == [d EXCEPT !.txArmed = d.txRun /\ d.clock]

\* uhci_complete_tx_descriptor, uhci_tx_begin_frame, _emit_data, _end_frame.
CompleteTx(d) ==
    LET desc == Head(d.txLeft)
        body == d.txBuf \o desc.data
        crc == IF d.mode = "header" THEN Escaped(d, CrcOf(body)) ELSE <<>>
        open == IF d.txStarted THEN <<>> ELSE Separator(d)
        close == IF desc.eof THEN crc \o Separator(d) ELSE <<>>
        more == ~desc.eof
    IN  ArmTx(UhciUpdateIrq([d EXCEPT
            !.wire = @ \o open \o EscapedAll(d, desc.data) \o close,
            !.txStarted = more, !.txBuf = IF more THEN body ELSE <<>>,
            !.txLeft = Tail(@), !.txRun = more,
            !.raw = @ \cup {"out_done"} \cup (IF more THEN {} ELSE {"out_eof"})]))

\* uhci_load_rx_descriptor: a descriptor the guest still owns ends the link.
LoadRx(d) ==
    IF d.own[d.rxDesc] = "dma" THEN d
    ELSE [d EXCEPT !.rxRun = FALSE, !.raw = @ \cup {"err"}]

\* uhci_complete_rx_descriptor
CompleteRx(d, eof, success) ==
    LET next == IF d.rxDesc < UhciDescs THEN d.rxDesc + 1 ELSE 0
    IN  UhciUpdateIrq([d EXCEPT
            !.mem = Append(@, [data |-> d.rxBuf, eof |-> eof, ok |-> success]),
            !.own[d.rxDesc] = "cpu", !.rxBuf = <<>>, !.rxDesc = next, !.rxRun = next # 0,
            !.raw = @ \cup {"in_done"}
                      \cup (CASE eof /\ success -> {"eof"} [] eof /\ ~success -> {"err"}
                              [] ~eof /\ next = 0 -> {"empty"} [] OTHER -> {})])

\* uhci_write_rx_payload: the number accepted is in the result.
UhciWriteRx(d0, data, eof, success) ==
    LET put[k \in 0 .. Len(data)] ==
            IF k = 0 THEN [d |-> d0, n |-> 0]
            ELSE LET v == put[k - 1]
                     d == IF v.d.rxRun /\ v.d.rxDesc # 0 THEN LoadRx(v.d) ELSE v.d
                     e == [d EXCEPT !.rxBuf = Append(@, data[k])]
                     last == eof /\ k = Len(data)
                 IN  IF v.n < k - 1 \/ ~d.rxRun \/ d.rxDesc = 0 THEN [d |-> d, n |-> v.n]
                     ELSE IF Len(e.rxBuf) = DescSize
                     THEN [d |-> CompleteRx(e, last, success \/ ~last), n |-> k]
                     ELSE [d |-> e, n |-> k]
        r == put[Len(data)]
        closes == eof /\ r.n = Len(data) /\ r.d.rxRun /\ (r.d.rxBuf # <<>> \/ data = <<>>)
        d1 == IF closes THEN CompleteRx(r.d, TRUE, success) ELSE r.d
        d2 == IF r.n < Len(data) /\ d1.rxRun
              THEN [d1 EXCEPT !.raw = @ \cup {"empty"}, !.rxRun = FALSE] ELSE d1
    IN  [d |-> UhciUpdateIrq(d2), n |-> r.n]

\* uhci_finish_rx_frame: header, length, sequence number and checksum.
FinishFrame(d) ==
    LET f == d.frame
        h == f[1]
        whole == d.mode = "header" => (f # <<>> /\ IsHeader(h) /\ Len(f) = 2 + LenOf(h))
        good == d.mode = "header" => whole /\ f[Len(f)] = CrcOf(Front(f)) /\ SeqNumOf(h) = d.expect
        payload == CASE d.mode # "header" -> f
                     [] d.mode = "header" /\ (f = <<>> \/ ~IsHeader(f[1])) -> <<>>
                     [] OTHER -> SubSeq(f, 2, 1 + (IF LenOf(h) <= Len(f) - 1 THEN LenOf(h)
                                                   ELSE Len(f) - 1))
        e == IF good /\ d.mode = "header" THEN [d EXCEPT !.expect = 1 - @] ELSE d
        r == UhciWriteRx(e, payload, TRUE, good)
    IN  [r.d EXCEPT !.frame = <<>>, !.escaped = FALSE, !.active = FALSE,
                    !.lost = @ \/ r.n < Len(payload)]

\* uhci_feed_framed_rx and uhci_append_rx_frame, one byte.
FeedFramed(d, b) ==
    CASE b = Sep ->
            LET e == [d EXCEPT !.escaped = FALSE]
            IN  [(IF e.frame # <<>> THEN FinishFrame(e) ELSE e) EXCEPT !.active = TRUE]
      [] b # Sep /\ d.escaped ->
            [d EXCEPT !.escaped = FALSE, !.active = TRUE,
                      !.frame = @ \o (CASE b = EscSep -> <<Sep>> [] b = EscEsc -> <<Esc>>
                                        [] OTHER -> <<Esc, b>>)]
      [] b = Esc /\ ~d.escaped -> [d EXCEPT !.escaped = TRUE]
      [] OTHER -> [d EXCEPT !.frame = Append(@, b), !.active = TRUE]

\* uhci_feed_transparent_rx, one byte: a packet ends at the threshold.
FeedPlain(d, b) ==
    LET eof == d.rxCount + 1 >= Threshold
        r == UhciWriteRx(d, <<b>>, eof, TRUE)
    IN  [d |-> [r.d EXCEPT !.rxCount = IF r.n = 0 THEN @ ELSE IF eof THEN 0 ELSE @ + 1],
         n |-> r.n]
-----------------------------------------------------------------------------
\* The guest lays a frame out in descriptors and starts the out link.
GuestSend(payload, seq) ==
    /\ ~dev.txRun /\ Len(dev.sent) < MaxFrames
    /\ dev.mode = "header" => seq = Len(dev.sent) % 2
    /\ LET bytes == IF dev.mode = "header" THEN <<HeaderOf(seq, Len(payload))>> \o payload
                    ELSE payload
           n == (Len(bytes) + DescSize - 1) \div DescSize
           descs == [i \in 1 .. n |->
                        [data |-> SubSeq(bytes, (i - 1) * DescSize + 1,
                                         IF i = n THEN Len(bytes) ELSE i * DescSize),
                         eof |-> i = n]]
       IN  dev' = ArmTx([dev EXCEPT !.txLeft = descs, !.txRun = TRUE, !.txStarted = FALSE,
                                    !.txBuf = <<>>, !.sent = Append(@, payload)])

\* uhci_eval_events: the descriptor's time on the line is over.
TxEvent ==
    /\ dev.txArmed /\ dev.clock
    /\ dev' = CompleteTx([dev EXCEPT !.txArmed = FALSE])

\* uhci_uart_rx_feed with the next byte; refused, it stays in the FIFO.
Feed ==
    /\ dev.wire # <<>> /\ dev.clock /\ dev.rxRun
    /\ LET b == Head(dev.wire)
           d == [dev EXCEPT !.wire = Tail(@)]
           r == IF dev.mode = "plain" THEN FeedPlain(d, b) ELSE [d |-> FeedFramed(d, b), n |-> 1]
       IN  dev' = UhciUpdateIrq(IF r.n = 1 THEN r.d ELSE [r.d EXCEPT !.wire = dev.wire])

\* uhci_uart_rx_break closes the packet that was begun.
Break ==
    /\ dev.mode = "plain" /\ dev.clock /\ dev.rxRun /\ dev.rxBuf # <<>>
    /\ dev' = [CompleteRx(dev, TRUE, TRUE) EXCEPT !.rxCount = 0]

LoseByte ==
    /\ Lossy /\ dev.wire # <<>> /\ ~dev.lost
    /\ \E i \in 1 .. Len(dev.wire) :
           dev' = [dev EXCEPT !.wire = RemoveAt(@, i), !.lost = TRUE]

\* The guest takes what was written back; frames end at an end mark.
GuestTake ==
    /\ dev.mem # <<>>
    /\ LET m == Head(dev.mem)
           whole == dev.part \o m.data
       IN  dev' = [dev EXCEPT !.mem = Tail(@), !.part = IF m.eof THEN <<>> ELSE whole,
                              !.got = IF m.eof /\ m.ok THEN Append(@, whole) ELSE @]

\* Everything taken, the guest gives the list back and restarts the in link.
GuestRestart ==
    /\ ~dev.rxRun /\ dev.mem = <<>>
    /\ dev' = UhciUpdateIrq([dev EXCEPT !.own = [i \in 1 .. UhciDescs |-> "dma"], !.rxRun = TRUE,
                                    !.rxDesc = 1, !.rxBuf = <<>>, !.raw = {},
                                    !.frame = <<>>, !.escaped = FALSE, !.active = FALSE,
                                    !.rxCount = 0, !.part = IF dev.mode = "plain" THEN @ ELSE <<>>,
                                    !.lost = @ \/ dev.frame # <<>> \/ dev.active])

\* uhci_dport_update: a stopped clock disarms, a returning one arms again.
GateClock == dev.clock /\ dev' = UhciUpdateIrq([dev EXCEPT !.clock = FALSE, !.txArmed = FALSE])
UngateClock == ~dev.clock /\ dev' = ArmTx(UhciUpdateIrq([dev EXCEPT !.clock = TRUE]))

UhciWriteIntClr == dev' = UhciUpdateIrq([dev EXCEPT !.raw = {}])

UhciNext ==
    \/ \E s \in Payloads, q \in 0 .. 1 : GuestSend(s, q)
    \/ TxEvent \/ Feed \/ Break \/ LoseByte \/ GuestTake \/ GuestRestart
    \/ GateClock \/ UngateClock \/ UhciWriteIntClr

UhciSpec == UhciInit /\ [][UhciNext]_dev
-----------------------------------------------------------------------------
\* The interrupt line is the masked status of a clocked port.
UhciIrqExact == dev.irq = (dev.clock /\ dev.raw \cap dev.ena # {})

\* Nothing is forgotten: a transmission in progress on a clocked port has an
\* event coming (uhci_arm_tx_event, uhci_dport_update).
TransmitAlive == dev.txRun /\ dev.clock => dev.txArmed

\* Frames arrive as they were sent, in order and once, whatever their bytes:
\* with separators the frame is undone exactly, and with a header even a byte
\* lost on the line never makes a frame the guest did not send
\* (uhci_tx_emit_data against uhci_feed_framed_rx and uhci_finish_rx_frame).
FramesIntact ==
    CASE dev.mode = "header" -> \A i \in 1 .. Len(dev.got) : dev.got[i] \in Range(dev.sent)
      [] dev.mode = "separator" /\ ~dev.lost -> IsPrefix(dev.got, dev.sent)
      [] OTHER -> TRUE

\* In plain mode no byte is lost between the line, the list and the guest.
BytesConserved ==
    dev.mode = "plain" /\ ~dev.lost =>
        LET Flat(ss) == FoldLeft(LAMBDA acc, s : acc \o s, <<>>, ss)
            Taken == Flat(dev.got) \o dev.part
            Held == Flat([i \in 1 .. Len(dev.mem) |-> dev.mem[i].data]) \o dev.rxBuf
            Coming == Flat([i \in 1 .. Len(dev.txLeft) |-> dev.txLeft[i].data])
        IN  Taken \o Held \o dev.wire \o Coming = Flat(dev.sent)

\* DMA writes only descriptors it was given: those from the current one on are
\* its own until the link ends.
UhciOwnershipKept == dev.rxRun => \A i \in dev.rxDesc .. UhciDescs : dev.own[i] = "dma"

-----------------------------------------------------------------------------
(***************************************************************************)
(* The I2S ports (peripherals.c), one port and one direction at a time.  A *)
(* list of descriptors, circular or not, is served one descriptor per      *)
(* event; the first ones are served at once when the stream starts.        *)
(***************************************************************************)
CONSTANTS
    I2sDescs,          \* descriptors in the list
    I2sBufSize,        \* samples in a buffer
    FifoSize,       \* I2S_RX_FIFO_SIZE
    Cycles,         \* cycles a descriptor takes, one value per rate
    MaxSamples,     \* samples the host offers
    MaxAdvance      \* cycles the clock moves at once

I2sAssumption == I2sDescs \in Nat \ {0} /\ I2sBufSize \in Nat \ {0} /\ Cycles \subseteq Nat \ {0}

(* way: tx or rx; tail: what follows the last descriptor (the first, nothing *)
(* or an address that is not mapped); own: descriptors that are owned by the *)
(* DMA; inline: the interrupt is handled inside its update; desc: the current*)
(* descriptor, None or Bad; run: the link; start, dma: CONF and FIFO_CONF;   *)
(* active, armed, due; rate; raw, ena, irq; fifo.  History: next: samples    *)
(* offered; seen: the last sample the guest was given, ok: in order.         *)
None == 0
Bad == I2sDescs + 1

I2sInit ==
    \E way \in {"tx", "rx"}, tail \in {1, None, Bad}, inline \in BOOLEAN :
        dev = [way |-> way, tail |-> tail, inline |-> inline, own |-> 1 .. I2sDescs, desc |-> None,
               run |-> FALSE, start |-> FALSE, dma |-> FALSE, active |-> FALSE, armed |-> FALSE,
               due |-> 0, rate |-> CHOOSE c \in Cycles : TRUE, raw |-> {}, ena |-> {}, irq |-> FALSE,
               fifo |-> <<>>, next |-> 1, seen |-> 0, ok |-> TRUE]

I2sTypeOK ==
    /\ dev.desc \in 0 .. Bad /\ dev.raw \cup dev.ena \subseteq {"done", "eof", "end", "error"}
    /\ Len(dev.fifo) <= FifoSize
-----------------------------------------------------------------------------
NextDesc(d, i) == IF i < I2sDescs THEN i + 1 ELSE d.tail

\* i2s_irq_update; a compatibility dispatcher serves the end of a buffer at once.
IrqUpdate(d) ==
    LET irq == d.raw \cap d.ena # {}
    IN  IF irq /\ d.inline /\ "eof" \in d.raw THEN [d EXCEPT !.raw = {}, !.irq = FALSE]
        ELSE [d EXCEPT !.irq = irq]

Failed(d) ==
    IrqUpdate([d EXCEPT !.raw = @ \cup {"error"}, !.run = FALSE, !.active = FALSE])

\* i2s_rx_fifo_pop, for a whole buffer: missing samples are silence
PopBuffer(d) ==
    LET n == IF Len(d.fifo) < I2sBufSize THEN Len(d.fifo) ELSE I2sBufSize
    IN  IF d.way = "tx" THEN d
        ELSE [d EXCEPT !.fifo = SubSeq(@, n + 1, Len(@)),
                       !.seen = IF n = 0 THEN @ ELSE d.fifo[n],
                       !.ok = @ /\ \A i \in 1 .. n : d.fifo[i] = d.seen + i]

(* i2s_process_tx_descriptor, i2s_process_rx_descriptor: they differ in the  *)
(* direction of the data and in the name of the last interrupt.              *)
ProcessDescriptor(d) ==
    LET next == NextDesc(d, d.desc)
        served == [PopBuffer(d) EXCEPT !.raw = @ \cup {"done", "eof"} \cup {e \in {"end"} : next = None},
                                       !.desc = next]
    IN  IF d.desc \in {None, Bad} \/ d.desc \notin d.own THEN Failed(d)
        ELSE IrqUpdate(IF next = None THEN [served EXCEPT !.run = FALSE, !.active = FALSE] ELSE served)

\* i2s_arm_event
ArmEvent(d) ==
    IF ~d.active \/ d.desc \in {None, Bad} THEN [d EXCEPT !.armed = FALSE, !.due = 0]
    ELSE [d EXCEPT !.armed = TRUE, !.due = d.rate]

(* i2s_seed_ring: one descriptor, or with a dispatcher all but one, until an *)
(* end of buffer waits for the guest.                                        *)
SeedRing(d) ==
    LET count == IF d.inline /\ I2sDescs > 1 THEN I2sDescs - 1 ELSE 1
        seeded[k \in 0 .. count] ==
            IF k = 0 THEN d
            ELSE LET e == seeded[k - 1]
                 IN  IF (k > 1 /\ "eof" \in e.raw) \/ "error" \in e.raw \/ (k > 1 /\ ~e.active) THEN e
                     ELSE ProcessDescriptor(e)
    IN  seeded[count]

BugRefreshActive(d) ==      \* mutation: a stream that stops keeps its event
    LET active == d.dma /\ d.run /\ d.start
        begun == SeedRing([d EXCEPT !.active = TRUE])
    IN  IF active /\ ~d.active THEN IF begun.active THEN ArmEvent(begun) ELSE begun
        ELSE IF ~active THEN [d EXCEPT !.active = FALSE]
        ELSE d

\* i2s_refresh_active
RefreshActive(d) ==
    LET active == d.dma /\ d.run /\ d.start
        begun == SeedRing([d EXCEPT !.active = TRUE])
    IN  IF active /\ ~d.active THEN IF begun.active THEN ArmEvent(begun) ELSE begun
        ELSE IF ~active THEN [d EXCEPT !.active = FALSE, !.armed = FALSE, !.due = 0]
        ELSE d
-----------------------------------------------------------------------------
(* i2s_eval_events: one descriptor, however late; the next is timed from now.*)
Advance(n) ==
    /\ dev.armed
    /\ dev' = IF n < dev.due THEN [dev EXCEPT !.due = @ - n]
              ELSE LET d == ProcessDescriptor([dev EXCEPT !.armed = FALSE, !.due = 0])
                   IN  IF d.active THEN ArmEvent(d) ELSE d

\* i2s_write, OUT_LINK and IN_LINK
I2sWriteLink(cmd) ==
    dev' = RefreshActive(IF cmd = "stop" THEN [dev EXCEPT !.run = FALSE]
                         ELSE [dev EXCEPT !.run = TRUE, !.desc = 1])
\* i2s_write, CONF: start, and a reset puts the list back to its first descriptor
WriteConf(start, reset) ==
    dev' = RefreshActive([dev EXCEPT !.start = start, !.desc = IF reset THEN 1 ELSE @])
WriteFifoConf(dma) == dev' = RefreshActive([dev EXCEPT !.dma = dma])
\* i2s_write, the clock registers; periph_set_apll_frequency
WriteRate(c) ==
    dev' = LET d == [dev EXCEPT !.rate = c] IN IF d.active THEN ArmEvent(d) ELSE d
WriteIntEna(mask) == dev' = IrqUpdate([dev EXCEPT !.ena = mask])
I2sWriteIntClr == dev' = IrqUpdate([dev EXCEPT !.raw = {}])
\* The guest takes a descriptor back or gives it to the DMA.
GuestOwn(i) == dev' = [dev EXCEPT !.own = IF i \in @ THEN @ \ {i} ELSE @ \cup {i}]
\* i2s_rx_fifo_push (periph_i2s_rx_inject): what does not fit is refused
HostSamples(n) ==
    LET room == IF n < FifoSize - Len(dev.fifo) THEN n ELSE FifoSize - Len(dev.fifo)
    IN  /\ dev.way = "rx" /\ dev.next + n <= MaxSamples + 1
        /\ dev' = [dev EXCEPT !.fifo = @ \o [i \in 1 .. room |-> dev.next + i - 1], !.next = @ + room]

I2sNext ==
    \/ \E n \in 1 .. MaxAdvance : Advance(n)
    \/ \E c \in {"start", "stop"} : I2sWriteLink(c)
    \/ \E s, r \in BOOLEAN : WriteConf(s, r)
    \/ \E b \in BOOLEAN : WriteFifoConf(b)
    \/ \E c \in Cycles : WriteRate(c)
    \/ \E m \in {{}, {"eof", "error"}} : WriteIntEna(m)
    \/ I2sWriteIntClr
    \/ \E i \in {1} : GuestOwn(i)
    \/ \E n \in 1 .. 2 : HostSamples(n)

I2sSpec == I2sInit /\ [][I2sNext]_dev
-----------------------------------------------------------------------------
(* A stream is active exactly while its link runs and both enables are set,  *)
(* and an active one has its next event; a stopped one has none.  A list that*)
(* leads to an address that is not mapped is the exception: the stream stays *)
(* active, silent, and a new start of the link does not arm it.              *)
StreamAlive ==
    /\ dev.active = (dev.run /\ dev.start /\ dev.dma)
    /\ dev.armed => dev.active /\ dev.due > 0
    /\ dev.active => dev.armed \/ dev.tail = Bad

(* Samples reach the guest in the order they arrived, none twice or skipped. *)
SamplesInOrder == dev.ok
I2sIrqExact == dev.irq = (dev.raw \cap dev.ena # {})

-----------------------------------------------------------------------------
(***************************************************************************)
(* One direction of one port of the ESP32-S3 (i2s_v2.c).  Of the engine a  *)
(* part keeps one channel: whether it is active and which descriptor is    *)
(* next.  A descriptor is paced: when one is      *)
(* pending and the direction may run, the port arms a deadline as far away *)
(* as the descriptor's samples last, and the event scheduler is told.      *)
(* Received bytes come from the host over a ring and are numbered; a byte  *)
(* takes one cycle.                                                        *)
(***************************************************************************)
CONSTANTS
    SoundRing,      \* I2S_V2_RX_FIFO_SIZE
    SoundLens,      \* lengths of descriptors
    SoundBytes      \* bound: bytes the host offers

SoundAssumption == SoundRing \in Nat \ {0} /\ SoundLens \subseteq Nat \ {0}

SoundDescs == 1 .. 2
Unheard == -1       \* the scheduler knows of no deadline

(* lens, bad, loop: the guest's descriptors, the unusable one (0: none),     *)
(* and whether the last one links to the first.  on, next: the channel.      *)
(* start: CONF_START.  run: CLK_ACTIVE and, to transmit, CORE_CLOCK_ENABLE.  *)
(* left: cycles to the deadline.  told: the scheduler's idea of it.  ring,   *)
(* head, length: rx_fifo.  offered, seen, true: history - bytes offered, the *)
(* last byte that left the ring, and whether every block so far went on      *)
(* where the ring had stopped.                                               *)
SoundInit ==
    \E dir \in {"tx", "rx"}, lens \in [SoundDescs -> SoundLens], bad \in {0, 2}, loop \in BOOLEAN :
       dev = [dir |-> dir, lens |-> lens, bad |-> bad, loop |-> loop, on |-> FALSE, next |-> 1,
              start |-> FALSE, run |-> FALSE, clock |-> FALSE, reset |-> FALSE,
              armed |-> FALSE, left |-> 0, told |-> Unheard,
              ring |-> [i \in 0 .. SoundRing - 1 |-> 0], head |-> 0, length |-> 0,
              raw |-> {}, ena |-> {}, irq |-> FALSE, offered |-> 0, seen |-> 0, true |-> TRUE]

\* i2s_v2_update_irq
SoundIrq(d) == [d EXCEPT !.irq = d.raw \intersect d.ena # {}]

\* i2s_v2_notify_state: both cores ask flexe_i2s_v2_next_event again
SoundTell(d) == [d EXCEPT !.told = IF d.armed THEN d.left ELSE Unheard]

\* flexe_gdma_pending_length
SoundPending(d) == IF d.on THEN d.lens[d.next] ELSE 0

\* i2s_v2_direction_enabled
SoundEnabled(d) == d.clock /\ ~d.reset /\ d.start /\ d.run

SoundReady(d) ==
    SoundEnabled(d) /\ SoundPending(d) > 0 /\ (d.dir = "rx" => d.length >= SoundPending(d))

\* i2s_v2_refresh, i2s_v2_arm_direction, i2s_v2_descriptor_cycles
SoundRefresh(d) ==
    IF SoundReady(d) = d.armed THEN d
    ELSE SoundTell([d EXCEPT !.armed = SoundReady(d),
                             !.left = IF SoundReady(d) THEN SoundPending(d) ELSE @])

\* flexe_gdma_read_tx_descriptor, flexe_gdma_write_rx_descriptor: the end of
\* the chain, or a descriptor that cannot be used, stops the channel
SoundNext(d) == IF d.next < 2 THEN d.next + 1 ELSE IF d.loop THEN 1 ELSE 0
SoundMove(d) ==
    LET failed == ~d.on \/ d.next = d.bad
        ended == SoundNext(d) = 0
    IN  [d EXCEPT !.on = ~failed /\ ~ended,
                  !.next = IF failed \/ ended THEN @ ELSE SoundNext(d),
                  !.raw = @ \union (IF failed THEN {"hung"} ELSE IF ended THEN {"done"} ELSE {})]

\* i2s_v2_rx_pop, as often as the descriptor is long: an empty ring gives zeroes
SoundPop(d) ==
    LET n == SoundPending(d)
        got == [i \in 1 .. n |-> IF i > d.length THEN 0 ELSE d.ring[(d.head + i - 1) % SoundRing]]
        m == Min({n, d.length})
    IN  [d EXCEPT !.head = (@ + m) % SoundRing, !.length = @ - m, !.seen = @ + m,
                  !.true = @ /\ got = [i \in 1 .. n |-> d.seen + i]]

\* i2s_v2_service_tx, i2s_v2_service_rx
SoundService(d) ==
    SoundIrq(IF d.dir = "tx" THEN SoundMove(d)
             ELSE IF SoundPending(d) = 0 THEN [d EXCEPT !.raw = @ \union {"hung"}]
             ELSE SoundMove(SoundPop(d)))

\* flexe_i2s_v2_eval
SoundEval(d) ==
    IF d.armed /\ d.left = 0
    THEN SoundTell(SoundRefresh(SoundService([d EXCEPT !.armed = FALSE])))
    ELSE SoundRefresh(d)

\* i2s_v2_reset_port
SoundResetPort(d) ==
    [d EXCEPT !.start = FALSE, !.run = FALSE, !.armed = FALSE, !.head = 0, !.length = 0,
              !.raw = {}, !.ena = {}, !.irq = FALSE, !.seen = d.offered]

-----------------------------------------------------------------------------
\* A cycle passes.  The scheduler dispatches a deadline it knows of first.
SoundElapse ==
    /\ dev.told > 0
    /\ dev' = [dev EXCEPT !.left = IF @ > 0 THEN @ - 1 ELSE 0,
                          !.told = IF @ > 0 THEN @ - 1 ELSE @]

SoundDispatch == dev.told = 0 /\ dev' = SoundTell(SoundEval(dev))

\* i2s_v2_read, i2s_v2_write: an access first brings the port up to date
SoundRead == dev.left = 0 /\ dev' = SoundEval(dev)
SoundWriteEna(s) == dev' = SoundIrq([SoundEval(dev) EXCEPT !.ena = s])
SoundWriteClr == dev.raw # {} /\ dev' = SoundIrq([SoundEval(dev) EXCEPT !.raw = {}])
SoundWriteConf(start, fifoReset) ==
    LET d == [SoundEval(dev) EXCEPT !.start = start]
    IN  dev' = SoundRefresh(IF ~fifoReset THEN d
                            ELSE IF d.dir = "tx" THEN [d EXCEPT !.armed = FALSE]
                            ELSE [d EXCEPT !.armed = FALSE, !.head = 0, !.length = 0,
                                           !.seen = d.offered])
SoundWriteClock(run) == dev' = SoundRefresh([SoundEval(dev) EXCEPT !.run = run])

\* flexe_i2s_v2_set_system_state
SoundSetState(clock, reset) ==
    LET d == [dev EXCEPT !.clock = clock, !.reset = reset]
    IN  /\ dev.clock # clock \/ dev.reset # reset
        /\ dev' = SoundRefresh(IF reset /\ ~dev.reset THEN SoundResetPort(d) ELSE d)

\* flexe_i2s_v2_rx_inject: what does not fit is not accepted
SoundInject(n) ==
    LET m == Min({n, SoundRing - dev.length})
        d == [dev EXCEPT !.length = @ + m, !.offered = @ + m,
                         !.ring = [i \in 0 .. SoundRing - 1 |->
                                     LET k == (i - dev.head - dev.length) % SoundRing
                                     IN  IF k < m THEN dev.offered + k + 1 ELSE @[i]]]
    IN  /\ dev.dir = "rx" /\ dev.offered + n <= SoundBytes
        /\ dev' = IF m > 0 THEN SoundRefresh(d) ELSE dev

\* gdma_write of LINK, with i2s_v2_gdma_changed behind it
SoundLink(on) ==
    /\ on # dev.on
    /\ dev' = SoundRefresh([dev EXCEPT !.on = on, !.next = IF on THEN 1 ELSE @])

SoundNextStep ==
    \/ SoundElapse \/ SoundDispatch \/ SoundRead \/ SoundWriteClr
    \/ \E s \in {{}, {"done", "hung"}} : SoundWriteEna(s)
    \/ \E start, fifoReset \in BOOLEAN : SoundWriteConf(start, fifoReset)
    \/ \E b \in BOOLEAN : SoundWriteClock(b) \/ SoundLink(b)
    \/ \E clock, reset \in BOOLEAN : SoundSetState(clock, reset)
    \/ \E n \in 1 .. 2 : SoundInject(n)

SoundSpec == SoundInit /\ [][SoundNextStep]_dev

-----------------------------------------------------------------------------
SoundTypeOK ==
    /\ dev.length \in 0 .. SoundRing /\ dev.head \in 0 .. SoundRing - 1
    /\ dev.left \in Nat /\ dev.told \in Nat \union {Unheard}
    /\ dev.raw \subseteq {"done", "hung"} /\ dev.ena \subseteq {"done", "hung"}

\* The interrupt level follows the raw and enable bits (i2s_v2_update_irq).
SoundIrqExact == dev.irq = (dev.raw \intersect dev.ena # {})

\* A port whose direction may run, with a descriptor pending and, to receive,
\* a whole buffer waiting, has a deadline ahead of it, whoever changed what last
\* (every path ends in i2s_v2_refresh); and the scheduler expects it no later.
SoundAlive ==
    /\ SoundReady(dev) => dev.armed
    /\ dev.armed => dev.told # Unheard /\ dev.told <= dev.left

\* Host-fed samples reach the guest once, in order and never padded: "silently
\* padding an empty host stream with zeroes makes a disconnected source look
\* like a successful capture" (i2s_v2_arm_direction).
SoundTrue ==
    /\ dev.true
    /\ dev.armed /\ dev.dir = "rx" => dev.length >= SoundPending(dev)

-----------------------------------------------------------------------------
(***************************************************************************)
(* The parallel port: an i80 panel on its output half, a camera on its     *)
(* input half.  A panel transaction walks the whole descriptor chain at    *)
(* once; a camera frame is cut into descriptors by whichever is shorter,   *)
(* the buffer or what the frame still lacks.                               *)
(***************************************************************************)
CONSTANTS
    ChainMax,       \* LCD_CAM_DMA_CHAIN_MAX
    PanelDescs,     \* lengths of the panel's descriptor chain
    CamSizes,       \* sizes of the camera's buffers
    CamLens         \* lengths of a frame, CAM_REC_DATA_BYTELEN + 1

CamAssumption == ChainMax \in Nat \ {0} /\ PanelDescs \cup CamSizes \cup CamLens \subseteq Nat \ {0}

(* half: the one the guest uses.  user: bits of LCD_USER.  rgb: a mode that is not implemented is selected.  *)
(* chain, fail, loop: the chain's length, the descriptor that cannot be used  *)
(* (0: none), and whether it is a ring.  on, next: the output channel.        *)
(* shown: the descriptors given to the panel since the last LINK; last: was   *)
(* the newest flagged as the end; done: was the end of a transaction told     *)
(* since.  wide: 16 bit with the byte order inverted.  rx: the input channel. *)
(* until: camera_bytes_until_eof.  frame: length of the frame being received; *)
(* got: its bytes in memory so far, the source numbers them.  whole: every    *)
(* frame so far ended where it should.                                        *)
CamInit ==
    \E half \in {"panel", "camera"}, n \in PanelDescs, fail, loop, wide \in BOOLEAN, size \in CamSizes :
       dev = [half |-> half, user |-> {}, rgb |-> FALSE, chain |-> n, fail |-> IF fail THEN n ELSE 0,
              loop |-> loop, on |-> FALSE, next |-> 1, shown |-> <<>>, last |-> FALSE,
              done |-> FALSE, size |-> size, wide |-> wide, start |-> FALSE, len |-> Min(CamLens),
              rx |-> FALSE, until |-> 0, frame |-> 0, got |-> <<>>, whole |-> TRUE,
              clock |-> FALSE, reset |-> FALSE, raw |-> {}, ena |-> {}, irq |-> FALSE]

\* lcd_cam_update_irq
CamIrq(d) == [d EXCEPT !.irq = d.raw \intersect d.ena # {}]

\* lcd_cam_emit_descriptor_chain: how many descriptors are shown, and whether
\* the chain has ended with them
PanelUsable(d) ==
    IF d.fail # 0 THEN d.fail - d.next ELSE IF d.loop THEN ChainMax ELSE d.chain - d.next + 1
PanelCount(d) == Min({PanelUsable(d), ChainMax})
PanelEnds(d) == d.fail = 0 /\ ~d.loop /\ PanelUsable(d) <= ChainMax
PanelAt(d, k) == ((d.next + k - 2) % d.chain) + 1     \* the k-th from next on

PanelEmit(d) ==
    LET n == PanelCount(d)
    IN  [d EXCEPT !.shown = IF Len(@) + n > 2 * ChainMax THEN @
                            ELSE @ \o [k \in 1 .. n |-> PanelAt(d, k)],
                  !.last = IF n = 0 THEN @ ELSE PanelEnds(d),
                  !.on = ~PanelEnds(d) /\ n = ChainMax,
                  !.next = PanelAt(d, n + 1)]

\* lcd_cam_start_i80: a start that cannot be carried out stays pending
PanelStart(d) ==
    IF \/ ~d.clock \/ d.reset \/ "start" \notin d.user \/ d.rgb
       \/ "dout" \in d.user /\ ("always" \notin d.user \/ ~d.on)
    THEN d
    ELSE IF "dout" \in d.user /\ ~PanelEnds(d) THEN PanelEmit(d)
    ELSE LET e == IF "dout" \in d.user THEN PanelEmit(d) ELSE d
         IN  CamIrq([e EXCEPT !.user = @ \ {"start"}, !.raw = @ \union {"done"},
                              !.done = @ \/ "dout" \in d.user])

\* lcd_cam_order_camera_data
Swapped(q) ==
    [i \in 1 .. Len(q) |-> IF i % 2 = 1 THEN (IF i < Len(q) THEN q[i + 1] ELSE q[i]) ELSE q[i - 1]]
CamOrder(d, q) == IF d.wide THEN Swapped(q) ELSE q

\* lcd_cam_reset
CamReset(d) ==
    [d EXCEPT !.user = {}, !.rgb = FALSE, !.start = FALSE, !.len = Min(CamLens), !.until = 0,
              !.raw = {}, !.ena = {}, !.irq = FALSE, !.got = <<>>]

-----------------------------------------------------------------------------
\* lcd_cam_write
PanelWriteUser(bits) == dev' = PanelStart([dev EXCEPT !.user = bits])
PanelWriteMode(rgb) == rgb # dev.rgb /\ dev' = [dev EXCEPT !.rgb = rgb]
CamWriteEna(s) == dev' = CamIrq([dev EXCEPT !.ena = s])
CamWriteClr(s) == dev' = CamIrq([dev EXCEPT !.raw = @ \ s])
CamWriteCtrl1(start, afifo, len) ==
    LET d == [dev EXCEPT !.start = start, !.len = len]
    IN  dev' = IF afifo \/ ~start THEN [d EXCEPT !.until = 0, !.got = <<>>] ELSE d

\* flexe_lcd_cam_set_system_state
CamSetState(clock, reset) ==
    LET d == [dev EXCEPT !.clock = clock, !.reset = reset]
        e == IF reset /\ ~dev.reset THEN CamReset(d) ELSE d
    IN  /\ dev.clock # clock \/ dev.reset # reset
        /\ dev' = IF ~reset /\ clock THEN PanelStart(e) ELSE e

\* gdma_write of LINK: nothing tells the port
PanelLink == dev' = [dev EXCEPT !.on = TRUE, !.next = 1, !.shown = <<>>, !.done = FALSE, !.last = FALSE]
CamLink(on) == on # dev.rx /\ dev' = [dev EXCEPT !.rx = on]

CamRequired(d) == Min({d.size, IF d.until # 0 THEN d.until ELSE d.len})

CamRefuses(d) == d.wide /\ CamRequired(d) % 2 = 1

\* flexe_lcd_cam_camera_rx_inject: a whole buffer or the rest of a frame, or
\* nothing; the host offers what it could not deliver again
CamInject ==
    LET n == CamRequired(dev)
        frame == IF dev.until # 0 THEN dev.frame ELSE dev.len
        eof == n = (IF dev.until # 0 THEN dev.until ELSE dev.len)
        had == IF dev.until # 0 THEN dev.got ELSE <<>>
        got == had \o CamOrder(dev, [i \in 1 .. n |-> Len(had) + i])
    IN  /\ dev.clock /\ ~dev.reset /\ dev.start /\ dev.rx /\ ~CamRefuses(dev)
        /\ \E more \in BOOLEAN :
             dev' = [dev EXCEPT !.until = IF eof THEN 0 ELSE (IF @ # 0 THEN @ ELSE dev.len) - n,
                                !.frame = frame, !.got = got, !.rx = more,
                                !.whole = @ /\ (eof <=> Len(got) = frame)]

\* flexe_lcd_cam_camera_vsync
CamVsync ==
    /\ dev.clock /\ ~dev.reset /\ dev.start
    /\ dev' = CamIrq([dev EXCEPT !.until = 0, !.got = <<>>, !.raw = @ \union {"vsync"}])

PanelNext ==
    /\ dev.half = "panel"
    /\ \/ \E bits \in {{}, {"start"}, {"start", "dout"}, {"start", "dout", "always"}} :
            PanelWriteUser(bits)
       \/ \E rgb \in BOOLEAN : PanelWriteMode(rgb)
       \/ PanelLink

CameraNext ==
    /\ dev.half = "camera"
    /\ \/ \E start, afifo \in BOOLEAN, len \in CamLens : CamWriteCtrl1(start, afifo, len)
       \/ \E on \in BOOLEAN : CamLink(on)
       \/ CamInject \/ CamVsync

CamNext ==
    \/ PanelNext \/ CameraNext
    \/ \E s \in {{}, {"done", "vsync"}} : CamWriteEna(s) \/ CamWriteClr(s)
    \/ \E clock, reset \in BOOLEAN : CamSetState(clock, reset)

CamSpec == CamInit /\ [][CamNext]_dev

-----------------------------------------------------------------------------
CamTypeOK ==
    /\ dev.raw \subseteq {"done", "vsync"} /\ dev.next \in 1 .. dev.chain
    /\ dev.until \in 0 .. Max(CamLens) /\ dev.user \subseteq {"start", "dout", "always"}

\* The interrupt level follows the raw and enable bits (lcd_cam_update_irq).
CamIrqExact == dev.irq = (dev.raw \intersect dev.ena # {})

\* The end of a transaction with data is told only when every descriptor of the
\* chain has been shown to the panel, once and in order, the newest as the last
\* (lcd_cam_emit_descriptor_chain), however often the start was written.
PanelWhole == dev.done => dev.last /\ dev.shown = [i \in 1 .. dev.chain |-> i]

\* A frame lies in memory in the camera's order, or in the order of whole 16-bit
\* words, across the descriptors it was cut into, and its end is flagged at its
\* programmed length (flexe_lcd_cam_camera_rx_inject).
CamWhole ==
    /\ dev.whole
    /\ dev.got = CamOrder(dev, [i \in 1 .. Len(dev.got) |-> i])
    /\ dev.until # 0 => Len(dev.got) + dev.until = dev.frame

-----------------------------------------------------------------------------
(***************************************************************************)
(* The digital ADC controller.  Each of two units converts the channels of *)
(* its pattern table in turn; a frame of conversions fills one descriptor. *)
(* Entry i of a table is named by its index; what a channel reads, and the *)
(* arbiter that may mark unit 1's conversions invalid, are left out.       *)
(***************************************************************************)
CONSTANTS
    AdcIndexMod,    \* values of pattern_index, a uint8_t
    AdcLens,        \* pattern lengths
    AdcFrames       \* conversions per frame: dma_eof, or what the buffer holds

AdcAssumption == AdcIndexMod \in Nat \ {0} /\ AdcLens \subseteq Nat \ {0} /\ AdcFrames \subseteq Nat \ {0}

Units == {0, 1}

(* len, index: length of each unit's pattern and pattern_index.  both: the    *)
(* units alternate; unit: the one selected otherwise.  next: next_unit.       *)
(* timer, dma, gate: the enables.  dmaReset, clear: bits whose rise restarts. *)
(* rx: is a descriptor pending.  prev: history, the entry each unit converted *)
(* last since its table was restarted, -1 if none; true: every conversion was *)
(* of the entry that was due.                                                 *)
AdcInit ==
    \E len \in [Units -> AdcLens], n \in AdcFrames :
       dev = [len |-> len, frame |-> n, index |-> [u \in Units |-> 0], both |-> FALSE, unit |-> 0,
              next |-> 0, timer |-> FALSE, dma |-> FALSE, gate |-> FALSE,
              dmaReset |-> FALSE, clear |-> {}, clock |-> TRUE, reset |-> FALSE, rx |-> FALSE,
              prev |-> [u \in Units |-> -1], true |-> TRUE]

\* apb_saradc_streaming
AdcStreaming(d) == d.clock /\ ~d.reset /\ d.gate /\ d.timer /\ d.dma

\* apb_saradc_next_unit
AdcUnit(d) == IF d.both THEN d.next ELSE d.unit

\* apb_saradc_next_sample, apb_saradc_pattern_entry
AdcSample(d) ==
    LET u == AdcUnit(d)
        entry == d.index[u] % d.len[u]
    IN  [d EXCEPT !.next = IF d.both THEN 1 - @ ELSE @, !.index[u] = (@ + 1) % AdcIndexMod,
                  !.prev[u] = entry, !.true = @ /\ entry = (d.prev[u] + 1) % d.len[u]]

\* flexe_apb_saradc_inject_frame; the descriptor after this one may be missing
AdcFrame(d) ==
    IF ~AdcStreaming(d) \/ ~d.rx THEN {d}
    ELSE LET e == FoldFunction(LAMBDA k, x : AdcSample(x), d, [k \in 1 .. d.frame |-> k])
         IN  {e, [e EXCEPT !.rx = FALSE]}

\* apb_saradc_reset
AdcReset(d) ==
    [d EXCEPT !.index = [u \in Units |-> 0], !.both = FALSE, !.unit = 0, !.next = 0,
              !.timer = FALSE, !.dma = FALSE, !.gate = FALSE,
              !.dmaReset = FALSE, !.clear = {}, !.prev = [u \in Units |-> -1]]

-----------------------------------------------------------------------------
\* apb_saradc_write of CONTROL: a rising clear bit restarts the unit's table
AdcWriteControl(gate, both, unit, clear) ==
    LET up == clear \ dev.clear
    IN  dev' = [dev EXCEPT !.gate = gate, !.both = both, !.unit = unit, !.clear = clear,
                           !.index = [u \in Units |-> IF u \in up THEN 0 ELSE @[u]],
                           !.prev = [u \in Units |-> IF u \in up THEN -1 ELSE @[u]]]

\* of CONTROL2: the timer, once on, converts a first frame
AdcWriteTimer(on) ==
    LET d == [dev EXCEPT !.timer = on]
    IN  dev' \in IF on /\ ~dev.timer THEN AdcFrame(d) ELSE {d}

\* of DMA_CONFIG
AdcWriteDma(on, reset) ==
    LET d == [dev EXCEPT !.dma = on, !.dmaReset = reset]
    IN  dev' = IF ~reset \/ dev.dmaReset THEN d
               ELSE [d EXCEPT !.index = [u \in Units |-> 0], !.next = 0, !.prev = [u \in Units |-> -1]]

\* periph_apb_saradc frames the host asks for
AdcInject == AdcStreaming(dev) /\ dev.rx /\ dev' \in AdcFrame(dev)

\* flexe_apb_saradc_set_system_state
AdcSetState(clock, reset) ==
    LET d == [dev EXCEPT !.clock = clock, !.reset = reset]
    IN  dev' = IF reset /\ ~dev.reset THEN AdcReset(d) ELSE d

AdcLink(on) == on # dev.rx /\ dev' = [dev EXCEPT !.rx = on]

AdcNext ==
    \/ \E gate, both \in BOOLEAN, unit \in Units, clear \in SUBSET Units :
          AdcWriteControl(gate, both, unit, clear)
    \/ \E on \in BOOLEAN : AdcWriteTimer(on) \/ AdcLink(on)
    \/ \E on, reset \in BOOLEAN : AdcWriteDma(on, reset) \/ AdcSetState(on, reset)
    \/ AdcInject

AdcSpec == AdcInit /\ [][AdcNext]_dev

-----------------------------------------------------------------------------
AdcTypeOK == dev.index \in [Units -> 0 .. AdcIndexMod - 1] /\ dev.next \in Units

\* Each unit converts the entries of its pattern in turn, beginning with the
\* first after every restart, through frames of any length and while the units
\* alternate or not (apb_saradc_next_sample).
AdcInOrder == dev.true
=============================================================================
