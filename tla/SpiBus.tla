------------------------------- MODULE SpiBus -------------------------------
(***************************************************************************)
(* The general-purpose SPI controllers and the display on them.            *)
(* Each part stands alone: dev is the state of the one being explored.     *)
(***************************************************************************)
EXTENDS Integers, Sequences, FiniteSets, FiniteSetsExt

VARIABLE dev

-----------------------------------------------------------------------------
(***************************************************************************)
(* The general-purpose SPI hosts (src/src/spi_display.c).  Writing USR runs  *)
(* a whole transaction: the output phase is fetched, the slave that the      *)
(* board's wires select hears it, the input phase is stored, and only then   *)
(* the completion is raised.  Four parts, one per behaviour (`part`):        *)
(*   "dma"    one host: descriptor chains of the classic DMA, or the GDMA of *)
(*            the S3, and the interrupt line;                                *)
(*   "select" two hosts that share the board's slaves: who hears a           *)
(*            transaction, from clock routes, chip selects and pin levels;   *)
(*   "attach" the table of slaves the board description adds;                *)
(*   "bang"   the touch controller clocked by software on GPIO pins.         *)
(***************************************************************************)
CONSTANTS Parts,          \* the parts that are exercised
          Gens,           \* "esp32" | "s3"
          Descs,          \* descriptors of a chain
          BufSize,        \* bytes of a descriptor's buffer
          MaxWanted,      \* bytes of a phase
          Slaves,         \* subset of {"touch", "display", "sd"}
          Slots, CsPins,  \* attachment table
          CmdBits, AnsBits \* bits of a touch command (8) and answer (16)

NoDevice == [pin |-> 0, fn |-> "none"]
Hosts == {"h2", "h3"}
Other(h) == IF h = "h2" THEN "h3" ELSE "h2"
Chain == 1 .. Descs

------------------------------------------------------------------------------
(* The events that are latched here; the others (a descriptor done, an EOF)  *)
(* are raised beside them and answer the same enables.                       *)
Kept == {"out_total", "out_err", "in_eof", "in_err", "trans", "out_empty",
         "in_full"}

(* The interrupt line (gp_spi_intr_update).                                *)
IntrUpdate(d) ==
  [d EXCEPT !.line = (d.raw \cap d.ena # {})
                     \/ (d.gen = "esp32" /\ d.done /\ d.inten)]

(* Classic DMA, output: the chain is walked until the phase is full.  A      *)
(* descriptor is given back when it has been read; one that is not the       *)
(* DMA's ends the walk with an error, and so does the end of the chain.      *)
ReadTx(d, wanted) ==
  LET walk[i \in 0 .. Descs] ==
        IF i = 0 THEN [tx |-> d.tx, n |-> 0, raw |-> d.raw, on |-> TRUE]
        ELSE LET w == walk[i - 1]
                 t == d.tx[i]
                 chunk == Min({t.len, wanted - w.n})
                 full == w.n + chunk >= wanted
             IN IF ~w.on THEN w
                ELSE IF ~t.own
                THEN [w EXCEPT !.raw = @ \cup {"out_err"}, !.on = FALSE]
                ELSE [tx |-> [w.tx EXCEPT ![i].own = FALSE],
                      n |-> w.n + chunk,
                      raw |-> w.raw \cup (IF ~full /\ ~t.eof /\ t.last
                                    THEN {"out_err"} ELSE {}),
                      on |-> ~full /\ ~t.eof /\ ~t.last]
      end == walk[Descs]
  IN [d EXCEPT !.tx = end.tx, !.out = FALSE, !.sent = end.n,
        !.raw = end.raw \cup (IF end.n = wanted THEN {"out_total"}
                              ELSE {"out_err"})]

(* Input: each buffer is filled whole, its descriptor records how much.     *)
WriteRx(d, wanted) ==
  LET walk[i \in 0 .. Descs] ==
        IF i = 0 THEN [rx |-> d.rx, n |-> 0, raw |-> d.raw, on |-> TRUE]
        ELSE LET w == walk[i - 1]
                 t == d.rx[i]
                 chunk == Min({t.size, wanted - w.n})
                 full == w.n + chunk >= wanted
             IN IF ~w.on THEN w
                ELSE IF ~t.own \/ t.size = 0
                THEN [w EXCEPT !.raw = @ \cup {"in_err"}, !.on = FALSE]
                ELSE [rx |-> [w.rx EXCEPT ![i].own = FALSE, ![i].len = chunk],
                      n |-> w.n + chunk,
                      raw |-> w.raw
                              \cup (IF full THEN {"in_eof"}
                                    ELSE IF t.eof \/ t.last THEN {"in_err"}
                                    ELSE {}),
                      on |-> ~full /\ ~t.eof /\ ~t.last]
      end == walk[Descs]
  IN [d EXCEPT !.rx = end.rx, !.in = FALSE, !.got = end.n,
        !.raw = end.raw \cup (IF end.n # wanted THEN {"in_err"} ELSE {})]

Completed(d) ==
  IF d.gen = "s3" THEN [d EXCEPT !.raw = @ \cup {"trans"}]
  ELSE [d EXCEPT !.done = TRUE]

(* One USR transaction of `tx` output and `rx` input bytes.  On the S3 the   *)
(* GDMA moves the data (gdmatx, gdmarx: whether it succeeded), and an output *)
(* phase without an active GDMA link is no output phase; slave or segmented  *)
(* mode is refused and told.                                                 *)
Transact(d, tx, rx, gdmatx, gdmarx) ==
  LET begun == IntrUpdate(IF d.gen = "s3" THEN [d EXCEPT !.raw = @ \ {"trans"}]
                          ELSE [d EXCEPT !.done = FALSE])
      s3 == d.gen = "s3"
      txq == IF s3 /\ rx # 0 /\ d.out /\ gdmatx = "inactive" THEN 0 ELSE tx
      clear == [begun EXCEPT !.sent = 0, !.got = 0, !.asked = <<txq, rx>>,
                             !.how = <<txq # 0 /\ d.out, rx # 0 /\ d.in>>]
      sent == CASE txq = 0 \/ ~d.out ->
                     [clear EXCEPT !.sent = txq]      \* from the W registers
                [] txq # 0 /\ d.out /\ ~s3 -> ReadTx(clear, txq)
                [] OTHER -> IF gdmatx = "done" THEN [clear EXCEPT !.sent = txq]
                            ELSE [clear EXCEPT !.raw = @ \cup {"out_empty"},
                                               !.told = TRUE]
      got == CASE rx = 0 \/ ~d.in -> [sent EXCEPT !.got = rx]
               [] rx # 0 /\ d.in /\ ~s3 -> WriteRx(sent, rx)
               [] OTHER -> IF gdmarx = "done" THEN [sent EXCEPT !.got = rx]
                           ELSE [sent EXCEPT !.raw = @ \cup {"in_full"},
                                             !.told = TRUE]
  IN IF s3 /\ d.segmented
     THEN IntrUpdate(Completed([clear EXCEPT !.told = TRUE, !.asked = <<0, 0>>]))
     ELSE IntrUpdate(Completed(got))

(* What is told of a transaction, and a chain that was handed back, matter   *)
(* until the next register write only.                                       *)
Free == [own |-> FALSE, len |-> 0, size |-> 0, eof |-> FALSE, last |-> TRUE]

Quiet(d) == [d EXCEPT !.sent = 0, !.got = 0, !.asked = <<0, 0>>,
                      !.how = <<FALSE, FALSE>>, !.told = FALSE,
                      !.tx = IF d.out THEN @ ELSE [i \in Chain |-> Free],
                      !.rx = IF d.in THEN @ ELSE [i \in Chain |-> Free]]

(* Register writes.                                                        *)
Usr(tx, rx, gdmatx, gdmarx) ==
  /\ dev.part = "dma"
  /\ dev.gen = "s3" => dev.clocked       \* otherwise the write is dropped
  /\ dev' = Transact(Quiet(dev), tx, rx, gdmatx, gdmarx)

(* SLAVE register: TRANS_DONE is writable in both directions, the driver     *)
(* raises its first interrupt that way.                                      *)
WriteSlave(d, done, inten) ==
  IntrUpdate([d EXCEPT !.done = done, !.inten = inten])

Slave(done, inten) == /\ dev.part = "dma" /\ dev.gen = "esp32"
                      /\ dev' = WriteSlave(Quiet(dev), done, inten)

IntEna(e) == dev.part = "dma" /\ dev' = IntrUpdate([Quiet(dev) EXCEPT !.ena = e])
IntClr(e) == dev.part = "dma" /\ dev' = IntrUpdate([Quiet(dev) EXCEPT !.raw = @ \ e])
IntSet(e) == /\ dev.part = "dma" /\ dev.gen = "s3"
             /\ dev' = IntrUpdate([Quiet(dev) EXCEPT !.raw = @ \cup e])

(* OUT_LINK/IN_LINK start and stop, and the DMA resets; on the S3 the        *)
(* DMA_CONF enables.  The driver has filled the chain when it starts one.    *)
Links(out, in, fill) ==
  /\ dev.part = "dma"
  /\ dev' = [Quiet(dev) EXCEPT !.out = out, !.in = in,
               !.tx = IF out /\ dev.gen = "esp32" THEN fill ELSE @,
               !.rx = IF in /\ dev.gen = "esp32" THEN fill ELSE @]

Mode(segmented) == /\ dev.part = "dma" /\ dev.gen = "s3"
                   /\ dev' = [Quiet(dev) EXCEPT !.segmented = segmented]

(* The system clock and reset of the host; a rising reset clears registers. *)
SystemState(clocked, reset) ==
  /\ dev.part = "dma" /\ dev.gen = "s3"
  /\ dev' = IF reset
            THEN IntrUpdate([Quiet(dev) EXCEPT !.raw = {}, !.ena = {}, !.out = FALSE,
                               !.in = FALSE, !.segmented = FALSE,
                               !.clocked = FALSE])
            ELSE [Quiet(dev) EXCEPT !.clocked = clocked]

------------------------------------------------------------------------------
(* Who hears a transaction.  A slave has a clock pin, routed from a host or  *)
(* unknown, and a chip select that is a GPIO or a hardware line of a host.   *)
RouteAllows(s, h) == s.clock # Other(h)

(* -1 in the code: no hardware line owns the pin.                           *)
HardwareCs(d, s, h) ==
  CASE s.cs = "gpio" -> "none"
    [] s.cs = h -> (IF d.hwcs[h] THEN "on" ELSE "off")
    [] OTHER -> "off"

CsAsserted(s) == ~s.level /\ (s.seen \/ s.driven)

(* Selected on host h: the GPIO level counts only when it was seen inactive  *)
(* or is driven, so an untouched pin that reads low selects nothing.         *)
DeviceCs(d, s, h) ==
  RouteAllows(s, h) /\ CASE HardwareCs(d, s, h) = "on" -> TRUE
                         [] HardwareCs(d, s, h) = "off" -> FALSE
                         [] OTHER -> CsAsserted(s)

(* Sampling a GPIO chip select remembers a high level, and the D/C line is   *)
(* remembered high by a host that has no better way to know its panel.       *)
PanelByDc(d, h) ==
  LET s == d.slave["display"]
  IN /\ "display" \in DOMAIN d.slave
     /\ ~DeviceCs(d, s, h) /\ ~s.seen /\ RouteAllows(s, h)

Sampled(d, h) ==
  LET e == [d EXCEPT !.slave = [k \in DOMAIN d.slave |->
              LET s == d.slave[k]
              IN IF RouteAllows(s, h) /\ HardwareCs(d, s, h) = "none" /\ s.level
                 THEN [s EXCEPT !.seen = TRUE] ELSE s]]
  IN [e EXCEPT !.dcseen[h] = @ \/ (d.dc /\ PanelByDc(e, h))]

(* The slave's priority: touch, display, then the card.                     *)
Hearer(d, h) ==
  LET on(k) == k \in DOMAIN d.slave /\ DeviceCs(d, d.slave[k], h)
      panel == PanelByDc(d, h) /\ d.dcseen[h]
  IN CASE on("touch") -> "touch"
       [] ~on("touch") /\ (on("display") \/ panel) -> "display"
       [] ~on("touch") /\ ~on("display") /\ ~panel /\ on("sd") -> "sd"
       [] OTHER -> "nobody"

SelectTransact(h) ==
  /\ dev.part = "select"
  /\ LET d == Sampled(dev, h)
     IN dev' = [d EXCEPT !.heard = Hearer(d, h), !.by = h]

Forget(d) == [d EXCEPT !.heard = "nobody", !.by = "h2"]

SetLevel(k, v) == /\ dev.part = "select"
                  /\ dev' = Forget([dev EXCEPT !.slave[k].level = v])
Drive(k) == /\ dev.part = "select"
            /\ dev' = Forget([dev EXCEPT !.slave[k].driven = TRUE])
Route(k, clock, cs) ==
  /\ dev.part = "select"
  /\ dev' = Forget([dev EXCEPT !.slave[k].clock = clock, !.slave[k].cs = cs])
HwCs(h, v) == dev.part = "select" /\ dev' = Forget([dev EXCEPT !.hwcs[h] = v])
SetDc(v) == dev.part = "select" /\ dev' = Forget([dev EXCEPT !.dc = v])

------------------------------------------------------------------------------
(* The table of attached slaves, keyed by chip-select pin.                  *)
Attach(table, pin, fn) ==
  LET free == {i \in DOMAIN table : table[i].fn = "none"}
      same == {i \in DOMAIN table : table[i].fn # "none" /\ table[i].pin = pin}
  IN CASE same # {} ->
            [table EXCEPT ![Min(same)] =
               IF fn = "none" THEN NoDevice
               ELSE [pin |-> pin, fn |-> fn]]
       [] same = {} /\ fn # "none" /\ free # {} ->
            [table EXCEPT ![Min(free)] = [pin |-> pin, fn |-> fn]]
       [] OTHER -> table

AttachDevice(pin, fn) ==
  /\ dev.part = "attach"
  /\ dev' = [dev EXCEPT !.table = Attach(@, pin, fn),
       \* history: what the board asked for and the table had room for
       !.board = CASE fn = "none" -> [@ EXCEPT ![pin] = "none"]
                   [] fn # "none" /\ (dev.board[pin] # "none"
                       \/ Cardinality({p \in CsPins : dev.board[p] # "none"})
                          < Slots) -> [@ EXCEPT ![pin] = fn]
                   [] OTHER -> @]

(* Configuring a host for a board empties its table; a reset of the session  *)
(* takes a snapshot, configures the new hosts and restores it.               *)
Configured(d) == [d EXCEPT !.table = [i \in DOMAIN @ |-> NoDevice]]

Recreate ==
  /\ dev.part = "attach"
  /\ LET snapshot == dev.table
         restore(e) == IF e.fn = "none" THEN [e EXCEPT !.fn = "none"] ELSE e
     IN dev' = [Configured(dev) EXCEPT
                  !.table = [i \in DOMAIN @ |-> restore(snapshot[i])]]

------------------------------------------------------------------------------
(* The touch controller on GPIO pins: a rising clock edge presents one bit   *)
(* of the answer and takes one bit of the next command.                      *)
Edge(b, mosi) ==
  LET shifted == Append(b.word, mosi)
      miso == IF b.out = <<>> THEN 0 ELSE Head(b.out)
      whole == Len(shifted) = CmdBits
  IN [b EXCEPT !.word = IF whole THEN <<>> ELSE shifted,
        \* a command has its first bit set; the answer's bits are numbered
        !.out = IF whole /\ shifted[1] = 1 THEN [i \in 1 .. AnsBits |-> i]
                ELSE IF b.out = <<>> THEN <<>> ELSE Tail(b.out),
        !.read = IF miso = 0 THEN <<>>
                 ELSE IF miso = 1 THEN <<1>> ELSE Append(b.read, miso)]

Deselected == [selected |-> FALSE, word |-> <<>>, out |-> <<>>, read |-> <<>>,
               left |-> 0]

TouchCs(on) ==
  /\ dev.part = "bang"
  /\ dev' = [dev EXCEPT !.bang = [Deselected EXCEPT !.selected = on,
                                    !.left = 0]]

(* The driver sends a command, then clocks the answer out with zeros.       *)
TouchClock(mosi) ==
  /\ dev.part = "bang" /\ dev.bang.selected
  /\ dev.bang.left > 0 => mosi = 0
  /\ LET b == Edge(dev.bang, mosi)
         sent == dev.bang.left = 0 /\ b.word = <<>>
                 /\ Append(dev.bang.word, mosi)[1] = 1
     IN dev' = [dev EXCEPT !.bang = [b EXCEPT
                  !.left = CASE sent -> AnsBits
                             [] dev.bang.left > 0 -> dev.bang.left - 1
                             [] OTHER -> 0]]

------------------------------------------------------------------------------
SpiInit ==
  \E part \in Parts, gen \in Gens :
    /\ part # "dma" => gen = "esp32"
    /\ dev = [part |-> part, gen |-> gen, line |-> FALSE, done |-> FALSE,
         inten |-> FALSE, raw |-> {}, ena |-> {}, out |-> FALSE, in |-> FALSE,
         tx |-> [i \in Chain |-> Free], rx |-> [i \in Chain |-> Free],
         sent |-> 0, got |-> 0, asked |-> <<0, 0>>, how |-> <<FALSE, FALSE>>,
         told |-> FALSE, segmented |-> FALSE, clocked |-> TRUE,
         slave |-> [k \in IF part = "select" THEN Slaves ELSE {} |->
                     [clock |-> "unknown", cs |-> "gpio", level |-> FALSE,
                      seen |-> FALSE, driven |-> FALSE]],
         hwcs |-> [h \in Hosts |-> FALSE], dc |-> FALSE,
         dcseen |-> [h \in Hosts |-> FALSE], heard |-> "nobody",
         by |-> "h2", table |-> [i \in 1 .. Slots |-> NoDevice],
         board |-> [p \in CsPins |-> "none"], bang |-> Deselected]

(* Chains a driver builds: the last descriptor ends it, EOF on any.  What is *)
(* sent is told by the lengths, what fits by the sizes; either may be 0.     *)
Built(len, size) == {[i \in Chain |->
             [own |-> i <= n /\ i # lent, len |-> len[i], size |-> size[i],
              eof |-> i = e, last |-> i >= n]] :
           n \in Chain, lent \in {0, Descs}, e \in {0, 1}}
Full == [i \in Chain |-> BufSize]
FirstEmpty == [Full EXCEPT ![1] = 0]
TxChains == Built(Full, Full) \cup Built(FirstEmpty, Full)
RxChains == Built(Full, Full) \cup {c \in Built(Full, FirstEmpty) : c[1].last}
NoChain == [i \in Chain |-> Free]

Watched == IF dev.gen = "s3" THEN {"trans", "in_full"}
           ELSE {"out_total", "in_err"}

SpiNext ==
  \/ \E tx \in 0 .. MaxWanted, rx \in 0 .. MaxWanted,
        gt \in {"inactive", "done", "failed"}, gr \in {"done", "failed"} :
       /\ dev.gen = "esp32" \/ tx = 0 \/ ~dev.out => gt = "done"
       /\ dev.gen = "esp32" \/ rx = 0 \/ ~dev.in => gr = "done"
       /\ Usr(tx, rx, gt, gr)
  \/ \E done, inten \in BOOLEAN : Slave(done, inten)
  \/ \E e \in {{}, Watched} : IntEna(e)
  \/ \E e \in Kept : IntClr({e})
  \/ \E e \in Watched : IntSet({e})
  \/ \E out, in \in BOOLEAN :
       /\ ~(out /\ in)
       /\ \E fill \in CASE dev.gen = "esp32" /\ out -> TxChains
                       [] dev.gen = "esp32" /\ in  -> RxChains
                       [] OTHER -> {NoChain} : Links(out, in, fill)
  \/ \E b \in BOOLEAN : Mode(b)
  \/ \E c, r \in BOOLEAN : SystemState(c, r)
  \/ \E h \in Hosts : SelectTransact(h)
  \/ \E k \in DOMAIN dev.slave, v \in BOOLEAN : SetLevel(k, v)
  \/ \E k \in DOMAIN dev.slave : Drive(k)
  \/ \E k \in DOMAIN dev.slave, clock \in Hosts \cup {"unknown"},
        cs \in {"h2", "gpio"} :
       (cs = "h2" => clock # "unknown") /\ Route(k, clock, cs)
  \/ \E v \in BOOLEAN : HwCs("h2", v)
  \/ \E v \in BOOLEAN : SetDc(v)
  \/ \E pin \in CsPins, fn \in {"none", "f", "g"} : AttachDevice(pin, fn)
  \/ Recreate
  \/ \E on \in BOOLEAN : TouchCs(on)
  \/ \E mosi \in {0, 1} : TouchClock(mosi)

SpiSpec == SpiInit /\ [][SpiNext]_dev

------------------------------------------------------------------------------
SpiTypeOK == /\ dev.sent \in 0 .. MaxWanted /\ dev.got \in 0 .. MaxWanted
             /\ Len(dev.bang.word) < CmdBits
             /\ dev.heard \in Slaves \cup {"nobody"}

(* The line is high exactly while an enabled event or an enabled completion  *)
(* is pending, through transactions, kicks by the driver, clears and resets. *)
IrqExact == dev.part = "dma" =>
  (dev.line <=> (dev.raw \cap dev.ena # {})
                \/ (dev.gen = "esp32" /\ dev.done /\ dev.inten))

(* What the DMA says of a transaction is what happened: a phase is reported  *)
(* total only when all its bytes moved, and a phase cut short is an error.   *)
TransferStep ==
  dev'.part = "dma" /\ dev'.gen = "esp32" /\ dev'.how # <<FALSE, FALSE>>
  /\ (dev.out \/ dev.in) /\ ~dev'.out /\ ~dev'.in /\ dev'.done /\ dev.raw = {}
  /\ dev'.raw # {} =>
    /\ dev'.how[1] => (("out_total" \in dev'.raw) = (dev'.sent = dev'.asked[1]))
    /\ dev'.how[1] /\ dev'.sent < dev'.asked[1] => "out_err" \in dev'.raw
    /\ dev'.how[2] => (("in_eof" \in dev'.raw) = (dev'.got = dev'.asked[2]))
    /\ dev'.how[2] /\ dev'.got < dev'.asked[2] => "in_err" \in dev'.raw
TransferHonest == [][TransferStep]_dev

(* A transaction touches only descriptors the DMA owns, hands each back, and *)
(* moves no more bytes than the ones it handed back hold.                    *)
OwnerStep ==
  dev.part = "dma" /\ dev'.out = FALSE /\ dev.out /\ dev'.tx # dev.tx =>
    /\ \A i \in Chain : dev'.tx[i] # dev.tx[i] =>
         dev.tx[i].own /\ ~dev'.tx[i].own
    /\ dev'.sent <= MapThenSumSet(LAMBDA i : dev.tx[i].len,
                                  {i \in Chain : dev'.tx[i] # dev.tx[i]})
OwnershipKept == [][OwnerStep]_dev

(* A slave hears a transaction only from a host its clock may come from, and *)
(* never because of an untouched pin; with its clock routed from the host    *)
(* and its driven chip select low, touch always hears it.                    *)
NotStolen ==
  dev.part = "select" =>
    /\ dev.heard # "nobody" =>
         LET s == dev.slave[dev.heard]
         IN /\ s.clock # Other(dev.by)
            /\ \/ s.cs = dev.by
               \/ s.cs = "gpio" /\ (s.driven \/ s.seen)
               \/ dev.heard = "display" /\ dev.dcseen[dev.by]
    /\ \A h \in Hosts : "touch" \in Slaves =>
         LET s == dev.slave["touch"]
         IN s.clock = h /\ s.cs = "gpio" /\ s.driven /\ ~s.level =>
              Hearer(Sampled(dev, h), h) = "touch"
              /\ Hearer(Sampled(dev, Other(h)), Other(h)) # "touch"

(* The table holds each chip select once, and exactly what the board asked   *)
(* for and there was room for, whatever was detached in between.             *)
TableMatchesBoard ==
  dev.part = "attach" =>
    /\ \A p \in CsPins : Cardinality({i \in 1 .. Slots :
         dev.table[i].fn # "none" /\ dev.table[i].pin = p}) <= 1
    /\ \A p \in CsPins : dev.board[p] # "none" =>
         \E i \in 1 .. Slots : dev.table[i] = [pin |-> p, fn |-> dev.board[p]]

(* The answer a bit-banging driver clocks out starts with its first bit and  *)
(* loses none, although the zeros it sends meanwhile are shifted in too.     *)
AnswerAligned ==
  dev.part = "bang" /\ dev.bang.left > 0 /\ dev.bang.left < AnsBits =>
    dev.bang.read = [i \in 1 .. (AnsBits - dev.bang.left) |-> i]

-----------------------------------------------------------------------------
(***************************************************************************)
(* The ILI9341 panel's command stream (src/src/spi_display.c, ili9341_feed): *)
(* a command byte selects what the data bytes after it mean; column and page *)
(* windows take four parameter bytes, RAMWR starts a stream of two-byte      *)
(* pixels that walk the window and wrap in it.  The stream may be cut into   *)
(* transactions anywhere, between the two bytes of a pixel too.              *)
(*                                                                         *)
(* Columns x Pages is the panel's memory in portrait (240 x 320); a window   *)
(* parameter is one byte per coordinate here.                                *)
(***************************************************************************)
CONSTANTS Columns, Pages,   \* panel memory, portrait
          Corners           \* coordinates a window may be given

(* MADCTL: MV swaps the axes, MX flips the columns.                        *)
Modes == [mv : BOOLEAN, mx : BOOLEAN]
ColumnMax(m) == IF m.mv THEN Pages ELSE Columns
PageMax(m) == IF m.mv THEN Columns ELSE Pages

(* Panel coordinates to framebuffer coordinates: the window on the host is   *)
(* landscape, Pages wide and Columns high.                                   *)
Place(m, x, y) ==
  CASE ~m.mv /\ ~m.mx -> <<(Pages - 1) - y, x>>
    [] m.mv /\ ~m.mx -> <<x, y>>
    [] ~m.mv /\ m.mx -> <<y, (Columns - 1) - x>>
    [] m.mv /\ m.mx -> <<(Pages - 1) - x, y>>

Frame == {<<x, y>> : x \in 0 .. (Pages - 1), y \in 0 .. (Columns - 1)}

LcdInit == dev = [cmd |-> "none", params |-> <<>>, mode |-> [mv |-> FALSE,
               mx |-> FALSE], xs |-> 0, xe |-> Columns - 1, ys |-> 0,
               ye |-> Pages - 1, cx |-> 0, cy |-> 0, phase |-> 0,
               \* history: pixels since RAMWR, modulo the window
               count |-> 0]

(* A command byte; RAMWR takes the cursor to the window's corner.  Outside a *)
(* stream the cursor is dead and kept at zero.                               *)
Command(d, c) ==
  LET e == [d EXCEPT !.cmd = c, !.params = <<>>]
  IN IF c = "ramwr"
     THEN [e EXCEPT !.cx = d.xs, !.cy = d.ys, !.phase = 0, !.count = 0]
     ELSE [e EXCEPT !.cx = 0, !.cy = 0, !.phase = 0, !.count = 0]

(* A parameter byte: a window takes effect with its last one.              *)
Param(d, b) ==
  LET n == Cardinality(DOMAIN d.params)
      p == IF n < 2 THEN [i \in 1 .. (n + 1) |-> IF i <= n THEN d.params[i]
                                                 ELSE b]
           ELSE d.params
      e == [d EXCEPT !.params = p]
  IN CASE d.cmd = "caset" /\ n = 1 -> [e EXCEPT !.xs = p[1], !.xe = p[2]]
       [] d.cmd = "paset" /\ n = 1 -> [e EXCEPT !.ys = p[1], !.ye = p[2]]
       [] OTHER -> e

Madctl(d, m) ==
  IF d.params = <<>> THEN [d EXCEPT !.mode = m, !.params = <<0>>] ELSE d

Width(d) == Max({1, Min({d.xe, ColumnMax(d.mode) - 1}) - d.xs + 1})
Height(d) == Max({1, Min({d.ye, PageMax(d.mode) - 1}) - d.ys + 1})

(* A pixel byte: the second one draws, and moves the cursor on.             *)
PixelByte(d) ==
  IF d.phase = 0 THEN [d EXCEPT !.phase = 1]
  ELSE LET x == d.cx + 1
           over == x > d.xe \/ x >= ColumnMax(d.mode)
           y == IF over THEN d.cy + 1 ELSE d.cy
       IN [d EXCEPT !.phase = 0,
             !.cx = IF over THEN d.xs ELSE x,
             !.cy = IF over /\ (y > d.ye \/ y >= PageMax(d.mode)) THEN d.ys
                    ELSE y,
             !.count = (@ + 1) % (Width(d) * Height(d))]

(* One byte of a transaction: the D/C line says command or data.           *)
FeedCommand == \E c \in {"caset", "paset", "madctl", "ramwr", "other"} :
                 dev' = Command(dev, c)
FeedData == CASE dev.cmd = "ramwr" -> dev' = PixelByte(dev)
              [] dev.cmd = "madctl" -> \E m \in Modes : dev' = Madctl(dev, m)
              [] OTHER -> \E b \in Corners : dev' = Param(dev, b)

LcdNext == FeedCommand \/ FeedData

LcdSpec == LcdInit /\ [][LcdNext]_dev

------------------------------------------------------------------------------
LcdTypeOK == /\ dev.mode \in Modes /\ dev.phase \in {0, 1}
             /\ {dev.xs, dev.xe, dev.ys, dev.ye} \subseteq Nat

(* Inside a window that lies on the panel the k-th pixel of a stream falls   *)
(* on the window's k-th cell, row by row, whatever MADCTL made of the axes   *)
(* and however the bytes were cut into transactions.                         *)
RowMajor ==
  dev.cmd = "ramwr" /\ dev.xs < ColumnMax(dev.mode) /\ dev.ys < PageMax(dev.mode)
  => /\ dev.cx = dev.xs + (dev.count % Width(dev))
     /\ dev.cy = dev.ys + ((dev.count \div Width(dev)) % Height(dev))

(* Whatever the orientation, every panel cell has a framebuffer cell of its  *)
(* own and none is left out (fb_write_pixel).                                *)
EveryCellShown ==
  LET cells == {<<x, y>> : x \in 0 .. (ColumnMax(dev.mode) - 1),
                           y \in 0 .. (PageMax(dev.mode) - 1)}
  IN {Place(dev.mode, c[1], c[2]) : c \in cells} = Frame
=============================================================================
