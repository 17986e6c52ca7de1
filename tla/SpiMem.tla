------------------------------- MODULE SpiMem -------------------------------
(***************************************************************************)
(* The SPI-memory controllers in front of the NOR flash and the PSRAM       *)
(* (src/src/spi_mem.c).  Two hosts with registers of their own share one    *)
(* flash: its write-enable latch, its protection bits and its power state   *)
(* belong to the device, so a command of either host meets what the other   *)
(* left.  A host's registers are the inputs of the command that reads them. *)
(*                                                                         *)
(* A flash byte is one bit: it is in `data` (and in `insn`, the copy that   *)
(* instructions are fetched from) once it has been programmed to zero.      *)
(* Addresses are scaled: Page, Sector, Half, Block and Size stand for 256   *)
(* bytes, 4, 32 and 64 KiB and the chip; Row for the 1 KiB of a PSRAM row.  *)
(***************************************************************************)
EXTENDS Integers, Sequences, FiniteSets, FiniteSetsExt

CONSTANTS Page, Sector, Half, Block, Size, \* flash geometry
          Groups,                          \* values of BP2..0 that are used
          PsramSize, Row,                  \* PSRAM geometry
          Profiles,                        \* "gd25q32c" | "other"
          Layouts,                         \* "esp32" | "s3"
          Psrams,                          \* "none" | "quad" | "ap"
          MaxCells                         \* bound on programmed bytes

VARIABLE dev

vars == <<dev>>

Cells == 0 .. (Size - 1)
Bytes(from, n) == from .. (from + n - 1)

NoProtection == [group |-> 0, bottom |-> FALSE, small |-> FALSE, cmp |-> FALSE]
Protections == [group : Groups, bottom : BOOLEAN, small : BOOLEAN,
                cmp : BOOLEAN]

(* Opcodes: the wire bytes of the commands.                                *)
Op == [RDID |-> 159, RELEASE |-> 171, POWERDOWN |-> 185, WRSR |-> 1,
       WRSR2 |-> 49, WREN |-> 6, WRDI |-> 4, READ |-> 3, PROGRAM |-> 2,
       ERASE4K |-> 32, ERASE32K |-> 82, ERASE64K |-> 216,
       ERASECHIP |-> 199, RESETARM |-> 102, RESET |-> 153,
       ENTER4B |-> 183, EXIT4B |-> 233, QPI |-> 53, QPIEXIT |-> 245,
       BURST |-> 192, QUADWRITE |-> 56, MODEREAD |-> 16448,
       MODEWRITE |-> 49344, SYNCREAD |-> 0, LINREAD |-> 8224,
       SYNCWRITE |-> 32896, LINWRITE |-> 41120, GLOBALRESET |-> 65535]

ApReset == [mode |-> 5]        \* mr8: 32-byte burst, hybrid wrap
QuadReset == [qpi |-> FALSE, burst |-> FALSE, armed |-> FALSE]

------------------------------------------------------------------------------
(* Decoding a USR transaction: the opcode comes from the command phase, or  *)
(* from the first byte of the address phase after a short all-zero command, *)
(* or from the first non-zero byte of raw output data.  SPI_ADDR is four    *)
(* byte digits, the most significant first; ESP32 left-aligns the phase,    *)
(* S2/S3 right-align it.                                                    *)
Number(digits) == IF digits = <<>> THEN 0 ELSE digits[Len(digits)]
   \* the scaled chips have fewer than 256 bytes: one digit addresses them

AddressTail(digits, phase, consumed) ==
  SubSeq(digits, consumed + 1, phase)

CommandAddress(layout, digits, phase) ==
  IF layout = "s3" THEN SubSeq(digits, 5 - phase, 4)
  ELSE AddressTail(digits, phase, 0)

Invalid == [valid |-> FALSE, opcode |-> 0, bits |-> 0, address |-> 0,
            mosi |-> <<>>]

DecodeUser(layout, r) ==
  LET mosi == IF "mosi" \in r.user THEN r.data ELSE <<>>
      phase == IF "addr" \in r.user THEN r.phase ELSE 0
      ones == {i \in DOMAIN mosi : mosi[i] # 0}
      skip == IF ones = {} THEN Len(mosi) ELSE Min(ones)
  IN CASE "command" \in r.user /\ r.bits \in {8, 16} ->
            [valid |-> TRUE, opcode |-> r.opcode, bits |-> r.bits,
             address |-> Number(CommandAddress(layout, r.addr, phase)),
             mosi |-> mosi]
       [] "command" \in r.user /\ r.bits \notin {8, 16}
          /\ (r.opcode # 0 \/ phase < 1) -> Invalid
       [] ~("command" \in r.user
            /\ (r.bits \in {8, 16} \/ r.opcode # 0 \/ phase < 1))
          /\ phase >= 1 ->
            [valid |-> TRUE, opcode |-> r.addr[1], bits |-> 8,
             address |-> Number(AddressTail(r.addr, phase, 1)),
             mosi |-> mosi]
       [] OTHER -> IF ones = {} THEN Invalid
                   ELSE [valid |-> TRUE, opcode |-> mosi[skip], bits |-> 8,
                         address |-> 0,
                         mosi |-> SubSeq(mosi, skip + 1, Len(mosi))]

SelectedDevice(d, cs) ==
  LET psram == "psram" \in cs /\ d.kind # "none"
  IN CASE "flash" \in cs /\ psram -> "contention"
       [] "flash" \in cs /\ ~psram -> "flash"
       [] "flash" \notin cs /\ psram -> "psram"
       [] OTHER -> "none"

------------------------------------------------------------------------------
(* Which of the bytes [offset, offset + n) the status registers protect.   *)
BugWriteGate(d, offset, n) ==
  LET p == d.protect
      len == IF p.small THEN Sector * 2 ^ (p.group - 1)
             ELSE Block * 2 ^ (p.group - 1)
      start == IF p.group \in {0, 7} THEN 0
               ELSE IF p.bottom THEN 0 ELSE Size - len
      end == IF p.group \in {0, 7} THEN (IF p.group = 7 THEN Size ELSE 0)
             ELSE IF p.bottom THEN len ELSE Size
  IN IF d.profile # "gd25q32c"
     THEN IF p = NoProtection THEN "allowed" ELSE "unsupported"
     ELSE IF n > 0 /\ offset < end /\ start < offset + n
          THEN "protected" ELSE "allowed"

WriteGate(d, offset, n) ==
  LET p == d.protect
      len == IF p.small THEN Sector * 2 ^ (IF p.group > 4 THEN 3
                                            ELSE p.group - 1)
             ELSE Block * 2 ^ (p.group - 1)
      whole == (p.group = 0 /\ p.cmp) \/ (p.group = 7 /\ ~p.cmp)
      start == CASE p.group \in {0, 7} -> 0
                 [] p.group \notin {0, 7} /\ p.cmp ->
                      (IF p.bottom THEN len ELSE 0)
                 [] OTHER -> IF p.bottom THEN 0 ELSE Size - len
      end == CASE p.group \in {0, 7} -> (IF whole THEN Size ELSE 0)
               [] p.group \notin {0, 7} /\ p.cmp ->
                    (IF p.bottom THEN Size ELSE Size - len)
               [] OTHER -> IF p.bottom THEN len ELSE Size
  IN IF d.profile # "gd25q32c"
     THEN \* another device: no assumed protection map
          IF p.group = 0 /\ ~p.bottom /\ ~p.small /\ ~p.cmp
          THEN "allowed" ELSE "unsupported"
     ELSE IF n > 0 /\ offset < end /\ start < offset + n
          THEN "protected" ELSE "allowed"

(* The callback that drops decoded code and cached pages of a flash range;  *)
(* `stale` is history: bytes that changed and were never announced.        *)
FlashChanged(d, from, n) == [d EXCEPT !.stale = @ \ Bytes(from, n)]

Changed(d, data) ==
  [d EXCEPT !.stale = @ \cup (d.data \ data) \cup (data \ d.data),
            !.data = data, !.insn = data,
            \* history: a write that no write enable was spent on
            !.unpaid = @ \/ d.credit = 0, !.credit = 0]

(* Programming: bits only fall, and an address wraps within its page.      *)
Program(d, offset, src) ==
  LET page == offset - (offset % Page)
      at(i) == page + ((offset + i - 1) % Page)
      zeros == {at(i) : i \in {j \in DOMAIN src : src[j] = 0}}
      n == Len(src)
      first == Min({Page - (offset % Page), n})
      written == FlashChanged(Changed(d, d.data \cup zeros), offset, first)
  IN IF offset >= Size \/ n = 0 \/ WriteGate(d, page, Page) # "allowed" THEN d
     ELSE IF n > first THEN FlashChanged(written, page, n - first)
          ELSE written

Erase(d, offset, n) ==
  LET size == IF n > Size - offset THEN Size - offset ELSE n
  IN IF offset >= Size \/ WriteGate(d, offset, size) # "allowed" THEN d
     ELSE FlashChanged(Changed(d, d.data \ Bytes(offset, size)), offset, size)

Aligned(offset, n) == offset - (offset % n)

(* A write command: it needs the write-enable latch and spends it, unless   *)
(* the protection is one this profile does not model.  The gate is asked    *)
(* about the range the command would touch.                                 *)
WriteResult(d, op, offset) ==
  CASE op = "program" ->
         (IF offset >= Size THEN "allowed"
          ELSE WriteGate(d, Aligned(offset, Page), Page))
    [] op = "chip" -> WriteGate(d, 0, Size)
    [] OTHER -> LET n == CASE op = "4k" -> Sector [] op = "32k" -> Half
                           [] op = "64k" -> Block
                    from == Aligned(offset, n)
                IN IF from >= Size THEN "allowed"
                   ELSE WriteGate(d, from, Min({n, Size - from}))

WriteCommand(d, op, offset, src) ==
  LET done == CASE op = "program" -> Program(d, offset, src)
                [] op = "4k" -> Erase(d, Aligned(offset, Sector), Sector)
                [] op = "32k" -> Erase(d, Aligned(offset, Half), Half)
                [] op = "64k" -> Erase(d, Aligned(offset, Block), Block)
                [] op = "chip" -> Erase(d, 0, Size)
  IN IF ~d.wel THEN d
     ELSE IF WriteResult(d, op, offset) = "unsupported"
     THEN [d EXCEPT !.told = TRUE]
     ELSE [done EXCEPT !.wel = FALSE]

WriteEnable(d) == [d EXCEPT !.wel = TRUE, !.credit = 1]
WriteDisable(d) == [d EXCEPT !.wel = FALSE, !.credit = 0]
WriteStatus(d, p) ==
  IF d.wel THEN [d EXCEPT !.protect = p, !.wel = FALSE, !.credit = 0,
                  !.written = IF d.profile = "other" THEN @ ELSE p]
  ELSE d

(* Reset and power-up: the latch and the modes go, protection stays.       *)
NorClearVolatile(d) ==
  [d EXCEPT !.wel = FALSE, !.credit = 0, !.down = FALSE,
            !.armed = FALSE]

(* A USR command that reached the flash.  A powered-down chip hears only    *)
(* its release.  p is the status the output data carries for WRSR.          *)
ExecuteFlash(d, t, p) ==
  CASE t.bits # 8 -> [d EXCEPT !.told = TRUE]
    [] t.bits = 8 /\ d.down /\ t.opcode # Op.RELEASE -> d
    [] OTHER ->
       (CASE t.opcode \in {Op.RDID, Op.READ} -> d
         [] t.opcode = Op.RELEASE -> [d EXCEPT !.down = FALSE]
         [] t.opcode = Op.POWERDOWN -> [d EXCEPT !.down = TRUE]
         [] t.opcode = Op.WRSR ->  \* one byte leaves CMP as it is, two set it
            (IF t.mosi = <<>> THEN d
             ELSE WriteStatus(d, IF Len(t.mosi) >= 2 THEN p
                                 ELSE [p EXCEPT !.cmp = d.protect.cmp]))
         [] t.opcode = Op.WRSR2 ->
            (IF t.mosi = <<>> THEN d
             ELSE WriteStatus(d, [d.protect EXCEPT !.cmp = p.cmp]))
         [] t.opcode = Op.WREN -> WriteEnable(d)
         [] t.opcode = Op.WRDI -> WriteDisable(d)
         [] t.opcode = Op.PROGRAM -> WriteCommand(d, "program", t.address, t.mosi)
         [] t.opcode = Op.ERASE4K -> WriteCommand(d, "4k", t.address, <<>>)
         [] t.opcode = Op.ERASE32K -> WriteCommand(d, "32k", t.address, <<>>)
         [] t.opcode = Op.ERASE64K -> WriteCommand(d, "64k", t.address, <<>>)
         [] t.opcode = Op.ERASECHIP -> WriteCommand(d, "chip", 0, <<>>)
         [] t.opcode = Op.RESETARM -> [d EXCEPT !.armed = TRUE]
         [] t.opcode = Op.RESET -> (IF d.armed THEN NorClearVolatile(d) ELSE d)
         [] t.opcode \in {Op.ENTER4B, Op.EXIT4B} -> d  \* width of an address
         [] OTHER -> [d EXCEPT !.told = TRUE])

------------------------------------------------------------------------------
(* The octal PSRAM's burst: which array cell byte `i` of a transfer meets.  *)
BurstOf(mode) == IF mode % 4 = 3 THEN Row ELSE (Row \div 8) * 2 ^ (mode % 4)

ArrayAddress(mode, start, i, linear, read) ==
  LET row == start - (start % Row)
      column == start % Row
      burst == BurstOf(mode)
      base == column - (column % burst)
  IN IF linear THEN \* only reads cross a row, and only when MR8[3] allows it
                    (IF read /\ mode \div 8 = 1 THEN start + i
                     ELSE row + ((column + i) % Row))
     ELSE IF (mode \div 4) % 2 = 0 \/ i < burst
     THEN row + base + (((column % burst) + i) % burst)
     ELSE row + ((base + i) % Row)   \* hybrid: on to the end of the row

(* Array writes; contents are which cells hold the written value.          *)
PsramWrite(d, addresses) == [d EXCEPT !.pram = addresses]

ExecuteApPsram(d, t) ==
  LET cells(linear) == {ArrayAddress(d.psram.mode, t.address, i - 1,
                                     linear, FALSE) % PsramSize :
                        i \in DOMAIN t.mosi}
  IN CASE t.bits # 16 -> [d EXCEPT !.told = TRUE]
       [] t.bits = 16 /\ t.opcode \in {Op.SYNCREAD, Op.LINREAD} -> d
       [] t.bits = 16 /\ t.opcode = Op.MODEREAD ->
            (IF t.address > 4 /\ t.address # 8
             THEN [d EXCEPT !.told = TRUE] ELSE d)
       [] t.bits = 16 /\ t.opcode = Op.MODEWRITE ->
            (IF t.mosi = <<>> \/ t.address \notin {0, 4, 8}
             THEN [d EXCEPT !.told = TRUE]
             ELSE IF t.address = 8
             THEN [d EXCEPT !.psram.mode = t.mosi[1] % 16] ELSE d)
       [] t.bits = 16 /\ t.opcode = Op.SYNCWRITE -> PsramWrite(d, cells(FALSE))
       [] t.bits = 16 /\ t.opcode = Op.LINWRITE -> PsramWrite(d, cells(TRUE))
       [] t.bits = 16 /\ t.opcode = Op.GLOBALRESET -> [d EXCEPT !.psram = ApReset]
       [] OTHER -> [d EXCEPT !.told = TRUE]

ExecuteQuadPsram(d, t) ==
  LET q == d.psram
  IN CASE t.bits # 8 -> [d EXCEPT !.told = TRUE]
       [] t.bits = 8 /\ t.opcode \in {Op.RDID, Op.READ} -> d
       [] t.bits = 8 /\ t.opcode \in {Op.PROGRAM, Op.QUADWRITE} ->
            PsramWrite(d, {(t.address + i - 1) % PsramSize :
                           i \in DOMAIN t.mosi})
       [] t.bits = 8 /\ t.opcode = Op.QPI -> [d EXCEPT !.psram.qpi = TRUE]
       [] t.bits = 8 /\ t.opcode = Op.QPIEXIT -> [d EXCEPT !.psram.qpi = FALSE]
       [] t.bits = 8 /\ t.opcode = Op.RESETARM -> [d EXCEPT !.psram.armed = TRUE]
       [] t.bits = 8 /\ t.opcode = Op.RESET ->
            (IF q.armed THEN [d EXCEPT !.psram = QuadReset] ELSE d)
       [] t.bits = 8 /\ t.opcode = Op.BURST ->
            [d EXCEPT !.psram.burst = ~@]
       [] OTHER -> [d EXCEPT !.told = TRUE]

ExecuteUser(d, cs, r, p) ==
  LET t == DecodeUser(d.layout, r)
      who == SelectedDevice(d, cs)
  IN CASE who = "none" -> d    \* the clocks run, nobody listens
       [] who # "none" /\ (~t.valid \/ who = "contention") ->
            [d EXCEPT !.told = TRUE]
       [] who = "flash" /\ t.valid -> ExecuteFlash(d, t, p)
       [] who = "psram" /\ t.valid -> IF d.kind = "ap" THEN ExecuteApPsram(d, t)
                                      ELSE ExecuteQuadPsram(d, t)

(* The controller's own commands, any set of them in one write; they are    *)
(* carried out in this order and ask neither the chip select nor the power  *)
(* state.  On ESP32 the top address byte is the length of a page program.   *)
DedicatedOrder == <<"rdid", "rdsr", "wrdi", "wren", "wrsr", "read", "pp",
                    "se", "be", "ce", "res", "dp", "hpm">>

DedicatedStep(d, bit, offset, src, p) ==
  CASE bit \in {"rdid", "rdsr", "read", "hpm"} -> d
    [] bit = "wrdi" -> WriteDisable(d)
    [] bit = "wren" -> WriteEnable(d)
    [] bit = "wrsr" -> WriteStatus(d, p)
    [] bit = "pp" -> WriteCommand(d, "program", offset, src)
    [] bit = "se" -> WriteCommand(d, "4k", offset, <<>>)
    [] bit = "be" -> WriteCommand(d, "64k", offset, <<>>)
    [] bit = "ce" -> WriteCommand(d, "chip", 0, <<>>)
    [] bit = "res" -> [d EXCEPT !.down = FALSE]
    [] bit = "dp" -> [d EXCEPT !.down = TRUE]

ExecuteDedicated(d, bits, offset, src, p) ==
  LET after[i \in 0 .. Len(DedicatedOrder)] ==
        IF i = 0 THEN d
        ELSE LET before == after[i - 1]
             IN IF DedicatedOrder[i] \notin bits \/ before.told THEN before
                ELSE DedicatedStep(before, DedicatedOrder[i], offset, src, p)
  IN IF bits = {} THEN [d EXCEPT !.told = TRUE]
     ELSE after[Len(DedicatedOrder)]

------------------------------------------------------------------------------
(* What firmware puts in a host's registers before a USR command.          *)
Digits(layout, a) == IF layout = "s3" THEN <<0, 0, 0, a>> ELSE <<0, 0, a, 0>>

Plain(layout, op, a, data) ==
  [user |-> {"command", "addr", "mosi"}, bits |-> 8, opcode |-> op,
   phase |-> 3, addr |-> Digits(layout, a), data |-> data]
Octal(layout, op, a, data) == [Plain(layout, op, a, data) EXCEPT !.bits = 16]
InAddress(op, a, data) ==
  [user |-> {"command", "addr", "mosi"}, bits |-> 2, opcode |-> 0,
   phase |-> 4, addr |-> <<op, 0, 0, a>>, data |-> data]
InData(op) ==
  [user |-> {"mosi"}, bits |-> 8, opcode |-> 0, phase |-> 0,
   addr |-> <<0, 0, 0, 0>>, data |-> <<0, op>>]

Payloads == {<<0>>, <<1, 0>>}

FlashRequests(layout) ==
  {Plain(layout, op, 0, <<>>) :
     op \in {Op.RDID, Op.RELEASE, Op.POWERDOWN, Op.WREN, Op.WRDI, Op.RESETARM, Op.RESET, Op.ENTER4B,
             Op.EXIT4B, Op.ERASECHIP, 0}}
  \cup {Plain(layout, op, a, <<>>) :
          op \in {Op.ERASE4K, Op.ERASE32K, Op.ERASE64K}, a \in {1, Size}}
  \cup {Plain(layout, Op.PROGRAM, a, data) : a \in {0, Size - 1}, data \in Payloads}
  \cup {Plain(layout, op, 0, data) : op \in {Op.WRSR, Op.WRSR2},
                                     data \in {<<1>>, <<1, 1>>}}
  \cup {InAddress(Op.WREN, 0, <<>>)}

PsramRequests(d) ==
  IF d.kind = "ap"
  THEN {Octal(d.layout, Op.MODEWRITE, 8, <<m>>) : m \in 0 .. 15}
       \cup {Octal(d.layout, op, a, <<1, 1, 1>>) :
               op \in {Op.SYNCWRITE, Op.LINWRITE}, a \in 0 .. (PsramSize - 1)}
       \cup {Octal(d.layout, Op.MODEREAD, 5, <<>>),
             Octal(d.layout, Op.GLOBALRESET, 0, <<>>),
             Plain(d.layout, Op.RDID, 0, <<>>)}
  ELSE {InAddress(Op.QUADWRITE, a, <<1, 1>>) : a \in {0, PsramSize - 1}}
       \cup {InAddress(op, 0, <<>>) : op \in {Op.QPI, Op.RESETARM, Op.RESET, Op.BURST, 0}}
       \cup {InData(Op.QPIEXIT)}

------------------------------------------------------------------------------
Fresh(profile, layout, kind) ==
  [profile |-> profile, layout |-> layout, kind |-> kind,
   data |-> {}, insn |-> {}, protect |-> NoProtection, wel |-> FALSE,
   down |-> FALSE, armed |-> FALSE,
   psram |-> IF kind = "ap" THEN ApReset ELSE QuadReset, pram |-> {},
   told |-> FALSE, stale |-> {}, credit |-> 0, unpaid |-> FALSE,
   written |-> NoProtection]  \* history: the last accepted status write

Init == \E profile \in Profiles, layout \in Layouts, kind \in Psrams :
          /\ kind = "ap" => layout = "s3"
          /\ dev = Fresh(profile, layout, kind)

(* A command: the diagnostic flag tells of this command only.              *)
Begin == [dev EXCEPT !.told = FALSE]
Bounded == Cardinality(dev'.data) <= MaxCells

(* The two chips share no state: a behaviour without a PSRAM exercises the   *)
(* flash, one with a PSRAM the PSRAM and the chip selects.                   *)
UsrFlash ==
  /\ dev.kind = "none"
  /\ \E r \in FlashRequests(dev.layout), p \in Protections :
       /\ r.opcode \in {Op.WRSR, Op.WRSR2} \/ p = NoProtection
       /\ dev' = ExecuteUser(Begin, {"flash"}, r, p)

UsrPsram ==
  /\ dev.kind # "none"
  /\ \/ \E r \in PsramRequests(dev) :
          dev' = ExecuteUser(Begin, {"psram"}, r, NoProtection)
     \/ \E cs \in {{}, {"flash", "psram"}} :
          dev' = ExecuteUser(Begin, cs, Plain(dev.layout, Op.WREN, 0, <<>>),
                             NoProtection)

Dedicated ==
  /\ dev.kind = "none"
  /\ \E bits \in {{}, {"pp"}, {"wrsr"}}
                   \cup {{"wren", c} : c \in {"wrdi", "wrsr", "pp", "se", "be",
                                              "ce", "res", "dp", "rdid"}},
        a \in {Size - 1}, p \in Protections :
       /\ "wrsr" \in bits \/ p = NoProtection
       /\ dev' = ExecuteDedicated(Begin, bits, a, <<1, 0>>, p)

(* A reset of the SoC: the controllers are created again and the devices'   *)
(* state is restored; a power cycle takes the volatile part, and the PSRAM. *)
Restart(power) ==
  LET new == [Fresh(dev.profile, dev.layout, dev.kind) EXCEPT
                !.data = dev.data, !.insn = dev.insn, !.stale = dev.stale,
                !.unpaid = dev.unpaid, !.written = dev.written,
                !.pram = IF power THEN {} ELSE dev.pram,
                !.psram = IF power THEN @ ELSE dev.psram]
      restored == [new EXCEPT !.protect = dev.protect, !.wel = dev.wel,
                     !.down = dev.down,
                     !.armed = dev.armed, !.credit = dev.credit]
  IN dev' = CASE power /\ dev.profile # "gd25q32c" -> new
              [] power /\ dev.profile = "gd25q32c" -> NorClearVolatile(restored)
              [] OTHER -> restored

Next == \/ UsrFlash /\ Bounded
        \/ UsrPsram
        \/ Dedicated /\ Bounded
        \/ \E power \in BOOLEAN : Restart(power)

Spec == Init /\ [][Next]_vars

------------------------------------------------------------------------------
TypeOK ==
  /\ dev.data \in SUBSET Cells /\ dev.insn \in SUBSET Cells
  /\ dev.protect \in Protections
  /\ dev.pram \in SUBSET (0 .. (PsramSize - 1))
  /\ {dev.wel, dev.down, dev.armed, dev.told, dev.unpaid}
     \subseteq BOOLEAN

(* Every byte that a program or an erase changed has been announced to the   *)
(* translation and page caches, the part a page program wraps around to the  *)
(* start of its page included, and both copies of the flash agree            *)
(* (spi_mem_program, spi_mem_erase).                                        *)
ChangesNoted == dev.stale = {} /\ dev.data = dev.insn

(* One write enable pays for at most one program, erase or status write,    *)
(* whichever host and whichever command form carries them.                  *)
OnePerEnable == ~dev.unpaid

(* The bytes the datasheet's table protects: a top or bottom fraction,      *)
(* complemented by CMP.                                                     *)
Protected(d) ==
  LET p == d.protect
      len == IF p.small THEN Min({Sector * 2 ^ (p.group - 1), 8 * Sector})
             ELSE Block * 2 ^ (p.group - 1)
      chosen == CASE p.group = 0 -> {} [] p.group = 7 -> Cells
                  [] OTHER -> {c \in Cells : IF p.bottom THEN c < len
                                             ELSE c >= Size - len}
  IN IF d.profile # "gd25q32c" THEN (IF p = NoProtection THEN {} ELSE Cells)
     ELSE IF p.cmp THEN Cells \ chosen ELSE chosen

(* No command changes a byte the protection bits cover, and no program sets  *)
(* a bit, unless the same command word rewrote the bits first.              *)
ProtectStep ==
  LET changed == (dev.data \ dev'.data) \cup (dev'.data \ dev.data)
  IN dev'.protect = dev.protect => changed \cap Protected(dev) = {}
ProtectedKept == [][ProtectStep]_vars

(* The protection in force is that of the last status write the latch paid   *)
(* for: neither a reset command nor a restart, with or without power, loses  *)
(* it on the modelled chip (spi_mem_nor_clear_volatile,                      *)
(* flexe_spi_mem_nor_restore).                                               *)
ProtectionRetained ==
  dev.profile = "gd25q32c" => dev.protect = dev.written

(* A burst meets every cell of its window once before it meets one again,    *)
(* and a write never leaves its row (spi_mem_ap_array_address).              *)
BurstExact ==
  dev.kind = "ap" =>
    \A start \in 0 .. (PsramSize - 1), linear \in BOOLEAN :
      LET mode == dev.psram.mode
          window == IF linear \/ (mode \div 4) % 2 = 1 THEN Row
                    ELSE BurstOf(mode)
          met == {ArrayAddress(mode, start, i, linear, FALSE) :
                  i \in 0 .. (window - 1)}
      IN /\ Cardinality(met) = window
         /\ \A a \in met : a \div Row = start \div Row
=============================================================================
