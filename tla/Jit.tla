-------------------------------- MODULE Jit ---------------------------------
(***************************************************************************)
(* Native code: what one translated block computes, and what keeps the     *)
(* translations true.                                                      *)
(* Each part stands alone: dev is the state of the one being explored.     *)
(***************************************************************************)
EXTENDS Naturals, Sequences, FiniteSets

VARIABLE dev

-----------------------------------------------------------------------------
(***************************************************************************)
(* One translated block of jit.c, run beside the interpreter it must be    *)
(* indistinguishable from.  The translator keeps some guest registers in   *)
(* host registers, loads them lazily, marks the ones it writes and stores  *)
(* them back only where the block is left; a block that is a whole loop    *)
(* body keeps them resident from one iteration to the next.  What is       *)
(* loaded and what is dirty is known at translation time, so both are      *)
(* functions of the program text before an instruction.                    *)
(*                                                                         *)
(* Values are small integers and every instruction that reads a register   *)
(* computes its result from the copy the engine really reads, so a stale   *)
(* copy shows.  ram[] is the register file both engines share between      *)
(* blocks; arch[] is what the interpreter has at the same instruction.     *)
(***************************************************************************)
CONSTANTS
    Regs,       \* guest registers a block names
    Link,       \* the one CALLn writes (a4, a8 or a12)
    Kinds,      \* instruction kinds of the blocks
    Length,     \* instructions in a block
    Modulus,    \* register values
    MaxCount    \* largest loop count

JitBlockAssumption ==
    /\ Link \in Regs /\ Regs \subseteq Nat
    /\ Length \in Nat \ {0} /\ Modulus \in Nat \ {0, 1} /\ MaxCount \in Nat
    /\ Kinds \subseteq {"add", "movi", "rsr", "div", "s32c1i", "movsp", "load",
                        "store", "ps", "lend", "branch", "call"}

Values == 0..(Modulus - 1)

Reads(i)  == IF i.k \in {"add", "div", "movsp", "branch", "store"} THEN {i.s}
             ELSE IF i.k = "s32c1i" THEN {i.d} ELSE {}
Writes(i) == IF i.k \in {"add", "movi", "rsr", "div", "s32c1i", "movsp", "load"}
             THEN {i.d} ELSE {}

\* The instructions a block is made of; an operand a kind has not is pinned.
Forms ==
    LET any == CHOOSE n \in Regs : TRUE
    IN  {i \in [k : Kinds, d : Regs, s : Regs] :
            /\ i.k \in {"movi", "rsr", "s32c1i", "load", "ps", "lend", "call"} => i.s = any
            /\ i.k \in {"branch", "store", "ps", "lend", "call"} => i.d = any}

\* classify_for_jit: a call ends a block.
Programs ==
    {p \in UNION {[1..n -> Forms] : n \in 1..Length} :
        \A j \in 1..(Len(p) - 1) : p[j].k # "call"}

\* jit_block_writes_loop_sr
WritesLoop(p) == \E j \in 1..Len(p) : p[j].k = "lend"

-----------------------------------------------------------------------------
(* The register allocator.  Any set of registers may win the slots.        *)

LoadedBefore(d, at) ==
    IF d.loop THEN d.alloc
    ELSE d.alloc \intersect UNION {Reads(d.prog[j]) \union Writes(d.prog[j]) : j \in 1..(at - 1)}

DirtyBefore(d, at) ==
    (d.alloc \intersect UNION {Writes(d.prog[j]) : j \in 1..(at - 1)})
        \ (IF at > Len(d.prog) /\ d.prog[Len(d.prog)].k = "call"
           THEN {Link} ELSE {})                 \* ra_invalidate

FinalDirty(d) == DirtyBefore(d, Len(d.prog) + 1)

\* ra_load_ar: the host register, loaded on the first use.
Fetch(d, n) ==
    IF n \in d.alloc /\ n \notin LoadedBefore(d, d.ip)
    THEN [d EXCEPT !.host[n] = d.ram[n]] ELSE d
Value(d, n) == IF n \in d.alloc THEN Fetch(d, n).host[n] ELSE d.ram[n]

\* ra_store_ar
Put(d, n, v) ==
    IF n \in d.alloc THEN [d EXCEPT !.host[n] = v] ELSE [d EXCEPT !.ram[n] = v]

\* ra_flush_mask
BlockFlush(d, mask) ==
    [d EXCEPT !.ram = [n \in Regs |-> IF n \in mask THEN d.host[n] ELSE d.ram[n]]]

-----------------------------------------------------------------------------
Fresh(prog, alloc, loop, regs, count, same) ==
    [prog  |-> prog,  alloc |-> alloc, loop |-> loop,
     ip    |-> 1,              \* the translated code is here
     ram   |-> regs,
     host  |-> [n \in Regs |-> IF loop /\ n \in alloc THEN regs[n] ELSE Modulus],
     acc   |-> 0,              \* jit_acc: finished passes
     told  |-> 0,              \* jit_time_accounted
     count |-> count, same |-> same,
     left  |-> "no",           \* how the block was left
     pc    |-> 1, charged |-> 0,
     arch  |-> regs, apc |-> 1, ran |-> 0,   \* the interpreter
     stored |-> <<0, 0>>,      \* value of the last store: native, interpreter
     seen   |-> <<0, 0>>]      \* guest time of the last device access

BlockInit ==
    \E p \in Programs, a \in SUBSET Regs, l \in BOOLEAN, r \in [Regs -> Values],
       c \in 0..MaxCount, s \in BOOLEAN :
        /\ ~l => c = 0 /\ s
        /\ l => p[Len(p)].k # "call"     \* the ISA ends no loop body with a call
        /\ dev = Fresh(p, a, l, r, c, s)

Insn == dev.prog[dev.ip]
Running(k) ==
    /\ dev.left = "no" /\ dev.ip <= Len(dev.prog)
    /\ dev.ip > 1 \/ dev.acc > 0 \/ dev.same \/ WritesLoop(dev.prog)
    /\ Insn.k = k

\* jit_pc_hook: what it charges when the block returns n instructions, those
\* already published to devices not twice.
Charge(d, n) ==
    LET before == n - 1
        told   == IF d.told > before THEN before ELSE d.told
    IN  IF n = 0 THEN 0 ELSE told + (before - told) + 1

\* Leave with these registers written back, at this instruction, n of this
\* pass done.
Leave(d, how, mask, pc, n) ==
    [BlockFlush(d, mask) EXCEPT !.left = how, !.pc = pc, !.charged = Charge(d, d.acc + n)]

\* The interpreter runs the instruction too.
Interp(d, i) ==
    LET a == d.arch
        v == CASE i.k \in {"add", "div"}      -> (a[i.s] + 1) % Modulus
               [] i.k = "movsp"               -> a[i.s]
               [] i.k \in {"movi", "load"}    -> 1
               [] i.k = "s32c1i"              -> (a[i.d] + 1) % Modulus
               [] i.k = "rsr"                 -> d.ran % Modulus
               [] OTHER                       -> 0
    IN  [d EXCEPT !.arch = [n \in Regs |-> IF n \in Writes(i) THEN v ELSE a[n]],
                  !.ran = @ + 1, !.apc = @ + 1]

BugCheckpointMask(d) == FinalDirty(d)

\* jit_add_irq_checkpoint: the registers the prefix wrote, or all of them in
\* a loop that keeps them resident.
CheckpointMask(d) == IF d.loop THEN FinalDirty(d) ELSE DirtyBefore(d, d.ip + 1)

Checkpoint(d, irq) ==
    IF irq THEN Leave(d, "irq", CheckpointMask(d), d.ip + 1, d.ip)
    ELSE [d EXCEPT !.ip = @ + 1]

-----------------------------------------------------------------------------
(* jit_compile_insn, by what an instruction does to the allocator.         *)

\* Straight-line results, in place or through a scratch register.
Plain ==
    LET i == Insn
        v == CASE i.k = "add"  -> (Value(dev, i.s) + 1) % Modulus
               [] i.k = "movi" -> 1
               [] i.k = "rsr"  -> (dev.told + dev.acc - dev.told + dev.ip - 1) % Modulus
        f == IF i.k = "add" THEN Fetch(dev, i.s) ELSE dev
    IN  /\ \E k \in {"add", "movi", "rsr"} : Running(k)
        /\ dev' = Checkpoint(Put(Interp(f, i), i.d, v), FALSE)

\* QUOU and its kind: a zero divisor leaves at this very instruction.
Divide ==
    LET i == Insn
        f == Fetch(dev, i.s)
        v == Value(dev, i.s)
    IN  /\ Running("div")
        /\ dev' = IF v = 0 THEN Leave(f, "inline", DirtyBefore(dev, dev.ip), dev.ip, dev.ip - 1)
                  ELSE Checkpoint(Put(Interp(f, i), i.d, (v + 1) % Modulus), FALSE)

\* S32C1I: a failed exchange may hand the core over right after it.
CompareExchange(handoff) ==
    LET i == Insn
        f == Fetch(dev, i.d)
        d == Put(Interp(f, i), i.d, (Value(dev, i.d) + 1) % Modulus)
    IN  /\ Running("s32c1i")
        /\ dev' = IF handoff
                  THEN Leave([d EXCEPT !.seen = <<dev.acc + dev.ip - 1, dev.ran>>],
                             "inline", DirtyBefore(dev, dev.ip + 1), dev.ip + 1, dev.ip)
                  ELSE Checkpoint([d EXCEPT !.seen = <<dev.acc + dev.ip - 1, dev.ran>>,
                                            !.told = dev.acc + dev.ip - 1], FALSE)

\* MOVSP: no live caller window, or the legacy mode, is the interpreter's.
Movsp(fallback) ==
    LET i == Insn
        f == Fetch(dev, i.s)
    IN  /\ Running("movsp")
        /\ dev' = IF fallback
                  THEN Leave(dev, "inline", DirtyBefore(dev, dev.ip), dev.ip, dev.ip - 1)
                  ELSE Checkpoint(Put(Interp(f, i), i.d, Value(dev, i.s)), FALSE)

\* jit_publish_guest_time, before a device sees the access.
Publish(d) ==
    LET prefix == d.acc + d.ip - 1
    IN  [d EXCEPT !.told = IF prefix > @ THEN prefix ELSE @, !.seen = <<prefix, d.ran>>]

\* Loads and stores: RAM hits stay native, anything else calls out and may
\* ask for an interrupt poll.
Access(slow, irq) ==
    LET i == Insn
        f == IF i.k = "store" THEN Fetch(dev, i.s) ELSE dev
        t == IF slow THEN Publish(f) ELSE f
        r == Interp(t, i)
        d == IF i.k = "load" THEN Put(r, i.d, 1)
             ELSE [r EXCEPT !.stored = <<Value(dev, i.s), dev.arch[i.s]>>]
    IN  /\ irq => slow
        /\ Running("load") \/ Running("store")
        /\ dev' = Checkpoint(d, irq)

\* WSR PS and RSIL: the poll is asked for when a source is pending.
WritePs(pending) ==
    /\ Running("ps")
    /\ dev' = Checkpoint(Interp(dev, Insn), pending)

\* WSR LEND or LBEG
WriteLoop ==
    /\ Running("lend")
    /\ dev' = Checkpoint([Interp(dev, Insn) EXCEPT !.same = FALSE], FALSE)

\* jit_add_side_exit: flushed where the branch is, or in its stub.
BranchMask(d) == IF d.loop THEN FinalDirty(d) ELSE DirtyBefore(d, d.ip)

Branch ==
    LET f == Fetch(dev, Insn.s)
        d == Interp(f, Insn)
        v == Value(dev, Insn.s)
    IN  /\ Running("branch")
        /\ dev' = IF v = 0
                  THEN Leave([d EXCEPT !.apc = 99], "side", BranchMask(dev), 99, dev.ip)
                  ELSE Checkpoint(IF dev.loop THEN d ELSE BlockFlush(d, BranchMask(dev)), FALSE)

\* CALLn: the link is stored past the allocator, which must forget its copy.
Call ==
    LET d == [Interp(dev, Insn) EXCEPT !.ram[Link] = 1, !.arch[Link] = 1, !.apc = 99]
    IN  /\ Running("call")
        /\ dev' = Leave(d, "end", FinalDirty(dev), 99, dev.ip)

-----------------------------------------------------------------------------
(* Ends of the block.                                                      *)

\* emit_loop_backedge_exit: the loop registers are compared again only where
\* the body can write them.
Loops(d) == d.count > 0 /\ (WritesLoop(d.prog) => d.same)

End ==
    LET n    == Len(dev.prog)
        back == dev.count > 0 /\ dev.same
        a    == [dev EXCEPT !.apc = IF back THEN 1 ELSE @]
    IN  /\ dev.left = "no" /\ dev.ip = n + 1
        /\ dev' = IF dev.loop /\ Loops(dev)
                  THEN [a EXCEPT !.ip = 1, !.count = @ - 1, !.acc = @ + n]
                  ELSE Leave(dev, "end", FinalDirty(dev), n + 1, n)

\* The chain horizon is reached at the head of an iteration.
Cap ==
    /\ dev.left = "no" /\ dev.loop /\ dev.ip = 1 /\ dev.acc > 0
    /\ dev' = Leave(dev, "end", FinalDirty(dev), 1, 0)

\* Entered under another loop than the one it was translated for.
Bail ==
    /\ dev.left = "no" /\ dev.loop /\ ~dev.same /\ ~WritesLoop(dev.prog)
    /\ dev.ip = 1 /\ dev.acc = 0
    /\ dev' = Leave(dev, "end", {}, 1, 0)

\* The dispatcher enters the block again, the loop set up anew.
Again ==
    /\ dev.left # "no"
    /\ dev' = Fresh(dev.prog, dev.alloc, dev.loop, dev.arch, IF dev.loop THEN MaxCount ELSE 0, TRUE)

BlockNext ==
    \/ Plain
    \/ Divide
    \/ \E b \in BOOLEAN : CompareExchange(b) \/ Movsp(b) \/ WritePs(b)
    \/ \E slow, irq \in BOOLEAN : Access(slow, irq)
    \/ WriteLoop
    \/ Branch
    \/ Call
    \/ End
    \/ Cap
    \/ Bail
    \/ Again

BlockSpec == BlockInit /\ [][BlockNext]_dev

-----------------------------------------------------------------------------
BlockTypeOK ==
    /\ dev.ip \in 1..(Len(dev.prog) + 1) /\ dev.alloc \subseteq Regs
    /\ dev.left \in {"no", "side", "irq", "inline", "end"}
    /\ dev.ram \in [Regs -> Values] /\ dev.arch \in [Regs -> Values]

LeftAsInterpreted ==
    dev.ram = dev.arch /\ dev.pc = dev.apc /\ dev.charged = dev.ran

\* What an inline exit of a loop that keeps its registers resident leaves behind
\* in host registers: what the body writes only from there on, once a pass has
\* written it.
LeftBehind ==
    IF dev.loop /\ dev.left = "inline" /\ dev.acc > 0
    THEN FinalDirty(dev) \ DirtyBefore(dev, dev.ip) ELSE {}

(* emit_block_exit_ra, emit_side_exit_body, the interrupt checkpoints and    *)
(* the inline exits: wherever a block is left, the program counter and the   *)
(* charged instructions are those of an interpreter that has run the same    *)
(* instructions, and so is every register but those an inline exit of a      *)
(* self-looping block leaves behind (see ResidentWrittenBack).               *)
ExitExact ==
    dev.left # "no" =>
       /\ dev.pc = dev.apc /\ dev.charged = dev.ran
       /\ \A n \in Regs \ LeftBehind : dev.ram[n] = dev.arch[n]

(* regalloc_t.defer_flush, jit.c: the exits of a looping block "cannot flush *)
(* the dirty set as it stands where the exit is written ... Their write-back *)
(* has to be deferred to a stub emitted after the body".  It does not hold   *)
(* of this code: QUOU, S32C1I and MOVSP leave inline with exactly that set.  *)
ResidentWrittenBack ==
    dev.left = "inline" /\ dev.loop => LeftAsInterpreted

(* jit_publish_guest_time and the memory emitters: a device access out of a  *)
(* native block happens at the guest time, and a store carries the value,    *)
(* that the interpreter would give it.                                       *)
EffectsExact == dev.seen[1] = dev.seen[2] /\ dev.stored[1] = dev.stored[2]

(* emit_loop_backedge_exit: the native code is at the instruction the        *)
(* interpreter is at, through every back-edge and rewritten loop register.   *)
InStep == dev.left = "no" => dev.ip = dev.apc

-----------------------------------------------------------------------------
(***************************************************************************)
(* Translated code and what keeps it true: the predecode table of the      *)
(* interpreter, the native blocks of the JIT with their set-associative    *)
(* directory, hot counters, chains and deferred flush, and the store       *)
(* diversion of memory.c that tells both about changed bytes.              *)
(*                                                                         *)
(* The guest is one small program.  Addresses are bytes; Code gives every  *)
(* instruction's length and kind: a straight instruction, a conditional    *)
(* branch, a jump, or the LOOP that sets up the zero-overhead loop between *)
(* Lbeg and Lend.  Bytes below PageEnd are RAM, the others flash.  Content *)
(* is abstracted to whether it still is what a translation was made from,  *)
(* so a store that changes bytes ages every translation that covers them.  *)
(***************************************************************************)
CONSTANTS
    Ways,         \* ways of the one set all block keys share
    Threshold,    \* dispatches that make a block hot
    MaxLoop,      \* bound: largest iteration count of LOOP
    MaxBlocks,    \* blocks the code cache has room for
    Stores,       \* bytes the guest's stores may change
    MaxChanges    \* bound: changes of code bytes or of flash

Code == [a \in {0, 3, 6, 8, 10, 13} |->
            CASE a = 0  -> [len |-> 3, kind |-> "straight", to |-> 0]
              [] a = 3  -> [len |-> 3, kind |-> "loop", to |-> 0]
              [] a = 6  -> [len |-> 2, kind |-> "branch", to |-> 13]
              [] a = 8  -> [len |-> 2, kind |-> "straight", to |-> 0]
              [] a = 10 -> [len |-> 3, kind |-> "jump", to |-> 0]
              [] a = 13 -> [len |-> 3, kind |-> "jump", to |-> 8]]
PCs == DOMAIN Code
Lbeg == 6
Lend == 10
PageEnd == 10
Ram == 0..(PageEnd - 1)
Flash == PageEnd..15
Bytes(a) == a..(a + Code[a].len - 1)
After(a) == a + Code[a].len

CodeCacheAssumption ==
    /\ Ways \in Nat \ {0} /\ Stores \subseteq Ram
    /\ MaxLoop \in Nat /\ MaxChanges \in Nat

None == [pc |-> 99, lv |-> 0, end |-> 0]
Free == [pc |-> 99, lv |-> 0, code |-> FALSE, count |-> 0, never |-> FALSE]

\* The loop variant of a key: whether a live loop holds the address.
LoopVariant(d, pc) ==
    IF d.lcount # 0 /\ pc >= Lbeg /\ Lend > pc THEN 1 ELSE 0

\* The end of the block scanned from pc: after a jump or the LOOP, at the page
\* boundary, and at LEND when the loop is live around it.
ScanEnd(d, pc) ==
    LET bounded == LoopVariant(d, pc) = 1
        stop(a) == \/ Code[a].kind \in {"jump", "loop"}
                   \/ After(a) >= PageEnd /\ a < PageEnd
                   \/ bounded /\ After(a) >= Lend
        scan[a \in PCs] ==
            IF stop(a) THEN After(a)
            ELSE IF After(a) \in PCs THEN scan[After(a)] ELSE After(a)
    IN  scan[pc]

Covers(b) == b.pc..(b.end - 1)

CacheInit ==
    \E table \in BOOLEAN :
        dev = [pc      |-> 0,
               lcount  |-> 0,
               table   |-> table,
               pre     |-> IF table THEN PCs ELSE {},
               preOld  |-> {},
               marks   |-> {},          \* bytes marked as translated
               divert  |-> IF table THEN {"ram"} ELSE {},
               ways    |-> [w \in 1..Ways |-> Free],
               blocks  |-> {},          \* native code in the cache
               old     |-> {},          \* blocks whose bytes have changed
               chains  |-> {},          \* patched jumps, from block to block
               pend    |-> {},          \* jumps waiting for their target
               full    |-> FALSE,
               running |-> None,
               pending |-> FALSE,       \* invalidate_pending
               limit   |-> TRUE,        \* jit_chain_limit leaves room
               stale   |-> {},          \* history: old bytes that ran again
               entered |-> "none",      \* history: how the block was reached
               overrun |-> {},          \* history: how a body ran past LEND
               changes |-> 0]

-----------------------------------------------------------------------------
(* The native cache.                                                       *)

\* jit_flush: nothing is dropped under a block that is still executing.
CacheFlush(d) ==
    IF d.running # None THEN [d EXCEPT !.pending = TRUE]
    ELSE [d EXCEPT !.ways = [w \in 1..Ways |-> Free], !.blocks = {},
                   !.old = {}, !.chains = {}, !.pend = {}, !.full = FALSE,
                   !.pending = FALSE, !.marks = {}]

Matches(e, pc, lv) == e.pc = pc /\ e.lv = lv

\* The way a new key takes: a free one, else an uncompiled one, else the
\* coldest.
Victim(d) ==
    LET occupied(w) == d.ways[w] # Free
        colder(v, w) == \/ ~d.ways[v].code /\ d.ways[w].code
                        \/ /\ d.ways[v].code = d.ways[w].code
                           /\ d.ways[v].count < d.ways[w].count
    IN  IF \E w \in 1..Ways : ~occupied(w)
        THEN CHOOSE w \in 1..Ways : ~occupied(w) /\ \A v \in 1..(w - 1) : occupied(v)
        ELSE CHOOSE w \in 1..Ways :
                 /\ \A v \in 1..Ways : ~colder(v, w)
                 /\ \A v \in 1..(w - 1) : colder(w, v)

GetOrCreate(d, pc) ==
    LET lv == LoopVariant(d, pc)
        at == {w \in 1..Ways : Matches(d.ways[w], pc, lv)}
    IN  IF at # {} THEN [d |-> d, way |-> CHOOSE w \in at : TRUE]
        ELSE LET w == Victim(d)
             IN  [d   |-> [d EXCEPT !.ways[w] = [Free EXCEPT !.pc = pc, !.lv = lv]],
                  way |-> w]

Unbounded(d, pc) == \E w \in 1..Ways : Matches(d.ways[w], pc, 0) /\ d.ways[w].code

\* The addresses a block can leave for.
Exits(b) ==
    LET ins == {a \in PCs : a \in Covers(b)}
    IN  {Code[a].to : a \in {x \in ins : Code[x].kind \in {"branch", "jump"}}}
        \union (IF \E a \in ins : After(a) = b.end /\ Code[a].kind = "jump"
                THEN {} ELSE {b.end})

\* A block that ends with the LOOP: its exit always goes to the dispatcher,
\* which sees the new loop registers.
SetsLoop(b) == \E a \in PCs \intersect Covers(b) : Code[a].kind = "loop"

\* jit_compile_now: the block, its marks, and its chains.  Only unbounded
\* blocks chain, and only to unbounded ones.
Compile(d, w) ==
    LET pc  == d.ways[w].pc
        lv  == d.ways[w].lv
        b   == [pc |-> pc, lv |-> lv, end |-> ScanEnd(d, pc)]
        out == IF lv # 0 \/ SetsLoop(b) THEN {} ELSE {<<b, t>> : t \in Exits(b) \intersect PCs}
        now == {<<b, t>> : t \in {x[2] : x \in out}} \ {x \in out : ~Unbounded(d, x[2])}
        in  == IF lv # 0 THEN {} ELSE {x \in d.pend \union out : x[2] = pc}
    IN  CASE d.full -> d
          [] ~d.full /\ b.end = pc -> [d EXCEPT !.ways[w].never = TRUE]
          [] ~d.full /\ b.end # pc /\ Cardinality(d.blocks \union {b}) > MaxBlocks ->
                [d EXCEPT !.full = TRUE]
          [] OTHER ->
                [d EXCEPT !.ways[w].code = TRUE,
                          !.blocks = @ \union {b},
                          !.old = @ \ {b},
                          !.marks = @ \union (Covers(b) \intersect Ram),
                          !.divert = IF pc \in Ram THEN {"ram"} ELSE @,
                          !.chains = @ \union now \union in,
                          !.pend = (@ \union out) \ (now \union in)]

\* jit_consider_block: a key that is not compiled is counted until it is hot.
Consider(d, w) ==
    LET e == d.ways[w]
        n == [d EXCEPT !.ways[w].count = IF @ < Threshold THEN @ + 1 ELSE @]
    IN  IF e.code \/ e.never THEN d
        ELSE IF n.ways[w].count < Threshold THEN n ELSE Compile(n, w)

GetBlock(d, pc) == LET g == GetOrCreate(d, pc) IN Consider(g.d, g.way)

-----------------------------------------------------------------------------
(* Entering and leaving native code.                                       *)

\* A block starts: the history keeps what it should not have run, and whether
\* it was the dispatcher that entered it.
StaleKind(d, b) ==
    CASE b.pc \in Ram -> "ram"
      [] d.running = None -> "flash"
      [] OTHER -> "flash_chained"

Begin(d, b, how) ==
    [d EXCEPT !.running = b,
              !.entered = how,
              !.stale = IF b \in d.old THEN @ \union {StaleKind(d, b)} ELSE @]

\* jit_pc_hook: the dispatcher finds, rejects, counts or enters a block.
Dispatch ==
    LET pc == dev.pc
        lv == LoopVariant(dev, pc)
        at == {w \in 1..Ways : Matches(dev.ways[w], pc, lv)}
        d  == IF \E w \in at : dev.ways[w].code THEN dev
              ELSE IF \E w \in at : dev.ways[w].never THEN dev
              ELSE GetBlock(dev, pc)
        ok == {b \in d.blocks :
                  /\ Matches(b, pc, lv)
                  /\ \E w \in 1..Ways : Matches(d.ways[w], pc, lv) /\ d.ways[w].code
                  /\ ~(dev.lcount # 0 /\ Lend > pc /\ Lend < b.end)}
    IN  /\ dev.running = None
        /\ IF ok = {} THEN dev' = d
           ELSE \E b \in ok : dev' = Begin([d EXCEPT !.limit = TRUE], b, "dispatch")

\* The block's exits and what they mean for the loop it may sit in.
LeavesTo(b, to) ==
    LET before  == {Code[a].to : a \in {x \in PCs : /\ x \in Covers(b) /\ x < Lend
                                                    /\ Code[x].kind = "branch"}}
        crossed == /\ dev.lcount # 0
                   /\ b.pc >= Lbeg /\ b.pc < Lend
                   /\ b.lv = 0
                   /\ to \notin before
    IN  [dev EXCEPT !.pc = to,
                    !.overrun = IF crossed THEN @ \union {dev.entered} ELSE @]

\* The zero-overhead back edge: only a fall-through onto LEND closes it.
BackEdge(d) ==
    IF d.pc = Lend /\ d.lcount > 0 THEN [d EXCEPT !.lcount = @ - 1, !.pc = Lbeg]
    ELSE d

\* A patched jump: the next block starts without the dispatcher, unless the
\* horizon was withdrawn.
Chain ==
    /\ dev.running # None
    /\ dev.limit
    /\ \E x \in dev.chains, b \in dev.blocks :
          /\ x[1] = dev.running
          /\ b.pc = x[2] /\ b.lv = 0
          /\ dev' = Begin(LeavesTo(dev.running, x[2]), b, "chain")

\* The block that starts at LBEG and ends at LEND loops on itself.
LoopNatively ==
    /\ dev.running # None
    /\ dev.limit
    /\ dev.running.lv = 1 /\ dev.running.pc = Lbeg /\ dev.running.end = Lend
    /\ dev.lcount > 0
    /\ dev' = Begin([dev EXCEPT !.lcount = @ - 1], dev.running, dev.entered)

\* The epilogue: pending invalidation first, then the back edge, then the
\* exit's own block is counted.
Return ==
    /\ dev.running # None
    /\ \E to \in Exits(dev.running), n \in 0..MaxLoop :
          LET left == LeavesTo(dev.running, to)
              out  == [left EXCEPT !.running = None, !.entered = "none",
                                   !.lcount = IF SetsLoop(dev.running) THEN n ELSE @]
              kept == IF dev.pending THEN CacheFlush(out) ELSE out
              back == IF dev.running.lv = 1 /\ dev.running.end = Lend /\ to = Lend
                      THEN BackEdge(kept) ELSE kept
          IN  to \in PCs /\ dev' = GetBlock(back, back.pc)

\* One interpreted instruction, from the table or from memory.
Interpret ==
    LET a    == dev.pc
        seen == [dev EXCEPT !.stale = IF a \in dev.pre /\ a \in dev.preOld
                                      THEN @ \union {"table"} ELSE @]
    IN  /\ dev.running = None
        /\ \/ /\ Code[a].kind \in {"straight", "branch"}
              /\ dev' = BackEdge([seen EXCEPT !.pc = After(a)])
           \/ /\ Code[a].kind \in {"branch", "jump"}
              /\ dev' = [seen EXCEPT !.pc = Code[a].to]
           \/ /\ Code[a].kind = "loop"
              /\ \E n \in 0..MaxLoop :
                    dev' = [seen EXCEPT !.pc = After(a), !.lcount = n]

-----------------------------------------------------------------------------
(* Changed bytes.                                                          *)

\* Every translation that covers the bytes no longer tells the truth.
Age(d, bytes) ==
    [d EXCEPT !.old = @ \union {b \in d.blocks : Covers(b) \intersect bytes # {}},
              !.preOld = {a \in PCs : \/ a \in d.preOld
                                      \/ Bytes(a) \intersect bytes # {}}
                         \intersect d.pre,
              !.changes = @ + 1]

BugCodeModified(d, byte) ==
    LET p == [d EXCEPT !.pre = @ \ {byte}, !.preOld = @ \ {byte}]
    IN  IF byte \in d.marks THEN [CacheFlush(p) EXCEPT !.limit = FALSE] ELSE p

\* xtensa_code_modified: the entries that may start up to two bytes earlier,
\* and for native code the flush and the horizon.
CodeModified(d, byte) ==
    LET dropped == {a \in PCs : a + 2 >= byte /\ a <= byte}
        p == [d EXCEPT !.pre = @ \ dropped, !.preOld = @ \ dropped]
    IN  IF byte \in d.marks THEN [CacheFlush(p) EXCEPT !.limit = FALSE] ELSE p

\* A store that changes a byte: a diverted page tells the watchers.
Store(byte) ==
    /\ dev.changes < MaxChanges
    /\ dev' = LET d == Age(dev, {byte})
              IN  IF "ram" \in dev.divert THEN CodeModified(d, byte) ELSE d

\* Flash programmed or remapped: both engines drop the range.
FlashChange ==
    /\ dev.changes < MaxChanges
    /\ dev' = LET d == Age(dev, Flash)
              IN  CacheFlush([d EXCEPT !.pre = @ \ Flash, !.preOld = @ \ Flash])

CacheNext ==
    \/ Dispatch
    \/ Chain
    \/ LoopNatively
    \/ Return
    \/ Interpret
    \/ \E byte \in Stores : Store(byte)
    \/ FlashChange

CacheSpec == CacheInit /\ [][CacheNext]_dev

-----------------------------------------------------------------------------
CacheTypeOK ==
    /\ dev.pc \in PCs
    /\ dev.lcount \in 0..MaxLoop
    /\ dev.pre \subseteq PCs
    /\ dev.old \subseteq dev.blocks
    /\ dev.marks \subseteq Ram

(* xtensa_code_modified: no block compiled from old bytes of RAM is entered *)
(* again, by the dispatcher, a chain or its own loop; the interpreter never *)
(* takes a predecoded instruction whose bytes have changed; and a block of  *)
(* flash that was reprogrammed or remapped is never entered by the          *)
(* dispatcher.  A chain or native loop that is running goes on through it.  *)
NoStaleTranslation == dev.stale \subseteq {"flash_chained"}

(* xtensa_invalidate_code, xtensa.h: no engine enters what was translated   *)
(* from bytes that have been replaced.  It does not hold of this code: for  *)
(* flash neither the chain horizon is withdrawn nor are the jumps undone    *)
(* until the chain returns (jit.c 4637-4642).                               *)
ChainsNotStale == dev.stale = {}

(* jit_flush is deferred while a block executes, and the dispatcher never   *)
(* finds an outdated block afterwards.                                      *)
FlushNotForgotten == dev.running = None => ~dev.pending /\ dev.old = {}

(* mem_code_protect: every byte of RAM a live block was compiled from is    *)
(* marked on a page whose stores are diverted.                              *)
BytesWatched ==
    \A b \in dev.blocks :
        Covers(b) \intersect Ram # {} =>
            Covers(b) \intersect Ram \subseteq dev.marks /\ "ram" \in dev.divert

(* jit_loop_variant: the dispatcher never lets a loop body run through      *)
(* LEND.                                                                    *)
BodyStaysInLoop == "dispatch" \notin dev.overrun

(* jit.c's key comment: "Giving each variant its own slot is what makes     *)
(* that safe".  A patched jump does not look at the loop registers, so a    *)
(* jump from outside the body into it enters the unbounded variant: this    *)
(* does not hold of the code.                                               *)
ChainStaysInLoop == dev.overrun = {}
=============================================================================
