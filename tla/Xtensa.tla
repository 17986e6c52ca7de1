------------------------------- MODULE Xtensa -------------------------------
(***************************************************************************)
(* The instructions of the processor: their decoders, and the arithmetic of *)
(* the two engines.                                                        *)
(* Each part stands alone: dev is the state of the one being explored.     *)
(***************************************************************************)
EXTENDS Integers, Sequences, Bitwise

VARIABLE dev

-----------------------------------------------------------------------------
(***************************************************************************)
(* The five decoders of one instruction set: the interpreter's step path   *)
(* (exec_* in xtensa.c), the cached dispatch that skips the step path      *)
(* (predecode_pack, xtensa_run_cached), the window operand table both use  *)
(* (window_operand_need), the JIT's classifier (classify_for_jit) and the  *)
(* disassembler (xtensa_disasm.c).  Each is the table of its own switch    *)
(* statements; the properties compare them.                                *)
(*                                                                         *)
(* An encoding is a record of its 4-bit fields; the m and n fields are the *)
(* halves of t.  Fields a decoder cannot distinguish range over Samples.   *)
(* An operation is its name; "none" does nothing.                          *)
(***************************************************************************)
CONSTANTS Samples      \* values of the fields that only name registers

XtensaIsaAssumption == Samples \subseteq 0..15 /\ Samples # {}

IsaFields == 0..15
FieldM(e) == e.t \div 4
FieldN(e) == e.t % 4
Sr(e) == 16 * e.r + e.s

Narrow(op0, r, s, t) == [len |-> 2, op0 |-> op0, op1 |-> 0, op2 |-> 0, r |-> r, s |-> s, t |-> t]
Wide(op0, op1, op2, r, s, t) ==
    [len |-> 3, op0 |-> op0, op1 |-> op1, op2 |-> op2, r |-> r, s |-> s, t |-> t]

\* Groups of encodings, each with the fields its decoders look at.
Encoded(P(_)) ==
    \/ \E o \in 8..15, r \in IsaFields, s \in Samples, t \in IsaFields : P(Narrow(o, r, s, t))
    \/ \E o \in {0, 4, 5, 6}, r \in IsaFields, s \in 0..6, t \in IsaFields : P(Wide(0, 0, o, r, s, t))
    \/ \E o \in 0..1, r \in IsaFields, s \in IsaFields, t \in Samples : P(Wide(0, 3, o, r, s, t))
    \/ \E r \in Samples, s \in Samples, t \in IsaFields : P(Wide(0, 10, 15, r, s, t))
    \/ \E o1 \in IsaFields, o2 \in IsaFields, r \in Samples, s \in Samples, t \in Samples :
          P(Wide(0, o1, o2, r, s, t))
    \/ \E o0 \in {1, 2, 3, 5, 6, 7}, o2 \in {0, 8}, r \in IsaFields, s \in Samples, t \in IsaFields :
          P(Wide(o0, 0, o2, r, s, t))
    \/ \E o1 \in {0, 3, 4, 12}, o2 \in IsaFields, r \in Samples, s \in Samples, t \in Samples :
          P(Wide(4, o1, o2, r, s, t))

-----------------------------------------------------------------------------
(* The interpreter.                                                        *)

\* xtensa_sync_encoding_valid
SyncValid(e) == e.s = 0 /\ e.t \in {0, 1, 2, 3, 8, 12, 13, 15}

\* exec_narrow
ExecNarrow(e) ==
    CASE e.op0 = 8 -> "l32i.n" [] e.op0 = 9 -> "s32i.n" [] e.op0 = 10 -> "add.n"
      [] e.op0 = 11 -> "addi.n"
      [] e.op0 = 12 -> IF e.t < 8 THEN "movi.n" ELSE IF e.t < 12 THEN "beqz.n" ELSE "bnez.n"
      [] e.op0 = 13 /\ e.r = 0 -> "mov.n"
      [] e.op0 = 13 /\ e.r = 15 /\ e.t \in {0, 1, 2, 3, 6} ->
            <<"ret.n", "retw.n", "break.n", "nop.n", "-", "-", "ill.n">>[e.t + 1]
      [] OTHER -> "none"

\* exec_qrst: the specials
ExecSt0(e) ==
    CASE e.r = 0 -> IF e.s = 0 /\ e.t = 0 THEN "ill"
                    ELSE IF FieldM(e) = 2 THEN <<"ret", "retw", "jx", "none">>[FieldN(e) + 1]
                    ELSE IF FieldM(e) = 3 THEN <<"callx0", "callx4", "callx8", "callx12">>[FieldN(e) + 1]
                    ELSE "none"
      [] e.r = 1 -> "movsp"
      [] e.r = 2 -> IF SyncValid(e) THEN "sync" ELSE "ill"
      [] e.r = 3 -> IF e.t = 0 /\ e.s \in {0, 4, 5}
                    THEN <<"rfe", "-", "-", "-", "rfwo", "rfwu">>[e.s + 1]
                    ELSE IF e.t = 1 /\ e.s \in 1..7 THEN "rfi" ELSE "none"
      [] e.r \in 4..11 -> <<"break", "syscall", "rsil", "waiti", "any4", "all4", "any8",
                            "all8">>[e.r - 3]
      [] OTHER -> "none"

ExecSt1(e) ==
    <<"ssr", "ssl", "ssa8l", "ssa8b", "ssai", "none", "rer", "wer", "rotw", "none", "none", "none",
      "none", "none", "nsa", "nsau">>[e.r + 1]

ExecRst0(e) ==
    CASE e.op2 = 0 -> ExecSt0(e)
      [] e.op2 = 4 -> ExecSt1(e)
      [] e.op2 = 6 -> IF e.s = 0 THEN "neg" ELSE IF e.s = 1 THEN "abs" ELSE "none"
      [] OTHER -> <<"-", "and", "or", "xor", "-", "none", "-", "none", "add", "addx2", "addx4",
                    "addx8", "sub", "subx2", "subx4", "subx8">>[e.op2 + 1]

\* exec_qrst_registers
ExecRst1(e) ==
    <<"slli", "slli", "srai", "srai", "srli", "none", "xsr", "none", "src", "srl", "sll", "sra",
      "mul16u", "mul16s", "none", "none">>[e.op2 + 1]
ExecRst2(e) ==
    <<"andb", "andbc", "orb", "orbc", "xorb", "none", "salt", "saltu", "mull", "none", "muluh",
      "mulsh", "quou", "quos", "remu", "rems">>[e.op2 + 1]
ExecRst3(e) ==
    <<"rsr", "wsr", "sext", "clamps", "min", "max", "minu", "maxu", "moveqz", "movnez", "movltz",
      "movgez", "movf", "movt", "rur", "wur">>[e.op2 + 1]

\* exec_fp0, exec_fp1
ExecFp0(e) ==
    IF e.op2 = 15
    THEN <<"mov.s", "abs.s", "none", "const.s", "rfr", "wfr", "neg.s", "div0.s", "recip0.s",
           "sqrt0.s", "rsqrt0.s", "nexp01.s", "mksadj.s", "mkdadj.s", "addexp.s",
           "addexpm.s">>[e.t + 1]
    ELSE <<"add.s", "sub.s", "mul.s", "none", "madd.s", "msub.s", "maddn.s", "divn.s", "round.s",
           "trunc.s", "floor.s", "ceil.s", "float.s", "ufloat.s", "utrunc.s">>[e.op2 + 1]
ExecFp1(e) ==
    <<"none", "un.s", "oeq.s", "ueq.s", "olt.s", "ult.s", "ole.s", "ule.s", "moveqz.s", "movnez.s",
      "movltz.s", "movgez.s", "movf.s", "movt.s", "none", "none">>[e.op2 + 1]

\* exec_qrst: indexed floating-point and window memory accesses
ExecIndexed(e) ==
    CASE e.op1 = 8 /\ e.op2 \in {0, 1, 4, 5} -> <<"lsx", "lsxp", "-", "-", "ssx", "ssxp">>[e.op2 + 1]
      [] e.op1 = 9 /\ e.op2 = 0 -> "l32e"
      [] e.op1 = 9 /\ e.op2 = 4 -> "s32e"
      [] OTHER -> "none"

ExecQrst(e) ==
    CASE e.op1 = 0 -> ExecRst0(e) [] e.op1 = 1 -> ExecRst1(e) [] e.op1 = 2 -> ExecRst2(e)
      [] e.op1 = 3 -> ExecRst3(e) [] e.op1 \in {4, 5} -> "extui"
      [] e.op1 = 10 -> ExecFp0(e) [] e.op1 = 11 -> ExecFp1(e)
      [] OTHER -> ExecIndexed(e)

\* exec_lsai; the cache operations do nothing
ExecLsai(e) ==
    <<"l8ui", "l16ui", "l32i", "none", "s8i", "s16i", "s32i", "none", "none", "l16si", "movi",
      "l32ai", "addi", "addmi", "s32c1i", "s32ri">>[e.r + 1]

\* xtensa_step_impl: LSCI
ExecLsci(e) ==
    CASE e.r = 0 -> "lsi" [] e.r = 4 -> "ssi" [] e.r = 8 -> "lsiu" [] e.r = 12 -> "ssiu"
      [] OTHER -> "none"

\* exec_mac16
ExecMac(e) ==
    CASE e.op2 = 4 /\ e.op1 < 4 -> "lddec"
      [] e.op2 = 5 /\ e.op1 < 4 -> "ldinc"
      [] e.op2 \in 8..11 -> IF e.op2 % 2 = 1 THEN "mac.da.ldinc" ELSE "mac.da.lddec"
      [] OTHER -> <<"mac.aa", "mac.ad", "-", "mac.dd">>[e.op2 \div 4 + 1]

\* exec_calln
ExecCall(e) == <<"call0", "call4", "call8", "call12">>[FieldN(e) + 1]

\* exec_si
ExecSi(e) ==
    CASE FieldN(e) = 0 -> "j"
      [] FieldN(e) = 1 -> <<"beqz", "bnez", "bltz", "bgez">>[FieldM(e) + 1]
      [] FieldN(e) = 2 -> <<"beqi", "bnei", "blti", "bgei">>[FieldM(e) + 1]
      [] FieldN(e) = 3 /\ FieldM(e) = 0 -> "entry"
      [] FieldN(e) = 3 /\ FieldM(e) = 1 -> (CASE e.r = 0 -> "bf" [] e.r = 1 -> "bt" [] e.r = 8 -> "loop"
                                       [] e.r = 9 -> "loopnez" [] e.r = 10 -> "loopgtz"
                                       [] OTHER -> "none")
      [] FieldN(e) = 3 /\ FieldM(e) = 2 -> "bltui"
      [] FieldN(e) = 3 /\ FieldM(e) = 3 -> "bgeui"

\* branch_taken
ExecB(e) ==
    <<"bnone", "beq", "blt", "bltu", "ball", "bbc", "bbci", "bbci", "bany", "bne", "bge", "bgeu",
      "bnall", "bbs", "bbsi", "bbsi">>[e.r + 1]

\* xtensa_step_impl: the dispatch
Execute(e) ==
    IF e.len = 2 THEN ExecNarrow(e)
    ELSE CASE e.op0 = 0 -> ExecQrst(e) [] e.op0 = 1 -> "l32r" [] e.op0 = 2 -> ExecLsai(e)
           [] e.op0 = 3 -> ExecLsci(e) [] e.op0 = 4 -> ExecMac(e) [] e.op0 = 5 -> ExecCall(e)
           [] e.op0 = 6 -> ExecSi(e) [] e.op0 = 7 -> ExecB(e)

\* The address registers an operation reads or writes, by ar_read and ar_write.
Operands(op) ==
    CASE op \in {"add.n", "and", "or", "xor", "add", "addx2", "addx4", "addx8", "sub", "subx2",
                 "subx4", "subx8", "src", "mul16u", "mul16s", "salt", "saltu", "mull", "muluh",
                 "mulsh", "quou", "quos", "remu", "rems", "min", "max", "minu", "maxu", "moveqz",
                 "movnez", "movltz", "movgez"} -> {"r", "s", "t"}
      [] op \in {"addi.n", "slli", "sll", "sext", "clamps", "movf", "movt"} -> {"r", "s"}
      [] op \in {"neg", "abs", "srai", "srli", "srl", "sra", "extui"} -> {"r", "t"}
      [] op \in {"l32i.n", "s32i.n", "mov.n", "movsp", "nsa", "nsau", "lsx", "lsxp", "ssx", "ssxp",
                 "l32e", "s32e", "l8ui", "l16ui", "l32i", "s8i", "s16i", "s32i", "l16si", "l32ai",
                 "addi", "addmi", "s32c1i", "s32ri", "mac.aa", "mac.da.lddec", "mac.da.ldinc",
                 "bnone", "beq", "blt", "bltu", "ball", "bbc", "bany", "bne", "bge", "bgeu",
                 "bnall", "bbs"} -> {"s", "t"}
      [] op \in {"rur", "round.s", "trunc.s", "floor.s", "ceil.s", "utrunc.s", "rfr"} -> {"r"}
      [] op \in {"movi.n", "beqz.n", "bnez.n", "jx", "ssr", "ssl", "ssa8l", "ssa8b", "float.s",
                 "ufloat.s", "wfr", "lsi", "ssi", "lsiu", "ssiu", "lddec", "ldinc", "mac.ad",
                 "beqz", "bnez", "bltz", "bgez", "beqi", "bnei", "blti", "bgei", "bltui", "bgeui",
                 "loop", "loopnez", "loopgtz", "bbci", "bbsi"} -> {"s"}
      [] op \in {"callx0", "callx4", "callx8", "callx12"} -> {"s", "link"}
      [] op \in {"call0", "call4", "call8", "call12"} -> {"link"}
      [] op = "entry" -> {"s", "callee"}
      [] op \in {"rsil", "rer", "xsr", "rsr", "wsr", "wur", "moveqz.s", "movnez.s", "movltz.s",
                 "movgez.s", "l32r"} -> {"t"}
      [] OTHER -> {}

\* The register a named operand is, when CALLINC is i.
Register(e, operand, i) ==
    CASE operand = "r" -> e.r [] operand = "s" -> e.s [] operand = "t" -> e.t
      [] operand = "link" -> 4 * FieldN(e) [] operand = "callee" -> 4 * i + (e.s % 4)

\* sr_read, sr_write: the special registers that exist, by number
SrRead == (0..5) \union {12, 16, 17} \union (32..35) \union {72, 73, 96, 97, 99, 128, 129, 144, 145,
          160, 161} \union (176..183) \union {192} \union (194..199) \union (208..215)
          \union {224, 226, 228} \union (230..238) \union (240..242) \union (244..247)
SrWrite == (SrRead \ {176, 208, 235}) \union {227}

-----------------------------------------------------------------------------
(* window_operand_need: the highest quarter of the window touched.         *)

Quarter(regs) == CHOOSE q \in 0..3 : /\ \E x \in regs : x \div 4 = q
                                     /\ \A x \in regs : x \div 4 <= q

NeedNarrow(e) ==
    CASE e.op0 \in {8, 9} -> {e.s, e.t} [] e.op0 = 10 -> {e.r, e.s, e.t}
      [] e.op0 = 11 -> {e.r, e.s} [] e.op0 = 12 -> {e.s}
      [] e.op0 = 13 /\ e.r = 0 -> {e.s, e.t}
      [] OTHER -> {0}

NeedRst0(e) ==
    CASE e.op2 = 0 /\ e.r = 0 /\ FieldM(e) = 2 /\ FieldN(e) = 2 -> {e.s}
      [] e.op2 = 0 /\ e.r = 0 /\ FieldM(e) = 3 -> {e.s, 4 * FieldN(e)}
      [] e.op2 = 0 /\ e.r = 1 -> {e.s, e.t}
      [] e.op2 = 0 /\ e.r = 6 -> {e.t}
      [] e.op2 \in 1..3 \/ e.op2 >= 8 -> {e.r, e.s, e.t}
      [] e.op2 = 4 /\ e.r <= 3 -> {e.s}
      [] e.op2 = 4 /\ e.r \in {6, 7, 14, 15} -> {e.s, e.t}
      [] e.op2 = 6 -> {e.r, e.t}
      [] OTHER -> {0}

NeedQrst(e) ==
    CASE e.op1 = 0 -> NeedRst0(e)
      [] e.op1 = 1 -> (CASE e.op2 \in {0, 1, 10} -> {e.r, e.s}
                         [] e.op2 \in {2, 3, 4, 9, 11} -> {e.r, e.t}
                         [] e.op2 = 6 -> {e.t}
                         [] e.op2 \in {8, 12, 13} -> {e.r, e.s, e.t}
                         [] OTHER -> {0})
      [] e.op1 = 2 -> IF e.op2 \in {6, 7, 8} \union 10..15 THEN {e.r, e.s, e.t} ELSE {0}
      [] e.op1 = 3 -> (CASE e.op2 \in {0, 1, 15} -> {e.t}
                         [] e.op2 \in {2, 3, 12, 13} -> {e.r, e.s}
                         [] e.op2 \in 4..11 -> {e.r, e.s, e.t}
                         [] e.op2 = 14 -> {e.r})
      [] e.op1 \in {4, 5} -> {e.r, e.t}
      [] e.op1 = 8 /\ e.op2 \in {0, 1, 4, 5} -> {e.s, e.t}
      [] e.op1 = 9 /\ e.op2 \in {0, 4} -> {e.s, e.t}
      [] e.op1 = 10 -> (CASE e.op2 \in {8, 9, 10, 11, 14} -> {e.r}
                          [] e.op2 \in {12, 13} -> {e.s}
                          [] e.op2 = 15 /\ e.t = 4 -> {e.r}
                          [] e.op2 = 15 /\ e.t = 5 -> {e.s}
                          [] OTHER -> {0})
      [] e.op1 = 11 /\ e.op2 \in 8..11 -> {e.t}
      [] OTHER -> {0}

\* LSAI: 9, L16SI, is not listed
LsaiAddressed == {0, 1, 2, 4, 5, 6, 11, 12, 13, 14, 15}

NeedSi(e, i) ==
    CASE FieldN(e) = 0 -> {0}
      [] FieldN(e) \in {1, 2} -> {e.s}
      [] FieldN(e) = 3 /\ FieldM(e) = 0 -> {e.s, 4 * i + (e.s % 4)}
      [] FieldN(e) = 3 /\ FieldM(e) = 1 -> IF e.r \in 8..10 THEN {e.s} ELSE {0}
      [] FieldN(e) = 3 /\ FieldM(e) >= 2 -> {e.s}

OperandNeed(e, i) ==
    Quarter(
        IF e.len = 2 THEN NeedNarrow(e)
        ELSE CASE e.op0 = 0 -> NeedQrst(e)
               [] e.op0 = 1 -> {e.t}
               [] e.op0 = 2 -> (CASE e.r = 10 -> {e.t} [] e.r \in LsaiAddressed -> {e.s, e.t}
                                  [] e.r = 7 -> {e.s} [] OTHER -> {0})
               [] e.op0 = 3 -> {e.s}
               [] e.op0 = 4 -> IF e.op2 \in 8..11 THEN {e.s, e.t}
                               ELSE <<{e.s, e.t}, {e.s}, {e.t}, {0}>>[e.op2 \div 4 + 1]
               [] e.op0 = 5 -> {4 * FieldN(e)}
               [] e.op0 = 6 -> NeedSi(e, i)
               [] e.op0 = 7 -> IF e.r \in {6, 7, 14, 15} THEN {e.s} ELSE {e.s, e.t})

-----------------------------------------------------------------------------
(* The cached dispatch.                                                    *)

\* predecode_pack: 24-bit register operations
KindQrst(e) ==
    CASE e.op1 = 0 /\ e.op2 >= 8 -> "add"
      [] e.op1 = 0 /\ e.op2 \in 1..3 -> "logic"
      [] e.op1 = 0 /\ e.op2 \in 4..7 -> "alu"
      [] e.op1 = 0 /\ e.op2 = 0 ->
            (CASE e.r = 6 -> "rsil"
               [] e.r = 2 /\ SyncValid(e) -> "nop"
               [] e.r \in 8..11 -> "alu"
               [] e.r = 0 /\ FieldM(e) = 2 /\ FieldN(e) = 0 -> "ret"
               [] e.r = 0 /\ FieldM(e) = 2 /\ FieldN(e) = 1 -> "retw"
               [] e.r = 0 /\ (FieldM(e) = 3 \/ (FieldM(e) = 2 /\ FieldN(e) = 2)) -> "jx_callx"
               [] OTHER -> "slow")
      [] e.op1 \in {4, 5} -> "extui"
      [] e.op1 = 10 -> "fp0"
      [] e.op1 = 11 -> "fp1"
      [] e.op1 = 8 /\ e.op2 \in {0, 1, 4, 5} -> "fp_memory"
      [] e.op1 = 9 /\ e.op2 \in {0, 4} -> "window_memory"
      [] e.op1 = 3 /\ e.op2 = 0 -> "rsr"
      [] e.op1 = 3 /\ e.op2 = 1 -> "wsr"
      [] (e.op1 = 1 /\ e.op2 # 6) \/ e.op1 = 2 \/ (e.op1 = 3 /\ e.op2 > 1) -> "alu"
      [] OTHER -> "slow"

\* predecode_pack
Predecode(e) ==
    IF e.len = 2
    THEN CASE e.op0 = 8 -> "load_n" [] e.op0 = 9 -> "store_n" [] e.op0 = 10 -> "add_n"
           [] e.op0 = 11 -> "addi_n" [] e.op0 = 12 -> IF e.t < 8 THEN "movi_n" ELSE "branch_n"
           [] e.op0 = 13 /\ e.r = 0 -> "mov_n"
           [] e.op0 = 13 /\ e.r = 15 /\ e.t = 0 -> "ret"
           [] e.op0 = 13 /\ e.r = 15 /\ e.t = 1 -> "retw"
           [] e.op0 = 13 /\ e.r = 15 /\ e.t = 3 -> "nop"
           [] OTHER -> "slow"
    ELSE CASE e.op0 = 0 -> KindQrst(e)
           [] e.op0 = 1 -> "load"
           [] e.op0 = 2 -> (CASE e.r \in {0, 1, 2, 9, 11} -> "load" [] e.r \in {4, 5, 6, 15} -> "store"
                              [] e.r = 10 -> "movi" [] e.r \in {12, 13} -> "addi" [] e.r = 7 -> "nop"
                              [] OTHER -> "slow")
           [] e.op0 = 3 -> "fp_memory"
           [] e.op0 = 5 -> "call"
           [] e.op0 = 6 -> IF FieldN(e) = 3 /\ FieldM(e) = 0 THEN "entry" ELSE "branch_si"
           [] e.op0 = 7 -> "branch"
           [] OTHER -> "slow"

\* The context the guards of the cached path look at.
Contexts == [pending : BOOLEAN,    \* an enabled interrupt waits
             enables : BOOLEAN,    \* the value written to INTENABLE enables a pending one
             real : BOOLEAN,       \* the guest's window vectors are in use
             zero : BOOLEAN,       \* the divisor is zero
             live : BOOLEAN]       \* the caller's window is still in registers

TimerSr == {234, 240, 241, 242, 226}

\* exec_cached_qrst: WSR
CachedWsr(e, c) ==
    IF Sr(e) \in TimerSr \/ (Sr(e) = 230 /\ c.pending) \/ (Sr(e) = 228 /\ c.enables)
    THEN "slow" ELSE "wsr"

\* exec_cached_qrst: what it runs, or "slow" when it declines
CachedAlu(e, c) ==
    CASE e.op1 = 0 /\ e.op2 = 0 -> IF e.r \in 8..11 THEN ExecSt0(e) ELSE "slow"
      [] e.op1 = 0 /\ e.op2 = 4 -> IF e.r = 8 /\ ~c.real THEN "slow" ELSE ExecSt1(e)
      [] e.op1 = 0 /\ e.op2 = 6 -> IF e.s = 0 THEN "neg" ELSE IF e.s = 1 THEN "abs" ELSE "none"
      [] e.op1 = 0 /\ e.op2 \in {5, 7} -> "none"
      [] e.op1 = 1 -> ExecRst1(e)
      [] e.op1 = 2 -> IF e.op2 >= 12 /\ c.zero THEN "slow" ELSE ExecRst2(e)
      [] e.op1 = 3 -> ExecRst3(e)

\* xtensa_run_cached: branches, jumps and loops
CachedBranchSi(e) ==
    CASE FieldN(e) = 0 -> "j"
      [] FieldN(e) = 1 -> <<"beqz", "bnez", "bltz", "bgez">>[FieldM(e) + 1]
      [] FieldN(e) = 2 -> <<"beqi", "bnei", "blti", "bgei">>[FieldM(e) + 1]
      [] FieldN(e) = 3 /\ FieldM(e) >= 2 -> IF FieldM(e) = 2 THEN "bltui" ELSE "bgeui"
      [] FieldN(e) = 3 /\ FieldM(e) = 1 /\ e.r <= 1 -> IF e.r = 0 THEN "bf" ELSE "bt"
      [] FieldN(e) = 3 /\ FieldM(e) = 1 /\ e.r \in 8..10 -> <<"loop", "loopnez", "loopgtz">>[e.r - 7]
      [] OTHER -> "slow"

\* xtensa_run_cached: memory accesses, by width, direction and base update
CachedMemory(e, kind) ==
    CASE kind \in {"load", "store"} /\ e.op0 = 1 -> "l32r"
      [] kind = "load" /\ e.op0 = 2 ->
            (CASE e.r = 0 -> "l8ui" [] e.r = 1 -> "l16ui" [] e.r = 9 -> "l16si"
               [] e.r = 2 -> "l32i" [] OTHER -> "l32ai")
      [] kind = "store" -> (CASE e.r = 4 -> "s8i" [] e.r = 5 -> "s16i" [] e.r = 6 -> "s32i"
                              [] OTHER -> "s32ri")
      [] kind = "window_memory" -> IF e.op2 = 4 THEN "s32e" ELSE "l32e"
      [] kind = "fp_memory" /\ e.op0 = 0 ->
            IF e.op2 >= 4 THEN (IF e.op2 % 2 = 1 THEN "ssxp" ELSE "ssx")
            ELSE (IF e.op2 % 2 = 1 THEN "lsxp" ELSE "lsx")
      [] kind = "fp_memory" /\ e.op0 # 0 ->
            (CASE e.r = 0 -> "lsi" [] e.r = 4 -> "ssi" [] e.r = 8 -> "lsiu" [] e.r = 12 -> "ssiu"
               [] OTHER -> "slow")

\* xtensa_run_cached: the dispatch on the cached kind
Cached(e, kind, c) ==
    CASE kind = "load_n" -> "l32i.n" [] kind = "store_n" -> "s32i.n" [] kind = "add_n" -> "add.n"
      [] kind = "addi_n" -> "addi.n" [] kind = "movi_n" -> "movi.n" [] kind = "mov_n" -> "mov.n"
      [] kind = "branch_n" -> IF e.t < 12 THEN "beqz.n" ELSE "bnez.n"
      [] kind = "ret" -> IF e.len = 2 THEN "ret.n" ELSE "ret"
      [] kind = "retw" -> IF ~c.live THEN "slow" ELSE IF e.len = 2 THEN "retw.n" ELSE "retw"
      [] kind = "entry" -> IF c.real THEN "entry" ELSE "slow"
      [] kind = "add" -> <<"add", "addx2", "addx4", "addx8", "sub", "subx2", "subx4",
                           "subx8">>[e.op2 - 7]
      [] kind = "logic" -> <<"and", "or", "xor">>[e.op2]
      [] kind = "extui" -> "extui"
      [] kind = "fp0" -> ExecFp0(e)
      [] kind = "fp1" -> ExecFp1(e)
      [] kind = "alu" -> CachedAlu(e, c)
      [] kind = "rsr" -> "rsr"
      [] kind = "wsr" -> CachedWsr(e, c)
      [] kind = "rsil" -> IF c.pending THEN "slow" ELSE "rsil"
      [] kind = "movi" -> "movi"
      [] kind = "addi" -> IF e.r = 13 THEN "addmi" ELSE "addi"
      [] kind \in {"load", "store", "window_memory", "fp_memory"} -> CachedMemory(e, kind)
      [] kind = "call" -> <<"call0", "call4", "call8", "call12">>[FieldN(e) + 1]
      [] kind = "jx_callx" -> IF FieldM(e) = 3 THEN <<"callx0", "callx4", "callx8", "callx12">>[FieldN(e) + 1]
                              ELSE "jx"
      [] kind = "branch_si" -> CachedBranchSi(e)
      [] kind = "branch" -> ExecB(e)
      [] kind = "nop" -> IF e.len = 2 THEN "nop.n" ELSE IF e.op0 = 0 THEN "sync" ELSE "none"
      [] kind = "slow" -> "slow"

-----------------------------------------------------------------------------
(* The JIT's classifier: 0 straight-line, 1 ends the block, 2 left to the  *)
(* interpreter, 3 conditional branch.                                      *)

\* jit_plain_sr
PlainSr == (0..5) \union {12, 16, 17} \union (32..35) \union (177..183) \union (194..199)
           \union (209..215) \union (244..247)

ClassifyNarrow(e) ==
    CASE e.op0 \in 8..11 -> 0
      [] e.op0 = 12 -> IF e.t < 8 THEN 0 ELSE 3
      [] e.op0 = 13 /\ e.r = 0 -> 0
      [] e.op0 = 13 /\ e.r = 15 -> (CASE e.t \in {0, 1} -> 1 [] e.t = 3 -> 0 [] OTHER -> 2)
      [] OTHER -> 2

ClassifySt0(e) ==
    CASE e.r = 0 -> IF FieldM(e) = 3 \/ (FieldM(e) = 2 /\ FieldN(e) < 3) THEN 1 ELSE 2
      [] e.r = 2 -> IF SyncValid(e) THEN 0 ELSE 2
      [] e.r = 3 -> IF e.t = 0 /\ e.s \in {4, 5} THEN 1 ELSE 2
      [] e.r \in {4, 5, 7} -> 2
      [] OTHER -> 0

ClassifyQrst(e) ==
    CASE e.op1 = 0 /\ e.op2 = 0 -> ClassifySt0(e)
      [] e.op1 = 0 /\ e.op2 = 4 -> (CASE e.r \in (0..4) \union {14, 15} -> 0 [] e.r = 8 -> 1
                                      [] OTHER -> 2)
      [] e.op1 = 0 /\ e.op2 \notin {0, 4} -> IF e.op2 \in {5, 7} THEN 2 ELSE 0
      [] e.op1 = 1 -> IF e.op2 \in {5, 6, 7, 14, 15} THEN 2 ELSE 0
      [] e.op1 = 2 -> IF e.op2 \in {6, 7, 8} \union 10..15 THEN 0 ELSE 2
      [] e.op1 = 3 -> IF e.op2 # 1 \/ Sr(e) \in PlainSr \union {230} THEN 0
                      ELSE IF Sr(e) \in {72, 73} THEN 1 ELSE 2
      [] e.op1 \in {4, 5} -> 0
      [] e.op1 = 9 -> IF e.op2 \in {0, 4} THEN 0 ELSE 2
      [] OTHER -> 2

ClassifySi(e) ==
    CASE FieldN(e) = 0 -> 1
      [] FieldN(e) \in {1, 2} -> 3
      [] FieldN(e) = 3 /\ FieldM(e) = 0 -> 1
      [] FieldN(e) = 3 /\ FieldM(e) = 1 -> (CASE e.r \in {0, 1} -> 3 [] e.r \in 8..10 -> 1 [] OTHER -> 2)
      [] FieldN(e) = 3 /\ FieldM(e) >= 2 -> 3

\* classify_for_jit
Classify(e) ==
    IF e.len = 2 THEN ClassifyNarrow(e)
    ELSE CASE e.op0 = 0 -> ClassifyQrst(e)
           [] e.op0 = 1 -> 0
           [] e.op0 = 2 -> IF e.r \in {3, 8} THEN 2 ELSE 0
           [] e.op0 = 5 -> 1
           [] e.op0 = 6 -> ClassifySi(e)
           [] e.op0 = 7 -> 3
           [] OTHER -> 2

-----------------------------------------------------------------------------
(* The disassembler: a name and the address registers it prints; "?" when  *)
(* it prints question marks, or a group with no operation of its own.      *)

\* sr_name
SrNamed == SrRead \union {83, 90, 91, 92, 104, 227}

DisSt0(e) ==
    CASE e.r = 0 -> (CASE FieldM(e) = 0 /\ FieldN(e) = 0 -> IF e.s = 0 THEN "ill" ELSE "?"
                       [] FieldM(e) = 2 -> <<"ret", "retw", "jx", "?">>[FieldN(e) + 1]
                       [] FieldM(e) = 3 -> <<"callx0", "callx4", "callx8", "callx12">>[FieldN(e) + 1]
                       [] OTHER -> "?")
      [] e.r = 1 -> "movsp"
      [] e.r = 2 -> IF e.s = 0 /\ e.t \in {0, 1, 2, 3, 8, 12, 13, 15} THEN "sync" ELSE "?"
      [] e.r = 3 -> (CASE e.t = 0 /\ e.s \in 0..5 -> <<"rfe", "rfue", "rfde", "?", "rfwo", "rfwu">>[e.s + 1]
                       [] e.t = 1 -> "rfi"
                       [] e.t = 2 /\ e.s \in 0..1 -> <<"rfme", "clrex">>[e.s + 1]
                       [] OTHER -> "?")
      [] e.r = 4 -> "break"
      [] e.r = 5 -> IF e.t = 0 /\ e.s \in 0..1 THEN <<"syscall", "simcall">>[e.s + 1] ELSE "?"
      [] e.r = 6 -> "rsil"
      [] e.r = 7 -> IF e.t = 0 THEN "waiti" ELSE "?"
      [] e.r \in 8..11 -> <<"any4", "all4", "any8", "all8">>[e.r - 7]
      [] OTHER -> "?"

DisRst0(e) ==
    CASE e.op2 = 0 -> DisSt0(e)
      [] e.op2 = 4 -> (CASE e.r \in 0..3 -> IF e.t = 0 THEN <<"ssr", "ssl", "ssa8l", "ssa8b">>[e.r + 1] ELSE "?"
                         [] e.r \in {4, 6, 7, 8} -> <<"ssai", "-", "rer", "wer", "rotw">>[e.r - 3]
                         [] e.r \in {14, 15} -> <<"nsa", "nsau">>[e.r - 13]
                         [] OTHER -> "?")
      [] e.op2 = 5 -> IF e.r \in (3..7) \union (11..15) THEN "tlb" ELSE "?"
      [] e.op2 = 6 -> IF e.s = 0 THEN "neg" ELSE IF e.s = 1 THEN "abs" ELSE "?"
      [] e.op2 = 7 -> "?"
      [] OTHER -> <<"-", "and", "or", "xor", "-", "-", "-", "-", "add", "addx2", "addx4", "addx8",
                    "sub", "subx2", "subx4", "subx8">>[e.op2 + 1]

DisRst(e) ==
    CASE e.op1 = 1 ->
            IF (e.op2 \in {9, 11} /\ e.s # 0) \/ (e.op2 = 10 /\ e.t # 0) THEN "?"
            ELSE <<"slli", "slli", "srai", "srai", "srli", "?", "xsr", "?", "src", "srl", "sll",
                   "sra", "mul16u", "mul16s", "?", "?">>[e.op2 + 1]
      [] e.op1 = 2 ->
            <<"andb", "andbc", "orb", "orbc", "xorb", "?", "salt", "saltu", "mull", "?", "muluh",
              "mulsh", "quou", "quos", "remu", "rems">>[e.op2 + 1]
      [] e.op1 = 3 ->
            <<"rsr", "wsr", "sext", "clamps", "min", "max", "minu", "maxu", "moveqz", "movnez",
              "movltz", "movgez", "movf", "movt", "rur", "wur">>[e.op2 + 1]

DisFp(e) ==
    CASE e.op1 = 8 -> IF e.op2 \in {0, 1, 4, 5} THEN <<"lsx", "lsxp", "-", "-", "ssx", "ssxp">>[e.op2 + 1]
                      ELSE "?"
      [] e.op1 = 9 -> IF e.op2 = 0 THEN "l32e" ELSE IF e.op2 = 4 THEN "s32e" ELSE "?"
      [] e.op1 = 10 /\ e.op2 # 15 ->
            <<"add.s", "sub.s", "mul.s", "?", "madd.s", "msub.s", "maddn.s", "divn.s", "round.s",
              "trunc.s", "floor.s", "ceil.s", "float.s", "ufloat.s", "utrunc.s">>[e.op2 + 1]
      [] e.op1 = 10 /\ e.op2 = 15 ->
            <<"mov.s", "abs.s", "?", "const.s", "rfr", "wfr", "neg.s", "div0.s", "recip0.s",
              "sqrt0.s", "rsqrt0.s", "nexp01.s", "mksadj.s", "mkdadj.s", "addexp.s",
              "addexpm.s">>[e.t + 1]
      [] e.op1 = 11 ->
            <<"?", "un.s", "oeq.s", "ueq.s", "olt.s", "ult.s", "ole.s", "ule.s", "moveqz.s",
              "movnez.s", "movltz.s", "movgez.s", "movf.s", "movt.s", "?", "?">>[e.op2 + 1]

\* disasm_qrst
DisQrst(e) ==
    CASE e.op1 = 0 -> DisRst0(e) [] e.op1 \in 1..3 -> DisRst(e) [] e.op1 \in {4, 5} -> "extui"
      [] e.op1 \in 8..11 -> DisFp(e) [] OTHER -> "?"

\* disasm_lsai
DisLsai(e) ==
    IF e.r = 7 THEN (IF e.t \in (0..7) \union {12, 14, 15} THEN "cache" ELSE "?")
    ELSE <<"l8ui", "l16ui", "l32i", "?", "s8i", "s16i", "s32i", "-", "?", "l16si", "movi", "l32ai",
           "addi", "addmi", "s32c1i", "s32ri">>[e.r + 1]

\* disasm_calln
DisCall(e) == <<"call0", "call4", "call8", "call12">>[FieldN(e) + 1]

\* disasm_si
DisSi(e) ==
    CASE FieldN(e) = 0 -> "j"
      [] FieldN(e) = 1 -> <<"beqz", "bnez", "bltz", "bgez">>[FieldM(e) + 1]
      [] FieldN(e) = 2 -> <<"beqi", "bnei", "blti", "bgei">>[FieldM(e) + 1]
      [] FieldN(e) = 3 /\ FieldM(e) # 1 -> <<"entry", "-", "bltui", "bgeui">>[FieldM(e) + 1]
      [] FieldN(e) = 3 /\ FieldM(e) = 1 /\ e.r \in 0..1 -> <<"bf", "bt">>[e.r + 1]
      [] FieldN(e) = 3 /\ FieldM(e) = 1 /\ e.r \in 8..10 -> <<"loop", "loopnez", "loopgtz">>[e.r - 7]
      [] OTHER -> "?"

\* disasm_b
DisB(e) ==
    <<"bnone", "beq", "blt", "bltu", "ball", "bbc", "bbci", "bbci", "bany", "bne", "bge", "bgeu",
      "bnall", "bbs", "bbsi", "bbsi">>[e.r + 1]

\* disasm_narrow
DisNarrow(e) ==
    CASE e.op0 \in 8..11 -> <<"l32i.n", "s32i.n", "add.n", "addi.n">>[e.op0 - 7]
      [] e.op0 = 12 -> <<"movi.n", "movi.n", "beqz.n", "bnez.n">>[FieldM(e) + 1]
      [] e.op0 = 13 /\ e.r = 0 -> "mov.n"
      [] e.op0 = 13 /\ e.r = 15 /\ e.t \in {0, 1, 3, 6} ->
            IF e.s # 0 THEN "?" ELSE <<"ret.n", "retw.n", "-", "nop.n", "-", "-", "ill.n">>[e.t + 1]
      [] e.op0 = 13 /\ e.r = 15 /\ e.t = 2 -> "break.n"
      [] OTHER -> "?"

DisMac(e) ==
    CASE e.op2 \in 0..3 -> "?"
      [] e.op2 = 4 -> IF e.op1 = 0 THEN "lddec" ELSE "?"
      [] e.op2 = 5 -> IF e.op1 = 0 THEN "ldinc" ELSE "?"
      [] e.op2 \in 8..11 -> <<"mac.da.lddec", "mac.da.ldinc", "mac.dd.lddec", "mac.dd.ldinc">>[e.op2 - 7]
      [] OTHER -> <<"mac.aa", "mac.ad", "mac.da", "mac.dd">>[e.op2 \div 4 + 1]

\* xtensa_disasm
Disassemble(e) ==
    IF e.len = 2 THEN DisNarrow(e)
    ELSE CASE e.op0 = 0 -> DisQrst(e) [] e.op0 = 1 -> "l32r" [] e.op0 = 2 -> DisLsai(e)
           [] e.op0 = 3 -> IF e.r % 4 = 0 THEN <<"lsi", "ssi", "lsiu", "ssiu">>[e.r \div 4 + 1] ELSE "?"
           [] e.op0 = 4 -> DisMac(e) [] e.op0 = 5 -> DisCall(e) [] e.op0 = 6 -> DisSi(e)
           [] e.op0 = 7 -> DisB(e)

\* exec_si and disasm_si: where a loop ends, for an 8-bit displacement of which op2 is the high half
LoopEnd(e) == 16 * e.op2 + e.op1 + 4
DisLoopEnd(e) == (IF e.op2 >= 8 THEN 16 * e.op2 + e.op1 - 256 ELSE 16 * e.op2 + e.op1) + 4

-----------------------------------------------------------------------------
Fetched(e) == dev = [at |-> "fetched", e |-> e]
IsaInit == Encoded(Fetched)

\* What only xtensa_step_impl does around an instruction: take an exception, an interrupt or a
\* timer, or hand the core over.
StepOnly(op, e, c) ==
    \/ op \in {"ill", "ill.n", "break", "break.n", "syscall", "waiti", "rfe", "rfwo", "rfwu", "rfi",
               "xsr", "s32c1i", "movsp"}
    \/ op \in {"quou", "quos", "remu", "rems"} /\ c.zero
    \/ op = "rsil" /\ c.pending
    \/ op = "wsr" /\ (Sr(e) \in TimerSr \/ (Sr(e) = 230 /\ c.pending) \/ (Sr(e) = 228 /\ c.enables))
    \/ op \in {"entry", "rotw"} /\ ~c.real
    \/ op \in {"retw", "retw.n"} /\ ~c.live

\* xtensa_step_impl: a fetched instruction enters the predecode table.
Fetch ==
    /\ dev.at = "fetched"
    /\ dev' = [at |-> "predecoded", e |-> dev.e, kind |-> Predecode(dev.e)]

\* xtensa_run_cached, then the step path for what it leaves
Run(c) ==
    /\ dev.at = "predecoded"
    /\ LET op == Cached(dev.e, dev.kind, c)
       IN  dev' = [at |-> "run", e |-> dev.e, cached |-> op, stepOnly |-> StepOnly(Execute(dev.e), dev.e, c)]

Refetch == dev.at = "run" /\ dev' = [at |-> "fetched", e |-> dev.e]

IsaNext == Fetch \/ (\E c \in Contexts : Run(c)) \/ Refetch

IsaSpec == IsaInit /\ [][IsaNext]_dev

-----------------------------------------------------------------------------
IsaTypeOK == dev.at \in {"fetched", "predecoded", "run"} /\ dev.e.t \in IsaFields

(* predecode_pack and xtensa_run_cached: what the cached path runs is the    *)
(* operation the step path would have run, and is never one that needs the   *)
(* step path's exceptions, interrupts and timers.                            *)
CachedAgrees ==
    (dev.at = "run" /\ dev.cached # "slow") =>
        dev.cached = Execute(dev.e) /\ ~dev.stepOnly

(* window_operand_need "mirrors the implemented decoder": it covers every    *)
(* address register an instruction touches, so no register of a spilled      *)
(* window is used before its overflow is taken.                              *)
NeedCoversOperands ==
    dev.at = "fetched" =>
       \A i \in 0..3 : \A x \in Operands(Execute(dev.e)) :
          Register(dev.e, x, i) \div 4 <= OperandNeed(dev.e, i)

(* The same, for every instruction but the one the table leaves out, L16SI:  *)
(* xtensa.c 760 does not hold of the code.                                   *)
NeedCoversListed == Execute(dev.e) # "l16si" => NeedCoversOperands

(* classify_for_jit: what a block runs straight through never writes the     *)
(* program counter or moves the register window; what it hands to the        *)
(* interpreter never is a translated branch; and only a conditional branch   *)
(* gets a side exit.                                                         *)
Jumps == {"ret", "retw", "ret.n", "retw.n", "jx", "callx0", "callx4", "callx8", "callx12", "call0",
          "call4", "call8", "call12", "j", "rfe", "rfi", "rfwo", "rfwu", "ill", "ill.n", "syscall",
          "break", "break.n", "waiti", "loop", "loopnez", "loopgtz", "entry", "rotw"}
Conditional == {"beqz.n", "bnez.n", "beqz", "bnez", "bltz", "bgez", "beqi", "bnei", "blti", "bgei",
                "bltui", "bgeui", "bf", "bt", "bnone", "beq", "blt", "bltu", "ball", "bbc", "bbci",
                "bany", "bne", "bge", "bgeu", "bnall", "bbs", "bbsi"}
JitBlocksStraight ==
    LET op == Execute(dev.e)
        class == Classify(dev.e)
    IN  dev.at = "fetched" =>
          /\ op \in Jumps => class \in {1, 2}
          /\ op = "wsr" /\ Sr(dev.e) \in {72, 73} => class \in {1, 2}
          /\ (op \in Conditional) <=> (class = 3)
          /\ class = 1 => op \in Jumps \/ op = "wsr"

(* xtensa_disasm.c: a name it prints is the operation that runs, with the    *)
(* same end for a loop, unless the interpreter does nothing at all; and RSR, *)
(* WSR and XSR name every special register that exists.                      *)
DisassemblyTrue ==
    LET op == Execute(dev.e)
        name == Disassemble(dev.e)
    IN  dev.at = "fetched" =>
          /\ op # "none" /\ name # "?" => name = op
          /\ op \in {"loop", "loopnez", "loopgtz"} => LoopEnd(dev.e) = DisLoopEnd(dev.e)
          /\ op \in {"rsr", "wsr", "xsr"} /\ Sr(dev.e) \in SrRead \union SrWrite => Sr(dev.e) \in SrNamed

(* The same, without the encodings the two read differently: SIMCALL runs as *)
(* SYSCALL, MULA.DD with a load runs as MULA.DA, and a loop body of 128      *)
(* bytes or more is printed as ending before it begins.                      *)
DisassemblyMostlyTrue ==
    \/ Disassemble(dev.e) \in {"simcall", "mac.dd.lddec", "mac.dd.ldinc"}
    \/ Execute(dev.e) \in {"loop", "loopnez", "loopgtz"} /\ dev.e.op2 >= 8
    \/ DisassemblyTrue

-----------------------------------------------------------------------------
(***************************************************************************)
(* The integer instructions of xtensa.c and what jit.c emits for them, in  *)
(* words of Width bits (32 in the code; the halves, quarters and shift     *)
(* fields scale with it).  The interpreter writes C expressions, the       *)
(* translator host instructions whose shifts mask their counts, whose      *)
(* 64-bit forms keep or drop the upper half, whose compares set flags.     *)
(* The two must agree for every operand, and with what the instruction is  *)
(* for.                                                                    *)
(***************************************************************************)
CONSTANTS
    Width     \* bits of a word; the masks are 2^Width - 1

XtensaAluAssumption == Width \in Nat /\ Width > 0 /\ Width % 4 = 0

Half == Width \div 2
Byte == Width \div 4
Size == 2^Width
Words == 0..(Size - 1)
AluFields == 0..(Half - 1)        \* a four-bit field

Wrap(x)     == x % Size
Signed(x)   == IF x >= Size \div 2 THEN x - Size ELSE x
Low(x)      == x % 2^Half
SignedLow(x) == IF Low(x) >= 2^(Half - 1) THEN Low(x) - 2^Half ELSE Low(x)
Inv(x)      == Size - 1 - x
Bit(x, n)   == (x \div 2^n) % 2

AluInit == dev = [a |-> 0, b |-> 0, sar |-> 0, br |-> FALSE]

\* C division truncates.
Quotient(x, y) ==
    LET q == (IF x < 0 THEN -x ELSE x) \div (IF y < 0 THEN -y ELSE y)
    IN  IF (x < 0) = (y < 0) THEN q ELSE -q
Remainder(x, y) == x - y * Quotient(x, y)

\* sign_extend
SignExtend(x, bits) ==
    LET low == x % 2^bits
    IN  Wrap(IF low >= 2^(bits - 1) THEN low - 2^bits ELSE low)

LeadingZeros(x) ==
    CHOOSE n \in 0..Width : x < 2^(Width - n) /\ (n = Width \/ x >= 2^(Width - n - 1))

-----------------------------------------------------------------------------
(* The interpreter.                                                        *)

Shifts == {"slli", "srai", "srli", "src", "srl", "sll", "sra"}
Products == {"mul16u", "mul16s", "mull", "muluh", "mulsh", "salt", "saltu"}
Divisions == {"quou", "quos", "remu", "rems"}
Sums == {"and", "or", "xor", "add", "addx2", "addx4", "addx8", "sub", "subx2",
         "subx4", "subx8", "neg", "abs", "nsa", "nsau"}
Selects == {"sext", "clamps", "min", "max", "minu", "maxu", "moveqz", "movnez",
            "movltz", "movgez", "movf", "movt"}

\* RST1: shifts by the immediate f and by SAR.
Shift(op, s, t, f, sar) ==
    CASE op = "slli" -> IF f = 0 THEN 0 ELSE Wrap(s * 2^(Width - f))
      [] op = "srai" -> Wrap(Signed(t) \div 2^f)
      [] op = "srli" -> t \div 2^f
      [] op = "src"  -> Wrap((s * Size + t) \div 2^sar)
      [] op = "srl"  -> IF sar >= Width THEN 0 ELSE t \div 2^sar
      [] op = "sll"  -> Wrap((s * Size) \div 2^sar)
      [] op = "sra"  -> Wrap(Signed(t) \div 2^(IF sar >= Width THEN Width - 1 ELSE sar))

\* MUL16U to MULSH, SALT and SALTU
Product(op, s, t) ==
    CASE op = "mul16u" -> Wrap(Low(s) * Low(t))
      [] op = "mul16s" -> Wrap(SignedLow(s) * SignedLow(t))
      [] op = "mull"   -> Wrap(s * t)
      [] op = "muluh"  -> (s * t) \div Size
      [] op = "mulsh"  -> Wrap((Signed(s) * Signed(t)) \div Size)
      [] op = "salt"   -> IF Signed(s) < Signed(t) THEN 1 ELSE 0
      [] op = "saltu"  -> IF s < t THEN 1 ELSE 0

\* QUOU to REMS; a zero divisor raises.
Division(op, s, t) ==
    CASE t = 0 -> "exception"
      [] t # 0 /\ op = "quou" -> s \div t
      [] t # 0 /\ op = "remu" -> s % t
      [] t # 0 /\ op = "quos" -> IF s = Size \div 2 /\ Signed(t) = -1 THEN Size \div 2
                                 ELSE Wrap(Quotient(Signed(s), Signed(t)))
      [] t # 0 /\ op = "rems" -> IF s = Size \div 2 /\ Signed(t) = -1 THEN 0
                                 ELSE Wrap(Remainder(Signed(s), Signed(t)))

\* RST0 and the scaled sums
Sum(op, s, t) ==
    CASE op = "and"   -> s & t
      [] op = "or"    -> s | t
      [] op = "xor"   -> s ^^ t
      [] op = "add"   -> Wrap(s + t)
      [] op = "addx2" -> Wrap(2 * s + t)
      [] op = "addx4" -> Wrap(4 * s + t)
      [] op = "addx8" -> Wrap(8 * s + t)
      [] op = "sub"   -> Wrap(s - t)
      [] op = "subx2" -> Wrap(2 * s - t)
      [] op = "subx4" -> Wrap(4 * s - t)
      [] op = "subx8" -> Wrap(8 * s - t)
      [] op = "neg"   -> Wrap(0 - t)
      [] op = "abs"   -> IF Signed(t) < 0 THEN Wrap(0 - t) ELSE t
      [] op = "nsa"   -> LET v == IF Signed(s) < 0 THEN Inv(s) ELSE s
                         IN  IF v = 0 THEN Width - 1 ELSE LeadingZeros(v)
      [] op = "nsau"  -> IF s = 0 THEN Width ELSE LeadingZeros(s)

\* RST3: with the old destination and one boolean register.
Select(op, s, t, old, f, br) ==
    CASE op = "sext"   -> SignExtend(s, f + Byte)
      [] op = "clamps" -> LET hi == 2^(f + Byte - 1) - 1
                              v  == Signed(s)
                          IN  Wrap(IF v > hi THEN hi ELSE IF v < -hi - 1 THEN -hi - 1 ELSE v)
      [] op = "min"    -> IF Signed(s) < Signed(t) THEN s ELSE t
      [] op = "max"    -> IF Signed(s) > Signed(t) THEN s ELSE t
      [] op = "minu"   -> IF s < t THEN s ELSE t
      [] op = "maxu"   -> IF s > t THEN s ELSE t
      [] op = "moveqz" -> IF t = 0 THEN s ELSE old
      [] op = "movnez" -> IF t # 0 THEN s ELSE old
      [] op = "movltz" -> IF Signed(t) < 0 THEN s ELSE old
      [] op = "movgez" -> IF Signed(t) >= 0 THEN s ELSE old
      [] op = "movf"   -> IF br THEN old ELSE s
      [] op = "movt"   -> IF br THEN s ELSE old

\* EXTUI
Extract(t, shift, bits) == (t \div 2^shift) % 2^bits

Setups == {"ssr", "ssl", "ssa8l", "ssa8b", "wsr"}

\* Shift-amount setup and WSR SAR
SetSar(op, s) ==
    CASE op = "ssr"   -> s % Width
      [] op = "ssl"   -> Width - (s % Width)
      [] op = "ssa8l" -> (s % 4) * Byte
      [] op = "ssa8b" -> Width - (s % 4) * Byte
      [] op = "wsr"   -> s % (2 * Width)

Branches == {"bnone", "beq", "blt", "bltu", "ball", "bbc", "bbci", "bany", "bne",
             "bge", "bgeu", "bnall", "bbs", "bbsi"}
Compares == {"beqz", "bnez", "bltz", "bgez", "beqi", "bnei", "blti", "bgei",
             "bltui", "bgeui"}

\* branch_taken
Taken(op, s, t) ==
    CASE op = "bnone" -> s & t = 0
      [] op = "bany"  -> s & t # 0
      [] op = "ball"  -> Inv(s) & t = 0
      [] op = "bnall" -> Inv(s) & t # 0
      [] op = "beq"   -> s = t
      [] op = "bne"   -> s # t
      [] op = "blt"   -> Signed(s) < Signed(t)
      [] op = "bge"   -> Signed(s) >= Signed(t)
      [] op = "bltu"  -> s < t
      [] op = "bgeu"  -> s >= t
      [] op \in {"bbc", "bbci"} -> Bit(s, t % Width) = 0
      [] op \in {"bbs", "bbsi"} -> Bit(s, t % Width) = 1

\* The compares of exec_si, with zero and with the constant c.
TakenConstant(op, s, c) ==
    CASE op = "beqi"  -> s = c
      [] op = "bnei"  -> s # c
      [] op = "blti"  -> Signed(s) < Signed(c)
      [] op = "bgei"  -> Signed(s) >= Signed(c)
      [] op = "bltui" -> s < c
      [] op = "bgeui" -> s >= c
      [] op = "beqz"  -> s = 0
      [] op = "bnez"  -> s # 0
      [] op = "bltz"  -> Signed(s) < 0
      [] op = "bgez"  -> Signed(s) >= 0

\* exec_mac16: MUL, MULA, MULS and UMUL on chosen halves; the accumulator is
\* a word and a signed byte above it.
Mac(op, acc, s, t, hi1, hi2) ==
    LET part(x, hi) == IF hi THEN x \div 2^Half ELSE Low(x)
        h(x, hi)    == SignedLow(part(x, hi))
        was         == IF acc >= 2^(Width + Byte - 1) THEN acc - 2^(Width + Byte) ELSE acc
        now == CASE op = "umul" -> part(s, hi1) * part(t, hi2)
                 [] op = "mul"  -> h(s, hi1) * h(t, hi2)
                 [] op = "mula" -> was + h(s, hi1) * h(t, hi2)
                 [] op = "muls" -> was - h(s, hi1) * h(t, hi2)
        lo  == now % Size
        top == (now \div Size) % 2^Byte
    IN  top * Size + lo

-----------------------------------------------------------------------------
(* What the translator emits.                                              *)

Shl32(x, n) == Wrap(x * 2^(n % Width))
Shr32(x, n) == x \div 2^(n % Width)
Sar32(x, n) == Wrap(Signed(x) \div 2^(n % Width))
Shr64(x, n) == x \div 2^(n % (2 * Width))
Imul64(x, y) == (x * y) % (Size * Size)
Sext64(x) == Signed(x) % (Size * Size)

\* The flags of a compare and of a test.
Zero(x)       == x = 0
Minus(x)      == Bit(x, Width - 1) = 1
Less(x, y)    == Minus(Wrap(x - y))
                    # (Minus(x) # Minus(y) /\ Minus(Wrap(x - y)) # Minus(x))
BitTest(x, n) == Bit(x, n & (Width - 1)) = 1

EmitShift(op, s, t, f, sar) ==
    CASE op = "slli" -> IF Width - f >= Width THEN 0 ELSE Shl32(s, Width - f)
      [] op = "srai" -> IF f > 0 THEN Sar32(t, f) ELSE t
      [] op = "srli" -> IF f > 0 THEN Shr32(t, f) ELSE t
      [] op = "src"  -> Wrap(Shr64((s * Size) | t, sar))
      [] op = "srl"  -> IF sar >= Width THEN 0 ELSE Shr32(t, sar)
      [] op = "sll"  -> Wrap(Shr64(s * Size, sar))
      [] op = "sra"  -> IF sar >= Width THEN Sar32(t, Width - 1) ELSE Sar32(t, sar)

EmitProduct(op, s, t) ==
    CASE op = "mul16u" -> Wrap(Low(s) * Low(t))
      [] op = "mul16s" -> Wrap(Wrap(SignedLow(s)) * Wrap(SignedLow(t)))
      [] op = "mull"   -> Wrap(s * t)
      [] op = "muluh"  -> Shr64(Imul64(s, t), Width)
      [] op = "mulsh"  -> Shr64(Imul64(Sext64(s), Sext64(t)), Width)
      [] op = "salt"   -> IF Less(s, t) THEN 1 ELSE 0
      [] op = "saltu"  -> IF s < t THEN 1 ELSE 0

\* The divide helpers; a zero divisor goes back to the interpreter.
EmitDivision(op, s, t) ==
    IF t = 0 THEN "exception"
    ELSE CASE op = "quou" -> s \div t
           [] op = "remu" -> s % t
           [] op = "quos" -> IF s = Size \div 2 /\ t = Size - 1 THEN Size \div 2
                             ELSE Wrap(Quotient(Signed(s), Signed(t)))
           [] op = "rems" -> IF s = Size \div 2 /\ t = Size - 1 THEN 0
                             ELSE Wrap(Remainder(Signed(s), Signed(t)))

EmitLogic(op, s, t) ==
    CASE op = "and" -> s & t
      [] op = "or"  -> s | t
      [] op = "xor" -> s ^^ t

\* jit_nsa_helper, jit_nsau_helper
EmitNormal(op, s) ==
    LET v == IF op = "nsa" /\ Signed(s) < 0 THEN Inv(s) ELSE s
    IN  CASE v # 0 -> LeadingZeros(v)
          [] v = 0 -> IF op = "nsa" THEN Width - 1 ELSE Width

EmitSum(op, s, t) ==
    CASE op \in {"and", "or", "xor"} -> EmitLogic(op, s, t)
      [] op \in {"nsa", "nsau"} -> EmitNormal(op, s)
      [] op = "add"   -> Wrap(s + t)
      [] op = "sub"   -> Wrap(s - t)
      [] op = "addx2" -> Wrap(Shl32(s, 1) + t)
      [] op = "addx4" -> Wrap(Shl32(s, 2) + t)
      [] op = "addx8" -> Wrap(Shl32(s, 3) + t)
      [] op = "subx2" -> Wrap(Shl32(s, 1) - t)
      [] op = "subx4" -> Wrap(Shl32(s, 2) - t)
      [] op = "subx8" -> Wrap(Shl32(s, 3) - t)
      [] op = "neg"   -> Wrap(0 - t)
      [] op = "abs"   -> LET m == Sar32(t, Width - 1) IN Wrap((t ^^ m) - m)

EmitSelect(op, s, t, old, f, br) ==
    LET cmov(c, x, y) == IF c THEN y ELSE x
        hi == 2^(f + Byte - 1) - 1
    IN  CASE op = "sext"   -> LET n == Width - (f + Byte) IN
                              IF n > 0 THEN Sar32(Shl32(s, n), n) ELSE s
          [] op = "clamps" -> IF Signed(s) > hi THEN hi
                              ELSE IF Signed(s) < -hi - 1 THEN Wrap(-hi - 1) ELSE s
          [] op = "min"    -> cmov(Signed(s) > Signed(t), s, t)
          [] op = "max"    -> cmov(Signed(s) < Signed(t), s, t)
          [] op = "minu"   -> cmov(s > t, s, t)
          [] op = "maxu"   -> cmov(s < t, s, t)
          [] op = "moveqz" -> cmov(t & t = 0, old, s)
          [] op = "movnez" -> cmov(t & t # 0, old, s)
          [] op = "movltz" -> cmov(Bit(t, Width - 1) = 1, old, s)
          [] op = "movgez" -> cmov(Bit(t, Width - 1) = 0, old, s)
          [] op = "movf"   -> cmov(~br, old, s)
          [] op = "movt"   -> cmov(br, old, s)

EmitExtract(t, shift, bits) == (IF shift > 0 THEN Shr32(t, shift) ELSE t) & (2^bits - 1)

EmitSar(op, s) ==
    CASE op = "ssr"   -> s & (Width - 1)
      [] op = "ssl"   -> Wrap(Wrap(0 - (s & (Width - 1))) + Width)
      [] op = "ssa8l" -> (s & 3) * Byte
      [] op = "ssa8b" -> Wrap(Wrap(0 - ((s & 3) * Byte)) + Width)
      [] op = "wsr"   -> s & (2 * Width - 1)

\* The condition codes the side exits test.
EmitBranch(op, s, t) ==
    CASE op = "bnone" -> Zero(s & t)
      [] op = "bany"  -> ~Zero(s & t)
      [] op = "ball"  -> Zero(Inv(s) & t)
      [] op = "bnall" -> ~Zero(Inv(s) & t)
      [] op = "beq"   -> Zero(Wrap(s - t))
      [] op = "bne"   -> ~Zero(Wrap(s - t))
      [] op = "blt"   -> Less(s, t)
      [] op = "bge"   -> ~Less(s, t)
      [] op = "bltu"  -> s < t
      [] op = "bgeu"  -> ~(s < t)
      [] op \in {"bbc", "bbci"} -> ~BitTest(s, t)
      [] op \in {"bbs", "bbsi"} -> BitTest(s, t)

EmitConstantBranch(op, s, c) ==
    CASE op = "beqz"  -> Zero(s & s)
      [] op = "bnez"  -> ~Zero(s & s)
      [] op = "bltz"  -> Minus(s)
      [] op = "bgez"  -> ~Minus(s)
      [] op = "beqi"  -> Zero(Wrap(s - c))
      [] op = "bnei"  -> ~Zero(Wrap(s - c))
      [] op = "blti"  -> Less(s, c)
      [] op = "bgei"  -> ~Less(s, c)
      [] op = "bltui" -> s < c
      [] op = "bgeui" -> ~(s < c)

-----------------------------------------------------------------------------
(* A program: results and immediates become the next operands.             *)

Compute ==
    \/ \E v \in Words : dev' = [dev EXCEPT !.a = v]                  \* MOVI
    \/ \E op \in Sums : dev' = [dev EXCEPT !.b = Sum(op, dev.a, dev.b)]
    \/ \E op \in Setups : dev' = [dev EXCEPT !.sar = SetSar(op, dev.a)]
    \/ dev' = [dev EXCEPT !.b = Shift("src", dev.a, dev.b, 0, dev.sar)]
    \/ dev' = [dev EXCEPT !.br = Taken("bltu", dev.a, dev.b)]

AluNext == Compute

AluSpec == AluInit /\ [][AluNext]_dev

-----------------------------------------------------------------------------
AluTypeOK ==
    dev.a \in Words /\ dev.b \in Words /\ dev.sar \in 0..(2 * Width - 1) /\ dev.br \in BOOLEAN

(* jit_compile_insn against exec_qrst, exec_narrow, exec_lsai and            *)
(* branch_taken: for every operand, shift amount and field the native code   *)
(* computes what the interpreter computes, takes the branch it takes and     *)
(* raises where it raises.                                                   *)
EnginesAgree ==
    LET s == dev.a  t == dev.b
    IN  /\ \A op \in Shifts, f \in 0..(Width - 1) :
              EmitShift(op, s, t, f, dev.sar) = Shift(op, s, t, f, dev.sar)
        /\ \A op \in Products : EmitProduct(op, s, t) = Product(op, s, t)
        /\ \A op \in Divisions : EmitDivision(op, s, t) = Division(op, s, t)
        /\ \A op \in Sums : EmitSum(op, s, t) = Sum(op, s, t)
        /\ \A op \in Selects, f \in AluFields, old \in {0, 1} :
              EmitSelect(op, s, t, old, f, dev.br) = Select(op, s, t, old, f, dev.br)
        /\ \A op \in Setups : EmitSar(op, s) = SetSar(op, s)
        /\ \A op \in Branches : EmitBranch(op, s, t) = Taken(op, s, t)
        /\ \A op \in Compares : EmitConstantBranch(op, s, t) = TakenConstant(op, s, t)
        /\ \A shift \in 0..(Width - 1), bits \in 1..Half :
              EmitExtract(t, shift, bits) = Extract(t, shift, bits)

(* What compilers build from these instructions: a shift prepared with SSL,  *)
(* SSR or SSA8L moves the word by the amount asked for, the two halves of a  *)
(* product make the product, quotient and remainder make the dividend, and   *)
(* the MAC16 accumulator wraps at its forty bits.                            *)
Identities ==
    LET s == dev.a  t == dev.b  n == t % Width
        full(lo, hi) == lo + Size * hi
    IN  /\ Shift("sll", s, 0, 0, SetSar("ssl", n)) = Wrap(s * 2^n)
        /\ Shift("srl", 0, s, 0, SetSar("ssr", n)) = s \div 2^n
        /\ Shift("src", s, s, 0, SetSar("ssr", n)) = Wrap((s * Size + s) \div 2^n)
        /\ full(Product("mull", s, t), Product("muluh", s, t)) = s * t
        /\ full(Product("mull", s, t), Signed(Product("mulsh", s, t))) = Signed(s) * Signed(t)
        /\ t # 0 => /\ Division("quou", s, t) * t + Division("remu", s, t) = s
                    /\ Wrap(Signed(Division("quos", s, t)) * Signed(t)
                            + Signed(Division("rems", s, t))) = s
        /\ dev.sar = 0 =>
              \A acc \in 0..(2^(Width + Byte) - 1), h1, h2 \in BOOLEAN :
                 /\ Mac("muls", Mac("mula", acc, s, t, h1, h2), s, t, h1, h2) = acc
                 /\ Mac("mula", acc, s, t, FALSE, FALSE)
                       = (acc + SignedLow(s) * SignedLow(t)) % 2^(Width + Byte)

(* The comment on NSA in exec_qrst and on jit_nsa_helper calls its result a  *)
(* normalized shift amount: shifted left by it, a value keeps its sign and   *)
(* its two topmost bits differ.                                              *)
NsaNormalises ==
    LET n == Sum("nsa", dev.a, 0)
        v == Wrap(dev.a * 2^n)
    IN  Signed(dev.a) \notin {0, -1} =>
           /\ Signed(v) = Signed(dev.a) * 2^n
           /\ Bit(v, Width - 1) # Bit(v, Width - 2)
=============================================================================
