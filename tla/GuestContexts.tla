--------------------------- MODULE GuestContexts ----------------------------
(***************************************************************************)
(* What a guest function relies on when it is called, interrupted or       *)
(* switched away from: register windows and critical sections.             *)
(* Each part stands alone: dev is the state of the one being explored.     *)
(***************************************************************************)
EXTENDS Sequences, FiniteSets, Integers

VARIABLE dev

-----------------------------------------------------------------------------
(***************************************************************************)
(* The windowed register file of xtensa.c: calls rotate through a ring of  *)
(* windows of four registers, and a frame that is about to be overwritten  *)
(* has to reach the stack and come back.  Two machineries do that: the     *)
(* guest's own window vectors (real_window_vectors, once VECBASE points at *)
(* the application; window_accel.c runs the canonical ones natively) and   *)
(* the synthesized spill and fill that carries start-up and the legacy     *)
(* mode.                                                                   *)
(*                                                                         *)
(* A window's content is abstracted to the frame and the quad of it that   *)
(* it holds, with the call size and the stack pointer that a0 and a1       *)
(* carry, and one token: a value some frame writes into one of its quads,  *)
(* which must be there whenever that frame runs.  A stack pointer is the   *)
(* frame's depth and whether MOVSP has moved it.                           *)
(***************************************************************************)
CONSTANTS
    Windows,      \* windows in the ring (16 in the code)
    Sizes,        \* call sizes, of 1..3
    WindowMaxDepth,     \* bound: deepest call
    MaxRecords,   \* SPILL_STACK_DEPTH: spill records per window
    MaxSwitches,  \* bound: times another task takes the processor
    Places        \* windows a context restore may resume at

RegisterWindowsAssumption ==
    /\ Windows \in Nat /\ Windows > 6
    /\ Sizes \subseteq 1..3
    /\ Places \subseteq 0..(Windows - 1)

Ring == 0..(Windows - 1)
Up(w, n) == (w + n) % Windows
Down(w, n) == (w + Windows - n) % Windows

Junk == [d |-> 0, n |-> 0, alt |-> 0, tok |-> FALSE]
Sp(c) == <<c.d, c.alt>>
Sps == (0..WindowMaxDepth) \X {0, 1}

Depth(d) == Len(d.frames)

\* What the frame at this depth keeps in its quad q: a0 and a1 in the first,
\* plain values in the others.
Own(d, k, q) ==
    IF q = 0 THEN [d |-> k, n |-> d.frames[k].n, alt |-> d.frames[k].alt,
                   tok |-> d.tok = <<k, 0>>]
    ELSE [Junk EXCEPT !.tok = d.tok = <<k, q>>]

\* What a returning frame leaves behind is of no use to anyone.
Forget(d, w, k) ==
    LET link == IF k > 2 THEN <<k - 2, d.frames[k - 2].alt>> ELSE <<0, 0>>
        free(x) == Down(x, w) < 4 /\ \A j \in 0..Down(x, w) : Up(w, j) \notin d.ws
    IN  [d EXCEPT !.quads = [x \in Ring |-> IF free(x) THEN Junk ELSE d.quads[x]],
                  !.mem = [s \in Sps |-> IF s[1] = k THEN Junk ELSE d.mem[s]],
                  !.memx[link] = <<Junk, Junk>>,
                  !.size[w] = 0]

Hazard(d) == IF d.real THEN {i \in 1..3 : Up(d.wb, i) \in d.ws} ELSE {}
Refresh(d) == [d EXCEPT !.hazard = Hazard(d)]

WindowInit ==
    \E real \in BOOLEAN :
        dev = [real   |-> real,          \* real_window_vectors
               ready  |-> FALSE,         \* window_vectors_ready
               wb     |-> 0,
               ws     |-> {0},
               hazard |-> {},
               quads  |-> [w \in Ring |-> IF w = 0 THEN [Junk EXCEPT !.d = 1] ELSE Junk],
               size   |-> [w \in Ring |-> 0],         \* window_callsize
               recs   |-> [w \in Ring |-> <<>>],      \* spill_stack
               mem    |-> [s \in Sps |-> Junk],       \* save areas below an SP
               memx   |-> [s \in Sps |-> <<Junk, Junk>>],  \* at -32 and at -48
               frames |-> <<[n |-> 0, alt |-> 0]>>,   \* history: the call stack
               phase  |-> "run",
               back   |-> "run",
               callinc |-> 0,
               owb    |-> 0,
               width  |-> 0,
               switches |-> 0,
               tok    |-> <<0, 0>>]                   \* history: who owns the token

Architectural(d) == d.real /\ d.ready

-----------------------------------------------------------------------------
(* Save areas: a0-a3 below the callee's SP, the rest below the SP that the *)
(* frame's own save area links to.                                         *)

SaveStack(d, c0, c1, c2, n, base) ==
    LET link == Sp(d.mem[Sp(c0)])
        top  == [d EXCEPT !.mem[base] = c0]
    IN  CASE n = 1 -> top
          [] n = 2 -> [top EXCEPT !.memx[link][1] = c1]
          [] n = 3 -> [top EXCEPT !.memx[link] = <<c2, c1>>]

LoadStack(d, w, n, base) ==
    LET c0   == d.mem[base]
        link == Sp(d.mem[Sp(c0)])
        x    == d.memx[link]
    IN  CASE n = 1 -> [d EXCEPT !.quads[w] = c0]
          [] n = 2 -> [d EXCEPT !.quads[w] = c0, !.quads[Up(w, 1)] = x[1]]
          [] n = 3 -> [d EXCEPT !.quads[w] = c0, !.quads[Up(w, 1)] = x[2],
                                !.quads[Up(w, 2)] = x[1]]

-----------------------------------------------------------------------------
(* Architectural window exceptions.                                        *)

\* The first live window an access of this reach would alias.
Hit(d, need) ==
    LET at == {i \in 1..need : Up(d.wb, i) \in d.ws}
    IN  IF at = {} THEN 0 ELSE CHOOSE i \in at : \A j \in at : i <= j

\* Which overflow vector: the distance to the next live window.
OverflowWidth(d, w) ==
    LET at == {i \in 1..(Windows - 1) : Up(w, i) \in d.ws}
        i  == CHOOSE x \in at : \A j \in at : x <= j
    IN  IF at = {} \/ i > 3 THEN 3 ELSE i

\* raise_window_exception: the handler runs on the window that moves.
Raise(d, w, width, kind) ==
    Refresh([d EXCEPT !.owb = d.wb, !.wb = w, !.width = width, !.back = d.phase,
                      !.phase = kind])

Overflow(d, i) ==
    LET w == Up(d.wb, i) IN Raise(d, w, OverflowWidth(d, w), "overflow")

\* The guest's WindowOverflow handler and RFWO.
OverflowVector ==
    LET d    == dev
        w    == d.wb
        base == Sp(d.quads[Up(w, d.width)])
        put  == SaveStack(d, d.quads[w], d.quads[Up(w, 1)], d.quads[Up(w, 2)],
                          d.width, base)
        left == IF d.width = 1 THEN put
                ELSE [put EXCEPT !.quads[w] = Junk]   \* a0 held the link
    IN  /\ d.phase = "overflow"
        /\ dev' = Refresh([left EXCEPT !.ws = @ \ {w}, !.wb = d.owb,
                                       !.phase = d.back, !.back = "run",
                                       !.owb = 0, !.width = 0])

\* The guest's WindowUnderflow handler and RFWU.
UnderflowVector ==
    LET d    == dev
        base == Sp(d.quads[Up(d.wb, d.width)])
    IN  /\ d.phase = "underflow"
        /\ dev' = Refresh([LoadStack(d, d.wb, d.width, base)
                           EXCEPT !.ws = @ \union {d.wb}, !.wb = d.owb,
                                  !.phase = d.back, !.back = "run",
                                  !.owb = 0, !.width = 0])

-----------------------------------------------------------------------------
(* Synthesized spill and fill.                                             *)

\* window_callsize_of: the size recorded at ENTRY, else the one in a0.
CallSizeOf(d, w) ==
    IF d.size[w] # 0 THEN d.size[w]
    ELSE IF d.quads[w].n # 0 THEN d.quads[w].n ELSE 2

\* find_callee_window: the window whose backward step lands on w.
FindCallee(d, w) ==
    LET walk[k \in 0..Windows] ==
            IF k = 0 THEN d.wb
            ELSE LET at == walk[k - 1] IN Down(at, CallSizeOf(d, at))
        step == {k \in 1..Windows :
                    /\ walk[k] = w
                    /\ \A j \in 1..(k - 1) : walk[j] # w /\ walk[j] # d.wb}
        live == {i \in 1..(Windows - 1) : Up(w, i) \in d.ws}
    IN  IF step # {} THEN walk[(CHOOSE k \in step : TRUE) - 1]
        ELSE IF live = {} THEN w
        ELSE Up(w, CHOOSE i \in live : \A j \in live : i <= j)

\* synth_spill_window: the record, then the stack.  A full record stack keeps
\* its bases and loses the contents of its newest record.
SynthSpill(d, w) ==
    LET callee == FindCallee(d, w)
        n      == CallSizeOf(d, callee)
        base   == Sp(d.quads[callee])
        c0     == d.quads[w]
        c1     == d.quads[Up(w, 1)]
        c2     == d.quads[Up(w, 2)]
        held   == Len(d.recs[w])
        rec    == [base |-> base, c0 |-> c0, c1 |-> c1, c2 |-> c2]
        kept   == IF ~Architectural(d) /\ held < MaxRecords
                  THEN [d EXCEPT !.recs[w] = Append(@, rec)]
                  ELSE IF held = 0 THEN d
                  ELSE [d EXCEPT !.recs[w][held] = [rec EXCEPT !.base = d.recs[w][held].base]]
    IN  Refresh([SaveStack(kept, c0, c1, c2, n, base) EXCEPT !.ws = @ \ {w}])

\* Spill the live ones of a sequence of windows, in its order.
SpillEach(d, seq) ==
    LET upto[i \in 0..Len(seq)] ==
            IF i = 0 THEN d
            ELSE LET s == upto[i - 1]
                 IN  IF seq[i] \in s.ws THEN SynthSpill(s, seq[i]) ELSE s
    IN  upto[Len(seq)]

BugOverflowCheck(d, callinc) == SpillEach(d, [i \in 1..callinc |-> Up(d.wb, i)])

\* synth_overflow_check: what the rotation and the callee can reach.
OverflowCheck(d, callinc) == SpillEach(d, [i \in 1..(callinc + 3) |-> Up(d.wb, i)])

\* xtensa_flush_windows: everything but the running window, oldest first.
FlushWindows(d) == SpillEach(d, [i \in 1..(Windows - 1) |-> Up(d.wb, i)])

\* synth_underflow_fill: the innermost record with the callee's SP, else the
\* stack.
SynthFill(d, ret, n) ==
    LET base  == Sp(d.quads[d.wb])
        match == {s \in Ring : \E k \in DOMAIN d.recs[s] : d.recs[s][k].base = base}
        slot  == CHOOSE s \in match : \A x \in match : s <= x
        ks    == {k \in DOMAIN d.recs[slot] : d.recs[slot][k].base = base}
        k     == CHOOSE x \in ks : \A j \in ks : j <= x
        r     == d.recs[slot][k]
        got   == IF match = {} THEN LoadStack(d, ret, n, base)
                 ELSE [d EXCEPT !.recs[slot] = SubSeq(@, 1, k - 1),
                                !.quads = [w \in Ring |->
                                   IF w = ret THEN r.c0
                                   ELSE IF w = Up(ret, 1) /\ n >= 2 THEN r.c1
                                   ELSE IF w = Up(ret, 2) /\ n = 3 THEN r.c2
                                   ELSE d.quads[w]]]
        a0    == got.quads[ret]
    IN  Refresh([got EXCEPT !.size[ret] = IF a0.n # 0 THEN a0.n ELSE @,
                            !.ws = @ \union {ret}])

-----------------------------------------------------------------------------
(* Instructions.                                                           *)

\* An access to quad q of the running frame: the window check, then the write.
\* The first write of all leaves the token there.
Access(q, mark) ==
    LET i == Hit(dev, q)
        d == [dev EXCEPT !.tok = IF mark THEN <<Depth(dev), q>> ELSE @]
    IN  /\ dev.phase = "run"
        /\ mark => dev.tok = <<0, 0>>
        /\ dev' = IF Architectural(dev) /\ q \in 1..3 /\ i # 0 THEN Overflow(dev, i)
                  ELSE [d EXCEPT !.quads[Up(d.wb, q)] = Own(d, Depth(d), q)]

\* CALLn and CALLXn: the return address goes where the callee's a0 will be.
Call(n) ==
    LET i == Hit(dev, n)
        k == Depth(dev)
    IN  /\ dev.phase = "run" /\ k < WindowMaxDepth
        /\ dev' = IF Architectural(dev) /\ i # 0 THEN Overflow(dev, i)
                  ELSE [dev EXCEPT !.quads[Up(dev.wb, n)] =
                                       [Junk EXCEPT !.d = k + 1, !.n = n],
                                   !.callinc = n,
                                   !.phase = "entry",
                                   !.tok = IF @[1] = k /\ @[2] >= n THEN <<9, 9>> ELSE @]

\* ENTRY: restartable under the vectors; the new SP is written before the
\* synthesized spill.
Entry ==
    LET n   == dev.callinc
        i   == Hit(dev, n)
        put == [dev EXCEPT !.quads[Up(dev.wb, n)] =
                               [Junk EXCEPT !.d = Depth(dev) + 1, !.n = n]]
        d   == IF Architectural(dev) THEN put ELSE OverflowCheck(put, n)
        w   == Up(d.wb, n)
    IN  /\ dev.phase = "entry"
        /\ dev' = IF Architectural(dev) /\ i # 0 THEN Overflow(dev, i)
                  ELSE Refresh([d EXCEPT !.wb = w, !.ws = @ \union {w}, !.size[w] = n,
                                         !.phase = "run", !.callinc = 0,
                                         !.frames = Append(@, [n |-> n, alt |-> 0])])

\* RETW: the size is the one in a0, else the one recorded.
Retw ==
    LET a0  == dev.quads[dev.wb].n
        n   == IF a0 # 0 THEN a0 ELSE IF dev.size[dev.wb] # 0 THEN dev.size[dev.wb] ELSE 4
        ret == Down(dev.wb, n)
        d   == IF ret \in dev.ws THEN dev ELSE SynthFill(dev, ret, n)
        k   == Depth(dev)
    IN  /\ dev.phase = "run" /\ k > 1
        /\ dev' = IF ret \notin dev.ws /\ Architectural(dev)
                  THEN Raise(dev, ret, n, "underflow")
                  ELSE Refresh(Forget([d EXCEPT !.ws = @ \ {dev.wb}, !.wb = ret,
                                                !.frames = SubSeq(@, 1, k - 1),
                                                !.tok = IF @[1] = k THEN <<9, 9>> ELSE @],
                                      dev.wb, k))

\* MOVSP moves the stack pointer of a frame whose caller is live, or takes
\* AllocaCause so that the guest's handler fills it first; the legacy mode
\* spills the callers and moves their save area and records.
Movsp ==
    LET k       == Depth(dev)
        old     == Sp(dev.quads[dev.wb])
        new     == <<k, 1>>
        callers == {Down(dev.wb, i) : i \in 1..3} \intersect dev.ws
        moved(d) == [d EXCEPT !.quads[d.wb].alt = 1, !.frames[k].alt = 1]
        s       == SpillEach(dev, [i \in 1..3 |-> Down(dev.wb, i)])
        n       == dev.quads[dev.wb].n
    IN  /\ dev.phase = "run" /\ k > 1 /\ \A j \in 1..k : dev.frames[j].alt = 0
        /\ IF dev.real
           THEN IF callers # {} THEN dev' = moved(dev)
                ELSE dev.ready /\ dev' = Raise(dev, Down(dev.wb, n), n, "underflow")
           ELSE dev' = moved([s EXCEPT
                    !.mem[new] = s.mem[old],
                    !.recs = [w \in Ring |-> [r \in DOMAIN s.recs[w] |->
                                [s.recs[w][r] EXCEPT !.base = IF @ = old THEN new ELSE @]]]])

\* SYSCALL in the legacy mode: every other window, by its number.
Syscall ==
    /\ dev.phase = "run" /\ ~dev.real /\ dev.ws # {dev.wb}
    /\ dev' = SpillEach(dev, [i \in 1..(Windows - 1) |->
                                IF i - 1 < dev.wb THEN i - 1 ELSE i])

\* An interrupt is delivered: the legacy mode flushes first, with vectors the
\* guest's prologue walks the file and overflows the oldest frame.
WindowInterrupt ==
    LET at == {i \in 1..(Windows - 1) : Up(dev.wb, i) \in dev.ws}
    IN  /\ dev.phase \in {"run", "entry"} /\ at # {}
        /\ dev' = IF ~dev.real THEN FlushWindows(dev)
                  ELSE Overflow(dev, CHOOSE i \in at : \A j \in at : i <= j)
        /\ dev.real => dev.ready

\* Another task has had the processor: only this frame's registers come back,
\* wherever the window base now is.
Resume(w) ==
    /\ dev.phase \in {"run", "entry"} /\ dev.ws = {dev.wb} /\ w # dev.wb
    /\ dev.real => dev.ready
    /\ dev.switches < MaxSwitches
    /\ dev' = Refresh([dev EXCEPT
                  !.wb = w, !.ws = {w}, !.switches = @ + 1,
                  !.quads = [x \in Ring |->
                      LET q == Down(x, w) IN IF q < 4 THEN dev.quads[Up(dev.wb, q)] ELSE Junk]])

\* The application moves VECBASE off the ROM.  From here on the vectors fill
\* from the stack, and the spill records left are never read.
Relocate ==
    /\ dev.real /\ ~dev.ready
    /\ dev.phase \in {"run", "entry"}
    /\ dev' = Refresh([dev EXCEPT !.ready = TRUE, !.recs = [w \in Ring |-> <<>>]])

WindowNext ==
    \/ \E q \in 0..3, mark \in BOOLEAN : Access(q, mark)
    \/ \E n \in Sizes : Call(n)
    \/ Entry
    \/ Retw
    \/ Movsp
    \/ Syscall
    \/ WindowInterrupt
    \/ \E w \in Places : Resume(w)
    \/ Relocate
    \/ OverflowVector
    \/ UnderflowVector

WindowSpec == WindowInit /\ [][WindowNext]_dev

-----------------------------------------------------------------------------
WindowTypeOK ==
    /\ dev.wb \in Ring /\ dev.ws \subseteq Ring /\ dev.hazard \subseteq 1..3
    /\ dev.phase \in {"run", "entry", "overflow", "underflow"}
    /\ \A w \in Ring : Len(dev.recs[w]) <= MaxRecords

(* exec_retw and the spills of ENTRY: the frame that runs finds its own      *)
(* return address and stack pointer, and every value it wrote before its     *)
(* calls, however often its windows went to the stack and came back.         *)
FramesPreserved ==
    dev.phase = "run" =>
        /\ [dev.quads[dev.wb] EXCEPT !.tok = FALSE] =
               [Own(dev, Depth(dev), 0) EXCEPT !.tok = FALSE]
        /\ dev.tok[1] = Depth(dev) => dev.quads[Up(dev.wb, dev.tok[2])].tok

(* WINDOWSTART marks frames and nothing else: every live window holds the    *)
(* return address of a frame of the current call stack, no frame twice, and  *)
(* the running one is live.                                                  *)
LiveAreFrames ==
    dev.phase \in {"run", "entry"} =>
        /\ dev.wb \in dev.ws
        /\ \A w \in dev.ws :
              /\ dev.quads[w].d \in 1..Depth(dev)
              /\ dev.quads[w].alt = dev.frames[dev.quads[w].d].alt
              /\ \A x \in dev.ws : dev.quads[x].d = dev.quads[w].d => x = w

(* window_hazard_refresh: the cached hazard the predecoded interpreter tests *)
(* before every access is the one WINDOWSTART and WINDOWBASE imply.          *)
HazardCurrent == dev.hazard = Hazard(dev)

-----------------------------------------------------------------------------
(***************************************************************************)
(* Critical sections of the firmware and their accelerated form            *)
(* (rom_stubs.c, stub_idf_port_enter, stub_idf_port_exit and               *)
(* stub_idf_heap_lock_wrapper).                                            *)
(*                                                                         *)
(* vPortEnterCriticalTimeout and vPortExitCritical are guest code.  Where  *)
(* the emulator recognises their bodies, a conditional hook runs the whole *)
(* body as one step, or declines without a trace and lets the guest's own  *)
(* instructions run, between which the other core and interrupts do.  Both *)
(* forms work on the same lock words, so every mixture must be right.      *)
(*                                                                         *)
(* An interrupt routine may use the same locks.  The register windows are  *)
(* those of the wrapper's prefix, which runs before the nested hook is     *)
(* asked and is undone when that declines.                                 *)
(***************************************************************************)
CONSTANTS
    Cores,       \* the two cores
    Locks,       \* spinlocks in internal RAM
    Levels,      \* interrupt levels a task may run at outside
    CriticalMaxDepth,    \* critical sections one core nests
    NWindows     \* register windows (16)

PortCriticalAssumption ==
    /\ Levels \subseteq 0..2 /\ Levels # {}
    /\ CriticalMaxDepth \in Nat \ {0} /\ NWindows \in Nat /\ NWindows > 7

Masked == 3
Free == "free"
CallInc == 2                          \* the calls of the model are CALL8s
Out == [at |-> "out", lock |-> "", timed |-> FALSE, a7 |-> 0]
Wrap(w) == w % NWindows

\* Of a core: its level, nesting and saved level; where its task is in a
\* body of the guest (run); the locks it has entered (held) and its level
\* outside of all of them (base, histories); the task an interrupt has put
\* aside; an interrupt that is enabled and pending; its windows and the four
\* registers of the wrapper's window.
Core(l, live) ==
    [level |-> l, nest |-> 0, old |-> l, run |-> Out, held |-> <<>>, base |-> l,
     aside |-> <<>>, pending |-> FALSE,
     win |-> [base |-> 0, start |-> live, hazard |-> \E i \in 1..3 : i \in live,
              callsize |-> [w \in 0..(NWindows - 1) |-> 0],
              regs |-> [r \in {"a1", "a8", "a10", "a11"} |-> "task"]]]

CriticalInit ==
    \E l \in Levels, live \in {{0}, {0, NWindows - 1}, {0, 4}} :
        dev = [core |-> [c \in Cores |-> Core(l, live)],
               lock |-> [m \in Locks |-> [owner |-> Free, count |-> 0]],
               last |-> "other"]

At(c) == dev.core[c].run.at
Idle(c) == At(c) = "out"

-----------------------------------------------------------------------------
(* The guest's own bodies, instruction by instruction (external)          *)

\* ENTRY leaves the caller's window increment with the callee's window.
Called(d, c) ==
    [d EXCEPT !.core[c].win.callsize[Wrap(d.core[c].win.base + CallInc)] = CallInc]

\* Entered: RSIL has saved the level and masked interrupts.
Masks(d, c, m, timed) ==
    [Called(d, c) EXCEPT !.core[c].run = [at |-> "acquire", lock |-> m, timed |-> timed,
                               a7 |-> d.core[c].level],
              !.core[c].level = Masked]

\* S32C1I: takes a free lock, and reads the owner of another.
CanAcquire(d, c, m) == d.lock[m].owner \in {Free, c}

Acquires(d, c) ==
    [d EXCEPT !.lock[d.core[c].run.lock].owner = c, !.core[c].run.at = "count"]

Counts(d, c) ==
    [d EXCEPT !.lock[d.core[c].run.lock].count = @ + 1, !.core[c].run.at = "nest"]

\* The level outside is kept by the outermost section only.
Nests(d, c) ==
    LET k == d.core[c] IN
    [d EXCEPT !.core[c] = [@ EXCEPT !.nest = @ + 1,
                                    !.old = IF k.nest = 0 THEN k.run.a7 ELSE @,
                                    !.held = Append(@, k.run.lock),
                                    !.base = IF k.nest = 0 THEN k.run.a7 ELSE @,
                                    !.run = Out]]

\* A finite timeout ran out: the level is put back.
TimesOut(d, c) ==
    [d EXCEPT !.core[c] = [@ EXCEPT !.level = d.core[c].run.a7, !.run = Out]]

\* vPortExitCritical: the lock under RSIL, then the nesting.
Releases(d, c, m) ==
    [Called(d, c) EXCEPT !.lock[m] = [owner |-> IF @.count = 1 THEN Free ELSE @.owner,
                           count |-> @.count - 1],
              !.core[c].run = [Out EXCEPT !.at = "unnest", !.lock = m]]

Last(m, held) == CHOOSE i \in 1..Len(held) :
                     held[i] = m /\ \A j \in (i + 1)..Len(held) : held[j] # m
Without(m, held) == SubSeq(held, 1, Last(m, held) - 1)
                    \o SubSeq(held, Last(m, held) + 1, Len(held))

Unnests(d, c) ==
    LET k == d.core[c] IN
    [d EXCEPT !.core[c] =
        [@ EXCEPT !.nest = IF @ >= 1 THEN @ - 1 ELSE @,
                  !.level = IF k.nest = 1 THEN k.old ELSE @,
                  !.held = Without(k.run.lock, @), !.run = Out]]

\* The bodies run from one end to the other with nobody in between.
GuestEnters(d, c, m) == Nests(Counts(Acquires(Masks(d, c, m, FALSE), c), c), c)
GuestExits(d, c, m) == Unnests(Releases(d, c, m), c)

-----------------------------------------------------------------------------
(* The hooks *)

WindowsFree(k, n) == \A i \in 1..n : Wrap(k.win.base + i) \notin k.win.start

\* fw_native_span_safe and the callers' test of enabled pending interrupts;
\* room says that no timer event and no end of the batch is near.
SpanSafe(k, room) == room /\ ~k.pending

EnterTaken(d, c, m, room) ==
    /\ WindowsFree(d.core[c], CallInc + 3)
    /\ CanAcquire(d, c, m)
    /\ SpanSafe(d.core[c], room)

\* stub_idf_port_enter, when it does not decline.
Entered(d, c, m) ==
    LET k == d.core[c]
        first == k.nest + 1 = 1
    IN [Called(d, c) EXCEPT !.lock[m] = [owner |-> c, count |-> @.count + 1],
                 !.core[c] = [@ EXCEPT !.nest = @ + 1,
                                       !.old = IF first THEN k.level ELSE @,
                                       !.level = Masked,
                                       !.held = Append(@, m),
                                       !.base = IF first THEN k.level ELSE @]]

ExitTaken(d, c, room) == WindowsFree(d.core[c], CallInc + 2) /\ SpanSafe(d.core[c], room)

\* stub_idf_port_exit, when it does not decline.
Exited(d, c, m) ==
    LET k == d.core[c]
        count == d.lock[m].count - 1
        nest == IF k.nest >= 1 THEN k.nest - 1 ELSE k.nest
        restore == k.nest >= 1 /\ nest = 0
    IN [Called(d, c) EXCEPT !.lock[m] = [owner |-> IF count = 0 THEN Free ELSE @.owner,
                              count |-> count],
                 !.core[c] = [@ EXCEPT !.nest = nest,
                                       !.level = IF restore THEN k.old ELSE @,
                                       !.held = Without(m, @)]]

\* stub_idf_heap_lock_wrapper: ENTRY, the argument registers and the CALL8.
Prefix(d, c, enter) ==
    LET w == Wrap(d.core[c].win.base + CallInc) IN
    [d EXCEPT !.core[c].win =
        [base |-> w, start |-> @.start \cup {w},
         hazard |-> \E i \in 1..3 : Wrap(w + i) \in @.start,
         callsize |-> [@.callsize EXCEPT ![w] = CallInc],
         regs |-> [a1 |-> "sp", a8 |-> "link", a10 |-> "mux",
                   a11 |-> IF enter THEN "forever" ELSE @.regs.a11]]]

\* The nested hook declined: only the prefix is taken back.
Undo(d, saved, c) ==
    LET k == saved.core[c] IN
    [d EXCEPT !.core[c].win =
        [base |-> k.win.base, start |-> k.win.start, hazard |-> k.win.hazard,
         callsize |-> [@.callsize EXCEPT ![Wrap(k.win.base + CallInc)] =
                                      k.win.callsize[Wrap(k.win.base + CallInc)]],
         regs |-> k.win.regs]]

\* The nested hook has returned to the wrapper's RETW.
Suffix(d, c) ==
    LET w == d.core[c].win.base
        b == Wrap(w + NWindows - CallInc)
        live == d.core[c].win.start \ {w}
    IN [d EXCEPT !.core[c].win = [@ EXCEPT !.base = b, !.start = live,
                                           !.hazard = \E i \in 1..3 : Wrap(b + i) \in live]]

\* The wrapper asks for room for its longest path.
WrapperRuns(k) == WindowsFree(k, CallInc) /\ SpanSafe(k, TRUE)

-----------------------------------------------------------------------------
(* Actions *)

MayEnter(c) == Idle(c) /\ Len(dev.core[c].held) < CriticalMaxDepth
Holds(c, m) == \E i \in 1..Len(dev.core[c].held) : dev.core[c].held[i] = m

\* A section an interrupt routine has entered is left before the task's own.
MayExit(c, m) ==
    /\ Idle(c) /\ Holds(c, m)
    /\ \A i \in 1..Len(dev.core[c].aside) : Last(m, dev.core[c].held) > dev.core[c].aside[i].depth

Become(d, what) == dev' = [d EXCEPT !.last = what]

\* The hook takes a call of enter with no timeout, or declines it and the
\* guest's body begins.
Enter(c, m) ==
    /\ MayEnter(c)
    /\ \E room \in BOOLEAN :
       IF EnterTaken(dev, c, m, room) THEN Become(Entered(dev, c, m), "entered")
       ELSE Become(Masks(dev, c, m, FALSE), "other")

\* A finite timeout is always the guest's.
EnterTimeout(c, m) == MayEnter(c) /\ Become(Masks(dev, c, m, TRUE), "other")

Exit(c, m) ==
    /\ MayExit(c, m)
    /\ \E room \in BOOLEAN :
       IF ExitTaken(dev, c, room) THEN Become(Exited(dev, c, m), "exited")
       ELSE Become(Releases(dev, c, m), "other")

\* multi_heap_internal_lock and unlock of a heap that has a lock.
HeapLock(c, m) ==
    /\ MayEnter(c) /\ WrapperRuns(dev.core[c])
    /\ LET d == Prefix(dev, c, TRUE) IN
       IF EnterTaken(d, c, m, TRUE) THEN Become(Suffix(Entered(d, c, m), c), "wrapped")
       ELSE Become(Undo(d, dev, c), "declined")

HeapUnlock(c, m) ==
    /\ MayExit(c, m) /\ WrapperRuns(dev.core[c])
    /\ LET d == Prefix(dev, c, FALSE) IN
       IF ExitTaken(d, c, TRUE) THEN Become(Suffix(Exited(d, c, m), c), "unwrapped")
       ELSE Become(Undo(d, dev, c), "declined")

\* The steps of a body the guest runs itself.
Guest(c) ==
    \/ /\ At(c) = "acquire" /\ CanAcquire(dev, c, dev.core[c].run.lock)
       /\ Become(Acquires(dev, c), "other")
    \/ At(c) = "acquire" /\ dev.core[c].run.timed /\ Become(TimesOut(dev, c), "other")
    \/ At(c) = "count" /\ Become(Counts(dev, c), "other")
    \/ At(c) = "nest" /\ Become(Nests(dev, c), "other")
    \/ At(c) = "unnest" /\ Become(Unnests(dev, c), "other")

\* A device asserts an interrupt of level 1; the core takes it when the level
\* allows.  The routine runs at that level and puts the task aside.
Assert(c) == ~dev.core[c].pending /\ Become([dev EXCEPT !.core[c].pending = TRUE], "other")

CriticalInterrupt(c) ==
    LET k == dev.core[c] IN
    /\ k.pending /\ k.level = 0 /\ k.aside = <<>>
    /\ Become([dev EXCEPT !.core[c] =
                  [@ EXCEPT !.pending = FALSE, !.level = 1, !.run = Out,
                            !.aside = <<[level |-> 0, run |-> k.run, base |-> k.base,
                                         depth |-> Len(k.held)]>>]], "other")

Return(c) ==
    LET k == dev.core[c] IN
    /\ k.aside # <<>> /\ Idle(c) /\ Len(k.held) = k.aside[1].depth
    /\ Become([dev EXCEPT !.core[c] =
                  [@ EXCEPT !.level = k.aside[1].level, !.run = k.aside[1].run,
                            !.base = k.aside[1].base, !.aside = <<>>]], "other")

CriticalNext ==
    \/ \E c \in Cores, m \in Locks :
           Enter(c, m) \/ EnterTimeout(c, m) \/ Exit(c, m) \/ HeapLock(c, m) \/ HeapUnlock(c, m)
    \/ \E c \in Cores : Guest(c) \/ Assert(c) \/ CriticalInterrupt(c) \/ Return(c)

CriticalSpec == CriticalInit /\ [][CriticalNext]_dev

-----------------------------------------------------------------------------
CriticalTypeOK ==
    /\ \A m \in Locks : dev.lock[m].owner \in Cores \cup {Free} /\ dev.lock[m].count \in Nat
    /\ \A c \in Cores : /\ dev.core[c].level \in 0..Masked
                        /\ dev.core[c].nest \in 0..CriticalMaxDepth
                        /\ dev.core[c].win.start \subseteq 0..(NWindows - 1)

Times(c, m) == Cardinality({i \in 1..Len(dev.core[c].held) : dev.core[c].held[i] = m})
Releasing(c, m) == At(c) = "unnest" /\ dev.core[c].run.lock = m
Counting(c, m) == At(c) = "nest" /\ dev.core[c].run.lock = m

\* However the two forms mix, on two cores and under interrupts, a lock is
\* inside at most one core's sections, its count is the number of those it
\* is in, and it is free when there are none.
Exclusive ==
    \A m \in Locks :
        /\ Cardinality({c \in Cores : Times(c, m) - (IF Releasing(c, m) THEN 1 ELSE 0) > 0}) <= 1
        /\ \A c \in Cores :
               dev.lock[m].owner = c =>
                   dev.lock[m].count = Times(c, m) + (IF Counting(c, m) THEN 1 ELSE 0)
                                       - (IF Releasing(c, m) THEN 1 ELSE 0)
        /\ dev.lock[m].owner = Free => \A c \in Cores : Times(c, m) = 0 \/ Releasing(c, m)

\* Inside a section a core's interrupts are masked, and outside of all of
\* them its level is the one it had before the outermost.
LevelKept ==
    \A c \in Cores :
        LET k == dev.core[c] IN
        /\ k.nest = Len(k.held)
        /\ k.nest > 0 => k.level = Masked
        /\ k.nest > 0 => k.old = k.base

\* A hook that takes a call leaves the machine as the guest's own body would,
\* the wrapper's as the body between an ENTRY and a RETW would, and one that
\* declines leaves no trace of the attempt.
HookStep ==
    \A c \in Cores, m \in Locks :
        /\ dev'.last = "entered" /\ dev'.core[c].held = Append(dev.core[c].held, m)
               => [dev' EXCEPT !.last = ""] = [GuestEnters(dev, c, m) EXCEPT !.last = ""]
        /\ dev'.last = "exited" /\ Len(dev'.core[c].held) < Len(dev.core[c].held)
           /\ Times(c, m) > 0 /\ dev'.lock[m] # dev.lock[m]
               => [dev' EXCEPT !.last = ""] = [GuestExits(dev, c, m) EXCEPT !.last = ""]
        /\ dev'.last = "wrapped" /\ dev'.core[c].held = Append(dev.core[c].held, m)
               => [dev' EXCEPT !.last = ""]
                      = [Suffix(GuestEnters(Prefix(dev, c, TRUE), c, m), c) EXCEPT !.last = ""]
        /\ dev'.last = "declined" => [dev' EXCEPT !.last = ""] = [dev EXCEPT !.last = ""]
HooksExact == [][HookStep]_dev
=============================================================================
