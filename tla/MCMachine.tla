----------------------------- MODULE MCMachine ------------------------------
(***************************************************************************)
(* The processor and what stands around it, one part at a time: both       *)
(* engines, their decoders and the code cache, register windows,           *)
(* interrupts and the event clock, critical sections, the flash MMU, and   *)
(* savestates.  Words are four bits wide and CCOUNT three, so that they    *)
(* wrap.                                                                   *)
(***************************************************************************)
EXTENDS Integers

VARIABLES
    device,     \* which component is explored; it never changes
    dev         \* the state of that component

Isa == INSTANCE Xtensa WITH
    Width <- 4, Samples <- {1, 6, 14}
Native == INSTANCE Jit WITH
    Regs <- {1, 2}, Link <- 2,
    Kinds <- {"add", "movi", "rsr", "div", "s32c1i", "movsp", "load", "store", "ps", "lend", "branch", "call"},
    Length <- 2, Modulus <- 2, MaxCount <- 2,
    Ways <- 2, Threshold <- 2, MaxLoop <- 1, MaxBlocks <- 2, Stores <- {1, 7},
    MaxChanges <- 1
Mmu == INSTANCE FlashMmu WITH
    Cores <- {"pro", "app"}, DataEntries <- {"d0"}, CodeEntries <- {"i0", "i1"},
    Phys <- {"p0", "p1"}, Beyond <- {"p9"}, MaxVersions <- 1
Contexts == INSTANCE GuestContexts WITH
    Windows <- 7, Sizes <- {2, 3}, WindowMaxDepth <- 3, MaxRecords <- 3, Places <- {3},
    MaxSwitches <- 1,
    Cores <- {"pro", "app"}, Locks <- {"A"}, Levels <- {0}, CriticalMaxDepth <- 2,
    NWindows <- 8
Timing == INSTANCE EventTiming WITH
    Sources <- {"t0", "ext"}, CpuModulus <- 8, Offsets <- {1, 3}, MaxChain <- 2,
    MaxDepth <- 1, ExcmLevel <- 3,
    Fns <- {"a", "b"}, Slots <- 2, Delays <- {0, 2}, EventModulus <- 8,
    Starts <- {0, 6}, MaxCycles <- 2
Snapshot == INSTANCE Savestate WITH
    MaxEpoch <- 2, Geometries <- {"esp32", "s3"}, Interval <- 2, TaskSlots <- 4

ASSUME
    /\ Isa!XtensaAluAssumption
    /\ Isa!XtensaIsaAssumption
    /\ Native!JitBlockAssumption
    /\ Native!CodeCacheAssumption
    /\ Mmu!FlashMmuAssumption
    /\ Contexts!RegisterWindowsAssumption
    /\ Timing!CpuInterruptsAssumption
    /\ Timing!EventClockAssumption
    /\ Contexts!PortCriticalAssumption
    /\ Snapshot!SavestateAssumption

vars == <<device, dev>>

Init ==
    \/ device = "alu" /\ Isa!AluInit
    \/ device = "decode" /\ Isa!IsaInit
    \/ device = "block" /\ Native!BlockInit
    \/ device = "cache" /\ Native!CacheInit
    \/ device = "mmu" /\ Mmu!Init
    \/ device = "windows" /\ Contexts!WindowInit
    \/ device = "interrupts" /\ Timing!CpuInit
    \/ device = "events" /\ Timing!EventInit
    \/ device = "critical" /\ Contexts!CriticalInit
    \/ device = "savestate" /\ Snapshot!Init

Next ==
    /\ UNCHANGED device
    /\ \/ device = "alu" /\ Isa!AluNext
       \/ device = "decode" /\ Isa!IsaNext
       \/ device = "block" /\ Native!BlockNext
       \/ device = "cache" /\ Native!CacheNext
       \/ device = "mmu" /\ Mmu!Next
       \/ device = "windows" /\ Contexts!WindowNext
       \/ device = "interrupts" /\ Timing!CpuNext
       \/ device = "events" /\ Timing!EventNext
       \/ device = "critical" /\ Contexts!CriticalNext
       \/ device = "savestate" /\ Snapshot!Next

Spec == Init /\ [][Next]_vars

-----------------------------------------------------------------------------
\* The emulator has several readings of one instruction, and they agree: the interpreter's
\* and the native code's arithmetic, with its flags and shifts (jit.c emitters, exec_*), the
\* full decoder, the cached one, the register-window estimate, the block scanner and the
\* disassembler; native code leaves a block, by whichever exit, with the program counter
\* and the counts the interpreter would have, and with its registers (jit_compile_block);
\* and a hook that runs a whole guest function, or declines to, with the machine the guest
\* would have left.  Three disagreements of the code are left out by name: the registers
\* that an inline exit of a self-looping block leaves in host registers (LeftBehind), L16SI
\* in the register-window estimate, and the encodings
\* DisassemblyMostlyTrue names.
EnginesAgree ==
    /\ [](/\ device = "alu" => Isa!EnginesAgree /\ Isa!Identities
          /\ device = "decode" =>
               /\ Isa!CachedAgrees /\ Isa!NeedCoversListed
               /\ Isa!JitBlocksStraight /\ Isa!DisassemblyMostlyTrue
          /\ device = "block" =>
               /\ Native!ExitExact /\ Native!EffectsExact /\ Native!InStep)
    /\ [][/\ device = "critical" => Contexts!HookStep]_vars

\* No engine executes what is no longer there: a mapping the MMU has replaced; code in RAM
\* that was overwritten while its translation was chained, running or waiting to be flushed;
\* code in flash that was programmed or remapped, from the dispatcher's next entry on - a
\* chain or a native loop that is running goes on through it (ChainsNotStale does not hold);
\* a loop body past its end, when the dispatcher entered it; and a savestate that was cut
\* off is never restored (flexe_flash_mmu_write, jit_notify_code_modified,
\* savestate_restore).
NothingStale ==
    /\ device = "mmu" => Mmu!MappingsHonoured /\ Mmu!NoStaleCode
    /\ device = "cache" =>
         /\ Native!NoStaleTranslation /\ Native!FlushNotForgotten
         /\ Native!BytesWatched /\ Native!BodyStaysInLoop
    /\ device = "savestate" => Snapshot!NeverTorn /\ Snapshot!FilesWhole

\* Whoever is interrupted, called over or switched away from finds its registers, level and
\* locks as it left them: frames spilled and refilled by any path, also through the
\* accelerated spill records (window_accel.c), nested interrupts and exceptions with their
\* EPC and EPS, and critical sections of two cores in whichever mixture of guest code and
\* hooks.
ContextsKept ==
    /\ device = "windows" =>
         /\ Contexts!FramesPreserved /\ Contexts!LiveAreFrames
         /\ Contexts!HazardCurrent
    /\ device = "interrupts" => Timing!ContextKept
    /\ device = "critical" => Contexts!Exclusive /\ Contexts!LevelKept

\* The shortcuts of the event loop skip no event: with irq_check clear there is nothing to
\* take, a compare that CCOUNT has come to or overshot is latched by the next instruction's
\* test, no callback of the event clock runs late or is forgotten, and no FreeRTOS tick is
\* skipped by the event clock's own jumps (xtensa_check_interrupts, timer_event_recompute,
\* periph_event_dispatch).  The events the code does lose are left out: one that the same
\* step passes and wraps CCOUNT beyond, because the loop compares unsigned - the run
\* "overshoot" shows it - and one that falls on the CCOUNT that means "no event".
NoEventLost ==
    /\ [](/\ device = "interrupts" => Timing!HintCovers /\ Timing!DueIsLatched
          /\ device = "events" => Timing!NoDeadlineMissed)
    /\ [][/\ device = "events" => Timing!TickStep]_vars

\* The type invariants of the components.
TypeOK ==
    /\ device = "alu" => Isa!AluTypeOK
    /\ device = "decode" => Isa!IsaTypeOK
    /\ device = "block" => Native!BlockTypeOK
    /\ device = "cache" => Native!CacheTypeOK
    /\ device = "mmu" => Mmu!TypeOK
    /\ device = "windows" => Contexts!WindowTypeOK
    /\ device = "interrupts" => Timing!CpuTypeOK
    /\ device = "events" => Timing!EventTypeOK
    /\ device = "critical" => Contexts!CriticalTypeOK
    /\ device = "savestate" => Snapshot!TypeOK
=============================================================================
