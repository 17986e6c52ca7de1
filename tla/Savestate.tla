----------------------------- MODULE Savestate -----------------------------
(***************************************************************************)
(* Checkpoints (savestate.c, with freertos_stubs_save_state and            *)
(* freertos_stubs_restore_state and the two call sites of main.c).  A      *)
(* checkpoint is written section by section into a file named by the cycle *)
(* count, and read back section by section into the live structures; a     *)
(* write may fail and the process may die between any two sections.        *)
(*                                                                         *)
(* The machine's parts are represented by the epoch (the cycle count) they *)
(* belong to.  Next to them the module keeps what is derived from the      *)
(* saved registers and not saved itself: window_hazard, computed from      *)
(* WINDOWBASE and WINDOWSTART (win), and the hint irq_check that a pending *)
(* interrupt has yet to be looked at.                                      *)
(***************************************************************************)
EXTENDS Integers, Sequences

CONSTANTS
    MaxEpoch,     \* machine steps of one behaviour
    Geometries,   \* targets and backing sizes a process may be started with
    Interval,     \* checkpoint_interval in epochs
    TaskSlots     \* slots of the task table left for idle tasks

VARIABLE dev

vars == <<dev>>

SavestateAssumption ==
    /\ MaxEpoch \in Nat \ {0} /\ Interval \in Nat \ {0} /\ Geometries # {}
    /\ TaskSlots \in Nat

Sections == <<"header", "core0", "memory", "marker", "frt">>
NoFile == <<>>

\* A section as it is in a file: what it is, whose epoch, and in the core's
\* section the registers the caches are derived from.
Fresh == [core0 |-> 0, core1 |-> 0, memory |-> 0, frt |-> 0,
          win |-> 0, hazard |-> 0, pending |-> FALSE, irq_check |-> FALSE,
          scheduler |-> FALSE, idles |-> 0, idle_ready |-> FALSE, mixed |-> FALSE]

\* A process is stopped, runs, saves (written sections so far) or restores
\* (sections read so far); stubs says whether it has the FreeRTOS stubs.
Init ==
    dev \in [phase : {"stopped"}, machine : {Fresh}, geometry : Geometries,
             stubs : BOOLEAN, files : {[e \in 1..MaxEpoch |-> NoFile]},
             at : {1}, done : {0}, due : {Interval}]

-----------------------------------------------------------------------------
(* The machine runs: all its parts advance together. *)

Epoch == dev.machine.core0

\* One batch; the guest may have called or returned (win) and every change
\* of the window registers refreshes the cached hazard.
Run ==
    /\ dev.phase = "running" /\ Epoch < MaxEpoch
    /\ \E win \in 0..1 :
         LET m == dev.machine IN
         dev' = [dev EXCEPT !.machine =
                   [m EXCEPT !.core0 = m.core0 + 1, !.core1 = m.core1 + 1,
                             !.memory = m.memory + 1,
                             !.frt = IF dev.stubs THEN m.frt + 1 ELSE m.frt,
                             !.win = win,
                             !.hazard = IF win = m.win THEN m.hazard ELSE win]]

\* frt_install_idle_tasks: two tasks are appended once, if there is room.
Schedule ==
    /\ dev.phase = "running" /\ dev.stubs
    /\ LET room == ~dev.machine.idle_ready /\ dev.machine.idles + 2 <= TaskSlots IN
       dev' = [dev EXCEPT !.machine.scheduler = TRUE,
                          !.machine.idle_ready = @ \/ room,
                          !.machine.idles = IF room THEN @ + 2 ELSE @]

Raise ==
    /\ dev.phase = "running"
    /\ dev' = [dev EXCEPT !.machine.pending = TRUE, !.machine.irq_check = TRUE]

Dispatch ==
    /\ dev.phase = "running" /\ dev.machine.irq_check
    /\ dev' = [dev EXCEPT !.machine.pending = FALSE, !.machine.irq_check = FALSE]

\* The process ends or is killed, also in the middle of a save.
Stop ==
    /\ dev.phase # "stopped"
    /\ dev' = [dev EXCEPT !.phase = "stopped", !.machine = Fresh, !.due = Interval]

-----------------------------------------------------------------------------
(* savestate_save *)

\* main.c: a checkpoint that is due waits for the scheduler and a running
\* core (halted: nondeterministic, it just stays due).
SaveBegin ==
    /\ dev.phase = "running" /\ Epoch >= dev.due /\ Epoch > 0
    /\ dev.stubs => dev.machine.scheduler
    /\ dev' = [dev EXCEPT !.phase = "saving", !.at = Epoch,
                          !.files[Epoch] = NoFile]         \* fopen "wb"

Content(section) ==
    LET m == dev.machine IN
    CASE section = "header" -> [is |-> "header", geometry |-> dev.geometry]
      [] section = "core0"  -> [is |-> "core0", epoch |-> m.core0, win |-> m.win,
                                pending |-> m.pending]
      [] section = "memory" -> [is |-> "memory", epoch |-> m.memory]
      [] section = "marker" -> [is |-> "marker", present |-> dev.stubs]
      [] section = "frt"    -> [is |-> "frt", epoch |-> m.frt, idles |-> m.idles,
                                scheduler |-> m.scheduler, mixed |-> m.mixed]

Last == IF dev.stubs THEN 5 ELSE 4

SaveSection ==
    /\ dev.phase = "saving" /\ Len(dev.files[dev.at]) < Last
    /\ LET n == Len(dev.files[dev.at]) + 1 IN
       dev' = [dev EXCEPT !.files[dev.at] = Append(@, Content(Sections[n]))]

\* The save ended, or a write failed: a warning, and the run goes on.
SaveEnd ==
    /\ dev.phase = "saving"
    /\ dev' = [dev EXCEPT !.phase = "running", !.due = @ + Interval]

-----------------------------------------------------------------------------
(* savestate_restore, at the start of a process *)

Boot ==
    /\ dev.phase = "stopped"
    /\ \E g \in Geometries, stubs \in BOOLEAN :
         \/ dev' = [dev EXCEPT !.phase = "running", !.geometry = g, !.stubs = stubs]
         \/ \E e \in 1..MaxEpoch :
              /\ dev.files[e] # NoFile
              /\ dev' = [dev EXCEPT !.phase = "restoring", !.at = e, !.done = 0,
                                    !.geometry = g, !.stubs = stubs]

\* A section from the file into the live structure.
Load(m, s) ==
    CASE s.is = "core0"  -> [m EXCEPT !.core0 = s.epoch, !.win = s.win,
                                      !.pending = s.pending]
      [] s.is = "memory" -> [m EXCEPT !.memory = s.epoch]
      [] s.is = "frt"    -> [m EXCEPT !.frt = s.epoch, !.idles = s.idles,
                                      !.scheduler = s.scheduler, !.mixed = s.mixed]
      [] OTHER -> m

File == dev.files[dev.at]

\* Why the next section ends the restore with an error, and the process.
Unusable ==
    \/ dev.done = Len(File)                                  \* short read
    \/ dev.done < Len(File) /\ dev.done = 0 /\ File[1].geometry # dev.geometry
    \/ dev.done < Len(File) /\ dev.done = 3 /\ File[4].present /\ ~dev.stubs

RestoreFails ==
    /\ dev.phase = "restoring" /\ Unusable
    /\ dev' = [dev EXCEPT !.phase = "stopped", !.machine = Fresh]

Finished == dev.done = 5 \/ (dev.done = 4 /\ ~File[4].present)

RestoreSection ==
    /\ dev.phase = "restoring" /\ ~Finished /\ ~Unusable
    /\ dev' = [dev EXCEPT
         !.done = @ + 1,
         !.machine = IF dev.done < Len(File) THEN Load(@, File[dev.done + 1]) ELSE @]

\* Without scheduler state in the file the stubs keep their own, and there
\* is only a warning; mixed is the history of that.
RestoreEnd ==
    /\ dev.phase = "restoring" /\ Finished
    /\ dev' = [dev EXCEPT !.phase = "running", !.machine.mixed = dev.stubs /\ (@ \/ dev.done = 4)]

-----------------------------------------------------------------------------
Next ==
    \/ Run \/ Schedule \/ Raise \/ Dispatch \/ Stop
    \/ SaveBegin \/ SaveSection \/ SaveEnd
    \/ Boot \/ RestoreFails \/ RestoreSection \/ RestoreEnd

Spec == Init /\ [][Next]_vars

-----------------------------------------------------------------------------
TypeOK ==
    /\ dev.phase \in {"stopped", "running", "saving", "restoring"}
    /\ dev.machine.core0 \in 0..MaxEpoch /\ dev.machine.memory \in 0..MaxEpoch
    /\ dev.machine.win \in 0..1 /\ dev.machine.hazard \in 0..1
    /\ \A e \in 1..MaxEpoch : Len(dev.files[e]) <= Len(Sections)

\* A machine that runs is never put together from two moments: core 0, the
\* memory and the scheduler belong to one epoch, whichever write failed or
\* process died while the checkpoint it was started from was written.
NeverTorn ==
    dev.phase \in {"running", "saving"} =>
        /\ dev.machine.core0 = dev.machine.memory
        /\ dev.stubs /\ ~dev.machine.mixed => dev.machine.frt = dev.machine.core0

\* A file that is long enough to be restored holds one moment: its own.
FilesWhole ==
    \A e \in 1..MaxEpoch : \A i \in 1..Len(dev.files[e]) :
        dev.files[e][i].is \in {"core0", "memory"} => dev.files[e][i].epoch = e

\* "No manual timer/interrupt reconfiguration needed": in a machine that
\* runs from a checkpoint, what is derived from the restored registers
\* follows them.
DerivedFollows ==
    dev.phase = "running" =>
        /\ dev.machine.hazard = dev.machine.win
        /\ dev.machine.pending => dev.machine.irq_check

\* "Save complete emulator state": the second core comes back too.
BothCores == dev.phase = "running" => dev.machine.core1 = dev.machine.core0

\* The idle tasks of a restored scheduler are not installed again.
IdleOnce == dev.machine.idles <= 2
=============================================================================
