------------------------------ MODULE FrtSched ------------------------------
(***************************************************************************)
(* The task table and the dispatcher of the FreeRTOS compatibility layer   *)
(* (src/src/freertos_stubs.c).  The module has no actions of its own: the  *)
(* operators below are the scheduler internals (sched_xxx) that every        *)
(* FreeRTOS service stub calls, written so that a stub is ONE action.      *)
(*                                                                         *)
(* Task indices are 1..MaxTasks (the code counts from 0); None stands for  *)
(* current_task[core] = -1.  Register files are abstracted to whose code   *)
(* they hold: exec[c] is the context the CPU of core c really executes,    *)
(* saved[i] the context stored in the TCB of task i.  Boot is any code     *)
(* that is not a registered task (startup code, app_main, callbacks).      *)
(*                                                                         *)
(* Time is the single timeline the session publishes to both cores at the  *)
(* end of every batch: wake[i] is how far wake_cycle lies in the future    *)
(* and slice[c] says whether a full tick has passed since the last switch. *)
(***************************************************************************)
EXTENDS Integers, FiniteSets

CONSTANTS
    MaxTasks,   \* MAX_TASKS: slots of the TCB table, never reused
    Prios,      \* the task priorities the guest uses (all below 20)
    MaxDelay    \* longest timeout, in ticks, that a guest call passes

ASSUME SchedAssumption ==
    /\ MaxTasks \in Nat \ {0}
    /\ Prios \subseteq Nat
    /\ MaxDelay \in Nat \ {0}

\* struct freertos_stubs (the task table and the per-core words) and the two CPUs as
\* far as the scheduler touches them.
VARIABLES
    task_count,         \* registered TCBs
    attr,               \* priority, affinity and is_idle of each TCB
    state,              \* task_state_t of each TCB
    waits,              \* the wait flags set in each TCB
    wake,               \* ticks until wake_cycle
    saved,              \* whose context each TCB holds
    current,            \* current_task[core]
    exec,               \* whose code each CPU executes
    running,            \* cpu->running
    halted,             \* cpu->halted
    slice,              \* has a full tick passed since last_switch_cycle?
    idle_task,          \* idle_task[core]
    idle_ready,
    scheduler_started,
    guest_call          \* is a synthetic guest call active, and was the core
                        \* awake or halted when it began?

tableVars == <<task_count, attr, idle_task, idle_ready>>
taskVars  == <<state, waits, wake, saved>>
coreVars  == <<current, exec, running, halted, slice>>
schedVars == <<task_count, attr, idle_task, idle_ready, state, waits, wake,
               saved, current, exec, running, halted, slice,
               scheduler_started, guest_call>>

Tasks == 1 .. MaxTasks
Cores == {0, 1}
None  == 0
Boot  == 0
NoAffinity == -1

\* task_state_t.  "queue", "notify", "eventgroup" are the BLOCKED_* states.
States == {"unused", "ready", "running", "sleeping", "queue", "notify",
           "eventgroup", "suspended"}

Blocked == {"sleeping", "queue", "notify", "eventgroup", "suspended"}

\* The four independent *_waiting flags of a TCB, and q_is_sender.
WaitKinds == {"q", "notify", "eg", "rb", "sender"}

Attrs == [prio : Prios \cup {0}, affinity : {NoAffinity} \cup Cores,
          is_idle : BOOLEAN]

BlankAttr == [prio |-> 0, affinity |-> NoAffinity, is_idle |-> FALSE]

IdleAttr(c) == [prio |-> 0, affinity |-> c, is_idle |-> TRUE]

SchedTypeOK ==
    /\ task_count \in 0 .. MaxTasks
    /\ attr \in [Tasks -> Attrs]
    /\ state \in [Tasks -> States]
    /\ waits \in [Tasks -> SUBSET WaitKinds]
    /\ wake \in [Tasks -> 0 .. MaxDelay]
    /\ saved \in [Tasks -> {Boot} \cup Tasks]
    /\ current \in [Cores -> {None} \cup Tasks]
    /\ exec \in [Cores -> {Boot} \cup Tasks]
    /\ running \in [Cores -> BOOLEAN]
    /\ halted \in [Cores -> BOOLEAN]
    /\ slice \in [Cores -> BOOLEAN]
    /\ idle_task \in [Cores -> {None} \cup Tasks]
    /\ idle_ready \in BOOLEAN
    /\ scheduler_started \in BOOLEAN
    /\ guest_call \in [Cores -> {"none", "awake", "halted"}]

\* freertos_stubs_create() and the CPUs of a freshly built session: an empty
\* table, core 0 in boot code, core 1 not yet released.
SchedInit ==
    /\ task_count = 0
    /\ attr = [i \in Tasks |-> BlankAttr]
    /\ state = [i \in Tasks |-> "unused"]
    /\ waits = [i \in Tasks |-> {}]
    /\ wake = [i \in Tasks |-> 0]
    /\ saved = [i \in Tasks |-> Boot]
    /\ current = [c \in Cores |-> None]
    /\ exec = [c \in Cores |-> Boot]
    /\ running = [c \in Cores |-> c = 0]
    /\ halted = [c \in Cores |-> FALSE]
    /\ slice = [c \in Cores |-> FALSE]
    /\ idle_task = [c \in Cores |-> None]
    /\ idle_ready = FALSE
    /\ scheduler_started = FALSE
    /\ guest_call = [c \in Cores |-> "none"]

-----------------------------------------------------------------------------
\* Who may call a stub: a core that executes instructions.  A guest call is
\* synchronous, so while one runs no other core makes progress.
InGuestCall(c) == guest_call[c] # "none"

Executes(c) == running[c] /\ ~halted[c] /\ ~InGuestCall(1 - c)

\* Between two batches neither core is inside a stub or a guest call.
AtBoundary == \A c \in Cores : ~InGuestCall(c)

\* A stub attributes its caller to current_task[core].
Scheduled(c) == Executes(c) /\ scheduler_started /\ current[c] # None

\* The TCB fields a stub works on before it switches; a stub edits a copy
\* with EXCEPT and hands it to SchedSwitch or Commit.
Tcbs == [state |-> state, waits |-> waits, wake |-> wake, saved |-> saved]

Commit(T) ==
    /\ state' = T.state
    /\ waits' = T.waits
    /\ wake' = T.wake
    /\ saved' = T.saved

\* sched_save_context(): refused inside a synthetic guest call.
SaveContext(c, T) ==
    IF InGuestCall(c) THEN T
    ELSE [T EXCEPT !.saved = [T.saved EXCEPT ![current[c]] = exec[c]]]

\* The calling task enters state s.
Enter(c, s, T) == [T EXCEPT !.state = [T.state EXCEPT ![current[c]] = s]]

\* The calling task waits: for ever in state s, or asleep for a finite timeout,
\* with the wait flags set.
Forever == -1

Timeouts == {Forever} \cup (1 .. MaxDelay)

WaitFor(c, s, flags, timeout, T0) ==
    LET me == current[c]
        T  == [T0 EXCEPT !.waits = [T0.waits EXCEPT ![me] = @ \cup flags]]
    IN  IF timeout = Forever THEN Enter(c, s, T)
        ELSE [Enter(c, "sleeping", T) EXCEPT
                !.wake = [T.wake EXCEPT ![me] = timeout]]

\* sched_wake_sleepers(): every task whose deadline has passed is made READY
\* and every wait it was in ends (q_is_sender only with a queue wait).
Expired(T, i) == i <= task_count /\ T.state[i] = "sleeping" /\ T.wake[i] = 0

WakeSleepers(T) ==
    [T EXCEPT
       !.state = [i \in Tasks |-> IF Expired(T, i) THEN "ready" ELSE T.state[i]],
       !.waits = [i \in Tasks |->
                    IF ~Expired(T, i) THEN T.waits[i]
                    ELSE IF "q" \in T.waits[i] THEN {}
                    ELSE T.waits[i] \cap {"sender"}]]

\* READY tasks that may run on core c; idle tasks are only the fallback.
BugEligibleAnyCore(c, T) ==      \* mutation: core_affinity is not looked at
    {i \in 1 .. task_count : T.state[i] = "ready" /\ ~attr[i].is_idle}

Eligible(c, T) ==
    {i \in 1 .. task_count : /\ T.state[i] = "ready"
                             /\ ~attr[i].is_idle
                             /\ attr[i].affinity \in {NoAffinity, c}}

BugHighestPrioAny(S) == S        \* mutation: the first READY task will do

HighestPrio(S) == {i \in S : \A j \in S : attr[j].prio <= attr[i].prio}

\* How far task i lies behind task cur in the circular search of the table.
Distance(cur, i) == IF i > cur THEN i - cur ELSE i - cur + task_count

FirstAfter(cur, S) ==
    {i \in S : \A j \in S : Distance(cur, i) <= Distance(cur, j)}

\* sched_pick_next() when there is real work: highest priority first, round
\* robin among equals starting after the current task.
Picked(c, cur, T) == FirstAfter(cur[c], HighestPrio(Eligible(c, T)))

-----------------------------------------------------------------------------
BugAdoptNoRestore(c, n, cur, T) ==   \* mutation: the context is not restored
    /\ Commit([T EXCEPT !.state = [T.state EXCEPT ![n] = "running"]])
    /\ current' = [cur EXCEPT ![c] = n]
    /\ slice' = [slice EXCEPT ![c] = FALSE]
    /\ UNCHANGED exec

\* Adopt task n on core c: current_task, RUNNING, last_switch_cycle and
\* sched_restore_context().
Adopt(c, n, cur, T) ==
    /\ Commit([T EXCEPT !.state = [T.state EXCEPT ![n] = "running"]])
    /\ current' = [cur EXCEPT ![c] = n]
    /\ exec' = [exec EXCEPT ![c] = T.saved[n]]
    /\ slice' = [slice EXCEPT ![c] = FALSE]

\* frt_install_idle_tasks(): one pinned idle task per core, in two slots of
\* the same table.  With one slot left only core 0 gets one and idle_ready
\* stays false; with none left nothing is installed.
CanInstallIdle == task_count + 2 <= MaxTasks

InstallIdle ==
    /\ task_count' = task_count + 2
    /\ attr' = [attr EXCEPT ![task_count + 1] = IdleAttr(0),
                            ![task_count + 2] = IdleAttr(1)]
    /\ idle_task' = [c \in Cores |-> task_count + 1 + c]
    /\ idle_ready' = TRUE

InstallHalfIdle ==
    /\ task_count' = task_count + 1
    /\ attr' = [attr EXCEPT ![task_count + 1] = IdleAttr(0)]
    /\ idle_task' = [idle_task EXCEPT ![0] = task_count + 1]
    /\ idle_ready' = idle_ready

\* A freshly registered TCB: READY, no wait, its own entry context.
Fresh(n, T) ==
    [T EXCEPT !.state = [T.state EXCEPT ![n] = "ready"],
              !.waits = [T.waits EXCEPT ![n] = {}],
              !.saved = [T.saved EXCEPT ![n] = n]]

\* sched_pick_next() with an answer, and what every caller does with it: on
\* core c, with the current tasks cur and the TCBs T0 the stub has produced,
\* adopt real work, or else the idle task, installed on first need.
AdoptNext(c, cur, T0) ==
    LET T == WakeSleepers(T0)
    IN  \/ /\ \E n \in Picked(c, cur, T) : Adopt(c, n, cur, T)
           /\ UNCHANGED tableVars
        \/ /\ Eligible(c, T) = {}
           /\ idle_ready
           /\ Adopt(c, idle_task[c], cur, T)
           /\ UNCHANGED tableVars
        \/ /\ Eligible(c, T) = {}
           /\ ~idle_ready
           /\ CanInstallIdle
           /\ InstallIdle
           /\ Adopt(c, task_count + 1 + c, cur,
                    Fresh(task_count + 1, Fresh(task_count + 2, T)))

\* sched_pick_next() returns -1: no real work and no room for idle tasks.
NothingToRun(c, T0) ==
    LET T == WakeSleepers(T0)
    IN  /\ Eligible(c, T) = {}
        /\ ~idle_ready
        /\ ~CanInstallIdle
        /\ IF task_count < MaxTasks
           THEN InstallHalfIdle /\ Commit(Fresh(task_count + 1, T))
           ELSE UNCHANGED tableVars /\ Commit(T)

\* sched_switch() found nothing to run: current_task is cleared and the core
\* waits, interruptible, in the context it was executing.
Park(c) ==
    /\ current' = [current EXCEPT ![c] = None]
    /\ running' = [running EXCEPT ![c] = TRUE]
    /\ halted' = [halted EXCEPT ![c] = TRUE]
    /\ UNCHANGED <<exec, slice>>

\* sched_switch(): nothing at all happens inside a synthetic guest call, not
\* even the undoing of the state the stub has already written.
SchedSwitch(c, T) ==
    IF InGuestCall(c)
    THEN Commit(T) /\ UNCHANGED <<tableVars, coreVars>>
    ELSE \/ AdoptNext(c, current, T) /\ UNCHANGED <<running, halted>>
         \/ NothingToRun(c, T) /\ Park(c)

\* A service that releases a waiter which is (still) current on some core
\* leaves it RUNNING there and un-parks the core, otherwise makes it READY.
CurrentOn(i) == {c \in Cores : current[c] = i}

ReleasedState(i) == IF CurrentOn(i) # {} THEN "running" ELSE "ready"

Unparked(i) ==
    /\ running' = [c \in Cores |-> running[c] \/ current[c] = i]
    /\ halted' = [c \in Cores |-> halted[c] /\ current[c] # i]

-----------------------------------------------------------------------------
\* The core leaves WAITI, and the session lets a parked core 1 run again.
Resume(c) ==
    /\ halted' = [halted EXCEPT ![c] = FALSE]
    /\ running' = [running EXCEPT ![c] = running[c] \/ c = 1]

\* An idle task ranks below every priority.
CurPrio(c) == IF attr[current[c]].is_idle THEN -1 ELSE attr[current[c]].prio

Rivals(c, T) == HighestPrio(Eligible(c, T) \ {current[c]})

\* At equal priority the search starts again and also accepts idle tasks.
Equals(c, T) ==
    {i \in (1 .. task_count) \ {current[c]} :
        /\ T.state[i] = "ready"
        /\ attr[i].prio = CurPrio(c)
        /\ attr[i].affinity \in {NoAffinity, c}}

BugSuccessorsNoSlice(c, T) ==   \* mutation: equals are never rotated
    FirstAfter(current[c], {i \in Rivals(c, T) : attr[i].prio > CurPrio(c)})

Successors(c, T) ==
    LET best == {i \in Rivals(c, T) : attr[i].prio > CurPrio(c)}
        tie  == {i \in Rivals(c, T) : attr[i].prio = CurPrio(c)}
    IN  IF best # {} THEN FirstAfter(current[c], best)
        ELSE IF tie # {} /\ slice[c] THEN FirstAfter(current[c], Equals(c, T))
        ELSE {}

BugGiveWayStaysRunning(c, T) == T   \* mutation: RUNNING is not taken back

\* A running task gives way and becomes READY; one that is blocked or
\* suspended keeps its state.
GiveWay(c, T) ==
    IF T.state[current[c]] = "running" THEN Enter(c, "ready", T) ELSE T

\* freertos_stubs_check_preempt_core() on a core that has a current task.
Preempt(c) ==
    /\ LET T == WakeSleepers(Tcbs)
       IN  \/ /\ Successors(c, T) = {}
              /\ Commit(T)
              /\ UNCHANGED coreVars
           \/ /\ \E n \in Successors(c, T) :
                    Adopt(c, n, current, GiveWay(c, SaveContext(c, T)))
              /\ Resume(c)
    /\ UNCHANGED tableVars

BugTickNoFloor ==   \* mutation: time past a deadline is counted
    /\ AtBoundary
    /\ wake' = [i \in Tasks |-> wake[i] - 1]
    /\ slice' = [c \in Cores |-> TRUE]
    /\ UNCHANGED <<tableVars, state, waits, saved, current, exec, running,
                   halted, scheduler_started>>

\* One tick of guest time, on the timeline both cores share.
SchedTick ==
    /\ AtBoundary
    /\ wake' = [i \in Tasks |-> IF wake[i] > 0 THEN wake[i] - 1 ELSE 0]
    /\ slice' = [c \in Cores |-> TRUE]
    /\ UNCHANGED <<tableVars, state, waits, saved, current, exec, running,
                   halted, scheduler_started>>

-----------------------------------------------------------------------------
\* A system in which the scheduler has been running for a while: all slots
\* taken, the last two by the idle tasks, which are current because every
\* application task has just been made READY by an interrupt.
RunningInit(A) ==
    LET idle == [c \in Cores |-> MaxTasks - 1 + c]
    IN  /\ task_count = MaxTasks
        /\ attr = [i \in Tasks |-> IF i = idle[0] THEN IdleAttr(0)
                                   ELSE IF i = idle[1] THEN IdleAttr(1)
                                   ELSE A[i]]
        /\ state = [i \in Tasks |-> IF i \in {idle[0], idle[1]} THEN "running"
                                    ELSE "ready"]
        /\ waits = [i \in Tasks |-> {}]
        /\ wake = [i \in Tasks |-> 0]
        /\ saved = [i \in Tasks |-> i]
        /\ current = idle
        /\ exec = idle
        /\ running = [c \in Cores |-> TRUE]
        /\ halted = [c \in Cores |-> FALSE]
        /\ slice = [c \in Cores |-> FALSE]
        /\ idle_task = idle
        /\ idle_ready = TRUE
        /\ scheduler_started = TRUE
        /\ guest_call = [c \in Cores |-> "none"]

\* The application tasks of such a system.
AppTasks == 1 .. (MaxTasks - 2)

\* A stub that neither switches nor touches any task.
NoSwitch == UNCHANGED schedVars
=============================================================================
