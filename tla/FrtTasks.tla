------------------------------ MODULE FrtTasks ------------------------------
(***************************************************************************)
(* Task management of the FreeRTOS compatibility layer: creation, the two  *)
(* ways the scheduler starts, delay, yield, suspend / resume, delete, the  *)
(* preemption check the session makes at every batch boundary, and         *)
(* synthetic guest calls (guest_call8) that run callbacks on an            *)
(* interrupted core.                                                       *)
(***************************************************************************)
EXTENDS FrtSched

CONSTANTS
    MaxApp,     \* how many application tasks the firmware creates
    Affinities, \* the affinities it gives them
    Guest       \* which unusual things the firmware does, see Usages

\* "boot_creates": boot code creates several tasks before any scheduler runs
\* "early_core1":  core 1 finishes its startup before core 0's scheduler runs
\* "cross_core":   a task suspends or deletes the other core's running task
\* "self_handle":  a task deletes itself through its own handle
\* "block_in_call": a callback run by guest_call8 yields or blocks
\* "legacy_core1": a task pinned to core 1 is launched in legacy mode
Usages == {"boot_creates", "early_core1", "cross_core", "self_handle",
           "block_in_call", "legacy_core1"}

ASSUME TasksAssumption ==
    /\ MaxApp \in Nat
    /\ Affinities \subseteq {NoAffinity} \cup Cores
    /\ Guest \subseteq Usages

VARIABLES
    deferred,           \* deferred_task_fn: None, a task, or Unregistered
    app_cpu_started     \* the session has released core 1

ownVars == <<deferred, app_cpu_started>>
vars == <<schedVars, ownVars>>

Unregistered == -1

TypeOK ==
    /\ SchedTypeOK
    /\ deferred \in {None, Unregistered} \cup Tasks
    /\ app_cpu_started \in BOOLEAN

Init ==
    /\ SchedInit
    /\ deferred = None
    /\ app_cpu_started = FALSE

\* The tasks a handle can name: registered and not yet deleted (find_task).
Live == {i \in 1 .. task_count : state[i] # "unused"}

\* May the firmware act on task j from core c?  Not on the task the other core
\* is executing, unless the run allows it.
MayTouch(c, j) == "cross_core" \in Guest \/ current[1 - c] # j

\* Callbacks obey the rule that an ISR or timer callback never blocks.
MayBlock(c) == "block_in_call" \in Guest \/ ~InGuestCall(c)

-----------------------------------------------------------------------------
\* sched_register_task() and sched_promote_legacy() as xTaskCreate and
\* xTaskCreatePinnedToCore run them: with the table full nothing is
\* registered; the second registration before the scheduler runs promotes the
\* code core 0 executes to task 1.
Promotes(n) == ~scheduler_started /\ n > 1

Register(p, a) ==
    LET n == task_count + 1
        T == Fresh(n, Tcbs)
    IN  /\ task_count < MaxTasks
        /\ task_count' = n
        /\ attr' = [attr EXCEPT ![n] = [prio |-> p, affinity |-> a,
                                        is_idle |-> FALSE]]
        /\ IF Promotes(n)
           THEN /\ scheduler_started' = TRUE
                /\ current' = [current EXCEPT ![0] = 1]
                /\ LET P == [T EXCEPT !.state = [T.state EXCEPT ![1] = "running"]]
                   IN  Commit(IF InGuestCall(0) THEN P
                              ELSE [P EXCEPT !.saved[1] = exec[0]])
                /\ slice' = [slice EXCEPT ![0] = FALSE]
           ELSE /\ Commit(T)
                /\ UNCHANGED <<scheduler_started, current, slice>>
        /\ UNCHANGED <<idle_task, idle_ready, exec, running, halted,
                       guest_call>>

TableFull == task_count = MaxTasks /\ UNCHANGED schedVars

\* Boot code normally creates one task and then starts the scheduler.
MayCreate(c) ==
    /\ Executes(c)
    /\ Cardinality({i \in 1 .. task_count : ~attr[i].is_idle}) < MaxApp
    /\ \/ exec[c] # Boot
       \/ task_count = 0
       \/ "boot_creates" \in Guest

\* xTaskCreate (pinned = FALSE) keeps the first deferred function,
\* xTaskCreatePinnedToCore the latest.  A task of priority 20 or more (a
\* driver task) is not registered at all.  deferred_task_fn is only read
\* before the scheduler starts and is not tracked afterwards.
DeferredAfter(pinned, new) ==
    deferred' = IF scheduler_started' THEN None
                ELSE IF pinned \/ deferred = None THEN new ELSE deferred

CreateApp(c, p, a, pinned) ==
    /\ MayCreate(c)
    /\ pinned \/ a = NoAffinity
    /\ \/ Register(p, a) /\ DeferredAfter(pinned, task_count + 1)
       \/ TableFull /\ DeferredAfter(pinned, Unregistered)
    /\ UNCHANGED app_cpu_started

CreateDriver(c, pinned) ==
    /\ MayCreate(c)
    /\ ~scheduler_started
    /\ UNCHANGED <<schedVars, app_cpu_started>>
    /\ DeferredAfter(pinned, Unregistered)

-----------------------------------------------------------------------------
\* sched_start(): both current tasks are cleared, then core 0 picks one.
NoCurrent == [c \in Cores |-> None]

SchedStart ==
    /\ scheduler_started' = TRUE
    /\ \/ AdoptNext(0, NoCurrent, Tcbs)
       \/ /\ NothingToRun(0, Tcbs)
          /\ current' = NoCurrent
          /\ UNCHANGED <<exec, slice>>
    /\ UNCHANGED <<running, halted, guest_call>>

\* vTaskStartScheduler, called by the ESP-IDF startup code on core 0.
StartScheduler ==
    /\ Executes(0)
    /\ exec[0] = Boot
    /\ ~InGuestCall(0)
    /\ ~scheduler_started
    /\ SchedStart
    /\ deferred' = None
    /\ UNCHANGED app_cpu_started

\* deferred_task_trampoline: app_main returned into its dead end.  Several
\* tasks start the scheduler; a single one is launched directly, without any
\* scheduler ("legacy mode"); with none the CPU stops.
DeferredTrampoline ==
    /\ Executes(0)
    /\ exec[0] = Boot
    /\ ~InGuestCall(0)
    /\ ~scheduler_started
    /\ \/ /\ task_count > 1
          /\ SchedStart
          /\ deferred' = None
          /\ UNCHANGED app_cpu_started
       \/ /\ task_count <= 1
          /\ deferred # None
          /\ deferred \in Tasks => \/ attr[deferred].affinity # 1
                                  \/ "legacy_core1" \in Guest
          /\ exec' = [exec EXCEPT ![0] = IF deferred = Unregistered THEN Boot
                                         ELSE deferred]
          /\ deferred' = None
          /\ UNCHANGED <<tableVars, taskVars, current, running, halted, slice,
                         scheduler_started, guest_call, app_cpu_started>>
       \/ /\ task_count <= 1
          /\ deferred = None
          /\ running' = [running EXCEPT ![0] = FALSE]
          /\ UNCHANGED <<tableVars, taskVars, current, exec, halted, slice,
                         scheduler_started, guest_call, ownVars>>

\* flexe_session_post_batch(): core 1 is released at its boot address.
StartAppCpu ==
    /\ AtBoundary
    /\ ~app_cpu_started
    /\ app_cpu_started' = TRUE
    /\ running' = [running EXCEPT ![1] = TRUE]
    /\ UNCHANGED <<tableVars, taskVars, current, exec, halted, slice,
                   scheduler_started, guest_call, deferred>>

\* esp_startup_start_app_other_cores on core 1: take a task or stop until the
\* session's poll finds one.
StartOtherCore ==
    /\ Executes(1)
    /\ exec[1] = Boot
    /\ ~InGuestCall(1)
    /\ current[1] = None
    /\ scheduler_started \/ "early_core1" \in Guest
    /\ \/ AdoptNext(1, current, Tcbs) /\ UNCHANGED running
       \/ /\ NothingToRun(1, Tcbs)
          /\ running' = [running EXCEPT ![1] = FALSE]
          /\ UNCHANGED <<current, exec, slice>>
    /\ UNCHANGED halted
    /\ UNCHANGED <<scheduler_started, guest_call, ownVars>>
-----------------------------------------------------------------------------
SwitchOnly == UNCHANGED <<scheduler_started, guest_call, ownVars>>

\* frt_block_cycles(), the body of vTaskDelay and of the delay() shims: save,
\* sleep, switch.  Without a scheduler only time passes (Tick).
VTaskDelay(c, d) ==
    /\ Scheduled(c)
    /\ MayBlock(c)
    /\ LET T == Enter(c, "sleeping", SaveContext(c, Tcbs))
       IN  SchedSwitch(c, [T EXCEPT !.wake = [T.wake EXCEPT ![current[c]] = d]])
    /\ SwitchOnly

\* vPortYield / vTaskSwitchContext.
VPortYield(c) ==
    /\ Scheduled(c)
    /\ MayBlock(c)
    /\ SchedSwitch(c, Enter(c, "ready", SaveContext(c, Tcbs)))
    /\ SwitchOnly

\* vTaskDelete(NULL): the context is not saved, the slot is not reused.
VTaskDeleteSelf(c) ==
    /\ Scheduled(c)
    /\ MayBlock(c)
    /\ SchedSwitch(c, Enter(c, "unused", Tcbs))
    /\ SwitchOnly

\* vTaskDelete(handle): only the state is changed, whoever the task is.
VTaskDelete(c, j) ==
    /\ Executes(c)
    /\ scheduler_started
    /\ j \in Live
    /\ ~attr[j].is_idle
    /\ MayTouch(c, j)
    /\ j # current[c] \/ "self_handle" \in Guest
    /\ Commit([Tcbs EXCEPT !.state[j] = "unused"])
    /\ UNCHANGED <<tableVars, coreVars>>
    /\ SwitchOnly

\* vTaskSuspend(NULL), or with the caller's own handle.
VTaskSuspendSelf(c) ==
    /\ Scheduled(c)
    /\ MayBlock(c)
    /\ SchedSwitch(c, Enter(c, "suspended", SaveContext(c, Tcbs)))
    /\ SwitchOnly

\* vTaskSuspend(handle) of another task: it stops being picked and its queue,
\* event-group and notification waits are abandoned.
VTaskSuspend(c, j) ==
    /\ Scheduled(c)
    /\ j \in Live \ {current[c]}
    /\ ~attr[j].is_idle
    /\ MayTouch(c, j)
    /\ Commit([Tcbs EXCEPT !.state[j] = "suspended",
                           !.waits[j] = @ \ {"q", "eg", "notify"}])
    /\ UNCHANGED <<tableVars, coreVars>>
    /\ SwitchOnly

\* vTaskSuspend without a running scheduler, or on a core that has no current
\* task, stops the CPU.
VTaskSuspendLegacy(c) ==
    /\ Executes(c)
    /\ ~scheduler_started \/ current[c] = None
    /\ running' = [running EXCEPT ![c] = FALSE]
    /\ UNCHANGED <<tableVars, taskVars, current, exec, halted, slice>>
    /\ SwitchOnly

\* vTaskResume(handle) / xTaskResumeFromISR(handle).
VTaskResume(c, j) ==
    /\ Executes(c)
    /\ j \in Live
    /\ state[j] = "suspended"
    /\ Commit([Tcbs EXCEPT !.state[j] = "ready"])
    /\ UNCHANGED <<tableVars, coreVars>>
    /\ SwitchOnly

-----------------------------------------------------------------------------
\* freertos_stubs_check_preempt_core(): the session calls it after every batch
\* of core c, and as a poll while core 1 is parked.
PreemptPolled(c) == AtBoundary /\ scheduler_started /\ (c = 1 => app_cpu_started)

\* No current task: adopt one and resume the core.
CheckPreemptAdopt(c) ==
    /\ PreemptPolled(c)
    /\ current[c] = None
    /\ \/ AdoptNext(c, current, Tcbs) /\ Resume(c)
       \/ NothingToRun(c, Tcbs) /\ UNCHANGED coreVars
    /\ SwitchOnly

CheckPreempt(c) ==
    /\ PreemptPolled(c)
    /\ current[c] # None
    /\ Preempt(c)
    /\ SwitchOnly

-----------------------------------------------------------------------------
\* guest_call8(): a callback borrows core c.  Its register file is private, so
\* exec does not change; when it completes, the core is awake, when it fails
\* the core is as it was.
GuestCallBegin(c) ==
    /\ AtBoundary
    /\ running[c]
    /\ guest_call' = [guest_call EXCEPT ![c] = IF halted[c] THEN "halted"
                                               ELSE "awake"]
    /\ halted' = [halted EXCEPT ![c] = FALSE]
    /\ UNCHANGED <<tableVars, taskVars, current, exec, running, slice,
                   scheduler_started, ownVars>>

GuestCallEnd(c, completed) ==
    /\ InGuestCall(c)
    /\ guest_call' = [guest_call EXCEPT ![c] = "none"]
    /\ halted' = [halted EXCEPT ![c] = ~completed /\ guest_call[c] = "halted"]
    /\ UNCHANGED <<tableVars, taskVars, current, exec, running, slice,
                   scheduler_started, ownVars>>

Tick == SchedTick /\ UNCHANGED <<guest_call, ownVars>>

-----------------------------------------------------------------------------
TaskCall(c) ==
    \/ \E p \in Prios, a \in Affinities, pinned \in BOOLEAN :
          CreateApp(c, p, a, pinned)
    \/ \E pinned \in BOOLEAN : CreateDriver(c, pinned)
    \/ \E d \in 0 .. MaxDelay : VTaskDelay(c, d)
    \/ VPortYield(c)
    \/ VTaskDeleteSelf(c)
    \/ VTaskSuspendSelf(c)
    \/ VTaskSuspendLegacy(c)
    \/ \E j \in Tasks : \/ VTaskDelete(c, j)
                        \/ VTaskSuspend(c, j)
                        \/ VTaskResume(c, j)

Session ==
    \/ StartAppCpu
    \/ \E c \in Cores : \/ CheckPreemptAdopt(c)
                        \/ CheckPreempt(c)
                        \/ GuestCallBegin(c)
                        \/ \E completed \in BOOLEAN : GuestCallEnd(c, completed)
    \/ Tick

Next ==
    \/ \E c \in Cores : TaskCall(c)
    \/ StartScheduler
    \/ DeferredTrampoline
    \/ StartOtherCore
    \/ Session

Spec == Init /\ [][Next]_vars

-----------------------------------------------------------------------------
\* At every moment the scheduler's view is exact: the RUNNING tasks are
\* precisely the ones that are current on a core, and no task is current on
\* both.  (current_task, state: sched_switch, check_preempt_core, sched_start.)
RunningIsCurrent ==
    /\ \A i \in Tasks : state[i] = "running" <=> \E c \in Cores : current[c] = i
    /\ current[0] # None => current[0] # current[1]

\* No task is ever resumed from somebody else's registers: a core executes the
\* code of its current task, and the TCB of every registered task that is not
\* current holds that task's own context.  (sched_save_context,
\* sched_restore_context, sched_promote_legacy.)
ContextIsOwn ==
    /\ \A c \in Cores : current[c] # None => exec[c] = current[c]
    /\ \A i \in 1 .. task_count :
          (\A c \in Cores : current[c] # i) => saved[i] = i

\* A task runs only on the core it is pinned to (core_affinity: "-1 = no
\* affinity, 0 or 1 = pinned").
AffinityKept ==
    \A c \in Cores :
       current[c] # None => attr[current[c]].affinity \in {NoAffinity, c}

\* A switch never chooses a task while a more urgent one could have run on that
\* core, and never the idle task while there is any real work ("they can never
\* win on a priority tie with real work", sched_pick_next).
UrgentStep ==
    \A c \in Cores :
       (scheduler_started /\ current'[c] \notin {None, current[c]})
       => \A j \in 1 .. task_count' :
            (/\ state'[j] = "ready"
             /\ ~attr'[j].is_idle
             /\ attr'[j].affinity \in {NoAffinity, c})
            => /\ ~attr'[current'[c]].is_idle
               /\ attr'[j].prio <= attr'[current'[c]].prio
DispatchIsUrgent == [][UrgentStep]_vars

\* Tasks of one priority share the cores: a READY task that core 0 may run does
\* not stay READY for ever (round robin from the current task, time slices).
NoStarvation ==
    \A i \in Tasks :
       (/\ scheduler_started
        /\ state[i] = "ready"
        /\ ~attr[i].is_idle
        /\ attr[i].affinity # 1) ~> state[i] # "ready"

\* flexe_session_post_batch() ends every batch with the preemption check, and
\* time passes; a guest call has an instruction limit.
FairSpec ==
    /\ Spec
    /\ SF_vars(Tick)
    /\ \A c \in Cores : /\ SF_vars(CheckPreempt(c))
                        /\ SF_vars(CheckPreemptAdopt(c))
                        /\ WF_vars(GuestCallEnd(c, TRUE))

\* Suspending a task stops it: no core keeps executing a SUSPENDED task
\* (vTaskSuspend: "it keeps its saved context and simply stops being picked").
SuspendedStops ==
    \A c \in Cores : current[c] # None => state[current[c]] # "suspended"

\* Deleting a task removes it from the scheduler: no core keeps executing it
\* (vTaskDelete: "remove task from scheduler or no-op").
DeletedStops ==
    \A c \in Cores : current[c] # None => state[current[c]] # "unused"

\* A core without a current task never executes the code of a task the
\* scheduler has taken off it ("it resumes behind the scheduler's back").
NoStaleResume ==
    \A c \in Cores :
       (scheduler_started /\ current[c] = None /\ Executes(c)
        /\ ~InGuestCall(c)) => exec[c] = Boot

\* Values for Affinities: tasks pinned to core 0, and tasks that are not pinned
\* beside tasks pinned to core 1.
Core0 == {0}
AnyOrCore1 == {NoAffinity, 1}
=============================================================================
