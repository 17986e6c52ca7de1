------------------------------ MODULE FrtNotify -----------------------------
(***************************************************************************)
(* Direct-to-task notifications of the FreeRTOS layer: a saturating count  *)
(* per task and slot, which vTaskNotifyGiveFromISR increments and          *)
(* ulTaskNotifyTake waits for.  The giver consumes the count on behalf of  *)
(* a sleeping taker and patches its return register.                       *)
(***************************************************************************)
EXTENDS FrtSched

CONSTANTS
    Takers,     \* the tasks that are notified, suspended and deleted
    Slots,      \* the notification slots in use (below FRT_NOTIFY_SLOTS)
    MaxNotify,  \* UINT32_MAX: the count saturates
    MaxGives    \* bound on the gives of a behaviour

NotifyAssumption ==    \* evaluated by the MC module
    /\ MaxTasks >= 2 /\ 1 \in Prios
    /\ Takers \subseteq AppTasks
    /\ Slots # {}
    /\ MaxNotify \in Nat \ {0}
    /\ MaxGives \in Nat

VARIABLES
    notify_value,   \* the count of each task and slot
    wait_index,     \* notify_wait_index: the slot a task waits on
    clear_on_exit,  \* notify_clear_on_exit
    ret,            \* what each task's last take returned
    given,          \* gives so far that found the task
    taken           \* of those, how many a take has reported or cleared

notifyVars == <<notify_value, wait_index, clear_on_exit, ret, given, taken>>
vars == <<schedVars, notifyVars>>

Counts == 0 .. MaxNotify

TypeOK ==
    /\ SchedTypeOK
    /\ notify_value \in [Tasks -> [Slots -> Counts]]
    /\ wait_index \in [Tasks -> Slots]
    /\ clear_on_exit \in [Tasks -> BOOLEAN]
    /\ ret \in [Tasks -> Counts]
    /\ given \in [Tasks -> [Slots -> 0 .. MaxGives]]
    /\ taken \in [Tasks -> [Slots -> 0 .. MaxGives]]

AllSlots(x) == [i \in Tasks |-> [s \in Slots |-> x]]

Init ==
    /\ RunningInit([i \in Tasks |-> [prio |-> 1, affinity |-> NoAffinity,
                                     is_idle |-> FALSE]])
    /\ notify_value = AllSlots(0)
    /\ wait_index = [i \in Tasks |-> CHOOSE s \in Slots : TRUE]
    /\ clear_on_exit = [i \in Tasks |-> FALSE]
    /\ ret = [i \in Tasks |-> 0]
    /\ given = AllSlots(0)
    /\ taken = AllSlots(0)

-----------------------------------------------------------------------------
AppCall(c) == Scheduled(c) /\ current[c] \in AppTasks

Waiting(i) == "notify" \in waits[i]

\* How much of the count v a take uses up.
Used(v, clear) == IF clear THEN v ELSE IF v = 0 THEN 0 ELSE 1

\* find_task(): the handle of a deleted task is unknown.
Found(j) == state[j] # "unused"

Increment(v) == IF v = MaxNotify THEN v ELSE v + 1

\* A give nobody waits for is counted.
GiveKept(j, s) ==
    /\ ~Waiting(j) \/ wait_index[j] # s
    /\ notify_value' = [notify_value EXCEPT ![j][s] = Increment(@)]
    /\ UNCHANGED <<taskVars, running, halted, ret, taken>>

BugGiveWakesLate(j, s) ==   \* mutation: the answer is read after the take
    LET v == Increment(notify_value[j][s])
        u == Used(v, clear_on_exit[j])
    IN  /\ Waiting(j)
        /\ wait_index[j] = s
        /\ notify_value' = [notify_value EXCEPT ![j][s] = v - u]
        /\ ret' = [ret EXCEPT ![j] = v - u]
        /\ taken' = [taken EXCEPT ![j][s] = @ + u]
        /\ Commit([Tcbs EXCEPT !.state[j] = ReleasedState(j),
                               !.waits[j] = @ \ {"notify"}])
        /\ Unparked(j)

\* A give to a task that waits on the slot completes its take.
GiveWakes(j, s) ==
    LET v == Increment(notify_value[j][s])
        u == Used(v, clear_on_exit[j])
    IN  /\ Waiting(j)
        /\ wait_index[j] = s
        /\ notify_value' = [notify_value EXCEPT ![j][s] = v - u]
        /\ ret' = [ret EXCEPT ![j] = v]
        /\ taken' = [taken EXCEPT ![j][s] = @ + u]
        /\ Commit([Tcbs EXCEPT !.state[j] = ReleasedState(j),
                               !.waits[j] = @ \ {"notify"}])
        /\ Unparked(j)

\* vTaskNotifyGiveFromISR and vTaskGenericNotifyGiveFromISR.
VTaskNotifyGiveFromISR(c, j, s) ==
    /\ Executes(c)
    /\ Found(j)
    /\ given[j][s] < MaxGives
    /\ given' = [given EXCEPT ![j][s] = @ + 1]
    /\ GiveKept(j, s) \/ GiveWakes(j, s)
    /\ UNCHANGED <<tableVars, current, exec, slice, scheduler_started,
                   guest_call, wait_index, clear_on_exit>>

\* ulTaskNotifyTake when there is something to take, or the timeout is 0.
TakeReturns(c, s, clear, timeout) ==
    LET me == current[c]
        v  == notify_value[me][s]
    IN  /\ v # 0 \/ timeout = 0
        /\ notify_value' = [notify_value EXCEPT ![me][s] = v - Used(v, clear)]
        /\ taken' = [taken EXCEPT ![me][s] = @ + Used(v, clear)]
        /\ ret' = [ret EXCEPT ![me] = v]
        /\ NoSwitch
        /\ UNCHANGED <<wait_index, clear_on_exit, given>>

\* ulTaskNotifyTake that blocks; 0 is preset as the answer of a time-out.
TakeBlocks(c, s, clear, timeout) ==
    LET me == current[c]
    IN  /\ notify_value[me][s] = 0
        /\ timeout # 0
        /\ ret' = [ret EXCEPT ![me] = 0]
        /\ wait_index' = [wait_index EXCEPT ![me] = s]
        /\ clear_on_exit' = [clear_on_exit EXCEPT ![me] = clear]
        /\ SchedSwitch(c, WaitFor(c, "notify", {"notify"}, timeout,
                                  SaveContext(c, Tcbs)))
        /\ UNCHANGED <<scheduler_started, guest_call, notify_value, given, taken>>

UlTaskNotifyTake(c, s, clear, timeout) ==
    /\ AppCall(c)
    /\ current[c] \in Takers
    /\ TakeReturns(c, s, clear, timeout) \/ TakeBlocks(c, s, clear, timeout)

-----------------------------------------------------------------------------
\* Another task is suspended, resumed or deleted.
Other(c, j) == AppCall(c) /\ j \in AppTasks /\ CurrentOn(j) = {}

VTaskSuspend(c, j) ==
    /\ Other(c, j)
    /\ Found(j)
    /\ Commit([Tcbs EXCEPT !.state[j] = "suspended",
                           !.waits[j] = @ \ {"q", "eg", "notify"}])
    /\ UNCHANGED <<tableVars, coreVars, scheduler_started, guest_call, notifyVars>>

VTaskResume(c, j) ==
    /\ Other(c, j)
    /\ state[j] = "suspended"
    /\ Commit([Tcbs EXCEPT !.state[j] = "ready"])
    /\ UNCHANGED <<tableVars, coreVars, scheduler_started, guest_call, notifyVars>>

\* vTaskDelete leaves the wait flags of the TCB as they are.
VTaskDelete(c, j) ==
    /\ Other(c, j)
    /\ Found(j)
    /\ Commit([Tcbs EXCEPT !.state[j] = "unused"])
    /\ UNCHANGED <<tableVars, coreVars, scheduler_started, guest_call, notifyVars>>

CheckPreempt(c) ==
    Preempt(c) /\ UNCHANGED <<scheduler_started, guest_call, notifyVars>>

Tick == SchedTick /\ UNCHANGED <<guest_call, notifyVars>>

Next ==
    \/ \E c \in Cores :
          \/ \E j \in Takers :
                \/ \E s \in Slots : VTaskNotifyGiveFromISR(c, j, s)
                \/ VTaskSuspend(c, j)
                \/ VTaskResume(c, j)
                \/ VTaskDelete(c, j)
          \/ \E s \in Slots, clear \in BOOLEAN, timeout \in Timeouts \cup {0} :
                UlTaskNotifyTake(c, s, clear, timeout)
          \/ CheckPreempt(c)
    \/ Tick

Spec == Init /\ [][Next]_vars

-----------------------------------------------------------------------------
\* No lost notification: a task does not sleep on a slot that has a count,
\* whatever arrived on other slots or before it slept.
NoNotifyMissed ==
    \A i \in AppTasks : Waiting(i) => notify_value[i][wait_index[i]] = 0

\* Gives are neither lost nor reported twice: until the count saturates, what
\* was given and not yet taken is exactly what the slot holds.
GivesAccounted ==
    \A i \in AppTasks, s \in Slots :
       given[i][s] <= MaxNotify => given[i][s] = taken[i][s] + notify_value[i][s]

\* A notification ends a wait with a positive count and a time-out ends it with
\* zero: a task that is told 0 has not been given anything.
AnswerStep ==
    \A i \in AppTasks :
       Waiting(i) /\ "notify" \notin waits'[i] /\ state'[i] # "suspended" =>
          (ret'[i] > 0 <=> given'[i] # given[i])
AnswerTellsOutcome == [][AnswerStep]_vars

\* A deleted task stays deleted, even if it was waiting when it was deleted and
\* a notification for it arrives later.
DeletedStep ==
    \A i \in AppTasks : state[i] = "unused" => state'[i] = "unused"
DeletedStays == [][DeletedStep]_vars
=============================================================================
