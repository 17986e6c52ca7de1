--------------------------- MODULE FrtSemaphores ----------------------------
(***************************************************************************)
(* Semaphores and mutexes of the FreeRTOS layer: a queue_t without items,  *)
(* whose count is the number of free tokens.  A give hands its token       *)
(* straight to a waiting task; mutexes also record an owner and a depth    *)
(* for the recursive calls.                                                *)
(***************************************************************************)
EXTENDS FrtSched

CONSTANTS
    MaxCount,   \* max_items of a counting semaphore
    Initial,    \* the tokens it starts with
    MaxGives,   \* how often the firmware gives a semaphore
    MaxDepth,   \* how deep it nests recursive takes
    Guest       \* what the firmware does with its objects, see Uses and below

\* "counting":  a counting or binary semaphore: xSemaphoreTake / xSemaphoreGive
\* "mutex":     a mutex, taken and given by the same calls
\* "recursive": a mutex: xSemaphoreTakeRecursive / xSemaphoreGiveRecursive
\* "mixed":     a mutex to which one firmware applies both kinds of calls
Uses == {"counting", "mutex", "recursive", "mixed"}

\* "delete_blocked": tasks are deleted while they wait, and keep their wait flag;
\* "generic_receive": some takes are calls of xQueueGenericReceive, as the
\* xSemaphoreTake macro of older ESP-IDF releases emits
ASSUME SemaphoreAssumption ==
    /\ MaxTasks >= 2 /\ 1 \in Prios
    /\ MaxCount \in Nat \ {0}
    /\ Initial \in 0 .. MaxCount
    /\ MaxGives \in Nat
    /\ MaxDepth \in Nat \ {0}
    /\ Guest \subseteq Uses \cup {"delete_blocked", "generic_receive"}

VARIABLES
    use,        \* which of the Uses the object is put to
    count,      \* free tokens
    owner,      \* mutex_owner
    depth,      \* mutex_depth
    call,       \* the call each task last blocked in: q_is_semaphore or not
    ret,        \* the return register of that call
    held,       \* takes a task knows to have succeeded and not given back
    given       \* gives of a semaphore that reported pdTRUE

semVars == <<use, count, owner, depth, call, ret, held, given>>
vars == <<schedVars, semVars>>

NoOwner == 0

\* queue_t: is_mutex, max_items and the tokens at creation.
IsMutex == use \in {"mutex", "recursive", "mixed"}

Capacity == IF IsMutex THEN 1 ELSE MaxCount

\* The calls that are applied to the object.
PlainCalls == use \in {"counting", "mutex", "mixed"}

RecursiveCalls == use \in {"recursive", "mixed"}

TypeOK ==
    /\ SchedTypeOK
    /\ use \in Guest \cap Uses
    /\ count \in 0 .. Capacity
    /\ owner \in {NoOwner} \cup Tasks
    /\ depth \in 0 .. MaxDepth
    /\ call \in [Tasks -> {"none", "take", "receive"}]
    /\ ret \in [Tasks -> BOOLEAN]
    /\ held \in [Tasks -> Nat]
    /\ given \in 0 .. MaxGives

Init ==
    /\ RunningInit([i \in Tasks |-> [prio |-> 1, affinity |-> NoAffinity,
                                     is_idle |-> FALSE]])
    /\ use \in Guest \cap Uses
    /\ count = IF IsMutex THEN 1 ELSE Initial
    /\ owner = NoOwner
    /\ depth = 0
    /\ call = [i \in Tasks |-> "none"]
    /\ ret = [i \in Tasks |-> FALSE]
    /\ held = [i \in Tasks |-> 0]
    /\ given = 0

-----------------------------------------------------------------------------
AppCall(c) == Scheduled(c) /\ current[c] \in AppTasks

\* wake_queue_waiter_locked(): the first task in the table that waits.  One
\* that came through queue_receive() is only served from the count.
Waiters == {i \in 1 .. task_count : "q" \in waits[i] /\ "sender" \notin waits[i]}

Servable == {i \in Waiters : call[i] = "take" \/ count > 0}

First(S) == CHOOSE i \in S : \A j \in S : i <= j

\* A woken mutex waiter becomes the owner.
BecomesOwner(i) ==
    IF IsMutex /\ call[i] = "take" THEN owner' = i /\ depth' = 1
    ELSE UNCHANGED <<owner, depth>>

Serve(i) ==
    /\ Commit([Tcbs EXCEPT !.state[i] = ReleasedState(i), !.waits[i] = @ \ {"q"}])
    /\ Unparked(i)
    /\ ret' = [ret EXCEPT ![i] = TRUE]
    /\ count' = IF call[i] = "take" THEN count ELSE count - 1
    /\ UNCHANGED <<tableVars, current, exec, slice, scheduler_started, guest_call>>

BugTokenBothWays ==     \* mutation: a surplus token although a waiter was woken
    /\ Servable # {}
    /\ LET i == First(Servable)
       IN  /\ Commit([Tcbs EXCEPT !.state[i] = ReleasedState(i),
                                  !.waits[i] = @ \ {"q"}])
           /\ Unparked(i)
           /\ ret' = [ret EXCEPT ![i] = TRUE]
           /\ held' = [held EXCEPT ![i] = @ + 1]
    /\ count' = IF count < Capacity THEN count + 1 ELSE count
    /\ UNCHANGED <<tableVars, current, exec, slice, scheduler_started,
                   guest_call, owner, depth>>

\* The token goes to a waiter if there is one ("consume the token directly").
GiveToWaiter ==
    /\ Servable # {}
    /\ Serve(First(Servable))
    /\ BecomesOwner(First(Servable))
    /\ held' = [held EXCEPT ![First(Servable)] = @ + 1]

BugGiveIgnoresWaiters ==    \* mutation: the token is left for whoever comes
    /\ count < Capacity
    /\ count' = count + 1
    /\ NoSwitch
    /\ UNCHANGED <<owner, depth, ret, held>>

\* Otherwise it is counted.
GiveToCount ==
    /\ Servable = {}
    /\ count < Capacity
    /\ count' = count + 1
    /\ NoSwitch
    /\ UNCHANGED <<owner, depth, ret, held>>

\* xSemaphoreGive (stub_queue_send on a queue without items, timeout 0) and
\* xQueueGiveFromISR; a full semaphore refuses.
Give == GiveToWaiter \/ GiveToCount

XSemaphoreGive(c) ==
    /\ ~IsMutex
    /\ Scheduled(c)
    /\ given < MaxGives
    /\ given' = given + 1
    /\ Give
    /\ UNCHANGED <<use, call>>

\* A task gives a mutex it knows to hold; the owner is not cleared.
MutexGive(c) ==
    LET me == current[c]
    IN  /\ IsMutex /\ PlainCalls
        /\ AppCall(c)
        /\ held[me] > 0
        /\ \/ /\ Servable # {}
              /\ LET i == First(Servable)
                 IN  /\ Serve(i)
                     /\ BecomesOwner(i)
                     /\ held' = [held EXCEPT ![me] = @ - 1, ![i] = @ + 1]
           \/ /\ Servable = {}
              /\ count < Capacity
              /\ count' = count + 1
              /\ held' = [held EXCEPT ![me] = @ - 1]
              /\ NoSwitch
              /\ UNCHANGED <<owner, depth, ret>>
        /\ UNCHANGED <<use, call, given>>

-----------------------------------------------------------------------------
TakeToken(me) ==
    /\ count > 0
    /\ count' = count - 1
    /\ held' = [held EXCEPT ![me] = @ + 1]
    /\ NoSwitch

\* No token: wait with pdFALSE preset.
WaitForToken(c, kind) ==
    /\ count = 0
    /\ call' = [call EXCEPT ![current[c]] = kind]
    /\ ret' = [ret EXCEPT ![current[c]] = FALSE]
    /\ \E timeout \in Timeouts :
          SchedSwitch(c, WaitFor(c, "queue", {"q"}, timeout,
                                 SaveContext(c, Tcbs)))
    /\ UNCHANGED <<scheduler_started, guest_call, count, held>>

\* xSemaphoreTake, or queue_receive() in its place.
XSemaphoreTake(c, kind) ==
    /\ AppCall(c)
    /\ PlainCalls
    /\ kind = "receive" => "generic_receive" \in Guest
    /\ IsMutex => held[current[c]] = 0
    /\ \/ TakeToken(current[c]) /\ UNCHANGED <<call, ret>>
       \/ WaitForToken(c, kind)
    /\ UNCHANGED <<use, owner, depth, given>>

\* xQueueTakeMutexRecursive: re-entry by the owner, a free token, or the
\* ordinary take.
TakeRecursive(c) ==
    LET me == current[c]
    IN  /\ RecursiveCalls
        /\ AppCall(c)
        /\ \/ /\ owner = me
              /\ depth < MaxDepth
              /\ depth' = depth + 1
              /\ held' = [held EXCEPT ![me] = @ + 1]
              /\ NoSwitch
              /\ UNCHANGED <<owner, count, call, ret>>
           \/ /\ owner # me
              /\ TakeToken(me)
              /\ owner' = me
              /\ depth' = 1
              /\ UNCHANGED <<call, ret>>
           \/ /\ owner # me
              /\ WaitForToken(c, "take")
              /\ UNCHANGED <<owner, depth>>
        /\ UNCHANGED <<use, given>>

BugGiveRecursiveAll(c) ==   \* mutation: the first give releases
    LET me == current[c]
    IN  /\ RecursiveCalls
        /\ AppCall(c)
        /\ held[me] > 0
        /\ owner = me
        /\ owner' = NoOwner
        /\ depth' = 0
        /\ count' = count + 1
        /\ held' = [held EXCEPT ![me] = @ - 1]
        /\ NoSwitch
        /\ UNCHANGED <<use, call, ret, given>>

\* xQueueGiveMutexRecursive: refused to anybody but the owner; the last give
\* releases the mutex to a waiter or to the count.
GiveRecursive(c) ==
    LET me == current[c]
    IN  /\ RecursiveCalls
        /\ AppCall(c)
        /\ held[me] > 0
        /\ owner = me
        /\ \/ /\ depth > 1
              /\ depth' = depth - 1
              /\ held' = [held EXCEPT ![me] = @ - 1]
              /\ NoSwitch
              /\ UNCHANGED <<owner, count, ret>>
           \/ /\ depth <= 1
              /\ Servable # {}
              /\ LET i == First(Servable)
                 IN  /\ Serve(i)
                     /\ BecomesOwner(i)
                     /\ held' = [held EXCEPT ![me] = @ - 1, ![i] = @ + 1]
           \/ /\ depth <= 1
              /\ Servable = {}
              /\ count' = IF count < Capacity THEN count + 1 ELSE count
              /\ owner' = NoOwner
              /\ depth' = 0
              /\ held' = [held EXCEPT ![me] = @ - 1]
              /\ NoSwitch
              /\ UNCHANGED ret
        /\ UNCHANGED <<use, call, given>>

-----------------------------------------------------------------------------
Other(c, j) == AppCall(c) /\ j \in AppTasks /\ \A k \in Cores : current[k] # j

VTaskSuspend(c, j) ==
    /\ Other(c, j)
    /\ state[j] # "unused"
    /\ Commit([Tcbs EXCEPT !.state[j] = "suspended",
                           !.waits[j] = @ \ {"q", "eg", "notify"}])
    /\ UNCHANGED <<tableVars, coreVars, scheduler_started, guest_call, semVars>>

VTaskResume(c, j) ==
    /\ Other(c, j)
    /\ state[j] = "suspended"
    /\ Commit([Tcbs EXCEPT !.state[j] = "ready"])
    /\ UNCHANGED <<tableVars, coreVars, scheduler_started, guest_call, semVars>>

VTaskDelete(c, j) ==
    /\ Other(c, j)
    /\ state[j] # "unused"
    /\ "q" \in waits[j] => "delete_blocked" \in Guest
    /\ Commit([Tcbs EXCEPT !.state[j] = "unused"])
    /\ UNCHANGED <<tableVars, coreVars, scheduler_started, guest_call, semVars>>

CheckPreempt(c) ==
    /\ Preempt(c)
    /\ UNCHANGED <<scheduler_started, guest_call, semVars>>

Tick == SchedTick /\ UNCHANGED <<guest_call, semVars>>

Next ==
    \/ \E c \in Cores :
          \/ XSemaphoreGive(c)
          \/ MutexGive(c)
          \/ \E kind \in {"take", "receive"} : XSemaphoreTake(c, kind)
          \/ TakeRecursive(c)
          \/ GiveRecursive(c)
          \/ \E j \in AppTasks : \/ VTaskSuspend(c, j)
                                 \/ VTaskResume(c, j)
                                 \/ VTaskDelete(c, j)
          \/ CheckPreempt(c)
    \/ Tick

Spec == Init /\ [][Next]_vars

-----------------------------------------------------------------------------
\* The sum of f over all tasks.
Total(f) ==
    LET sum[n \in 0 .. MaxTasks] == IF n = 0 THEN 0 ELSE sum[n - 1] + f[n]
    IN  sum[MaxTasks]

\* Tokens are conserved: what was there plus what was given equals what is
\* free plus what the tasks took, through every race of gives, time-outs,
\* suspensions and deletions (stub_queue_send skips the count when it woke a
\* waiter; a waiter whose deadline passed is no longer served).
TokensConserved == use = "counting" => Initial + given = count + Total(held)

\* No lost wake-up: nobody waits while a token is free ("A blocking waiter
\* resumes after the give with pdTRUE already in its saved return register").
NoTokenWaits == count > 0 => \A i \in AppTasks : "q" \notin waits[i]

\* A task that waits has not been told that it succeeded ("a take that timed
\* out reported that it had acquired the semaphore").
WaitersNotTold == \A i \in AppTasks : "q" \in waits[i] => ~ret[i]

\* With the recursive calls the owner and the depth on record are the true
\* ones, also after a hand-over to a task that was waiting.
OwnerExact ==
    \A i \in AppTasks : IF held[i] > 0 THEN owner = i /\ depth = held[i]
                       ELSE owner # i

\* Mutual exclusion, through the plain calls or the recursive ones
\* (xSemaphoreTake, xQueueTakeMutexRecursive and their gives): at most one task
\* holds the mutex, it is free exactly when nobody does, and mutex_owner and
\* mutex_depth are true, hand-overs included.
MutualExclusion ==
    /\ IsMutex =>
          /\ \A i, j \in AppTasks : held[i] > 0 /\ held[j] > 0 => i = j
          /\ count = 1 <=> \A i \in AppTasks : held[i] = 0
    /\ use = "recursive" => OwnerExact
=============================================================================
