------------------------- MODULE FrtObjectsProofs -------------------------
(***************************************************************************)
(* Proofs about the kernel objects.  FrtSemaphores: for any number of      *)
(* tasks, tokens and time-outs, a mutex has at most one holder, its        *)
(* recorded owner and depth are true, nobody waits beside a free token,    *)
(* and no waiting take has been told that it succeeded.  MCFrtObjects: the *)
(* properties of semaphores, notifications, ring buffers and mailboxes     *)
(* together, from the invariants of each.                                  *)
(***************************************************************************)
EXTENDS MCFrtObjects, FrtSchedProofs

-----------------------------------------------------------------------------
\* The inductive invariant.  A task that waits for a token is an application task
\* that is blocked, or was deleted while it was.
WaitersBlocked ==
    \A i \in Tasks : "q" \in waits[i] =>
       /\ i \in AppTasks
       /\ \/ state[i] \in {"queue", "sleeping"}
          \/ state[i] = "unused" /\ "delete_blocked" \in Guest

\* The scheduler's part as a whole; nobody sends to a semaphore.
SchedInv ==
    /\ SchedTypeOK /\ Settled /\ CurrentRuns /\ WaitersBlocked
    /\ \A i \in Tasks : "sender" \notin waits[i]

\* Each kind of call keeps to its own mutexes.
Disciplined == use \in {"mutex", "recursive"}

\* A waiting take has not been answered, and its task does not hold the mutex.
Pending ==
    \A i \in Tasks : "q" \in waits[i] =>
       /\ ~ret[i]
       /\ Disciplined => held[i] = 0

\* Nobody waits beside a free token, unless some takes wait for an item.
Served ==
    "generic_receive" \notin Guest =>
       /\ \A i \in Tasks : call[i] # "receive"
       /\ \A i \in Tasks : "q" \in waits[i] => call[i] = "take"
       /\ count > 0 => \A i \in Tasks : "q" \notin waits[i]

\* The plain calls do not nest.
HeldOnce == use = "mutex" => \A i \in AppTasks : held[i] <= 1

\* MutualExclusion, of a mutex that only one kind of calls is applied to.
Excluded == Disciplined => MutualExclusion

SInv == TypeOK /\ SchedInv /\ Pending /\ Served /\ HeldOnce /\ Excluded

-----------------------------------------------------------------------------
\* Application tasks have a slot of the task table.
LEMMA AppIsTask == AppTasks \subseteq Tasks /\ MaxTasks \in Nat /\ NoOwner \notin Tasks
  BY SchedAssumption DEF AppTasks, Tasks, NoOwner

\* No task begins to wait.
Eased == \A i \in Tasks : "q" \in waits'[i] => "q" \in waits[i]

\* Whatever the scheduler moves, its invariant holds and no wait begins.
LEMMA MovesStep ==
    ASSUME SchedInv, SchedTypeOK', Settled', CurrentRuns', \A i \in Tasks : Moves(i)
    PROVE  SchedInv' /\ Eased
<1>1. Eased
  BY DEF Moves, Eased
<1>2. \A i \in Tasks : "sender" \notin waits'[i]
  BY DEF SchedInv, Moves
<1>3. WaitersBlocked'
  <2> SUFFICES ASSUME NEW i \in Tasks, "q" \in waits'[i]
               PROVE  /\ i \in AppTasks
                      /\ \/ state'[i] \in {"queue", "sleeping"}
                         \/ state'[i] = "unused" /\ "delete_blocked" \in Guest
    BY DEF WaitersBlocked
  <2>1. Moves(i)
    OBVIOUS
  <2> QED BY <2>1 DEF SchedInv, WaitersBlocked, Moves
<1> QED BY <1>1, <1>2, <1>3 DEF SchedInv

\* A current application task is not waiting.
LEMMA CallerRuns ==
    ASSUME SchedInv, NEW c \in Cores, current[c] \in AppTasks
    PROVE  state[current[c]] = "running" /\ "q" \notin waits[current[c]]
  BY AppIsTask DEF SchedInv, CurrentRuns, WaitersBlocked

\* A call blocks on the semaphore.
LEMMA BlockStep ==
    ASSUME SchedInv, NEW c \in Cores, NEW timeout \in Timeouts, current[c] \in AppTasks,
           SchedSwitch(c, WaitFor(c, "queue", {"q"}, timeout, SaveContext(c, Tcbs))),
           UNCHANGED <<scheduler_started, guest_call>>
    PROVE  /\ SchedInv'
           /\ \A i \in Tasks : i # current[c] /\ "q" \in waits'[i] => "q" \in waits[i]
<1> DEFINE me == current[c]
<1>1. /\ SchedTypeOK /\ Settled /\ CurrentRuns /\ WaitersBlocked
      /\ \A i \in Tasks : "sender" \notin waits[i]
      /\ "queue" \in States \ {"ready", "running", "sleeping", "unused"}
      /\ {"q"} \in SUBSET WaitKinds
  BY DEF SchedInv, States, WaitKinds
<1>2. /\ SchedTypeOK' /\ Settled' /\ CurrentRuns'
      /\ me \in Tasks /\ me \in AppTasks
      /\ waits'[me] = waits[me] \cup {"q"}
      /\ state'[me] \in {"queue", "sleeping"}
      /\ \A i \in Tasks : i # me => Moves(i)
  BY <1>1, BlockEffect
<1> HIDE DEF me
<1>3. \A i \in Tasks : i # me /\ "q" \in waits'[i] => "q" \in waits[i]
  BY <1>2 DEF Moves
<1>4. \A i \in Tasks : "sender" \notin waits'[i]
  BY <1>1, <1>2 DEF Moves
<1>5. WaitersBlocked'
  <2> SUFFICES ASSUME NEW i \in Tasks, "q" \in waits'[i]
               PROVE  /\ i \in AppTasks
                      /\ \/ state'[i] \in {"queue", "sleeping"}
                         \/ state'[i] = "unused" /\ "delete_blocked" \in Guest
    BY DEF WaitersBlocked
  <2>1. CASE i = me
    BY <1>2, <2>1
  <2>2. CASE i # me
    <3>1. Moves(i)
      BY <1>2, <2>2
    <3> QED BY <1>1, <3>1 DEF WaitersBlocked, Moves
  <2> QED BY <2>1, <2>2
<1> QED BY <1>2, <1>3, <1>4, <1>5 DEF SchedInv, me

\* The TCB of a task is edited so that no wait begins.
LEMMA EditStep ==
    ASSUME SchedInv, NEW j \in Tasks, NEW st \in States, NEW w \in SUBSET waits[j],
           Edited(j, st, w),
           UNCHANGED <<tableVars, current, exec, slice, scheduler_started, guest_call>>,
           running' \in [Cores -> BOOLEAN], halted' \in [Cores -> BOOLEAN],
           st # "running" => \A c \in Cores : current[c] # j,
           "q" \in w => st = "unused" /\ "delete_blocked" \in Guest
    PROVE  /\ SchedInv' /\ Eased
           /\ state' = [state EXCEPT ![j] = st]
           /\ waits' = [waits EXCEPT ![j] = w]
<1>1. /\ SchedTypeOK /\ Settled /\ CurrentRuns /\ WaitersBlocked
      /\ \A i \in Tasks : "sender" \notin waits[i]
      /\ waits \in [Tasks -> SUBSET WaitKinds] /\ state \in [Tasks -> States]
  BY DEF SchedInv, SchedTypeOK
<1>2. w \in SUBSET WaitKinds
  BY <1>1
<1>3. /\ SchedTypeOK' /\ Settled' /\ CurrentRuns'
      /\ state' = [state EXCEPT ![j] = st]
      /\ waits' = [waits EXCEPT ![j] = w]
  BY <1>1, <1>2, EditEffect
<1>4. \A i \in Tasks : /\ state'[i] = IF i = j THEN st ELSE state[i]
                       /\ waits'[i] = IF i = j THEN w ELSE waits[i]
  BY <1>1, <1>3
<1>5. Eased /\ \A i \in Tasks : "sender" \notin waits'[i]
  BY <1>1, <1>4 DEF Eased
<1>6. WaitersBlocked'
  BY <1>1, <1>4 DEF WaitersBlocked
<1> QED BY <1>3, <1>5, <1>6 DEF SchedInv

-----------------------------------------------------------------------------
\* What the counters of a mutex say, kept by each way a token moves.
MutexOK == HeldOnce /\ Excluded

\* A task takes the free token.
LEMMA TakenOK ==
    ASSUME TypeOK, MutexOK, NEW me \in AppTasks, count > 0, count' = count - 1,
           held' = [held EXCEPT ![me] = held[me] + 1], use' = use,
           use = "recursive" => owner' = me /\ depth' = 1
    PROVE  MutexOK'
<1>1. /\ held \in [Tasks -> Nat] /\ me \in Tasks /\ count \in Nat
      /\ \A i \in AppTasks : i \in Tasks
      /\ Disciplined => count = 1
  BY AppIsTask, SemaphoreAssumption DEF TypeOK, Capacity, IsMutex, Disciplined
<1>2. /\ \A i \in AppTasks : held'[i] = IF i = me THEN held[me] + 1 ELSE held[i]
      /\ \A i \in AppTasks : held[i] \in Nat
  BY <1>1
<1>3. Disciplined => \A i \in AppTasks : held[i] = 0
  BY <1>1 DEF MutexOK, Excluded, MutualExclusion, IsMutex, Disciplined
<1>4. Disciplined => /\ held'[me] = 1 /\ count' = 0
                     /\ \A i \in AppTasks : i # me => held'[i] = 0
  BY <1>1, <1>2, <1>3
<1>5. HeldOnce'
  BY <1>4 DEF HeldOnce, Disciplined
<1>6. OwnerExact' \/ use # "recursive"
  BY <1>4 DEF OwnerExact, Disciplined
<1>7. Disciplined => /\ \A i, j \in AppTasks : held'[i] > 0 /\ held'[j] > 0 => i = j
                     /\ count' = 1 <=> \A i \in AppTasks : held'[i] = 0
  BY <1>4
<1> QED BY <1>5, <1>6, <1>7 DEF MutexOK, Excluded, MutualExclusion, IsMutex, Disciplined

\* Its holder frees the token.
LEMMA FreedOK ==
    ASSUME TypeOK, MutexOK, NEW me \in AppTasks, held[me] > 0, use' = use,
           Disciplined => count' = 1,
           held' = [held EXCEPT ![me] = held[me] - 1],
           use = "recursive" => owner = me /\ depth <= 1 /\ owner' = NoOwner
    PROVE  MutexOK'
<1>1. /\ held \in [Tasks -> Nat] /\ me \in Tasks
      /\ \A i \in AppTasks : i \in Tasks /\ i # NoOwner
  BY AppIsTask DEF TypeOK
<1>2. /\ \A i \in AppTasks : held'[i] = IF i = me THEN held[me] - 1 ELSE held[i]
      /\ \A i \in AppTasks : held[i] \in Nat
  BY <1>1
<1>3. Disciplined => /\ held[me] = 1
                     /\ \A i \in AppTasks : i # me => held[i] = 0
  BY <1>1, <1>2 DEF MutexOK, Excluded, MutualExclusion, IsMutex, HeldOnce, OwnerExact, Disciplined
<1>4. Disciplined => \A i \in AppTasks : held'[i] = 0
  BY <1>2, <1>3
<1>5. HeldOnce'
  BY <1>4 DEF HeldOnce, Disciplined
<1>6. OwnerExact' \/ use # "recursive"
  BY <1>1, <1>4 DEF OwnerExact, Disciplined
<1>7. Disciplined => /\ \A i, j \in AppTasks : held'[i] > 0 /\ held'[j] > 0 => i = j
                     /\ count' = 1 <=> \A i \in AppTasks : held'[i] = 0
  BY <1>4
<1> QED BY <1>5, <1>6, <1>7 DEF MutexOK, Excluded, MutualExclusion, IsMutex, Disciplined

\* Its holder hands the token to another task.
LEMMA HandedOK ==
    ASSUME TypeOK, MutexOK, NEW me \in AppTasks, NEW to \in AppTasks, to # me,
           held[me] > 0, Disciplined => held[to] = 0 /\ count' = 0, use' = use,
           \A j \in AppTasks : held'[j] = IF j = to THEN held[to] + 1
                                        ELSE IF j = me THEN held[me] - 1 ELSE held[j],
           use = "recursive" => /\ owner = me /\ depth <= 1
                                /\ owner' = to /\ depth' = 1
    PROVE  MutexOK'
<1>1. \A j \in AppTasks : held[j] \in Nat
  BY AppIsTask DEF TypeOK
<1>2. Disciplined => /\ held[me] = 1 /\ held[to] = 0
                     /\ \A j \in AppTasks : j # me => held[j] = 0
  BY <1>1 DEF MutexOK, Excluded, MutualExclusion, IsMutex, HeldOnce, OwnerExact, Disciplined
<1>3. Disciplined => /\ held'[to] = 1 /\ count' = 0
                     /\ \A j \in AppTasks : j # to => held'[j] = 0
  BY <1>2
<1>4. HeldOnce'
  BY <1>3 DEF HeldOnce, Disciplined
<1>5. OwnerExact' \/ use # "recursive"
  BY <1>3 DEF OwnerExact, Disciplined
<1>6. Disciplined => /\ \A j, k \in AppTasks : held'[j] > 0 /\ held'[k] > 0 => j = k
                     /\ count' = 1 <=> \A j \in AppTasks : held'[j] = 0
  BY <1>3
<1> QED BY <1>4, <1>5, <1>6 DEF MutexOK, Excluded, MutualExclusion, IsMutex, Disciplined

\* A recursive call of the owner changes the depth alone.
LEMMA NestedOK ==
    ASSUME TypeOK, MutexOK, RecursiveCalls, NEW me \in AppTasks, owner = me,
           NEW d \in {-1, 1}, d = -1 => depth > 1,
           depth' = depth + d, held' = [held EXCEPT ![me] = held[me] + d],
           UNCHANGED <<use, count, owner>>
    PROVE  MutexOK'
<1>1. /\ held \in [Tasks -> Nat] /\ me \in Tasks /\ depth \in Nat
      /\ \A i \in AppTasks : i \in Tasks
  BY AppIsTask, SemaphoreAssumption DEF TypeOK
<1>2. /\ \A i \in AppTasks : held'[i] = IF i = me THEN held[me] + d ELSE held[i]
      /\ \A i \in AppTasks : held[i] \in Nat
  BY <1>1
<1>3. HeldOnce'
  BY DEF RecursiveCalls, HeldOnce
<1>4. Disciplined => use = "recursive"
  BY DEF RecursiveCalls, Disciplined
<1>5. Disciplined => /\ held[me] > 0 /\ depth = held[me] /\ held'[me] > 0
                     /\ \A i \in AppTasks : i # me => held[i] = 0
  BY <1>1, <1>2, <1>4 DEF MutexOK, Excluded, MutualExclusion, IsMutex, OwnerExact
<1>6. Disciplined => OwnerExact'
  BY <1>1, <1>2, <1>5 DEF OwnerExact
<1>7. Disciplined => /\ \A i, j \in AppTasks : held'[i] > 0 /\ held'[j] > 0 => i = j
                     /\ count' = 1 <=> \A i \in AppTasks : held'[i] = 0
  BY <1>2, <1>4, <1>5 DEF MutexOK, Excluded, MutualExclusion, IsMutex
<1> QED BY <1>3, <1>6, <1>7 DEF MutexOK, Excluded, MutualExclusion, IsMutex, Disciplined

\* Nothing of it changes.
LEMMA KeptOK ==
    ASSUME MutexOK, UNCHANGED <<use, count, owner, depth, held>>
    PROVE  MutexOK'
  BY DEF MutexOK, HeldOnce, Excluded, MutualExclusion, IsMutex, OwnerExact, Disciplined

\* Neither property speaks of semaphores.
LEMMA CountingOK == ASSUME use = "counting", use' = use PROVE MutexOK'
  BY DEF MutexOK, HeldOnce, Excluded, Disciplined

-----------------------------------------------------------------------------
\* The waiting tasks, in a settled system, are found in the whole table.
LEMMA WaitersAre ==
    ASSUME SchedInv
    PROVE  \A i : i \in Waiters <=> i \in Tasks /\ "q" \in waits[i]
  BY DEF SchedInv, Waiters, Settled, Tasks

\* The search of the table finds a task to serve when there is one.
LEMMA FirstServable ==
    ASSUME SchedInv, Servable # {}
    PROVE  /\ First(Servable) \in Servable
           /\ First(Servable) \in AppTasks /\ First(Servable) \in Tasks
           /\ "q" \in waits[First(Servable)]
<1>1. Servable \subseteq Waiters
  BY DEF Servable
<1>2. Servable \in SUBSET Nat
  BY <1>1, WaitersAre, SchedAssumption DEF Tasks
<1>3. \E i \in Servable : \A j \in Servable : i <= j
  BY <1>2, LeastNat
<1>4. First(Servable) \in Servable
  BY <1>3 DEF First
<1>5. First(Servable) \in Tasks /\ "q" \in waits[First(Servable)]
  BY <1>1, <1>4, WaitersAre
<1> QED BY <1>4, <1>5 DEF SchedInv, WaitersBlocked

\* Without a task to serve nobody waits, if all takes wait for the token.
LEMMA NobodyWaits ==
    ASSUME SchedInv, Served, Servable = {}, "generic_receive" \notin Guest
    PROVE  \A i \in Tasks : "q" \notin waits[i]
  BY WaitersAre DEF Served, Servable

\* What a step of the scheduler leaves of the waits' part of the invariant.
LEMMA WaitsKept ==
    ASSUME Pending, Served, Eased, UNCHANGED <<use, call, ret>>,
           \A i \in Tasks : "q" \in waits'[i] /\ Disciplined => held'[i] = held[i],
           count' = count \/ \A i \in Tasks : "q" \notin waits[i]
    PROVE  Pending' /\ Served'
<1>1. Disciplined' <=> Disciplined
  BY DEF Disciplined
<1>2. Pending'
  BY <1>1 DEF Pending, Eased
<1>3. Served'
  BY DEF Served, Eased
<1> QED BY <1>2, <1>3

\* wake_queue_waiter_locked(): the take of task i is completed.
LEMMA ServeStep ==
    ASSUME TypeOK, SchedInv, Pending, Served, NEW i \in Tasks, i \in Servable,
           "q" \in waits[i], Serve(i), UNCHANGED <<use, call>>,
           \A j \in Tasks : j # i /\ "q" \in waits[j] => held'[j] = held[j]
    PROVE  /\ SchedInv' /\ Pending' /\ Served'
           /\ ret' \in [Tasks -> BOOLEAN] /\ count' \in 0 .. Capacity
<1> DEFINE st == ReleasedState(i)
           w  == waits[i] \ {"q"}
<1>1. /\ st \in States
      /\ st # "running" => \A c \in Cores : current[c] # i
  BY DEF ReleasedState, CurrentOn, States
<1>2. /\ waits \in [Tasks -> SUBSET WaitKinds] /\ ret \in [Tasks -> BOOLEAN]
      /\ w \in SUBSET waits[i] /\ "q" \notin w
      /\ Capacity \in Nat /\ count \in 0 .. Capacity
  BY SemaphoreAssumption DEF SchedInv, SchedTypeOK, TypeOK, Capacity
<1>3. Edited(i, st, w)
  BY DEF Serve, Edited, Tcbs
<1>4. running' \in [Cores -> BOOLEAN] /\ halted' \in [Cores -> BOOLEAN]
  <2>1. /\ running' = [c \in Cores |-> running[c] \/ current[c] = i]
        /\ halted' = [c \in Cores |-> halted[c] /\ current[c] # i]
    BY DEF Serve, Unparked
  <2>2. \A c \in Cores : /\ (running[c] \/ current[c] = i) \in BOOLEAN
                         /\ (halted[c] /\ current[c] # i) \in BOOLEAN
    OBVIOUS
  <2> QED BY <2>1, <2>2
<1>5. UNCHANGED <<tableVars, current, exec, slice, scheduler_started, guest_call>>
  BY DEF Serve
<1> HIDE DEF st, w
<1>6. SchedInv' /\ Eased /\ waits' = [waits EXCEPT ![i] = w]
  BY <1>1, <1>2, <1>3, <1>4, <1>5, EditStep
<1>7. \A j \in Tasks : "q" \in waits'[j] => j # i /\ "q" \in waits[j]
  BY <1>2, <1>6
<1>8. ret' = [ret EXCEPT ![i] = TRUE] /\ count' = IF call[i] = "take" THEN count ELSE count - 1
  BY DEF Serve
<1>9. ret' \in [Tasks -> BOOLEAN] /\ \A j \in Tasks : j # i => ret'[j] = ret[j]
  BY <1>2, <1>8
<1>10. Pending'
  BY <1>7, <1>9 DEF Pending, Disciplined
<1>11. call[i] # "take" => count > 0
  BY DEF Servable
<1>12. count' \in 0 .. Capacity
  BY <1>2, <1>8, <1>11
<1>13. Served'
  BY <1>7, <1>8 DEF Served
<1> QED BY <1>6, <1>9, <1>10, <1>12, <1>13

\* Who becomes the owner.
LEMMA OwnerTyped ==
    ASSUME TypeOK, NEW i \in Tasks, BecomesOwner(i)
    PROVE  owner' \in {NoOwner} \cup Tasks /\ depth' \in 0 .. MaxDepth
<1>1. 1 \in 0 .. MaxDepth
  BY SemaphoreAssumption
<1> QED BY <1>1 DEF TypeOK, BecomesOwner

\* The invariant from its parts.
LEMMA Assemble ==
    ASSUME SchedInv', Pending', Served', MutexOK', use' \in Guest \cap Uses,
           count' \in 0 .. Capacity', owner' \in {NoOwner} \cup Tasks,
           depth' \in 0 .. MaxDepth, call' \in [Tasks -> {"none", "take", "receive"}],
           ret' \in [Tasks -> BOOLEAN], held' \in [Tasks -> Nat], given' \in 0 .. MaxGives
    PROVE  SInv'
  BY DEF SInv, TypeOK, SchedInv, MutexOK

\* The kind of object is what it was.
LEMMA SameUse ==
    ASSUME use' = use
    PROVE  Capacity' = Capacity /\ (Disciplined' <=> Disciplined) /\ (IsMutex' <=> IsMutex)
  BY DEF Capacity, IsMutex, Disciplined

-----------------------------------------------------------------------------
\* A stub that neither switches nor touches any task.
LEMMA NoSwitchStep ==
    ASSUME SchedInv, NoSwitch
    PROVE  SchedInv' /\ Eased /\ waits' = waits
<1>1. SchedInv' /\ waits' = waits
  BY DEF NoSwitch, schedVars, SchedInv, SchedTypeOK, Settled, CurrentRuns, WaitersBlocked
<1> QED BY <1>1 DEF Eased

\* A step that leaves the semaphore alone and begins no wait.
LEMMA QuietStep ==
    ASSUME SInv, SchedInv', Eased, UNCHANGED semVars
    PROVE  SInv'
<1>1. UNCHANGED <<use, count, owner, depth, call, ret, held, given>>
  BY DEF semVars
<1>2. TypeOK /\ Pending /\ Served /\ MutexOK
  BY DEF SInv, MutexOK
<1>3. MutexOK' /\ Capacity' = Capacity
  BY <1>1, <1>2, KeptOK, SameUse
<1>4. Pending' /\ Served'
  BY <1>1, <1>2, WaitsKept
<1> QED BY <1>1, <1>2, <1>3, <1>4, Assemble DEF TypeOK

\* xSemaphoreGive and xQueueGiveFromISR of a semaphore.
LEMMA SemaphoreGiveStep ==
    ASSUME SInv, NEW c \in Cores, XSemaphoreGive(c)
    PROVE  SInv'
<1>1. TypeOK /\ SchedInv /\ Pending /\ Served
  BY DEF SInv
<1>2. /\ ~IsMutex /\ Give /\ given' \in 0 .. MaxGives
      /\ use' = use /\ call' = call
  BY <1>1, SemaphoreAssumption DEF XSemaphoreGive, TypeOK
<1>3. /\ use = "counting" /\ Capacity' = Capacity /\ MutexOK'
      /\ Capacity \in Nat /\ ~Disciplined
  BY <1>1, <1>2, CountingOK, SameUse, SemaphoreAssumption
  DEF TypeOK, IsMutex, Uses, Capacity, Disciplined
<1>4. CASE GiveToWaiter
  <2> DEFINE i == First(Servable)
  <2>1. /\ i \in Servable /\ i \in Tasks /\ "q" \in waits[i]
        /\ Serve(i) /\ BecomesOwner(i) /\ held' = [held EXCEPT ![i] = held[i] + 1]
    BY <1>1, <1>4, FirstServable DEF GiveToWaiter
  <2> HIDE DEF i
  <2>2. held' \in [Tasks -> Nat] /\ \A j \in Tasks : j # i => held'[j] = held[j]
    BY <1>1, <2>1 DEF TypeOK
  <2>3. /\ SchedInv' /\ Pending' /\ Served'
        /\ ret' \in [Tasks -> BOOLEAN] /\ count' \in 0 .. Capacity
    BY <1>1, <1>2, <2>1, <2>2, ServeStep
  <2>4. owner' \in {NoOwner} \cup Tasks /\ depth' \in 0 .. MaxDepth
    BY <1>1, <2>1, OwnerTyped
  <2> QED BY <1>1, <1>2, <1>3, <2>2, <2>3, <2>4, Assemble DEF TypeOK
<1>5. CASE GiveToCount
  <2>1. /\ Servable = {} /\ count < Capacity /\ count' = count + 1 /\ NoSwitch
        /\ UNCHANGED <<owner, depth, ret, held>>
    BY <1>5 DEF GiveToCount
  <2>2. SchedInv' /\ Eased /\ waits' = waits
    BY <1>1, <2>1, NoSwitchStep
  <2>3. Pending'
    BY <1>1, <1>2, <2>1, <2>2 DEF Pending, Disciplined
  <2>4. Served'
    BY <1>1, <1>2, <2>1, <2>2, NobodyWaits DEF Served
  <2>5. count' \in 0 .. Capacity
    BY <1>1, <1>3, <2>1 DEF TypeOK
  <2> QED BY <1>1, <1>2, <1>3, <2>1, <2>2, <2>3, <2>4, <2>5, Assemble DEF TypeOK
<1> QED BY <1>2, <1>4, <1>5 DEF Give

\* A mutex is given back by the caller me that knows to hold it, by either call:
\* its token goes to the first waiter, or is free.
GivesBack(me) ==
    /\ IsMutex /\ held[me] > 0 /\ UNCHANGED <<use, call, given>>
    /\ use = "recursive" => owner = me /\ depth <= 1
    /\ \/ /\ Servable # {}
          /\ LET i == First(Servable)
             IN  /\ Serve(i)
                 /\ BecomesOwner(i)
                 /\ held' = [held EXCEPT ![me] = @ - 1, ![i] = @ + 1]
       \/ /\ Servable = {}
          /\ count' = IF count < Capacity THEN count + 1 ELSE count
          /\ held' = [held EXCEPT ![me] = @ - 1]
          /\ NoSwitch
          /\ UNCHANGED ret
          /\ owner' \in {NoOwner, owner} /\ depth' \in {0, depth}
          /\ use = "recursive" => owner' = NoOwner

LEMMA GivesBackStep ==
    ASSUME SInv, NEW c \in Cores, current[c] \in AppTasks, GivesBack(current[c])
    PROVE  SInv'
<1> DEFINE me == current[c]
<1>1. TypeOK /\ SchedInv /\ Pending /\ Served /\ MutexOK
  BY DEF SInv, MutexOK
<1>2. me \in AppTasks /\ me \in Tasks /\ "q" \notin waits[me]
  BY <1>1, CallerRuns, AppIsTask
<1>3. /\ IsMutex /\ held[me] > 0 /\ UNCHANGED <<use, call, given>>
      /\ use = "recursive" => owner = me /\ depth <= 1
  BY DEF GivesBack
<1>4. /\ Capacity = 1 /\ Capacity' = 1 /\ count \in {0, 1}
      /\ held \in [Tasks -> Nat]
  BY <1>1, <1>3, SameUse DEF TypeOK, Capacity
<1>5. Disciplined => count = 0
  BY <1>1, <1>2, <1>3, <1>4 DEF MutexOK, Excluded, MutualExclusion, IsMutex, Disciplined
<1>6. CASE Servable # {}
  <2> DEFINE to == First(Servable)
  <2>1. /\ to \in Servable /\ to \in Tasks /\ to \in AppTasks /\ "q" \in waits[to]
        /\ Serve(to) /\ BecomesOwner(to)
        /\ held' = [held EXCEPT ![me] = held[me] - 1, ![to] = held[to] + 1]
    <3>1. /\ Serve(to) /\ BecomesOwner(to)
          /\ held' = [held EXCEPT ![me] = @ - 1, ![to] = @ + 1]
      BY <1>6 DEF GivesBack
    <3>2. to # me
      BY <1>1, <1>2, <1>6, FirstServable
    <3> QED BY <1>1, <1>2, <1>4, <1>6, <3>1, <3>2, FirstServable
  <2> HIDE DEF to, me
  <2>2. to # me
    BY <1>2, <2>1
  <2>3. \A j \in Tasks : held'[j] = IF j = to THEN held[to] + 1
                                    ELSE IF j = me THEN held[me] - 1 ELSE held[j]
    BY <1>2, <1>4, <2>1, <2>2
  <2>4. held' \in [Tasks -> Nat]
    BY <1>2, <1>3, <1>4, <2>1, <2>2
  <2>5. /\ SchedInv' /\ Pending' /\ Served'
        /\ ret' \in [Tasks -> BOOLEAN] /\ count' \in 0 .. Capacity
    <3>1. \A j \in Tasks : j # to /\ "q" \in waits[j] => held'[j] = held[j]
      BY <1>2, <2>3
    <3> QED BY <1>1, <1>3, <2>1, <3>1, ServeStep
  <2>6. owner' \in {NoOwner} \cup Tasks /\ depth' \in 0 .. MaxDepth
    BY <1>1, <2>1, OwnerTyped
  <2>7. Disciplined => call[to] = "take" /\ count' = 0
    BY <1>5, <2>1 DEF Servable, Serve
  <2>8. Disciplined => held[to] = 0
    BY <1>1, <2>1 DEF Pending
  <2>9. use = "recursive" => owner' = to /\ depth' = 1
    BY <1>3, <2>1, <2>7 DEF BecomesOwner, Disciplined
  <2>10. MutexOK'
    <3>1. \A j \in AppTasks : held'[j] = IF j = to THEN held[to] + 1
                                     ELSE IF j = me THEN held[me] - 1 ELSE held[j]
      BY <2>3, AppIsTask
    <3> QED BY <1>1, <1>2, <1>3, <2>1, <2>2, <2>7, <2>8, <2>9, <3>1, HandedOK
  <2> QED BY <1>1, <1>3, <1>4, <2>4, <2>5, <2>6, <2>10, Assemble DEF TypeOK
<1>7. CASE Servable = {}
  <2>1. /\ count' = IF count < Capacity THEN count + 1 ELSE count
        /\ held' = [held EXCEPT ![me] = held[me] - 1]
        /\ NoSwitch /\ ret' = ret
        /\ owner' \in {NoOwner, owner} /\ depth' \in {0, depth}
        /\ use = "recursive" => owner' = NoOwner
    BY <1>7 DEF GivesBack
  <2> HIDE DEF me
  <2>2. SchedInv' /\ Eased /\ waits' = waits
    BY <1>1, <2>1, NoSwitchStep
  <2>3. count' = 1
    BY <1>4, <2>1
  <2>4. held' \in [Tasks -> Nat] /\ \A j \in Tasks : j # me => held'[j] = held[j]
    BY <1>2, <1>3, <1>4, <2>1
  <2>5. Pending' /\ Served'
    <3>1. Pending'
      BY <1>1, <1>2, <1>3, <2>1, <2>2, <2>4 DEF Pending, Disciplined
    <3>2. Served'
      BY <1>1, <1>3, <1>7, <2>2, NobodyWaits DEF Served
    <3> QED BY <3>1, <3>2
  <2>6. MutexOK'
    BY <1>1, <1>2, <1>3, <2>1, <2>3, FreedOK
  <2>7. owner' \in {NoOwner} \cup Tasks /\ depth' \in 0 .. MaxDepth
    BY <1>1, <2>1, SemaphoreAssumption DEF TypeOK
  <2> QED BY <1>1, <1>3, <1>4, <2>1, <2>2, <2>3, <2>4, <2>5, <2>6, <2>7, Assemble DEF TypeOK
<1> QED BY <1>6, <1>7

\* The plain give of a mutex.
LEMMA MutexGiveStep ==
    ASSUME SInv, NEW c \in Cores, MutexGive(c)
    PROVE  SInv'
<1>1. current[c] \in AppTasks
  BY DEF MutexGive, AppCall
<1>2. GivesBack(current[c])
  <2>1. PlainCalls /\ use # "recursive"
    BY DEF MutexGive, PlainCalls
  <2> QED BY <2>1 DEF MutexGive, GivesBack
<1> QED BY <1>1, <1>2, GivesBackStep

\* A call that finds the token, or holds it already, touches no task.
LEMMA CountedStep ==
    ASSUME SInv, NEW c \in Cores, current[c] \in AppTasks, NoSwitch,
           UNCHANGED <<use, call, ret, given>>,
           NEW h \in Nat, held' = [held EXCEPT ![current[c]] = h],
           count' \in 0 .. count, owner' \in {NoOwner} \cup Tasks,
           depth' \in 0 .. MaxDepth, MutexOK'
    PROVE  SInv'
<1> DEFINE me == current[c]
<1>1. TypeOK /\ SchedInv /\ Pending /\ Served
  BY DEF SInv
<1>2. me \in AppTasks /\ me \in Tasks /\ "q" \notin waits[me]
  BY <1>1, CallerRuns, AppIsTask
<1> HIDE DEF me
<1>3. held' = [held EXCEPT ![me] = h]
  BY DEF me
<1>4. SchedInv' /\ Eased /\ waits' = waits
  BY <1>1, NoSwitchStep
<1>5. held' \in [Tasks -> Nat] /\ \A j \in Tasks : j # me => held'[j] = held[j]
  BY <1>1, <1>2, <1>3, ZenonT(40) DEF TypeOK
<1>6. Capacity' = Capacity /\ Capacity \in Nat
  BY SameUse, SemaphoreAssumption DEF Capacity
<1>7. count' \in 0 .. Capacity /\ count \in Nat /\ (count' > 0 => count > 0)
  BY <1>1, <1>6 DEF TypeOK
<1>8. Pending'
  BY <1>1, <1>2, <1>4, <1>5 DEF Pending, Disciplined
<1>9. Served'
  BY <1>1, <1>4, <1>7 DEF Served
<1> QED BY <1>1, <1>4, <1>5, <1>6, <1>7, <1>8, <1>9, Assemble DEF TypeOK

\* There is no token: the take waits.
LEMMA WaitStep ==
    ASSUME SInv, NEW c \in Cores, current[c] \in AppTasks,
           NEW kind \in {"take", "receive"}, WaitForToken(c, kind),
           kind = "receive" => "generic_receive" \in Guest,
           Disciplined => held[current[c]] = 0,
           UNCHANGED <<use, owner, depth, given>>
    PROVE  SInv'
<1> DEFINE me == current[c]
<1>1. TypeOK /\ SchedInv /\ Pending /\ Served /\ MutexOK
  BY DEF SInv, MutexOK
<1>2. me \in AppTasks /\ me \in Tasks
  BY AppIsTask
<1>3. /\ count = 0 /\ count' = 0 /\ held' = held
      /\ call' = [call EXCEPT ![me] = kind] /\ ret' = [ret EXCEPT ![me] = FALSE]
      /\ UNCHANGED <<scheduler_started, guest_call>>
  BY DEF WaitForToken
<1>4. PICK timeout \in Timeouts :
         SchedSwitch(c, WaitFor(c, "queue", {"q"}, timeout, SaveContext(c, Tcbs)))
  BY DEF WaitForToken
<1>5. /\ SchedInv'
      /\ \A i \in Tasks : i # me /\ "q" \in waits'[i] => "q" \in waits[i]
  BY <1>1, <1>2, <1>3, <1>4, BlockStep
<1>6. Disciplined => held[me] = 0
  OBVIOUS
<1> HIDE DEF me
<1>7. /\ \A i \in Tasks : call'[i] = IF i = me THEN kind ELSE call[i]
      /\ \A i \in Tasks : ret'[i] = IF i = me THEN FALSE ELSE ret[i]
      /\ call' \in [Tasks -> {"none", "take", "receive"}] /\ ret' \in [Tasks -> BOOLEAN]
  BY <1>1, <1>2, <1>3 DEF TypeOK
<1>8. Pending'
  BY <1>1, <1>3, <1>5, <1>6, <1>7 DEF Pending, Disciplined
<1>9. Served'
  BY <1>1, <1>3, <1>5, <1>7 DEF Served
<1>10. MutexOK' /\ Capacity' = Capacity
  BY <1>1, <1>3, KeptOK, SameUse
<1> QED BY <1>1, <1>3, <1>5, <1>7, <1>8, <1>9, <1>10, Assemble DEF TypeOK

\* xSemaphoreTake, or xQueueGenericReceive in its place.
LEMMA SemaphoreTakeStep ==
    ASSUME SInv, NEW c \in Cores, NEW kind \in {"take", "receive"},
           XSemaphoreTake(c, kind)
    PROVE  SInv'
<1> DEFINE me == current[c]
<1>1. TypeOK /\ SchedInv /\ MutexOK
  BY DEF SInv, MutexOK
<1>2. /\ me \in AppTasks /\ me \in Tasks /\ PlainCalls
      /\ kind = "receive" => "generic_receive" \in Guest
      /\ IsMutex => held[me] = 0
      /\ UNCHANGED <<use, owner, depth, given>>
  BY AppIsTask DEF XSemaphoreTake, AppCall
<1>3. Disciplined => held[me] = 0
  BY <1>2 DEF Disciplined, IsMutex
<1>4. CASE TakeToken(me) /\ UNCHANGED <<call, ret>>
  <2>1. /\ count > 0 /\ count' = count - 1 /\ NoSwitch
        /\ held' = [held EXCEPT ![me] = held[me] + 1]
    BY <1>4 DEF TakeToken
  <2>2. held[me] + 1 \in Nat /\ count' \in 0 .. count
    BY <1>1, <1>2, <2>1, SemaphoreAssumption DEF TypeOK, Capacity
  <2>3. MutexOK'
    <3>1. use # "recursive"
      BY <1>2 DEF PlainCalls
    <3> QED BY <1>1, <1>2, <2>1, <3>1, TakenOK
  <2>4. owner' \in {NoOwner} \cup Tasks /\ depth' \in 0 .. MaxDepth
    BY <1>1, <1>2 DEF TypeOK
  <2>5. UNCHANGED <<use, call, ret, given>>
    BY <1>2, <1>4
  <2> DEFINE h == held[me] + 1
  <2>6. h \in Nat /\ held' = [held EXCEPT ![me] = h]
    BY <2>1, <2>2
  <2> HIDE DEF h
  <2> QED BY <1>2, <2>1, <2>2, <2>3, <2>4, <2>5, <2>6, CountedStep
<1>5. CASE WaitForToken(c, kind)
  BY <1>2, <1>3, <1>5, WaitStep
<1> QED BY <1>4, <1>5 DEF XSemaphoreTake

\* A recursive call of the owner.
LEMMA NestedStep ==
    ASSUME SInv, RecursiveCalls, NEW c \in Cores, current[c] \in AppTasks,
           owner = current[c], NEW d \in {-1, 1}, d = -1 => depth > 1 /\ held[current[c]] > 0,
           d = 1 => depth < MaxDepth,
           depth' = depth + d, held' = [held EXCEPT ![current[c]] = held[current[c]] + d],
           NoSwitch, UNCHANGED <<use, owner, count, call, ret, given>>
    PROVE  SInv'
<1> DEFINE me == current[c]
           h  == held[me] + d
<1>1. TypeOK /\ MutexOK /\ me \in AppTasks /\ me \in Tasks
  BY AppIsTask DEF SInv, MutexOK
<1>2. h \in Nat /\ held' = [held EXCEPT ![me] = h]
  BY <1>1 DEF TypeOK
<1>3. MutexOK'
  <2>1. d = -1 => depth > 1
    OBVIOUS
  <2>2. owner = me /\ held' = [held EXCEPT ![me] = held[me] + d]
    OBVIOUS
  <2> HIDE DEF me
  <2> QED BY <1>1, <2>1, <2>2, NestedOK
<1>4. depth' \in 0 .. MaxDepth
  BY <1>1, SemaphoreAssumption DEF TypeOK
<1>5. count' \in 0 .. count /\ owner' \in {NoOwner} \cup Tasks
  BY <1>1, SemaphoreAssumption DEF TypeOK, Capacity
<1> HIDE DEF h
<1> QED BY <1>1, <1>2, <1>3, <1>4, <1>5, CountedStep

\* xQueueTakeMutexRecursive.
LEMMA TakeRecursiveStep ==
    ASSUME SInv, NEW c \in Cores, TakeRecursive(c)
    PROVE  SInv'
<1> DEFINE me == current[c]
<1>1. /\ me \in AppTasks /\ me \in Tasks /\ RecursiveCalls
      /\ use' = use /\ given' = given
  BY AppIsTask DEF TakeRecursive, AppCall
<1>2. TypeOK /\ MutexOK
  BY DEF SInv, MutexOK
<1>3. CASE /\ owner = me /\ depth < MaxDepth /\ depth' = depth + 1
           /\ held' = [held EXCEPT ![me] = @ + 1] /\ NoSwitch
           /\ UNCHANGED <<owner, count, call, ret>>
  <2>1. /\ 1 \in {-1, 1} /\ 1 # -1
        /\ held' = [held EXCEPT ![me] = held[me] + 1]
    BY <1>3
  <2> QED BY <1>1, <1>3, <2>1, NestedStep
<1>4. CASE /\ owner # me /\ TakeToken(me) /\ owner' = me /\ depth' = 1
           /\ UNCHANGED <<call, ret>>
  <2>1. /\ count > 0 /\ count' = count - 1 /\ NoSwitch
        /\ held' = [held EXCEPT ![me] = held[me] + 1]
    BY <1>4 DEF TakeToken
  <2>2. held[me] + 1 \in Nat /\ count' \in 0 .. count
    BY <1>1, <1>2, <2>1, SemaphoreAssumption DEF TypeOK, Capacity
  <2>3. MutexOK'
    BY <1>1, <1>2, <1>4, <2>1, TakenOK
  <2>4. owner' \in {NoOwner} \cup Tasks /\ depth' \in 0 .. MaxDepth
    BY <1>1, <1>4, SemaphoreAssumption
  <2> DEFINE h == held[me] + 1
  <2>5. h \in Nat /\ held' = [held EXCEPT ![me] = h]
    BY <2>1, <2>2
  <2> HIDE DEF h
  <2> QED BY <1>1, <1>4, <2>1, <2>2, <2>3, <2>4, <2>5, CountedStep
<1>5. CASE owner # me /\ WaitForToken(c, "take") /\ UNCHANGED <<owner, depth>>
  <2>1. Disciplined => held[me] = 0
    <3>1. Disciplined => use = "recursive"
      BY <1>1 DEF Disciplined, RecursiveCalls
    <3>2. held[me] \in Nat
      BY <1>1, <1>2 DEF TypeOK
    <3> QED BY <1>1, <1>5, <3>1, <3>2, <1>2 DEF MutexOK, Excluded, MutualExclusion, IsMutex, OwnerExact
  <2> QED BY <1>1, <1>5, <2>1, WaitStep
<1> QED BY <1>3, <1>4, <1>5 DEF TakeRecursive

\* xQueueGiveMutexRecursive.
LEMMA GiveRecursiveStep ==
    ASSUME SInv, NEW c \in Cores, GiveRecursive(c)
    PROVE  SInv'
<1> DEFINE me == current[c]
<1>1. /\ me \in AppTasks /\ me \in Tasks /\ RecursiveCalls /\ IsMutex
      /\ held[me] > 0 /\ owner = me
      /\ UNCHANGED <<use, call, given>>
  BY AppIsTask DEF GiveRecursive, AppCall, RecursiveCalls, IsMutex
<1>2. TypeOK
  BY DEF SInv
<1>3. CASE /\ depth > 1 /\ depth' = depth - 1
           /\ held' = [held EXCEPT ![me] = @ - 1] /\ NoSwitch
           /\ UNCHANGED <<owner, count, ret>>
  <2>1. -1 \in {-1, 1} /\ -1 # 1
    OBVIOUS
  <2>2. held[me] \in Nat /\ depth \in Nat
    BY <1>1, <1>2 DEF TypeOK
  <2>3. depth' = depth + (-1) /\ held[me] - 1 = held[me] + (-1)
    BY <1>3, <2>2
  <2>4. held' = [held EXCEPT ![me] = held[me] + (-1)]
    BY <1>3, <2>3
  <2> QED BY <1>1, <1>3, <2>1, <2>3, <2>4, NestedStep
<1>4. CASE depth <= 1 /\ GivesBack(me)
  BY <1>1, <1>4, GivesBackStep
<1>5. CASE /\ depth <= 1 /\ Servable # {}
           /\ LET i == First(Servable)
              IN  /\ Serve(i)
                  /\ BecomesOwner(i)
                  /\ held' = [held EXCEPT ![me] = @ - 1, ![i] = @ + 1]
  BY <1>1, <1>4, <1>5 DEF GivesBack
<1>6. CASE /\ depth <= 1 /\ Servable = {}
           /\ count' = IF count < Capacity THEN count + 1 ELSE count
           /\ owner' = NoOwner /\ depth' = 0
           /\ held' = [held EXCEPT ![me] = @ - 1] /\ NoSwitch /\ UNCHANGED ret
  BY <1>1, <1>4, <1>6 DEF GivesBack
<1> QED BY <1>3, <1>5, <1>6 DEF GiveRecursive

\* vTaskSuspend, vTaskResume and vTaskDelete of another task.
LEMMA TaskOpStep ==
    ASSUME SInv, NEW c \in Cores, NEW j \in AppTasks,
           VTaskSuspend(c, j) \/ VTaskResume(c, j) \/ VTaskDelete(c, j)
    PROVE  SInv'
<1>1. /\ SchedInv /\ j \in Tasks
      /\ state \in [Tasks -> States] /\ waits \in [Tasks -> SUBSET WaitKinds]
      /\ running \in [Cores -> BOOLEAN] /\ halted \in [Cores -> BOOLEAN]
  BY AppIsTask DEF SInv, SchedInv, SchedTypeOK
<1>2. ASSUME NEW st \in States \ {"running"}, NEW w \in SUBSET waits[j],
             Edited(j, st, w),
             UNCHANGED <<tableVars, coreVars, scheduler_started, guest_call, semVars>>,
             \A k \in Cores : current[k] # j,
             "q" \in w => st = "unused" /\ "delete_blocked" \in Guest
      PROVE  SInv'
  <2>1. /\ UNCHANGED <<tableVars, current, exec, slice, scheduler_started, guest_call>>
        /\ running' \in [Cores -> BOOLEAN] /\ halted' \in [Cores -> BOOLEAN]
        /\ UNCHANGED semVars
    BY <1>1, <1>2 DEF coreVars
  <2>2. SchedInv' /\ Eased
    BY <1>1, <1>2, <2>1, EditStep
  <2> QED BY <2>1, <2>2, QuietStep
<1>3. CASE VTaskSuspend(c, j)
  <2> DEFINE w == waits[j] \ {"q", "eg", "notify"}
  <2>1. /\ Edited(j, "suspended", w)
        /\ UNCHANGED <<tableVars, coreVars, scheduler_started, guest_call, semVars>>
        /\ \A k \in Cores : current[k] # j
    BY <1>3 DEF VTaskSuspend, Other, Edited, Tcbs
  <2>2. w \in SUBSET waits[j] /\ "q" \notin w /\ "suspended" \in States \ {"running"}
    BY DEF States
  <2> HIDE DEF w
  <2> QED BY <1>2, <2>1, <2>2
<1>4. ASSUME NEW st, Commit([Tcbs EXCEPT !.state[j] = st])
      PROVE  Edited(j, st, waits[j])
  BY <1>1, <1>4, StateEdited DEF SchedInv
<1>5. CASE VTaskResume(c, j)
  <2>1. /\ Commit([Tcbs EXCEPT !.state[j] = "ready"])
        /\ UNCHANGED <<tableVars, coreVars, scheduler_started, guest_call, semVars>>
        /\ \A k \in Cores : current[k] # j
        /\ state[j] = "suspended"
    BY <1>5 DEF VTaskResume, Other
  <2>2. "q" \notin waits[j] /\ "ready" \in States \ {"running"}
    BY <1>1, <2>1 DEF SchedInv, WaitersBlocked, States
  <2>3. Edited(j, "ready", waits[j])
    BY <1>4, <2>1, <2>2
  <2> QED BY <1>2, <2>1, <2>2, <2>3
<1>6. CASE VTaskDelete(c, j)
  <2>1. /\ Commit([Tcbs EXCEPT !.state[j] = "unused"])
        /\ UNCHANGED <<tableVars, coreVars, scheduler_started, guest_call, semVars>>
        /\ \A k \in Cores : current[k] # j
        /\ "q" \in waits[j] => "delete_blocked" \in Guest
    BY <1>6 DEF VTaskDelete, Other
  <2>2. "unused" \in States \ {"running"}
    BY DEF States
  <2>3. Edited(j, "unused", waits[j])
    BY <1>4, <2>1, <2>2
  <2> QED BY <1>2, <2>1, <2>2, <2>3
<1> QED BY <1>3, <1>5, <1>6

\* A batch boundary: preemption on one core, or the passing of a tick.
LEMMA BoundaryStep ==
    ASSUME SInv, (\E c \in Cores : CheckPreempt(c)) \/ Tick
    PROVE  SInv'
<1>1. SchedInv /\ SchedTypeOK /\ Settled /\ CurrentRuns
  BY DEF SInv, SchedInv
<1>2. ASSUME NEW c \in Cores, CheckPreempt(c)
      PROVE  /\ SchedTypeOK' /\ Settled' /\ CurrentRuns' /\ \A i \in Tasks : Moves(i)
             /\ UNCHANGED semVars
  <2>1. Preempt(c) /\ UNCHANGED <<scheduler_started, guest_call>> /\ UNCHANGED semVars
    BY <1>2 DEF CheckPreempt
  <2> QED BY <1>1, <2>1, PreemptMoves
<1>3. ASSUME Tick
      PROVE  /\ SchedTypeOK' /\ Settled' /\ CurrentRuns' /\ \A i \in Tasks : Moves(i)
             /\ UNCHANGED semVars
  <2>1. SchedTick /\ UNCHANGED guest_call /\ UNCHANGED semVars
    BY <1>3 DEF Tick
  <2> QED BY <1>1, <2>1, TickMoves
<1>4. /\ SchedTypeOK' /\ Settled' /\ CurrentRuns' /\ \A i \in Tasks : Moves(i)
      /\ UNCHANGED semVars
  BY <1>2, <1>3
<1>5. SchedInv' /\ Eased
  BY <1>1, <1>4, MovesStep
<1> QED BY <1>4, <1>5, QuietStep

-----------------------------------------------------------------------------
\* The invariant holds of an object nobody has used.
LEMMA SInit == Init => SInv
<1> SUFFICES ASSUME Init PROVE SInv
  OBVIOUS
<1> DEFINE A == [i \in Tasks |-> [prio |-> 1, affinity |-> NoAffinity, is_idle |-> FALSE]]
<1>1. \A i \in Tasks : A[i] \in Attrs
  BY SemaphoreAssumption DEF Attrs, NoAffinity
<1>2. RunningInit(A) /\ MaxTasks >= 2
  BY SemaphoreAssumption DEF Init
<1> HIDE DEF A
<1>3. /\ SchedTypeOK /\ Settled
      /\ \A i \in Tasks : waits[i] = {} /\ state[i] \in {"running", "ready"}
  BY <1>1, <1>2, RunningSettled
<1>4. \A c \in Cores : current[c] \notin AppTasks
  <2>1. current = [c \in Cores |-> MaxTasks - 1 + c]
    BY <1>2 DEF RunningInit
  <2> QED BY <2>1, SchedAssumption DEF Cores, AppTasks
<1>5. SchedInv
  BY <1>3, <1>4 DEF SchedInv, CurrentRuns, WaitersBlocked
<1>6. /\ use \in Guest \cap Uses /\ count = IF IsMutex THEN 1 ELSE Initial
      /\ owner = NoOwner /\ depth = 0 /\ call = [i \in Tasks |-> "none"]
      /\ ret = [i \in Tasks |-> FALSE] /\ held = [i \in Tasks |-> 0] /\ given = 0
  BY DEF Init
<1>7. count \in 0 .. Capacity
  BY <1>6, SemaphoreAssumption DEF Capacity
<1>8. TypeOK
  BY <1>3, <1>6, <1>7, SemaphoreAssumption DEF TypeOK
<1>9. Pending /\ Served
  BY <1>3, <1>6 DEF Pending, Served
<1>10. \A i \in AppTasks : held[i] = 0 /\ owner # i
  BY <1>6, AppIsTask
<1>11. HeldOnce
  BY <1>10 DEF HeldOnce
<1>12. use \in {"mutex", "recursive"} => count = 1
  BY <1>6 DEF IsMutex
<1>13. Excluded
  BY <1>10, <1>12 DEF Excluded, Disciplined, MutualExclusion, IsMutex, OwnerExact
<1> QED BY <1>5, <1>8, <1>9, <1>11, <1>13 DEF SInv

\* Every step keeps the invariant.
LEMMA SNext ==
    ASSUME SInv, [Next]_vars
    PROVE  SInv'
<1>1. CASE UNCHANGED vars
  <2>1. NoSwitch /\ UNCHANGED semVars
    BY <1>1 DEF vars, NoSwitch, schedVars, semVars
  <2>2. SchedInv' /\ Eased
    BY <2>1, NoSwitchStep DEF SInv
  <2> QED BY <2>1, <2>2, QuietStep
<1>2. ASSUME NEW c \in Cores,
             XSemaphoreGive(c) \/ MutexGive(c) \/ TakeRecursive(c) \/ GiveRecursive(c)
      PROVE  SInv'
  BY <1>2, SemaphoreGiveStep, MutexGiveStep, TakeRecursiveStep, GiveRecursiveStep
<1>3. ASSUME NEW c \in Cores, NEW kind \in {"take", "receive"}, XSemaphoreTake(c, kind)
      PROVE  SInv'
  BY <1>3, SemaphoreTakeStep
<1>4. ASSUME NEW c \in Cores, NEW j \in AppTasks,
             VTaskSuspend(c, j) \/ VTaskResume(c, j) \/ VTaskDelete(c, j)
      PROVE  SInv'
  BY <1>4, TaskOpStep
<1>5. CASE (\E c \in Cores : CheckPreempt(c)) \/ Tick
  BY <1>5, BoundaryStep
<1> QED BY <1>1, <1>2, <1>3, <1>4, <1>5 DEF Next

-----------------------------------------------------------------------------
\* The predecessor of a positive index that is the least of a set lies below the set.
LEMMA BeforeLeast ==
    ASSUME NEW Bad \in SUBSET (0 .. MaxTasks), NEW m \in Bad, \A k \in Bad : m <= k, m > 0
    PROVE  m - 1 \in 0 .. MaxTasks /\ m - 1 \notin Bad /\ m \in Tasks
<1>1. MaxTasks \in Nat /\ Tasks = 1 .. MaxTasks
  BY SchedAssumption DEF Tasks
<1>2. m \in Nat /\ m <= MaxTasks
  BY <1>1
<1>3. m - 1 \in 0 .. MaxTasks /\ m \in 1 .. MaxTasks /\ ~(m <= m - 1)
  BY <1>1, <1>2
<1>4. m - 1 \notin Bad
  BY <1>3
<1> QED BY <1>1, <1>3, <1>4

\* The recursive function behind Total exists: follow it to the least index at which
\* it could not.
Sums(f, g, n) == g[0] = 0 /\ \A k \in 1 .. n : g[k] = g[k - 1] + f[k]

LEMMA SumExists ==
    ASSUME NEW f \in [Tasks -> Nat]
    PROVE  \E g : g = [n \in 0 .. MaxTasks |-> IF n = 0 THEN 0 ELSE g[n - 1] + f[n]]
<1> DEFINE Bad == {n \in 0 .. MaxTasks : ~ \E g \in [0 .. n -> Nat] : Sums(f, g, n)}
<1>1. MaxTasks \in Nat /\ Tasks = 1 .. MaxTasks
  BY SchedAssumption DEF Tasks
<1>2. Bad = {}
  <2> SUFFICES ASSUME Bad # {} PROVE FALSE
    OBVIOUS
  <2>1. PICK m \in Bad : \A k \in Bad : m <= k
    <3>1. Bad \in SUBSET Nat
      BY <1>1
    <3> HIDE DEF Bad
    <3> QED BY <3>1, LeastNat
  <2>2. m \in 0 .. MaxTasks /\ m \in Nat
    BY <1>1
  <2>3. CASE m = 0
    <3> DEFINE g == [k \in 0 .. 0 |-> 0]
    <3>1. g \in [0 .. 0 -> Nat] /\ g[0] = 0
      OBVIOUS
    <3>2. Sums(f, g, 0)
      BY <3>1 DEF Sums
    <3> QED BY <2>1, <2>3, <3>1, <3>2
  <2>4. CASE m > 0
    <3>1. m - 1 \in 0 .. MaxTasks /\ m - 1 \notin Bad /\ m \in Tasks
      <4>1. Bad \in SUBSET (0 .. MaxTasks)
        OBVIOUS
      <4> HIDE DEF Bad
      <4> QED BY <2>1, <2>4, <4>1, BeforeLeast
    <3>2. PICK g \in [0 .. m - 1 -> Nat] : Sums(f, g, m - 1)
      BY <3>1
    <3> DEFINE h == [k \in 0 .. m |-> IF k = m THEN g[m - 1] + f[m] ELSE g[k]]
    <3>3. g[m - 1] + f[m] \in Nat
      BY <2>2, <2>4, <3>1, <3>2
    <3>4. h \in [0 .. m -> Nat]
      BY <2>2, <3>2, <3>3
    <3>5. h[0] = 0
      BY <2>2, <2>4, <3>2 DEF Sums
    <3>6. ASSUME NEW k \in 1 .. m PROVE h[k] = h[k - 1] + f[k]
      <4>1. CASE k = m
        BY <2>2, <2>4, <4>1
      <4>2. CASE k # m
        BY <2>2, <2>4, <3>2, <4>2 DEF Sums
      <4> QED BY <4>1, <4>2
    <3> HIDE DEF h
    <3>7. Sums(f, h, m)
      BY <3>5, <3>6 DEF Sums
    <3> QED BY <2>1, <3>4, <3>7
  <2> QED BY <2>2, <2>3, <2>4
<1>3. MaxTasks \in 0 .. MaxTasks
  BY <1>1
<1>4. PICK g \in [0 .. MaxTasks -> Nat] : Sums(f, g, MaxTasks)
  BY <1>2, <1>3
<1>5. \A n \in 0 .. MaxTasks : g[n] = IF n = 0 THEN 0 ELSE g[n - 1] + f[n]
  BY <1>1, <1>4 DEF Sums
<1>6. g = [n \in 0 .. MaxTasks |-> IF n = 0 THEN 0 ELSE g[n - 1] + f[n]]
  BY <1>4, <1>5
<1> QED BY <1>6

\* Total is the last of its partial sums.
LEMMA TotalIs ==
    ASSUME NEW f \in [Tasks -> Nat]
    PROVE  \E g : /\ g[0] = 0
                  /\ \A n \in Tasks : g[n] = g[n - 1] + f[n]
                  /\ Total(f) = g[MaxTasks]
<1> DEFINE Eq(g) == g = [n \in 0 .. MaxTasks |-> IF n = 0 THEN 0 ELSE g[n - 1] + f[n]]
           sum == CHOOSE g : Eq(g)
<1>1. Total(f) = sum[MaxTasks]
  BY DEF Total
<1>2. Eq(sum)
  BY SumExists
<1> HIDE DEF sum
<1>3. \A n \in 0 .. MaxTasks : sum[n] = IF n = 0 THEN 0 ELSE sum[n - 1] + f[n]
  BY <1>2
<1>4. sum[0] = 0 /\ \A n \in Tasks : sum[n] = sum[n - 1] + f[n]
  BY <1>3, SchedAssumption DEF Tasks
<1> QED BY <1>1, <1>4

\* One task takes one token more: the partial sums agree below its index and differ
\* by one from there on.
LEMMA TotalGrows ==
    ASSUME NEW f \in [Tasks -> Nat], NEW i \in Tasks, NEW e, e = [f EXCEPT ![i] = f[i] + 1]
    PROVE  Total(f) \in Nat /\ Total(e) = Total(f) + 1
<1>1. MaxTasks \in Nat /\ Tasks = 1 .. MaxTasks /\ i \in Nat
  BY SchedAssumption DEF Tasks
<1>2. /\ e \in [Tasks -> Nat]
      /\ \A n \in Tasks : f[n] \in Nat /\ e[n] = IF n = i THEN f[n] + 1 ELSE f[n]
  OBVIOUS
<1>3. PICK g : /\ g[0] = 0 /\ \A n \in Tasks : g[n] = g[n - 1] + f[n]
               /\ Total(f) = g[MaxTasks]
  BY TotalIs
<1>4. PICK h : /\ h[0] = 0 /\ \A n \in Tasks : h[n] = h[n - 1] + e[n]
               /\ Total(e) = h[MaxTasks]
  BY <1>2, TotalIs
<1> DEFINE Good(n) == g[n] \in Nat /\ h[n] = IF n < i THEN g[n] ELSE g[n] + 1
           Bad == {n \in 0 .. MaxTasks : ~Good(n)}
<1>5. Bad = {}
  <2> SUFFICES ASSUME Bad # {} PROVE FALSE
    OBVIOUS
  <2>1. PICK m \in Bad : \A k \in Bad : m <= k
    <3>1. Bad \in SUBSET Nat
      BY <1>1
    <3> HIDE DEF Bad
    <3> QED BY <3>1, LeastNat
  <2>2. m \in 0 .. MaxTasks /\ m \in Nat /\ ~Good(m)
    BY <1>1
  <2>3. CASE m = 0
    BY <1>1, <1>3, <1>4, <2>2, <2>3
  <2>4. CASE m > 0
    <3>1. m - 1 \in 0 .. MaxTasks /\ m - 1 \notin Bad /\ m \in Tasks
      <4>1. Bad \in SUBSET (0 .. MaxTasks)
        OBVIOUS
      <4> HIDE DEF Bad
      <4> QED BY <2>1, <2>4, <4>1, BeforeLeast
    <3>2. g[m - 1] \in Nat /\ h[m - 1] = IF m - 1 < i THEN g[m - 1] ELSE g[m - 1] + 1
      BY <3>1
    <3>3. /\ g[m] = g[m - 1] + f[m] /\ h[m] = h[m - 1] + e[m]
          /\ f[m] \in Nat /\ e[m] = IF m = i THEN f[m] + 1 ELSE f[m]
      BY <1>2, <1>3, <1>4, <3>1
    <3> HIDE DEF Bad
    <3>4. g[m] \in Nat
      BY <3>2, <3>3
    <3>5. CASE m < i
      BY <1>1, <2>2, <3>2, <3>3, <3>4, <3>5
    <3>6. CASE m = i
      BY <1>1, <2>2, <3>2, <3>3, <3>4, <3>6
    <3>7. CASE m > i
      BY <1>1, <2>2, <3>2, <3>3, <3>4, <3>7
    <3> QED BY <1>1, <2>2, <3>5, <3>6, <3>7
  <2> QED BY <2>2, <2>3, <2>4
<1>6. MaxTasks \in 0 .. MaxTasks /\ ~(MaxTasks < i)
  BY <1>1
<1>7. Good(MaxTasks)
  BY <1>5, <1>6
<1> QED BY <1>3, <1>4, <1>6, <1>7

\* The total is a number of tokens.
LEMMA TotalNat ==
    ASSUME NEW f \in [Tasks -> Nat]
    PROVE  Total(f) \in Nat
<1>1. 1 \in Tasks
  BY SchedAssumption DEF Tasks
<1> QED BY <1>1, TotalGrows

\* Nobody has taken anything.
LEMMA TotalNone == Total([i \in Tasks |-> 0]) = 0
<1> DEFINE f == [i \in Tasks |-> 0]
<1>1. f \in [Tasks -> Nat] /\ \A n \in Tasks : f[n] = 0
  OBVIOUS
<1>2. MaxTasks \in Nat /\ Tasks = 1 .. MaxTasks
  BY SchedAssumption DEF Tasks
<1>3. PICK g : /\ g[0] = 0 /\ \A n \in Tasks : g[n] = g[n - 1] + f[n]
               /\ Total(f) = g[MaxTasks]
  BY <1>1, TotalIs
<1> HIDE DEF f
<1> DEFINE Bad == {n \in 0 .. MaxTasks : g[n] # 0}
<1>4. Bad = {}
  <2> SUFFICES ASSUME Bad # {} PROVE FALSE
    OBVIOUS
  <2>1. PICK m \in Bad : \A k \in Bad : m <= k
    <3>1. Bad \in SUBSET Nat
      BY <1>2
    <3> HIDE DEF Bad
    <3> QED BY <3>1, LeastNat
  <2>2. m \in Tasks /\ m - 1 \in 0 .. MaxTasks /\ m - 1 \notin Bad
    BY <1>2, <1>3, <2>1
  <2>3. g[m - 1] = 0 /\ g[m] = g[m - 1] + f[m] /\ f[m] = 0
    BY <1>1, <1>3, <2>2
  <2> QED BY <2>1, <2>3
<1>5. g[MaxTasks] = 0
  BY <1>2, <1>4
<1> QED BY <1>3, <1>5 DEF f

\* At the start all tokens are free.
LEMMA TokensStart == ASSUME Init PROVE TokensConserved
<1> SUFFICES ASSUME use = "counting" PROVE Initial + given = count + Total(held)
  BY DEF TokensConserved
<1>1. given = 0 /\ count = Initial /\ Total(held) = 0
  BY TotalNone DEF Init, IsMutex
<1> QED BY <1>1, SemaphoreAssumption

\* A step of a counting semaphore whose takes wait for the token keeps the balance.
LEMMA TokensKeptStep ==
    ASSUME SInv, "generic_receive" \notin Guest, TokensConserved, [Next]_vars
    PROVE  TokensConserved'
<1>1. /\ TypeOK /\ SchedInv /\ Served /\ held \in [Tasks -> Nat]
      /\ count \in Nat /\ given \in Nat /\ Initial \in Nat
  BY SemaphoreAssumption DEF SInv, TypeOK, Capacity
<1>2. ASSUME use' = use, UNCHANGED <<count, given, held>>
      PROVE  TokensConserved'
  BY <1>2 DEF TokensConserved
<1>3. ASSUME UNCHANGED semVars
      PROVE  TokensConserved'
  BY <1>2, <1>3 DEF semVars
<1>4. ASSUME use' = use, use # "counting"
      PROVE  TokensConserved'
  BY <1>4 DEF TokensConserved
<1>5. ASSUME use' = use, NEW i \in Tasks, held' = [held EXCEPT ![i] = held[i] + 1],
             \/ given' = given + 1 /\ count' = count
             \/ given' = given /\ count' = count - 1
      PROVE  TokensConserved'
  <2>1. Total(held) \in Nat /\ Total(held') = Total(held) + 1
    BY <1>1, <1>5, TotalGrows
  <2> QED BY <1>1, <1>5, <2>1 DEF TokensConserved
<1>6. ASSUME NEW c \in Cores, XSemaphoreGive(c)
      PROVE  TokensConserved'
  <2>1. use' = use /\ given' = given + 1 /\ Give
    BY <1>6 DEF XSemaphoreGive
  <2>2. CASE GiveToWaiter
    <3> DEFINE i == First(Servable)
    <3>1. /\ i \in Tasks /\ "q" \in waits[i] /\ Serve(i)
          /\ held' = [held EXCEPT ![i] = held[i] + 1]
      BY <1>1, <2>2, FirstServable DEF GiveToWaiter
    <3> HIDE DEF i
    <3>2. count' = count
      BY <1>1, <3>1 DEF Served, Serve
    <3> QED BY <1>5, <2>1, <3>1, <3>2
  <2>3. CASE GiveToCount
    <3>1. Total(held) \in Nat
      BY <1>1, TotalNat
    <3>2. count' = count + 1 /\ UNCHANGED held
      BY <2>3 DEF GiveToCount
    <3> QED BY <1>1, <2>1, <3>1, <3>2 DEF TokensConserved
  <2> QED BY <2>1, <2>2, <2>3 DEF Give
<1>7. ASSUME NEW c \in Cores, MutexGive(c) \/ TakeRecursive(c) \/ GiveRecursive(c)
      PROVE  TokensConserved'
  <2>1. use' = use /\ use # "counting"
    BY <1>7 DEF MutexGive, TakeRecursive, GiveRecursive, IsMutex, RecursiveCalls
  <2> QED BY <1>4, <2>1
<1>8. ASSUME NEW c \in Cores, NEW kind \in {"take", "receive"}, XSemaphoreTake(c, kind)
      PROVE  TokensConserved'
  <2>1. current[c] \in Tasks /\ use' = use /\ given' = given
    BY <1>8, AppIsTask DEF XSemaphoreTake, AppCall
  <2>2. CASE TakeToken(current[c])
    BY <1>5, <2>1, <2>2 DEF TakeToken
  <2>3. CASE WaitForToken(c, kind)
    BY <1>2, <2>1, <2>3 DEF WaitForToken
  <2> QED BY <1>8, <2>2, <2>3 DEF XSemaphoreTake
<1>9. ASSUME NEW c \in Cores, NEW j \in AppTasks,
             VTaskSuspend(c, j) \/ VTaskResume(c, j) \/ VTaskDelete(c, j)
      PROVE  UNCHANGED semVars
  BY <1>9 DEF VTaskSuspend, VTaskResume, VTaskDelete
<1>10. CASE (\E c \in Cores : CheckPreempt(c)) \/ Tick \/ UNCHANGED vars
  BY <1>3, <1>10 DEF CheckPreempt, Tick, vars
<1> QED BY <1>3, <1>6, <1>7, <1>8, <1>9, <1>10 DEF Next

-----------------------------------------------------------------------------
\* For any number of tasks, tokens and time-outs, whatever the object is created as
\* and whatever the firmware does, the invariant holds.
THEOREM SemaphoreInvariant == Spec => []SInv
<1>1. Init => SInv
  BY SInit
<1>2. SInv /\ [Next]_vars => SInv'
  BY SNext
<1> QED BY <1>1, <1>2, PTL DEF Spec

\* A mutex that is used through one kind of calls has at most one holder, is free
\* exactly when it has none, and mutex_owner and mutex_depth are the true ones
\* (wake_queue_waiter_locked, stub_xQueueTakeMutexRecursive and
\* stub_xQueueGiveMutexRecursive), whichever tasks time out or are suspended,
\* resumed or deleted meanwhile.  A plain give of a mutex that was taken by a
\* recursive call leaves mutex_owner behind.
THEOREM MutexesExclude == "mixed" \notin Guest => (Spec => []MutualExclusion)
<1> SUFFICES ASSUME "mixed" \notin Guest PROVE Spec => []MutualExclusion
  OBVIOUS
<1>1. SInv => MutualExclusion
  <2>1. SInv => use \in {"counting", "mutex", "recursive"}
    BY DEF SInv, TypeOK, Uses
  <2>2. use = "counting" => MutualExclusion
    BY DEF MutualExclusion, IsMutex
  <2> QED BY <2>1, <2>2 DEF SInv, Excluded, Disciplined
<1> QED BY <1>1, SemaphoreInvariant, PTL

\* Nobody waits beside a free token, as long as every take is an xSemaphoreTake: a
\* take through xQueueGenericReceive is not served by a give (q_is_semaphore).
THEOREM TokensReachWaiters == "generic_receive" \notin Guest => (Spec => []NoTokenWaits)
<1> SUFFICES ASSUME "generic_receive" \notin Guest PROVE Spec => []NoTokenWaits
  OBVIOUS
<1>1. SInv => NoTokenWaits
  BY AppIsTask DEF SInv, Served, NoTokenWaits
<1> QED BY <1>1, SemaphoreInvariant, PTL

\* A take that waits has not been told that it succeeded, so one that times out
\* reports pdFALSE (the preset return register of stub_xSemaphoreTake).
THEOREM TimeoutsTold == Spec => []WaitersNotTold
<1>1. SInv => WaitersNotTold
  BY AppIsTask DEF SInv, Pending, WaitersNotTold
<1> QED BY <1>1, SemaphoreInvariant, PTL

\* No give and no take is lost or counted twice: the tokens a counting semaphore
\* started with and was given are those that are free and those that were taken,
\* through hand-overs, time-outs, suspensions and deletions (stub_queue_send,
\* stub_xSemaphoreTake, wake_queue_waiter_locked).  A take through
\* xQueueGenericReceive is served from the count, and the give that serves it is not
\* counted.
THEOREM TokensKept == "generic_receive" \notin Guest => (Spec => []TokensConserved)
<1> SUFFICES ASSUME "generic_receive" \notin Guest PROVE Spec => []TokensConserved
  OBVIOUS
<1>1. Init => TokensConserved
  BY TokensStart
<1>2. SInv /\ TokensConserved /\ [Next]_vars => TokensConserved'
  BY TokensKeptStep
<1> QED BY <1>1, <1>2, SemaphoreInvariant, PTL DEF Spec

-----------------------------------------------------------------------------
(* The objects together (MCFrtObjects).                                    *)

\* What the proofs of the instances rest on.
LEMMA InstanceAssumptions ==
    /\ Notify!SchedAssumption /\ Notify!NotifyAssumption
    /\ Items!SchedAssumption /\ Items!RingAssumption
    /\ Bytes!SchedAssumption /\ Bytes!RingAssumption
    /\ Mailbox!SchedAssumption /\ Mailbox!QueueAssumption
    /\ Peeked!SchedAssumption /\ Peeked!QueueAssumption
BY SchedAssumption, ObjectsAssumption, SemaphoreAssumption
   DEF Notify!SchedAssumption, Items!SchedAssumption, Bytes!SchedAssumption,
       Mailbox!SchedAssumption, Peeked!SchedAssumption, Mailbox!QueueAssumption,
       Peeked!QueueAssumption, Notify!NotifyAssumption, Mailbox!Usages, Peeked!Usages

ObjectsInv ==
    /\ object = "semaphore" => SInv
    /\ object = "notify" => Notify!NInv
    /\ object = "items" => Items!RInv
    /\ object = "bytes" => Bytes!RInv
    /\ object = "mailbox" => Mailbox!QInv
    /\ object = "peeked" => Peeked!QInv

LEMMA ObjectsStart == ASSUME ObjectsInit PROVE ObjectsInv
<1> USE InstanceAssumptions
<1>1. CASE object = "semaphore" /\ Init
  BY <1>1, SInit DEF ObjectsInv
<1>2. CASE object = "notify" /\ Notify!Init
  BY <1>2, Notify!NInit DEF ObjectsInv
<1>3. CASE object = "items" /\ Items!Init
  BY <1>3, Items!RInit DEF ObjectsInv
<1>4. CASE object = "bytes" /\ Bytes!Init
  BY <1>4, Bytes!RInit DEF ObjectsInv
<1>5. CASE object = "mailbox" /\ Mailbox!Init
  BY <1>5, Mailbox!QInit DEF ObjectsInv
<1>6. CASE object = "peeked" /\ Peeked!Init
  BY <1>6, Peeked!QInit DEF ObjectsInv
<1> QED BY <1>1, <1>2, <1>3, <1>4, <1>5, <1>6 DEF ObjectsInit

\* Which object is explored does not change, and a step is one of that object.
LEMMA OneObject ==
    ASSUME [ObjectsNext]_objectVars
    PROVE  /\ object' = object
           /\ object = "semaphore" => [Next]_vars
           /\ object = "notify" => [Notify!Next]_(Notify!vars)
           /\ object = "items" => [Items!Next]_(Items!vars)
           /\ object = "bytes" => [Bytes!Next]_(Bytes!vars)
           /\ object = "mailbox" => [Mailbox!Next]_(Mailbox!vars)
           /\ object = "peeked" => [Peeked!Next]_(Peeked!vars)
<1>1. CASE UNCHANGED objectVars
  <2>1. /\ UNCHANGED <<object, vars, Notify!vars, Items!vars, Mailbox!vars>>
    BY <1>1 DEF objectVars
  <2>2. UNCHANGED Bytes!vars
    BY <2>1 DEF Items!vars, Bytes!vars, Items!schedVars, Bytes!schedVars,
                Items!ringVars, Bytes!ringVars
  <2>3. UNCHANGED Peeked!vars
    BY <2>1 DEF Mailbox!vars, Peeked!vars, Mailbox!schedVars, Peeked!schedVars,
                Mailbox!queueVars, Peeked!queueVars
  <2> QED BY <2>1, <2>2, <2>3
<1>2. CASE ObjectsNext
  BY <1>2 DEF ObjectsNext
<1> QED BY <1>1, <1>2

\* Every step keeps the invariant of its object, and does what the action properties
\* of notifications and of mailboxes say.
LEMMA ObjectsKeep ==
    ASSUME ObjectsInv, [ObjectsNext]_objectVars
    PROVE  /\ ObjectsInv'
           /\ object = "notify" =>
                 [Notify!AnswerStep]_(Notify!vars) /\ [Notify!DeletedStep]_(Notify!vars)
           /\ object = "mailbox" => Mailbox!FifoStep
           /\ object = "peeked" => Peeked!FifoStep
<1> USE InstanceAssumptions
<1>1. CASE object = "semaphore"
  BY <1>1, OneObject, SNext DEF ObjectsInv
<1>2. CASE object = "notify"
  BY <1>2, OneObject, Notify!NNext DEF ObjectsInv
<1>3. CASE object = "items"
  BY <1>3, OneObject, Items!RNext DEF ObjectsInv
<1>4. CASE object = "bytes"
  BY <1>4, OneObject, Bytes!RNext DEF ObjectsInv
<1>5. CASE object = "mailbox"
  BY <1>5, OneObject, Mailbox!QNext, Mailbox!FifoMoves DEF ObjectsInv, Mailbox!Good
<1>6. CASE object = "peeked"
  BY <1>6, OneObject, Peeked!QNext, Peeked!FifoMoves DEF ObjectsInv, Peeked!Good
<1>7. CASE object \notin {"semaphore", "notify", "items", "bytes", "mailbox", "peeked"}
  BY <1>7, OneObject DEF ObjectsInv
<1> QED BY <1>1, <1>2, <1>3, <1>4, <1>5, <1>6, <1>7

\* The invariants of all the objects hold, for every number of tasks, tokens, slots,
\* bytes and items.
THEOREM ObjectsInvariant == ObjectsSpec => []ObjectsInv
<1>1. ObjectsInit => ObjectsInv
  BY ObjectsStart
<1>2. ObjectsInv /\ [ObjectsNext]_objectVars => ObjectsInv'
  BY ObjectsKeep
<1> QED BY <1>1, <1>2, PTL DEF ObjectsSpec

\* No token, notification or item of a mailbox is lost, doubled or counted past its
\* maximum, in a race of gives, takes, time-outs and suspensions, unless a take
\* through xQueueGenericReceive is served from the count (stub_queue_send,
\* stub_xSemaphoreTake, vTaskNotifyGiveFromISR, queue_enqueue_locked).
THEOREM ObjectsAccounted ==
    "generic_receive" \notin Guest => (ObjectsSpec => []Accounted)
<1> SUFFICES ASSUME "generic_receive" \notin Guest PROVE ObjectsSpec => []Accounted
  OBVIOUS
<1> DEFINE Tokens == object = "semaphore" => TokensConserved
<1>1. ObjectsInit => Tokens
  <2> SUFFICES ASSUME object = "semaphore", Init PROVE TokensConserved
    BY DEF ObjectsInit
  <2> QED BY TokensStart
<1>2. ObjectsInv /\ Tokens /\ [ObjectsNext]_objectVars => Tokens'
  BY OneObject, TokensKeptStep DEF ObjectsInv
<1>3. ObjectsInv => ObjectsTyped
  BY DEF ObjectsInv, ObjectsTyped, SInv, Notify!NInv, Items!RInv, Bytes!RInv,
         Mailbox!QInv, Peeked!QInv
<1>4. ObjectsInv /\ object = "notify" => Notify!GivesAccounted
  BY InstanceAssumptions, Notify!AppIsTask
     DEF ObjectsInv, Notify!NInv, Notify!Balanced, Notify!GivesAccounted
<1>5. ObjectsInv /\ object = "mailbox" => Mailbox!ExactlyOnce
  BY DEF ObjectsInv, Mailbox!QInv, Mailbox!Account, Mailbox!Once, Mailbox!ExactlyOnce
<1>6. ObjectsInv /\ object = "peeked" => Peeked!ExactlyOnce
  BY DEF ObjectsInv, Peeked!QInv, Peeked!Account, Peeked!Once, Peeked!ExactlyOnce
<1>7. ObjectsInv /\ Tokens => Accounted
  BY <1>3, <1>4, <1>5, <1>6 DEF Accounted
<1> HIDE DEF Tokens
<1> QED BY <1>1, <1>2, <1>7, ObjectsInvariant, PTL DEF ObjectsSpec

\* One task receives from a ring buffer.
SingleReceiver == \A i, j \in RingReceivers : i = j

\* Nobody sleeps beside what it waits for, be it a token, a count, an item, room or
\* data, as long as takes are plain and a ring buffer has one receiver
\* (wake_queue_waiter_locked, ulTaskNotifyTake, wake_ringbuffer_waiter_locked).
THEOREM ObjectsWake ==
    "generic_receive" \notin Guest /\ SingleReceiver => (ObjectsSpec => []WakeupsArrive)
<1> SUFFICES ASSUME "generic_receive" \notin Guest, SingleReceiver
             PROVE  ObjectsSpec => []WakeupsArrive
  OBVIOUS
<1>1. SInv => NoTokenWaits /\ WaitersNotTold
  BY AppIsTask DEF SInv, Served, Pending, NoTokenWaits, WaitersNotTold
<1>2. Notify!NInv => Notify!NoNotifyMissed
  BY InstanceAssumptions, Notify!AppIsTask
     DEF Notify!NInv, Notify!Unanswered, Notify!NoNotifyMissed
<1>3. Items!RInv => Items!NoLostWakeup
  BY InstanceAssumptions, Items!AppIsTask
     DEF Items!RInv, Items!Prompt, Items!NoLostWakeup, Items!OneReceiver,
         Items!Unusual, SingleReceiver
<1>4. Bytes!RInv => Bytes!NoLostWakeup
  BY InstanceAssumptions, Bytes!AppIsTask
     DEF Bytes!RInv, Bytes!Prompt, Bytes!NoLostWakeup, Bytes!OneReceiver,
         Bytes!Unusual, SingleReceiver
<1>5. Mailbox!QInv => Mailbox!NoLostWakeup /\ Mailbox!CallsTellTruth
  BY InstanceAssumptions, Mailbox!AppIsTask, Mailbox!QPrompt
     DEF Mailbox!QInv, Mailbox!Truthful, Mailbox!CallsTellTruth, Mailbox!Careful
<1>6. Peeked!QInv => Peeked!CallsTellTruth
  BY InstanceAssumptions, Peeked!AppIsTask
     DEF Peeked!QInv, Peeked!Truthful, Peeked!CallsTellTruth
<1>7. ObjectsInv => WakeupsArrive
  BY <1>1, <1>2, <1>3, <1>4, <1>5, <1>6 DEF ObjectsInv, WakeupsArrive
<1> QED BY <1>7, ObjectsInvariant, PTL

\* Bytes arrive once and in order from ring buffers of both kinds, what is lent stays
\* in place until it is returned, and from an item buffer it is one whole item.
THEOREM ObjectsStream == ObjectsSpec => []StreamPreserved
<1>1. Items!RInv => Items!StreamPreserved /\ Items!LoanStable /\ Items!ItemsWhole
  BY InstanceAssumptions, Items!RPromises
<1>2. Bytes!RInv => Bytes!StreamPreserved /\ Bytes!LoanStable
  BY InstanceAssumptions, Bytes!RPromises
<1>3. ObjectsInv => StreamPreserved
  BY <1>1, <1>2 DEF ObjectsInv, StreamPreserved
<1> QED BY <1>3, ObjectsInvariant, PTL

\* A take is told 0 exactly when it timed out, a notification revives no deleted task,
\* and a mailbox stays a queue of one, overwritten or peeked at.
THEOREM ObjectsTruthful == ObjectsSpec => AnswerTellsOutcome
<1>1. ObjectsInv /\ [ObjectsNext]_objectVars =>
        [/\ object = "notify" => Notify!AnswerStep /\ Notify!DeletedStep
         /\ object = "mailbox" => Mailbox!FifoStep
         /\ object = "peeked" => Peeked!FifoStep]_objectVars
  <2> SUFFICES ASSUME ObjectsInv, [ObjectsNext]_objectVars, ~UNCHANGED objectVars
               PROVE  /\ object = "notify" => Notify!AnswerStep /\ Notify!DeletedStep
                      /\ object = "mailbox" => Mailbox!FifoStep
                      /\ object = "peeked" => Peeked!FifoStep
    OBVIOUS
  <2>1. ASSUME object = "notify" PROVE Notify!AnswerStep /\ Notify!DeletedStep
    <3>1. CASE UNCHANGED Notify!vars
      BY <3>1 DEF Notify!vars, Notify!schedVars, Notify!AnswerStep, Notify!DeletedStep,
                  Notify!Waiting
    <3> QED BY <2>1, <3>1, ObjectsKeep
  <2> QED BY <2>1, ObjectsKeep
<1> QED BY <1>1, ObjectsInvariant, PTL DEF ObjectsSpec, AnswerTellsOutcome
=============================================================================
