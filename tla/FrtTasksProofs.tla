--------------------------- MODULE FrtTasksProofs ---------------------------
(***************************************************************************)
(* Proofs about FrtTasks: for any number of TCB slots, any priorities and  *)
(* any delays, a firmware that does none of the unusual things of Usages   *)
(* keeps the scheduler's view exact.                                       *)
(***************************************************************************)
EXTENDS FrtTasks, TLAPS

TcbSet == [state : [Tasks -> States], waits : [Tasks -> SUBSET WaitKinds],
           wake : [Tasks -> 0 .. MaxDelay], saved : [Tasks -> {Boot} \cup Tasks]]

\* Slots beyond task_count are blank.
SlotsBlank == \A i \in Tasks : i > task_count => state[i] = "unused"

\* What is known of a core that has a current task.
CurrentOK ==
    \A c \in Cores : current[c] # None =>
        /\ scheduler_started
        /\ current[c] <= task_count
        /\ state[current[c]] = "running"
        /\ attr[current[c]].affinity \in {NoAffinity, c}
        /\ exec[c] = current[c]

\* A task marked running is current somewhere.
RunningHasCore ==
    \A i \in Tasks : state[i] = "running" => \E c \in Cores : current[c] = i

\* The two cores never share a current task.
Apart == current[0] # None => current[0] # current[1]

\* The context in a TCB belongs to the task of that TCB.
SavedIsOwn == \A i \in 1 .. task_count : saved[i] = i

\* Once installed, each core's idle task is pinned to that core.
IdleOK ==
    idle_ready => \A c \in Cores : /\ idle_task[c] \in 1 .. task_count
                                   /\ attr[idle_task[c]].affinity = c

\* Before the scheduler runs there is at most one task, and core 0 executes
\* boot code or that task.
LegacyOK ==
    ~scheduler_started =>
        /\ task_count <= 1
        /\ ~idle_ready
        /\ exec[1] = Boot
        /\ exec[0] # Boot => /\ exec[0] = 1
                             /\ task_count = 1
                             /\ attr[1].affinity # 1
        /\ deferred \in Tasks => deferred = 1 /\ task_count = 1

\* The scheduler's part of the invariant.
SchedInv ==
    SlotsBlank /\ CurrentOK /\ RunningHasCore /\ Apart /\ SavedIsOwn /\ IdleOK

\* The inductive invariant.
IndInv == TypeOK /\ SchedInv /\ LegacyOK

\* The TCBs T and current tasks cur that a stub may hand to the dispatcher of
\* core c: nothing runs but the current task of the other core.
Prepared(c, cur, T) ==
    /\ cur \in [Cores -> {None} \cup Tasks]
    /\ T \in TcbSet
    /\ \A i \in Tasks : i > task_count => T.state[i] = "unused"
    /\ \A i \in 1 .. task_count : T.saved[i] = i
    /\ \A i \in Tasks : T.state[i] = "running" => cur[1 - c] = i
    /\ cur[1 - c] # None =>
          /\ cur[1 - c] <= task_count
          /\ T.state[cur[1 - c]] = "running"
          /\ attr[cur[1 - c]].affinity \in {NoAffinity, 1 - c}
          /\ exec[1 - c] = cur[1 - c]

-----------------------------------------------------------------------------
\* Waking the sleepers of a prepared table leaves it prepared
\* (sched_wake_sleepers touches no running task and no context).
LEMMA WakePrepared ==
    ASSUME NEW c \in Cores, NEW cur, NEW T, TypeOK, Prepared(c, cur, T)
    PROVE  Prepared(c, cur, WakeSleepers(T))
<1>1. WakeSleepers(T) \in TcbSet
  BY DEF Prepared, WakeSleepers, TcbSet, States, Expired
<1>2. \A i \in Tasks : /\ WakeSleepers(T).state[i] =
                             IF Expired(T, i) THEN "ready" ELSE T.state[i]
                       /\ WakeSleepers(T).saved[i] = T.saved[i]
  BY DEF Prepared, WakeSleepers, TcbSet
<1>3. \A i \in Tasks : Expired(T, i) => i <= task_count /\ T.state[i] = "sleeping"
  BY DEF Expired
<1>4. 1 .. task_count \subseteq Tasks
  BY SchedAssumption DEF TypeOK, SchedTypeOK, Tasks
<1>5. 1 - c \in Cores
  BY DEF Cores
<1>6. cur[1 - c] # None => cur[1 - c] \in Tasks
  BY <1>5 DEF Prepared
<1>7. \A i \in 1 .. task_count : WakeSleepers(T).saved[i] = i
  BY <1>2, <1>4 DEF Prepared
<1>8. \A i \in Tasks : i > task_count => WakeSleepers(T).state[i] = "unused"
  BY <1>2, <1>3 DEF Prepared
<1>9. \A i \in Tasks : WakeSleepers(T).state[i] = "running" => T.state[i] = "running"
  BY <1>2
<1>10. cur[1 - c] # None => WakeSleepers(T).state[cur[1 - c]] = "running"
  BY <1>2, <1>3, <1>6 DEF Prepared
<1> QED
  BY <1>1, <1>7, <1>8, <1>9, <1>10 DEF Prepared

\* Registering task n keeps a table prepared for the larger count.
LEMMA FreshTcbs ==
    ASSUME NEW T \in TcbSet, NEW n \in Tasks
    PROVE  /\ Fresh(n, T) \in TcbSet
           /\ \A i \in Tasks : /\ Fresh(n, T).state[i] =
                                    IF i = n THEN "ready" ELSE T.state[i]
                               /\ Fresh(n, T).saved[i] =
                                    IF i = n THEN n ELSE T.saved[i]
  BY DEF Fresh, TcbSet, States, Tasks, WaitKinds

\* Adopting a task n that the other core is not running.
LEMMA AdoptInv ==
    ASSUME NEW c \in Cores, NEW cur, NEW T \in TcbSet, NEW n \in Tasks,
           cur \in [Cores -> {None} \cup Tasks],
           exec \in [Cores -> {Boot} \cup Tasks],
           slice \in [Cores -> BOOLEAN],
           task_count' \in 0 .. MaxTasks,
           n <= task_count', cur[1 - c] # n,
           attr'[n].affinity \in {NoAffinity, c},
           \A i \in Tasks : i > task_count' => T.state[i] = "unused",
           \A i \in 1 .. task_count' : T.saved[i] = i,
           \A i \in Tasks : T.state[i] = "running" => cur[1 - c] = i,
           cur[1 - c] # None =>
              /\ cur[1 - c] <= task_count'
              /\ T.state[cur[1 - c]] = "running"
              /\ attr'[cur[1 - c]].affinity \in {NoAffinity, 1 - c}
              /\ exec[1 - c] = cur[1 - c],
           scheduler_started',
           Adopt(c, n, cur, T)
    PROVE  /\ SlotsBlank' /\ CurrentOK' /\ RunningHasCore' /\ Apart'
           /\ SavedIsOwn'
           /\ state' \in [Tasks -> States]
           /\ waits' \in [Tasks -> SUBSET WaitKinds]
           /\ wake' \in [Tasks -> 0 .. MaxDelay]
           /\ saved' \in [Tasks -> {Boot} \cup Tasks]
           /\ current' \in [Cores -> {None} \cup Tasks]
           /\ exec' \in [Cores -> {Boot} \cup Tasks]
           /\ slice' \in [Cores -> BOOLEAN]
<1>1. /\ state' = [T.state EXCEPT ![n] = "running"]
      /\ waits' = T.waits /\ wake' = T.wake /\ saved' = T.saved
      /\ current' = [cur EXCEPT ![c] = n]
      /\ exec' = [exec EXCEPT ![c] = T.saved[n]]
      /\ slice' = [slice EXCEPT ![c] = FALSE]
  BY DEF Adopt, Commit, TcbSet
<1>2. /\ T.state \in [Tasks -> States]
      /\ T.waits \in [Tasks -> SUBSET WaitKinds]
      /\ T.wake \in [Tasks -> 0 .. MaxDelay]
      /\ T.saved \in [Tasks -> {Boot} \cup Tasks]
  BY DEF TcbSet
<1>3. n \in 1 .. task_count' /\ T.saved[n] = n
  BY DEF Tasks
<1>4. /\ current'[c] = n /\ current'[1 - c] = cur[1 - c]
      /\ exec'[c] = n /\ exec'[1 - c] = exec[1 - c]
      /\ 1 - c \in Cores /\ 1 - c # c
      /\ Cores = {c, 1 - c}
  BY <1>1, <1>3 DEF Cores
<1>5. SlotsBlank'
  BY <1>1, <1>2 DEF SlotsBlank, Tasks
<1>6. CurrentOK'
  <2>1. CASE cur[1 - c] = None
    BY <1>1, <1>2, <1>4, <2>1 DEF CurrentOK, None
  <2>2. CASE cur[1 - c] # None
    BY <1>1, <1>2, <1>4, <2>2 DEF CurrentOK, None
  <2> QED BY <2>1, <2>2
<1>7. RunningHasCore'
  BY <1>1, <1>2, <1>4 DEF RunningHasCore
<1>8. Apart'
  <2>1. current'[c] # current'[1 - c]
    BY <1>4
  <2> QED BY <2>1, <1>4 DEF Apart, Cores
<1>9. SavedIsOwn'
  BY <1>1 DEF SavedIsOwn
<1>10. /\ state' \in [Tasks -> States]
       /\ waits' \in [Tasks -> SUBSET WaitKinds]
       /\ wake' \in [Tasks -> 0 .. MaxDelay]
       /\ saved' \in [Tasks -> {Boot} \cup Tasks]
       /\ current' \in [Cores -> {None} \cup Tasks]
       /\ exec' \in [Cores -> {Boot} \cup Tasks]
       /\ slice' \in [Cores -> BOOLEAN]
  BY <1>1, <1>2, <1>3 DEF States
<1> QED BY <1>5, <1>6, <1>7, <1>8, <1>9, <1>10

\* The types of everything a dispatch writes.
DispatchTyped ==
    /\ task_count \in 0 .. MaxTasks
    /\ attr \in [Tasks -> Attrs]
    /\ state \in [Tasks -> States]
    /\ waits \in [Tasks -> SUBSET WaitKinds]
    /\ wake \in [Tasks -> 0 .. MaxDelay]
    /\ saved \in [Tasks -> {Boot} \cup Tasks]
    /\ current \in [Cores -> {None} \cup Tasks]
    /\ exec \in [Cores -> {Boot} \cup Tasks]
    /\ slice \in [Cores -> BOOLEAN]
    /\ idle_task \in [Cores -> {None} \cup Tasks]
    /\ idle_ready \in BOOLEAN

\* Whatever sched_pick_next() answers, adopting it keeps the scheduler's view
\* exact: real work, the installed idle task, or a new one.
LEMMA AdoptNextInv ==
    ASSUME TypeOK, IdleOK, NEW c \in Cores, NEW cur, NEW T,
           Prepared(c, cur, T), scheduler_started',
           AdoptNext(c, cur, T)
    PROVE  SchedInv' /\ DispatchTyped'
<1> DEFINE W == WakeSleepers(T)
<1>1. Prepared(c, cur, W)
  BY WakePrepared
<1>2. /\ W \in TcbSet /\ cur \in [Cores -> {None} \cup Tasks]
      /\ exec \in [Cores -> {Boot} \cup Tasks]
      /\ slice \in [Cores -> BOOLEAN]
      /\ task_count \in 0 .. MaxTasks
      /\ attr \in [Tasks -> Attrs]
  BY <1>1 DEF Prepared, TypeOK, SchedTypeOK
<1>3. /\ \A i \in Tasks : i > task_count => W.state[i] = "unused"
      /\ \A i \in 1 .. task_count : W.saved[i] = i
      /\ \A i \in Tasks : W.state[i] = "running" => cur[1 - c] = i
      /\ cur[1 - c] # None =>
            /\ cur[1 - c] <= task_count
            /\ W.state[cur[1 - c]] = "running"
            /\ attr[cur[1 - c]].affinity \in {NoAffinity, 1 - c}
            /\ exec[1 - c] = cur[1 - c]
  BY <1>1 DEF Prepared
<1>4. MaxTasks \in Nat /\ 1 .. task_count \subseteq Tasks
  BY <1>2, SchedAssumption DEF Tasks
<1>5. ASSUME UNCHANGED tableVars, NEW n \in 1 .. task_count,
             cur[1 - c] # n, attr[n].affinity \in {NoAffinity, c},
             Adopt(c, n, cur, W)
      PROVE  SchedInv' /\ DispatchTyped'
  <2>1. /\ task_count' = task_count /\ attr' = attr
        /\ idle_task' = idle_task /\ idle_ready' = idle_ready
    BY <1>5 DEF tableVars
  <2>2. n \in Tasks
    BY <1>4
  <2>3. n <= task_count' /\ task_count' \in 0 .. MaxTasks
    BY <1>2, <2>1
  <2> HIDE DEF W
  <2>4. /\ SlotsBlank' /\ CurrentOK' /\ RunningHasCore' /\ Apart'
        /\ SavedIsOwn'
        /\ state' \in [Tasks -> States]
        /\ waits' \in [Tasks -> SUBSET WaitKinds]
        /\ wake' \in [Tasks -> 0 .. MaxDelay]
        /\ saved' \in [Tasks -> {Boot} \cup Tasks]
        /\ current' \in [Cores -> {None} \cup Tasks]
        /\ exec' \in [Cores -> {Boot} \cup Tasks]
        /\ slice' \in [Cores -> BOOLEAN]
    BY <1>2, <1>3, <1>5, <2>1, <2>2, <2>3, AdoptInv
  <2>5. IdleOK'
    BY <2>1 DEF IdleOK
  <2> QED
    BY <2>1, <2>4, <2>5 DEF SchedInv, DispatchTyped, TypeOK, SchedTypeOK
<1>6. CASE /\ \E n \in Picked(c, cur, W) : Adopt(c, n, cur, W)
           /\ UNCHANGED tableVars
  <2>1. PICK n \in Picked(c, cur, W) : Adopt(c, n, cur, W)
    BY <1>6
  <2>2. /\ n \in 1 .. task_count /\ W.state[n] = "ready"
        /\ attr[n].affinity \in {NoAffinity, c}
    BY <2>1 DEF Picked, FirstAfter, HighestPrio, Eligible
  <2>3. cur[1 - c] # n
    BY <1>3, <2>2 DEF None
  <2> QED BY <1>5, <1>6, <2>1, <2>2, <2>3
<1>7. CASE /\ idle_ready
           /\ Adopt(c, idle_task[c], cur, W)
           /\ UNCHANGED tableVars
  <2>1. idle_task[c] \in 1 .. task_count /\ attr[idle_task[c]].affinity = c
    BY <1>7 DEF IdleOK
  <2>2. cur[1 - c] # idle_task[c]
    BY <1>3, <2>1 DEF None, NoAffinity, Cores
  <2> QED BY <1>5, <1>7, <2>1, <2>2
<1>8. CASE /\ CanInstallIdle
           /\ InstallIdle
           /\ Adopt(c, task_count + 1 + c, cur,
                    Fresh(task_count + 1, Fresh(task_count + 2, W)))
  <2> DEFINE F == Fresh(task_count + 2, W)
             G == Fresh(task_count + 1, F)
  <2>1. task_count + 1 \in Tasks /\ task_count + 2 \in Tasks
    BY <1>2, <1>4, <1>8 DEF CanInstallIdle, Tasks
  <2> HIDE DEF W
  <2>2. /\ F \in TcbSet
        /\ \A i \in Tasks : /\ F.state[i] = IF i = task_count + 2 THEN "ready"
                                            ELSE W.state[i]
                            /\ F.saved[i] = IF i = task_count + 2 THEN i
                                            ELSE W.saved[i]
    BY <1>2, <2>1, FreshTcbs
  <2> HIDE DEF F
  <2>3. /\ G \in TcbSet
        /\ \A i \in Tasks : /\ G.state[i] = IF i = task_count + 1 THEN "ready"
                                            ELSE F.state[i]
                            /\ G.saved[i] = IF i = task_count + 1 THEN i
                                            ELSE F.saved[i]
    BY <2>1, <2>2, FreshTcbs
  <2>4. /\ task_count' = task_count + 2
        /\ task_count' \in 0 .. MaxTasks
        /\ attr' = [attr EXCEPT ![task_count + 1] = IdleAttr(0),
                                ![task_count + 2] = IdleAttr(1)]
        /\ idle_task' = [k \in Cores |-> task_count + 1 + k]
        /\ idle_ready' = TRUE
    BY <1>2, <1>4, <1>8 DEF InstallIdle, CanInstallIdle
  <2>5. /\ attr' \in [Tasks -> Attrs]
        /\ attr'[task_count + 1].affinity = 0
        /\ attr'[task_count + 2].affinity = 1
        /\ \A i \in 1 .. task_count : attr'[i] = attr[i]
    <3>1. \A k \in Cores : IdleAttr(k) \in Attrs /\ IdleAttr(k).affinity = k
      BY DEF IdleAttr, Attrs
    <3>2. attr' \in [Tasks -> Attrs]
      BY <1>2, <2>4, <3>1 DEF Cores
    <3>3. /\ attr'[task_count + 1] = IdleAttr(0)
          /\ attr'[task_count + 2] = IdleAttr(1)
      BY <1>2, <2>1, <2>4
    <3>4. \A i \in 1 .. task_count : attr'[i] = attr[i]
      BY <1>2, <1>4, <2>4
    <3> QED BY <3>1, <3>2, <3>3, <3>4 DEF Cores
  <2>6. /\ task_count + 1 + c \in Tasks
        /\ task_count + 1 + c <= task_count'
        /\ attr'[task_count + 1 + c].affinity \in {NoAffinity, c}
    BY <1>2, <2>1, <2>4, <2>5 DEF Cores
  <2>7. cur[1 - c] # None => cur[1 - c] \in 1 .. task_count
    BY <1>2, <1>3 DEF Cores, Tasks, None
  <2>8. cur[1 - c] # task_count + 1 + c
    BY <1>2, <2>7 DEF Cores, None
  <2>9. /\ \A i \in Tasks : i > task_count' => G.state[i] = "unused"
        /\ \A i \in 1 .. task_count' : G.saved[i] = i
        /\ \A i \in Tasks : G.state[i] = "running" => cur[1 - c] = i
    <3>1. \A i \in Tasks : i > task_count' => G.state[i] = "unused"
      BY <1>2, <1>3, <2>2, <2>3, <2>4 DEF Tasks
    <3>2. \A i \in 1 .. task_count' : G.saved[i] = i
      BY <1>2, <1>3, <1>4, <2>2, <2>3, <2>4 DEF Tasks
    <3>3. \A i \in Tasks : G.state[i] = "running" => cur[1 - c] = i
      BY <1>3, <2>2, <2>3
    <3> QED BY <3>1, <3>2, <3>3
  <2>10. cur[1 - c] # None =>
            /\ cur[1 - c] <= task_count'
            /\ G.state[cur[1 - c]] = "running"
            /\ attr'[cur[1 - c]].affinity \in {NoAffinity, 1 - c}
            /\ exec[1 - c] = cur[1 - c]
    <3> SUFFICES ASSUME cur[1 - c] # None
                 PROVE  /\ cur[1 - c] <= task_count'
                        /\ G.state[cur[1 - c]] = "running"
                        /\ attr'[cur[1 - c]].affinity \in {NoAffinity, 1 - c}
                        /\ exec[1 - c] = cur[1 - c]
      OBVIOUS
    <3>1. cur[1 - c] \in 1 .. task_count /\ cur[1 - c] \in Tasks
      BY <1>4, <2>7
    <3>2. cur[1 - c] <= task_count'
      BY <1>2, <2>4, <3>1
    <3>3. cur[1 - c] # task_count + 1 /\ cur[1 - c] # task_count + 2
      BY <1>2, <3>1
    <3>4. G.state[cur[1 - c]] = W.state[cur[1 - c]]
      BY <2>2, <2>3, <3>1, <3>3
    <3> QED BY <1>3, <2>5, <3>1, <3>2, <3>4
  <2>11. Adopt(c, task_count + 1 + c, cur, G)
    BY <1>8 DEF W, F
  <2> HIDE DEF G
  <2>12. /\ SlotsBlank' /\ CurrentOK' /\ RunningHasCore' /\ Apart'
         /\ SavedIsOwn'
         /\ state' \in [Tasks -> States]
         /\ waits' \in [Tasks -> SUBSET WaitKinds]
         /\ wake' \in [Tasks -> 0 .. MaxDelay]
         /\ saved' \in [Tasks -> {Boot} \cup Tasks]
         /\ current' \in [Cores -> {None} \cup Tasks]
         /\ exec' \in [Cores -> {Boot} \cup Tasks]
         /\ slice' \in [Cores -> BOOLEAN]
    BY <1>2, <2>3, <2>4, <2>6, <2>8, <2>9, <2>10, <2>11, AdoptInv
  <2>13. IdleOK' /\ idle_task' \in [Cores -> {None} \cup Tasks]
    BY <1>2, <2>1, <2>4, <2>5 DEF IdleOK, Cores
  <2> QED
    BY <2>4, <2>5, <2>12, <2>13 DEF SchedInv, DispatchTyped
<1> QED BY <1>6, <1>7, <1>8 DEF AdoptNext

\* With nothing to run the core is left without a task; the rest stays exact.
LEMMA NothingInv ==
    ASSUME TypeOK, IdleOK, NEW c \in Cores, NEW cur, NEW T,
           Prepared(c, cur, T), scheduler_started',
           NothingToRun(c, T),
           current' = [cur EXCEPT ![c] = None],
           UNCHANGED <<exec, slice>>
    PROVE  SchedInv' /\ DispatchTyped'
<1> DEFINE W == WakeSleepers(T)
<1>1. Prepared(c, cur, W)
  BY WakePrepared
<1>2. /\ W \in TcbSet /\ cur \in [Cores -> {None} \cup Tasks]
      /\ exec \in [Cores -> {Boot} \cup Tasks]
      /\ slice \in [Cores -> BOOLEAN]
      /\ task_count \in 0 .. MaxTasks
      /\ attr \in [Tasks -> Attrs]
      /\ idle_task \in [Cores -> {None} \cup Tasks]
  BY <1>1 DEF Prepared, TypeOK, SchedTypeOK
<1>3. /\ \A i \in Tasks : i > task_count => W.state[i] = "unused"
      /\ \A i \in 1 .. task_count : W.saved[i] = i
      /\ \A i \in Tasks : W.state[i] = "running" => cur[1 - c] = i
      /\ cur[1 - c] # None =>
            /\ cur[1 - c] <= task_count
            /\ W.state[cur[1 - c]] = "running"
            /\ attr[cur[1 - c]].affinity \in {NoAffinity, 1 - c}
            /\ exec[1 - c] = cur[1 - c]
  BY <1>1 DEF Prepared
<1>4. MaxTasks \in Nat /\ 1 .. task_count \subseteq Tasks
  BY <1>2, SchedAssumption DEF Tasks
<1>5. /\ 1 - c \in Cores /\ Cores = {c, 1 - c} /\ 1 - c # c
      /\ current'[c] = None /\ current'[1 - c] = cur[1 - c]
      /\ current' \in [Cores -> {None} \cup Tasks]
  BY <1>2 DEF Cores
<1>6. cur[1 - c] # None => cur[1 - c] \in 1 .. task_count
  BY <1>2, <1>3, <1>5 DEF Tasks, None
<1>7. ASSUME NEW V \in TcbSet, Commit(V),
             task_count' \in task_count .. MaxTasks,
             attr' \in [Tasks -> Attrs],
             \A i \in 1 .. task_count : attr'[i] = attr[i],
             \A i \in Tasks : i > task_count' => V.state[i] = "unused",
             \A i \in 1 .. task_count' : V.saved[i] = i,
             \A i \in 1 .. task_count : V.state[i] = W.state[i],
             \A i \in Tasks : V.state[i] = "running" => i <= task_count,
             idle_ready' = FALSE,
             idle_task' \in [Cores -> {None} \cup Tasks]
      PROVE  SchedInv' /\ DispatchTyped'
  <2> HIDE DEF W
  <2>1. /\ state' = V.state /\ waits' = V.waits
        /\ wake' = V.wake /\ saved' = V.saved
    BY <1>7 DEF Commit
  <2>2. DispatchTyped'
    <3>1. task_count' \in 0 .. MaxTasks
      BY <1>2, <1>4, <1>7
    <3>2. /\ state' \in [Tasks -> States]
          /\ waits' \in [Tasks -> SUBSET WaitKinds]
          /\ wake' \in [Tasks -> 0 .. MaxDelay]
          /\ saved' \in [Tasks -> {Boot} \cup Tasks]
      BY <1>7, <2>1 DEF TcbSet
    <3>3. exec' = exec /\ slice' = slice
      OBVIOUS
    <3> QED
      BY <1>2, <1>5, <1>7, <3>1, <3>2, <3>3 DEF DispatchTyped
  <2>3. SlotsBlank' /\ SavedIsOwn' /\ IdleOK'
    BY <1>7, <2>1 DEF SlotsBlank, SavedIsOwn, IdleOK
  <2>4. CurrentOK'
    <3> SUFFICES ASSUME cur[1 - c] # None
                 PROVE  /\ cur[1 - c] <= task_count'
                        /\ state'[cur[1 - c]] = "running"
                        /\ attr'[cur[1 - c]].affinity \in {NoAffinity, 1 - c}
                        /\ exec'[1 - c] = cur[1 - c]
      BY <1>5 DEF CurrentOK
    <3> QED BY <1>2, <1>3, <1>4, <1>6, <1>7, <2>1
  <2>5. RunningHasCore'
    <3> SUFFICES ASSUME NEW i \in Tasks, state'[i] = "running"
                 PROVE  current'[1 - c] = i
      BY <1>5 DEF RunningHasCore
    <3>1. i \in 1 .. task_count
      BY <1>2, <1>7, <2>1 DEF Tasks
    <3>2. W.state[i] = "running"
      BY <1>7, <2>1, <3>1
    <3> QED BY <1>3, <1>5, <3>2
  <2>6. Apart'
    BY <1>5 DEF Apart, Cores
  <2> QED BY <2>2, <2>3, <2>4, <2>5, <2>6 DEF SchedInv
<1>8. CASE task_count < MaxTasks
  <2> DEFINE n == task_count + 1
  <2>1. n \in Tasks
    BY <1>2, <1>4, <1>8 DEF Tasks
  <2>2. /\ task_count' = n /\ attr' = [attr EXCEPT ![n] = IdleAttr(0)]
        /\ idle_task' = [idle_task EXCEPT ![0] = n] /\ idle_ready' = FALSE
        /\ Commit(Fresh(n, W))
    BY <1>8 DEF NothingToRun, InstallHalfIdle, TypeOK, SchedTypeOK
  <2> HIDE DEF W
  <2>3. /\ Fresh(n, W) \in TcbSet
        /\ \A i \in Tasks : /\ Fresh(n, W).state[i] =
                                  IF i = n THEN "ready" ELSE W.state[i]
                            /\ Fresh(n, W).saved[i] =
                                  IF i = n THEN n ELSE W.saved[i]
    BY <1>2, <2>1, FreshTcbs
  <2>4. IdleAttr(0) \in Attrs
    BY DEF IdleAttr, Attrs, Cores
  <2>5. /\ attr' \in [Tasks -> Attrs]
        /\ \A i \in 1 .. task_count : attr'[i] = attr[i]
        /\ idle_task' \in [Cores -> {None} \cup Tasks]
        /\ task_count' \in task_count .. MaxTasks
    <3>1. attr' \in [Tasks -> Attrs]
      BY <1>2, <2>2, <2>4
    <3>2. \A i \in 1 .. task_count : attr'[i] = attr[i]
      BY <1>2, <1>4, <2>2
    <3>3. idle_task' \in [Cores -> {None} \cup Tasks]
      BY <1>2, <2>1, <2>2
    <3>4. task_count' \in task_count .. MaxTasks
      BY <1>2, <1>4, <1>8, <2>2
    <3> QED BY <3>1, <3>2, <3>3, <3>4
  <2>6. /\ \A i \in Tasks : i > task_count' => Fresh(n, W).state[i] = "unused"
        /\ \A i \in 1 .. task_count' : Fresh(n, W).saved[i] = i
        /\ \A i \in 1 .. task_count : Fresh(n, W).state[i] = W.state[i]
        /\ \A i \in Tasks : Fresh(n, W).state[i] = "running" => i <= task_count
    <3>1. \A i \in Tasks : i > task_count' => Fresh(n, W).state[i] = "unused"
      BY <1>2, <1>3, <2>2, <2>3 DEF Tasks
    <3>2. \A i \in 1 .. task_count' : Fresh(n, W).saved[i] = i
      <4> SUFFICES ASSUME NEW i \in 1 .. task_count'
                   PROVE  Fresh(n, W).saved[i] = i
        OBVIOUS
      <4>1. i = n \/ i \in 1 .. task_count
        BY <1>2, <2>2
      <4>2. i \in Tasks
        BY <1>4, <2>1, <4>1
      <4> QED BY <1>3, <2>3, <4>1, <4>2
    <3>3. \A i \in 1 .. task_count : Fresh(n, W).state[i] = W.state[i]
      BY <1>2, <1>4, <2>3
    <3>4. \A i \in Tasks : Fresh(n, W).state[i] = "running" => i <= task_count
      BY <1>2, <1>3, <2>3 DEF Tasks
    <3> QED BY <3>1, <3>2, <3>3, <3>4
  <2> QED
    BY <1>7, <2>2, <2>3, <2>5, <2>6
<1>9. CASE ~(task_count < MaxTasks)
  <2>1. /\ task_count' = task_count /\ attr' = attr
        /\ idle_task' = idle_task /\ idle_ready' = FALSE
        /\ Commit(W)
    BY <1>9 DEF NothingToRun, tableVars, TypeOK, SchedTypeOK
  <2> HIDE DEF W
  <2>2. \A i \in Tasks : W.state[i] = "running" => i <= task_count
    BY <1>2, <1>3 DEF Tasks
  <2>3. task_count' \in task_count .. MaxTasks
    BY <1>2, <1>4, <2>1
  <2>4. /\ \A i \in Tasks : i > task_count' => W.state[i] = "unused"
        /\ \A i \in 1 .. task_count' : W.saved[i] = i
        /\ \A i \in 1 .. task_count : attr'[i] = attr[i]
    BY <1>3, <2>1
  <2> QED
    BY <1>2, <1>7, <2>1, <2>2, <2>3, <2>4
<1> QED BY <1>8, <1>9

\* sched_switch() outside a guest call.
LEMMA SwitchInv ==
    ASSUME TypeOK, IdleOK, NEW c \in Cores, NEW T,
           Prepared(c, current, T), scheduler_started',
           ~InGuestCall(c), SchedSwitch(c, T)
    PROVE  /\ SchedInv' /\ DispatchTyped'
           /\ running' \in [Cores -> BOOLEAN]
           /\ halted' \in [Cores -> BOOLEAN]
<1>1. CASE AdoptNext(c, current, T) /\ UNCHANGED <<running, halted>>
  BY <1>1, AdoptNextInv DEF TypeOK, SchedTypeOK
<1>2. CASE NothingToRun(c, T) /\ Park(c)
  <2>1. SchedInv' /\ DispatchTyped'
    BY <1>2, NothingInv DEF Park
  <2> QED
    BY <1>2, <2>1 DEF Park, TypeOK, SchedTypeOK
<1> QED BY <1>1, <1>2 DEF SchedSwitch

-----------------------------------------------------------------------------
\* What the scheduler invariant says of the live TCBs.
LEMMA TcbsTyped ==
    ASSUME TypeOK
    PROVE  /\ Tcbs \in TcbSet
           /\ Tcbs.state = state /\ Tcbs.waits = waits
           /\ Tcbs.wake = wake /\ Tcbs.saved = saved
  BY DEF Tcbs, TcbSet, TypeOK, SchedTypeOK

\* A core without a current task may dispatch the table as it stands.
LEMMA VacantPrepared ==
    ASSUME IndInv, NEW c \in Cores, current[c] = None
    PROVE  Prepared(c, current, Tcbs)
<1>1. 1 - c \in Cores /\ Cores = {c, 1 - c}
  BY DEF Cores
<1>2. \A i \in Tasks : state[i] = "running" => current[1 - c] = i
  BY <1>1 DEF IndInv, SchedInv, RunningHasCore, None, Tasks
<1> QED
  BY <1>1, <1>2, TcbsTyped
  DEF IndInv, SchedInv, Prepared, SlotsBlank, SavedIsOwn, CurrentOK, TypeOK,
      SchedTypeOK

\* A calling task that has entered a state other than RUNNING, with its context
\* saved or not, is ready to be switched away from.
LEMMA EnterPrepared ==
    ASSUME IndInv, NEW c \in Cores, current[c] # None,
           NEW s \in States, s # "running",
           NEW T \in {Tcbs, SaveContext(c, Tcbs)}
    PROVE  Prepared(c, current, Enter(c, s, T))
<1>1. 1 - c \in Cores /\ Cores = {c, 1 - c} /\ 1 - c # c
  BY DEF Cores
<1>2. current \in [Cores -> {None} \cup Tasks] /\ current[c] \in Tasks
  BY DEF IndInv, TypeOK, SchedTypeOK
<1>3. /\ Tcbs \in TcbSet
      /\ Tcbs.state = state /\ Tcbs.waits = waits
      /\ Tcbs.wake = wake /\ Tcbs.saved = saved
  BY TcbsTyped DEF IndInv
<1>4. exec[c] = current[c] /\ current[c] <= task_count
  BY DEF IndInv, SchedInv, CurrentOK
<1>5. /\ T \in TcbSet /\ T.state = state
      /\ \A i \in 1 .. task_count : T.saved[i] = i
  <2>1. CASE T = Tcbs
    BY <1>3, <2>1 DEF IndInv, SchedInv, SavedIsOwn
  <2>2. CASE T = SaveContext(c, Tcbs) /\ ~InGuestCall(c)
    <3>1. T = [Tcbs EXCEPT !.saved = [saved EXCEPT ![current[c]] = current[c]]]
      BY <1>3, <1>4, <2>2 DEF SaveContext
    <3>2. [saved EXCEPT ![current[c]] = current[c]] \in [Tasks -> {Boot} \cup Tasks]
      BY <1>2 DEF IndInv, TypeOK, SchedTypeOK
    <3>3. /\ T \in TcbSet /\ T.state = state
          /\ T.saved = [saved EXCEPT ![current[c]] = current[c]]
      BY <1>3, <3>1, <3>2 DEF TcbSet
    <3>4. \A i \in 1 .. task_count :
             [saved EXCEPT ![current[c]] = current[c]][i] = i
      BY SchedAssumption
      DEF IndInv, SchedInv, SavedIsOwn, TypeOK, SchedTypeOK, Tasks
    <3> QED BY <3>3, <3>4
  <2>3. CASE T = SaveContext(c, Tcbs) /\ InGuestCall(c)
    BY <1>3, <2>3 DEF SaveContext, IndInv, SchedInv, SavedIsOwn
  <2> QED BY <2>1, <2>2, <2>3
<1>6. /\ Enter(c, s, T) \in TcbSet
      /\ Enter(c, s, T).state = [state EXCEPT ![current[c]] = s]
      /\ Enter(c, s, T).saved = T.saved
  BY <1>2, <1>5 DEF Enter, TcbSet
<1>7. \A i \in Tasks : /\ state[i] = "running" => i \in {current[c], current[1 - c]}
                       /\ i > task_count => state[i] = "unused"
  BY <1>1 DEF IndInv, SchedInv, RunningHasCore, SlotsBlank
<1>8. state \in [Tasks -> States]
  BY DEF IndInv, TypeOK, SchedTypeOK
<1>9. /\ \A i \in Tasks : i > task_count => Enter(c, s, T).state[i] = "unused"
      /\ \A i \in Tasks : Enter(c, s, T).state[i] = "running" => current[1 - c] = i
  <2>1. current[c] \in 1 .. task_count /\ task_count \in Nat
    BY <1>2, <1>4 DEF IndInv, TypeOK, SchedTypeOK, Tasks
  <2> QED BY <1>6, <1>7, <1>8, <2>1 DEF Tasks
<1>10. current[1 - c] # None =>
          /\ current[1 - c] <= task_count
          /\ Enter(c, s, T).state[current[1 - c]] = "running"
          /\ attr[current[1 - c]].affinity \in {NoAffinity, 1 - c}
          /\ exec[1 - c] = current[1 - c]
  <2>1. current[1 - c] # current[c]
    BY <1>1 DEF IndInv, SchedInv, Apart, Cores
  <2>2. current[1 - c] # None =>
          /\ current[1 - c] \in Tasks
          /\ current[1 - c] <= task_count
          /\ state[current[1 - c]] = "running"
          /\ attr[current[1 - c]].affinity \in {NoAffinity, 1 - c}
          /\ exec[1 - c] = current[1 - c]
    BY <1>1, <1>2 DEF IndInv, SchedInv, CurrentOK
  <2> QED BY <1>2, <1>6, <1>8, <2>1, <2>2
<1> QED
  BY <1>2, <1>5, <1>6, <1>9, <1>10 DEF Prepared

\* Setting a deadline does not matter to the dispatcher's precondition.
LEMMA WakePreparedToo ==
    ASSUME NEW c \in Cores, NEW cur, NEW T, Prepared(c, cur, T),
           NEW i \in Tasks, NEW d \in 0 .. MaxDelay
    PROVE  Prepared(c, cur, [T EXCEPT !.wake = [T.wake EXCEPT ![i] = d]])
<1> DEFINE V == [T EXCEPT !.wake = [T.wake EXCEPT ![i] = d]]
<1>1. V \in TcbSet /\ V.state = T.state /\ V.saved = T.saved
  BY DEF Prepared, TcbSet
<1> QED BY <1>1 DEF Prepared

-----------------------------------------------------------------------------
\* The types of the variables a dispatch leaves alone.
RestTyped ==
    /\ running \in [Cores -> BOOLEAN]
    /\ halted \in [Cores -> BOOLEAN]
    /\ scheduler_started \in BOOLEAN
    /\ guest_call \in [Cores -> {"none", "awake", "halted"}]
    /\ deferred \in {None, Unregistered} \cup Tasks
    /\ app_cpu_started \in BOOLEAN

\* Once the scheduler runs, the invariant is these three parts.
LEMMA Assemble ==
    ASSUME SchedInv', DispatchTyped', RestTyped', scheduler_started'
    PROVE  IndInv'
  BY DEF IndInv, TypeOK, SchedTypeOK, DispatchTyped, RestTyped, LegacyOK

\* The calls that switch away from their caller: vTaskDelay, vPortYield,
\* vTaskDelete(NULL), vTaskSuspend(NULL).
LEMMA SwitchingCallInv ==
    ASSUME IndInv, NEW c \in Cores, NEW T,
           scheduler_started, ~InGuestCall(c), Prepared(c, current, T),
           SchedSwitch(c, T), SwitchOnly
    PROVE  IndInv'
<1>1. scheduler_started' /\ TypeOK /\ IdleOK
  BY DEF SwitchOnly, IndInv, SchedInv
<1>2. /\ SchedInv' /\ DispatchTyped'
      /\ running' \in [Cores -> BOOLEAN] /\ halted' \in [Cores -> BOOLEAN]
  BY <1>1, SwitchInv
<1>3. RestTyped'
  BY <1>1, <1>2 DEF SwitchOnly, ownVars, RestTyped, TypeOK, SchedTypeOK
<1> QED BY <1>1, <1>2, <1>3, Assemble

\* The calls with which a task gives up its core.
LEMMA BlockingInv ==
    ASSUME IndInv, Guest = {}, NEW c \in Cores,
           \/ \E d \in 0 .. MaxDelay : VTaskDelay(c, d)
           \/ VPortYield(c)
           \/ VTaskDeleteSelf(c)
           \/ VTaskSuspendSelf(c)
    PROVE  IndInv'
<1>1. /\ scheduler_started /\ current[c] # None /\ ~InGuestCall(c)
      /\ SwitchOnly /\ current[c] \in Tasks
  BY DEF VTaskDelay, VPortYield, VTaskDeleteSelf, VTaskSuspendSelf, Scheduled,
         MayBlock, IndInv, TypeOK, SchedTypeOK
<1>2. CASE \E d \in 0 .. MaxDelay : VTaskDelay(c, d)
  <2>1. PICK d \in 0 .. MaxDelay : VTaskDelay(c, d)
    BY <1>2
  <2> DEFINE E == Enter(c, "sleeping", SaveContext(c, Tcbs))
  <2>2. Prepared(c, current, E)
    BY <1>1, EnterPrepared DEF States
  <2>3. SchedSwitch(c, [E EXCEPT !.wake = [E.wake EXCEPT ![current[c]] = d]])
    BY <2>1 DEF VTaskDelay
  <2> HIDE DEF E
  <2>4. Prepared(c, current,
                 [E EXCEPT !.wake = [E.wake EXCEPT ![current[c]] = d]])
    BY <1>1, <2>2, WakePreparedToo
  <2> QED BY <1>1, <2>3, <2>4, SwitchingCallInv
<1>3. CASE VPortYield(c)
  <2>1. Prepared(c, current, Enter(c, "ready", SaveContext(c, Tcbs)))
    BY <1>1, EnterPrepared DEF States
  <2>2. SchedSwitch(c, Enter(c, "ready", SaveContext(c, Tcbs)))
    BY <1>3 DEF VPortYield
  <2> QED BY <1>1, <2>1, <2>2, SwitchingCallInv
<1>4. CASE VTaskDeleteSelf(c)
  <2>1. Prepared(c, current, Enter(c, "unused", Tcbs))
    BY <1>1, EnterPrepared DEF States
  <2>2. SchedSwitch(c, Enter(c, "unused", Tcbs))
    BY <1>4 DEF VTaskDeleteSelf
  <2> QED BY <1>1, <2>1, <2>2, SwitchingCallInv
<1>5. CASE VTaskSuspendSelf(c)
  <2>1. Prepared(c, current, Enter(c, "suspended", SaveContext(c, Tcbs)))
    BY <1>1, EnterPrepared DEF States
  <2>2. SchedSwitch(c, Enter(c, "suspended", SaveContext(c, Tcbs)))
    BY <1>5 DEF VTaskSuspendSelf
  <2> QED BY <1>1, <2>1, <2>2, SwitchingCallInv
<1> QED BY <1>2, <1>3, <1>4, <1>5

-----------------------------------------------------------------------------
\* A task that no core runs may be put into any state but RUNNING.
LEMMA RestateInv ==
    ASSUME IndInv, NEW j \in 1 .. task_count, NEW s \in States, s # "running",
           \A c \in Cores : current[c] # j,
           NEW w \in SUBSET WaitKinds,
           state' = [state EXCEPT ![j] = s],
           waits' = [waits EXCEPT ![j] = w],
           UNCHANGED <<tableVars, wake, saved, coreVars, scheduler_started,
                       guest_call, ownVars>>
    PROVE  IndInv'
<1>1. /\ task_count' = task_count /\ attr' = attr /\ idle_task' = idle_task
      /\ idle_ready' = idle_ready /\ wake' = wake /\ saved' = saved
      /\ current' = current /\ exec' = exec /\ running' = running
      /\ halted' = halted /\ slice' = slice
      /\ scheduler_started' = scheduler_started /\ guest_call' = guest_call
      /\ deferred' = deferred /\ app_cpu_started' = app_cpu_started
  BY DEF tableVars, coreVars, ownVars
<1>2. /\ state \in [Tasks -> States]
      /\ waits \in [Tasks -> SUBSET WaitKinds]
      /\ current \in [Cores -> {None} \cup Tasks]
      /\ task_count \in 0 .. MaxTasks
      /\ MaxTasks \in Nat
  BY SchedAssumption DEF IndInv, TypeOK, SchedTypeOK
<1>3. TypeOK'
  BY <1>1, <1>2 DEF IndInv, TypeOK, SchedTypeOK
<1>4. SlotsBlank'
  BY <1>1, <1>2 DEF IndInv, SchedInv, SlotsBlank, Tasks
<1>5. CurrentOK'
  BY <1>1, <1>2 DEF IndInv, SchedInv, CurrentOK
<1>6. RunningHasCore'
  BY <1>1, <1>2 DEF IndInv, SchedInv, RunningHasCore
<1>7. Apart' /\ SavedIsOwn' /\ IdleOK' /\ LegacyOK'
  BY <1>1 DEF IndInv, SchedInv, Apart, SavedIsOwn, IdleOK, LegacyOK
<1> QED BY <1>3, <1>4, <1>5, <1>6, <1>7 DEF IndInv, SchedInv

\* What one task does to another: deletion, suspension, resumption.
LEMMA OtherTaskInv ==
    ASSUME IndInv, Guest = {}, NEW c \in Cores, NEW j \in Tasks,
           VTaskDelete(c, j) \/ VTaskSuspend(c, j) \/ VTaskResume(c, j)
    PROVE  IndInv'
<1>1. j \in 1 .. task_count
  BY DEF VTaskDelete, VTaskSuspend, VTaskResume, Live
<1>2. /\ state \in [Tasks -> States] /\ waits \in [Tasks -> SUBSET WaitKinds]
      /\ Cores = {c, 1 - c} /\ 1 - c \in Cores
  BY DEF IndInv, TypeOK, SchedTypeOK, Cores
<1>3. \A k \in Cores : current[k] # j
  <2>1. CASE VTaskDelete(c, j) \/ VTaskSuspend(c, j)
    BY <1>2, <2>1 DEF VTaskDelete, VTaskSuspend, MayTouch
  <2>2. CASE VTaskResume(c, j)
    BY <1>1, <2>2 DEF VTaskResume, IndInv, SchedInv, CurrentOK, None
  <2> QED BY <2>1, <2>2
<1>4. UNCHANGED <<tableVars, coreVars, scheduler_started, guest_call, ownVars>>
  BY DEF VTaskDelete, VTaskSuspend, VTaskResume, SwitchOnly
<1>5. CASE VTaskDelete(c, j)
  <2>1. /\ state' = [state EXCEPT ![j] = "unused"] /\ waits' = waits
        /\ wake' = wake /\ saved' = saved
    BY <1>5 DEF VTaskDelete, Commit, Tcbs
  <2>2. waits' = [waits EXCEPT ![j] = waits[j]] /\ waits[j] \in SUBSET WaitKinds
    BY <1>2, <2>1
  <2> QED BY <1>1, <1>3, <1>4, <2>1, <2>2, RestateInv DEF States
<1>6. CASE VTaskSuspend(c, j)
  <2>1. /\ state' = [state EXCEPT ![j] = "suspended"]
        /\ waits' = [waits EXCEPT ![j] = waits[j] \ {"q", "eg", "notify"}]
        /\ wake' = wake /\ saved' = saved
    BY <1>2, <1>6 DEF VTaskSuspend, Commit, Tcbs
  <2>2. waits[j] \ {"q", "eg", "notify"} \in SUBSET WaitKinds
    BY <1>2
  <2> QED BY <1>1, <1>3, <1>4, <2>1, <2>2, RestateInv DEF States
<1>7. CASE VTaskResume(c, j)
  <2>1. /\ state' = [state EXCEPT ![j] = "ready"] /\ waits' = waits
        /\ wake' = wake /\ saved' = saved
    BY <1>7 DEF VTaskResume, Commit, Tcbs
  <2>2. waits' = [waits EXCEPT ![j] = waits[j]] /\ waits[j] \in SUBSET WaitKinds
    BY <1>2, <2>1
  <2> QED BY <1>1, <1>3, <1>4, <2>1, <2>2, RestateInv DEF States
<1> QED BY <1>5, <1>6, <1>7

-----------------------------------------------------------------------------
\* Task creation, including the promotion of the legacy task.
LEMMA RegisterInv ==
    ASSUME IndInv, Guest = {}, NEW c \in Cores, NEW p \in Prios,
           NEW a \in Affinities, MayCreate(c), Register(p, a),
           deferred' \in {None, Unregistered} \cup Tasks,
           ~scheduler_started' =>
              (deferred' \in Tasks => deferred' = 1 /\ task_count' = 1),
           UNCHANGED app_cpu_started
    PROVE  IndInv'
<1> DEFINE n == task_count + 1
           T == Fresh(n, Tcbs)
<1>1. /\ task_count \in 0 .. MaxTasks /\ task_count < MaxTasks
      /\ MaxTasks \in Nat /\ n \in Tasks /\ 1 \in Tasks
      /\ 1 .. task_count \subseteq Tasks
  BY SchedAssumption DEF Register, IndInv, TypeOK, SchedTypeOK, Tasks
<1>2. /\ T \in TcbSet
      /\ \A i \in Tasks : /\ T.state[i] = IF i = n THEN "ready" ELSE state[i]
                          /\ T.saved[i] = IF i = n THEN n ELSE saved[i]
  <2>1. /\ Tcbs \in TcbSet /\ Tcbs.state = state /\ Tcbs.saved = saved
    BY TcbsTyped DEF IndInv
  <2>2. /\ T \in TcbSet
        /\ \A i \in Tasks : /\ T.state[i] = IF i = n THEN "ready"
                                              ELSE Tcbs.state[i]
                            /\ T.saved[i] = IF i = n THEN n ELSE Tcbs.saved[i]
    BY <1>1, <2>1, FreshTcbs
  <2> QED BY <2>1, <2>2
<1>3. /\ task_count' = n
      /\ attr' = [attr EXCEPT ![n] = [prio |-> p, affinity |-> a,
                                      is_idle |-> FALSE]]
      /\ UNCHANGED <<idle_task, idle_ready, exec, running, halted, guest_call>>
  BY DEF Register
<1>4. /\ attr' \in [Tasks -> Attrs]
      /\ \A i \in 1 .. task_count : attr'[i] = attr[i]
  <2>1. [prio |-> p, affinity |-> a, is_idle |-> FALSE] \in Attrs
    BY TasksAssumption DEF Attrs
  <2>2. attr \in [Tasks -> Attrs]
    BY DEF IndInv, TypeOK, SchedTypeOK
  <2> QED BY <1>1, <1>3, <2>1, <2>2
<1>5. /\ state \in [Tasks -> States] /\ saved \in [Tasks -> {Boot} \cup Tasks]
      /\ current \in [Cores -> {None} \cup Tasks]
      /\ exec \in [Cores -> {Boot} \cup Tasks]
      /\ slice \in [Cores -> BOOLEAN]
  BY DEF IndInv, TypeOK, SchedTypeOK
<1> HIDE DEF T
<1>6. /\ \A i \in Tasks : i > task_count' => T.state[i] = "unused"
      /\ \A i \in 1 .. task_count' : T.saved[i] = i
  <2>1. \A i \in Tasks : i > task_count' => T.state[i] = "unused"
    BY <1>1, <1>2, <1>3 DEF IndInv, SchedInv, SlotsBlank, Tasks
  <2>2. \A i \in 1 .. task_count' : i = n \/ i \in 1 .. task_count
    BY <1>1, <1>3
  <2>3. \A i \in 1 .. task_count' : T.saved[i] = i
    BY <1>1, <1>2, <2>2 DEF IndInv, SchedInv, SavedIsOwn
  <2> QED BY <2>1, <2>3
<1>7. \A k \in Cores : current[k] # None => current[k] \in 1 .. task_count
  BY <1>1, <1>5 DEF IndInv, SchedInv, CurrentOK, Tasks, None
<1>8. IdleOK'
  BY <1>1, <1>3, <1>4 DEF IndInv, SchedInv, IdleOK
<1>9. CASE Promotes(n)
  <2>1. /\ ~scheduler_started /\ task_count = 1 /\ n = 2
        /\ exec[0] = 1 /\ attr[1].affinity # 1 /\ ~idle_ready
        /\ exec[1] = Boot
    BY <1>1, <1>9 DEF Promotes, MayCreate, IndInv, LegacyOK, Cores, Boot
  <2>2. \A k \in Cores : current[k] = None
    BY <2>1 DEF IndInv, SchedInv, CurrentOK
  <2>3. \A i \in Tasks : state[i] # "running"
    BY <2>2 DEF IndInv, SchedInv, RunningHasCore, Tasks, None
  <2> DEFINE P == [T EXCEPT !.state = [T.state EXCEPT ![1] = "running"]]
             Q == IF InGuestCall(0) THEN P ELSE [P EXCEPT !.saved[1] = exec[0]]
  <2>4. /\ scheduler_started' = TRUE
        /\ current' = [current EXCEPT ![0] = 1]
        /\ slice' = [slice EXCEPT ![0] = FALSE]
        /\ Commit(Q)
    BY <1>9 DEF Register, T
  <2>5. /\ P \in TcbSet /\ P.saved = T.saved
        /\ P.state = [T.state EXCEPT ![1] = "running"]
    BY <1>1, <1>2 DEF TcbSet, States
  <2> HIDE DEF P
  <2>6. /\ Q \in TcbSet /\ Q.state = P.state
        /\ \A i \in 1 .. task_count' : Q.saved[i] = i
    BY <1>1, <1>6, <2>1, <2>5 DEF TcbSet
  <2> HIDE DEF Q
  <2>7. /\ state' = Q.state /\ waits' = Q.waits /\ wake' = Q.wake
        /\ saved' = Q.saved
    BY <2>4 DEF Commit
  <2>8. /\ state' \in [Tasks -> States]
        /\ waits' \in [Tasks -> SUBSET WaitKinds]
        /\ wake' \in [Tasks -> 0 .. MaxDelay]
        /\ saved' \in [Tasks -> {Boot} \cup Tasks]
        /\ current' \in [Cores -> {None} \cup Tasks]
        /\ slice' \in [Cores -> BOOLEAN]
    BY <1>1, <1>5, <2>4, <2>6, <2>7 DEF TcbSet
  <2>9. /\ T.state \in [Tasks -> States]
        /\ \A i \in Tasks : state'[i] = IF i = 1 THEN "running" ELSE T.state[i]
    BY <1>1, <1>2, <2>5, <2>6, <2>7 DEF TcbSet
  <2>10. /\ current'[0] = 1 /\ current'[1] = None /\ Cores = {0, 1}
    BY <1>5, <2>2, <2>4 DEF Cores
  <2>11. SlotsBlank'
    BY <1>1, <1>3, <1>6, <2>1, <2>9 DEF SlotsBlank, Tasks
  <2>12. CurrentOK'
    BY <1>1, <1>3, <1>4, <2>1, <2>4, <2>9, <2>10
    DEF CurrentOK, None, IndInv, TypeOK, SchedTypeOK, Attrs, NoAffinity
  <2>13. RunningHasCore'
    BY <1>2, <2>3, <2>9, <2>10 DEF RunningHasCore
  <2>14. Apart' /\ SavedIsOwn'
    BY <2>6, <2>7, <2>10 DEF Apart, SavedIsOwn, None
  <2>15. DispatchTyped' /\ RestTyped'
    BY <1>1, <1>3, <1>4, <2>4, <2>8
    DEF DispatchTyped, RestTyped, IndInv, TypeOK, SchedTypeOK
  <2> QED
    BY <1>8, <2>4, <2>11, <2>12, <2>13, <2>14, <2>15, Assemble DEF SchedInv
<1>10. CASE ~Promotes(n)
  <2>1. /\ scheduler_started' = scheduler_started /\ current' = current
        /\ slice' = slice /\ exec' = exec
        /\ state' = T.state /\ waits' = T.waits /\ wake' = T.wake
        /\ saved' = T.saved
    BY <1>3, <1>10 DEF Register, Commit, T
  <2>2. DispatchTyped'
    BY <1>1, <1>2, <1>3, <1>4, <1>5, <2>1
    DEF DispatchTyped, TcbSet, IndInv, TypeOK, SchedTypeOK
  <2>3. RestTyped'
    BY <1>3, <2>1 DEF RestTyped, IndInv, TypeOK, SchedTypeOK
  <2>4. SlotsBlank' /\ SavedIsOwn'
    BY <1>6, <2>1 DEF SlotsBlank, SavedIsOwn
  <2>5. \A k \in Cores : current[k] # n
    BY <1>1, <1>7 DEF None
  <2>6. CurrentOK'
    <3> SUFFICES ASSUME NEW k \in Cores, current[k] # None
                 PROVE  /\ scheduler_started
                        /\ current[k] <= task_count'
                        /\ T.state[current[k]] = "running"
                        /\ attr'[current[k]].affinity \in {NoAffinity, k}
                        /\ exec[k] = current[k]
      BY <2>1 DEF CurrentOK
    <3> QED
      BY <1>1, <1>2, <1>3, <1>4, <1>7, <2>5 DEF IndInv, SchedInv, CurrentOK
  <2>7. RunningHasCore'
    BY <1>2, <2>1 DEF IndInv, SchedInv, RunningHasCore
  <2>8. Apart'
    BY <2>1 DEF IndInv, SchedInv, Apart
  <2>9. LegacyOK'
    <3> SUFFICES ASSUME ~scheduler_started PROVE LegacyOK'
      BY <2>1 DEF LegacyOK
    <3>1. task_count = 0 /\ n = 1
      BY <1>1, <1>10 DEF Promotes, IndInv, LegacyOK
    <3>2. exec[0] = Boot /\ exec[1] = Boot /\ ~idle_ready
      BY <3>1 DEF IndInv, LegacyOK
    <3> QED BY <1>3, <2>1, <3>1, <3>2 DEF LegacyOK
  <2> QED
    BY <1>8, <2>2, <2>3, <2>4, <2>6, <2>7, <2>8, <2>9
    DEF IndInv, SchedInv, TypeOK, SchedTypeOK, DispatchTyped, RestTyped
<1> QED BY <1>9, <1>10

\* The calls that create a task.
LEMMA CreateInv ==
    ASSUME IndInv, Guest = {}, NEW c \in Cores,
           \/ \E p \in Prios, a \in Affinities, pinned \in BOOLEAN :
                 CreateApp(c, p, a, pinned)
           \/ \E pinned \in BOOLEAN : CreateDriver(c, pinned)
    PROVE  IndInv'
<1>1. CASE \E pinned \in BOOLEAN : CreateDriver(c, pinned)
  <2>1. PICK pinned \in BOOLEAN : CreateDriver(c, pinned)
    BY <1>1
  <2>2. deferred' \in {None, Unregistered, deferred}
    BY <2>1 DEF CreateDriver, DeferredAfter
  <2>3. UNCHANGED <<schedVars, app_cpu_started>>
    BY <2>1 DEF CreateDriver
  <2> QED
    BY <2>2, <2>3
    DEF schedVars, IndInv, TypeOK, SchedTypeOK, SchedInv, SlotsBlank,
        CurrentOK, RunningHasCore, Apart, SavedIsOwn, IdleOK, LegacyOK,
        Unregistered, None, Tasks
<1>2. ASSUME NEW p \in Prios, NEW a \in Affinities, NEW pinned \in BOOLEAN,
             CreateApp(c, p, a, pinned)
      PROVE  IndInv'
  <2>1. CASE Register(p, a) /\ DeferredAfter(pinned, task_count + 1)
    <3>1. /\ task_count' = task_count + 1 /\ task_count + 1 \in Tasks
          /\ task_count \in Nat
      BY <2>1, SchedAssumption DEF Register, IndInv, TypeOK, SchedTypeOK, Tasks
    <3>2. deferred' \in {None, Unregistered} \cup Tasks
      BY <2>1, <3>1 DEF DeferredAfter, IndInv, TypeOK
    <3>3. ASSUME ~scheduler_started', deferred' \in Tasks
          PROVE  deferred' = 1 /\ task_count' = 1
      <4>1. ~scheduler_started /\ task_count = 0
        BY <2>1, <3>1, <3>3 DEF Register, Promotes, IndInv, LegacyOK
      <4> QED
        BY <2>1, <3>1, <3>3, <4>1 DEF DeferredAfter, IndInv, LegacyOK
    <3> QED
      BY <1>2, <2>1, <3>2, <3>3, RegisterInv DEF CreateApp
  <2>2. CASE TableFull /\ DeferredAfter(pinned, Unregistered)
    BY <1>2, <2>2
    DEF CreateApp, TableFull, DeferredAfter, schedVars, IndInv, TypeOK,
        SchedTypeOK, SchedInv, SlotsBlank, CurrentOK, RunningHasCore,
        Apart, SavedIsOwn, IdleOK, LegacyOK, Unregistered, None, Tasks
  <2> QED BY <1>2, <2>1, <2>2 DEF CreateApp
<1> QED BY <1>1, <1>2

-----------------------------------------------------------------------------
\* The scheduler starts, from vTaskStartScheduler or from the trampoline.
LEMMA SchedStartInv ==
    ASSUME IndInv, Guest = {}, ~scheduler_started, SchedStart,
           deferred' = None, UNCHANGED app_cpu_started
    PROVE  IndInv'
<1>1. 0 \in Cores /\ 1 \in Cores
  BY DEF Cores
<1>2. current = NoCurrent
  <2>1. \A k \in Cores : current[k] = None
    BY DEF IndInv, SchedInv, CurrentOK
  <2> QED BY <2>1 DEF NoCurrent, IndInv, TypeOK, SchedTypeOK
<1>3. Prepared(0, NoCurrent, Tcbs)
  <2>1. current[0] = None
    BY <1>1, <1>2 DEF NoCurrent
  <2> QED BY <1>1, <1>2, <2>1, VacantPrepared
<1>4. TypeOK /\ IdleOK /\ scheduler_started'
  BY DEF IndInv, SchedInv, SchedStart
<1>5. SchedInv' /\ DispatchTyped'
  <2>1. CASE AdoptNext(0, NoCurrent, Tcbs)
    BY <1>1, <1>3, <1>4, <2>1, AdoptNextInv
  <2>2. CASE /\ NothingToRun(0, Tcbs) /\ current' = NoCurrent
             /\ UNCHANGED <<exec, slice>>
    <3>1. NoCurrent = [NoCurrent EXCEPT ![0] = None]
      BY DEF NoCurrent
    <3> QED BY <1>1, <1>3, <1>4, <2>2, <3>1, NothingInv
  <2> QED BY <2>1, <2>2 DEF SchedStart
<1>6. RestTyped'
  BY DEF SchedStart, RestTyped, IndInv, TypeOK, SchedTypeOK
<1> QED BY <1>4, <1>5, <1>6, Assemble

\* The three ways scheduling begins on a core.
LEMMA StartInv ==
    ASSUME IndInv, Guest = {},
           StartScheduler \/ DeferredTrampoline \/ StartAppCpu
    PROVE  IndInv'
<1>1. CASE StartScheduler
  BY <1>1, SchedStartInv DEF StartScheduler
<1>2. CASE DeferredTrampoline
  <2>1. CASE /\ SchedStart /\ deferred' = None /\ UNCHANGED app_cpu_started
    BY <1>2, <2>1, SchedStartInv DEF DeferredTrampoline
  <2>2. CASE /\ deferred # None
             /\ deferred \in Tasks => attr[deferred].affinity # 1
             /\ exec' = [exec EXCEPT ![0] = IF deferred = Unregistered THEN Boot
                                            ELSE deferred]
             /\ deferred' = None
             /\ UNCHANGED <<tableVars, taskVars, current, running, halted,
                            slice, scheduler_started, guest_call,
                            app_cpu_started>>
    <3>1. ~scheduler_started
      BY <1>2 DEF DeferredTrampoline
    <3>2. exec[1] = Boot /\ task_count <= 1 /\ ~idle_ready
      BY <3>1 DEF IndInv, LegacyOK
    <3>3. deferred = Unregistered \/ (deferred = 1 /\ task_count = 1
                                      /\ 1 \in Tasks /\ attr[1].affinity # 1)
      BY <2>2, <3>1 DEF IndInv, LegacyOK, TypeOK
    <3>4. /\ exec' \in [Cores -> {Boot} \cup Tasks] /\ exec'[1] = Boot
          /\ exec'[0] # Boot => /\ exec'[0] = 1 /\ task_count = 1
                                /\ attr[1].affinity # 1
      BY <2>2, <3>2, <3>3
      DEF IndInv, TypeOK, SchedTypeOK, Cores, Boot, Unregistered
    <3>5. \A k \in Cores : current[k] = None
      BY <3>1 DEF IndInv, SchedInv, CurrentOK
    <3>6. UNCHANGED <<task_count, attr, idle_task, idle_ready, state, waits,
                      wake, saved, current, running, halted, slice,
                      scheduler_started, guest_call, app_cpu_started>>
      BY <2>2 DEF tableVars, taskVars
    <3>7. TypeOK'
      BY <2>2, <3>4, <3>6 DEF IndInv, TypeOK, SchedTypeOK
    <3>8. SchedInv'
      BY <3>5, <3>6
      DEF IndInv, SchedInv, SlotsBlank, CurrentOK, RunningHasCore, Apart,
          SavedIsOwn, IdleOK
    <3>9. LegacyOK'
      BY <2>2, <3>2, <3>4, <3>6 DEF LegacyOK, Tasks, None
    <3> QED BY <3>7, <3>8, <3>9 DEF IndInv
  <2>3. CASE /\ running' = [running EXCEPT ![0] = FALSE]
             /\ UNCHANGED <<tableVars, taskVars, current, exec, halted, slice,
                            scheduler_started, guest_call, ownVars>>
    BY <2>3
    DEF tableVars, taskVars, ownVars, IndInv, TypeOK, SchedTypeOK, SchedInv,
        SlotsBlank, CurrentOK, RunningHasCore, Apart, SavedIsOwn, IdleOK,
        LegacyOK
  <2> QED BY <1>2, <2>1, <2>2, <2>3 DEF DeferredTrampoline
<1>3. CASE StartAppCpu
  BY <1>3
  DEF StartAppCpu, tableVars, taskVars, IndInv, TypeOK, SchedTypeOK, SchedInv,
      SlotsBlank, CurrentOK, RunningHasCore, Apart, SavedIsOwn, IdleOK, LegacyOK
<1> QED BY <1>1, <1>2, <1>3

\* A core that has no task: core 1's startup stub and the session's poll.
LEMMA VacantInv ==
    ASSUME IndInv, Guest = {}, NEW c \in Cores,
           \/ StartOtherCore /\ c = 1
           \/ CheckPreemptAdopt(c)
    PROVE  IndInv'
<1>1. current[c] = None /\ scheduler_started
  BY DEF StartOtherCore, CheckPreemptAdopt, PreemptPolled
<1>2. Prepared(c, current, Tcbs)
  BY <1>1, VacantPrepared
<1>3. /\ TypeOK /\ IdleOK /\ scheduler_started'
      /\ scheduler_started' = scheduler_started /\ guest_call' = guest_call
      /\ UNCHANGED ownVars
  BY <1>1 DEF IndInv, SchedInv, StartOtherCore, CheckPreemptAdopt, SwitchOnly
<1>4. \/ AdoptNext(c, current, Tcbs)
      \/ NothingToRun(c, Tcbs) /\ UNCHANGED <<current, exec, slice>>
  BY DEF StartOtherCore, CheckPreemptAdopt, coreVars
<1>5. SchedInv' /\ DispatchTyped'
  <2>1. CASE AdoptNext(c, current, Tcbs)
    BY <1>2, <1>3, <2>1, AdoptNextInv
  <2>2. CASE NothingToRun(c, Tcbs) /\ UNCHANGED <<current, exec, slice>>
    <3>1. current = [current EXCEPT ![c] = None]
      BY <1>1 DEF IndInv, TypeOK, SchedTypeOK
    <3> QED BY <1>2, <1>3, <2>2, <3>1, NothingInv
  <2> QED BY <1>4, <2>1, <2>2
<1>6. running' \in [Cores -> BOOLEAN] /\ halted' \in [Cores -> BOOLEAN]
  <2>1. running \in [Cores -> BOOLEAN] /\ halted \in [Cores -> BOOLEAN]
    BY <1>3 DEF TypeOK, SchedTypeOK
  <2>2. CASE StartOtherCore
    BY <2>1, <2>2 DEF StartOtherCore
  <2>3. CASE CheckPreemptAdopt(c)
    BY <2>1, <2>3 DEF CheckPreemptAdopt, Resume, coreVars
  <2> QED BY <2>2, <2>3
<1>7. RestTyped'
  BY <1>3, <1>6 DEF RestTyped, ownVars, TypeOK, SchedTypeOK
<1> QED BY <1>3, <1>5, <1>7, Assemble

\* The preemption check of a core that has a task.
LEMMA PreemptInv ==
    ASSUME IndInv, Guest = {}, NEW c \in Cores, CheckPreempt(c)
    PROVE  IndInv'
<1> DEFINE W == WakeSleepers(Tcbs)
<1>1. /\ current[c] # None /\ scheduler_started /\ ~InGuestCall(c)
      /\ UNCHANGED <<tableVars, scheduler_started, guest_call, ownVars>>
  BY DEF CheckPreempt, Preempt, PreemptPolled, AtBoundary, SwitchOnly
<1>2. /\ TypeOK /\ IdleOK /\ current[c] \in Tasks /\ current[c] <= task_count
      /\ exec[c] = current[c] /\ state[current[c]] = "running"
      /\ current \in [Cores -> {None} \cup Tasks]
      /\ exec \in [Cores -> {Boot} \cup Tasks]
      /\ slice \in [Cores -> BOOLEAN]
      /\ running \in [Cores -> BOOLEAN] /\ halted \in [Cores -> BOOLEAN]
      /\ task_count \in 0 .. MaxTasks /\ MaxTasks \in Nat
      /\ 1 .. task_count \subseteq Tasks
  <2>1. TypeOK /\ IdleOK /\ CurrentOK
    BY DEF IndInv, SchedInv
  <2>2. /\ current \in [Cores -> {None} \cup Tasks]
        /\ exec \in [Cores -> {Boot} \cup Tasks]
        /\ slice \in [Cores -> BOOLEAN]
        /\ running \in [Cores -> BOOLEAN] /\ halted \in [Cores -> BOOLEAN]
        /\ task_count \in 0 .. MaxTasks
    BY <2>1 DEF TypeOK, SchedTypeOK
  <2>3. MaxTasks \in Nat /\ 1 .. task_count \subseteq Tasks
    BY <2>2, SchedAssumption DEF Tasks
  <2>4. current[c] \in Tasks
    BY <1>1, <2>2
  <2>5. /\ current[c] <= task_count /\ exec[c] = current[c]
        /\ state[current[c]] = "running"
    BY <1>1, <2>1 DEF CurrentOK
  <2> QED BY <2>1, <2>2, <2>3, <2>4, <2>5
<1>3. /\ task_count' = task_count /\ attr' = attr /\ idle_task' = idle_task
      /\ idle_ready' = idle_ready /\ scheduler_started'
      /\ scheduler_started' = scheduler_started /\ guest_call' = guest_call
      /\ deferred' = deferred /\ app_cpu_started' = app_cpu_started
  BY <1>1 DEF tableVars, ownVars
<1>4. /\ W \in TcbSet
      /\ \A i \in Tasks : /\ W.state[i] = IF Expired(Tcbs, i) THEN "ready"
                                          ELSE state[i]
                          /\ W.saved[i] = saved[i]
      /\ \A i \in Tasks : Expired(Tcbs, i) => i <= task_count /\ state[i] = "sleeping"
  <2>1. /\ Tcbs \in TcbSet /\ Tcbs.state = state /\ Tcbs.saved = saved
    BY <1>2, TcbsTyped
  <2>2. W \in TcbSet
    BY <2>1 DEF WakeSleepers, TcbSet, States, Expired
  <2>3. \A i \in Tasks : /\ W.state[i] = IF Expired(Tcbs, i) THEN "ready"
                                         ELSE state[i]
                         /\ W.saved[i] = saved[i]
    BY <2>1 DEF WakeSleepers, TcbSet
  <2>4. \A i \in Tasks : Expired(Tcbs, i) => i <= task_count /\ state[i] = "sleeping"
    BY <2>1 DEF Expired
  <2> QED BY <2>2, <2>3, <2>4
<1> HIDE DEF W
<1>5. /\ W.state[current[c]] = "running"
      /\ \A i \in Tasks : i > task_count => W.state[i] = "unused"
      /\ \A i \in 1 .. task_count : W.saved[i] = i
      /\ \A i \in Tasks : W.state[i] = "running" => state[i] = "running"
      /\ \A i \in Tasks : state[i] = "running" => W.state[i] = "running"
  BY <1>2, <1>4 DEF IndInv, SchedInv, SlotsBlank, SavedIsOwn
<1>6. CASE Commit(W) /\ UNCHANGED coreVars
  <2>1. /\ state' = W.state /\ waits' = W.waits /\ wake' = W.wake
        /\ saved' = W.saved
        /\ UNCHANGED <<current, exec, running, halted, slice>>
    BY <1>6 DEF Commit, coreVars
  <2>2. DispatchTyped' /\ RestTyped'
    BY <1>2, <1>3, <1>4, <2>1
    DEF DispatchTyped, RestTyped, TcbSet, TypeOK, SchedTypeOK
  <2>3. SlotsBlank' /\ SavedIsOwn' /\ IdleOK' /\ Apart'
    BY <1>3, <1>5, <2>1
    DEF IndInv, SchedInv, SlotsBlank, SavedIsOwn, IdleOK, Apart
  <2>4. CurrentOK' /\ RunningHasCore'
    BY <1>2, <1>3, <1>5, <2>1 DEF IndInv, SchedInv, CurrentOK, RunningHasCore
  <2> QED BY <1>3, <2>2, <2>3, <2>4, Assemble DEF SchedInv
<1>7. ASSUME NEW n \in Successors(c, W),
             Adopt(c, n, current, GiveWay(c, SaveContext(c, W))), Resume(c)
      PROVE  IndInv'
  <2> DEFINE S == SaveContext(c, W)
             G == GiveWay(c, S)
  <2>1. /\ n \in 1 .. task_count /\ n # current[c] /\ W.state[n] = "ready"
        /\ attr[n].affinity \in {NoAffinity, c}
    BY <1>7 DEF Successors, FirstAfter, Rivals, HighestPrio, Eligible, Equals
  <2>2. /\ S \in TcbSet /\ S.state = W.state
        /\ S.saved = [W.saved EXCEPT ![current[c]] = current[c]]
    BY <1>1, <1>2, <1>4 DEF SaveContext, TcbSet
  <2> HIDE DEF S
  <2>3. /\ G \in TcbSet /\ G.saved = S.saved
        /\ G.state = [W.state EXCEPT ![current[c]] = "ready"]
    BY <1>2, <1>5, <2>2 DEF GiveWay, Enter, TcbSet, States
  <2> HIDE DEF G
  <2>4. W.state \in [Tasks -> States] /\ W.saved \in [Tasks -> {Boot} \cup Tasks]
    BY <1>4 DEF TcbSet
  <2>5. 1 - c \in Cores /\ 1 - c # c /\ Cores = {c, 1 - c}
    BY DEF Cores
  <2>6. current[1 - c] # current[c]
    BY <1>1, <2>5 DEF IndInv, SchedInv, Apart, Cores
  <2>7. current[1 - c] # None =>
          /\ current[1 - c] \in Tasks
          /\ current[1 - c] <= task_count
          /\ state[current[1 - c]] = "running"
          /\ attr[current[1 - c]].affinity \in {NoAffinity, 1 - c}
          /\ exec[1 - c] = current[1 - c]
    BY <1>2, <2>5 DEF IndInv, SchedInv, CurrentOK
  <2>8. \A i \in Tasks : state[i] = "running" => i \in {current[c], current[1 - c]}
    BY <2>5 DEF IndInv, SchedInv, RunningHasCore
  <2>9. /\ \A i \in Tasks : i > task_count' => G.state[i] = "unused"
        /\ \A i \in 1 .. task_count' : G.saved[i] = i
        /\ \A i \in Tasks : G.state[i] = "running" => current[1 - c] = i
    <3>1. \A i \in Tasks : i > task_count' => G.state[i] = "unused"
      BY <1>2, <1>3, <1>5, <2>3, <2>4 DEF Tasks
    <3>2. \A i \in 1 .. task_count' : G.saved[i] = i
      BY <1>2, <1>3, <1>5, <2>2, <2>3, <2>4
    <3>3. \A i \in Tasks : G.state[i] = "running" => current[1 - c] = i
      BY <1>5, <2>3, <2>4, <2>8
    <3> QED BY <3>1, <3>2, <3>3
  <2>10. current[1 - c] # None =>
          /\ current[1 - c] <= task_count'
          /\ G.state[current[1 - c]] = "running"
          /\ attr'[current[1 - c]].affinity \in {NoAffinity, 1 - c}
          /\ exec[1 - c] = current[1 - c]
    BY <1>2, <1>3, <1>5, <2>3, <2>4, <2>6, <2>7
  <2>11. n \in Tasks /\ n <= task_count' /\ current[1 - c] # n
    BY <1>2, <1>3, <1>5, <2>1, <2>7 DEF None
  <2>12. Adopt(c, n, current, G)
    BY <1>7 DEF G, S
  <2>13. /\ SlotsBlank' /\ CurrentOK' /\ RunningHasCore' /\ Apart'
         /\ SavedIsOwn'
         /\ state' \in [Tasks -> States]
         /\ waits' \in [Tasks -> SUBSET WaitKinds]
         /\ wake' \in [Tasks -> 0 .. MaxDelay]
         /\ saved' \in [Tasks -> {Boot} \cup Tasks]
         /\ current' \in [Cores -> {None} \cup Tasks]
         /\ exec' \in [Cores -> {Boot} \cup Tasks]
         /\ slice' \in [Cores -> BOOLEAN]
    BY <1>2, <1>3, <2>1, <2>3, <2>9, <2>10, <2>11, <2>12, AdoptInv
  <2>14. IdleOK'
    BY <1>2, <1>3 DEF IdleOK
  <2>15. DispatchTyped' /\ RestTyped'
    BY <1>2, <1>3, <1>7, <2>13
    DEF Resume, DispatchTyped, RestTyped, TypeOK, SchedTypeOK
  <2> QED BY <1>3, <2>13, <2>14, <2>15, Assemble DEF SchedInv
<1> QED BY <1>6, <1>7 DEF CheckPreempt, Preempt, W

\* Guest calls, time and the legacy vTaskSuspend touch no task.
LEMMA QuietInv ==
    ASSUME IndInv,
           \/ \E c \in Cores : \/ VTaskSuspendLegacy(c)
                               \/ GuestCallBegin(c)
                               \/ \E completed \in BOOLEAN :
                                     GuestCallEnd(c, completed)
           \/ Tick
           \/ UNCHANGED vars
    PROVE  IndInv'
<1>1. /\ UNCHANGED <<task_count, attr, idle_task, idle_ready, state, waits,
                     saved, current, exec, scheduler_started, deferred,
                     app_cpu_started>>
  BY DEF VTaskSuspendLegacy, GuestCallBegin, GuestCallEnd, Tick, SchedTick, vars,
         schedVars, tableVars, taskVars, coreVars, ownVars, SwitchOnly
<1>2. /\ running' \in [Cores -> BOOLEAN] /\ halted' \in [Cores -> BOOLEAN]
      /\ slice' \in [Cores -> BOOLEAN]
      /\ guest_call' \in [Cores -> {"none", "awake", "halted"}]
      /\ wake' \in [Tasks -> 0 .. MaxDelay]
  <2>1. CASE Tick
    BY <2>1, SchedAssumption DEF Tick, SchedTick, IndInv, TypeOK, SchedTypeOK
  <2>2. CASE \E c \in Cores : VTaskSuspendLegacy(c)
    BY <2>2 DEF VTaskSuspendLegacy, taskVars, SwitchOnly, IndInv, TypeOK,
                SchedTypeOK
  <2>3. CASE \E c \in Cores : GuestCallBegin(c)
    BY <2>3 DEF GuestCallBegin, taskVars, IndInv, TypeOK, SchedTypeOK
  <2>4. CASE \E c \in Cores, completed \in BOOLEAN : GuestCallEnd(c, completed)
    BY <2>4 DEF GuestCallEnd, taskVars, IndInv, TypeOK, SchedTypeOK
  <2>5. CASE UNCHANGED vars
    BY <2>5 DEF vars, schedVars, IndInv, TypeOK, SchedTypeOK
  <2> QED BY <2>1, <2>2, <2>3, <2>4, <2>5
<1>3. TypeOK'
  BY <1>1, <1>2 DEF IndInv, TypeOK, SchedTypeOK
<1>4. SchedInv' /\ LegacyOK'
  BY <1>1
  DEF IndInv, SchedInv, SlotsBlank, CurrentOK, RunningHasCore, Apart,
      SavedIsOwn, IdleOK, LegacyOK
<1> QED BY <1>3, <1>4 DEF IndInv

-----------------------------------------------------------------------------
\* The invariant holds before anything has been created.
LEMMA InitInv == Init => IndInv
<1> SUFFICES ASSUME Init PROVE IndInv
  OBVIOUS
<1>1. TypeOK
  <2>1. /\ task_count \in 0 .. MaxTasks
        /\ state \in [Tasks -> States]
        /\ waits \in [Tasks -> SUBSET WaitKinds]
        /\ wake \in [Tasks -> 0 .. MaxDelay]
        /\ saved \in [Tasks -> {Boot} \cup Tasks]
    BY SchedAssumption DEF Init, SchedInit, States
  <2>2. attr \in [Tasks -> Attrs]
    <3>1. BlankAttr \in Attrs
      BY DEF BlankAttr, Attrs
    <3> QED BY <3>1 DEF Init, SchedInit
  <2>3. /\ current \in [Cores -> {None} \cup Tasks]
        /\ exec \in [Cores -> {Boot} \cup Tasks]
        /\ idle_task \in [Cores -> {None} \cup Tasks]
        /\ guest_call \in [Cores -> {"none", "awake", "halted"}]
    BY DEF Init, SchedInit
  <2>4. /\ running \in [Cores -> BOOLEAN]
        /\ halted \in [Cores -> BOOLEAN]
        /\ slice \in [Cores -> BOOLEAN]
    <3>1. \A c \in Cores : (c = 0) \in BOOLEAN
      OBVIOUS
    <3> QED BY <3>1 DEF Init, SchedInit
  <2>5. idle_ready \in BOOLEAN /\ scheduler_started \in BOOLEAN
    BY DEF Init, SchedInit
  <2>6. deferred \in {None, Unregistered} \cup Tasks /\ app_cpu_started \in BOOLEAN
    BY DEF Init
  <2> QED BY <2>1, <2>2, <2>3, <2>4, <2>5, <2>6 DEF TypeOK, SchedTypeOK
<1>2. SchedInv
  BY SchedAssumption
  DEF Init, SchedInit, SchedInv, SlotsBlank, CurrentOK, RunningHasCore, Apart,
      SavedIsOwn, IdleOK, Tasks, Cores, None
<1>3. LegacyOK
  BY DEF Init, SchedInit, LegacyOK, Tasks, Cores, None, Boot
<1> QED BY <1>1, <1>2, <1>3 DEF IndInv

\* Every step keeps the invariant.
LEMMA NextInv ==
    ASSUME Guest = {}
    PROVE  IndInv /\ [Next]_vars => IndInv'
<1> SUFFICES ASSUME IndInv, [Next]_vars PROVE IndInv'
  OBVIOUS
<1>1. ASSUME NEW c \in Cores, TaskCall(c) PROVE IndInv'
  BY <1>1, CreateInv, BlockingInv, OtherTaskInv, QuietInv DEF TaskCall
<1>2. CASE StartScheduler \/ DeferredTrampoline \/ StartAppCpu
  BY <1>2, StartInv
<1>3. CASE StartOtherCore
  BY <1>3, VacantInv DEF Cores
<1>4. ASSUME NEW c \in Cores, CheckPreemptAdopt(c) PROVE IndInv'
  BY <1>4, VacantInv
<1>5. ASSUME NEW c \in Cores, CheckPreempt(c) PROVE IndInv'
  BY <1>5, PreemptInv
<1>6. CASE \/ \E c \in Cores : \/ GuestCallBegin(c)
                               \/ \E completed \in BOOLEAN :
                                     GuestCallEnd(c, completed)
           \/ Tick
           \/ UNCHANGED vars
  BY <1>6, QuietInv
<1> QED
  BY <1>1, <1>2, <1>3, <1>4, <1>5, <1>6 DEF Next, Session

\* The inductive invariant: for every table size, priority set, affinity set
\* and delay, a firmware that stays within the documented use keeps it.
THEOREM Inductive ==
    ASSUME Guest = {}
    PROVE  Spec => []IndInv
<1>1. Init => IndInv
  BY InitInv
<1>2. IndInv /\ [Next]_vars => IndInv'
  BY NextInv
<1> QED BY <1>1, <1>2, PTL DEF Spec

\* Every variable of the scheduler keeps its type (sched_register_task never
\* runs past the table, current_task always names a slot).
THEOREM TypeCorrect ==
    ASSUME Guest = {}
    PROVE  Spec => []TypeOK
<1>1. IndInv => TypeOK
  BY DEF IndInv
<1> QED BY <1>1, Inductive, PTL

\* The scheduler's view is exact: RUNNING means current on exactly one core
\* (sched_switch, sched_start, check_preempt_core, the startup stub).
THEOREM RunningExact ==
    ASSUME Guest = {}
    PROVE  Spec => []RunningIsCurrent
<1>1. IndInv => RunningIsCurrent
  <2> SUFFICES ASSUME IndInv PROVE RunningIsCurrent
    OBVIOUS
  <2>1. \A i \in Tasks : i # None
    BY DEF Tasks, None
  <2> QED
    BY <2>1 DEF IndInv, SchedInv, CurrentOK, RunningHasCore, Apart,
                RunningIsCurrent
<1> QED BY <1>1, Inductive, PTL

\* No task is resumed from another's registers (sched_save_context and
\* sched_restore_context).
THEOREM ContextsOwn ==
    ASSUME Guest = {}
    PROVE  Spec => []ContextIsOwn
<1>1. IndInv => ContextIsOwn
  BY DEF IndInv, SchedInv, CurrentOK, SavedIsOwn, ContextIsOwn
<1> QED BY <1>1, Inductive, PTL

\* Pinned tasks stay on their core (core_affinity).
THEOREM AffinitySafe ==
    ASSUME Guest = {}
    PROVE  Spec => []AffinityKept
<1>1. IndInv => AffinityKept
  BY DEF IndInv, SchedInv, CurrentOK, AffinityKept
<1> QED BY <1>1, Inductive, PTL
-----------------------------------------------------------------------------
\* A registered task has a priority the guest gave it, the idle tasks the lowest.
Ranked ==
    \A i \in 1 .. task_count :
       IF attr[i].is_idle THEN attr[i].prio = 0 ELSE attr[i].prio \in Prios

\* Only registration and the installation of idle tasks write task_count and attr.
LEMMA RankedKept ==
    ASSUME IndInv, Ranked, [Next]_vars
    PROVE  Ranked'
<1>1. /\ task_count \in 0 .. MaxTasks /\ attr \in [Tasks -> Attrs]
      /\ MaxTasks \in Nat
  BY SchedAssumption DEF IndInv, TypeOK, SchedTypeOK
<1>2. CASE UNCHANGED <<task_count, attr>>
  BY <1>2 DEF Ranked
<1>3. CASE InstallIdle /\ CanInstallIdle
  <2>1. /\ task_count + 1 \in Tasks /\ task_count + 2 \in Tasks
        /\ task_count' = task_count + 2
    BY <1>1, <1>3 DEF InstallIdle, CanInstallIdle, Tasks
  <2>2. /\ attr'[task_count + 1] = IdleAttr(0)
        /\ attr'[task_count + 2] = IdleAttr(1)
        /\ \A i \in 1 .. task_count : attr'[i] = attr[i]
    BY <1>1, <1>3, <2>1 DEF InstallIdle, Tasks
  <2>3. \A i \in 1 .. task_count' :
           i \in 1 .. task_count \/ i = task_count + 1 \/ i = task_count + 2
    BY <1>1, <2>1
  <2> QED
    BY <2>1, <2>2, <2>3 DEF Ranked, IdleAttr
<1>4. CASE InstallHalfIdle /\ task_count < MaxTasks
  <2>1. task_count + 1 \in Tasks /\ task_count' = task_count + 1
    BY <1>1, <1>4 DEF InstallHalfIdle, Tasks
  <2>2. /\ attr'[task_count + 1] = IdleAttr(0)
        /\ \A i \in 1 .. task_count : attr'[i] = attr[i]
    BY <1>1, <1>4, <2>1 DEF InstallHalfIdle, Tasks
  <2>3. \A i \in 1 .. task_count' : i \in 1 .. task_count \/ i = task_count + 1
    BY <1>1, <2>1
  <2> QED
    BY <2>1, <2>2, <2>3 DEF Ranked, IdleAttr
<1>5. ASSUME NEW p \in Prios, NEW a \in Affinities, Register(p, a)
      PROVE  Ranked'
  <2> DEFINE r == [prio |-> p, affinity |-> a, is_idle |-> FALSE]
  <2>1. /\ task_count + 1 \in Tasks /\ task_count' = task_count + 1
        /\ attr' = [attr EXCEPT ![task_count + 1] = r]
    BY <1>1, <1>5 DEF Register, Tasks
  <2>2. /\ attr'[task_count + 1] = r
        /\ \A i \in 1 .. task_count : attr'[i] = attr[i]
    BY <1>1, <2>1 DEF Tasks
  <2>3. \A i \in 1 .. task_count' : i \in 1 .. task_count \/ i = task_count + 1
    BY <1>1, <2>1
  <2> QED
    BY <2>1, <2>2, <2>3 DEF Ranked
<1>6. ASSUME NEW c, NEW cur, NEW T, AdoptNext(c, cur, T) PROVE Ranked'
  BY <1>2, <1>3, <1>6 DEF AdoptNext, tableVars
<1>7. ASSUME NEW c, NEW T, NothingToRun(c, T) PROVE Ranked'
  BY <1>2, <1>4, <1>7 DEF NothingToRun, tableVars
<1>8. ASSUME NEW c, NEW T, SchedSwitch(c, T) PROVE Ranked'
  BY <1>2, <1>6, <1>7, <1>8 DEF SchedSwitch, tableVars
<1>9. ASSUME NEW c \in Cores, TaskCall(c) PROVE Ranked'
  <2>1. CASE \E p \in Prios, a \in Affinities, pinned \in BOOLEAN :
                CreateApp(c, p, a, pinned)
    BY <2>1, <1>2, <1>5 DEF CreateApp, TableFull, schedVars
  <2>2. CASE \E pinned \in BOOLEAN : CreateDriver(c, pinned)
    BY <2>2, <1>2 DEF CreateDriver, schedVars
  <2>3. CASE \/ \E d \in 0 .. MaxDelay : VTaskDelay(c, d)
             \/ VPortYield(c) \/ VTaskDeleteSelf(c) \/ VTaskSuspendSelf(c)
    BY <2>3, <1>8 DEF VTaskDelay, VPortYield, VTaskDeleteSelf, VTaskSuspendSelf
  <2>4. CASE \/ VTaskSuspendLegacy(c)
             \/ \E j \in Tasks : \/ VTaskDelete(c, j) \/ VTaskSuspend(c, j)
                                 \/ VTaskResume(c, j)
    BY <2>4, <1>2
    DEF VTaskSuspendLegacy, VTaskDelete, VTaskSuspend, VTaskResume, tableVars
  <2> QED BY <1>9, <2>1, <2>2, <2>3, <2>4 DEF TaskCall
<1>10. CASE StartScheduler \/ DeferredTrampoline
  BY <1>10, <1>2, <1>6, <1>7
  DEF StartScheduler, DeferredTrampoline, SchedStart, tableVars
<1>11. CASE StartOtherCore
  BY <1>11, <1>6, <1>7 DEF StartOtherCore
<1>12. CASE Session
  BY <1>12, <1>2, <1>6, <1>7
  DEF Session, StartAppCpu, CheckPreemptAdopt, CheckPreempt, Preempt,
      GuestCallBegin, GuestCallEnd, Tick, SchedTick, tableVars
<1>13. CASE UNCHANGED vars
  BY <1>13, <1>2 DEF vars, schedVars
<1> QED
  BY <1>9, <1>10, <1>11, <1>12, <1>13 DEF Next

\* What core c does when it changes its task: no READY task that it may run is more
\* urgent, and the idle task runs only if there is none.
Urgent(c) ==
    \A j \in 1 .. task_count' :
       (/\ state'[j] = "ready"
        /\ ~attr'[j].is_idle
        /\ attr'[j].affinity \in {NoAffinity, c})
       => /\ ~attr'[current'[c]].is_idle
          /\ attr'[j].prio <= attr'[current'[c]].prio

\* sched_pick_next(): real work by priority, and the idle task, installed or not,
\* only when no real work is READY.
LEMMA AdoptUrgent ==
    ASSUME TypeOK, NEW c \in Cores, NEW T \in TcbSet, AdoptNext(c, current, T)
    PROVE  UrgentStep
<1> DEFINE W == WakeSleepers(T)
<1>1. W \in TcbSet
  BY DEF WakeSleepers, TcbSet, States, Expired
<1>2. /\ task_count \in 0 .. MaxTasks /\ attr \in [Tasks -> Attrs]
      /\ current \in [Cores -> {None} \cup Tasks] /\ MaxTasks \in Nat
  BY SchedAssumption DEF TypeOK, SchedTypeOK
<1> HIDE DEF W
<1>3. SUFFICES ASSUME NEW n, current' = [current EXCEPT ![c] = n] PROVE Urgent(c)
  <2>1. \E n : current' = [current EXCEPT ![c] = n]
    BY DEF AdoptNext, Adopt
  <2>2. PICK n : current' = [current EXCEPT ![c] = n]
    BY <2>1
  <2>3. \A k \in Cores : k # c => current'[k] = current[k]
    BY <2>2, <1>2
  <2> QED BY <2>2, <2>3 DEF UrgentStep, Urgent
<1>4. SUFFICES ASSUME NEW j \in 1 .. task_count', state'[j] = "ready",
                      ~attr'[j].is_idle, attr'[j].affinity \in {NoAffinity, c}
               PROVE  /\ ~attr'[current'[c]].is_idle
                      /\ attr'[j].prio <= attr'[current'[c]].prio
  BY DEF Urgent
<1>5. ASSUME NEW m \in Tasks, Adopt(c, m, current, W), UNCHANGED tableVars
      PROVE  /\ current'[c] = m /\ attr' = attr
             /\ j \in Eligible(c, W)
  <2>1. state' = [W.state EXCEPT ![m] = "running"] /\ current'[c] = m
    BY <1>5, <1>1, <1>2 DEF Adopt, Commit, TcbSet
  <2>2. j \in 1 .. task_count /\ j \in Tasks
    BY <1>5, <1>2 DEF tableVars, Tasks
  <2>3. j # m /\ W.state[j] = "ready"
    BY <2>1, <2>2, <1>4, <1>1 DEF TcbSet
  <2> QED BY <1>5, <1>4, <2>1, <2>2, <2>3 DEF Eligible, tableVars
<1>6. CASE /\ \E m \in Picked(c, current, W) : Adopt(c, m, current, W)
           /\ UNCHANGED tableVars
  <2>1. PICK m \in Picked(c, current, W) : Adopt(c, m, current, W)
    BY <1>6
  <2>2. m \in HighestPrio(Eligible(c, W)) /\ m \in Eligible(c, W) /\ m \in Tasks
    BY <1>2 DEF Picked, FirstAfter, HighestPrio, Eligible, Tasks
  <2>3. current'[c] = m /\ attr' = attr /\ j \in Eligible(c, W)
    BY <1>5, <1>6, <2>1, <2>2
  <2> QED BY <2>2, <2>3 DEF HighestPrio, Eligible
<1>7. CASE /\ Eligible(c, W) = {} /\ Adopt(c, idle_task[c], current, W)
           /\ UNCHANGED tableVars
  <2>1. CASE idle_task[c] \in Tasks
    BY <2>1, <1>5, <1>7
  <2>2. CASE idle_task[c] \notin Tasks
    <3>1. state' = W.state
      BY <2>2, <1>7, <1>1 DEF Adopt, Commit, TcbSet
    <3>2. j \in 1 .. task_count
      BY <1>7 DEF tableVars
    <3> QED BY <1>4, <1>7, <3>1, <3>2 DEF Eligible, tableVars
  <2> QED BY <2>1, <2>2
<1>8. CASE /\ Eligible(c, W) = {} /\ CanInstallIdle /\ InstallIdle
           /\ Adopt(c, task_count + 1 + c, current,
                    Fresh(task_count + 1, Fresh(task_count + 2, W)))
  <2> DEFINE G == Fresh(task_count + 2, W)
             F == Fresh(task_count + 1, G)
  <2>1. /\ task_count + 1 \in Tasks /\ task_count + 2 \in Tasks
        /\ task_count + 1 + c \in {task_count + 1, task_count + 2}
        /\ task_count' = task_count + 2
    BY <1>2, <1>8 DEF CanInstallIdle, InstallIdle, Tasks, Cores
  <2>2. /\ G \in TcbSet
        /\ \A i \in Tasks : i # task_count + 2 => G.state[i] = W.state[i]
    BY <1>1, <2>1 DEF Fresh, TcbSet, States, WaitKinds
  <2> HIDE DEF G
  <2>3. /\ F \in TcbSet
        /\ \A i \in Tasks : i # task_count + 1 => F.state[i] = G.state[i]
    BY <2>1, <2>2 DEF Fresh, TcbSet, States, WaitKinds
  <2> HIDE DEF F
  <2>4. state' = [F.state EXCEPT ![task_count + 1 + c] = "running"]
    BY <1>8 DEF F, G, Adopt, Commit
  <2>5. attr'[task_count + 1].is_idle /\ attr'[task_count + 2].is_idle
    BY <1>2, <1>8, <2>1 DEF InstallIdle, IdleAttr, Tasks
  <2>6. j \in Tasks /\ j \notin {task_count + 1, task_count + 2}
    BY <1>2, <1>4, <2>1, <2>5 DEF Tasks
  <2>7. j \in 1 .. task_count /\ attr'[j] = attr[j]
    BY <1>2, <1>8, <2>1, <2>6 DEF InstallIdle, Tasks
  <2>8. W.state[j] = "ready"
    BY <1>4, <2>1, <2>2, <2>3, <2>4, <2>6 DEF TcbSet
  <2> QED BY <1>4, <1>8, <2>7, <2>8 DEF Eligible
<1> QED
  BY <1>6, <1>7, <1>8 DEF AdoptNext, W

\* check_preempt_core(): the successor is of higher priority, or, when the slice of
\* a task is over, of the same; an idle task cannot be its equal.
LEMMA PreemptUrgent ==
    ASSUME IndInv, Ranked, 0 \notin Prios, NEW c \in Cores, CheckPreempt(c)
    PROVE  UrgentStep
<1> DEFINE W == WakeSleepers(Tcbs)
           me == current[c]
           G == GiveWay(c, SaveContext(c, W))
<1>1. W \in TcbSet
  <2>1. Tcbs \in TcbSet
    BY TcbsTyped DEF IndInv
  <2> QED BY <2>1 DEF WakeSleepers, TcbSet, States, Expired
<1>2. /\ task_count \in 0 .. MaxTasks /\ attr \in [Tasks -> Attrs]
      /\ current \in [Cores -> {None} \cup Tasks] /\ MaxTasks \in Nat
      /\ Prios \subseteq Nat
  BY SchedAssumption DEF IndInv, TypeOK, SchedTypeOK
<1>3. /\ me \in Tasks /\ me <= task_count /\ me \in 1 .. task_count
      /\ UNCHANGED tableVars
  BY <1>2 DEF IndInv, SchedInv, CurrentOK, CheckPreempt, Preempt, Tasks
<1> HIDE DEF W
<1>4. CASE UNCHANGED coreVars
  BY <1>4 DEF UrgentStep, coreVars
<1>5. CASE \E n \in Successors(c, W) : Adopt(c, n, current, G)
  <2>1. PICK n \in Successors(c, W) : Adopt(c, n, current, G)
    BY <1>5
  <2>2. /\ G.state \in [Tasks -> States]
        /\ \A i \in Tasks : i # me => G.state[i] = W.state[i]
    BY <1>1, <1>3 DEF GiveWay, SaveContext, Enter, TcbSet, States
  <2> HIDE DEF G
  <2>3. /\ state' = [G.state EXCEPT ![n] = "running"]
        /\ current' = [current EXCEPT ![c] = n]
    BY <2>1 DEF Adopt, Commit
  <2>4. /\ n \in 1 .. task_count /\ n \in Tasks
        /\ ~attr[n].is_idle
        /\ \A j \in Eligible(c, W) \ {me} : attr[j].prio <= attr[n].prio
        /\ ~attr[me].is_idle => attr[me].prio <= attr[n].prio
    <3> DEFINE best == {i \in Rivals(c, W) : attr[i].prio > CurPrio(c)}
               tie  == {i \in Rivals(c, W) : attr[i].prio = CurPrio(c)}
    <3>1. \A i \in 1 .. task_count : i \in Tasks /\ attr[i].prio \in Nat
      <4>1. \A a \in Attrs : a.prio \in Prios \cup {0}
        BY DEF Attrs
      <4>2. \A i \in 1 .. task_count : i \in Tasks
        BY <1>2 DEF Tasks
      <4>3. \A i \in 1 .. task_count : attr[i].prio \in Prios \cup {0}
        BY <1>2, <4>1, <4>2
      <4>4. Prios \cup {0} \subseteq Nat
        BY <1>2
      <4> QED BY <4>2, <4>3, <4>4
    <3>2. \A i \in Rivals(c, W) :
             /\ i \in 1 .. task_count /\ ~attr[i].is_idle
             /\ \A j \in Eligible(c, W) \ {me} : attr[j].prio <= attr[i].prio
      BY DEF Rivals, HighestPrio, Eligible
    <3>3. ~attr[me].is_idle => CurPrio(c) = attr[me].prio
      BY DEF CurPrio
    <3>4. CASE n \in best
      BY <1>3, <3>1, <3>2, <3>3, <3>4
    <3>5. CASE tie # {} /\ n \in Equals(c, W)
      <4>1. PICK i \in tie : TRUE
        BY <3>5
      <4>2. ~attr[me].is_idle
        BY <4>1, <3>1, <3>2 DEF CurPrio
      <4>3. attr[me].prio \in Prios /\ attr[me].prio # 0
        BY <1>3, <4>2 DEF Ranked
      <4>4. /\ n \in 1 .. task_count /\ attr[n].prio = attr[me].prio
            /\ attr[i].prio = attr[me].prio
        BY <3>3, <3>5, <4>1, <4>2 DEF Equals
      <4>5. ~attr[n].is_idle
        BY <4>3, <4>4 DEF Ranked
      <4> QED BY <3>1, <3>2, <1>3, <4>1, <4>4, <4>5
    <3>6. n \in best \/ (tie # {} /\ n \in Equals(c, W))
      BY <2>1 DEF Successors, FirstAfter
    <3> QED BY <3>4, <3>5, <3>6
  <2>5. ASSUME NEW j \in 1 .. task_count', state'[j] = "ready",
               ~attr'[j].is_idle, attr'[j].affinity \in {NoAffinity, c}
        PROVE  /\ ~attr'[current'[c]].is_idle
               /\ attr'[j].prio <= attr'[current'[c]].prio
    <3>1. current'[c] = n /\ attr' = attr /\ j \in 1 .. task_count /\ j \in Tasks
      BY <1>2, <1>3, <2>3, <2>5 DEF tableVars, Tasks
    <3>2. CASE j = me
      BY <3>1, <3>2, <2>4, <2>5
    <3>3. CASE j # me
      <4>1. W.state[j] = "ready"
        BY <2>2, <2>3, <2>4, <2>5, <3>1, <3>3
      <4>2. j \in Eligible(c, W) \ {me}
        BY <2>5, <3>1, <3>3, <4>1 DEF Eligible
      <4> QED BY <2>4, <3>1, <4>2
    <3> QED BY <3>2, <3>3
  <2>6. \A k \in Cores : k # c => current'[k] = current[k]
    BY <1>2, <2>3
  <2> QED BY <2>5, <2>6 DEF UrgentStep
<1> QED
  BY <1>4, <1>5 DEF CheckPreempt, Preempt, W

\* Every other step leaves the cores' tasks alone, blocks its caller through the
\* dispatcher, or belongs to a time before the scheduler runs.
LEMMA NextUrgent ==
    ASSUME Guest = {}, 0 \notin Prios, IndInv, Ranked, [Next]_vars
    PROVE  UrgentStep
<1>1. CASE UNCHANGED current
  BY <1>1 DEF UrgentStep
<1>2. CASE ~scheduler_started
  BY <1>2 DEF UrgentStep
<1>3. TypeOK /\ Tcbs \in TcbSet
  BY TcbsTyped DEF IndInv
<1>4. ASSUME NEW c \in Cores, NEW T \in TcbSet, SchedSwitch(c, T)
      PROVE  UrgentStep
  <2>1. CASE AdoptNext(c, current, T)
    BY <1>3, <2>1, AdoptUrgent
  <2>2. CASE Park(c)
    <3>1. current' = [current EXCEPT ![c] = None]
      BY <2>2 DEF Park
    <3>2. \A k \in Cores : current'[k] \in {None, current[k]}
      BY <1>3, <3>1 DEF TypeOK, SchedTypeOK
    <3> QED BY <3>2 DEF UrgentStep
  <2> QED BY <1>1, <1>4, <2>1, <2>2 DEF SchedSwitch, coreVars
<1>5. ASSUME NEW c \in Cores,
             \/ \E d \in 0 .. MaxDelay : VTaskDelay(c, d)
             \/ VPortYield(c) \/ VTaskDeleteSelf(c) \/ VTaskSuspendSelf(c)
      PROVE  UrgentStep
  <2> DEFINE S == SaveContext(c, Tcbs)
  <2>1. current[c] # None
    BY <1>5
    DEF VTaskDelay, VPortYield, VTaskDeleteSelf, VTaskSuspendSelf, Scheduled
  <2>2. \A s \in States \ {"running"} :
           Enter(c, s, Tcbs) \in TcbSet /\ Enter(c, s, S) \in TcbSet
    BY <2>1, EnterPrepared DEF Prepared
  <2> HIDE DEF S
  <2>3. ASSUME NEW d \in 0 .. MaxDelay, VTaskDelay(c, d) PROVE UrgentStep
    <3> DEFINE E == Enter(c, "sleeping", S)
    <3>1. E \in TcbSet
      BY <2>2 DEF States
    <3> HIDE DEF E
    <3>2. [E EXCEPT !.wake = [E.wake EXCEPT ![current[c]] = d]] \in TcbSet
      BY <3>1 DEF TcbSet
    <3>3. SchedSwitch(c, [E EXCEPT !.wake = [E.wake EXCEPT ![current[c]] = d]])
      BY <2>3 DEF VTaskDelay, E, S
    <3> QED BY <1>4, <3>2, <3>3
  <2>4. CASE VPortYield(c)
    BY <1>4, <2>2, <2>4 DEF VPortYield, States, S
  <2>5. CASE VTaskDeleteSelf(c)
    BY <1>4, <2>2, <2>5 DEF VTaskDeleteSelf, States
  <2>6. CASE VTaskSuspendSelf(c)
    BY <1>4, <2>2, <2>6 DEF VTaskSuspendSelf, States, S
  <2> QED BY <1>5, <2>3, <2>4, <2>5, <2>6
<1>6. ASSUME NEW c \in Cores, TaskCall(c) PROVE UrgentStep
  <2>1. CASE \E p \in Prios, a \in Affinities, pinned \in BOOLEAN :
                CreateApp(c, p, a, pinned)
    BY <1>1, <1>2, <2>1
    DEF CreateApp, Register, Promotes, TableFull, schedVars
  <2>2. CASE \E pinned \in BOOLEAN : CreateDriver(c, pinned)
    BY <1>2, <2>2 DEF CreateDriver
  <2>3. CASE \/ VTaskSuspendLegacy(c)
             \/ \E j \in Tasks : \/ VTaskDelete(c, j) \/ VTaskSuspend(c, j)
                                 \/ VTaskResume(c, j)
    BY <1>1, <2>3
    DEF VTaskSuspendLegacy, VTaskDelete, VTaskSuspend, VTaskResume, coreVars
  <2> QED BY <1>5, <1>6, <2>1, <2>2, <2>3 DEF TaskCall
<1>7. CASE StartScheduler \/ DeferredTrampoline
  BY <1>2, <1>7 DEF StartScheduler, DeferredTrampoline
<1>8. CASE StartOtherCore
  <2>1. 1 \in Cores
    BY DEF Cores
  <2> QED BY <1>1, <1>3, <1>8, <2>1, AdoptUrgent DEF StartOtherCore
<1>9. ASSUME NEW c \in Cores, CheckPreemptAdopt(c) PROVE UrgentStep
  BY <1>1, <1>3, <1>9, AdoptUrgent DEF CheckPreemptAdopt, coreVars
<1>10. ASSUME NEW c \in Cores, CheckPreempt(c) PROVE UrgentStep
  BY <1>10, PreemptUrgent
<1>11. CASE \/ StartAppCpu \/ Tick \/ UNCHANGED vars
            \/ \E c \in Cores : \/ GuestCallBegin(c)
                                \/ \E completed \in BOOLEAN :
                                      GuestCallEnd(c, completed)
  BY <1>1, <1>11
  DEF StartAppCpu, Tick, SchedTick, GuestCallBegin, GuestCallEnd, vars, schedVars
<1> QED
  BY <1>6, <1>7, <1>8, <1>9, <1>10, <1>11 DEF Next, Session

\* Dispatch by urgency, for any number of tasks and any priorities above that of
\* the idle tasks: a core never changes to a task while a more urgent one could run
\* there, nor to its idle task while there is work (sched_pick_next,
\* freertos_stubs_check_preempt_core).
THEOREM DispatchUrgent ==
    ASSUME Guest = {}, 0 \notin Prios
    PROVE  Spec => DispatchIsUrgent
<1>1. Init => Ranked
  BY DEF Init, SchedInit, Ranked
<1>2. IndInv /\ Ranked /\ [Next]_vars => Ranked'
  BY RankedKept
<1>3. IndInv /\ Ranked /\ [Next]_vars => [UrgentStep]_vars
  BY NextUrgent
<1>4. Spec => []IndInv
  BY Inductive
<1> QED BY <1>1, <1>2, <1>3, <1>4, PTL DEF Spec, DispatchIsUrgent
=============================================================================
