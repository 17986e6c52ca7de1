--------------------------- MODULE FrtNotifyProofs --------------------------
(***************************************************************************)
(* Proofs about FrtNotify: for any number of tasks, slots and gives, every *)
(* give is counted once, nobody sleeps on a slot that holds a count, a     *)
(* take is told the truth, and no deleted task is revived.                 *)
(***************************************************************************)
EXTENDS FrtNotify, FrtSchedProofs

-----------------------------------------------------------------------------
\* The inductive invariant.  A task that waits for a notification is an application
\* task that is blocked, or was deleted while it was.
WaitersBlocked ==
    \A i \in Tasks : Waiting(i) =>
       i \in AppTasks /\ state[i] \in {"notify", "sleeping", "unused"}

\* The scheduler's part as a whole.
SchedInv == SchedTypeOK /\ Settled /\ CurrentRuns /\ WaitersBlocked

\* The call of a task that waits stands at 0, the answer of a time-out, and there is
\* nothing in the slot it waits on.
Unanswered ==
    \A i \in Tasks : Waiting(i) => ret[i] = 0 /\ notify_value[i][wait_index[i]] = 0

\* What was taken and what is there was given; all of it until the count saturates.
Balanced ==
    \A i \in Tasks, s \in Slots :
       /\ taken[i][s] + notify_value[i][s] <= given[i][s]
       /\ given[i][s] <= MaxNotify => given[i][s] = taken[i][s] + notify_value[i][s]

NInv == TypeOK /\ SchedInv /\ Unanswered /\ Balanced

\* No task begins to wait.
Eased == \A i \in Tasks : Waiting(i)' => Waiting(i)

\* What is proved of every step.
GoodStep == NInv' /\ AnswerStep /\ DeletedStep

-----------------------------------------------------------------------------
\* Application tasks have a slot of the task table.
LEMMA AppIsTask == AppTasks \subseteq Tasks /\ MaxTasks \in Nat
  BY SchedAssumption DEF AppTasks, Tasks

\* Whatever the scheduler moves, its invariant holds, no wait begins and no task is
\* revived.
LEMMA MovesStep ==
    ASSUME SchedInv, SchedTypeOK', Settled', CurrentRuns', \A i \in Tasks : Moves(i)
    PROVE  SchedInv' /\ Eased /\ DeletedStep
<1>1. \A i \in Tasks : Waiting(i)' => Waiting(i)
  BY DEF Moves, Waiting
<1>2. WaitersBlocked'
  <2> SUFFICES ASSUME NEW i \in Tasks, Waiting(i)'
               PROVE  i \in AppTasks /\ state'[i] \in {"notify", "sleeping", "unused"}
    BY DEF WaitersBlocked
  <2>1. Moves(i) /\ Waiting(i)
    BY <1>1
  <2> QED BY <2>1 DEF SchedInv, WaitersBlocked, Moves, Waiting
<1>3. DeletedStep
  BY AppIsTask DEF DeletedStep, Moves
<1> QED BY <1>1, <1>2, <1>3 DEF SchedInv, Eased

\* A current application task is not waiting.
LEMMA CallerRuns ==
    ASSUME SchedInv, NEW c \in Cores, current[c] \in AppTasks
    PROVE  state[current[c]] = "running" /\ ~Waiting(current[c])
  BY AppIsTask DEF SchedInv, CurrentRuns, WaitersBlocked

\* The TCB of an application task is edited so that no wait begins.
LEMMA EditStep ==
    ASSUME SchedInv, NEW j \in AppTasks, NEW st \in States, NEW w \in SUBSET waits[j],
           Edited(j, st, w),
           UNCHANGED <<tableVars, current, exec, slice, scheduler_started, guest_call>>,
           running' \in [Cores -> BOOLEAN], halted' \in [Cores -> BOOLEAN],
           st # "running" => \A c \in Cores : current[c] # j,
           "notify" \in w => st = "unused"
    PROVE  /\ SchedInv'
           /\ state' = [state EXCEPT ![j] = st]
           /\ waits' = [waits EXCEPT ![j] = w]
<1>1. /\ SchedTypeOK /\ Settled /\ CurrentRuns /\ WaitersBlocked /\ j \in Tasks
      /\ waits \in [Tasks -> SUBSET WaitKinds] /\ state \in [Tasks -> States]
  BY AppIsTask DEF SchedInv, SchedTypeOK
<1>2. w \in SUBSET WaitKinds
  BY <1>1
<1>3. /\ SchedTypeOK' /\ Settled' /\ CurrentRuns'
      /\ state' = [state EXCEPT ![j] = st]
      /\ waits' = [waits EXCEPT ![j] = w]
  BY <1>1, <1>2, EditEffect
<1>4. \A i \in Tasks : /\ state'[i] = IF i = j THEN st ELSE state[i]
                       /\ waits'[i] = IF i = j THEN w ELSE waits[i]
  BY <1>1, <1>3
<1>5. WaitersBlocked'
  BY <1>1, <1>4 DEF WaitersBlocked, Waiting
<1> QED BY <1>3, <1>4, <1>5 DEF SchedInv

-----------------------------------------------------------------------------
\* One cell of a table of counts is written.
LEMMA CellWritten ==
    ASSUME NEW V, NEW f \in [Tasks -> [Slots -> V]], NEW j \in Tasks, NEW s \in Slots,
           NEW v
    PROVE  /\ \A i \in Tasks, t \in Slots :
                [f EXCEPT ![j][s] = v][i][t] = IF i = j /\ t = s THEN v ELSE f[i][t]
           /\ \A W : (V \subseteq W /\ v \in W) =>
                [f EXCEPT ![j][s] = v] \in [Tasks -> [Slots -> W]]
  OBVIOUS

\* A count that is there reaches its saturation point no earlier than the gives do.
LEMMA Saturates ==
    ASSUME NEW v \in Counts, MaxNotify \in Nat \ {0}
    PROVE  /\ Increment(v) \in Counts /\ Increment(v) <= v + 1 /\ Increment(v) > 0
           /\ v < MaxNotify => Increment(v) = v + 1
  BY DEF Increment, Counts

\* A take uses up no more than is there.
LEMMA UsesUp ==
    ASSUME NEW v \in Counts, NEW clear \in BOOLEAN, MaxNotify \in Nat \ {0}
    PROVE  Used(v, clear) \in 0 .. v /\ v - Used(v, clear) \in Counts
  BY DEF Used, Counts

\* The invariant from its parts; that the counts of what was taken stay within the
\* gives follows from their balance.
LEMMA Assemble ==
    ASSUME NotifyAssumption, SchedInv', Unanswered', Balanced',
           notify_value' \in [Tasks -> [Slots -> Counts]],
           wait_index' \in [Tasks -> Slots], clear_on_exit' \in [Tasks -> BOOLEAN],
           ret' \in [Tasks -> Counts],
           given' \in [Tasks -> [Slots -> 0 .. MaxGives]],
           taken' \in [Tasks -> [Slots -> Nat]]
    PROVE  NInv'
<1>1. \A i \in Tasks, s \in Slots : taken'[i][s] \in 0 .. MaxGives
  <2> TAKE i \in Tasks, s \in Slots
  <2>1. /\ taken'[i][s] \in Nat /\ notify_value'[i][s] \in Counts
        /\ given'[i][s] \in 0 .. MaxGives
    OBVIOUS
  <2>2. taken'[i][s] + notify_value'[i][s] <= given'[i][s]
    BY DEF Balanced
  <2> QED BY <2>1, <2>2 DEF Counts, NotifyAssumption
<1>2. taken' \in [Tasks -> [Slots -> 0 .. MaxGives]]
  BY <1>1
<1> QED BY <1>2 DEF NInv, TypeOK, SchedInv
-----------------------------------------------------------------------------
\* A step that leaves every notification alone and begins no wait.
LEMMA QuietStep ==
    ASSUME NInv, SchedInv', Eased, DeletedStep, UNCHANGED notifyVars
    PROVE  GoodStep
<1>1. UNCHANGED <<notify_value, wait_index, clear_on_exit, ret, given, taken>>
  BY DEF notifyVars
<1>2. Unanswered' /\ Balanced'
  BY <1>1 DEF NInv, Unanswered, Balanced, Eased, Waiting
<1>3. TypeOK'
  BY <1>1 DEF NInv, TypeOK, SchedInv
<1>4. AnswerStep
  BY <1>1, AppIsTask DEF AnswerStep, NInv, Unanswered
<1> QED BY <1>2, <1>3, <1>4 DEF GoodStep, NInv

\* A give to a task that does not wait on the slot is counted there.
LEMMA GiveKeptStep ==
    ASSUME NotifyAssumption, NInv, NEW c \in Cores, NEW j \in Takers, NEW s \in Slots,
           VTaskNotifyGiveFromISR(c, j, s), GiveKept(j, s)
    PROVE  GoodStep
<1> DEFINE v == notify_value[j][s]
           g == given[j][s] + 1
<1>1. TypeOK /\ SchedInv /\ Unanswered /\ Balanced /\ j \in Tasks
  BY AppIsTask DEF NInv, NotifyAssumption
<1>2. /\ given' = [given EXCEPT ![j][s] = g] /\ given[j][s] < MaxGives
      /\ notify_value' = [notify_value EXCEPT ![j][s] = Increment(v)]
      /\ ~Waiting(j) \/ wait_index[j] # s
      /\ UNCHANGED <<ret, taken, wait_index, clear_on_exit>>
      /\ UNCHANGED schedVars
  BY DEF VTaskNotifyGiveFromISR, GiveKept, taskVars, tableVars, schedVars
<1>3. /\ given[j][s] \in 0 .. MaxGives /\ v \in Counts /\ taken[j][s] \in Nat
      /\ MaxNotify \in Nat \ {0} /\ MaxGives \in Nat
  BY <1>1 DEF TypeOK, NotifyAssumption
<1>4. /\ Increment(v) \in Counts /\ Increment(v) <= v + 1
      /\ v < MaxNotify => Increment(v) = v + 1
  BY <1>3, Saturates
<1>5. g \in 0 .. MaxGives
  BY <1>2, <1>3
<1> HIDE DEF g
<1>6. /\ \A i \in Tasks, t \in Slots :
            /\ given'[i][t] = IF i = j /\ t = s THEN g ELSE given[i][t]
            /\ notify_value'[i][t] =
                 IF i = j /\ t = s THEN Increment(v) ELSE notify_value[i][t]
      /\ given' \in [Tasks -> [Slots -> 0 .. MaxGives]]
      /\ notify_value' \in [Tasks -> [Slots -> Counts]]
  BY <1>1, <1>2, <1>4, <1>5, CellWritten DEF TypeOK
<1>7. SchedInv' /\ waits' = waits /\ state' = state
  BY <1>1, <1>2 DEF schedVars, SchedInv, SchedTypeOK, Settled, CurrentRuns,
                    WaitersBlocked, Waiting
<1>8. Unanswered'
  <2> SUFFICES ASSUME NEW i \in Tasks, Waiting(i)
               PROVE  ret[i] = 0 /\ notify_value'[i][wait_index[i]] = 0
    BY <1>2, <1>7 DEF Unanswered, Waiting
  <2>1. wait_index[i] \in Slots /\ ret[i] = 0 /\ notify_value[i][wait_index[i]] = 0
    BY <1>1 DEF TypeOK, Unanswered
  <2> QED BY <1>2, <1>6, <2>1
<1>9. Balanced'
  <2> SUFFICES ASSUME NEW i \in Tasks, NEW t \in Slots
               PROVE  /\ taken[i][t] + notify_value'[i][t] <= given'[i][t]
                      /\ given'[i][t] <= MaxNotify =>
                            given'[i][t] = taken[i][t] + notify_value'[i][t]
    BY <1>2 DEF Balanced
  <2>1. CASE i = j /\ t = s
    <3>1. /\ taken[j][s] + v <= given[j][s]
          /\ given[j][s] <= MaxNotify => given[j][s] = taken[j][s] + v
      BY <1>1 DEF Balanced
    <3> QED BY <1>3, <1>4, <1>6, <2>1, <3>1 DEF g, Counts
  <2>2. CASE ~(i = j /\ t = s)
    BY <1>1, <1>6, <2>2 DEF Balanced
  <2> QED BY <2>1, <2>2
<1>10. NInv'
  <2>1. /\ taken' \in [Tasks -> [Slots -> Nat]] /\ wait_index' \in [Tasks -> Slots]
        /\ clear_on_exit' \in [Tasks -> BOOLEAN] /\ ret' \in [Tasks -> Counts]
    BY <1>1, <1>2 DEF TypeOK
  <2> QED BY <1>6, <1>7, <1>8, <1>9, <2>1, Assemble
<1> QED BY <1>7, <1>10 DEF GoodStep, AnswerStep, DeletedStep, Waiting

\* A give to a task that waits on the slot completes its take.
LEMMA GiveWakesStep ==
    ASSUME NotifyAssumption, NInv, NEW c \in Cores, NEW j \in Takers, NEW s \in Slots,
           VTaskNotifyGiveFromISR(c, j, s), GiveWakes(j, s)
    PROVE  GoodStep
<1> DEFINE v  == Increment(notify_value[j][s])
           u  == Used(v, clear_on_exit[j])
           g  == given[j][s] + 1
           st == ReleasedState(j)
           w  == waits[j] \ {"notify"}
<1>1. TypeOK /\ SchedInv /\ Unanswered /\ Balanced /\ j \in Tasks /\ j \in AppTasks
  BY AppIsTask DEF NInv, NotifyAssumption
<1>2. /\ given[j][s] \in 0 .. MaxGives /\ taken[j][s] \in Nat
      /\ MaxNotify \in Nat \ {0} /\ MaxGives \in Nat /\ clear_on_exit[j] \in BOOLEAN
  BY <1>1 DEF TypeOK, NotifyAssumption
<1>3. notify_value[j][s] = 0 /\ v = 1 /\ v \in Counts
  <2>1. notify_value[j][s] = 0
    BY <1>1 DEF GiveWakes, Unanswered
  <2> QED BY <1>2, <2>1 DEF Increment, Counts
<1>4. u = 1
  BY <1>3 DEF Used
<1>5. /\ given' = [given EXCEPT ![j][s] = g] /\ given[j][s] < MaxGives
      /\ notify_value' = [notify_value EXCEPT ![j][s] = 0]
      /\ taken' = [taken EXCEPT ![j][s] = taken[j][s] + 1]
      /\ ret' = [ret EXCEPT ![j] = 1]
      /\ UNCHANGED <<wait_index, clear_on_exit>>
      /\ UNCHANGED <<tableVars, current, exec, slice, scheduler_started, guest_call>>
      /\ Edited(j, st, w)
  <2>1. /\ notify_value' = [notify_value EXCEPT ![j][s] = v - u]
        /\ taken' = [taken EXCEPT ![j][s] = taken[j][s] + u]
        /\ ret' = [ret EXCEPT ![j] = v]
    BY DEF GiveWakes
  <2>2. /\ UNCHANGED <<tableVars, current, exec, slice, scheduler_started, guest_call>>
        /\ UNCHANGED <<wait_index, clear_on_exit>>
        /\ given' = [given EXCEPT ![j][s] = g] /\ given[j][s] < MaxGives
    BY DEF VTaskNotifyGiveFromISR
  <2>3. Edited(j, st, w)
    BY DEF GiveWakes, Edited, Tcbs
  <2>4. v - u = 0
    BY <1>3, <1>4
  <2> HIDE DEF v, u, g, st, w
  <2> QED BY <1>3, <1>4, <2>1, <2>2, <2>3, <2>4
<1>6. g \in 0 .. MaxGives /\ taken[j][s] + 1 \in Nat /\ 0 \in Counts
  BY <1>2, <1>5 DEF Counts
<1>7. SchedInv' /\ \A i \in Tasks : /\ state'[i] = IF i = j THEN st ELSE state[i]
                                    /\ waits'[i] = IF i = j THEN w ELSE waits[i]
  <2>1. /\ st \in States /\ w \in SUBSET waits[j] /\ "notify" \notin w
        /\ st # "running" => \A k \in Cores : current[k] # j
    BY DEF ReleasedState, CurrentOn, States
  <2>2. running' \in [Cores -> BOOLEAN] /\ halted' \in [Cores -> BOOLEAN]
    <3>1. /\ running' = [k \in Cores |-> running[k] \/ current[k] = j]
          /\ halted' = [k \in Cores |-> halted[k] /\ current[k] # j]
      BY DEF GiveWakes, Unparked
    <3>2. \A k \in Cores : /\ (running[k] \/ current[k] = j) \in BOOLEAN
                           /\ (halted[k] /\ current[k] # j) \in BOOLEAN
      OBVIOUS
    <3> QED BY <3>1, <3>2
  <2> HIDE DEF st, w
  <2>3. /\ SchedInv' /\ state' = [state EXCEPT ![j] = st]
        /\ waits' = [waits EXCEPT ![j] = w]
    BY <1>1, <1>5, <2>1, <2>2, EditStep
  <2> QED BY <1>1, <2>3 DEF SchedInv, SchedTypeOK
<1> HIDE DEF v, u, g, st
<1>8. /\ \A i \in Tasks, t \in Slots :
            /\ given'[i][t] = IF i = j /\ t = s THEN g ELSE given[i][t]
            /\ taken'[i][t] = IF i = j /\ t = s THEN taken[j][s] + 1 ELSE taken[i][t]
            /\ notify_value'[i][t] = IF i = j /\ t = s THEN 0 ELSE notify_value[i][t]
      /\ given' \in [Tasks -> [Slots -> 0 .. MaxGives]]
      /\ taken' \in [Tasks -> [Slots -> Nat]]
      /\ notify_value' \in [Tasks -> [Slots -> Counts]]
  <2> DEFINE n == taken[j][s] + 1
  <2>1. n \in Nat /\ taken' = [taken EXCEPT ![j][s] = n] /\ 0 .. MaxGives \subseteq Nat
    BY <1>5, <1>6
  <2> HIDE DEF n
  <2>2. \A i \in Tasks, t \in Slots : taken'[i][t] = IF i = j /\ t = s THEN n ELSE taken[i][t]
    BY <1>1, <2>1, CellWritten DEF TypeOK
  <2>3. taken' \in [Tasks -> [Slots -> Nat]]
    BY <1>1, <2>1, CellWritten DEF TypeOK
  <2> QED BY <1>1, <1>5, <1>6, <2>2, <2>3, CellWritten DEF TypeOK, n
<1>9. /\ ret' \in [Tasks -> Counts]
      /\ \A i \in Tasks : ret'[i] = IF i = j THEN 1 ELSE ret[i]
  BY <1>1, <1>3, <1>5 DEF TypeOK
<1>10. \A i \in Tasks : Waiting(i)' => i # j /\ Waiting(i)
  BY <1>7 DEF Waiting
<1>11. Unanswered'
  <2> SUFFICES ASSUME NEW i \in Tasks, Waiting(i)'
               PROVE  ret'[i] = 0 /\ notify_value'[i][wait_index[i]] = 0
    BY <1>5 DEF Unanswered, Waiting
  <2>1. wait_index[i] \in Slots
    BY <1>1 DEF TypeOK
  <2>2. i # j /\ ret[i] = 0 /\ notify_value[i][wait_index[i]] = 0
    BY <1>1, <1>10 DEF Unanswered
  <2> QED BY <1>8, <1>9, <2>1, <2>2
<1>12. Balanced'
  <2> SUFFICES ASSUME NEW i \in Tasks, NEW t \in Slots
               PROVE  /\ taken'[i][t] + notify_value'[i][t] <= given'[i][t]
                      /\ given'[i][t] <= MaxNotify =>
                            given'[i][t] = taken'[i][t] + notify_value'[i][t]
    BY DEF Balanced
  <2>1. CASE i = j /\ t = s
    <3>1. /\ taken[j][s] <= given[j][s]
          /\ given[j][s] <= MaxNotify => given[j][s] = taken[j][s]
      BY <1>1, <1>2, <1>3 DEF Balanced
    <3> QED BY <1>2, <1>8, <2>1, <3>1 DEF g
  <2>2. CASE ~(i = j /\ t = s)
    BY <1>1, <1>8, <2>2 DEF Balanced
  <2> QED BY <2>1, <2>2
<1>13. NInv'
  <2>1. wait_index' \in [Tasks -> Slots] /\ clear_on_exit' \in [Tasks -> BOOLEAN]
    BY <1>1, <1>5 DEF TypeOK
  <2> QED BY <1>7, <1>8, <1>9, <1>11, <1>12, <2>1, Assemble
<1>14. AnswerStep
  <2>1. given'[j] # given[j]
    <3>1. given'[j][s] = given[j][s] + 1
      BY <1>1, <1>8 DEF g
    <3> QED BY <1>2, <3>1
  <2>2. \A i \in Tasks : i # j => waits'[i] = waits[i]
    BY <1>7
  <2> QED BY <1>1, <1>9, <2>1, <2>2, AppIsTask DEF AnswerStep, Waiting
<1>15. DeletedStep
  <2>1. state[j] # "unused"
    BY DEF VTaskNotifyGiveFromISR, Found
  <2> QED BY <1>7, <2>1, AppIsTask DEF DeletedStep
<1> QED BY <1>13, <1>14, <1>15 DEF GoodStep

\* ulTaskNotifyTake that finds a count, or does not wait for one.
LEMMA TakeReturnsStep ==
    ASSUME NotifyAssumption, NInv, NEW c \in Cores, NEW s \in Slots,
           NEW clear \in BOOLEAN, NEW timeout \in Timeouts \cup {0},
           current[c] \in AppTasks, TakeReturns(c, s, clear, timeout)
    PROVE  GoodStep
<1> DEFINE me == current[c]
           v  == notify_value[me][s]
           u  == Used(v, clear)
           r  == v - u
           n  == taken[me][s] + u
<1>1. TypeOK /\ SchedInv /\ Unanswered /\ Balanced /\ me \in Tasks /\ ~Waiting(me)
  BY AppIsTask, CallerRuns DEF NInv
<1>2. /\ v \in Counts /\ taken[me][s] \in 0 .. MaxGives /\ given[me][s] \in 0 .. MaxGives
      /\ MaxNotify \in Nat \ {0} /\ MaxGives \in Nat
  BY <1>1 DEF TypeOK, NotifyAssumption
<1>3. u \in 0 .. v /\ r \in Counts
  BY <1>2, UsesUp
<1>4. n \in Nat /\ n + r = taken[me][s] + v
  BY <1>2, <1>3 DEF Counts
<1>5. /\ notify_value' = [notify_value EXCEPT ![me][s] = r]
      /\ taken' = [taken EXCEPT ![me][s] = n]
      /\ ret' = [ret EXCEPT ![me] = v]
      /\ UNCHANGED <<wait_index, clear_on_exit, given>> /\ UNCHANGED schedVars
  BY DEF TakeReturns, NoSwitch
<1> HIDE DEF r, n, u
<1>6. /\ \A i \in Tasks, t \in Slots :
            /\ taken'[i][t] = IF i = me /\ t = s THEN n ELSE taken[i][t]
            /\ notify_value'[i][t] = IF i = me /\ t = s THEN r ELSE notify_value[i][t]
      /\ taken' \in [Tasks -> [Slots -> Nat]]
      /\ notify_value' \in [Tasks -> [Slots -> Counts]]
  <2> HIDE DEF me
  <2>1. 0 .. MaxGives \subseteq Nat
    BY <1>2
  <2>2. \A i \in Tasks, t \in Slots :
          /\ taken'[i][t] = IF i = me /\ t = s THEN n ELSE taken[i][t]
          /\ notify_value'[i][t] = IF i = me /\ t = s THEN r ELSE notify_value[i][t]
    BY <1>1, <1>5, CellWritten DEF TypeOK
  <2>3. taken' \in [Tasks -> [Slots -> Nat]]
    BY <1>1, <1>4, <1>5, <2>1, CellWritten DEF TypeOK
  <2>4. notify_value' \in [Tasks -> [Slots -> Counts]]
    BY <1>1, <1>3, <1>5, CellWritten DEF TypeOK
  <2> QED BY <2>2, <2>3, <2>4
<1>7. SchedInv' /\ waits' = waits /\ state' = state
  BY <1>1, <1>5 DEF schedVars, SchedInv, SchedTypeOK, Settled, CurrentRuns,
                    WaitersBlocked, Waiting
<1> HIDE DEF me
<1>8. /\ ret' \in [Tasks -> Counts]
      /\ \A i \in Tasks : i # me => ret'[i] = ret[i]
  BY <1>1, <1>2, <1>5 DEF TypeOK
<1>9. Unanswered'
  <2> SUFFICES ASSUME NEW i \in Tasks, Waiting(i)
               PROVE  ret'[i] = 0 /\ notify_value'[i][wait_index[i]] = 0
    BY <1>5, <1>7 DEF Unanswered, Waiting
  <2>1. /\ i # me /\ ret[i] = 0 /\ notify_value[i][wait_index[i]] = 0
        /\ wait_index[i] \in Slots
    BY <1>1 DEF Unanswered, TypeOK
  <2> QED BY <1>6, <1>8, <2>1
<1>10. Balanced'
  <2> SUFFICES ASSUME NEW i \in Tasks, NEW t \in Slots
               PROVE  /\ taken'[i][t] + notify_value'[i][t] <= given[i][t]
                      /\ given[i][t] <= MaxNotify =>
                            given[i][t] = taken'[i][t] + notify_value'[i][t]
    BY <1>5 DEF Balanced
  <2>1. taken'[i][t] + notify_value'[i][t] = taken[i][t] + notify_value[i][t]
    BY <1>4, <1>6
  <2> QED BY <1>1, <2>1 DEF Balanced
<1>11. NInv'
  <2>1. /\ wait_index' \in [Tasks -> Slots] /\ clear_on_exit' \in [Tasks -> BOOLEAN]
        /\ given' \in [Tasks -> [Slots -> 0 .. MaxGives]]
    BY <1>1, <1>5 DEF TypeOK
  <2> QED BY <1>6, <1>7, <1>8, <1>9, <1>10, <2>1, Assemble
<1> QED BY <1>7, <1>11 DEF GoodStep, AnswerStep, DeletedStep, Waiting

\* ulTaskNotifyTake that waits.
LEMMA TakeBlocksStep ==
    ASSUME NotifyAssumption, NInv, NEW c \in Cores, NEW s \in Slots,
           NEW clear \in BOOLEAN, NEW timeout \in Timeouts \cup {0},
           current[c] \in AppTasks, TakeBlocks(c, s, clear, timeout)
    PROVE  GoodStep
<1> DEFINE me == current[c]
<1>1. /\ TypeOK /\ SchedInv /\ Unanswered /\ Balanced
      /\ me \in Tasks /\ me \in AppTasks /\ state[me] = "running" /\ ~Waiting(me)
  BY AppIsTask, CallerRuns DEF NInv
<1>2. /\ notify_value[me][s] = 0 /\ timeout \in Timeouts
      /\ ret' = [ret EXCEPT ![me] = 0]
      /\ wait_index' = [wait_index EXCEPT ![me] = s]
      /\ clear_on_exit' = [clear_on_exit EXCEPT ![me] = clear]
      /\ UNCHANGED <<notify_value, given, taken>>
      /\ SchedSwitch(c, WaitFor(c, "notify", {"notify"}, timeout, SaveContext(c, Tcbs)))
      /\ UNCHANGED <<scheduler_started, guest_call>>
  BY DEF TakeBlocks
<1>3. /\ SchedTypeOK' /\ Settled' /\ CurrentRuns'
      /\ waits'[me] = waits[me] \cup {"notify"}
      /\ state'[me] \in {"notify", "sleeping"}
      /\ \A i \in Tasks : i # me => Moves(i)
  <2>1. /\ "notify" \in States \ {"ready", "running", "sleeping", "unused"}
        /\ {"notify"} \in SUBSET WaitKinds
    BY DEF States, WaitKinds
  <2> QED BY <1>1, <1>2, <2>1, BlockEffect DEF SchedInv
<1> HIDE DEF me
<1>4. \A i \in Tasks : i # me /\ Waiting(i)' => Waiting(i)
  BY <1>3 DEF Moves, Waiting
<1>5. SchedInv'
  <2>1. WaitersBlocked'
    <3> SUFFICES ASSUME NEW i \in Tasks, Waiting(i)'
                 PROVE  i \in AppTasks /\ state'[i] \in {"notify", "sleeping", "unused"}
      BY DEF WaitersBlocked
    <3>1. CASE i = me
      BY <1>1, <1>3, <3>1
    <3>2. CASE i # me
      <4>1. Moves(i) /\ Waiting(i)
        BY <1>3, <1>4, <3>2
      <4> QED BY <1>1, <4>1 DEF SchedInv, WaitersBlocked, Moves, Waiting
    <3> QED BY <3>1, <3>2
  <2> QED BY <1>3, <2>1 DEF SchedInv
<1>6. 0 \in Counts
  BY DEF NotifyAssumption, Counts
<1>7. /\ ret' \in [Tasks -> Counts] /\ wait_index' \in [Tasks -> Slots]
      /\ clear_on_exit' \in [Tasks -> BOOLEAN]
      /\ \A i \in Tasks : /\ ret'[i] = IF i = me THEN 0 ELSE ret[i]
                          /\ wait_index'[i] = IF i = me THEN s ELSE wait_index[i]
  BY <1>1, <1>2, <1>6 DEF TypeOK
<1>8. Unanswered'
  BY <1>1, <1>2, <1>4, <1>7 DEF Unanswered
<1>9. Balanced'
  BY <1>1, <1>2 DEF Balanced
<1>10. NInv'
  <2>1. /\ notify_value' \in [Tasks -> [Slots -> Counts]]
        /\ given' \in [Tasks -> [Slots -> 0 .. MaxGives]]
        /\ taken' \in [Tasks -> [Slots -> Nat]]
    <3>1. \A i \in Tasks, t \in Slots : taken[i][t] \in Nat
      BY <1>1 DEF TypeOK, NotifyAssumption
    <3> QED BY <1>1, <1>2, <3>1 DEF TypeOK
  <2> QED BY <1>5, <1>7, <1>8, <1>9, <2>1, Assemble
<1>11. AnswerStep
  <2> SUFFICES ASSUME NEW i \in AppTasks, Waiting(i)
               PROVE  ~(ret'[i] > 0) /\ given'[i] = given[i]
    BY DEF AnswerStep
  <2> QED BY <1>1, <1>2, <1>7, AppIsTask DEF Unanswered
<1>12. DeletedStep
  BY <1>1, <1>3, AppIsTask DEF DeletedStep, Moves
<1> QED BY <1>10, <1>11, <1>12 DEF GoodStep

\* vTaskSuspend, vTaskResume and vTaskDelete of another task.
LEMMA TaskOpStep ==
    ASSUME NotifyAssumption, NInv, NEW c \in Cores, NEW j \in Takers,
           VTaskSuspend(c, j) \/ VTaskResume(c, j) \/ VTaskDelete(c, j)
    PROVE  GoodStep
<1>1. /\ SchedInv /\ j \in AppTasks /\ j \in Tasks
      /\ state \in [Tasks -> States] /\ waits \in [Tasks -> SUBSET WaitKinds]
      /\ running \in [Cores -> BOOLEAN] /\ halted \in [Cores -> BOOLEAN]
  BY AppIsTask DEF NInv, SchedInv, SchedTypeOK, NotifyAssumption
<1>2. ASSUME NEW st \in States \ {"running"}, NEW w \in SUBSET waits[j],
             Edited(j, st, w),
             UNCHANGED <<tableVars, coreVars, scheduler_started, guest_call, notifyVars>>,
             CurrentOn(j) = {}, "notify" \in w => st = "unused",
             state[j] = "unused" => st = "unused"
      PROVE  GoodStep
  <2>1. /\ UNCHANGED <<tableVars, current, exec, slice, scheduler_started, guest_call>>
        /\ running' \in [Cores -> BOOLEAN] /\ halted' \in [Cores -> BOOLEAN]
        /\ UNCHANGED notifyVars
    BY <1>1, <1>2 DEF coreVars
  <2>2. /\ st \in States /\ \A k \in Cores : current[k] # j
        /\ "notify" \in w => st = "unused"
    BY <1>2 DEF CurrentOn
  <2>3. /\ SchedInv' /\ state' = [state EXCEPT ![j] = st]
        /\ waits' = [waits EXCEPT ![j] = w]
    BY <1>1, <1>2, <2>1, <2>2, EditStep
  <2>4. \A i \in Tasks : /\ state'[i] = IF i = j THEN st ELSE state[i]
                         /\ waits'[i] = IF i = j THEN w ELSE waits[i]
    BY <1>1, <2>3
  <2>5. Eased /\ DeletedStep
    BY <1>2, <2>4, AppIsTask DEF Eased, DeletedStep, Waiting
  <2> QED BY <2>1, <2>3, <2>5, QuietStep
<1>3. CASE VTaskSuspend(c, j)
  <2> DEFINE w == waits[j] \ {"q", "eg", "notify"}
  <2>1. /\ Edited(j, "suspended", w)
        /\ UNCHANGED <<tableVars, coreVars, scheduler_started, guest_call, notifyVars>>
        /\ CurrentOn(j) = {} /\ state[j] # "unused"
    BY <1>3 DEF VTaskSuspend, Other, Found, Edited, Tcbs
  <2>2. w \in SUBSET waits[j] /\ "notify" \notin w /\ "suspended" \in States \ {"running"}
    BY DEF States
  <2> HIDE DEF w
  <2> QED BY <1>2, <2>1, <2>2
<1>4. ASSUME NEW st, Commit([Tcbs EXCEPT !.state[j] = st])
      PROVE  Edited(j, st, waits[j])
  BY <1>1, <1>4, StateEdited DEF SchedInv
<1>5. CASE VTaskResume(c, j)
  <2>1. /\ Commit([Tcbs EXCEPT !.state[j] = "ready"])
        /\ UNCHANGED <<tableVars, coreVars, scheduler_started, guest_call, notifyVars>>
        /\ CurrentOn(j) = {} /\ state[j] = "suspended"
    BY <1>5 DEF VTaskResume, Other
  <2>2. "notify" \notin waits[j] /\ "ready" \in States \ {"running"}
    BY <1>1, <2>1 DEF SchedInv, WaitersBlocked, States, Waiting
  <2>3. Edited(j, "ready", waits[j])
    BY <1>4, <2>1, <2>2
  <2> QED BY <1>2, <2>1, <2>2, <2>3
<1>6. CASE VTaskDelete(c, j)
  <2>1. /\ Commit([Tcbs EXCEPT !.state[j] = "unused"])
        /\ UNCHANGED <<tableVars, coreVars, scheduler_started, guest_call, notifyVars>>
        /\ CurrentOn(j) = {}
    BY <1>6 DEF VTaskDelete, Other
  <2>2. "unused" \in States \ {"running"}
    BY DEF States
  <2>3. Edited(j, "unused", waits[j])
    BY <1>4, <2>1, <2>2
  <2> QED BY <1>2, <2>1, <2>2, <2>3
<1> QED BY <1>3, <1>5, <1>6

\* A batch boundary: preemption on one core, or the passing of a tick.
LEMMA BoundaryStep ==
    ASSUME NInv, (\E c \in Cores : CheckPreempt(c)) \/ Tick
    PROVE  GoodStep
<1>1. SchedInv /\ SchedTypeOK /\ Settled /\ CurrentRuns
  BY DEF NInv, SchedInv
<1>2. ASSUME NEW c \in Cores, CheckPreempt(c)
      PROVE  /\ SchedTypeOK' /\ Settled' /\ CurrentRuns' /\ \A i \in Tasks : Moves(i)
             /\ UNCHANGED notifyVars
  <2>1. Preempt(c) /\ UNCHANGED <<scheduler_started, guest_call>> /\ UNCHANGED notifyVars
    BY <1>2 DEF CheckPreempt
  <2> QED BY <1>1, <2>1, PreemptMoves
<1>3. ASSUME Tick
      PROVE  /\ SchedTypeOK' /\ Settled' /\ CurrentRuns' /\ \A i \in Tasks : Moves(i)
             /\ UNCHANGED notifyVars
  <2>1. SchedTick /\ UNCHANGED guest_call /\ UNCHANGED notifyVars
    BY <1>3 DEF Tick
  <2> QED BY <1>1, <2>1, TickMoves
<1>4. /\ SchedTypeOK' /\ Settled' /\ CurrentRuns' /\ \A i \in Tasks : Moves(i)
      /\ UNCHANGED notifyVars
  BY <1>2, <1>3
<1>5. SchedInv' /\ Eased /\ DeletedStep
  BY <1>1, <1>4, MovesStep
<1> QED BY <1>4, <1>5, QuietStep

-----------------------------------------------------------------------------
\* The invariant holds before anything is given.
LEMMA NInit == NotifyAssumption /\ Init => NInv
<1> SUFFICES ASSUME NotifyAssumption, Init PROVE NInv
  OBVIOUS
<1> DEFINE A == [i \in Tasks |-> [prio |-> 1, affinity |-> NoAffinity, is_idle |-> FALSE]]
<1>1. \A i \in Tasks : A[i] \in Attrs
  BY DEF Attrs, NoAffinity, NotifyAssumption
<1>2. RunningInit(A) /\ MaxTasks >= 2
  BY DEF Init, NotifyAssumption
<1> HIDE DEF A
<1>3. /\ SchedTypeOK /\ Settled
      /\ \A i \in Tasks : waits[i] = {} /\ state[i] \in {"running", "ready"}
  BY <1>1, <1>2, RunningSettled
<1>4. \A c \in Cores : current[c] \notin AppTasks
  <2>1. current = [c \in Cores |-> MaxTasks - 1 + c]
    BY <1>2 DEF RunningInit
  <2> QED BY <2>1, SchedAssumption DEF Cores, AppTasks
<1>5. SchedInv
  BY <1>3, <1>4 DEF SchedInv, CurrentRuns, WaitersBlocked, Waiting
<1>6. (CHOOSE s \in Slots : TRUE) \in Slots
  BY DEF NotifyAssumption
<1>7. TypeOK
  <2>1. 0 \in Counts /\ 0 \in 0 .. MaxGives
    BY DEF Counts, NotifyAssumption
  <2> QED BY <1>3, <1>6, <2>1 DEF Init, TypeOK, AllSlots
<1>8. Unanswered
  BY <1>3 DEF Unanswered, Waiting
<1>9. Balanced
  BY DEF Init, Balanced, AllSlots
<1> QED BY <1>5, <1>7, <1>8, <1>9 DEF NInv

\* Every step keeps the invariant, answers truthfully and revives nobody.
LEMMA NNext ==
    ASSUME NotifyAssumption, NInv, [Next]_vars
    PROVE  NInv' /\ [AnswerStep]_vars /\ [DeletedStep]_vars
<1>1. CASE UNCHANGED vars
  <2>1. UNCHANGED schedVars /\ UNCHANGED notifyVars
    BY <1>1 DEF vars
  <2>2. SchedInv'
    BY <2>1 DEF schedVars, NInv, SchedInv, SchedTypeOK, Settled, CurrentRuns,
                WaitersBlocked, Waiting
  <2>3. Eased /\ DeletedStep
    BY <2>1 DEF schedVars, Eased, DeletedStep, Waiting
  <2>4. GoodStep
    BY <2>1, <2>2, <2>3, QuietStep
  <2> QED BY <2>4 DEF GoodStep
<1>2. ASSUME NEW c \in Cores, NEW j \in Takers, NEW s \in Slots,
             VTaskNotifyGiveFromISR(c, j, s)
      PROVE  GoodStep
  BY <1>2, GiveKeptStep, GiveWakesStep DEF VTaskNotifyGiveFromISR
<1>3. ASSUME NEW c \in Cores, NEW s \in Slots, NEW clear \in BOOLEAN,
             NEW timeout \in Timeouts \cup {0}, UlTaskNotifyTake(c, s, clear, timeout)
      PROVE  GoodStep
  BY <1>3, TakeReturnsStep, TakeBlocksStep DEF UlTaskNotifyTake, AppCall
<1>4. ASSUME NEW c \in Cores, NEW j \in Takers,
             VTaskSuspend(c, j) \/ VTaskResume(c, j) \/ VTaskDelete(c, j)
      PROVE  GoodStep
  BY <1>4, TaskOpStep
<1>5. CASE (\E c \in Cores : CheckPreempt(c)) \/ Tick
  <2>1. GoodStep
    BY <1>5, BoundaryStep
  <2> QED BY <2>1 DEF GoodStep
<1>6. CASE Next
  <2>1. GoodStep \/ (\E c \in Cores : CheckPreempt(c)) \/ Tick
    BY <1>2, <1>3, <1>4, <1>6 DEF Next
  <2> QED BY <1>5, <2>1 DEF GoodStep
<1> QED BY <1>1, <1>6

-----------------------------------------------------------------------------
\* For any number of tasks, slots and gives, and any saturation point, the invariant
\* holds.
THEOREM NotifyInvariant == NotifyAssumption => (Spec => []NInv)
<1> SUFFICES ASSUME NotifyAssumption PROVE Spec => []NInv
  OBVIOUS
<1>1. Init => NInv
  BY NInit
<1>2. NInv /\ [Next]_vars => NInv'
  BY NNext
<1> QED BY <1>1, <1>2, PTL DEF Spec

\* Until the count saturates, what was given is what was taken and what is left: no
\* give is lost or reported twice, whether it is counted or handed to a sleeping
\* taker (vTaskNotifyGiveFromISR, ulTaskNotifyTake).
THEOREM EachGiveOnce == NotifyAssumption => (Spec => []GivesAccounted)
<1> SUFFICES ASSUME NotifyAssumption PROVE Spec => []GivesAccounted
  OBVIOUS
<1>1. NInv => GivesAccounted
  BY AppIsTask DEF NInv, Balanced, GivesAccounted
<1> QED BY <1>1, NotifyInvariant, PTL

\* Nobody sleeps on a slot with a count, whatever arrives on other slots, before the
\* sleep, or around a time-out, a suspension or a deletion (notify_wait_index).
THEOREM NotificationsNotMissed == NotifyAssumption => (Spec => []NoNotifyMissed)
<1> SUFFICES ASSUME NotifyAssumption PROVE Spec => []NoNotifyMissed
  OBVIOUS
<1>1. NInv => NoNotifyMissed
  BY AppIsTask DEF NInv, Unanswered, NoNotifyMissed
<1> QED BY <1>1, NotifyInvariant, PTL

\* A wait that a notification ends is answered with a count, one that its time-out
\* ends with 0 (the return register of the sleeping call, which the give overwrites).
THEOREM TakesTruthful == NotifyAssumption => (Spec => AnswerTellsOutcome)
<1> SUFFICES ASSUME NotifyAssumption PROVE Spec => AnswerTellsOutcome
  OBVIOUS
<1>1. NInv /\ [Next]_vars => [AnswerStep]_vars
  BY NNext
<1> QED BY <1>1, NotifyInvariant, PTL DEF Spec, AnswerTellsOutcome

\* A notification never revives a deleted task, not even one that was deleted while
\* it waited for it and still has its wait flag set (find_task, stub_vTaskDelete).
THEOREM DeletedNotRevived == NotifyAssumption => (Spec => DeletedStays)
<1> SUFFICES ASSUME NotifyAssumption PROVE Spec => DeletedStays
  OBVIOUS
<1>1. NInv /\ [Next]_vars => [DeletedStep]_vars
  BY NNext
<1> QED BY <1>1, NotifyInvariant, PTL DEF Spec, DeletedStays
=============================================================================
