--------------------------- MODULE FrtSchedProofs ---------------------------
(***************************************************************************)
(* Lemmas about the operators of FrtSched that the proofs about every      *)
(* service use: what blocking, dispatching, preempting and a tick do to    *)
(* the task table of a system whose scheduler has been running for a while *)
(* (RunningInit), whatever else the service does in the same step.         *)
(***************************************************************************)
EXTENDS FrtSched, WellFoundedInduction, TLAPS

TcbSet == [state : [Tasks -> States], waits : [Tasks -> SUBSET WaitKinds],
           wake : [Tasks -> 0 .. MaxDelay], saved : [Tasks -> {Boot} \cup Tasks]]

\* What RunningInit establishes and no service ever changes: every slot is
\* taken, the idle tasks are installed, and every core has a current task.
Settled ==
    /\ task_count = MaxTasks
    /\ idle_ready = TRUE
    /\ idle_task \in [Cores -> Tasks \ AppTasks]
    /\ current \in [Cores -> Tasks]
    /\ guest_call = [c \in Cores |-> "none"]
    /\ scheduler_started = TRUE

-----------------------------------------------------------------------------
\* A set of naturals has a least element; with it, induction over naturals.
LEMMA LeastNat ==
    ASSUME NEW S \in SUBSET Nat, S # {}
    PROVE  \E m \in S : \A k \in S : m <= k
<1> DEFINE R == OpToRel(<, Nat)
<1>1. IsWellFoundedOn(R, Nat)
  BY NatLessThanWellFounded
<1>2. \A x, y \in Nat : x < y => <<x, y>> \in R
  BY DEF OpToRel
<1> HIDE DEF R
<1>3. PICK m \in S : \A k \in S : ~(<<k, m>> \in R)
  BY <1>1, WFMin
<1>4. m \in Nat /\ \A k \in S : k \in Nat
  OBVIOUS
<1>5. \A k \in S : ~(k < m)
  BY <1>2, <1>3, <1>4
<1>6. \A k \in S : m <= k
  BY <1>4, <1>5
<1> QED BY <1>6

\* The TCBs as they stand are well typed.
LEMMA TcbsTyped == SchedTypeOK => Tcbs \in TcbSet
  BY DEF SchedTypeOK, Tcbs, TcbSet

\* sched_wake_sleepers(): only sleeping tasks change, to READY, and lose every wait.
LEMMA WakeEffect ==
    ASSUME NEW T \in TcbSet
    PROVE  /\ WakeSleepers(T) \in TcbSet
           /\ WakeSleepers(T).wake = T.wake /\ WakeSleepers(T).saved = T.saved
           /\ \A i \in Tasks :
                /\ WakeSleepers(T).state[i] =
                     IF Expired(T, i) THEN "ready" ELSE T.state[i]
                /\ WakeSleepers(T).waits[i] =
                     IF ~Expired(T, i) THEN T.waits[i]
                     ELSE IF "q" \in T.waits[i] THEN {}
                     ELSE T.waits[i] \cap {"sender"}
                /\ Expired(T, i) => T.state[i] = "sleeping"
<1>1. \A i \in Tasks : Expired(T, i) => T.state[i] = "sleeping"
  BY DEF Expired
<1> DEFINE s == [i \in Tasks |-> IF Expired(T, i) THEN "ready" ELSE T.state[i]]
           w == [i \in Tasks |-> IF ~Expired(T, i) THEN T.waits[i]
                                 ELSE IF "q" \in T.waits[i] THEN {}
                                 ELSE T.waits[i] \cap {"sender"}]
<1>2. s \in [Tasks -> States] /\ w \in [Tasks -> SUBSET WaitKinds]
  BY DEF TcbSet, States
<1>3. WakeSleepers(T) = [T EXCEPT !.state = s, !.waits = w]
  BY DEF WakeSleepers
<1> HIDE DEF s, w
<1>4. /\ WakeSleepers(T) \in TcbSet
      /\ WakeSleepers(T).state = s /\ WakeSleepers(T).waits = w
      /\ WakeSleepers(T).wake = T.wake /\ WakeSleepers(T).saved = T.saved
  BY <1>2, <1>3 DEF TcbSet
<1> QED BY <1>1, <1>4 DEF s, w

\* Blocking: only the calling task changes state, wake-up time and flags.
LEMMA WaitEffect ==
    ASSUME SchedTypeOK, Settled, NEW c \in Cores, NEW T \in TcbSet,
           NEW s \in States, NEW flags \in SUBSET WaitKinds, NEW timeout \in Timeouts
    PROVE  LET V  == WaitFor(c, s, flags, timeout, SaveContext(c, T))
               me == current[c]
           IN  /\ V \in TcbSet
               /\ V.waits = [T.waits EXCEPT ![me] = @ \cup flags]
               /\ V.state = [T.state EXCEPT ![me] =
                               IF timeout = Forever THEN s ELSE "sleeping"]
               /\ V.wake = IF timeout = Forever THEN T.wake
                           ELSE [T.wake EXCEPT ![me] = timeout]
<1> DEFINE me == current[c]
           U  == SaveContext(c, T)
           V  == WaitFor(c, s, flags, timeout, U)
<1>1. me \in Tasks
  BY DEF Settled
<1>2. exec[c] \in {Boot} \cup Tasks
  BY DEF SchedTypeOK
<1>3. U \in TcbSet /\ U.state = T.state /\ U.waits = T.waits /\ U.wake = T.wake
  <2>1. CASE InGuestCall(c)
    BY <2>1 DEF SaveContext
  <2>2. CASE ~InGuestCall(c)
    <3> DEFINE sv == [T.saved EXCEPT ![me] = exec[c]]
    <3>1. sv \in [Tasks -> {Boot} \cup Tasks]
      BY <1>1, <1>2 DEF TcbSet
    <3>2. U = [T EXCEPT !.saved = sv]
      BY <2>2 DEF SaveContext
    <3> HIDE DEF sv
    <3> QED BY <3>1, <3>2 DEF TcbSet
  <2> QED BY <2>1, <2>2
<1> HIDE DEF me, U
<1> DEFINE w == [U.waits EXCEPT ![me] = U.waits[me] \cup flags]
           X == [U EXCEPT !.waits = w]
<1>4. w \in [Tasks -> SUBSET WaitKinds]
  BY <1>1, <1>3 DEF TcbSet
<1> HIDE DEF w
<1>5. /\ X \in TcbSet /\ X.waits = w /\ X.state = U.state /\ X.wake = U.wake
  BY <1>3, <1>4 DEF TcbSet
<1>6. CASE timeout = Forever
  <2> DEFINE st == [X.state EXCEPT ![me] = s]
  <2>1. V = [X EXCEPT !.state = st]
    BY <1>6 DEF WaitFor, Enter, me, X, w
  <2> HIDE DEF X
  <2>2. st \in [Tasks -> States]
    BY <1>1, <1>5 DEF TcbSet
  <2> HIDE DEF st
  <2>3. V \in TcbSet /\ V.state = st /\ V.waits = X.waits /\ V.wake = X.wake
    BY <1>5, <2>1, <2>2 DEF TcbSet
  <2> QED BY <1>3, <1>5, <1>6, <2>3 DEF st, w, me, U
<1>7. CASE timeout # Forever
  <2> DEFINE st == [X.state EXCEPT ![me] = "sleeping"]
             wk == [X.wake EXCEPT ![me] = timeout]
  <2>1. V = [X EXCEPT !.state = st, !.wake = wk]
    <3>1. Enter(c, "sleeping", X) = [X EXCEPT !.state = st]
      BY DEF Enter, me
    <3>2. V = [[X EXCEPT !.state = st] EXCEPT !.wake = wk]
      BY <1>7, <3>1 DEF WaitFor, me, X, w
    <3> HIDE DEF X, st, wk
    <3> QED BY <1>5, <3>2 DEF TcbSet
  <2> HIDE DEF X
  <2>2. timeout \in 0 .. MaxDelay
    BY <1>7, SchedAssumption DEF Timeouts
  <2>3. st \in [Tasks -> States] /\ wk \in [Tasks -> 0 .. MaxDelay]
    BY <1>1, <1>5, <2>2 DEF TcbSet, States
  <2>4. wk = [T.wake EXCEPT ![me] = timeout]
    BY <1>3, <1>5
  <2> HIDE DEF st, wk
  <2>5. V \in TcbSet /\ V.state = st /\ V.waits = X.waits /\ V.wake = wk
    BY <1>5, <2>1, <2>3 DEF TcbSet
  <2> QED BY <1>3, <1>5, <1>7, <2>4, <2>5 DEF st, w, me, U
<1> QED BY <1>6, <1>7 DEF V, U, me

\* Adopting task n: it runs, its context is loaded, and it is current on core c.
LEMMA AdoptEffect ==
    ASSUME SchedTypeOK, Settled, NEW c \in Cores, NEW n \in Tasks, NEW T \in TcbSet,
           Adopt(c, n, current, T)
    PROVE  /\ state' = [T.state EXCEPT ![n] = "running"]
           /\ waits' = T.waits /\ wake' = T.wake /\ saved' = T.saved
           /\ current' = [current EXCEPT ![c] = n]
           /\ state' \in [Tasks -> States]
           /\ waits' \in [Tasks -> SUBSET WaitKinds]
           /\ wake' \in [Tasks -> 0 .. MaxDelay]
           /\ saved' \in [Tasks -> {Boot} \cup Tasks]
           /\ current' \in [Cores -> Tasks]
           /\ exec' \in [Cores -> {Boot} \cup Tasks]
           /\ slice' \in [Cores -> BOOLEAN]
<1> DEFINE s == [T.state EXCEPT ![n] = "running"]
<1>1. s \in [Tasks -> States]
  BY DEF TcbSet, States
<1>2. /\ T.waits \in [Tasks -> SUBSET WaitKinds]
      /\ T.wake \in [Tasks -> 0 .. MaxDelay]
      /\ T.saved \in [Tasks -> {Boot} \cup Tasks]
  BY DEF TcbSet
<1>3. /\ state' = s /\ waits' = T.waits /\ wake' = T.wake /\ saved' = T.saved
      /\ current' = [current EXCEPT ![c] = n]
      /\ exec' = [exec EXCEPT ![c] = T.saved[n]]
      /\ slice' = [slice EXCEPT ![c] = FALSE]
  BY DEF Adopt, Commit, TcbSet
<1>4. /\ current' \in [Cores -> Tasks]
      /\ exec' \in [Cores -> {Boot} \cup Tasks]
      /\ slice' \in [Cores -> BOOLEAN]
  BY <1>2, <1>3 DEF SchedTypeOK, Settled
<1> QED BY <1>1, <1>2, <1>3, <1>4

\* The table of a settled system does not change.
LEMMA TableTyped ==
    ASSUME SchedTypeOK, Settled,
           UNCHANGED <<tableVars, scheduler_started, guest_call>>,
           state' \in [Tasks -> States],
           waits' \in [Tasks -> SUBSET WaitKinds],
           wake' \in [Tasks -> 0 .. MaxDelay],
           saved' \in [Tasks -> {Boot} \cup Tasks],
           current' \in [Cores -> Tasks],
           exec' \in [Cores -> {Boot} \cup Tasks],
           slice' \in [Cores -> BOOLEAN],
           running' \in [Cores -> BOOLEAN],
           halted' \in [Cores -> BOOLEAN]
    PROVE  SchedTypeOK' /\ Settled'
<1>1. /\ task_count' = task_count /\ attr' = attr /\ idle_task' = idle_task
      /\ idle_ready' = idle_ready /\ scheduler_started' = scheduler_started
      /\ guest_call' = guest_call
  BY DEF tableVars
<1>2. Settled'
  BY <1>1 DEF Settled
<1>3. current' \in [Cores -> {None} \cup Tasks]
  OBVIOUS
<1> QED BY <1>1, <1>2, <1>3 DEF SchedTypeOK

\* sched_switch() in a settled system: sleepers are woken and one task, READY or
\* the idle task of the core, is adopted; no other task changes.
LEMMA SwitchEffect ==
    ASSUME SchedTypeOK, Settled, NEW c \in Cores, NEW T \in TcbSet,
           SchedSwitch(c, T), UNCHANGED <<scheduler_started, guest_call>>
    PROVE  /\ SchedTypeOK' /\ Settled'
           /\ waits' = WakeSleepers(T).waits
           /\ wake' = T.wake
           /\ UNCHANGED tableVars
           /\ \E n \in Tasks :
                /\ n \in Eligible(c, WakeSleepers(T)) \/ n = idle_task[c]
                /\ state' = [WakeSleepers(T).state EXCEPT ![n] = "running"]
                /\ current' = [current EXCEPT ![c] = n]
<1> DEFINE W == WakeSleepers(T)
<1>1. ~InGuestCall(c)
  BY DEF InGuestCall, Settled
<1>2. /\ AdoptNext(c, current, T) /\ UNCHANGED <<running, halted>>
  BY <1>1 DEF SchedSwitch, NothingToRun, Settled
<1>3. W \in TcbSet /\ W.wake = T.wake
  BY WakeEffect
<1>4. \A n \in Eligible(c, W) : n \in Tasks
  BY SchedAssumption DEF Eligible, Settled, Tasks
<1>5. \E n \in Tasks : /\ n \in Eligible(c, W) \/ n = idle_task[c]
                       /\ Adopt(c, n, current, W)
                       /\ UNCHANGED tableVars
  <2>1. CASE /\ \E n \in Picked(c, current, W) : Adopt(c, n, current, W)
             /\ UNCHANGED tableVars
    <3>1. Picked(c, current, W) \subseteq Eligible(c, W)
      BY DEF Picked, FirstAfter, HighestPrio
    <3> QED BY <1>4, <2>1, <3>1
  <2>2. CASE /\ Adopt(c, idle_task[c], current, W)
             /\ UNCHANGED tableVars
    <3>1. idle_task[c] \in Tasks
      BY DEF Settled
    <3> QED BY <2>2, <3>1
  <2> QED BY <1>2, <2>1, <2>2 DEF AdoptNext, Settled
<1> HIDE DEF W
<1>6. PICK n \in Tasks : /\ n \in Eligible(c, W) \/ n = idle_task[c]
                         /\ Adopt(c, n, current, W)
                         /\ UNCHANGED tableVars
  BY <1>5
<1>7. /\ state' = [W.state EXCEPT ![n] = "running"]
      /\ waits' = W.waits /\ wake' = W.wake
      /\ current' = [current EXCEPT ![c] = n]
      /\ state' \in [Tasks -> States]
      /\ waits' \in [Tasks -> SUBSET WaitKinds]
      /\ wake' \in [Tasks -> 0 .. MaxDelay]
      /\ saved' \in [Tasks -> {Boot} \cup Tasks]
      /\ current' \in [Cores -> Tasks]
      /\ exec' \in [Cores -> {Boot} \cup Tasks]
      /\ slice' \in [Cores -> BOOLEAN]
  BY <1>3, <1>6, AdoptEffect
<1>8. running' \in [Cores -> BOOLEAN] /\ halted' \in [Cores -> BOOLEAN]
  BY <1>2 DEF SchedTypeOK
<1>9. SchedTypeOK' /\ Settled'
  BY <1>6, <1>7, <1>8, TableTyped
<1> QED BY <1>3, <1>6, <1>7, <1>9 DEF W

\* freertos_stubs_check_preempt_core() in a settled system: sleepers are woken;
\* beyond that only a READY task that is adopted, and the running task that gives
\* way to it, change.
LEMMA PreemptEffect ==
    ASSUME SchedTypeOK, Settled, NEW c \in Cores,
           Preempt(c), UNCHANGED <<scheduler_started, guest_call>>
    PROVE  /\ SchedTypeOK' /\ Settled'
           /\ waits' = WakeSleepers(Tcbs).waits
           /\ wake' = wake
           /\ UNCHANGED tableVars
           /\ \/ state' = WakeSleepers(Tcbs).state /\ current' = current
              \/ \E n \in Tasks :
                    /\ WakeSleepers(Tcbs).state[n] = "ready"
                    /\ current' = [current EXCEPT ![c] = n]
                    /\ \A i \in Tasks :
                         state'[i] =
                           IF i = n THEN "running"
                           ELSE IF /\ i = current[c]
                                   /\ WakeSleepers(Tcbs).state[i] = "running"
                           THEN "ready" ELSE WakeSleepers(Tcbs).state[i]
<1> DEFINE W == WakeSleepers(Tcbs)
<1>1. Tcbs \in TcbSet /\ Tcbs.wake = wake
  BY TcbsTyped DEF Tcbs
<1>2. W \in TcbSet /\ W.wake = wake
  BY <1>1, WakeEffect
<1>3. UNCHANGED tableVars
  BY DEF Preempt
<1>4. /\ current[c] \in Tasks /\ exec[c] \in {Boot} \cup Tasks
      /\ running \in [Cores -> BOOLEAN] /\ halted \in [Cores -> BOOLEAN]
  BY DEF Settled, SchedTypeOK
<1>5. CASE Commit(W) /\ UNCHANGED coreVars
  <2> HIDE DEF W
  <2>1. /\ state' = W.state /\ waits' = W.waits /\ wake' = W.wake /\ saved' = W.saved
        /\ current' = current /\ exec' = exec /\ slice' = slice
        /\ running' = running /\ halted' = halted
    BY <1>5 DEF Commit, coreVars
  <2>2. /\ state' \in [Tasks -> States]
        /\ waits' \in [Tasks -> SUBSET WaitKinds]
        /\ wake' \in [Tasks -> 0 .. MaxDelay]
        /\ saved' \in [Tasks -> {Boot} \cup Tasks]
    BY <1>2, <2>1 DEF TcbSet
  <2>3. /\ current' \in [Cores -> Tasks] /\ exec' \in [Cores -> {Boot} \cup Tasks]
        /\ slice' \in [Cores -> BOOLEAN]
        /\ running' \in [Cores -> BOOLEAN] /\ halted' \in [Cores -> BOOLEAN]
    BY <2>1 DEF SchedTypeOK, Settled
  <2>4. SchedTypeOK' /\ Settled'
    BY <1>3, <2>2, <2>3, TableTyped
  <2> QED BY <1>2, <1>3, <2>1, <2>4 DEF W
<1>6. CASE /\ \E n \in Successors(c, W) :
                 Adopt(c, n, current, GiveWay(c, SaveContext(c, W)))
           /\ Resume(c)
  <2>1. PICK n \in Successors(c, W) :
               Adopt(c, n, current, GiveWay(c, SaveContext(c, W)))
    BY <1>6
  <2> HIDE DEF W
  <2>2. n \in Tasks /\ W.state[n] = "ready"
    <3>1. /\ \A S : HighestPrio(S) \subseteq S
          /\ \A cur, S : FirstAfter(cur, S) \subseteq S
      BY DEF HighestPrio, FirstAfter
    <3>2. n \in Rivals(c, W) \/ n \in Equals(c, W)
      BY <2>1, <3>1 DEF Successors
    <3>3. n \in 1 .. task_count /\ W.state[n] = "ready"
      BY <3>1, <3>2 DEF Rivals, Equals, Eligible
    <3> QED BY <3>3, SchedAssumption DEF Settled, Tasks
  <2> DEFINE U == SaveContext(c, W)
             G == GiveWay(c, U)
  <2>3. U \in TcbSet /\ U.state = W.state /\ U.waits = W.waits /\ U.wake = W.wake
    <3>1. CASE InGuestCall(c)
      BY <1>2, <3>1 DEF SaveContext
    <3>2. CASE ~InGuestCall(c)
      <4> DEFINE sv == [W.saved EXCEPT ![current[c]] = exec[c]]
      <4>1. sv \in [Tasks -> {Boot} \cup Tasks]
        BY <1>2, <1>4 DEF TcbSet
      <4>2. U = [W EXCEPT !.saved = sv]
        BY <3>2 DEF SaveContext
      <4> HIDE DEF sv
      <4> QED BY <1>2, <4>1, <4>2 DEF TcbSet
    <3> QED BY <3>1, <3>2
  <2> HIDE DEF U
  <2> DEFINE st == [U.state EXCEPT ![current[c]] = "ready"]
  <2>4. G = IF U.state[current[c]] = "running" THEN [U EXCEPT !.state = st] ELSE U
    BY DEF GiveWay, Enter
  <2>5. st \in [Tasks -> States]
    BY <1>4, <2>3 DEF TcbSet, States
  <2>6. /\ G \in TcbSet /\ G.waits = W.waits /\ G.wake = W.wake
        /\ \A i \in Tasks : G.state[i] = IF i = current[c] /\ W.state[i] = "running"
                                         THEN "ready" ELSE W.state[i]
    <3> HIDE DEF G
    <3>1. CASE U.state[current[c]] = "running"
      <4> HIDE DEF st
      <4>1. G \in TcbSet /\ G.state = st /\ G.waits = U.waits /\ G.wake = U.wake
        BY <2>3, <2>4, <2>5, <3>1 DEF TcbSet
      <4>2. \A i \in Tasks : st[i] = IF i = current[c] THEN "ready" ELSE U.state[i]
        BY <1>4, <2>3 DEF st, TcbSet
      <4> QED BY <2>3, <3>1, <4>1, <4>2
    <3>2. CASE U.state[current[c]] # "running"
      BY <2>3, <2>4, <3>2
    <3> QED BY <3>1, <3>2
  <2>7. Adopt(c, n, current, G)
    BY <2>1 DEF U
  <2> HIDE DEF G
  <2>8. /\ state' = [G.state EXCEPT ![n] = "running"]
        /\ waits' = G.waits /\ wake' = G.wake
        /\ current' = [current EXCEPT ![c] = n]
        /\ state' \in [Tasks -> States]
        /\ waits' \in [Tasks -> SUBSET WaitKinds]
        /\ wake' \in [Tasks -> 0 .. MaxDelay]
        /\ saved' \in [Tasks -> {Boot} \cup Tasks]
        /\ current' \in [Cores -> Tasks]
        /\ exec' \in [Cores -> {Boot} \cup Tasks]
        /\ slice' \in [Cores -> BOOLEAN]
    BY <2>2, <2>6, <2>7, AdoptEffect
  <2>9. running' \in [Cores -> BOOLEAN] /\ halted' \in [Cores -> BOOLEAN]
    <3>1. (running[c] \/ c = 1) \in BOOLEAN
      OBVIOUS
    <3> QED BY <1>4, <1>6, <3>1 DEF Resume
  <2>10. SchedTypeOK' /\ Settled'
    BY <1>3, <2>8, <2>9, TableTyped
  <2>11. \A i \in Tasks : state'[i] = IF i = n THEN "running" ELSE G.state[i]
    <3>1. G.state \in [Tasks -> States]
      BY <2>6 DEF TcbSet
    <3> QED BY <2>8, <3>1
  <2> QED BY <1>2, <1>3, <2>2, <2>6, <2>8, <2>10, <2>11 DEF W
<1> QED BY <1>5, <1>6 DEF Preempt

\* A tick changes nothing but the distances to the deadlines.
LEMMA TickEffect ==
    ASSUME SchedTypeOK, Settled, SchedTick, UNCHANGED guest_call
    PROVE  /\ SchedTypeOK' /\ Settled'
           /\ UNCHANGED <<tableVars, state, waits, current>>
<1>1. /\ wake' = [i \in Tasks |-> IF wake[i] > 0 THEN wake[i] - 1 ELSE 0]
      /\ slice' = [c \in Cores |-> TRUE]
      /\ UNCHANGED <<tableVars, state, waits, saved, current, exec, running,
                     halted, scheduler_started>>
  BY DEF SchedTick
<1>2. wake' \in [Tasks -> 0 .. MaxDelay]
  BY <1>1, SchedAssumption DEF SchedTypeOK
<1>3. slice' \in [Cores -> BOOLEAN]
  BY <1>1
<1>4. SchedTypeOK' /\ Settled'
  <2>1. /\ state' \in [Tasks -> States]
        /\ waits' \in [Tasks -> SUBSET WaitKinds]
        /\ saved' \in [Tasks -> {Boot} \cup Tasks]
        /\ current' \in [Cores -> Tasks]
        /\ exec' \in [Cores -> {Boot} \cup Tasks]
        /\ running' \in [Cores -> BOOLEAN]
        /\ halted' \in [Cores -> BOOLEAN]
    BY <1>1 DEF SchedTypeOK, Settled
  <2>2. UNCHANGED <<tableVars, scheduler_started, guest_call>>
    BY <1>1
  <2> QED BY <1>2, <1>3, <2>1, <2>2, TableTyped
<1> QED BY <1>1, <1>4

\* Editing the TCBs of some tasks and waking the cores they are current on.
LEMMA CommitEffect ==
    ASSUME SchedTypeOK, Settled, NEW T \in TcbSet, Commit(T),
           UNCHANGED <<tableVars, current, exec, slice, scheduler_started, guest_call>>,
           running' \in [Cores -> BOOLEAN], halted' \in [Cores -> BOOLEAN]
    PROVE  /\ SchedTypeOK' /\ Settled'
           /\ state' = T.state /\ waits' = T.waits /\ wake' = T.wake
<1>1. /\ state' = T.state /\ waits' = T.waits /\ wake' = T.wake /\ saved' = T.saved
      /\ current' = current /\ exec' = exec /\ slice' = slice
  BY DEF Commit
<1>2. /\ state' \in [Tasks -> States]
      /\ waits' \in [Tasks -> SUBSET WaitKinds]
      /\ wake' \in [Tasks -> 0 .. MaxDelay]
      /\ saved' \in [Tasks -> {Boot} \cup Tasks]
  BY <1>1 DEF TcbSet
<1>3. /\ current' \in [Cores -> Tasks]
      /\ exec' \in [Cores -> {Boot} \cup Tasks]
      /\ slice' \in [Cores -> BOOLEAN]
  BY <1>1 DEF SchedTypeOK, Settled
<1> QED BY <1>1, <1>2, <1>3, TableTyped

\* A system that has been running for a while is settled.
LEMMA RunningSettled ==
    ASSUME NEW A, RunningInit(A), MaxTasks >= 2, \A i \in Tasks : A[i] \in Attrs
    PROVE  /\ SchedTypeOK /\ Settled
           /\ \A i \in Tasks : waits[i] = {} /\ state[i] \in {"running", "ready"}
<1> DEFINE idle == [c \in Cores |-> MaxTasks - 1 + c]
<1>1. MaxTasks \in Nat /\ MaxDelay \in Nat
  BY SchedAssumption
<1>2. idle \in [Cores -> Tasks] /\ idle \in [Cores -> Tasks \ AppTasks]
  BY <1>1 DEF Cores, Tasks, AppTasks
<1>3. /\ task_count = MaxTasks
      /\ attr = [i \in Tasks |-> IF i = idle[0] THEN IdleAttr(0)
                                 ELSE IF i = idle[1] THEN IdleAttr(1) ELSE A[i]]
      /\ state = [i \in Tasks |-> IF i \in {idle[0], idle[1]} THEN "running" ELSE "ready"]
      /\ waits = [i \in Tasks |-> {}]
      /\ wake = [i \in Tasks |-> 0]
      /\ saved = [i \in Tasks |-> i]
      /\ current = idle /\ exec = idle /\ idle_task = idle
      /\ running = [c \in Cores |-> TRUE]
      /\ halted = [c \in Cores |-> FALSE]
      /\ slice = [c \in Cores |-> FALSE]
      /\ idle_ready = TRUE
      /\ scheduler_started = TRUE
      /\ guest_call = [c \in Cores |-> "none"]
  BY DEF RunningInit
<1> HIDE DEF idle
<1>4. Settled
  BY <1>2, <1>3 DEF Settled
<1>5. attr \in [Tasks -> Attrs]
  <2>1. \A k \in Cores : IdleAttr(k) \in Attrs
    BY DEF IdleAttr, Attrs
  <2> QED BY <1>3, <2>1 DEF Cores
<1>6. /\ state \in [Tasks -> States] /\ waits \in [Tasks -> SUBSET WaitKinds]
      /\ wake \in [Tasks -> 0 .. MaxDelay] /\ saved \in [Tasks -> {Boot} \cup Tasks]
  BY <1>1, <1>3 DEF States
<1>7. SchedTypeOK
  BY <1>1, <1>2, <1>3, <1>5, <1>6 DEF SchedTypeOK
<1> QED BY <1>3, <1>4, <1>7

-----------------------------------------------------------------------------
\* A current application task runs, and on one core only.
CurrentRuns ==
    \A c \in Cores : current[c] \in AppTasks => /\ state[current[c]] = "running"
                                                /\ current[1 - c] # current[c]

\* What the scheduler may do to a task that is not the calling one: nothing, end
\* its sleep and with it every wait, dispatch it, or take the core from it.
Moves(i) ==
    \/ state'[i] = state[i] /\ waits'[i] = waits[i]
    \/ /\ state[i] = "sleeping" /\ state'[i] \in {"ready", "running"}
       /\ waits'[i] = IF "q" \in waits[i] THEN {} ELSE waits[i] \cap {"sender"}
    \/ /\ state[i] = "ready" \/ i \notin AppTasks
       /\ state'[i] = "running" /\ waits'[i] = waits[i]
    \/ state[i] = "running" /\ state'[i] = "ready" /\ waits'[i] = waits[i]

\* The same, from the TCBs T a service has produced, and exactly: a task whose
\* deadline has passed is woken and loses its waits, every other one keeps them.
MovesFrom(T, i) ==
    IF Expired(T, i)
    THEN /\ state'[i] \in {"ready", "running"}
         /\ waits'[i] = IF "q" \in T.waits[i] THEN {} ELSE T.waits[i] \cap {"sender"}
    ELSE /\ waits'[i] = T.waits[i]
         /\ \/ state'[i] = T.state[i]
            \/ state'[i] = "running" /\ (T.state[i] = "ready" \/ i \notin AppTasks)
            \/ T.state[i] = "running" /\ state'[i] = "ready"

\* A task that moves exactly so from the TCBs as they stand moves as it may.
LEMMA MovesAsMay ==
    ASSUME NEW i \in Tasks, MovesFrom(Tcbs, i)
    PROVE  Moves(i)
<1>1. Tcbs.state = state /\ Tcbs.waits = waits
  BY DEF Tcbs
<1>2. Expired(Tcbs, i) => state[i] = "sleeping"
  BY <1>1 DEF Expired
<1> QED BY <1>1, <1>2 DEF MovesFrom, Moves

\* The calling task blocks, for ever in state s or asleep, and gives up its core;
\* the service has already edited the TCBs to T.
LEMMA BlockFrom ==
    ASSUME SchedTypeOK, Settled, CurrentRuns, NEW c \in Cores, NEW T \in TcbSet,
           \A k \in Cores : current[k] \in AppTasks => T.state[current[k]] = "running",
           NEW s \in States \ {"ready", "running", "sleeping", "unused"},
           NEW flags \in SUBSET WaitKinds, NEW timeout \in Timeouts,
           SchedSwitch(c, WaitFor(c, s, flags, timeout, SaveContext(c, T))),
           UNCHANGED <<scheduler_started, guest_call>>
    PROVE  /\ SchedTypeOK' /\ Settled' /\ CurrentRuns' /\ UNCHANGED tableVars
           /\ current[c] \in Tasks
           /\ waits'[current[c]] = T.waits[current[c]] \cup flags
           /\ current[c] \in AppTasks => state'[current[c]] \in {s, "sleeping"}
           /\ \A i \in Tasks : i # current[c] => MovesFrom(T, i)
<1> DEFINE me == current[c]
           V  == WaitFor(c, s, flags, timeout, SaveContext(c, T))
           W  == WakeSleepers(V)
<1>2. /\ me \in Tasks /\ current \in [Cores -> Tasks]
      /\ idle_task[c] \notin AppTasks /\ idle_task[c] \in Tasks
      /\ task_count = MaxTasks
  BY DEF Settled
<1>3. /\ T.state \in [Tasks -> States] /\ T.waits \in [Tasks -> SUBSET WaitKinds]
      /\ T.wake \in [Tasks -> 0 .. MaxDelay]
  BY DEF TcbSet
<1>4. /\ V \in TcbSet
      /\ V.waits = [T.waits EXCEPT ![me] = T.waits[me] \cup flags]
      /\ V.state = [T.state EXCEPT ![me] = IF timeout = Forever THEN s ELSE "sleeping"]
      /\ V.wake = IF timeout = Forever THEN T.wake ELSE [T.wake EXCEPT ![me] = timeout]
  BY WaitEffect
<1>5. SchedSwitch(c, V)
  OBVIOUS
<1> HIDE DEF V
<1>6. /\ SchedTypeOK' /\ Settled' /\ UNCHANGED tableVars
      /\ waits' = W.waits
  BY <1>4, <1>5, SwitchEffect
<1>7. PICK n \in Tasks :
         /\ n \in Eligible(c, W) \/ n = idle_task[c]
         /\ state' = [W.state EXCEPT ![n] = "running"]
         /\ current' = [current EXCEPT ![c] = n]
  BY <1>4, <1>5, SwitchEffect
<1>8. W \in TcbSet /\ W.state \in [Tasks -> States]
  BY <1>4, WakeEffect DEF TcbSet
<1>9. \A i \in Tasks :
         /\ W.state[i] = IF Expired(V, i) THEN "ready" ELSE V.state[i]
         /\ W.waits[i] = IF ~Expired(V, i) THEN V.waits[i]
                         ELSE IF "q" \in V.waits[i] THEN {}
                         ELSE V.waits[i] \cap {"sender"}
         /\ Expired(V, i) => V.state[i] = "sleeping"
  BY <1>4, WakeEffect
<1>10. W.state[n] = "ready" \/ n = idle_task[c]
  BY <1>7 DEF Eligible
<1> HIDE DEF W
<1>11. ~Expired(V, me)
  <2>1. CASE timeout = Forever
    BY <1>2, <1>3, <1>4, <2>1 DEF Expired
  <2>2. CASE timeout # Forever
    <3>1. timeout \in 1 .. MaxDelay /\ timeout # 0
      BY <2>2, SchedAssumption DEF Timeouts
    <3> QED BY <1>2, <1>3, <1>4, <2>2, <3>1 DEF Expired
  <2> QED BY <2>1, <2>2
<1>12. /\ W.state[me] \in {s, "sleeping"}
       /\ W.waits[me] = T.waits[me] \cup flags
  BY <1>2, <1>3, <1>4, <1>9, <1>11
<1>13. \A i \in Tasks : i # me =>
          V.state[i] = T.state[i] /\ V.waits[i] = T.waits[i] /\ V.wake[i] = T.wake[i]
  BY <1>2, <1>3, <1>4
<1>14. \A i \in Tasks : state'[i] = IF i = n THEN "running" ELSE W.state[i]
  BY <1>7, <1>8
<1>15. me \in AppTasks => n # me
  BY <1>2, <1>10, <1>12
<1>16. ASSUME NEW i \in Tasks, i # me
       PROVE  MovesFrom(T, i)
  <2>1. Expired(V, i) <=> Expired(T, i)
    BY <1>13, <1>16 DEF Expired
  <2>2. CASE Expired(V, i)
    BY <1>6, <1>9, <1>13, <1>14, <1>16, <2>1, <2>2 DEF MovesFrom
  <2>3. CASE ~Expired(V, i) /\ i = n
    <3>1. W.state[i] = T.state[i] /\ waits'[i] = T.waits[i] /\ state'[i] = "running"
      BY <1>6, <1>9, <1>13, <1>14, <1>16, <2>3
    <3>2. T.state[i] = "ready" \/ i \notin AppTasks
      BY <1>2, <1>10, <2>3, <3>1
    <3> QED BY <2>1, <2>3, <3>1, <3>2 DEF MovesFrom
  <2>4. CASE ~Expired(V, i) /\ i # n
    BY <1>6, <1>9, <1>13, <1>14, <1>16, <2>1, <2>4 DEF MovesFrom
  <2> QED BY <2>2, <2>3, <2>4
<1>17. ASSUME NEW k \in Cores, current'[k] \in AppTasks
       PROVE  state'[current'[k]] = "running" /\ current'[1 - k] # current'[k]
  <2>1. 1 - k \in Cores /\ 1 - c \in Cores /\ 1 - c # c /\ 1 - k # k /\ (k # c => k = 1 - c)
    BY DEF Cores
  <2> DEFINE o == 1 - c
  <2>2. current'[c] = n /\ current'[o] = current[o]
    BY <1>2, <1>7, <2>1
  <2>3. current[o] \in AppTasks => /\ current[o] # me /\ current[o] # n
                                   /\ W.state[current[o]] = "running"
    <3> SUFFICES ASSUME current[o] \in AppTasks
                 PROVE  /\ current[o] # me /\ current[o] # n
                        /\ W.state[current[o]] = "running"
      OBVIOUS
    <3>1. T.state[current[o]] = "running" /\ current[1 - o] # current[o] /\ 1 - o = c
      BY <2>1 DEF CurrentRuns, Cores
    <3>2. current[o] \in Tasks /\ current[o] # me
      BY <1>2, <2>1, <3>1
    <3>3. W.state[current[o]] = "running"
      BY <1>9, <1>13, <3>1, <3>2
    <3> QED BY <1>2, <1>10, <3>2, <3>3
  <2>4. CASE k = c
    <3>1. state'[n] = "running"
      BY <1>14
    <3>2. current[o] # n
      BY <2>2, <2>3, <2>4, <1>17
    <3> QED BY <2>2, <2>4, <3>1, <3>2
  <2>5. CASE k = o
    <3>1. 1 - o = c
      BY DEF Cores
    <3>2. current[o] \in AppTasks /\ current[o] \in Tasks
      BY <1>2, <1>17, <2>1, <2>2, <2>5
    <3> QED BY <1>14, <2>2, <2>3, <2>5, <3>1, <3>2
  <2> QED BY <2>1, <2>4, <2>5
<1>18. CurrentRuns'
  BY <1>17 DEF CurrentRuns
<1>19. waits'[me] = T.waits[me] \cup flags
  BY <1>6, <1>12
<1>20. me \in AppTasks => state'[me] \in {s, "sleeping"}
  BY <1>2, <1>12, <1>14, <1>15
<1> QED BY <1>2, <1>6, <1>16, <1>18, <1>19, <1>20

\* The calling task blocks, for ever in state s or asleep, and gives up its core.
LEMMA BlockEffect ==
    ASSUME SchedTypeOK, Settled, CurrentRuns, NEW c \in Cores,
           NEW s \in States \ {"ready", "running", "sleeping", "unused"},
           NEW flags \in SUBSET WaitKinds, NEW timeout \in Timeouts,
           SchedSwitch(c, WaitFor(c, s, flags, timeout, SaveContext(c, Tcbs))),
           UNCHANGED <<scheduler_started, guest_call>>
    PROVE  /\ SchedTypeOK' /\ Settled' /\ CurrentRuns' /\ UNCHANGED tableVars
           /\ current[c] \in Tasks
           /\ waits'[current[c]] = waits[current[c]] \cup flags
           /\ current[c] \in AppTasks => state'[current[c]] \in {s, "sleeping"}
           /\ \A i \in Tasks : i # current[c] => Moves(i)
<1>1. Tcbs \in TcbSet /\ Tcbs.state = state /\ Tcbs.waits = waits
  BY TcbsTyped DEF Tcbs
<1>2. /\ SchedTypeOK' /\ Settled' /\ CurrentRuns' /\ UNCHANGED tableVars
      /\ current[c] \in Tasks
      /\ waits'[current[c]] = Tcbs.waits[current[c]] \cup flags
      /\ current[c] \in AppTasks => state'[current[c]] \in {s, "sleeping"}
      /\ \A i \in Tasks : i # current[c] => MovesFrom(Tcbs, i)
  <2>1. \A k \in Cores : current[k] \in AppTasks => Tcbs.state[current[k]] = "running"
    BY <1>1 DEF CurrentRuns
  <2> QED BY <1>1, <2>1, BlockFrom
<1>3. \A i \in Tasks : i # current[c] => Moves(i)
  BY <1>2, MovesAsMay
<1> QED BY <1>1, <1>2, <1>3

\* freertos_stubs_check_preempt_core(): every task moves as the scheduler may move it.
LEMMA PreemptMoves ==
    ASSUME SchedTypeOK, Settled, CurrentRuns, NEW c \in Cores,
           Preempt(c), UNCHANGED <<scheduler_started, guest_call>>
    PROVE  /\ SchedTypeOK' /\ Settled' /\ CurrentRuns' /\ UNCHANGED tableVars
           /\ \A i \in Tasks : Moves(i) /\ MovesFrom(Tcbs, i)
<1> DEFINE W == WakeSleepers(Tcbs)
<1>1. Tcbs \in TcbSet /\ Tcbs.state = state /\ Tcbs.waits = waits
  BY TcbsTyped DEF Tcbs
<1>2. current \in [Cores -> Tasks]
  BY DEF Settled
<1>3. \A i \in Tasks :
         /\ W.state[i] = IF Expired(Tcbs, i) THEN "ready" ELSE state[i]
         /\ W.waits[i] = IF ~Expired(Tcbs, i) THEN waits[i]
                         ELSE IF "q" \in waits[i] THEN {}
                         ELSE waits[i] \cap {"sender"}
         /\ Expired(Tcbs, i) => state[i] = "sleeping"
  BY <1>1, WakeEffect
<1>4. /\ SchedTypeOK' /\ Settled' /\ UNCHANGED tableVars /\ waits' = W.waits
      /\ \/ state' = W.state /\ current' = current
         \/ \E n \in Tasks :
               /\ W.state[n] = "ready"
               /\ current' = [current EXCEPT ![c] = n]
               /\ \A i \in Tasks :
                    state'[i] = IF i = n THEN "running"
                                ELSE IF i = current[c] /\ W.state[i] = "running"
                                THEN "ready" ELSE W.state[i]
  BY PreemptEffect
<1> HIDE DEF W
<1>5. \A k \in Cores : current[k] \in AppTasks =>
         /\ current[k] \in Tasks /\ W.state[current[k]] = "running"
         /\ current[1 - k] # current[k]
  BY <1>2, <1>3 DEF CurrentRuns
<1>6. CASE state' = W.state /\ current' = current
  <2>1. CurrentRuns'
    BY <1>5, <1>6 DEF CurrentRuns
  <2>2. \A i \in Tasks : MovesFrom(Tcbs, i)
    <3> SUFFICES ASSUME NEW i \in Tasks PROVE MovesFrom(Tcbs, i)
      OBVIOUS
    <3>1. CASE Expired(Tcbs, i)
      BY <1>1, <1>3, <1>4, <1>6, <3>1 DEF MovesFrom
    <3>2. CASE ~Expired(Tcbs, i)
      <4>1. state'[i] = state[i] /\ waits'[i] = waits[i]
        BY <1>3, <1>4, <1>6, <3>2
      <4> QED BY <1>1, <3>2, <4>1 DEF MovesFrom
    <3> QED BY <3>1, <3>2
  <2> QED BY <1>4, <2>1, <2>2, MovesAsMay
<1>7. ASSUME NEW n \in Tasks, W.state[n] = "ready",
             current' = [current EXCEPT ![c] = n],
             \A i \in Tasks :
                    state'[i] = IF i = n THEN "running"
                                ELSE IF i = current[c] /\ W.state[i] = "running"
                                THEN "ready" ELSE W.state[i]
      PROVE  CurrentRuns' /\ \A i \in Tasks : MovesFrom(Tcbs, i)
  <2>1. ASSUME NEW i \in Tasks PROVE MovesFrom(Tcbs, i)
    <3>1. CASE Expired(Tcbs, i)
      BY <1>1, <1>3, <1>4, <1>7, <3>1 DEF MovesFrom
    <3>2. CASE ~Expired(Tcbs, i)
      <4>1. W.state[i] = state[i] /\ waits'[i] = waits[i]
        BY <1>3, <1>4, <3>2
      <4> QED BY <1>1, <1>7, <3>2, <4>1 DEF MovesFrom
    <3> QED BY <3>1, <3>2
  <2> DEFINE o == 1 - c
  <2>2. o \in Cores /\ o # c /\ 1 - o = c /\ \A k \in Cores : k = c \/ k = o
    BY DEF Cores
  <2>3. current'[c] = n /\ current'[o] = current[o]
    BY <1>2, <1>7, <2>2
  <2>4. current[o] \in AppTasks =>
           /\ current[o] # n /\ current[o] # current[c]
           /\ state'[current[o]] = "running"
    BY <1>5, <1>7, <2>2
  <2>5. state'[n] = "running"
    BY <1>7
  <2> HIDE DEF o
  <2>6. current'[c] \in AppTasks => state'[current'[c]] = "running" /\ current'[o] # current'[c]
    BY <2>3, <2>4, <2>5
  <2>7. current'[o] \in AppTasks => state'[current'[o]] = "running" /\ current'[c] # current'[o]
    BY <2>3, <2>4
  <2>8. CurrentRuns'
    BY <2>2, <2>6, <2>7 DEF CurrentRuns, o
  <2> QED BY <2>1, <2>8
<1>8. CurrentRuns' /\ \A i \in Tasks : MovesFrom(Tcbs, i)
  BY <1>4, <1>6, <1>7
<1> QED BY <1>4, <1>8, MovesAsMay

\* A tick moves nothing.
LEMMA TickMoves ==
    ASSUME SchedTypeOK, Settled, CurrentRuns, SchedTick, UNCHANGED guest_call
    PROVE  /\ SchedTypeOK' /\ Settled' /\ CurrentRuns' /\ UNCHANGED tableVars
           /\ \A i \in Tasks : Moves(i)
<1>1. SchedTypeOK' /\ Settled' /\ UNCHANGED <<tableVars, state, waits, current>>
  BY TickEffect
<1> QED BY <1>1 DEF CurrentRuns, Moves

\* The state and the waits of one TCB are written.
Edited(j, st, w) == Commit([Tcbs EXCEPT !.state[j] = st, !.waits[j] = w])

\* A service edits the TCB of one task: its state and its wait flags.
LEMMA EditEffect ==
    ASSUME SchedTypeOK, Settled, CurrentRuns, NEW j \in Tasks, NEW st \in States,
           NEW w \in SUBSET WaitKinds,
           Edited(j, st, w),
           UNCHANGED <<tableVars, current, exec, slice, scheduler_started, guest_call>>,
           running' \in [Cores -> BOOLEAN], halted' \in [Cores -> BOOLEAN],
           st # "running" => \A c \in Cores : current[c] # j
    PROVE  /\ SchedTypeOK' /\ Settled' /\ CurrentRuns' /\ UNCHANGED tableVars
           /\ state' = [state EXCEPT ![j] = st]
           /\ waits' = [waits EXCEPT ![j] = w]
<1> DEFINE s2 == [state EXCEPT ![j] = st]
           w2 == [waits EXCEPT ![j] = w]
           T  == [Tcbs EXCEPT !.state = s2, !.waits = w2]
<1>1. Tcbs \in TcbSet /\ Tcbs.state = state /\ Tcbs.waits = waits
  BY TcbsTyped DEF Tcbs
<1>2. s2 \in [Tasks -> States] /\ w2 \in [Tasks -> SUBSET WaitKinds]
  BY DEF SchedTypeOK
<1>3. Commit(T)
  BY <1>1 DEF Edited, Tcbs
<1>4. /\ \A i \in Tasks : s2[i] = IF i = j THEN st ELSE state[i]
      /\ current \in [Cores -> Tasks]
  BY DEF SchedTypeOK, Settled
<1> HIDE DEF s2, w2
<1>5. T \in TcbSet /\ T.state = s2 /\ T.waits = w2
  BY <1>1, <1>2 DEF TcbSet
<1> HIDE DEF T
<1>6. /\ SchedTypeOK' /\ Settled' /\ state' = s2 /\ waits' = w2 /\ current' = current
  BY <1>3, <1>5, CommitEffect
<1>7. CurrentRuns'
  BY <1>4, <1>6 DEF CurrentRuns
<1> QED BY <1>6, <1>7 DEF s2, w2

\* Writing only the state leaves the waits as they are.
LEMMA StateEdited ==
    ASSUME SchedTypeOK, NEW j \in Tasks, NEW st, Commit([Tcbs EXCEPT !.state[j] = st])
    PROVE  Edited(j, st, waits[j])
<1>1. [waits EXCEPT ![j] = waits[j]] = waits
  BY DEF SchedTypeOK
<1>2. /\ state' = [state EXCEPT ![j] = st] /\ waits' = waits
      /\ wake' = wake /\ saved' = saved
  BY DEF Commit, Tcbs
<1>3. waits' = [waits EXCEPT ![j] = waits[j]]
  BY <1>1, <1>2
<1> QED BY <1>2, <1>3 DEF Edited, Commit, Tcbs
=============================================================================
