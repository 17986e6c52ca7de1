--------------------------- MODULE FrtEventsProofs --------------------------
(***************************************************************************)
(* Proofs about FrtEvents.  For any number of tasks and event bits and any *)
(* sequence of calls, nobody sleeps on bits that satisfy its condition,    *)
(* and a wait that ends returns bits that tell how it ended.  The heart is *)
(* what one pass over the task table leaves behind (PassSound) although    *)
(* the tasks it releases clear bits for the tasks after them.              *)
(***************************************************************************)
EXTENDS FrtEvents, FrtSchedProofs

\* The working state of the pass.
Accs == [bits : SUBSET Bits, woken : SUBSET Tasks, ret : [Tasks -> SUBSET Bits]]

Start(b) == [bits |-> b, woken |-> {}, ret |-> ret]

\* After the first n tasks: bits are only ever cleared, a released task got bits
\* that satisfy its condition, and no task passed over could still be released.
Passed(b, n, acc) ==
    /\ acc \in Accs
    /\ acc.bits \subseteq b
    /\ \A i \in Tasks : i \in acc.woken =>
          i <= n /\ Waiting(i) /\ Met(acc.ret[i], want[i])
    /\ \A i \in Tasks : i \notin acc.woken => acc.ret[i] = ret[i]
    /\ \A i \in Tasks : i <= n /\ Waiting(i) /\ i \notin acc.woken =>
          ~Met(acc.bits, want[i])

\* The conditions are monotone: clearing bits satisfies nobody.
LEMMA MetShrinks ==
    ASSUME NEW w \in Wants, NEW a, NEW b, a \subseteq b, Met(a, w)
    PROVE  Met(b, w)
  BY DEF Met

\* The condition of a set bit needs bits of the group only.
LEMMA WantFields ==
    ASSUME NEW w \in Wants
    PROVE  w.bits \subseteq Bits /\ w.all \in BOOLEAN /\ w.clear \in BOOLEAN
  BY DEF Wants, Events

\* One task of the pass: a record of the same kind.
LEMMA LeaveTyped ==
    ASSUME TypeOK, NEW acc \in Accs, NEW i \in Tasks
    PROVE  Leave(acc, i) \in Accs
<1> DEFINE left == IF want[i].clear THEN acc.bits \ want[i].bits ELSE acc.bits
           rets == [acc.ret EXCEPT ![i] = acc.bits]
           more == acc.woken \cup {i}
<1>1. left \in SUBSET Bits /\ rets \in [Tasks -> SUBSET Bits] /\ more \in SUBSET Tasks
  BY DEF Accs
<1>2. Leave(acc, i) = IF Waiting(i) /\ Met(acc.bits, want[i])
                      THEN [bits |-> left, woken |-> more, ret |-> rets] ELSE acc
  BY DEF Leave
<1> HIDE DEF left, rets, more
<1> QED BY <1>1, <1>2 DEF Accs

\* One task of the pass keeps what is known of it.
LEMMA LeaveStep ==
    ASSUME TypeOK, NEW b \in SUBSET Bits, NEW n \in Nat, n + 1 \in Tasks,
           NEW acc, Passed(b, n, acc)
    PROVE  Passed(b, n + 1, Leave(acc, n + 1))
<1> DEFINE m    == n + 1
           left == IF want[m].clear THEN acc.bits \ want[m].bits ELSE acc.bits
           rets == [acc.ret EXCEPT ![m] = acc.bits]
           more == acc.woken \cup {m}
           out  == Leave(acc, m)
<1>1. /\ acc \in Accs /\ acc.ret \in [Tasks -> SUBSET Bits] /\ m \in Tasks
      /\ acc.bits \subseteq b
  BY DEF Passed, Accs
<1>2. out \in Accs
  BY <1>1, LeaveTyped
<1>3. \A i \in Tasks : want[i] \in Wants
  BY DEF TypeOK
<1>4. \A i \in Tasks : i \in Nat /\ (i <= m <=> i <= n \/ i = m)
  BY DEF Tasks
<1>5. m \notin acc.woken
  BY <1>1 DEF Passed, Tasks
<1>6. left \subseteq acc.bits
  OBVIOUS
<1>7. CASE Waiting(m) /\ Met(acc.bits, want[m])
  <2>1. out = [bits |-> left, woken |-> more, ret |-> rets]
    BY <1>7 DEF Leave
  <2>2. \A i \in Tasks : rets[i] = IF i = m THEN acc.bits ELSE acc.ret[i]
    BY <1>1
  <2> HIDE DEF left, rets, out
  <2>3. out.bits = left /\ out.woken = more /\ out.ret = rets
    BY <2>1
  <2>4. left \subseteq b
    BY <1>1, <1>6
  <2>5. ASSUME NEW i \in Tasks, i \in more
        PROVE  i <= m /\ Waiting(i) /\ Met(rets[i], want[i])
    <3>1. CASE i = m
      BY <1>4, <1>7, <2>2, <3>1
    <3>2. CASE i # m /\ i \in acc.woken
      BY <1>4, <2>2, <3>2 DEF Passed
    <3> QED BY <2>5, <3>1, <3>2
  <2>6. \A i \in Tasks : i \notin more => rets[i] = ret[i]
    BY <2>2 DEF Passed
  <2>7. ASSUME NEW i \in Tasks, i <= m, Waiting(i), i \notin more
        PROVE  ~Met(left, want[i])
    <3>1. i # m /\ i <= n /\ i \notin acc.woken
      BY <1>4, <2>7
    <3>2. ~Met(acc.bits, want[i])
      BY <2>7, <3>1 DEF Passed
    <3> QED BY <1>3, <1>6, <3>2, MetShrinks
  <2> HIDE DEF m, more
  <2>8. Passed(b, m, out)
    BY <1>2, <2>3, <2>4, <2>5, <2>6, <2>7 DEF Passed
  <2> QED BY <2>8 DEF m, out
<1>8. CASE ~(Waiting(m) /\ Met(acc.bits, want[m]))
  <2>1. out = acc
    BY <1>8 DEF Leave
  <2> HIDE DEF out, left, rets, more
  <2>2. \A i \in Tasks : i \in acc.woken =>
           i <= m /\ Waiting(i) /\ Met(acc.ret[i], want[i])
    BY <1>4 DEF Passed
  <2>3. \A i \in Tasks : i <= m /\ Waiting(i) /\ i \notin acc.woken =>
           ~Met(acc.bits, want[i])
    BY <1>4, <1>8 DEF Passed
  <2> HIDE DEF m
  <2>4. \A i \in Tasks : i \notin acc.woken => acc.ret[i] = ret[i]
    BY DEF Passed
  <2>5. Passed(b, m, acc)
    BY <1>1, <2>2, <2>3, <2>4 DEF Passed
  <2> QED BY <2>1, <2>5 DEF m, out
<1> QED BY <1>7, <1>8

\* The pass is well defined: there is a function that satisfies its equation.
LEMMA PassExists ==
    ASSUME TypeOK, Settled, NEW b \in SUBSET Bits
    PROVE  \E g : g = [n \in 0 .. task_count |->
                         IF n = 0 THEN Start(b) ELSE Leave(g[n - 1], n)]
<1> DEFINE Walk(g, n) == /\ g[0] = Start(b)
                         /\ \A k \in 1 .. n : g[k] = Leave(g[k - 1], k)
           Bad == {n \in 0 .. task_count : ~ \E g \in [0 .. n -> Accs] : Walk(g, n)}
<1>1. task_count = MaxTasks /\ task_count \in Nat /\ Tasks = 1 .. task_count
  BY SchedAssumption DEF Settled, Tasks
<1>2. Start(b) \in Accs
  BY DEF Start, Accs, TypeOK
<1>3. Bad = {}
  <2> SUFFICES ASSUME Bad # {} PROVE FALSE
    OBVIOUS
  <2>1. PICK m \in Bad : \A k \in Bad : m <= k
    <3>1. Bad \in SUBSET Nat
      BY <1>1
    <3> HIDE DEF Bad
    <3> QED BY <3>1, LeastNat
  <2>2. m \in 0 .. task_count /\ m \in Nat
    BY <1>1
  <2>3. CASE m = 0
    <3> DEFINE g == [k \in 0 .. 0 |-> Start(b)]
    <3>1. g \in [0 .. 0 -> Accs] /\ g[0] = Start(b)
      BY <1>2
    <3>2. Walk(g, 0)
      BY <3>1
    <3> QED BY <2>1, <2>3, <3>1, <3>2
  <2>4. CASE m > 0
    <3>1. m - 1 \in 0 .. task_count /\ m - 1 \notin Bad /\ m \in Tasks
      BY <1>1, <2>1, <2>2, <2>4
    <3>2. PICK g \in [0 .. m - 1 -> Accs] : Walk(g, m - 1)
      BY <3>1
    <3> DEFINE h == [k \in 0 .. m |-> IF k = m THEN Leave(g[m - 1], m) ELSE g[k]]
    <3>3. g[m - 1] \in Accs
      BY <2>2, <2>4, <3>2
    <3>4. h \in [0 .. m -> Accs]
      BY <2>2, <3>1, <3>2, <3>3, LeaveTyped
    <3>5. h[0] = Start(b)
      BY <2>2, <2>4, <3>2
    <3>6. ASSUME NEW k \in 1 .. m PROVE h[k] = Leave(h[k - 1], k)
      <4>1. CASE k = m
        BY <2>2, <2>4, <4>1
      <4>2. CASE k # m
        BY <2>2, <2>4, <3>2, <4>2
      <4> QED BY <4>1, <4>2
    <3>7. Walk(h, m)
      BY <3>5, <3>6
    <3> QED BY <2>1, <3>4, <3>7
  <2> QED BY <2>2, <2>3, <2>4
<1>4. PICK g \in [0 .. task_count -> Accs] : Walk(g, task_count)
  BY <1>1, <1>3
<1>5. \A n \in 0 .. task_count :
         g[n] = IF n = 0 THEN Start(b) ELSE Leave(g[n - 1], n)
  BY <1>1, <1>4
<1>6. g = [n \in 0 .. task_count |-> IF n = 0 THEN Start(b) ELSE Leave(g[n - 1], n)]
  BY <1>4, <1>5
<1> QED BY <1>6

\* What the pass leaves behind.
LEMMA PassSound ==
    ASSUME TypeOK, Settled, NEW b \in SUBSET Bits
    PROVE  Passed(b, task_count, WakeWaiters(b))
<1> DEFINE Eq(g) == g = [n \in 0 .. task_count |->
                           IF n = 0 THEN Start(b) ELSE Leave(g[n - 1], n)]
           pass == CHOOSE g : Eq(g)
           Bad  == {n \in 0 .. task_count : ~Passed(b, n, pass[n])}
<1>1. task_count = MaxTasks /\ task_count \in Nat /\ Tasks = 1 .. task_count
  BY SchedAssumption DEF Settled, Tasks
<1>2. WakeWaiters(b) = pass[task_count]
  BY DEF WakeWaiters, Start
<1>3. Eq(pass)
  BY PassExists
<1> HIDE DEF pass
<1>4. \A n \in 0 .. task_count :
         pass[n] = IF n = 0 THEN Start(b) ELSE Leave(pass[n - 1], n)
  BY <1>3
<1>5. Passed(b, 0, Start(b))
  <2>1. /\ Start(b) \in Accs /\ Start(b).bits = b /\ Start(b).woken = {}
        /\ Start(b).ret = ret
    BY DEF Start, Accs, TypeOK
  <2>2. \A i \in Tasks : ~(i <= 0)
    BY DEF Tasks
  <2> QED BY <2>1, <2>2 DEF Passed
<1>6. Bad = {}
  <2> SUFFICES ASSUME Bad # {} PROVE FALSE
    OBVIOUS
  <2>1. PICK m \in Bad : \A k \in Bad : m <= k
    <3>1. Bad \in SUBSET Nat
      BY <1>1
    <3> HIDE DEF Bad
    <3> QED BY <3>1, LeastNat
  <2>2. m \in 0 .. task_count /\ m \in Nat /\ ~Passed(b, m, pass[m])
    BY <1>1
  <2>3. CASE m = 0
    BY <1>4, <1>5, <2>2, <2>3
  <2>4. CASE m > 0
    <3> DEFINE n == m - 1
    <3>1. /\ n \in 0 .. task_count /\ n \notin Bad /\ n \in Nat /\ n + 1 = m
          /\ n + 1 \in Tasks
      BY <1>1, <2>1, <2>2, <2>4
    <3>2. Passed(b, n, pass[n])
      BY <3>1
    <3>3. pass[m] = Leave(pass[n], n + 1)
      BY <1>4, <2>2, <2>4, <3>1
    <3> HIDE DEF n
    <3>4. Passed(b, n + 1, Leave(pass[n], n + 1))
      BY <3>1, <3>2, LeaveStep
    <3> QED BY <2>2, <3>1, <3>3, <3>4
  <2> QED BY <2>2, <2>3, <2>4
<1>7. Passed(b, task_count, pass[task_count])
  BY <1>1, <1>6
<1> QED BY <1>2, <1>7

-----------------------------------------------------------------------------
\* The inductive invariant: a waiting task is an application task that is blocked,
\* and what it waits for is not there.
Asleep == {"eventgroup", "sleeping"}

WaitersSleep == \A i \in Tasks : Waiting(i) => i \in AppTasks /\ state[i] \in Asleep

Awaited == \A i \in Tasks : Waiting(i) => alive /\ ~Met(bits, want[i])

EInv == TypeOK /\ Settled /\ CurrentRuns /\ WaitersSleep /\ Awaited

\* What a step tells the tasks whose wait it ends.
Tells ==
    \A i \in AppTasks :
       Waiting(i) /\ "eg" \notin waits'[i] /\ state'[i] # "suspended" =>
          /\ ended'[i] = "met" => Met(ret'[i], want[i])
          /\ ended'[i] = "timeout" => ret'[i] = bits' /\ ~Met(ret'[i], want[i])
          /\ ended'[i] # "no"

Endings == {"no", "met", "polled", "timeout", "deleted"}

\* The group's variables keep their types.
EventTypes ==
    /\ alive' \in BOOLEAN /\ bits' \subseteq Bits /\ want' \in [Tasks -> Wants]
    /\ ret' \in [Tasks -> SUBSET Bits] /\ ended' \in [Tasks -> Endings]

\* What is left to show of a step.
LEMMA Assemble ==
    ASSUME EInv, SchedTypeOK', Settled', CurrentRuns', EventTypes,
           \A i \in Tasks : "eg" \in waits'[i] =>
              /\ i \in AppTasks /\ state'[i] \in Asleep
              /\ alive' /\ ~Met(bits', want'[i])
    PROVE  EInv'
<1>1. TypeOK'
  BY DEF TypeOK, EventTypes, Endings
<1>2. WaitersSleep' /\ Awaited'
  BY DEF WaitersSleep, Awaited, Waiting, Asleep, Met
<1> QED BY <1>1, <1>2 DEF EInv

\* What the invariant says of the tasks and the group.
LEMMA Facts ==
    ASSUME EInv
    PROVE  /\ SchedTypeOK /\ Settled /\ CurrentRuns /\ TypeOK
           /\ AppTasks \subseteq Tasks /\ Tasks = 1 .. task_count
           /\ alive \in BOOLEAN /\ bits \in SUBSET Bits
           /\ want \in [Tasks -> Wants] /\ ret \in [Tasks -> SUBSET Bits]
           /\ ended \in [Tasks -> Endings]
           /\ state \in [Tasks -> States] /\ waits \in [Tasks -> SUBSET WaitKinds]
           /\ NoWant \in Wants
           /\ NothingEnded \in [Tasks -> Endings]
           /\ \A i \in Tasks : Waiting(i) =>
                 /\ i \in AppTasks /\ state[i] \in Asleep /\ alive
                 /\ ~Met(bits, want[i]) /\ \A c \in Cores : current[c] # i
<1>1. /\ SchedTypeOK /\ Settled /\ CurrentRuns /\ TypeOK
      /\ state \in [Tasks -> States] /\ waits \in [Tasks -> SUBSET WaitKinds]
      /\ alive \in BOOLEAN /\ bits \in SUBSET Bits
      /\ want \in [Tasks -> Wants] /\ ret \in [Tasks -> SUBSET Bits]
      /\ ended \in [Tasks -> Endings]
  BY DEF EInv, TypeOK, SchedTypeOK, Endings
<1>2. AppTasks \subseteq Tasks /\ Tasks = 1 .. task_count
  BY <1>1, SchedAssumption DEF AppTasks, Tasks, Settled
<1>3. NoWant \in Wants
  BY EventAssumption DEF NoWant, Wants, Events
<1>4. NothingEnded \in [Tasks -> Endings]
  BY DEF NothingEnded, Endings
<1>5. \A i \in Tasks : Waiting(i) =>
         /\ i \in AppTasks /\ state[i] \in Asleep /\ alive /\ ~Met(bits, want[i])
  BY DEF EInv, WaitersSleep, Awaited
<1>6. \A i \in Tasks : Waiting(i) => \A c \in Cores : current[c] # i
  BY <1>1, <1>5 DEF CurrentRuns, Asleep
<1> QED BY <1>1, <1>2, <1>3, <1>4, <1>5, <1>6

\* A call that touches no task and at most clears bits.
LEMMA StillStep ==
    ASSUME EInv, NoSwitch, UNCHANGED want, alive => alive', EventTypes,
           alive => bits' \subseteq bits
    PROVE  EInv' /\ Tells
<1>1. /\ SchedTypeOK' /\ Settled' /\ CurrentRuns'
      /\ state' = state /\ waits' = waits
  <2>1. /\ task_count' = task_count /\ attr' = attr /\ idle_task' = idle_task
        /\ idle_ready' = idle_ready /\ state' = state /\ waits' = waits
        /\ wake' = wake /\ saved' = saved /\ current' = current /\ exec' = exec
        /\ running' = running /\ halted' = halted /\ slice' = slice
        /\ scheduler_started' = scheduler_started /\ guest_call' = guest_call
    BY DEF NoSwitch, schedVars
  <2>2. SchedTypeOK'
    BY <2>1, Facts DEF SchedTypeOK
  <2>3. Settled' /\ CurrentRuns'
    BY <2>1, Facts DEF Settled, CurrentRuns
  <2> QED BY <2>1, <2>2, <2>3
<1>2. ASSUME NEW i \in Tasks, "eg" \in waits'[i]
      PROVE  /\ i \in AppTasks /\ state'[i] \in Asleep
             /\ alive' /\ ~Met(bits', want'[i])
  <2>1. /\ i \in AppTasks /\ state[i] \in Asleep /\ alive
        /\ ~Met(bits, want[i]) /\ want[i] \in Wants
    BY <1>1, <1>2, Facts DEF Waiting
  <2>2. ~Met(bits', want[i])
    BY <2>1, MetShrinks
  <2> QED BY <1>1, <2>1, <2>2
<1>3. EInv'
  BY <1>1, <1>2, Assemble
<1>4. Tells
  BY <1>1, Facts DEF Tells, Waiting
<1> QED BY <1>3, <1>4

\* The TCBs once everybody in W has been made runnable.
LEMMA ReleasedEffect ==
    ASSUME EInv, NEW W \in SUBSET Tasks
    PROVE  /\ Released(Tcbs, W) \in TcbSet
           /\ Released(Tcbs, W).wake = wake
           /\ \A i \in Tasks :
                /\ Released(Tcbs, W).state[i] =
                     IF i \in W THEN ReleasedState(i) ELSE state[i]
                /\ Released(Tcbs, W).waits[i] =
                     IF i \in W THEN waits[i] \ {"eg"} ELSE waits[i]
           /\ \A k \in Cores : current[k] \in AppTasks =>
                 Released(Tcbs, W).state[current[k]] = "running"
<1> DEFINE s == [i \in Tasks |-> IF i \in W THEN ReleasedState(i) ELSE state[i]]
           w == [i \in Tasks |-> IF i \in W THEN waits[i] \ {"eg"} ELSE waits[i]]
           R == Released(Tcbs, W)
<1>1. \A i : ReleasedState(i) \in {"running", "ready"}
  BY DEF ReleasedState
<1>2. s \in [Tasks -> States] /\ w \in [Tasks -> SUBSET WaitKinds]
  BY <1>1, Facts DEF States
<1>3. Tcbs \in TcbSet /\ Tcbs.state = state /\ Tcbs.waits = waits /\ Tcbs.wake = wake
  BY Facts, TcbsTyped DEF Tcbs
<1>4. R = [Tcbs EXCEPT !.state = s, !.waits = w]
  BY <1>3 DEF Released
<1> HIDE DEF s, w, R
<1>5. R \in TcbSet /\ R.state = s /\ R.waits = w /\ R.wake = wake
  BY <1>2, <1>3, <1>4 DEF TcbSet
<1>6. \A i \in Tasks :
         /\ R.state[i] = IF i \in W THEN ReleasedState(i) ELSE state[i]
         /\ R.waits[i] = IF i \in W THEN waits[i] \ {"eg"} ELSE waits[i]
  BY <1>5 DEF s, w
<1>7. ASSUME NEW k \in Cores, current[k] \in AppTasks
      PROVE  R.state[current[k]] = "running"
  <2>1. current[k] \in Tasks /\ state[current[k]] = "running"
    BY <1>7, Facts DEF CurrentRuns
  <2>2. ReleasedState(current[k]) = "running"
    BY DEF ReleasedState, CurrentOn
  <2> QED BY <1>6, <2>1, <2>2
<1> QED BY <1>5, <1>6, <1>7 DEF R

\* eg_set_bits(): the waits that the new bits satisfy end, and the tasks that
\* go on waiting wait for something that is not there.
LEMMA ReleaseStep ==
    ASSUME EInv, alive, NEW b \in SUBSET Bits, NEW w, w = WakeWaiters(b),
           Commit(Released(Tcbs, w.woken)), Unpark(w.woken),
           UNCHANGED <<tableVars, current, exec, slice, scheduler_started, guest_call,
                       alive>>,
           bits' \subseteq w.bits, EventTypes,
           want' = [i \in Tasks |-> IF i \in w.woken THEN NoWant ELSE want[i]],
           \A i \in w.woken : ended'[i] = "met" /\ ret'[i] = w.ret[i]
    PROVE  EInv' /\ Tells
<1> DEFINE W == w.woken
           R == Released(Tcbs, W)
<1>1. /\ w \in Accs /\ W \in SUBSET Tasks
      /\ \A i \in Tasks : i \in W => Waiting(i) /\ Met(w.ret[i], want[i])
      /\ \A i \in Tasks : Waiting(i) /\ i \notin W => ~Met(w.bits, want[i])
  <2>1. Passed(b, task_count, w)
    BY Facts, PassSound
  <2> QED BY <2>1, Facts DEF Passed, Accs
<1>2. /\ R \in TcbSet
      /\ \A i \in Tasks :
           /\ R.state[i] = IF i \in W THEN ReleasedState(i) ELSE state[i]
           /\ R.waits[i] = IF i \in W THEN waits[i] \ {"eg"} ELSE waits[i]
      /\ \A k \in Cores : current[k] \in AppTasks => R.state[current[k]] = "running"
  BY <1>1, ReleasedEffect
<1>3. Commit(R)
  OBVIOUS
<1>4. running' \in [Cores -> BOOLEAN] /\ halted' \in [Cores -> BOOLEAN]
  BY Facts DEF Unpark, SchedTypeOK
<1> HIDE DEF R
<1>5. /\ SchedTypeOK' /\ Settled' /\ state' = R.state /\ waits' = R.waits
  BY <1>2, <1>3, <1>4, Facts, CommitEffect
<1>6. CurrentRuns'
  BY <1>2, <1>5, Facts DEF CurrentRuns
<1>7. ASSUME NEW i \in Tasks, "eg" \in waits'[i]
      PROVE  /\ i \in AppTasks /\ state'[i] \in Asleep
             /\ alive' /\ ~Met(bits', want'[i])
  <2>1. i \notin W /\ Waiting(i)
    BY <1>2, <1>5, <1>7 DEF Waiting
  <2>2. /\ i \in AppTasks /\ state[i] \in Asleep /\ want[i] \in Wants
        /\ want'[i] = want[i]
    BY <2>1, Facts
  <2>3. ~Met(w.bits, want[i])
    BY <1>1, <2>1
  <2>4. ~Met(bits', want[i])
    BY <2>2, <2>3, MetShrinks
  <2> QED BY <1>2, <1>5, <2>1, <2>2, <2>4
<1>8. EInv'
  BY <1>5, <1>6, <1>7, Assemble
<1>9. ASSUME NEW i \in AppTasks, Waiting(i), "eg" \notin waits'[i]
      PROVE  ended'[i] = "met" /\ Met(ret'[i], want[i])
  <2>1. i \in Tasks /\ i \in W
    BY <1>2, <1>5, <1>9, Facts DEF Waiting
  <2> QED BY <1>1, <2>1
<1>10. Tells
  BY <1>9 DEF Tells
<1> QED BY <1>8, <1>10

\* xEventGroupSetBits.
LEMMA SetStep ==
    ASSUME EInv, NEW c \in Cores, NEW b \in Events, SetBits(c, b)
    PROVE  EInv' /\ Tells
<1> DEFINE w == WakeWaiters(bits \cup b)
<1>1. /\ alive /\ bits' = w.bits /\ ret' = w.ret /\ Over(w.woken, "met")
      /\ Commit(Released(Tcbs, w.woken)) /\ Unpark(w.woken)
      /\ UNCHANGED <<tableVars, current, exec, slice, scheduler_started,
                     guest_call, alive>>
  BY DEF SetBits
<1>2. bits \cup b \in SUBSET Bits
  BY Facts DEF Events
<1>3. w \in Accs /\ w.woken \in SUBSET Tasks /\ w.bits \in SUBSET Bits
      /\ w.ret \in [Tasks -> SUBSET Bits]
  <2>1. Passed(bits \cup b, task_count, w)
    BY <1>2, Facts, PassSound
  <2> QED BY <2>1 DEF Passed, Accs
<1> DEFINE nb == bits \cup b
<1>4. w = WakeWaiters(nb)
  OBVIOUS
<1> HIDE DEF w, nb
<1>5. /\ ended' = [i \in Tasks |-> IF i \in w.woken THEN "met" ELSE "no"]
      /\ want' = [i \in Tasks |-> IF i \in w.woken THEN NoWant ELSE want[i]]
  BY <1>1 DEF Over
<1>6. EventTypes
  <2>1. ended' \in [Tasks -> Endings]
    BY <1>5 DEF Endings
  <2>2. want' \in [Tasks -> Wants]
    BY <1>5, Facts
  <2> QED BY <1>1, <1>3, <2>1, <2>2, Facts DEF EventTypes
<1>7. \A i \in w.woken : ended'[i] = "met" /\ ret'[i] = w.ret[i]
  BY <1>1, <1>3, <1>5
<1>8. nb \in SUBSET Bits /\ bits' \subseteq w.bits
  BY <1>1, <1>2 DEF nb
<1> QED BY <1>1, <1>4, <1>5, <1>6, <1>7, <1>8, ReleaseStep

\* The TCBs T after the waits of W have been completed, everything else untouched.
Freed(T, W) ==
    /\ T.wake = wake
    /\ \A i \in Tasks :
          /\ T.state[i] = IF i \in W THEN ReleasedState(i) ELSE state[i]
          /\ T.waits[i] = IF i \in W THEN waits[i] \ {"eg"} ELSE waits[i]
    /\ \A k \in Cores : current[k] \in AppTasks => T.state[current[k]] = "running"

\* The tasks of W got, in r, bits that satisfy them; b satisfies no other waiter.
Answered(b, W, r) ==
    /\ \A i \in Tasks : i \in W => Waiting(i) /\ Met(r[i], want[i])
    /\ \A i \in Tasks : Waiting(i) /\ i \notin W => ~Met(b, want[i])

\* eg_wait() that blocks, after the waits of W have been completed: the dispatch
\* ends the waits whose deadline has passed, and no other.
LEMMA BlockStep ==
    ASSUME EInv, alive, NEW c \in Cores, current[c] \in AppTasks, NEW w \in Wants,
           NEW timeout \in Timeouts \cup {0}, NEW b \in SUBSET Bits,
           NEW W \in SUBSET Tasks, NEW r \in [Tasks -> SUBSET Bits], NEW T \in TcbSet,
           Freed(T, W), Answered(b, W, r),
           ~Met(b, w), Blocks(c, w, timeout, b, T, W, r),
           UNCHANGED <<scheduler_started, guest_call, alive>>
    PROVE  EInv' /\ Tells
<1> USE DEF Freed, Answered
<1> DEFINE me == current[c]
           E  == TimedOut \ W
<1>1. /\ timeout \in Timeouts /\ bits' = b
      /\ ret' = [i \in Tasks |-> IF i \in {me} \cup E THEN b ELSE r[i]]
      /\ ended' = [i \in Tasks |-> IF i \in W THEN "met"
                                   ELSE IF i \in E THEN "timeout" ELSE "no"]
      /\ want' = [i \in Tasks |-> IF i = me THEN w
                                  ELSE IF i \in W \cup E THEN NoWant ELSE want[i]]
      /\ SchedSwitch(c, WaitFor(c, "eventgroup", {"eg"}, timeout, SaveContext(c, T)))
  BY DEF Blocks
<1>2. /\ "eventgroup" \in States \ {"ready", "running", "sleeping", "unused"}
      /\ {"eg"} \in SUBSET WaitKinds
  BY DEF States, WaitKinds
<1>3. /\ SchedTypeOK' /\ Settled' /\ CurrentRuns'
      /\ me \in Tasks /\ waits'[me] = T.waits[me] \cup {"eg"}
      /\ state'[me] \in Asleep
      /\ \A i \in Tasks : i # me => MovesFrom(T, i)
  <2> DEFINE s  == "eventgroup"
             fl == {"eg"}
  <2>1. /\ s \in States \ {"ready", "running", "sleeping", "unused"}
        /\ fl \in SUBSET WaitKinds
        /\ SchedSwitch(c, WaitFor(c, s, fl, timeout, SaveContext(c, T)))
    BY <1>1, <1>2
  <2>2. /\ SchedTypeOK /\ Settled /\ CurrentRuns /\ timeout \in Timeouts
        /\ UNCHANGED <<scheduler_started, guest_call>>
    BY <1>1, Facts
  <2> HIDE DEF s, fl, me
  <2>3. /\ SchedTypeOK' /\ Settled' /\ CurrentRuns'
        /\ me \in Tasks /\ waits'[me] = T.waits[me] \cup fl
        /\ me \in AppTasks => state'[me] \in {s, "sleeping"}
        /\ \A i \in Tasks : i # me => MovesFrom(T, i)
    BY <2>1, <2>2, BlockFrom DEF me
  <2> QED BY <2>3 DEF s, fl, me, Asleep
<1>4. me \notin W /\ ~Waiting(me) /\ me \notin E
  BY <1>3, Facts DEF TimedOut
<1>5. \A i \in Tasks : i \in E <=> Expired(Tcbs, i) /\ Waiting(i) /\ i \notin W
  BY DEF TimedOut
<1>6. ASSUME NEW i \in Tasks, i # me, i \in W
      PROVE  "eg" \notin waits'[i] /\ ret'[i] = r[i] /\ ended'[i] = "met"
  <2>1. ~Expired(T, i)
    BY <1>6 DEF Expired, ReleasedState
  <2>2. waits'[i] = waits[i] \ {"eg"}
    BY <1>3, <1>6, <2>1 DEF MovesFrom
  <2>3. i \notin {me} \cup E
    BY <1>6
  <2> QED BY <1>1, <1>6, <2>2, <2>3
<1>7. ASSUME NEW i \in Tasks, i # me, i \notin W
      PROVE  /\ Expired(T, i) <=> Expired(Tcbs, i)
             /\ Expired(T, i) => "eg" \notin waits'[i]
             /\ ~Expired(T, i) => waits'[i] = waits[i]
             /\ ~Expired(T, i) /\ Waiting(i) => state'[i] = state[i]
  <2>1. T.state[i] = state[i] /\ T.waits[i] = waits[i] /\ T.wake[i] = wake[i]
    BY <1>7
  <2>2. Expired(T, i) <=> Expired(Tcbs, i)
    BY <2>1 DEF Expired, Tcbs
  <2>3. ASSUME Expired(T, i)
        PROVE  "eg" \notin waits'[i]
    <3>1. waits'[i] = IF "q" \in T.waits[i] THEN {} ELSE T.waits[i] \cap {"sender"}
      BY <1>3, <1>7, <2>3 DEF MovesFrom
    <3> QED BY <3>1
  <2>4. ~Expired(T, i) => waits'[i] = waits[i]
    BY <1>3, <1>7, <2>1 DEF MovesFrom
  <2>5. ~Expired(T, i) /\ Waiting(i) => state'[i] = state[i]
    BY <1>3, <1>7, <2>1, Facts DEF MovesFrom, Asleep
  <2> QED BY <2>2, <2>3, <2>4, <2>5
<1> HIDE DEF E
<1>8. EventTypes
  <2>1. ended' \in [Tasks -> Endings]
    BY <1>1 DEF Endings
  <2>2. want' \in [Tasks -> Wants]
    BY <1>1, Facts
  <2>3. ret' \in [Tasks -> SUBSET Bits]
    BY <1>1
  <2> QED BY <1>1, <2>1, <2>2, <2>3, Facts DEF EventTypes
<1>9. ASSUME NEW i \in Tasks, "eg" \in waits'[i]
      PROVE  /\ i \in AppTasks /\ state'[i] \in Asleep
             /\ alive' /\ ~Met(bits', want'[i])
  <2>1. CASE i = me
    BY <1>1, <1>3, <2>1
  <2>2. CASE i # me
    <3>1. i \notin W /\ ~Expired(Tcbs, i) /\ Waiting(i) /\ state'[i] = state[i]
      BY <1>6, <1>7, <1>9, <2>2 DEF Waiting
    <3>2. i \notin W \cup E /\ want'[i] = want[i]
      BY <1>1, <1>5, <2>2, <3>1
    <3>3. i \in AppTasks /\ state[i] \in Asleep
      BY <3>1, Facts
    <3> QED BY <1>1, <3>1, <3>2, <3>3
  <2> QED BY <2>1, <2>2
<1>10. EInv'
  BY <1>3, <1>8, <1>9, Assemble
<1>11. ASSUME NEW i \in AppTasks, Waiting(i), "eg" \notin waits'[i]
       PROVE  \/ ended'[i] = "met" /\ Met(ret'[i], want[i])
              \/ ended'[i] = "timeout" /\ ret'[i] = bits' /\ ~Met(ret'[i], want[i])
  <2>1. i \in Tasks /\ i # me
    BY <1>4, <1>11, Facts
  <2>2. CASE i \in W
    BY <1>6, <2>1, <2>2
  <2>3. CASE i \notin W
    <3>1. i \in E
      BY <1>5, <1>7, <1>11, <2>1, <2>3 DEF Waiting
    <3>2. ended'[i] = "timeout" /\ ret'[i] = b
      BY <1>1, <2>1, <2>3, <3>1
    <3> QED BY <1>1, <1>11, <2>1, <2>3, <3>2
  <2> QED BY <2>2, <2>3
<1>12. Tells
  BY <1>11 DEF Tells
<1> QED BY <1>10, <1>12

\* xEventGroupWaitBits.
LEMMA WaitStep ==
    ASSUME EInv, NEW c \in Cores, NEW w \in Wants, NEW timeout \in Timeouts \cup {0},
           XEventGroupWaitBits(c, w, timeout)
    PROVE  EInv' /\ Tells
<1>1. alive /\ current[c] \in AppTasks /\ current[c] \in Tasks
  BY Facts DEF XEventGroupWaitBits, AppCall
<1>2. CASE Returns(current[c], w, timeout)
  <2>1. /\ bits' = IF Met(bits, w) /\ w.clear THEN bits \ w.bits ELSE bits
        /\ ret' = [ret EXCEPT ![current[c]] = bits]
        /\ ended' = [i \in Tasks |-> IF i # current[c] THEN "no"
                                     ELSE IF Met(bits, w) THEN "met" ELSE "polled"]
        /\ NoSwitch /\ UNCHANGED <<alive, want>>
    BY <1>2 DEF Returns
  <2>2. ended' \in [Tasks -> Endings]
    BY <2>1 DEF Endings
  <2>3. bits' \subseteq bits /\ ret' \in [Tasks -> SUBSET Bits]
    BY <1>1, <2>1, Facts
  <2>4. EventTypes
    BY <2>1, <2>2, <2>3, Facts DEF EventTypes
  <2> QED BY <2>1, <2>3, <2>4, StillStep
<1>3. CASE /\ ~Met(bits, w)
           /\ Blocks(c, w, timeout, bits, Tcbs, {}, ret)
           /\ UNCHANGED <<scheduler_started, guest_call, alive>>
  <2> DEFINE W == {i \in Tasks : FALSE}
  <2>1. W = {} /\ W \in SUBSET Tasks /\ \A i \in Tasks : i \notin W
    OBVIOUS
  <2>2. /\ Tcbs \in TcbSet /\ Tcbs.state = state /\ Tcbs.waits = waits
        /\ Tcbs.wake = wake
    BY Facts, TcbsTyped DEF Tcbs
  <2>3. \A k \in Cores : current[k] \in AppTasks => Tcbs.state[current[k]] = "running"
    BY <2>2, Facts DEF CurrentRuns
  <2>4. Blocks(c, w, timeout, bits, Tcbs, W, ret)
    BY <1>3, <2>1
  <2>5. Freed(Tcbs, W) /\ Answered(bits, W, ret)
    BY <2>1, <2>2, <2>3, Facts DEF Freed, Answered
  <2> HIDE DEF W
  <2>6. bits \in SUBSET Bits /\ ret \in [Tasks -> SUBSET Bits]
    BY Facts
  <2> QED BY <1>1, <1>3, <2>1, <2>2, <2>4, <2>5, <2>6, BlockStep
<1> QED BY <1>2, <1>3 DEF XEventGroupWaitBits

\* xEventGroupSync: what it sets may complete other waits, and clear what it then
\* waits for itself.
LEMMA SyncStep ==
    ASSUME EInv, NEW c \in Cores, NEW e \in Events, NEW b \in SUBSET e,
           NEW timeout \in Timeouts \cup {0}, XEventGroupSync(c, b, Meeting(e), timeout)
    PROVE  EInv' /\ Tells
<1> DEFINE me  == current[c]
           nb  == bits \cup b
           set == WakeWaiters(nb)
           w   == Meeting(e)
<1>1. /\ alive /\ me \in AppTasks /\ me \in Tasks
      /\ UNCHANGED <<scheduler_started, guest_call, alive>>
  BY Facts DEF XEventGroupSync, AppCall
<1>2. w \in Wants
  <2> DEFINE many == Cardinality(e) > 1
             m    == [bits |-> e, all |-> many, clear |-> TRUE]
  <2>1. many \in BOOLEAN /\ w = m /\ (many => Cardinality(e) > 1)
    BY DEF Meeting
  <2> HIDE DEF many
  <2>2. m \in [bits : Events, all : BOOLEAN, clear : BOOLEAN]
    BY <2>1
  <2>3. m.all = many /\ m.bits = e
    OBVIOUS
  <2> HIDE DEF m
  <2> QED BY <2>1, <2>2, <2>3 DEF Wants
<1>3. nb \in SUBSET Bits
  BY Facts DEF Events
<1>4. /\ set.woken \in SUBSET Tasks /\ set.bits \in SUBSET Bits
      /\ set.ret \in [Tasks -> SUBSET Bits]
      /\ \A i \in Tasks : i \in set.woken => Waiting(i) /\ Met(set.ret[i], want[i])
      /\ \A i \in Tasks : Waiting(i) /\ i \notin set.woken => ~Met(set.bits, want[i])
  <2>1. Passed(nb, task_count, set)
    BY <1>3, Facts, PassSound
  <2> HIDE DEF set, nb
  <2> QED BY <2>1, Facts DEF Passed, Accs
<1>5. me \notin set.woken
  BY <1>1, <1>4, Facts
<1>6. CASE Met(set.bits, w) \/ timeout = 0
  <2>1. /\ bits' = IF Met(set.bits, w) THEN set.bits \ w.bits ELSE set.bits
        /\ ret' = [set.ret EXCEPT ![me] = set.bits]
        /\ ended' = [i \in Tasks |->
                       IF i \in set.woken \/ (i = me /\ Met(set.bits, w)) THEN "met"
                       ELSE IF i = me THEN "polled" ELSE "no"]
        /\ want' = [i \in Tasks |-> IF i \in set.woken THEN NoWant ELSE want[i]]
        /\ Commit(Released(Tcbs, set.woken)) /\ Unpark(set.woken)
        /\ UNCHANGED <<tableVars, current, exec, slice>>
    BY <1>6 DEF XEventGroupSync
  <2>2. set = WakeWaiters(nb)
    OBVIOUS
  <2> HIDE DEF set, nb, w
  <2>3. ended' \in [Tasks -> Endings]
    BY <2>1 DEF Endings
  <2>4. want' \in [Tasks -> Wants]
    BY <2>1, Facts
  <2>5. bits' \subseteq set.bits /\ ret' \in [Tasks -> SUBSET Bits]
    BY <1>1, <1>4, <2>1
  <2>6. EventTypes
    BY <1>1, <1>4, <2>3, <2>4, <2>5, Facts DEF EventTypes
  <2>7. \A i \in set.woken : ended'[i] = "met" /\ ret'[i] = set.ret[i]
    BY <1>4, <1>5, <2>1
  <2>8. UNCHANGED <<tableVars, current, exec, slice, scheduler_started, guest_call,
                    alive>>
    BY <1>1, <2>1
  <2> QED BY <1>1, <1>3, <2>1, <2>2, <2>5, <2>6, <2>7, <2>8, ReleaseStep
<1>7. CASE ~(Met(set.bits, w) \/ timeout = 0)
  <2> DEFINE T == Released(Tcbs, set.woken)
             W == set.woken
  <2>1. Blocks(c, w, timeout, set.bits, T, W, set.ret)
    BY <1>7 DEF XEventGroupSync
  <2>2. T \in TcbSet /\ Freed(T, W)
    BY <1>4, ReleasedEffect DEF Freed
  <2> DEFINE sb == set.bits
             r  == set.ret
  <2>3. /\ W \in SUBSET Tasks /\ sb \in SUBSET Bits /\ r \in [Tasks -> SUBSET Bits]
        /\ Answered(sb, W, r)
        /\ Blocks(c, w, timeout, sb, T, W, r) /\ ~Met(sb, w)
    BY <1>4, <1>7, <2>1 DEF Answered
  <2>4. /\ current[c] \in AppTasks /\ alive
        /\ UNCHANGED <<scheduler_started, guest_call, alive>>
    BY <1>1
  <2> HIDE DEF set, nb, w, T, W, sb, r
  <2> QED BY <1>2, <2>2, <2>3, <2>4, BlockStep
<1> QED BY <1>6, <1>7

\* vEventGroupDelete: nobody is left behind.
LEMMA DeleteStep ==
    ASSUME EInv, NEW c \in Cores, VEventGroupDelete(c)
    PROVE  EInv' /\ Tells
<1> DEFINE W == {i \in 1 .. task_count : Waiting(i)}
           s == [i \in Tasks |-> IF i \in W THEN "ready" ELSE state[i]]
           T == [Released(Tcbs, W) EXCEPT !.state = s]
<1>1. /\ alive' = FALSE /\ bits' = {}
      /\ ret' = [i \in Tasks |-> IF i \in W THEN {} ELSE ret[i]]
      /\ Over(W, "deleted") /\ Commit(T)
      /\ UNCHANGED <<tableVars, coreVars, scheduler_started, guest_call>>
  BY DEF VEventGroupDelete
<1>2. W \in SUBSET Tasks /\ \A i \in Tasks : i \in W <=> Waiting(i)
  BY Facts
<1>3. s \in [Tasks -> States]
  BY Facts DEF States
<1>4. /\ Released(Tcbs, W) \in TcbSet
      /\ \A i \in Tasks : Released(Tcbs, W).waits[i] =
                            IF i \in W THEN waits[i] \ {"eg"} ELSE waits[i]
  BY <1>2, ReleasedEffect
<1> HIDE DEF s
<1>5. T \in TcbSet /\ T.state = s /\ T.waits = Released(Tcbs, W).waits
  BY <1>3, <1>4 DEF TcbSet
<1>6. /\ ended' = [i \in Tasks |-> IF i \in W THEN "deleted" ELSE "no"]
      /\ want' = [i \in Tasks |-> IF i \in W THEN NoWant ELSE want[i]]
  BY <1>1 DEF Over
<1> HIDE DEF T, W
<1>7. UNCHANGED <<tableVars, current, exec, slice, scheduler_started, guest_call>>
      /\ running' \in [Cores -> BOOLEAN] /\ halted' \in [Cores -> BOOLEAN]
  BY <1>1, Facts DEF coreVars, SchedTypeOK
<1>8. SchedTypeOK' /\ Settled' /\ state' = s /\ waits' = T.waits
  BY <1>1, <1>5, <1>7, Facts, CommitEffect
<1>9. \A i \in Tasks : "eg" \notin waits'[i]
  BY <1>2, <1>4, <1>5, <1>8 DEF Waiting
<1>10. CurrentRuns'
  <2>1. \A i \in Tasks : state'[i] = IF i \in W THEN "ready" ELSE state[i]
    BY <1>8 DEF s
  <2>2. \A k \in Cores : current[k] \in AppTasks => current[k] \in Tasks /\ current[k] \notin W
    BY <1>2, Facts
  <2> QED BY <1>7, <2>1, <2>2, Facts DEF CurrentRuns
<1>11. EventTypes
  <2>1. ended' \in [Tasks -> Endings]
    BY <1>6 DEF Endings
  <2>2. want' \in [Tasks -> Wants] /\ ret' \in [Tasks -> SUBSET Bits]
    BY <1>1, <1>6, Facts
  <2> QED BY <1>1, <2>1, <2>2, Facts DEF EventTypes
<1>12. EInv'
  BY <1>8, <1>9, <1>10, <1>11, Assemble
<1>13. Tells
  <2>1. \A i \in AppTasks : Waiting(i) => ended'[i] = "deleted"
    BY <1>2, <1>6, Facts
  <2> QED BY <2>1 DEF Tells
<1> QED BY <1>12, <1>13

\* vTaskSuspend abandons a wait, vTaskResume finds none.
LEMMA TaskStep ==
    ASSUME EInv, NEW c \in Cores, NEW j \in AppTasks,
           VTaskSuspend(c, j) \/ VTaskResume(c, j)
    PROVE  EInv' /\ Tells
<1>1. j \in Tasks
  BY Facts
<1>2. ASSUME NEW st \in {"suspended", "ready"}, NEW w \in SUBSET WaitKinds,
             Edited(j, st, w),
             UNCHANGED <<tableVars, coreVars, scheduler_started, guest_call, alive,
                         bits, ret>>,
             \A k \in Cores : current[k] # j,
             "eg" \notin w, st = "ready" => ~Waiting(j),
             ended' = NothingEnded,
             want' \in {want, [want EXCEPT ![j] = NoWant]}
      PROVE  EInv' /\ Tells
  <2>1. /\ UNCHANGED <<tableVars, current, exec, slice, scheduler_started, guest_call>>
        /\ running' \in [Cores -> BOOLEAN] /\ halted' \in [Cores -> BOOLEAN]
    BY <1>2, Facts DEF coreVars, SchedTypeOK
  <2>2. st \in States /\ st # "running"
    BY <1>2 DEF States
  <2>3. /\ SchedTypeOK' /\ Settled' /\ CurrentRuns'
        /\ state' = [state EXCEPT ![j] = st] /\ waits' = [waits EXCEPT ![j] = w]
    BY <1>1, <1>2, <2>1, <2>2, Facts, EditEffect
  <2>4. EventTypes
    BY <1>1, <1>2, Facts DEF EventTypes
  <2>5. \A i \in Tasks : IF i = j THEN state'[i] = st /\ waits'[i] = w
                         ELSE state'[i] = state[i] /\ waits'[i] = waits[i]
    BY <1>1, <2>3, Facts
  <2>6. \A i \in Tasks : i # j => want'[i] = want[i]
    BY <1>1, <1>2, Facts
  <2>7. ASSUME NEW i \in Tasks, "eg" \in waits'[i]
        PROVE  /\ i \in AppTasks /\ state'[i] \in Asleep
               /\ alive' /\ ~Met(bits', want'[i])
    <3>1. i # j /\ Waiting(i) /\ state'[i] = state[i] /\ want'[i] = want[i]
      BY <1>2, <2>5, <2>6, <2>7 DEF Waiting
    <3> QED BY <1>2, <3>1, Facts
  <2>8. EInv'
    BY <2>3, <2>4, <2>7, Assemble
  <2>9. Tells
    BY <1>1, <1>2, <2>5, Facts DEF Tells, Waiting
  <2> QED BY <2>8, <2>9
<1>3. CASE VTaskSuspend(c, j)
  <2> DEFINE w == waits[j] \ {"q", "eg", "notify"}
  <2>1. /\ Edited(j, "suspended", w)
        /\ UNCHANGED <<tableVars, coreVars, scheduler_started, guest_call, alive,
                       bits, ret>>
        /\ \A k \in Cores : current[k] # j
        /\ ended' = NothingEnded /\ want' = [want EXCEPT ![j] = NoWant]
    BY <1>3 DEF VTaskSuspend, Other, Edited, Tcbs
  <2>2. w \in SUBSET WaitKinds /\ "eg" \notin w
    BY <1>1, Facts
  <2> HIDE DEF w
  <2> QED BY <1>2, <2>1, <2>2
<1>4. CASE VTaskResume(c, j)
  <2>1. /\ Commit([Tcbs EXCEPT !.state[j] = "ready"])
        /\ UNCHANGED <<tableVars, coreVars, scheduler_started, guest_call, alive,
                       bits, want, ret>>
        /\ \A k \in Cores : current[k] # j
        /\ ended' = NothingEnded /\ state[j] = "suspended"
    BY <1>4 DEF VTaskResume, Other
  <2>2. ~Waiting(j)
    BY <1>1, <2>1, Facts DEF Asleep
  <2>3. Edited(j, "ready", waits[j])
    BY <1>1, <2>1, Facts, StateEdited
  <2>4. waits[j] \in SUBSET WaitKinds /\ "eg" \notin waits[j]
    BY <1>1, <2>2, Facts DEF Waiting
  <2> QED BY <1>2, <2>1, <2>2, <2>3, <2>4
<1> QED BY <1>3, <1>4

\* A batch boundary: a core is preempted, and the waits that have timed out end
\* with the bits as they stand.
LEMMA PreemptStep ==
    ASSUME EInv, NEW c \in Cores, CheckPreempt(c)
    PROVE  EInv' /\ Tells
<1>1. /\ Preempt(c) /\ UNCHANGED <<scheduler_started, guest_call, alive, bits>>
      /\ ret' = [i \in Tasks |-> IF i \in TimedOut THEN bits ELSE ret[i]]
      /\ ended' = [i \in Tasks |-> IF i \in TimedOut THEN "timeout" ELSE "no"]
      /\ want' = [i \in Tasks |-> IF i \in TimedOut THEN NoWant ELSE want[i]]
  BY DEF CheckPreempt, Over
<1>2. /\ SchedTypeOK' /\ Settled' /\ CurrentRuns'
      /\ \A i \in Tasks : MovesFrom(Tcbs, i)
  BY <1>1, Facts, PreemptMoves
<1>3. Tcbs.state = state /\ Tcbs.waits = waits
  BY DEF Tcbs
<1>4. ASSUME NEW i \in Tasks
      PROVE  /\ Expired(Tcbs, i) => "eg" \notin waits'[i]
             /\ ~Expired(Tcbs, i) => waits'[i] = waits[i]
             /\ ~Expired(Tcbs, i) /\ Waiting(i) => state'[i] = state[i]
             /\ i \in TimedOut <=> Expired(Tcbs, i) /\ Waiting(i)
  <2>1. ASSUME Expired(Tcbs, i)
        PROVE  "eg" \notin waits'[i]
    <3>1. waits'[i] = IF "q" \in waits[i] THEN {} ELSE waits[i] \cap {"sender"}
      BY <1>2, <1>3, <2>1 DEF MovesFrom
    <3> QED BY <3>1
  <2>2. ~Expired(Tcbs, i) => waits'[i] = waits[i]
    BY <1>2, <1>3 DEF MovesFrom
  <2>3. ~Expired(Tcbs, i) /\ Waiting(i) => state'[i] = state[i]
    BY <1>2, <1>3, Facts DEF MovesFrom, Asleep
  <2> QED BY <2>1, <2>2, <2>3 DEF TimedOut
<1>5. EventTypes
  <2>1. ended' \in [Tasks -> Endings]
    BY <1>1 DEF Endings
  <2>2. want' \in [Tasks -> Wants] /\ ret' \in [Tasks -> SUBSET Bits]
    BY <1>1, Facts
  <2> QED BY <1>1, <2>1, <2>2, Facts DEF EventTypes
<1>6. ASSUME NEW i \in Tasks, "eg" \in waits'[i]
      PROVE  /\ i \in AppTasks /\ state'[i] \in Asleep
             /\ alive' /\ ~Met(bits', want'[i])
  <2>1. ~Expired(Tcbs, i) /\ Waiting(i) /\ state'[i] = state[i] /\ i \notin TimedOut
    BY <1>4, <1>6 DEF Waiting
  <2>2. want'[i] = want[i]
    BY <1>1, <2>1
  <2> QED BY <1>1, <2>1, <2>2, Facts
<1>7. EInv'
  BY <1>2, <1>5, <1>6, Assemble
<1>8. ASSUME NEW i \in AppTasks, Waiting(i), "eg" \notin waits'[i]
      PROVE  ended'[i] = "timeout" /\ ret'[i] = bits' /\ ~Met(ret'[i], want[i])
  <2>1. i \in Tasks /\ i \in TimedOut
    BY <1>4, <1>8, Facts DEF Waiting
  <2> QED BY <1>1, <1>8, <2>1, Facts
<1>9. Tells
  BY <1>8 DEF Tells
<1> QED BY <1>7, <1>9

\* A tick ends nothing.
LEMMA TickStep ==
    ASSUME EInv, Tick
    PROVE  EInv' /\ Tells
<1>1. /\ SchedTick /\ ended' = NothingEnded
      /\ UNCHANGED <<guest_call, alive, bits, want, ret>>
  BY DEF Tick
<1>2. SchedTypeOK' /\ Settled' /\ CurrentRuns' /\ state' = state /\ waits' = waits
  BY <1>1, Facts, TickMoves, TickEffect
<1>3. EventTypes
  BY <1>1, Facts DEF EventTypes
<1>4. \A i \in Tasks : "eg" \in waits'[i] =>
         /\ i \in AppTasks /\ state'[i] \in Asleep
         /\ alive' /\ ~Met(bits', want'[i])
  BY <1>1, <1>2, Facts DEF Waiting
<1>5. EInv'
  BY <1>2, <1>3, <1>4, Assemble
<1>6. Tells
  BY <1>2, Facts DEF Tells, Waiting
<1> QED BY <1>5, <1>6

\* The invariant holds of a group nobody waits on.
LEMMA EInit == Init => EInv
<1> SUFFICES ASSUME Init PROVE EInv
  OBVIOUS
<1> DEFINE A == [i \in Tasks |-> [prio |-> 1, affinity |-> NoAffinity, is_idle |-> FALSE]]
<1>1. \A i \in Tasks : A[i] \in Attrs
  BY EventAssumption DEF Attrs, NoAffinity
<1>2. RunningInit(A) /\ MaxTasks >= 2
  BY EventAssumption DEF Init
<1> HIDE DEF A
<1>3. SchedTypeOK /\ Settled /\ \A i \in Tasks : waits[i] = {}
  BY <1>1, <1>2, RunningSettled
<1>4. \A c \in Cores : current[c] \notin AppTasks
  <2>1. current = [c \in Cores |-> MaxTasks - 1 + c]
    BY <1>2 DEF RunningInit
  <2> QED BY <2>1, SchedAssumption DEF Cores, AppTasks
<1>5. NoWant \in Wants
  BY EventAssumption DEF NoWant, Wants, Events
<1>6. TypeOK
  BY <1>3, <1>5 DEF Init, TypeOK, NothingEnded
<1> QED BY <1>3, <1>4, <1>6 DEF EInv, CurrentRuns, WaitersSleep, Awaited, Waiting

\* Every step keeps the invariant and tells the tasks how their waits ended.
LEMMA ENext == EInv /\ [Next]_vars => EInv' /\ [Tells]_vars
<1> SUFFICES ASSUME EInv, [Next]_vars
             PROVE  EInv' /\ [Tells]_vars
  OBVIOUS
<1>1. ASSUME NEW c \in Cores, NEW b \in Events, ClearBits(c, b)
      PROVE  EInv' /\ Tells
  <2>1. /\ bits' = bits \ b /\ ended' = NothingEnded /\ NoSwitch
        /\ UNCHANGED <<alive, want, ret>>
    BY <1>1 DEF ClearBits
  <2>2. EventTypes
    BY <2>1, Facts DEF EventTypes
  <2> QED BY <2>1, <2>2, StillStep
<1>2. ASSUME NEW c \in Cores, XEventGroupCreate(c)
      PROVE  EInv' /\ Tells
  <2>1. /\ ~alive /\ alive' = TRUE /\ bits' = {} /\ ended' = NothingEnded /\ NoSwitch
        /\ UNCHANGED <<want, ret>>
    BY <1>2 DEF XEventGroupCreate
  <2>2. EventTypes
    BY <2>1, Facts DEF EventTypes
  <2> QED BY <2>1, <2>2, StillStep
<1>3. ASSUME UNCHANGED vars PROVE EInv'
  <2>1. /\ NoSwitch /\ UNCHANGED <<alive, bits, want, ret, ended>>
    BY <1>3 DEF vars, eventVars, NoSwitch
  <2>2. EventTypes
    BY <2>1, Facts DEF EventTypes
  <2> QED BY <2>1, <2>2, StillStep
<1>4. ASSUME Next PROVE EInv' /\ Tells
  BY <1>1, <1>2, <1>4, SetStep, WaitStep, SyncStep, DeleteStep, TaskStep,
     PreemptStep, TickStep DEF Next
<1> QED BY <1>3, <1>4

-----------------------------------------------------------------------------
\* The invariant of the event group's waiting and waking.
THEOREM EventInvariant == Spec => []EInv
<1>1. EInv /\ [Next]_vars => EInv'
  BY ENext
<1> QED BY <1>1, EInit, PTL DEF Spec

\* Nobody sleeps in eg_wait() on bits that satisfy its condition, or on a deleted
\* group, whatever the tasks that eg_wake_waiters_locked() releases have cleared.
THEOREM EventsNotMissed == Spec => []NoEventMissed
<1>1. EInv => NoEventMissed
  BY Facts DEF NoEventMissed
<1> QED BY <1>1, EventInvariant, PTL

\* A wait completed by a setter returns bits that satisfy it, and a wait that timed
\* out the bits as they stand, which do not.
THEOREM ResultsTruthful == Spec => ResultTellsOutcome
<1>1. EInv /\ [Next]_vars => [Tells]_vars
  BY ENext
<1> QED BY <1>1, EventInvariant, PTL DEF Spec, ResultTellsOutcome, Tells
=============================================================================
