----------------------------- MODULE FrtEvents ------------------------------
(***************************************************************************)
(* Event groups of the FreeRTOS layer.  A waiting task names the bits it   *)
(* wants, whether it wants all of them, and whether they are cleared when  *)
(* it leaves; the task that sets bits completes the waits on the sleepers' *)
(* behalf, and a time-out reports the bits as they then stand.             *)
(***************************************************************************)
EXTENDS FrtSched, TLC

CONSTANT Bits   \* the event bits in use

ASSUME EventAssumption ==
    /\ Bits # {}
    /\ MaxTasks >= 2    \* the idle tasks have their slots
    /\ 1 \in Prios      \* the priority of the tasks that use the group

VARIABLES
    alive,      \* does find_event_group() know the handle?
    bits,       \* the bits of the group
    want,       \* what each task waits for (unused once the wait is over)
    ret,        \* the return register of the task's last call
    ended       \* how the calls completed by the last step ended

eventVars == <<alive, bits, want, ret, ended>>
vars == <<schedVars, eventVars>>

Events == (SUBSET Bits) \ {{}}

\* eg_bits, eg_wait_all and eg_clear_on_exit; for one bit "all" is "any".
Wants == {w \in [bits : Events, all : BOOLEAN, clear : BOOLEAN] :
             w.all => Cardinality(w.bits) > 1}

NoWant == [bits |-> Bits, all |-> FALSE, clear |-> FALSE]

\* xEventGroupSync waits for all of b and clears them on exit.
Meeting(b) == [bits |-> b, all |-> Cardinality(b) > 1, clear |-> TRUE]

NothingEnded == [i \in Tasks |-> "no"]

TypeOK ==
    /\ SchedTypeOK
    /\ alive \in BOOLEAN
    /\ bits \subseteq Bits
    /\ want \in [Tasks -> Wants]
    /\ ret \in [Tasks -> SUBSET Bits]
    /\ ended \in [Tasks -> {"no", "met", "polled", "timeout", "deleted"}]

Init ==
    /\ RunningInit([i \in Tasks |-> [prio |-> 1, affinity |-> NoAffinity,
                                     is_idle |-> FALSE]])
    /\ alive = TRUE
    /\ bits = {}
    /\ want = [i \in Tasks |-> NoWant]
    /\ ret = [i \in Tasks |-> {}]
    /\ ended = NothingEnded

-----------------------------------------------------------------------------
\* eg_condition_met().
Met(b, w) == IF w.all THEN w.bits \subseteq b ELSE b \cap w.bits # {}

Waiting(i) == "eg" \in waits[i]

\* eg_wake_waiters_locked(): one pass over the table, in which the bits a
\* leaving task clears are gone for the tasks after it.
BugLeaveClearsFirst(acc, i) ==  \* mutation: the result is read after the clear
    IF Waiting(i) /\ Met(acc.bits, want[i])
    THEN LET left == IF want[i].clear THEN acc.bits \ want[i].bits ELSE acc.bits
         IN  [bits |-> left, woken |-> acc.woken \cup {i},
              ret |-> [acc.ret EXCEPT ![i] = left]]
    ELSE acc

Leave(acc, i) ==
    IF Waiting(i) /\ Met(acc.bits, want[i])
    THEN [bits |-> IF want[i].clear THEN acc.bits \ want[i].bits ELSE acc.bits,
          woken |-> acc.woken \cup {i},
          ret |-> [acc.ret EXCEPT ![i] = acc.bits]]
    ELSE acc

WakeWaiters(b) ==
    LET pass[n \in 0 .. task_count] ==
          IF n = 0 THEN [bits |-> b, woken |-> {}, ret |-> ret]
          ELSE Leave(pass[n - 1], n)
    IN  pass[task_count]

\* Everybody in W is made runnable.
Released(T, W) ==
    [T EXCEPT
       !.state = [i \in Tasks |-> IF i \in W THEN ReleasedState(i) ELSE T.state[i]],
       !.waits = [i \in Tasks |-> IF i \in W THEN T.waits[i] \ {"eg"}
                                  ELSE T.waits[i]]]

Unpark(W) ==
    /\ running' = [c \in Cores |-> running[c] \/ current[c] \in W]
    /\ halted' = [c \in Cores |-> halted[c] /\ current[c] \notin W]

\* The waits of the tasks in W are over.
Over(W, how) ==
    /\ ended' = [i \in Tasks |-> IF i \in W THEN how ELSE "no"]
    /\ want' = [i \in Tasks |-> IF i \in W THEN NoWant ELSE want[i]]

\* sched_wake_sleepers(), as part of every dispatch: a wait whose deadline has
\* passed returns the bits as they stand.
TimedOut == {i \in Tasks : Expired(Tcbs, i) /\ Waiting(i)}

-----------------------------------------------------------------------------
AppCall(c) == Scheduled(c) /\ current[c] \in AppTasks

\* xEventGroupSetBits and xEventGroupSetBitsFromISR.
SetBits(c, b) ==
    LET w == WakeWaiters(bits \cup b)
    IN  /\ Scheduled(c)
        /\ alive
        /\ bits' = w.bits
        /\ ret' = w.ret
        /\ Over(w.woken, "met")
        /\ Commit(Released(Tcbs, w.woken))
        /\ Unpark(w.woken)
        /\ UNCHANGED <<tableVars, current, exec, slice, scheduler_started,
                       guest_call, alive>>

\* xEventGroupClearBits / ...FromISR.
ClearBits(c, b) ==
    /\ Scheduled(c)
    /\ alive
    /\ bits' = bits \ b
    /\ ended' = NothingEnded
    /\ NoSwitch
    /\ UNCHANGED <<alive, want, ret>>

\* eg_wait() that does not block: the condition holds, or the timeout is 0.
Returns(me, w, timeout) ==
    /\ Met(bits, w) \/ timeout = 0
    /\ bits' = IF Met(bits, w) /\ w.clear THEN bits \ w.bits ELSE bits
    /\ ret' = [ret EXCEPT ![me] = bits]
    /\ ended' = [i \in Tasks |-> IF i # me THEN "no"
                                 ELSE IF Met(bits, w) THEN "met" ELSE "polled"]
    /\ NoSwitch
    /\ UNCHANGED <<alive, want>>

\* eg_wait() that blocks, with the group's bits at b, the TCBs at T and the
\* waits of W just completed; the tasks whose time-out the dispatch discovers
\* get their result here.
Blocks(c, w, timeout, b, T, W, r) ==
    LET me == current[c]
        E  == TimedOut \ W
    IN  /\ timeout # 0
        /\ bits' = b
        /\ ret' = [i \in Tasks |-> IF i \in {me} \cup E THEN b ELSE r[i]]
        /\ ended' = [i \in Tasks |-> IF i \in W THEN "met"
                                     ELSE IF i \in E THEN "timeout" ELSE "no"]
        /\ want' = [i \in Tasks |-> IF i = me THEN w
                                    ELSE IF i \in W \cup E THEN NoWant ELSE want[i]]
        /\ SchedSwitch(c, WaitFor(c, "eventgroup", {"eg"}, timeout,
                                  SaveContext(c, T)))

XEventGroupWaitBits(c, w, timeout) ==
    /\ AppCall(c)
    /\ alive
    /\ \/ Returns(current[c], w, timeout)
       \/ /\ ~Met(bits, w)
          /\ Blocks(c, w, timeout, bits, Tcbs, {}, ret)
          /\ UNCHANGED <<scheduler_started, guest_call, alive>>

\* xEventGroupSync: eg_set_bits(), which completes waits and clears for them,
\* and then eg_wait() on what is left.
XEventGroupSync(c, b, w, timeout) ==
    LET me  == current[c]
        set == WakeWaiters(bits \cup b)
    IN  /\ AppCall(c)
        /\ alive
        /\ IF Met(set.bits, w) \/ timeout = 0
           THEN /\ bits' = IF Met(set.bits, w) THEN set.bits \ w.bits ELSE set.bits
                /\ ret' = [set.ret EXCEPT ![me] = set.bits]
                /\ ended' = [i \in Tasks |->
                               IF i \in set.woken \/ (i = me /\ Met(set.bits, w))
                               THEN "met"
                               ELSE IF i = me THEN "polled" ELSE "no"]
                /\ want' = [i \in Tasks |-> IF i \in set.woken THEN NoWant
                                            ELSE want[i]]
                /\ Commit(Released(Tcbs, set.woken))
                /\ Unpark(set.woken)
                /\ UNCHANGED <<tableVars, current, exec, slice>>
           ELSE Blocks(c, w, timeout, set.bits, Released(Tcbs, set.woken),
                       set.woken, set.ret)
        /\ UNCHANGED <<scheduler_started, guest_call, alive>>

BugDeleteStrands(c) ==  \* mutation: waiters are left blocked
    /\ AppCall(c)
    /\ alive
    /\ alive' = FALSE
    /\ bits' = {}
    /\ ended' = NothingEnded
    /\ NoSwitch
    /\ UNCHANGED <<want, ret>>

\* vEventGroupDelete releases the waiters with no bits.
VEventGroupDelete(c) ==
    LET W == {i \in 1 .. task_count : Waiting(i)}
    IN  /\ AppCall(c)
        /\ alive
        /\ alive' = FALSE
        /\ bits' = {}
        /\ ret' = [i \in Tasks |-> IF i \in W THEN {} ELSE ret[i]]
        /\ Over(W, "deleted")
        /\ Commit([Released(Tcbs, W) EXCEPT
                     !.state = [i \in Tasks |-> IF i \in W THEN "ready" ELSE state[i]]])
        /\ UNCHANGED <<tableVars, coreVars, scheduler_started, guest_call>>

XEventGroupCreate(c) ==
    /\ AppCall(c)
    /\ ~alive
    /\ alive' = TRUE
    /\ bits' = {}
    /\ ended' = NothingEnded
    /\ NoSwitch
    /\ UNCHANGED <<want, ret>>

Other(c, j) == AppCall(c) /\ j \in AppTasks /\ \A k \in Cores : current[k] # j

\* A wait is abandoned by vTaskSuspend.
VTaskSuspend(c, j) ==
    /\ Other(c, j)
    /\ Commit([Tcbs EXCEPT !.state[j] = "suspended",
                           !.waits[j] = @ \ {"q", "eg", "notify"}])
    /\ want' = [want EXCEPT ![j] = NoWant]
    /\ ended' = NothingEnded
    /\ UNCHANGED <<tableVars, coreVars, scheduler_started, guest_call, alive,
                   bits, ret>>

VTaskResume(c, j) ==
    /\ Other(c, j)
    /\ state[j] = "suspended"
    /\ Commit([Tcbs EXCEPT !.state[j] = "ready"])
    /\ ended' = NothingEnded
    /\ UNCHANGED <<tableVars, coreVars, scheduler_started, guest_call, alive,
                   bits, want, ret>>

CheckPreempt(c) ==
    /\ Preempt(c)
    /\ ret' = [i \in Tasks |-> IF i \in TimedOut THEN bits ELSE ret[i]]
    /\ Over(TimedOut, "timeout")
    /\ UNCHANGED <<scheduler_started, guest_call, alive, bits>>

Tick ==
    /\ SchedTick
    /\ ended' = NothingEnded
    /\ UNCHANGED <<guest_call, alive, bits, want, ret>>

Next ==
    \/ \E c \in Cores :
          \/ \E b \in Events : SetBits(c, b) \/ ClearBits(c, b)
          \/ \E timeout \in Timeouts \cup {0} :
                \/ \E w \in Wants : XEventGroupWaitBits(c, w, timeout)
                \/ \E w \in Events : \E b \in (SUBSET w) \ {{}} :
                      XEventGroupSync(c, b, Meeting(w), timeout)
          \/ VEventGroupDelete(c)
          \/ XEventGroupCreate(c)
          \/ \E j \in AppTasks : VTaskSuspend(c, j) \/ VTaskResume(c, j)
          \/ CheckPreempt(c)
    \/ Tick

Spec == Init /\ [][Next]_vars

\* A rendezvous in the regular way: task i sets bit i and waits for all bits,
\* and nobody does anything else with the group.
BarrierNext ==
    \/ \E c \in Cores :
          \/ \E b \in Bits : /\ current[c] = b
                             /\ XEventGroupSync(c, {b}, Meeting(Bits), Forever)
          \/ CheckPreempt(c)
    \/ Tick

BarrierSpec == Init /\ [][BarrierNext]_vars

\* The bits of a group are interchangeable.
BitSymmetry == Permutations(Bits)
-----------------------------------------------------------------------------
\* No lost event: nobody sleeps on a condition the current bits satisfy, and
\* nobody sleeps on a group that has been deleted ("rather than being left
\* blocked forever").
NoEventMissed ==
    \A i \in AppTasks : Waiting(i) => alive /\ ~Met(bits, want[i])

\* The result tells the task what happened: when its wait ends, it gets bits
\* that satisfy its condition if a setter completed the wait, and bits that do
\* not if it timed out ("a timed-out xEventGroupWaitBits() returns the bits as
\* they stand at the timeout, not as they stood when the wait began").
ResultTellsOutcome ==
    [][\A i \in AppTasks :
         Waiting(i) /\ "eg" \notin waits'[i] /\ state'[i] # "suspended" =>
            /\ ended'[i] = "met" => Met(ret'[i], want[i])
            /\ ended'[i] = "timeout" => ret'[i] = bits' /\ ~Met(ret'[i], want[i])
            /\ ended'[i] # "no"]_vars

\* Setting bits wakes every task whose wait the new bits satisfy ("Wake every
\* task whose wait is satisfied by the group's current bits").
SetWakesAll ==
    [][\A c \in Cores, b \in Events :
         SetBits(c, b) => \A i \in AppTasks :
            Waiting(i) /\ Met(bits \cup b, want[i]) => "eg" \notin waits'[i]]_vars

\* A rendezvous ends: the tasks do not all sleep in xEventGroupSync, each
\* having set its bit ("set, then wait for all, clearing on exit").
BarrierOpens == ~ \A i \in AppTasks : Waiting(i) /\ want[i] = Meeting(Bits)
=============================================================================
