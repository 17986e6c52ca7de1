----------------------------- MODULE FrtQueues ------------------------------
(***************************************************************************)
(* A data queue of the FreeRTOS layer: the ring in queue_t, sends and      *)
(* receives that complete at once, time out or block, and the wake path    *)
(* that completes a blocked call on the sleeper's behalf ("the blocked     *)
(* xQueueReceive() call cannot re-run when the task resumes").             *)
(***************************************************************************)
EXTENDS FrtSched, Sequences, SequencesExt

CONSTANTS
    Cap,        \* max_items of the queue
    MaxItems,   \* how many items the firmware sends in all
    Guest       \* which unusual things the firmware does, see Usages

\* "peek_wait":      a task blocks in xQueuePeek
\* "reset_full":     the queue is reset while senders wait for room
\* "suspend_sender": a task blocked in a send is suspended
\* "delete_blocked": a task blocked on the queue is deleted
\* "isr_full":       an ISR sends without asking whether the queue is full
\* "strand":         the queue is deleted while tasks wait on it
Usages == {"peek_wait", "reset_full", "suspend_sender", "delete_blocked",
           "isr_full", "strand"}

ASSUME QueueAssumption ==
    /\ Cap \in Nat \ {0}
    /\ MaxItems \in Nat
    /\ Guest \subseteq Usages
    /\ MaxTasks >= 2 /\ 1 \in Prios

VARIABLES
    alive,      \* does find_queue() know the handle?
    ring,       \* head, tail, count and buf of the queue_t
    call,       \* the call each task last blocked in
    ret,        \* the return register of that call: pdTRUE or pdFALSE
    got,        \* the item written into its receive buffer
    sent,       \* items the firmware has tried to send
    accepted,   \* items that entered the queue
    taken,      \* items that left it for a receiver, in order
    dropped     \* items discarded by a reset, an overwrite or a deletion

queueVars == <<alive, ring, call, ret, got, sent, accepted, taken, dropped>>
vars == <<schedVars, queueVars>>

NoItem == 0
Items == 1 .. MaxItems
Positions == {"back", "front", "overwrite"}
Calls == [op : {"none", "send", "receive", "peek"}, item : {NoItem} \cup Items,
          pos : Positions]
Idle == [op |-> "none", item |-> NoItem, pos |-> "back"]
EmptyRing == [head |-> 0, tail |-> 0, count |-> 0,
              buf |-> [k \in 0 .. Cap - 1 |-> NoItem]]

TypeOK ==
    /\ SchedTypeOK
    /\ alive \in BOOLEAN
    /\ ring \in [head : 0 .. Cap - 1, tail : 0 .. Cap - 1, count : 0 .. Cap,
                 buf : [0 .. Cap - 1 -> {NoItem} \cup Items]]
    /\ call \in [Tasks -> Calls]
    /\ ret \in [Tasks -> BOOLEAN]
    /\ got \in [Tasks -> {NoItem} \cup Items]
    /\ sent \in 0 .. MaxItems
    /\ accepted \subseteq Items
    /\ taken \in Seq(Items)
    /\ dropped \subseteq Items

Init ==
    /\ RunningInit([i \in Tasks |-> [prio |-> 1, affinity |-> NoAffinity,
                                     is_idle |-> FALSE]])
    /\ alive = TRUE
    /\ ring = EmptyRing
    /\ call = [i \in Tasks |-> Idle]
    /\ ret = [i \in Tasks |-> FALSE]
    /\ got = [i \in Tasks |-> NoItem]
    /\ sent = 0
    /\ accepted = {}
    /\ taken = <<>>
    /\ dropped = {}

-----------------------------------------------------------------------------
\* queue_enqueue_locked().
Overwrites(pos) == pos = "overwrite" /\ Cap = 1

Enqueue(r, i, pos) ==
    IF Overwrites(pos) /\ r.count # 0 THEN [r EXCEPT !.buf[r.head] = i]
    ELSE IF pos = "front"
    THEN LET h == (r.head + Cap - 1) % Cap
         IN  [r EXCEPT !.head = h, !.buf[h] = i, !.count = @ + 1]
    ELSE [r EXCEPT !.buf[r.tail] = i, !.tail = (r.tail + 1) % Cap,
                   !.count = @ + 1]

HeadItem(r) == r.buf[r.head]

Dequeue(r) == [r EXCEPT !.head = (r.head + 1) % Cap, !.count = @ - 1]

Contents(r) == [k \in 1 .. r.count |-> r.buf[(r.head + k - 1) % Cap]]

\* The tasks matched by the wake paths: by flag, whatever their state is.
Receivers == {i \in 1 .. task_count : "q" \in waits[i] /\ "sender" \notin waits[i]}
Senders   == {i \in 1 .. task_count : {"q", "sender"} \subseteq waits[i]}

First(S) == CHOOSE i \in S : \A j \in S : i <= j

\* Complete the blocked call of task i.
Release(i, flags) ==
    /\ Commit([Tcbs EXCEPT !.state[i] = ReleasedState(i), !.waits[i] = @ \ flags])
    /\ Unparked(i)
    /\ ret' = [ret EXCEPT ![i] = TRUE]
    /\ UNCHANGED <<tableVars, current, exec, slice, scheduler_started, guest_call>>

BugHandOverKeepsItem(r) ==  \* mutation: the wake does not dequeue
    IF Receivers = {} THEN /\ ring' = r
                           /\ NoSwitch
                           /\ UNCHANGED <<ret, got, taken>>
    ELSE LET i == First(Receivers)
         IN  /\ Release(i, {"q"})
             /\ got' = [got EXCEPT ![i] = HeadItem(r)]
             /\ ring' = r
             /\ taken' = Append(taken, HeadItem(r))

\* wake_queue_waiter_locked() after an item has been enqueued: exactly one
\* waiting receiver gets the head item; a peek leaves it queued.
HandOver(r) ==
    IF Receivers = {} THEN /\ ring' = r
                           /\ NoSwitch
                           /\ UNCHANGED <<ret, got, taken>>
    ELSE LET i == First(Receivers)
         IN  /\ Release(i, {"q"})
             /\ got' = [got EXCEPT ![i] = HeadItem(r)]
             /\ IF call[i].op = "peek"
                THEN ring' = r /\ UNCHANGED taken
                ELSE ring' = Dequeue(r) /\ taken' = Append(taken, HeadItem(r))

BugSenderNotAdmitted(r) ==  \* mutation: nobody wakes the blocked sender
    ring' = r /\ NoSwitch /\ UNCHANGED <<ret, accepted>>

\* wake_queue_sender_locked() after a slot has become free: one blocked send
\* is completed.
AdmitSender(r) ==
    IF Senders = {} THEN ring' = r /\ NoSwitch /\ UNCHANGED <<ret, accepted>>
    ELSE LET i == First(Senders)
         IN  /\ Release(i, {"q", "sender"})
             /\ ring' = Enqueue(r, call[i].item, call[i].pos)
             /\ accepted' = accepted \cup {call[i].item}

-----------------------------------------------------------------------------
\* The application task that calls from core c.
AppCall(c) == Scheduled(c) /\ current[c] \in AppTasks

NewItem(i) == i = sent + 1 /\ i \in Items /\ sent' = i

\* stub_queue_send() with room in the queue, from a task or an ISR.
SendNow(i, pos) ==
    /\ alive
    /\ ring.count < Cap \/ Overwrites(pos)
    /\ NewItem(i)
    /\ accepted' = accepted \cup {i}
    /\ dropped' = IF Overwrites(pos) /\ ring.count # 0
                  THEN dropped \cup {HeadItem(ring)} ELSE dropped
    /\ HandOver(Enqueue(ring, i, pos))
    /\ UNCHANGED <<alive, call>>

\* The queue is full and the call does not wait.
SendFull(i, pos) ==
    /\ alive
    /\ ring.count >= Cap
    /\ ~Overwrites(pos)
    /\ NewItem(i)
    /\ NoSwitch
    /\ UNCHANGED <<alive, ring, call, ret, got, accepted, taken, dropped>>

BugSendPresetTrue(c, i, pos, timeout) ==  \* mutation: pdTRUE is preset
    LET me == current[c]
    IN  /\ alive
        /\ ring.count >= Cap
        /\ ~Overwrites(pos)
        /\ NewItem(i)
        /\ call' = [call EXCEPT ![me] = [op |-> "send", item |-> i, pos |-> pos]]
        /\ ret' = [ret EXCEPT ![me] = TRUE]
        /\ SchedSwitch(c, WaitFor(c, "queue", {"q", "sender"}, timeout,
                                  SaveContext(c, Tcbs)))
        /\ UNCHANGED <<scheduler_started, guest_call, alive, ring, got,
                       accepted, taken, dropped>>

\* The queue is full: the call waits for room with pdFALSE preset.
SendWaits(c, i, pos, timeout) ==
    LET me == current[c]
    IN  /\ alive
        /\ ring.count >= Cap
        /\ ~Overwrites(pos)
        /\ NewItem(i)
        /\ call' = [call EXCEPT ![me] = [op |-> "send", item |-> i, pos |-> pos]]
        /\ ret' = [ret EXCEPT ![me] = FALSE]
        /\ SchedSwitch(c, WaitFor(c, "queue", {"q", "sender"}, timeout,
                                  SaveContext(c, Tcbs)))
        /\ UNCHANGED <<scheduler_started, guest_call, alive, ring, got,
                       accepted, taken, dropped>>

\* xQueueSend, xQueueSendToBack, xQueueGenericSend.
XQueueSend(c, i, pos) ==
    /\ AppCall(c)
    /\ \/ SendNow(i, pos)
       \/ SendFull(i, pos)
       \/ \E timeout \in Timeouts : SendWaits(c, i, pos, timeout)

\* xQueueSendFromISR: the same body; the "woken" pointer is in the place of
\* the timeout, so on a full queue the interrupted task waits.
XQueueSendFromISR(c, i) ==
    /\ Scheduled(c)
    /\ \/ SendNow(i, "back")
       \/ /\ "isr_full" \in Guest
          /\ SendWaits(c, i, "back", MaxDelay)

\* A send to a handle that is not known reports success and does nothing.
SendUnknown(c, i) ==
    /\ AppCall(c)
    /\ ~alive
    /\ NewItem(i)
    /\ NoSwitch
    /\ UNCHANGED <<alive, ring, call, ret, got, accepted, taken, dropped>>

BugTakeBack ==      \* mutation: the youngest item is taken
    /\ alive
    /\ ring.count > 0
    /\ taken' = Append(taken, ring.buf[(ring.tail + Cap - 1) % Cap])
    /\ AdmitSender([ring EXCEPT !.tail = (@ + Cap - 1) % Cap, !.count = @ - 1])
    /\ UNCHANGED <<alive, call, got, sent, dropped>>

\* queue_receive() with an item in the queue, and xQueueReceiveFromISR.
TakeFront ==
    /\ alive
    /\ ring.count > 0
    /\ taken' = Append(taken, HeadItem(ring))
    /\ AdmitSender(Dequeue(ring))
    /\ UNCHANGED <<alive, call, got, sent, dropped>>

\* The queue is empty: the call waits with pdFALSE preset.  q_is_sender is
\* left as it is.
ReceiveWaits(c, op, timeout) ==
    LET me == current[c]
    IN  /\ alive
        /\ ring.count = 0
        /\ call' = [call EXCEPT ![me] = [Idle EXCEPT !.op = op]]
        /\ ret' = [ret EXCEPT ![me] = FALSE]
        /\ got' = [got EXCEPT ![me] = NoItem]
        /\ SchedSwitch(c, WaitFor(c, "queue", {"q"}, timeout,
                                  SaveContext(c, Tcbs)))
        /\ UNCHANGED <<scheduler_started, guest_call, alive, ring, sent,
                       accepted, taken, dropped>>

\* Before it waits a finite time, the call fires the device events that fall
\* due (dispatch_peripherals_until_queue); a device callback may send an item
\* that this call then takes at once, no other receiver being served.
ReceivePumped(c, i) ==
    /\ alive
    /\ ring.count = 0
    /\ Receivers = {}
    /\ NewItem(i)
    /\ accepted' = accepted \cup {i}
    /\ ring' = Dequeue(Enqueue(ring, i, "back"))
    /\ taken' = Append(taken, i)
    /\ NoSwitch
    /\ UNCHANGED <<alive, call, ret, got, dropped>>

\* xQueueReceive, and xQueuePeek on an empty queue (on a non-empty one a peek
\* changes nothing): both are queue_receive() of the code.
XQueueReceive(c) ==
    /\ AppCall(c)
    /\ \/ TakeFront
       \/ \E op \in {"receive", "peek"}, timeout \in Timeouts :
             /\ op = "peek" => "peek_wait" \in Guest
             /\ ReceiveWaits(c, op, timeout)
       \/ \E i \in Items : ReceivePumped(c, i)

XQueueReceiveFromISR(c) == Scheduled(c) /\ TakeFront

\* xQueueReset / xQueueGenericReset: "Waiters stay blocked".
XQueueReset(c) ==
    /\ AppCall(c)
    /\ alive
    /\ Senders = {} \/ "reset_full" \in Guest
    /\ ring' = [ring EXCEPT !.head = 0, !.tail = 0, !.count = 0]
    /\ dropped' = dropped \cup Range(Contents(ring))
    /\ NoSwitch
    /\ UNCHANGED <<alive, call, ret, got, sent, accepted, taken>>

\* vQueueDelete clears the slot and wakes nobody.
VQueueDelete(c) ==
    /\ AppCall(c)
    /\ alive
    /\ Receivers \cup Senders = {} \/ "strand" \in Guest
    /\ alive' = FALSE
    /\ ring' = EmptyRing
    /\ dropped' = dropped \cup Range(Contents(ring))
    /\ NoSwitch
    /\ UNCHANGED <<call, ret, got, sent, accepted, taken>>

\* queue_create_locked() with the same (static) handle.
XQueueCreateStatic(c) ==
    /\ AppCall(c)
    /\ ~alive
    /\ alive' = TRUE
    /\ ring' = EmptyRing
    /\ NoSwitch
    /\ UNCHANGED <<call, ret, got, sent, accepted, taken, dropped>>

-----------------------------------------------------------------------------
\* vTaskSuspend / vTaskResume / vTaskDelete of a task that may be blocked here.
Other(c, j) == AppCall(c) /\ j \in AppTasks /\ \A k \in Cores : current[k] # j

VTaskSuspend(c, j) ==
    /\ Other(c, j)
    /\ state[j] # "unused"
    /\ j \in Senders => "suspend_sender" \in Guest
    /\ Commit([Tcbs EXCEPT !.state[j] = "suspended",
                           !.waits[j] = @ \ {"q", "eg", "notify"}])
    /\ UNCHANGED <<tableVars, coreVars, scheduler_started, guest_call, queueVars>>

VTaskResume(c, j) ==
    /\ Other(c, j)
    /\ state[j] = "suspended"
    /\ Commit([Tcbs EXCEPT !.state[j] = "ready"])
    /\ UNCHANGED <<tableVars, coreVars, scheduler_started, guest_call, queueVars>>

VTaskDelete(c, j) ==
    /\ Other(c, j)
    /\ state[j] # "unused"
    /\ "q" \in waits[j] => "delete_blocked" \in Guest
    /\ Commit([Tcbs EXCEPT !.state[j] = "unused"])
    /\ UNCHANGED <<tableVars, coreVars, scheduler_started, guest_call, queueVars>>

CheckPreempt(c) ==
    /\ Preempt(c)
    /\ UNCHANGED <<scheduler_started, guest_call, queueVars>>

Tick == SchedTick /\ UNCHANGED <<guest_call, queueVars>>

Next ==
    \/ \E c \in Cores :
          \/ \E i \in Items : \/ \E pos \in Positions : XQueueSend(c, i, pos)
                              \/ XQueueSendFromISR(c, i)
                              \/ SendUnknown(c, i)
          \/ XQueueReceive(c)
          \/ XQueueReceiveFromISR(c)
          \/ XQueueReset(c)
          \/ VQueueDelete(c)
          \/ XQueueCreateStatic(c)
          \/ \E j \in AppTasks : \/ VTaskSuspend(c, j)
                                 \/ VTaskResume(c, j)
                                 \/ VTaskDelete(c, j)
          \/ CheckPreempt(c)
    \/ Tick

Spec == Init /\ [][Next]_vars

-----------------------------------------------------------------------------
\* Exactly once: every item that entered the queue is in it once, or went to
\* one receiver, or was discarded on purpose; nothing is lost, invented or
\* delivered twice, whichever of wake-up, time-out and direct call came first.
ExactlyOnce ==
    LET all == taken \o Contents(ring)
    IN  /\ IsInjective(all)
        /\ Range(all) \cup dropped = accepted
        /\ Range(all) \cap dropped = {}

\* A blocked call tells the truth: a send reports pdTRUE exactly when its item
\* entered the queue, a receive exactly when an item was written to its buffer
\* ("pdFALSE stands if the timeout wins").
CallsTellTruth ==
    \A i \in AppTasks :
       /\ call[i].op = "send" => (ret[i] <=> call[i].item \in accepted)
       /\ call[i].op \in {"receive", "peek"} => (ret[i] <=> got[i] # NoItem)
       /\ "q" \in waits[i] => ~ret[i]

\* No lost wake-up: nobody waits for an item while the queue has one, nobody
\* waits for room while there is room ("if the wake does not dequeue, nobody
\* does: the receiver reports failure while its item sits in the queue").
NoLostWakeup ==
    alive => /\ ring.count > 0 => \A i \in AppTasks :
                   call[i].op \in {"receive", "peek"} => "q" \notin waits[i]
             /\ ring.count < Cap => \A i \in AppTasks :
                   call[i].op = "send" => "q" \notin waits[i]

\* The queue behaves as the sequence a FreeRTOS user reasons about.
Fifo == INSTANCE FifoQueue WITH content <- Contents(ring)
FifoStep == [Fifo!Next]_(Contents(ring))
IsFifo == Fifo!Spec

\* A deleted task stays deleted: no send or receive makes it READY again
\* (vTaskDelete: "remove task from scheduler or no-op").  It does not hold of
\* this code when a blocked task is deleted ("delete_blocked"): freertos_stubs.c
\* 889 leaves the wait flags of the TCB, and the next send revives it.
DeletedStep ==
    \A i \in AppTasks : state[i] = "unused" => state'[i] = "unused"
DeletedStays == [][DeletedStep]_vars

\* A FromISR call never makes the interrupted task wait ("These operations are
\* deliberately nonblocking, matching their FromISR contracts").
IsrNeverWaits ==
    [][\A c \in Cores :
         (\E i \in Items : XQueueSendFromISR(c, i)) => current'[c] = current[c]]_vars
=============================================================================
