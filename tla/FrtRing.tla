------------------------------- MODULE FrtRing ------------------------------
(***************************************************************************)
(* Ring buffers of the FreeRTOS layer.  Data is kept compacted at the      *)
(* start of a guest allocation: a receiver borrows a prefix in place and   *)
(* gives it back with ReturnItem, which moves the rest down; a sender may  *)
(* reserve room at the end (SendAcquire) and fill it later (SendComplete). *)
(* Bytes are numbered in the order in which they are sent.                 *)
(***************************************************************************)
EXTENDS FrtSched, Sequences

CONSTANTS
    Type,       \* "items" (RINGBUF_TYPE_NOSPLIT) or "bytes" (..._BYTEBUF)
    Capacity,   \* bytes of storage
    MaxRingItems,   \* MAX_RINGBUFFER_ITEMS
    Sizes,      \* the sizes of the items sent
    MaxBytes,   \* bound on the bytes sent in a behaviour
    Receivers,  \* the tasks that receive
    Guest       \* which unusual things the firmware does, see Usages

\* "suspend_waiter": a task that waits for data is suspended by another one
Usages == {"suspend_waiter"}

RingAssumption ==    \* evaluated by the MC module
    /\ MaxTasks >= 2 /\ 1 \in Prios
    /\ Type \in {"items", "bytes"}
    /\ {Capacity, MaxRingItems, MaxBytes} \subseteq Nat
    /\ Sizes \subseteq Nat \ {0}
    /\ Receivers \subseteq AppTasks
    /\ Guest \subseteq Usages

VARIABLES
    alive,      \* does find_ringbuffer() know the handle?
    data,       \* the stored bytes; its length is rb->used
    item_len,   \* the lengths of the stored items
    borrowed,   \* borrowed and borrowed_len; 0 when nothing is lent
    acquired,   \* acquired and acquired_len; 0 when nothing is reserved
    slot,       \* the offset SendAcquire handed out
    max_size,   \* rb_max_size of each waiting task
    holder,     \* who has been handed the loan (None: nobody)
    lent,       \* the bytes as they were when they were lent
    sent,       \* bytes sent so far
    consumed,   \* bytes returned so far
    ends        \* the bytes that end an item

ringVars == <<alive, data, item_len, borrowed, acquired, slot, max_size, holder, lent,
              sent, consumed, ends>>
vars == <<schedVars, ringVars>>

Amounts == Sizes \cup {Capacity}    \* of ReceiveUpTo; Capacity is "no limit"

TypeOK ==
    /\ SchedTypeOK
    /\ alive \in BOOLEAN
    /\ data \in Seq(1 .. MaxBytes) /\ Len(data) <= Capacity
    /\ item_len \in Seq(Sizes) /\ Len(item_len) <= MaxRingItems
    /\ borrowed \in 0 .. Capacity
    /\ acquired \in {0} \cup Sizes
    /\ slot \in 0 .. Capacity
    /\ max_size \in [Tasks -> Amounts]
    /\ holder \in {None} \cup AppTasks
    /\ lent \in Seq(1 .. MaxBytes)
    /\ {sent, consumed} \subseteq 0 .. MaxBytes
    /\ ends \subseteq 1 .. MaxBytes

Init ==
    /\ RunningInit([i \in Tasks |-> [prio |-> 1, affinity |-> NoAffinity,
                                     is_idle |-> FALSE]])
    /\ alive = TRUE
    /\ data = <<>> /\ item_len = <<>>
    /\ borrowed = 0 /\ acquired = 0 /\ slot = 0
    /\ max_size = [i \in Tasks |-> Capacity]
    /\ holder = None /\ lent = <<>>
    /\ sent = 0 /\ consumed = 0 /\ ends = {}

-----------------------------------------------------------------------------
AppCall(c) == Scheduled(c) /\ current[c] \in AppTasks

Waiting(i) == "rb" \in waits[i]

\* ringbuffer_append_locked() refuses: something is reserved, no room, or no
\* free entry in item_len.
Refuses(n) ==
    \/ ~alive
    \/ acquired # 0
    \/ n > Capacity - Len(data)
    \/ Type = "items" /\ Len(item_len) >= MaxRingItems

\* The contents after n more bytes.
More(n) == data \o [k \in 1 .. n |-> sent + k]

MoreItems(n) == IF Type = "items" THEN Append(item_len, n) ELSE item_len

Stored(n) ==
    /\ data' = More(n)
    /\ item_len' = MoreItems(n)
    /\ sent' = sent + n
    /\ ends' = ends \cup {sent + n}

\* ringbuffer_borrow_locked(): how many of the bytes d, of the items L, are
\* lent; 0 when none can be.
Loan(d, L, limit) ==
    IF borrowed # 0 \/ d = <<>> THEN 0
    ELSE IF Type = "items" THEN L[1]
    ELSE IF Len(d) < limit THEN Len(d) ELSE limit

LentTo(i, n, d) ==
    /\ borrowed' = n
    /\ holder' = i
    /\ lent' = SubSeq(d, 1, n)

\* wake_ringbuffer_waiter_locked(): the first waiter of the table is handed a
\* loan and made runnable; nothing happens while something is lent.
Candidates == {i \in 1 .. task_count :
                  Waiting(i) /\ \A j \in 1 .. (i - 1) : ~Waiting(j)}

ServeWaiter(d, L) ==
    \/ /\ \A i \in Candidates : Loan(d, L, max_size[i]) = 0
       /\ UNCHANGED <<taskVars, running, halted, borrowed, holder, lent>>
    \/ \E i \in Candidates :
          /\ Loan(d, L, max_size[i]) # 0
          /\ LentTo(i, Loan(d, L, max_size[i]), d)
          /\ Commit([Tcbs EXCEPT !.state[i] = ReleasedState(i),
                                 !.waits[i] = @ \ {"rb"}])
          /\ Unparked(i)

\* xRingbufferSend and ...FromISR: never waits, whatever the timeout.
XRingbufferSend(c, n) ==
    /\ Executes(c)
    /\ sent + n <= MaxBytes
    /\ ~Refuses(n)
    /\ Stored(n)
    /\ ServeWaiter(More(n), MoreItems(n))
    /\ UNCHANGED <<tableVars, current, exec, slice, scheduler_started,
                   guest_call, alive, acquired, slot, max_size, consumed>>

XRingbufferSendAcquire(c, n) ==
    /\ AppCall(c)
    /\ Type = "items"
    /\ ~Refuses(n)
    /\ borrowed = 0
    /\ acquired' = n
    /\ slot' = Len(data)
    /\ NoSwitch
    /\ UNCHANGED <<alive, data, item_len, borrowed, max_size, holder, lent,
                   sent, consumed, ends>>

\* xRingbufferSendComplete with the pointer SendAcquire gave: refused, and the
\* reservation kept, when that is no longer the end of the data.
XRingbufferSendComplete(c) ==
    /\ AppCall(c)
    /\ acquired # 0
    /\ sent + acquired <= MaxBytes
    /\ slot = Len(data)
    /\ Stored(acquired)
    /\ acquired' = 0
    /\ ServeWaiter(More(acquired), MoreItems(acquired))
    /\ UNCHANGED <<tableVars, current, exec, slice, scheduler_started,
                   guest_call, alive, slot, max_size, consumed>>

\* ringbuffer_receive() that finds something; ReceiveUpTo passes a limit.
ReceiveNow(c, limit) ==
    LET n == Loan(data, item_len, limit)
    IN  /\ n # 0
        /\ LentTo(current[c], n, data)
        /\ NoSwitch
        /\ UNCHANGED <<alive, data, item_len, acquired, slot, max_size, sent,
                       consumed, ends>>

\* ... and that waits: only if nothing is lent already.
ReceiveWaits(c, limit, timeout) ==
    /\ Loan(data, item_len, limit) = 0
    /\ borrowed = 0
    /\ max_size' = [max_size EXCEPT ![current[c]] = limit]
    /\ SchedSwitch(c, WaitFor(c, "queue", {"rb"}, timeout, SaveContext(c, Tcbs)))
    /\ UNCHANGED <<scheduler_started, guest_call, alive, data, item_len,
                   borrowed, acquired, slot, holder, lent, sent, consumed, ends>>

XRingbufferReceive(c, limit) ==
    /\ AppCall(c)
    /\ alive
    /\ current[c] \in Receivers
    /\ Type = "items" => limit = Capacity
    /\ \/ ReceiveNow(c, limit)
       \/ \E timeout \in Timeouts : ReceiveWaits(c, limit, timeout)

\* vRingbufferReturnItem: the loan is consumed and the rest moved down.  No
\* receiver is woken, although data may be left.
BugReturn(c) ==     \* mutation: everything stored is dropped with the loan
    /\ AppCall(c)
    /\ holder = current[c]
    /\ data' = <<>>
    /\ item_len' = <<>>
    /\ consumed' = consumed + borrowed
    /\ borrowed' = 0
    /\ holder' = None
    /\ lent' = <<>>
    /\ NoSwitch
    /\ UNCHANGED <<alive, acquired, slot, max_size, sent, ends>>

VRingbufferReturnItem(c) ==
    /\ AppCall(c)
    /\ holder = current[c]
    /\ data' = SubSeq(data, borrowed + 1, Len(data))
    /\ item_len' = IF item_len = <<>> THEN <<>> ELSE Tail(item_len)
    /\ consumed' = consumed + borrowed
    /\ borrowed' = 0
    /\ holder' = None
    /\ lent' = <<>>
    /\ NoSwitch
    /\ UNCHANGED <<alive, acquired, slot, max_size, sent, ends>>

\* vRingbufferDelete, by a guest that has nobody waiting and nothing lent.
VRingbufferDelete(c) ==
    /\ AppCall(c)
    /\ alive
    /\ borrowed = 0
    /\ \A i \in Tasks : ~Waiting(i)
    /\ alive' = FALSE
    /\ data' = <<>> /\ item_len' = <<>>
    /\ acquired' = 0
    /\ consumed' = sent
    /\ NoSwitch
    /\ UNCHANGED <<slot, borrowed, max_size, holder, lent, sent, ends>>

\* xRingbufferCreate in the same slot of the table.
XRingbufferCreate(c) ==
    /\ AppCall(c)
    /\ ~alive
    /\ alive' = TRUE
    /\ NoSwitch
    /\ UNCHANGED <<data, item_len, borrowed, acquired, slot, max_size, holder,
                   lent, sent, consumed, ends>>

-----------------------------------------------------------------------------
\* Another task is suspended or resumed: rb_waiting is not among the waits that
\* vTaskSuspend takes back.
Other(c, j) == AppCall(c) /\ j \in Receivers /\ CurrentOn(j) = {}

VTaskSuspend(c, j) ==
    /\ Other(c, j)
    /\ Waiting(j) => "suspend_waiter" \in Guest
    /\ Commit([Tcbs EXCEPT !.state[j] = "suspended",
                           !.waits[j] = @ \ {"q", "eg", "notify"}])
    /\ UNCHANGED <<tableVars, coreVars, scheduler_started, guest_call, ringVars>>

VTaskResume(c, j) ==
    /\ Other(c, j)
    /\ state[j] = "suspended"
    /\ Commit([Tcbs EXCEPT !.state[j] = "ready"])
    /\ UNCHANGED <<tableVars, coreVars, scheduler_started, guest_call, ringVars>>

CheckPreempt(c) ==
    Preempt(c) /\ UNCHANGED <<scheduler_started, guest_call, ringVars>>

Tick == SchedTick /\ UNCHANGED <<guest_call, ringVars>>

Next ==
    \/ \E c \in Cores :
          \/ \E n \in Sizes : XRingbufferSend(c, n) \/ XRingbufferSendAcquire(c, n)
          \/ XRingbufferSendComplete(c)
          \/ \E limit \in Amounts : XRingbufferReceive(c, limit)
          \/ VRingbufferReturnItem(c)
          \/ VRingbufferDelete(c)
          \/ XRingbufferCreate(c)
          \/ \E j \in Receivers : VTaskSuspend(c, j) \/ VTaskResume(c, j)
          \/ CheckPreempt(c)
    \/ Tick

Spec == Init /\ [][Next]_vars

-----------------------------------------------------------------------------
\* "This preserves byte-stream ...": what is stored is exactly what was sent
\* and not yet consumed, in order.
StreamPreserved ==
    data = [k \in 1 .. (sent - consumed) |-> consumed + k]

\* "... and item boundaries": a loan from an item buffer is one whole item.
ItemsWhole ==
    Type = "items" /\ borrowed # 0 =>
       \A k \in 1 .. borrowed : data[k] \in ends <=> k = borrowed

\* A loan stays where it was handed out until it is returned, whatever is sent,
\* reserved or completed meanwhile ("a pointer returned by Receive is directly
\* usable").
LoanStable ==
    /\ borrowed # 0 <=> holder # None
    /\ borrowed # 0 => Len(data) >= borrowed /\ SubSeq(data, 1, borrowed) = lent

\* No lost wakeup: nobody sleeps for data that could be lent.
NoLostWakeup ==
    \A i \in AppTasks :
       Waiting(i) => data = <<>> \/ borrowed # 0

\* A suspended task stays suspended until it is resumed ("Any wait it was in is
\* abandoned, as on hardware").
SuspendedStays ==
    [][\A i \in AppTasks :
          state[i] = "suspended" /\ state'[i] # "suspended" =>
             \E c \in Cores : VTaskResume(c, i)]_vars
=============================================================================
