---------------------------- MODULE MCFrtObjects ----------------------------
(***************************************************************************)
(* The smaller kernel objects, one at a time over the same scheduler: a    *)
(* semaphore in each of its uses (FrtSemaphores), task notifications, ring *)
(* buffers of both kinds, and a mailbox: the queue of length 1 that        *)
(* overwrites apply to.                                                    *)
(* The variables of the objects that are not explored stay Off.            *)
(***************************************************************************)
EXTENDS FrtSemaphores

CONSTANTS
    Takers, Slots, MaxNotify, NotifyGives,                  \* FrtNotify
    RingCapacity, MaxRingItems, Sizes, ItemBytes, StreamBytes, RingReceivers,
    MailItems, PeekedItems                                  \* FrtQueues

VARIABLES object,
    notify_value, wait_index, clear_on_exit,                \* notifications
    data, item_len, borrowed, acquired, slot, max_size,     \* ring buffers
    holder, lent, consumed, ends,
    ring, got, accepted, dropped,                           \* queues
    taken, alive, sent                                      \* several of them

\* The instances are of the modules with the proofs, so that a proof about the
\* objects together can cite what is proved of each.
Notify == INSTANCE FrtNotifyProofs WITH MaxGives <- NotifyGives
Items == INSTANCE FrtRingProofs WITH
    Type <- "items", Capacity <- RingCapacity, MaxBytes <- ItemBytes,
    Receivers <- RingReceivers, Guest <- {}
Bytes == INSTANCE FrtRingProofs WITH
    Type <- "bytes", Capacity <- RingCapacity, MaxBytes <- StreamBytes,
    Receivers <- RingReceivers, Guest <- {}
Mailbox == INSTANCE FrtQueuesProofs WITH
    Cap <- 1, MaxItems <- MailItems, Guest <- {"isr_full"}
Peeked == INSTANCE FrtQueuesProofs WITH
    Cap <- 1, MaxItems <- PeekedItems, Guest <- {"peek_wait"}

ASSUME ObjectsAssumption ==
    /\ Notify!NotifyAssumption /\ Items!RingAssumption /\ Bytes!RingAssumption
    /\ MailItems \in Nat /\ PeekedItems \in Nat

objectVars == <<object, vars, Notify!vars, Items!vars, Mailbox!vars>>

Off == "off"

semaphoreOnly == <<use, count, owner, depth, held>>
notifyOnly == <<notify_value, wait_index, clear_on_exit>>
ringOnly == <<data, item_len, borrowed, acquired, slot, max_size, holder, lent,
              consumed, ends>>
queueOnly == <<ring, got, accepted, dropped>>

SemaphoresOff == use = Off /\ count = Off /\ owner = Off /\ depth = Off /\ held = Off
NotifyOff == notify_value = Off /\ wait_index = Off /\ clear_on_exit = Off
RingOff ==
    /\ data = Off /\ item_len = Off /\ borrowed = Off /\ acquired = Off /\ slot = Off
    /\ max_size = Off /\ holder = Off /\ lent = Off /\ consumed = Off /\ ends = Off
QueueOff == ring = Off /\ got = Off /\ accepted = Off /\ dropped = Off

ObjectsInit ==
    \/ /\ object = "semaphore" /\ Init
       /\ NotifyOff /\ RingOff /\ QueueOff /\ taken = Off /\ alive = Off /\ sent = Off
    \/ /\ object = "notify" /\ Notify!Init
       /\ SemaphoresOff /\ RingOff /\ QueueOff /\ call = Off /\ alive = Off /\ sent = Off
    \/ /\ \/ object = "items" /\ Items!Init
          \/ object = "bytes" /\ Bytes!Init
       /\ SemaphoresOff /\ NotifyOff /\ QueueOff
       /\ call = Off /\ given = Off /\ taken = Off /\ ret = Off
    \/ /\ \/ object = "mailbox" /\ Mailbox!Init
          \/ object = "peeked" /\ Peeked!Init
       /\ SemaphoresOff /\ NotifyOff /\ RingOff /\ given = Off

ObjectsNext ==
    /\ \/ /\ object = "semaphore" /\ Next
          /\ UNCHANGED <<notifyOnly, ringOnly, queueOnly, taken, alive, sent>>
       \/ /\ object = "notify" /\ Notify!Next
          /\ UNCHANGED <<semaphoreOnly, ringOnly, queueOnly, call, alive, sent>>
       \/ /\ \/ object = "items" /\ Items!Next
             \/ object = "bytes" /\ Bytes!Next
          /\ UNCHANGED <<semaphoreOnly, notifyOnly, queueOnly, call, given, taken, ret>>
       \/ /\ \/ object = "mailbox" /\ Mailbox!Next
             \/ object = "peeked" /\ Peeked!Next
          /\ UNCHANGED <<semaphoreOnly, notifyOnly, ringOnly, given>>
    /\ UNCHANGED object

ObjectsSpec == ObjectsInit /\ [][ObjectsNext]_objectVars

-----------------------------------------------------------------------------
ObjectsTyped ==
    /\ object = "semaphore" => TypeOK
    /\ object = "notify" => Notify!TypeOK
    /\ object = "items" => Items!TypeOK
    /\ object = "bytes" => Bytes!TypeOK
    /\ object = "mailbox" => Mailbox!TypeOK
    /\ object = "peeked" => Peeked!TypeOK

\* TokensConserved and FrtNotify!GivesAccounted: in a race of gives,
\* takes, time-outs and suspensions a token or a notification is counted once,
\* never lost, doubled or counted past its maximum, nor is an item of the mailbox,
\* overwritten or not (stub_queue_send, stub_xSemaphoreTake,
\* vTaskNotifyGiveFromISR, queue_enqueue_locked).
Accounted ==
    /\ ObjectsTyped
    /\ object = "semaphore" => TokensConserved
    /\ object = "notify" => Notify!GivesAccounted
    /\ object = "mailbox" => Mailbox!ExactlyOnce
    /\ object = "peeked" => Peeked!ExactlyOnce

\* Nobody sleeps beside what it waits for: a token, with a take that still waits
\* not told of success (wake_queue_waiter_locked, stub_xSemaphoreTake), the count
\* of its notification slot (ulTaskNotifyTake), the item or the room of a mailbox, or, with
\* one receiver, data that could be lent (wake_ringbuffer_waiter_locked).
WakeupsArrive ==
    /\ object = "semaphore" => NoTokenWaits /\ WaitersNotTold
    /\ object = "notify" => Notify!NoNotifyMissed
    /\ object = "items" => Items!NoLostWakeup
    /\ object = "bytes" => Bytes!NoLostWakeup
    /\ object = "mailbox" => Mailbox!NoLostWakeup /\ Mailbox!CallsTellTruth
    /\ object = "peeked" => Peeked!CallsTellTruth

\* FrtNotify!AnswerTellsOutcome and DeletedStays: a take is told 0 exactly when
\* it timed out, and a notification does not revive a deleted task that was
\* waiting for it (the return register the give overwrites, find_task); a mailbox
\* stays a queue of one, also when it is overwritten or peeked at.
AnswerTellsOutcome ==
    [][/\ object = "notify" => Notify!AnswerStep /\ Notify!DeletedStep
       /\ object = "mailbox" => Mailbox!FifoStep
       /\ object = "peeked" => Peeked!FifoStep]_objectVars

\* FrtRing: bytes arrive once and in order, and what a receiver was lent stays in
\* place until it is returned; from an item buffer it is one whole item
\* (ringbuffer_borrow_locked, ringbuffer_append_locked, ringbuffer_return_item).
StreamPreserved ==
    /\ object = "items" => Items!StreamPreserved /\ Items!LoanStable /\ Items!ItemsWhole
    /\ object = "bytes" => Bytes!StreamPreserved /\ Bytes!LoanStable
=============================================================================
