--------------------------- MODULE RemoteControl ----------------------------
(***************************************************************************)
(* The remote-control peripheral in both generations.                      *)
(* Each part stands alone: dev is the state of the one being explored.     *)
(***************************************************************************)
EXTENDS Integers, Sequences, SequencesExt, FiniteSets, FiniteSetsExt, Folds

VARIABLE dev

-----------------------------------------------------------------------------
(***************************************************************************)
(* The RMT pulse engine (peripherals.c), one channel that transmits.  A    *)
(* segment of the memory ring, up to the threshold, an end marker or the   *)
(* end of memory, is read at once and delivered when its time has passed;  *)
(* at a threshold the guest refills the half just sent.  A program of      *)
(* `len` items is sent; each item lasts one cycle.                         *)
(***************************************************************************)
CONSTANTS
    RmtHalf,           \* items between two thresholds; the channel has two halves
    RmtLengths,        \* lengths of the programs
    MaxAdvance,     \* cycles the clock moves at once
    DrainLimit      \* events taken in one evaluation (4096)

RmtAssumption == RmtHalf \in Nat \ {0} /\ RmtLengths \subseteq Nat /\ DrainLimit \in Nat \ {0}

RmtCapacity == 2 * RmtHalf
Marker == 0                     \* duration0 = 0
LastBit == 100                  \* duration1 = 0: the item ends the program
IsLast(item) == item > LastBit
Number(item) == item % LastBit

(* mem; blocks: the channel has its memory; limit: the threshold; wrap,      *)
(* continuous: the modes; active, armed, waiting, index, since, pending,     *)
(* due: the transmission; raw, ena, irq; status; apb: FIFO index.  The guest:*)
(* len, tail: its program; next: the item it writes next; fill: the half it  *)
(* refills; inline: interrupts are handled inside the update.  History: sent:*)
(* number of the item last delivered; intact: they came in order; ended:     *)
(* the transmission is over.                                                 *)

NoPending == [items |-> <<>>, kind |-> "none", index |-> 0, since |-> 0]

\* rmt_reset_state, and the guest's choice of program
RmtInit ==
    \E len \in RmtLengths, tail, inline \in BOOLEAN, mode \in {"once", "pingpong", "continuous"} :
        dev = [mem |-> [i \in 0 .. RmtCapacity - 1 |-> Marker], blocks |-> TRUE,
               limit |-> IF mode = "pingpong" THEN RmtHalf ELSE 0,
               wrap |-> mode = "pingpong", continuous |-> mode = "continuous",
               active |-> FALSE, armed |-> FALSE, waiting |-> FALSE, index |-> 0, since |-> 0,
               pending |-> NoPending, due |-> 0, raw |-> {}, ena |-> {}, irq |-> FALSE,
               status |-> {}, apb |-> 0, len |-> len, tail |-> tail, next |-> 1, fill |-> 0,
               inline |-> inline, sent |-> 0, intact |-> TRUE, ended |-> FALSE]

RmtTypeOK ==
    /\ dev.index \in 0 .. RmtCapacity /\ dev.since \in 0 .. RmtHalf
    /\ dev.raw \cup dev.ena \subseteq {"threshold", "end", "error"}
    /\ Len(dev.pending.items) <= RmtCapacity /\ dev.apb \in 0 .. RmtCapacity
-----------------------------------------------------------------------------
\* The guest's item number n: after the last one come end markers.
RmtItem(d, n) ==
    IF n > d.len THEN Marker ELSE IF n = d.len /\ d.tail THEN n + LastBit ELSE n

\* The guest's threshold handler: refill the half that was sent, then INT_CLR.
RmtRefill(d) ==
    [d EXCEPT !.mem = [i \in DOMAIN @ |-> IF i \div RmtHalf = d.fill
                                          THEN RmtItem(d, d.next + (i % RmtHalf)) ELSE @[i]],
              !.fill = 1 - @,
              !.next = IF @ > d.len THEN @ ELSE @ + RmtHalf]

IrqUpdate(d) == [d EXCEPT !.irq = d.raw \cap d.ena # {}]

\* rmt_tx_cancel
TxCancel(d) ==
    [d EXCEPT !.active = FALSE, !.armed = FALSE, !.waiting = FALSE, !.pending = NoPending, !.due = 0]

\* rmt_plan_tx_segment_at: the next immutable portion, due when it has been sent.
PlanTxSegmentAt(d, start) ==
    LET limit == IF d.limit = 0 THEN RmtCapacity
                 ELSE IF d.since < d.limit THEN d.limit - d.since ELSE 1
        endKind == IF d.continuous THEN "loop" ELSE "end"
        scan[k \in 0 .. limit] ==
            IF k = 0 THEN [items |-> <<>>, kind |-> "none", index |-> d.index % RmtCapacity, since |-> d.since]
            ELSE LET s == scan[k - 1]
                     item == d.mem[s.index]
                     wraps == s.index + 1 >= RmtCapacity
                     over == wraps /\ ~d.wrap /\ ~d.continuous /\ ~IsLast(item)
                     full == d.limit # 0 /\ s.since + 1 >= d.limit
                     kind == IF over THEN "error" ELSE IF IsLast(item) THEN endKind
                             ELSE IF full THEN "threshold" ELSE "none"
                 IN  IF s.kind # "none" THEN s
                     ELSE IF item = Marker THEN [s EXCEPT !.kind = endKind]
                     ELSE [items |-> Append(s.items, item), kind |-> kind,
                           index |-> IF wraps /\ (d.wrap \/ d.continuous) THEN 0 ELSE s.index + 1,
                           since |-> IF kind = "threshold" \/ d.limit = 0 THEN 0 ELSE s.since + 1]
        found == scan[limit]
        plan == IF ~d.blocks THEN [NoPending EXCEPT !.kind = "error"]
                ELSE [found EXCEPT !.kind = IF @ = "none" THEN "error" ELSE @,
                                   !.index = IF found.kind = "loop" THEN 0 ELSE @]
    IN  IF ~d.active \/ d.armed THEN d
        ELSE [d EXCEPT !.pending = plan, !.armed = TRUE,
                       !.due = start + (IF plan.items = <<>> THEN 1 ELSE Len(plan.items))]

\* The listener is given the items of the segment.
Deliver(d) ==
    LET expected(k) == IF d.continuous THEN ((d.sent + k - 1) % d.len) + 1 ELSE d.sent + k
        items == d.pending.items
    IN  [d EXCEPT !.intact = @ /\ \A k \in 1 .. Len(items) : Number(items[k]) = expected(k),
                  !.sent = IF items = <<>> THEN @ ELSE Number(Last(items)),
                  !.armed = FALSE, !.index = d.pending.index, !.since = d.pending.since,
                  !.pending = NoPending]

\* One due event of rmt_eval_events.
TakeEvent(d0) ==
    LET kind == d0.pending.kind
        at == d0.due
        d == [Deliver(d0) EXCEPT !.due = 0]
        told == IrqUpdate([d EXCEPT !.raw = @ \cup {"threshold"}])
        \* a dispatcher may run the handler inside the interrupt update
        served == IF told.irq /\ "threshold" \in d.ena /\ d.inline
                  THEN IrqUpdate([RmtRefill(told) EXCEPT !.raw = @ \ {"threshold"}])
                  ELSE told
    IN  CASE kind = "threshold" ->
                IF ~d.active THEN served
                ELSE IF "threshold" \notin d.ena \/ "threshold" \notin served.raw
                     THEN PlanTxSegmentAt(served, at)
                ELSE [served EXCEPT !.waiting = TRUE]
          [] kind = "end" -> IrqUpdate([TxCancel(d) EXCEPT !.raw = @ \cup {"end"}, !.ended = TRUE])
          [] kind = "loop" -> PlanTxSegmentAt([d EXCEPT !.index = 0], at)
          [] kind = "error" ->
                IrqUpdate([TxCancel(d) EXCEPT !.raw = @ \cup {"error"}, !.status = @ \cup {"mem_empty"},
                                        !.ended = TRUE])

\* rmt_eval_events: events that are due, however far the clock jumped.
EvalEvents(d) ==
    LET drained[k \in 0 .. DrainLimit] ==
            IF k = 0 THEN d
            ELSE LET e == drained[k - 1]
                 IN  IF e.armed /\ e.due <= 0 THEN TakeEvent(e) ELSE e
    IN  drained[DrainLimit]
-----------------------------------------------------------------------------
Advance(n) ==
    /\ dev.armed
    /\ dev' = EvalEvents([dev EXCEPT !.due = @ - n])

\* rmt_fifo_write: the guest loads its program before it starts.
FifoWrite ==
    /\ ~dev.active /\ ~dev.ended
    /\ dev' = IF dev.apb >= RmtCapacity THEN [dev EXCEPT !.status = @ \cup {"wr_err"}]
              ELSE [dev EXCEPT !.mem[dev.apb] = RmtItem(dev, dev.next), !.apb = @ + 1,
                               !.next = IF @ > dev.len THEN @ ELSE @ + 1]

\* rmt_write, CONF0: the number of memory blocks
WriteConf0(blocks) == ~dev.active /\ dev' = [dev EXCEPT !.blocks = blocks]

\* rmt_write_conf1: transmission starts and stops at the edges of TX_START.
RmtWriteConf1(start, ownerRx) ==
    /\ ~dev.ended
    /\ start # dev.active
    /\ start /\ dev.continuous => dev.len < RmtCapacity
    /\ start => dev.apb = RmtCapacity \/ dev.next > dev.len + 1 \/ ~dev.blocks
    /\ LET reset == [dev EXCEPT !.index = 0, !.since = 0, !.status = @ \ {"mem_empty"}]
       IN  dev' = IF ~start THEN [TxCancel(dev) EXCEPT !.ended = TRUE]
                  ELSE IF ownerRx
                       THEN IrqUpdate([dev EXCEPT !.status = @ \cup {"owner"}, !.raw = @ \cup {"error"}])
                  ELSE PlanTxSegmentAt([reset EXCEPT !.active = TRUE, !.status = @ \ {"owner"}], 0)

\* rmt_write, INT_ENA: the driver enables what it needs before it starts.
WriteIntEna(mask) ==
    /\ ~dev.active /\ ~dev.ended
    /\ dev' = IrqUpdate([dev EXCEPT !.ena = mask])

\* rmt_write, INT_CLR: a transmission held at its threshold goes on.
IntClr(d, mask) ==
    LET e == [d EXCEPT !.raw = @ \ mask]
        go == "threshold" \in mask /\ e.waiting
    IN  IrqUpdate(IF go THEN PlanTxSegmentAt([e EXCEPT !.waiting = FALSE], 0) ELSE e)
WriteIntClr(mask) == dev.raw \cap mask # {} /\ dev' = IntClr(dev, mask)

\* The guest's handler of a threshold interrupt, taken when it sees the bit.
Handler(others) ==
    /\ dev.irq /\ "threshold" \in dev.raw
    /\ dev' = IntClr(RmtRefill(dev), {"threshold"} \cup others)

RmtNext ==
    \/ \E n \in 1 .. MaxAdvance : Advance(n)
    \/ FifoWrite
    \/ \E b \in BOOLEAN : WriteConf0(b)
    \/ \E s, o \in BOOLEAN : RmtWriteConf1(s, o)
    \/ \E m \in {{}, {"threshold", "end", "error"}} : WriteIntEna(m)
    \/ WriteIntClr({"end", "error"})
    \/ \E o \in {{}, {"end"}} : Handler(o)

RmtSpec == RmtInit /\ [][RmtNext]_dev
-----------------------------------------------------------------------------
(* However far the clock jumps past thresholds, and whether the handler runs *)
(* inside the event or later, the items leave in the order of the program: a *)
(* half is never sent again before it was refilled (the comment in           *)
(* rmt_eval_events).  It needs the threshold interrupt or a program that     *)
(* fits.                                                                     *)
RmtStreamIntact ==
    dev.intact \/ (dev.wrap /\ "threshold" \notin dev.ena /\ dev.len >= RmtCapacity)

(* A transmission in progress has an event ahead of it, or waits for the     *)
(* guest to clear the threshold bit, which is still set and raises the line. *)
TransmitAlive == dev.active => dev.armed \/ (dev.waiting /\ "threshold" \in dev.raw /\ dev.irq)

(* When the end is reached the whole program was sent.                       *)
RmtEndComplete == "end" \in dev.raw /\ dev.ena # {} => dev.sent = dev.len
RmtIrqExact == dev.irq = (dev.raw \cap dev.ena # {})

-----------------------------------------------------------------------------
(***************************************************************************)
(* A receive channel of the ESP32-S3 RMT (rmt_v1.c): pulses on a pad pass  *)
(* a glitch filter and a carrier remover, are measured, and are stored as  *)
(* symbols until the line has been idle for long enough; or the host       *)
(* injects a whole frame.  Filter, remover and idle counter are deadlines, *)
(* evaluated when somebody looks.                                          *)
(*                                                                         *)
(* One tick is one cycle.  A symbol is kept as its pair of durations; a    *)
(* behaviour has one configuration.                                        *)
(***************************************************************************)
CONSTANTS
    Filter,      \* cycles a level must last to pass the filter, 0 when it is off
    Demod,       \* cycles a gap must last to end a burst, 0 when demodulation is off
    RxIdle,        \* RMT_IDLE_THRES
    RxCapacity,    \* words of the channel's memory
    Wraps,       \* values of RMT_RX_WRAP
    Limit,       \* RMT_RX_LIM
    RxMaxCycles

RmtV1RxAssumption ==
    /\ Filter \subseteq Nat /\ Demod \subseteq Nat
    /\ RxIdle \in Nat \ {0} /\ RxCapacity \in Nat \ {0} /\ Limit \in Nat /\ RxMaxCycles \in Nat

Far == RxMaxCycles + RxIdle + 50

NoFrame == [frame |-> <<>>, next |-> 0, pending |-> FALSE, bad |-> FALSE, frame_start |-> 0,
            elapsed |-> 0, deadline |-> 0,
            started |-> FALSE, level |-> 0, start |-> 0, first |-> 0, idle_at |-> Far,
            filtering |-> FALSE, filter_at |-> Far, target |-> 0,
            gap |-> FALSE, gap_start |-> 0, gap_at |-> Far]

\* flexe_rmt_v1_create; rx is the part that rmt_abort_rx_frame clears
RxInit ==
    \E f \in Filter, m \in Demod, wrap \in Wraps :
        dev = [filter |-> f, demod |-> m, wrap |-> wrap, now |-> 0, line |-> 0, active |-> FALSE,
               owner |-> TRUE, rx |-> NoFrame, filtered |-> 0, words |-> <<>>, status |-> {},
               raw |-> {}, ena |-> {}, irq |-> FALSE,
               origin |-> 0, ended |-> 0, injected |-> FALSE]

-----------------------------------------------------------------------------
(* Receiving.                                                              *)

\* rmt_notify_irq
NotifyIrq(d) == [d EXCEPT !.irq = d.raw \intersect d.ena # {}]

\* rmt_abort_rx_frame
AbortFrame(d) == [d EXCEPT !.rx = NoFrame]

\* rmt_finish_rx; ended is when the last edge of the frame was
FinishRx(d, error) ==
    NotifyIrq([AbortFrame(d) EXCEPT !.active = FALSE, !.ended = d.rx.start,
                  !.status = IF error THEN @ \union {"full"} ELSE @,
                  !.raw = @ \union {IF error THEN "error" ELSE "end"}])

\* rmt_rx_store_word
StoreWord(d, word) ==
    IF ~d.wrap /\ Len(d.words) >= RxCapacity THEN FinishRx(d, TRUE)
    ELSE LET n == Len(d.words) + 1
             hit == Limit # 0 /\ IF d.wrap THEN n % Limit = 0 ELSE n = Limit
         IN  NotifyIrq([d EXCEPT !.words = Append(@, word),
                                 !.raw = IF hit THEN @ \union {"threshold"} ELSE @])

Most(a, b) == IF a > b THEN a ELSE b

\* The last lines of rmt_rx_commit_edge: a new interval starts
Restart(d, level, at) ==
    [d EXCEPT !.rx.started = TRUE, !.rx.level = level, !.rx.start = at, !.rx.idle_at = at + RxIdle,
              !.origin = IF d.rx.started THEN @ ELSE at]

\* rmt_rx_commit_edge
CommitEdge(d, level, at) ==
    IF ~d.active \/ (d.rx.started /\ d.rx.level = level) THEN d
    ELSE IF ~d.rx.started THEN Restart(d, level, at)
    ELSE LET ticks == Most(at - d.rx.start, 1)
         IN  IF d.rx.first = 0 THEN Restart([d EXCEPT !.rx.first = ticks], level, at)
             ELSE LET e == StoreWord([d EXCEPT !.rx.first = 0], <<d.rx.first, ticks>>)
                  IN  IF e.active THEN Restart(e, level, at) ELSE e

\* rmt_rx_accept_level; the carrier level is 1
AcceptLevel(d, level, at) ==
    IF d.demod = 0 THEN CommitEdge(d, level, at)
    ELSE IF level = 1
    THEN LET e == [d EXCEPT !.rx.gap = FALSE, !.rx.gap_at = Far]
         IN  IF ~e.rx.started \/ e.rx.level # 1 THEN CommitEdge(e, 1, at) ELSE e
    ELSE IF ~d.rx.started \/ d.rx.level # 1 THEN d
    ELSE [d EXCEPT !.rx.gap = TRUE, !.rx.gap_start = at, !.rx.gap_at = at + d.demod]

\* One turn of rmt_eval_rx_channel_to's first loop: the earliest of the three
\* deadlines, idle before gap before filter
OneDue(d, t) ==
    LET filter == d.rx.filtering /\ d.rx.filter_at <= t
        gap    == d.rx.gap /\ d.rx.gap_at <= t
        idle   == d.rx.started /\ d.rx.idle_at <= t
    IN  IF idle /\ (filter => d.rx.idle_at <= d.rx.filter_at) /\ (gap => d.rx.idle_at <= d.rx.gap_at)
        THEN LET e == IF d.rx.first # 0 THEN StoreWord(d, <<d.rx.first, 0>>) ELSE d
             IN  IF e.active THEN FinishRx(e, FALSE) ELSE e
        ELSE IF gap /\ (filter => d.rx.gap_at <= d.rx.filter_at)
        THEN CommitEdge([d EXCEPT !.rx.gap = FALSE, !.rx.gap_at = Far], 0, d.rx.gap_start)
        ELSE IF filter
        THEN AcceptLevel([d EXCEPT !.rx.filtering = FALSE, !.rx.filter_at = Far, !.filtered = d.rx.target],
                         d.rx.target, d.rx.filter_at)
        ELSE d

\* One turn of its second loop: an injected frame's next word, or its end
OneWord(d, t) ==
    IF ~d.rx.pending \/ d.rx.deadline > t THEN d
    ELSE IF d.rx.next = Len(d.rx.frame) THEN FinishRx(d, d.rx.bad)
    ELSE LET e == StoreWord(d, d.rx.frame[d.rx.next + 1])
             n == d.rx.next + 1
             elapsed == d.rx.elapsed + (IF n < Len(d.rx.frame)
                                        THEN d.rx.frame[n + 1][1] + d.rx.frame[n + 1][2] ELSE RxIdle)
         IN  IF ~e.active THEN e
             ELSE [e EXCEPT !.rx.next = n, !.rx.elapsed = elapsed, !.rx.deadline = e.rx.frame_start + elapsed]

\* rmt_eval_rx_channel_to: both loops, to their end
RxEvalTo(d, t) ==
    LET turns == RxMaxCycles + 3
        edges[k \in 0..turns] ==
            IF k = 0 THEN d
            ELSE LET e == edges[k - 1] IN IF e.active THEN OneDue(e, t) ELSE e
        words[k \in 0..turns] ==
            IF k = 0 THEN edges[turns] ELSE LET e == words[k - 1] IN OneWord(e, t)
    IN  words[turns]

RxNow == RxEvalTo(dev, dev.now)

-----------------------------------------------------------------------------
(* The pad, the host and the guest.                                        *)

\* flexe_rmt_v1_rx_input_edge_at after the evaluation
InputEdge(d, old, level, at) ==
    IF ~d.active \/ d.rx.pending THEN d
    ELSE IF ~d.owner THEN NotifyIrq([d EXCEPT !.status = @ \union {"owner"}, !.raw = @ \union {"error"}])
    ELSE IF d.filter = 0 THEN AcceptLevel(d, level, at)
    ELSE LET e == IF ~d.rx.started /\ ~d.rx.filtering THEN [d EXCEPT !.filtered = old] ELSE d
         IN  IF level = e.filtered THEN [e EXCEPT !.rx.filtering = FALSE, !.rx.filter_at = Far]
             ELSE [e EXCEPT !.rx.filtering = TRUE, !.rx.target = level, !.rx.filter_at = at + d.filter]

\* A cycle passes and nothing looks
RxCycle == dev.now < RxMaxCycles /\ dev' = [dev EXCEPT !.now = @ + 1]

\* flexe_rmt_v1_rx_input_edge, with the next cycle
Edge ==
    /\ dev.now < RxMaxCycles
    /\ LET t == dev.now + 1
       IN  dev' = [InputEdge(RxEvalTo(dev, t), dev.line, 1 - dev.line, t) EXCEPT !.line = 1 - dev.line, !.now = t]

\* flexe_rmt_v1_eval from a register read or the scheduler
RxEval == RxNow # dev /\ dev' = RxNow

\* flexe_rmt_v1_rx_inject, of a frame of n words
Inject(n) ==
    /\ dev.active /\ ~dev.rx.pending /\ ~dev.rx.started /\ ~dev.rx.filtering /\ ~dev.rx.gap
    /\ LET room == IF dev.wrap THEN n ELSE Most(RxCapacity - Len(dev.words), 0)
           kept == IF n < room THEN n ELSE room
           frame == [k \in 1..kept |-> <<1, 1>>]
           first == IF kept > 0 THEN 2 ELSE RxIdle
       IN  dev' = IF ~dev.owner
                  THEN NotifyIrq([dev EXCEPT !.status = @ \union {"owner"}, !.raw = @ \union {"error"}])
                  ELSE [dev EXCEPT !.rx = [NoFrame EXCEPT !.frame = frame, !.pending = TRUE, !.bad = kept < n,
                                              !.elapsed = first, !.frame_start = dev.now,
                                              !.deadline = dev.now + first],
                                   !.injected = TRUE]

\* rmt_write of RX_CONF1: a memory reset, and CONF_UPDATE with RX_EN
RxWriteConf1(reset, on, owner) ==
    LET d == [RxNow EXCEPT !.owner = owner]
        r == IF reset THEN AbortFrame([d EXCEPT !.words = <<>>, !.status = {}, !.injected = FALSE]) ELSE d
        u == [r EXCEPT !.active = on]
    IN  /\ dev.now < RxMaxCycles
        /\ dev' = IF ~r.active \/ ~on THEN AbortFrame(u) ELSE u

WriteEna(on) == dev' = NotifyIrq([RxNow EXCEPT !.ena = IF on THEN {"end", "error", "threshold"} ELSE {}])
WriteClr == dev.raw # {} /\ dev' = NotifyIrq([RxNow EXCEPT !.raw = {}])

RxNext ==
    \/ RxCycle \/ Edge \/ RxEval \/ WriteClr
    \/ \E n \in 1..(RxCapacity + 1) : Inject(n)
    \/ \E on \in BOOLEAN : RxWriteConf1(TRUE, on, TRUE)
    \/ RxWriteConf1(FALSE, TRUE, FALSE)
    \/ \E on \in BOOLEAN : WriteEna(on)

RxSpec == RxInit /\ [][RxNext]_dev

-----------------------------------------------------------------------------
RxTypeOK ==
    /\ dev.now \in 0..RxMaxCycles /\ dev.line \in {0, 1} /\ dev.filtered \in {0, 1}
    /\ dev.raw \subseteq {"end", "error", "threshold"} /\ dev.status \subseteq {"full", "owner"}

(* rmt_notify_irq and its callers: the line is up exactly while an enabled   *)
(* condition is latched.                                                     *)
RxIrqExact == dev.irq <=> dev.raw \intersect dev.ena # {}

(* rmt_eval_rx_channel_to: looking once after several deadlines have passed  *)
(* leaves the channel as looking on every cycle would, so what is captured   *)
(* does not depend on who reads a register when.                             *)
RxLazyExact ==
    \A t \in dev.now..(dev.now + 3) : RxEvalTo(dev, t) = RxEvalTo(RxEvalTo(dev, dev.now), t)

Total(words) == FoldFunction(LAMBDA w, n : w[1] + w[2] + n, 0, words)

(* rmt_rx_commit_edge: the durations stored and the half symbol held add up  *)
(* to the time between the frame's first edge and its last: filter and       *)
(* carrier remover move edges, they never lose time between them.            *)
TimeConserved ==
    LET last == IF dev.rx.started THEN dev.rx.start ELSE dev.ended
    IN  dev.words # <<>> /\ ~dev.injected /\ "full" \notin dev.status /\ (dev.rx.started \/ ~dev.active) =>
           Total(dev.words) + dev.rx.first = last - dev.origin

(* The glitch filter: no half symbol is shorter than a pulse must last to    *)
(* pass it.                                                                  *)
NoGlitchStored ==
    ~dev.injected =>
       \A k \in 1..Len(dev.words) :
          dev.words[k][1] >= dev.filter /\ (dev.words[k][2] = 0 \/ dev.words[k][2] >= dev.filter)

(* rmt_rx_store_word: without wrap no word is written past the channel's     *)
(* memory.                                                                   *)
WithinMemory == dev.wrap \/ Len(dev.words) <= RxCapacity

-----------------------------------------------------------------------------
(***************************************************************************)
(* The transmit channels of the ESP32-S3 RMT (rmt_v1.c).  A transmission   *)
(* is played in segments copied from the channel's memory: to the end      *)
(* marker, or to the threshold where the guest refills what was sent; it   *)
(* may loop, a number of times or until stopped, and channels may start    *)
(* together.  Pads follow edge by edge when something watches them and are *)
(* sampled otherwise.                                                      *)
(*                                                                         *)
(* An item is a number (0 is the end marker) that lasts two cycles, one at *)
(* each level; the carrier and the clock divider are left out.  Absolute   *)
(* time is bounded by MaxCycles.                                           *)
(***************************************************************************)
CONSTANTS
    NChannels,
    TxHalf,         \* RMT_TX_LIM; the memory holds two halves
    TxLengths,      \* items of a transmission
    Modes,        \* of "plain", "wrap", "counted", "forever", "count_only"
    Loops,        \* loop count of a counted loop
    TxMaxCycles

RmtV1TxAssumption ==
    /\ NChannels \in Nat \ {0} /\ TxHalf \in Nat \ {0} /\ TxLengths \subseteq Nat \ {0} /\ Loops \in Nat \ {0} /\ TxMaxCycles \in Nat
    /\ Modes \subseteq {"plain", "wrap", "counted", "forever", "count_only"}

Channels == 1..NChannels
TxCapacity == 2 * TxHalf
Slots == 0..(TxCapacity - 1)
TxItem(length, n) == IF n <= length THEN n ELSE 0

TxIdle == [active |-> FALSE, armed |-> FALSE, event |-> "none", deadline |-> 0, start |-> 0,
         seg |-> <<>>, read |-> 0, loops |-> 0, edge |-> FALSE, item |-> 1, second |-> FALSE,
         edge_at |-> 0, pad |-> "idle"]

\* flexe_rmt_v1_create; the guest has filled the memory
TxInit ==
    \E mode \in Modes, watched \in BOOLEAN, together \in BOOLEAN, length \in TxLengths :
        dev = [mode |-> mode, length |-> length, watched |-> watched, sim |-> together, now |-> 0, raw |-> {},
               tx |-> [c \in Channels |-> TxIdle],
               mem |-> [c \in Channels |-> [s \in Slots |-> TxItem(length, s + 1)]],
               filled |-> [c \in Channels |-> TxCapacity], owed |-> [c \in Channels |-> 0],
               late |-> [c \in Channels |-> FALSE], sent |-> [c \in Channels |-> <<>>],
               begun |-> [c \in Channels |-> 0]]

Looping(d) == d.mode \in {"counted", "forever", "count_only"}

\* rmt_tx_has_supported_loop
SupportedLoop(d) == d.mode \in {"counted", "forever"}

-----------------------------------------------------------------------------
(* Segments.                                                               *)

\* What rmt_plan_segment's loop reads from read index r on, up to n items:
\* the items, the read index after them and how the segment ends
Walk(d, c, r, n) ==
    LET go[k \in 0..n] ==
            IF k = 0 THEN [seg |-> <<>>, read |-> r, event |-> "none"]
            ELSE LET w == go[k - 1]
                 IN  IF w.event # "none" THEN w
                     ELSE IF w.read >= TxCapacity /\ d.mode # "wrap" THEN [w EXCEPT !.event = "error"]
                     ELSE LET at == w.read % TxCapacity
                          IN  IF d.mem[c][at] = 0
                              THEN [w EXCEPT !.read = at, !.event = IF Looping(d) THEN "loop" ELSE "end"]
                              ELSE [w EXCEPT !.seg = Append(@, d.mem[c][at]), !.read = at + 1]
    IN  go[n]

\* What rmt_plan_segment makes of it
Planned(d, c, at, w) ==
    LET empty == w.event = "loop" /\ w.seg = <<>>
    IN  [d EXCEPT !.tx[c] = [@ EXCEPT !.seg = w.seg, !.read = w.read, !.start = at, !.edge = FALSE,
                                      !.event = CASE empty -> "error"
                                                  [] w.event # "none" -> w.event
                                                  [] d.mode = "wrap" -> "threshold"
                                                  [] OTHER -> "error",
                                      !.deadline = IF empty THEN at + 1 ELSE at + 2 * Len(w.seg)]]

\* rmt_plan_segment; the limit is Half with wrap and the whole memory without
PlanSegment(d, c, at) ==
    IF Looping(d) /\ ~SupportedLoop(d)
    THEN [d EXCEPT !.tx[c] = [@ EXCEPT !.seg = <<>>, !.start = at, !.edge = FALSE,
                                       !.event = "error", !.deadline = at + 1]]
    ELSE Planned(d, c, at, Walk(d, c, d.tx[c].read, IF d.mode = "wrap" THEN TxHalf ELSE TxCapacity))

\* rmt_tx_emit_level and rmt_tx_emit_idle at the start of a planned segment;
\* the segments a late guest let be played again are told apart by late
Emitted(d, c, at) ==
    [d EXCEPT !.late[c] = @ \/ d.owed[c] > 1,
              !.tx[c] = CASE @.seg = <<>> ->
                               [@ EXCEPT !.pad = IF d.tx[c].event = "error" /\ Looping(d) THEN "unknown" ELSE "idle"]
                          [] @.seg # <<>> /\ ~d.watched -> [@ EXCEPT !.pad = "unknown"]
                          [] OTHER -> [@ EXCEPT !.edge = TRUE, !.item = 1, !.second = FALSE,
                                                !.edge_at = at + 1, !.pad = "high"]]

\* rmt_tx_start_segment
StartSegment(d, c, at) == Emitted(PlanSegment(d, c, at), c, at)

\* rmt_tx_begin
Begin(d, c, at) ==
    StartSegment([d EXCEPT !.tx[c].armed = FALSE, !.tx[c].active = TRUE, !.tx[c].read = 0,
                           !.begun[c] = at, !.sent[c] = <<>>, !.owed[c] = 0, !.late[c] = FALSE], c, at)

\* rmt_tx_start_or_arm: the last selected channel releases all of them
StartOrArm(d, c, at) ==
    IF ~d.sim THEN Begin(d, c, at)
    ELSE LET a == [d EXCEPT !.tx[c].active = FALSE, !.tx[c].armed = TRUE]
         IN  IF \E e \in Channels : ~a.tx[e].armed THEN a
             ELSE LET go[e \in 0..NChannels] ==
                          IF e = 0 THEN a ELSE LET f == go[e - 1] IN Begin(f, e, at)
                  IN  go[NChannels]

\* rmt_tx_advance_edge
AdvanceEdge(d, c) ==
    LET ch == d.tx[c]
        item == IF ch.second THEN ch.item + 1 ELSE ch.item
    IN  IF item > Len(ch.seg) THEN [d EXCEPT !.tx[c].edge = FALSE, !.tx[c].item = item, !.tx[c].second = FALSE]
        ELSE [d EXCEPT !.tx[c].item = item, !.tx[c].second = ~ch.second, !.tx[c].edge_at = @ + 1,
                       !.tx[c].pad = IF ch.second THEN "high" ELSE "low"]

\* The end of a transmission, in rmt_finish_segment
Over(d, c, int) ==
    [d EXCEPT !.tx[c].active = FALSE, !.tx[c].edge = FALSE, !.tx[c].pad = "idle",
              !.raw = @ \union {<<c, int>>}]

\* rmt_finish_segment; sent is what the callback was given (the loops of an
\* endless transmission only once)
FinishSegment(d, c) ==
    LET ch == d.tx[c]
        e == [d EXCEPT !.tx[c].event = "none", !.sent[c] = IF d.mode = "forever" THEN ch.seg ELSE @ \o ch.seg]
    IN  CASE ch.event = "end" -> Over(e, c, "end")
          [] ch.event = "error" -> Over(e, c, "error")
          [] ch.event = "threshold" ->
               StartSegment([e EXCEPT !.raw = @ \union {<<c, "threshold">>}, !.owed[c] = @ + 1], c, ch.deadline)
          [] OTHER ->
               LET done == d.mode = "counted" /\ ch.loops + 1 >= Loops
               IN  IF done THEN [Over(e, c, "loop") EXCEPT !.tx[c].loops = 0]
                   ELSE StartSegment([e EXCEPT !.tx[c].read = 0,
                                               !.tx[c].loops = IF d.mode = "counted" THEN @ + 1 ELSE @],
                                     c, ch.deadline)

\* flexe_rmt_v1_eval: an endless loop that nobody watches is moved on by whole
\* periods
SkipLoops(d, c, t) ==
    LET ch == d.tx[c]
        period == ch.deadline - ch.start
        loops == (t - ch.start) \div period
    IN  IF ch.active /\ ch.event = "loop" /\ d.mode = "forever" /\ ~d.watched /\ ch.deadline <= t /\ period > 0
        THEN [d EXCEPT !.tx[c].start = @ + loops * period, !.tx[c].deadline = ch.start + (loops + 1) * period]
        ELSE d

\* No look is ever so late that more turns of the while loop are due
Turns == 8

\* Its while loop for one channel: edges before the segment's end
Turn(d, c, t) ==
    LET ch == d.tx[c]
    IN  IF ~ch.active \/ ch.event = "none" THEN d
        ELSE IF ch.edge /\ ch.edge_at < ch.deadline /\ ch.edge_at <= t THEN AdvanceEdge(d, c)
        ELSE IF ch.deadline > t THEN d
        ELSE FinishSegment(d, c)

EvalChannel(d, c, t) ==
    LET go[k \in 0..Turns] ==
            IF k = 0 THEN SkipLoops(d, c, t) ELSE LET e == go[k - 1] IN Turn(e, c, t)
    IN  go[Turns]

TxEvalTo(d, t) ==
    LET go[c \in 0..NChannels] ==
            IF c = 0 THEN d ELSE LET e == go[c - 1] IN EvalChannel(e, c, t)
    IN  go[NChannels]

TxNow == TxEvalTo(dev, dev.now)

\* flexe_rmt_v1_next_event
NextEvent(d) ==
    LET of(c) == IF d.tx[c].edge /\ d.tx[c].edge_at < d.tx[c].deadline THEN d.tx[c].edge_at ELSE d.tx[c].deadline
    IN  {of(c) : c \in {e \in Channels : /\ d.tx[e].active /\ d.tx[e].event # "none"
                                         /\ ~(d.tx[e].event = "loop" /\ d.mode = "forever" /\ ~d.watched)}}

-----------------------------------------------------------------------------
(* Steps.                                                                  *)

\* A cycle, never past an event the scheduler was told of
TxCycle ==
    /\ dev.now < TxMaxCycles /\ \A e \in NextEvent(dev) : e > dev.now
    /\ \E c \in Channels : dev.tx[c].active \/ dev.tx[c].armed
    /\ dev' = [dev EXCEPT !.now = @ + 1]

\* With every channel idle only time differences matter: the model starts over
Rebase ==
    /\ dev.now > 0 /\ \A c \in Channels : ~dev.tx[c].active /\ ~dev.tx[c].armed
    /\ dev' = [dev EXCEPT !.now = 0, !.tx = [c \in Channels |-> TxIdle], !.begun = [c \in Channels |-> 0],
                          !.late = [c \in Channels |-> FALSE], !.sent = [c \in Channels |-> <<>>],
                          !.raw = {}, !.owed = [c \in Channels |-> 0]]

\* flexe_rmt_v1_eval from the scheduler or a register access
TxEval == TxNow # dev /\ dev' = TxNow

\* rmt_write of TX_CONF with TX_START, by a driver that has cleared the
\* channel's interrupts
Start(c) ==
    /\ dev.now < TxMaxCycles /\ ~dev.tx[c].active /\ ~dev.tx[c].armed
    /\ LET d == [TxNow EXCEPT !.mem[c] = [s \in Slots |-> TxItem(dev.length, s + 1)], !.filled[c] = TxCapacity,
                            !.tx[c].loops = 0, !.raw = {r \in @ : r[1] # c}]
       IN  dev' = StartOrArm(d, c, dev.now)

\* rmt_write of TX_CONF with TX_STOP
Stop(c) ==
    /\ dev.tx[c].active \/ dev.tx[c].armed
    /\ dev' = [TxNow EXCEPT !.tx[c] = [@ EXCEPT !.active = FALSE, !.armed = FALSE, !.event = "none",
                                              !.edge = FALSE, !.pad = "idle"]]

\* The driver answers a threshold interrupt: it clears it and refills the half
\* that was played
TxRefill(c) ==
    /\ <<c, "threshold">> \in dev.raw /\ dev.tx[c].active
    /\ LET d == TxNow
           base == d.filled[c] % TxCapacity
       IN  dev' = [d EXCEPT !.raw = @ \ {<<c, "threshold">>}, !.owed[c] = 0, !.filled[c] = @ + TxHalf,
                            !.mem[c] = [s \in Slots |-> IF s \in base..(base + TxHalf - 1)
                                                        THEN TxItem(d.length, d.filled[c] + 1 + s - base) ELSE @[s]]]

\* INT_CLR of everything but a threshold
Clear ==
    /\ \E r \in dev.raw : r[2] # "threshold"
    /\ dev' = [TxNow EXCEPT !.raw = {r \in @ : r[2] = "threshold"}]

TxNext == TxCycle \/ Rebase \/ TxEval \/ Clear \/ \E c \in Channels : Start(c) \/ Stop(c) \/ TxRefill(c)

TxSpec == TxInit /\ [][TxNext]_dev

-----------------------------------------------------------------------------
TxTypeOK ==
    /\ dev.now \in 0..TxMaxCycles
    /\ \A c \in Channels : dev.tx[c].read \in 0..TxCapacity /\ dev.tx[c].loops \in 0..Loops

(* rmt_plan_segment and rmt_finish_segment: what the callback was given is   *)
(* the guest's transmission from its start, in order, through threshold      *)
(* refills and loops, unless the guest left a threshold unanswered.          *)
TxStreamIntact ==
    \A c \in Channels :
       ~dev.late[c] =>
          \A k \in 1..Len(dev.sent[c]) : dev.sent[c][k] = ((k - 1) % dev.length) + 1

(* The transmission's end tells the truth: an end interrupt means all of it  *)
(* was given to the callback, a loop interrupt that it was given Loops       *)
(* times.                                                                    *)
TxEndComplete ==
    \A c \in Channels :
       ~dev.late[c] /\ ~dev.tx[c].active /\ ~dev.tx[c].armed =>
          /\ <<c, "end">> \in dev.raw => Len(dev.sent[c]) = dev.length
          /\ <<c, "loop">> \in dev.raw => Len(dev.sent[c]) = Loops * dev.length

(* rmt_tx_start_or_arm: channels that start together do so on one cycle.     *)
StartTogether ==
    dev.sim => \A c, e \in Channels : dev.tx[c].active /\ dev.tx[e].active => dev.begun[c] = dev.begun[e]

\* flexe_rmt_v1_tx_sample
Sample(ch, t) ==
    IF ~ch.active THEN "idle"
    ELSE IF t < ch.start + 2 * Len(ch.seg) THEN IF (t - ch.start) % 2 = 0 THEN "high" ELSE "low"
    ELSE "none"

(* flexe_rmt_v1_tx_sample and the edge events: a pad that is followed edge   *)
(* by edge shows what sampling it would.                                     *)
PadAgrees ==
    LET d == TxNow
    IN  \A c \in Channels :
           d.watched /\ d.tx[c].pad \in {"high", "low"} => d.tx[c].pad = Sample(d.tx[c], dev.now)

(* flexe_rmt_v1_eval: looking late is as good as looking on every cycle,     *)
(* skipped loops included.                                                   *)
TxLazyExact == TxEvalTo(dev, dev.now + 3) = TxEvalTo(TxEvalTo(dev, dev.now + 1), dev.now + 3)
=============================================================================
