---------------------------- MODULE EventTiming -----------------------------
(***************************************************************************)
(* When things happen: interrupts and timers of a core, and the event      *)
(* clock that both cores follow.                                           *)
(* Each part stands alone: dev is the state of the one being explored.     *)
(***************************************************************************)
EXTENDS Integers, Sequences, FiniteSets, FiniteSetsExt

VARIABLE dev

-----------------------------------------------------------------------------
(***************************************************************************)
(* The interrupt and cycle-timer half of one core (xtensa.c, xtensa.h):    *)
(* CCOUNT and the CCOMPARE registers with the cached next event, the       *)
(* latched and enabled interrupts, the irq_check hint that says when to    *)
(* look at them, PS.INTLEVEL and PS.EXCM, and the EPC and EPS registers    *)
(* that nested handlers return through.                                    *)
(*                                                                         *)
(* CCOUNT wraps at Modulus and its last value doubles as "no event", as    *)
(* UINT32_MAX does.  Instructions are grouped by what they do to this      *)
(* state; a native chain retires several at once.  The guest is disciplined *)
(* as the ISA demands: a handler saves EPC1 before it unmasks, returns by  *)
(* the instruction of its level, and never lowers INTLEVEL below it.       *)
(***************************************************************************)
CONSTANTS
    Sources,    \* subset of {"t0", "t1", "t2", "soft", "ext"}
    CpuModulus,    \* values of CCOUNT
    Offsets,    \* how far ahead of CCOUNT the guest sets a compare
    MaxChain,   \* JIT_CHAIN_CAP and the longest block
    MaxDepth,   \* handlers that may nest
    ExcmLevel   \* XTENSA_EXCM_LEVEL

Level == [t0 |-> 1, t1 |-> 3, t2 |-> 5, soft |-> 1, ext |-> 2]    \* int_level
Timers == Sources \intersect {"t0", "t1", "t2"}
Levels == {1} \union {Level[s] : s \in Sources}
Half == CpuModulus \div 2
CpuNoEvent == CpuModulus - 1

CpuInterruptsAssumption ==
    /\ Sources \subseteq DOMAIN Level /\ Timers # {}
    /\ CpuModulus \in Nat /\ CpuModulus > 3 /\ CpuModulus % 2 = 0
    /\ Offsets \subseteq Nat /\ MaxChain \in Nat \ {0}
    /\ MaxDepth \in Nat /\ ExcmLevel \in Nat

CpuInit ==
    dev = [count |-> 0, cmp |-> [t \in Timers |-> 0], periph |-> CpuNoEvent, next |-> CpuNoEvent,
           pending |-> {}, enabled |-> {}, level |-> 15, excm |-> TRUE, check |-> FALSE,
           halted |-> FALSE, pc |-> 0, epc |-> [l \in Levels |-> 0],
           eps |-> [l \in Levels |-> [level |-> 0, excm |-> FALSE]],
           stack |-> << >>, returned |-> FALSE, lost |-> FALSE]

-----------------------------------------------------------------------------
(* Timers.                                                                 *)

\* (int32_t)(ccount - v) >= 0
Due(d, v) == (d.count - v) % CpuModulus < Half

CpuDistance(d, v) == IF Due(d, v) THEN 0 ELSE (v - d.count) % CpuModulus

Armed(d) == {t \in Timers : d.cmp[t] # 0 /\ t \notin d.pending}

\* xtensa_recompute_next_timer_impl
CpuRecompute(d) ==
    LET armed == Armed(d)
        before(t, u) == \/ CpuDistance(d, d.cmp[t]) < CpuDistance(d, d.cmp[u])
                        \/ CpuDistance(d, d.cmp[t]) = CpuDistance(d, d.cmp[u]) /\ Level[t] <= Level[u]
        first == CHOOSE t \in armed : \A u \in armed : before(t, u)
        device == d.periph # CpuNoEvent
                     /\ (armed # {} => CpuDistance(d, d.periph) < CpuDistance(d, d.cmp[first]))
    IN  [d EXCEPT !.next = IF device THEN d.periph
                           ELSE IF armed # {} THEN d.cmp[first] ELSE CpuNoEvent]

\* xtensa_request_irq_check
RequestCheck(d) == [d EXCEPT !.check = TRUE, !.returned = FALSE]

\* xtensa_fire_timers and the periph_event callback
Fire(d) ==
    LET due == {t \in Timers : d.cmp[t] # 0 /\ Due(d, d.cmp[t])}
        a   == [d EXCEPT !.pending = @ \union due]
        b   == IF a.pending # d.pending THEN RequestCheck(a) ELSE a
        c   == IF d.periph # CpuNoEvent /\ Due(d, d.periph)
               THEN RequestCheck([b EXCEPT !.periph = CpuNoEvent, !.pending = @ \union {"ext"}])
               ELSE b
    IN  CpuRecompute([c EXCEPT !.lost = FALSE])

\* History: an event is due and the counter has wrapped past it, or it sits
\* on the "no event" value; until the next Fire the cache is then unreliable.
Note(d) ==
    LET stuck(v) == v # 0 /\ Due(d, v) /\ (v > d.count \/ v = CpuNoEvent)
    IN  [d EXCEPT !.lost = @ \/ (\E t \in Armed(d) : stuck(d.cmp[t]))
                             \/ (d.periph # CpuNoEvent /\ stuck(d.periph))]

\* The unsigned test of the interpreter loop.
FireIfDue(d) == IF d.count >= d.next THEN Fire(d) ELSE Note(d)

\* xtensa_advance_idle_cycles
CpuAdvanceIdle(d, cycles) ==
    LET RunTo(e, left) ==
            LET gap  == CpuDistance(e, e.next)
                at   == Fire([e EXCEPT !.count = (@ + gap) % CpuModulus])
            IN  IF e.next = CpuNoEvent \/ gap > left THEN <<e, left, FALSE>>
                ELSE <<at, left - gap, at.next # e.next /\ at.pending \intersect at.enabled = {}>>
        one == RunTo(d, cycles)
        two == IF one[3] THEN RunTo(one[1], one[2]) ELSE one
        three == IF one[3] /\ two[3] THEN RunTo(two[1], two[2]) ELSE two
        left == three[2]
    IN  IF left > 0 THEN Fire([three[1] EXCEPT !.count = (@ + left) % CpuModulus]) ELSE three[1]

-----------------------------------------------------------------------------
(* Delivery.                                                               *)

EffectiveLevel(d) == IF d.excm /\ ExcmLevel > d.level THEN ExcmLevel ELSE d.level

\* xtensa_irq_is_deliverable
Deliverable(d) == {s \in d.pending \intersect d.enabled : Level[s] > EffectiveLevel(d)}

Push(d, kind) ==
    [d EXCEPT !.stack = Append(@, [kind |-> kind, pc |-> d.pc, level |-> d.level,
                                   excm |-> d.excm, saved |-> FALSE]),
              !.pc = Len(d.stack) + 1]

\* xtensa_raise_exception with EXCM clear
Raise(d) == [Push(d, 1) EXCEPT !.epc[1] = d.pc, !.excm = TRUE]

\* xtensa_check_interrupts
CheckInterrupts(d) ==
    LET best == IF Deliverable(d) = {} THEN 0
                ELSE CHOOSE l \in {Level[s] : s \in Deliverable(d)} :
                       \A s \in Deliverable(d) : Level[s] <= l
    IN  CASE best = 0 -> d
          [] best = 1 -> Raise(d)
          [] best > 1 -> [Push(d, best) EXCEPT !.epc[best] = d.pc,
                                               !.eps[best] = [level |-> d.level, excm |-> d.excm],
                                               !.level = best, !.excm = TRUE]

TestHint(d) ==
    IF d.check THEN CheckInterrupts([d EXCEPT !.check = FALSE, !.returned = FALSE]) ELSE d

\* The end of xtensa_step_impl, n cycles on.
Retire(d, n) == TestHint(FireIfDue([d EXCEPT !.count = (@ + n) % CpuModulus]))

-----------------------------------------------------------------------------
(* Instructions.                                                           *)

Running == ~dev.halted /\ (dev.stack # << >> => Len(dev.stack) <= MaxDepth)

Top == dev.stack[Len(dev.stack)]
Floor == IF dev.stack = << >> \/ Top.saved THEN 0 ELSE Top.kind

Plain == Running /\ dev' = Retire(dev, 1)

\* sr_write: CCOMPAREn
CpuWriteCompare(t, by) ==
    /\ Running
    /\ dev' = Retire(CpuRecompute([dev EXCEPT !.cmp[t] = (dev.count + by) % CpuModulus,
                                           !.pending = @ \ {t}]), 1)

\* sr_write: INTSET, INTCLEAR, INTENABLE
IntSet(s) == Running /\ dev' = Retire(RequestCheck([dev EXCEPT !.pending = @ \union {s}]), 1)
IntClear(s) == Running /\ s \in dev.pending /\ dev' = Retire([dev EXCEPT !.pending = @ \ {s}], 1)
IntEnable(on) ==
    Running /\ dev' = Retire(RequestCheck([dev EXCEPT !.enabled = on]), 1)

Rsil(l) == Running /\ l >= Floor /\ dev' = Retire(RequestCheck([dev EXCEPT !.level = l]), 1)

\* exec_cached_qrst leaves the hint alone when nothing is pending.
CachedRsil(l) ==
    /\ Running /\ l >= Floor
    /\ dev.pending \intersect dev.enabled = {}
    /\ dev' = Retire([dev EXCEPT !.level = l], 1)

Waiti(l) ==
    /\ Running /\ dev.stack = << >>
    /\ dev' = Retire([dev EXCEPT !.level = l, !.halted = TRUE], 1)

Syscall ==
    /\ Running /\ ~dev.excm /\ Len(dev.stack) < MaxDepth
    /\ Floor \in {0, 1}
    /\ dev' = Retire(Raise(dev), 1)

\* sr_write: PS, from the startup code
WritePs ==
    /\ Running /\ dev.stack = << >>
    /\ dev' = Retire(RequestCheck([dev EXCEPT !.level = 0, !.excm = FALSE]), 1)

\* A level-one handler stores EPC1 and PS and lets others in (WSR PS) ...
Unmask ==
    /\ Running /\ dev.stack # << >> /\ Top.kind = 1 /\ ~Top.saved
    /\ dev' = Retire(RequestCheck([dev EXCEPT !.stack[Len(dev.stack)].saved = TRUE,
                                              !.epc[1] = 0, !.excm = FALSE, !.level = 1]), 1)

\* ... and loads them again.
Remask ==
    /\ Running /\ dev.stack # << >> /\ Top.kind = 1 /\ Top.saved
    /\ dev' = Retire(RequestCheck([dev EXCEPT !.stack[Len(dev.stack)].saved = FALSE,
                                              !.epc[1] = Top.pc, !.excm = TRUE,
                                              !.level = Top.level]), 1)

\* The saved words of a level nobody is in are dead; they are cleared here.
Pop(d) ==
    LET l == d.stack[Len(d.stack)].kind
    IN  [d EXCEPT !.stack = SubSeq(@, 1, Len(@) - 1), !.epc[l] = 0,
                  !.eps[l] = [level |-> 0, excm |-> FALSE]]

Rfe ==
    /\ Running /\ dev.stack # << >> /\ Top.kind = 1 /\ ~Top.saved
    /\ dev' = Retire(RequestCheck([Pop(dev) EXCEPT !.excm = FALSE, !.pc = dev.epc[1]]), 1)

\* RFI deliberately does not ask for a check.
Rfi ==
    /\ Running /\ dev.stack # << >> /\ Top.kind > 1
    /\ dev' = Retire([Pop(dev) EXCEPT !.level = dev.eps[Top.kind].level,
                                      !.excm = dev.eps[Top.kind].excm,
                                      !.pc = dev.epc[Top.kind], !.returned = TRUE], 1)

-----------------------------------------------------------------------------
(* Time that passes without stepping.                                      *)

\* jit_chain_limit
ChainLimit(d) ==
    IF d.check THEN 0
    ELSE LET room == IF d.next = CpuNoEvent THEN MaxChain
                     ELSE (d.next - d.count) % CpuModulus
         IN  IF room >= Half THEN 0 ELSE IF room < MaxChain THEN room ELSE MaxChain

\* jit_pc_hook: a chain of blocks of one or two instructions; none begins past
\* the limit, the first always runs.
Native(n) ==
    /\ Running
    /\ n <= ChainLimit(dev) + 1
    /\ dev' = Retire(dev, n)

\* A translated function returns without testing the hint.
Aot(n) == Running /\ dev' = FireIfDue([dev EXCEPT !.count = (@ + n) % CpuModulus])

\* A stub that fast-forwards the clock, then the instruction that called it.
CpuSkip(n) == Running /\ dev' = Retire(CpuAdvanceIdle(dev, n), 1)

\* xtensa_run_poll_spin: repetitions of a polling loop, never across an event
PollSpin(n) ==
    /\ Running
    /\ dev.next # CpuNoEvent => n < CpuDistance(dev, dev.next)
    /\ dev' = Note([dev EXCEPT !.count = (@ + n) % CpuModulus])

\* xtensa_run_halted, one turn of its loop with n cycles of budget left
RunHalted(n) ==
    LET waiting == dev.pending \intersect dev.enabled # {}
        gap     == IF Due(dev, dev.next) THEN 1 ELSE (dev.next - dev.count) % CpuModulus
        fires   == ~waiting /\ dev.next # CpuNoEvent /\ gap <= n
        by      == IF waiting THEN 1 ELSE IF fires THEN gap ELSE n
        d       == [dev EXCEPT !.count = (@ + by) % CpuModulus]
        e       == IF fires THEN Fire(d) ELSE Note(d)
    IN  /\ dev.halted
        /\ dev' = IF e.pending \intersect e.enabled # {}
                  THEN CheckInterrupts([e EXCEPT !.halted = FALSE, !.returned = FALSE]) ELSE e

\* The halted branch of xtensa_step_impl
StepHalted ==
    LET e == FireIfDue([dev EXCEPT !.count = (@ + 1) % CpuModulus])
    IN  /\ dev.halted
        /\ dev' = IF e.pending \intersect e.enabled # {}
                  THEN CheckInterrupts([e EXCEPT !.halted = FALSE, !.returned = FALSE]) ELSE e

\* A device raises or drops its line, or arms a deadline of its own.
Assert == "ext" \in Sources /\ dev' = RequestCheck([dev EXCEPT !.pending = @ \union {"ext"}])
Deassert == "ext" \in dev.pending /\ dev' = [dev EXCEPT !.pending = @ \ {"ext"}]
ArmDevice(by) ==
    /\ "ext" \in Sources /\ dev.periph = CpuNoEvent
    /\ dev' = CpuRecompute([dev EXCEPT !.periph = (dev.count + by) % CpuModulus])

CpuNext ==
    \/ Plain \/ WritePs \/ Syscall \/ Unmask \/ Remask \/ Rfe \/ Rfi
    \/ \E t \in Timers, by \in Offsets : CpuWriteCompare(t, by)
    \/ \E s \in Sources \ Timers : IntSet(s) \/ IntClear(s)
    \/ \E on \in {{}, Sources} : IntEnable(on)
    \/ \E l \in {0, ExcmLevel} : Rsil(l) \/ CachedRsil(l)
    \/ Waiti(0)
    \/ \E n \in 2..(MaxChain + 1) : Native(n) \/ Aot(n) \/ CpuSkip(n) \/ PollSpin(n) \/ RunHalted(n)
    \/ StepHalted \/ Assert \/ Deassert
    \/ \E by \in Offsets : ArmDevice(by)

CpuSpec == CpuInit /\ [][CpuNext]_dev

-----------------------------------------------------------------------------
CpuTypeOK ==
    /\ dev.count \in 0..(CpuModulus - 1) /\ dev.next \in 0..(CpuModulus - 1)
    /\ dev.cmp \in [Timers -> 0..(CpuModulus - 1)] /\ dev.pending \subseteq Sources
    /\ Len(dev.stack) <= Cardinality(Levels) + MaxDepth

(* xtensa_request_irq_check and its callers: whenever an interrupt could be  *)
(* taken, either the hint is up, or the core sleeps and will look itself, or *)
(* the last thing it did was the RFI that deliberately does not look.        *)
HintCovers == Deliverable(dev) # {} => dev.check \/ dev.halted \/ dev.returned

DueUnlatched == {t \in Armed(dev) : Due(dev, dev.cmp[t])}

(* xtensa_fire_timers and the event cache: a compare or a device deadline    *)
(* whose time has come is latched, or the cache makes the next instruction's *)
(* test latch it.  Two cases the code does lose are marked by Note: the step *)
(* that passed the event also wrapped CCOUNT (the loop compares unsigned),   *)
(* and the event sits on the "no event" value.                               *)
DueIsLatched ==
    \/ DueUnlatched = {} /\ ~(dev.periph # CpuNoEvent /\ Due(dev, dev.periph))
    \/ dev.count >= dev.next
    \/ dev.lost

(* The comment on xtensa_fire_timers: "overshooting the target (stubs        *)
(* advancing time, batch accounting) can never lose a tick".  A compare that *)
(* is due is latched by the next instruction's test at the latest.           *)
OvershootKeepsTick ==
    CpuNoEvent \notin {dev.cmp[t] : t \in Timers} /\ DueUnlatched # {}
        => dev.count >= dev.next

(* xtensa_check_interrupts, RFI and RFE: while handlers nest, the context    *)
(* each one returns to is intact in EPC and EPS.                             *)
ContextKept ==
    \A i \in 1..Len(dev.stack) :
       LET f == dev.stack[i] IN
       IF f.kind = 1 THEN ~f.saved => dev.epc[1] = f.pc
       ELSE dev.epc[f.kind] = f.pc /\ dev.eps[f.kind] = [level |-> f.level, excm |-> f.excm]

-----------------------------------------------------------------------------
(***************************************************************************)
(* How device deadlines reach the two cores (peripherals.c, xtensa.c).     *)
(* Each core executes against its own CCOUNT and compares it with one      *)
(* cached word, next_timer_event.  The cache folds the core's CCOMPARE     *)
(* register and the deadlines of the event sources, which live on a time-  *)
(* line of their own: the furthest either core has executed.               *)
(*                                                                         *)
(* One event source is modelled, the one-shot deferred callbacks.  CCOUNT  *)
(* wraps at Modulus; Modulus - 1 (UINT32_MAX) doubles as "no event".       *)
(***************************************************************************)
CONSTANTS
    Fns,        \* the callbacks (fn, ctx) devices schedule
    Slots,      \* PERIPH_DEFERRED_MAX slots, 1 .. Slots
    Delays,     \* the delays they ask for, in cycles
    EventModulus,    \* 2^32
    Starts,     \* what CCOUNT may be when the bounded stretch begins
    MaxCycles   \* bound on what a core executes or skips

EventClockAssumption ==
    /\ Slots \in Nat \ {0} /\ EventModulus \in Nat \ {0} /\ MaxCycles \in Nat
    /\ Delays \subseteq Nat /\ Starts \subseteq 0 .. EventModulus - 1

Cores == {0, 1}
NoFn == "none"
EventNoEvent == EventModulus - 1

(* ccount, last: CCOUNT and last_ccount; own: core_cycles; cycles: the      *)
(* shared time-line; slot: the deferred table; candidate: is the source in  *)
(* event_source_candidates; next: next_timer_event; ccompare, latched: one  *)
(* compare register and its interrupt bit.  blind is history: the core      *)
(* dropped the source although a callback is armed, and due callbacks have  *)
(* not been run since.                                                      *)

EventTypeOK ==
    /\ dev.ccount \in [Cores -> 0 .. EventModulus - 1]
    /\ dev.slot \in [1 .. Slots -> [fn : Fns \cup {NoFn}, armed : BOOLEAN, deadline : Nat]]
    /\ dev.next \in [Cores -> 0 .. EventModulus - 1]

\* periph_attach_cpus: the clock is anchored at CCOUNT and every source is a
\* candidate.  CCOUNT has run for a while without events (Starts).
EventInit ==
    \E start \in Starts :
    dev = [ccount |-> [c \in Cores |-> start], last |-> [c \in Cores |-> start],
           own |-> [c \in Cores |-> 0], cycles |-> 0,
           slot |-> [i \in 1 .. Slots |-> [fn |-> NoFn, armed |-> FALSE, deadline |-> 0]],
           candidate |-> [c \in Cores |-> TRUE], blind |-> [c \in Cores |-> FALSE],
           next |-> [c \in Cores |-> EventNoEvent],
           ccompare |-> [c \in Cores |-> 0], latched |-> [c \in Cores |-> FALSE]]
-----------------------------------------------------------------------------
\* (int32_t) of a difference of two CCOUNT values.
Signed(x) == LET y == x % EventModulus IN IF 2 * y < EventModulus THEN y ELSE y - EventModulus

\* periph_clock_now: both cores' progress is sampled, the furthest counts.
ClockNow(d) ==
    LET own == [c \in Cores |-> d.own[c] + ((d.ccount[c] - d.last[c]) % EventModulus)]
    IN  [d EXCEPT !.own = own, !.last = d.ccount,
                  !.cycles = Max({d.cycles, own[0], own[1]})]

\* periph_deadline_ccount: a deadline of the shared time-line as a CCOUNT of c.
DeadlineCcount(d, c, deadline) ==
    (d.ccount[c] + Max({deadline - d.cycles, 0})) % EventModulus

Deadlines(d) == {d.slot[i].deadline : i \in {j \in 1 .. Slots : d.slot[j].armed}}

\* deferred_next_fire
NextFire(d, c) ==
    IF Deadlines(d) = {} THEN EventNoEvent ELSE DeadlineCcount(d, c, Min(Deadlines(d)))

\* xtensa_recompute_next_timer over periph_next_event_hook: a source without an
\* event stops being a candidate of the core until it reports a change.
EventRecompute(d, c) ==
    LET n == ClockNow(d)
        event == IF d.candidate[c] THEN NextFire(n, c) ELSE EventNoEvent
        e == IF d.candidate[c] THEN n ELSE d
        compare == IF d.ccompare[c] # 0 /\ ~d.latched[c] THEN {d.ccompare[c]} ELSE {}
        known == compare \cup ({event} \ {EventNoEvent})
        Distance(x) == Max({Signed(x - d.ccount[c]), 0})
    IN  [e EXCEPT !.candidate[c] = @ /\ event # EventNoEvent,
                  !.blind[c] = @ \/ (d.candidate[c] /\ event = EventNoEvent /\ Deadlines(n) # {}),
                  !.next[c] = IF known = {} THEN EventNoEvent
                              ELSE CHOOSE x \in known :
                                     \A y \in known : Distance(x) <= Distance(y)]

BugKick(d) ==       \* mutation: only core 0 learns of the change
    EventRecompute([d EXCEPT !.candidate[0] = TRUE], 0)

\* deferred_kick: the source is a candidate of both cores again.
Kick(d) == EventRecompute(EventRecompute([d EXCEPT !.candidate = [c \in Cores |-> TRUE]], 0), 1)

\* deferred_eval_events: every due callback is disarmed, then called.
EvalEvents(d) ==
    LET n == ClockNow(d)
        due == {i \in 1 .. Slots : n.slot[i].armed /\ n.slot[i].deadline <= n.cycles}
    IN  Kick([n EXCEPT !.blind = [c \in Cores |-> FALSE],
                       !.slot = [i \in 1 .. Slots |->
                                   [n.slot[i] EXCEPT !.armed = @ /\ i \notin due]]])

\* xtensa_fire_timers: the compare interrupt latches when CCOUNT has reached it.
FireTimers(d, c) ==
    LET hit == d.ccompare[c] # 0 /\ Signed(d.ccount[c] - d.ccompare[c]) >= 0
        e == [d EXCEPT !.latched[c] = @ \/ hit]
    IN  EventRecompute(IF e.candidate[c] THEN EvalEvents(e) ELSE e, c)

\* The execution loop compares CCOUNT with the cache as unsigned words.
Reached(d, c) == d.ccount[c] >= d.next[c]

\* One cycle of a core.
OneCycle(d, c) ==
    LET e == [d EXCEPT !.ccount[c] = (@ + 1) % EventModulus]
    IN  IF Reached(e, c) THEN FireTimers(e, c) ELSE e

\* xtensa_advance_idle_cycles: from event to event, each at its own CCOUNT.
EventAdvanceIdle(d, c, n, enabled) ==
    LET Distance(e) == Max({Signed(e.next[c] - e.ccount[c]), 0})
        step[k \in 0 .. n] ==      \* k visits: what is left and the state then
            IF k = 0 THEN [d |-> d, left |-> n, stop |-> FALSE]
            ELSE LET p == step[k - 1]
                     f == FireTimers([p.d EXCEPT !.ccount[c] = (@ + Distance(p.d)) % EventModulus], c)
                 IN  IF p.stop \/ p.left = 0 \/ p.d.next[c] = EventNoEvent \/ Distance(p.d) > p.left
                     THEN p
                     ELSE [d |-> f, left |-> p.left - Distance(p.d),
                           stop |-> f.next[c] = p.d.next[c] \/ (enabled /\ f.latched[c])]
        p == step[n]
    IN  IF p.left = 0 THEN p.d
        ELSE FireTimers([p.d EXCEPT !.ccount[c] = (@ + p.left) % EventModulus], c)
-----------------------------------------------------------------------------
Execute(c) ==
    /\ ClockNow(dev).own[c] < MaxCycles
    /\ dev' = OneCycle(dev, c)

\* WAITI or a host-side wait skips n cycles of core c, with the compare
\* interrupt enabled or not.
EventSkip(c, n, enabled) ==
    /\ ClockNow(dev).own[c] + n <= MaxCycles
    /\ dev' = EventAdvanceIdle(dev, c, n, enabled)

\* The guest writes CCOMPARE of core c, which also clears its interrupt.
EventWriteCompare(c, x) ==
    dev' = EventRecompute([dev EXCEPT !.ccompare[c] = x, !.latched[c] = FALSE], c)

\* The slot periph_schedule_deferred_us finds: the one that already belongs to
\* the callback, otherwise the first that is not armed.
Mine(fn) == {i \in 1 .. Slots : dev.slot[i].fn = fn}
Free == {i \in 1 .. Slots : ~dev.slot[i].armed}

Schedule(fn, delay) ==
    /\ Mine(fn) \cup Free # {}
    /\ LET i == IF Mine(fn) # {} THEN Min(Mine(fn)) ELSE Min(Free)
           n == ClockNow(dev)
       IN  dev' = Kick([n EXCEPT !.slot[i] = [fn |-> fn, armed |-> TRUE,
                                              deadline |-> n.cycles + delay]])

\* periph_cancel_deferred
Cancel(fn) ==
    dev' = Kick([dev EXCEPT !.slot = [i \in 1 .. Slots |->
                   IF dev.slot[i].fn = fn
                   THEN [dev.slot[i] EXCEPT !.fn = NoFn, !.armed = FALSE]
                   ELSE dev.slot[i]]])

EventNext ==
    \/ \E c \in Cores : \/ Execute(c)
                        \/ \E n \in 1 .. MaxCycles, enabled \in BOOLEAN : EventSkip(c, n, enabled)
                        \/ \E x \in 0 .. MaxCycles : EventWriteCompare(c, x)
    \/ \E fn \in Fns : Cancel(fn) \/ \E delay \in Delays : Schedule(fn, delay)

EventSpec == EventInit /\ [][EventNext]_dev
-----------------------------------------------------------------------------
\* No deadline is passed: whichever core gets there first, executing or
\* skipping, the callback runs in that very cycle, although each core looks
\* only at its own cached word and although CCOUNT may wrap on the way
\* (periph_next_event_hook, deferred_kick).  The one deadline that is passed is
\* the one that falls on the CCOUNT that means "no event": deferred_next_fire
\* returns it, and the core is blind to the source until it is a candidate again.
NoDeadlineMissed ==
    \A i \in 1 .. Slots :
        dev.slot[i].armed =>
            \/ dev.slot[i].deadline >= ClockNow(dev).cycles
            \/ \E c \in Cores : dev.blind[c]

\* No tick is stepped over: a core whose CCOUNT comes to or past its compare
\* register has the interrupt latched, however far one step went and whether or
\* not CCOUNT wrapped ("can never lose a tick").
TickStep ==
    \A c \in Cores :
        LET to_go == (dev.ccompare[c] - dev.ccount[c]) % EventModulus
            step  == (dev'.ccount[c] - dev.ccount[c]) % EventModulus
        IN  /\ dev.ccompare[c] # 0 /\ 0 < to_go /\ to_go <= step
            /\ dev'.ccompare = dev.ccompare
            => dev'.latched[c]
NoTickMissed == [][TickStep]_dev
=============================================================================
