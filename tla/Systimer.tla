------------------------------ MODULE Systimer ------------------------------
(***************************************************************************)
(* The ESP32-S3 system timer (systimer.c): free-running counters and       *)
(* comparators that raise an interrupt once or periodically.               *)
(*                                                                         *)
(* Like the timer groups it moves only when somebody looks: systimer_sync  *)
(* adds the ticks of the cycles since the last call and then evaluates     *)
(* every comparator.  A comparator is set in several writes (target or     *)
(* period, COMPn_LOAD, enable, mode), any of which may leave it due.       *)
(*                                                                         *)
(* The clock of the two cores is TimerGroup's, in the same differences     *)
(* with one core leading; here its only trace is the unseen cycles.  The   *)
(* CPU frequency is fixed; DATE and the saturation of systimer_scaled_ticks*)
(* at 2^64 are left out.                                                   *)
(***************************************************************************)
EXTENDS Integers, FiniteSets, FiniteSetsExt

CONSTANTS
    Units,          \* counters
    Alarms,         \* comparators
    Radix,          \* values of one word of a two-word register
    Modulus,        \* counter mask + 1, a multiple of 2 * Radix
    CpuHz, TimerHz, \* CPU clock and counter clock
    Periods,        \* values of the period field of TARGETn_CONF
    LoadWords,      \* words software writes to UNITn_LOAD_HI, UNITn_LOAD_LO
    MaxRun          \* longest run of a core between two accesses

SystimerAssumption ==
    /\ Radix \in Nat \ {0} /\ Modulus \in Nat \ {0} /\ Modulus % (2 * Radix) = 0
    /\ CpuHz \in Nat \ {0} /\ TimerHz \in Nat \ {0}
    /\ TimerHz <= CpuHz * (Modulus \div 2 - 1)     \* a cycle is less than half a turn
    /\ 0 \in Units /\ MaxRun \in Nat
    /\ LoadWords \subseteq 0..(Radix - 1)
    /\ Periods \subseteq 0..(Modulus \div 2 - 1)

VARIABLES
    st,             \* struct flexe_systimer
    unseen          \* cycles since the last systimer_sync

vars == <<st, unseen>>
-----------------------------------------------------------------------------
\* systimer_reached: current is less than half a turn past the target.
Reached(current, target) == (current - target) % Modulus < Modulus \div 2

UpdateIrqs(s) == [s EXCEPT !.level = s.intRaw \cap s.intEnable]

Armed(s, i) == /\ s.alarm[i].loaded /\ s.alarm[i].enable
               /\ s.counter[s.alarm[i].cfg.unit].enable

Due(s, i) == /\ Armed(s, i)
             /\ Reached(s.counter[s.alarm[i].cfg.unit].value, s.alarm[i].real)

\* What a due comparator becomes: a periodic one skips the periods that have
\* gone by; a one-shot, or one without a period, is switched off.
Served(a, current) ==
    LET behind == (current - a.real) % Modulus
    IN  IF a.cfg.periodic /\ a.period > 0
        THEN [a EXCEPT !.real =
                (a.real + (behind \div a.period + 1) * a.period) % Modulus]
        ELSE [a EXCEPT !.enable = FALSE]

\* systimer_evaluate_alarms
AlarmNow(s, i) ==
    IF Due(s, i) THEN Served(s.alarm[i], s.counter[s.alarm[i].cfg.unit].value)
                 ELSE s.alarm[i]

EvaluateAlarms(s) ==
    UpdateIrqs([s EXCEPT
        !.intRaw = s.intRaw \cup {i \in Alarms : Due(s, i)},
        !.alarm = [i \in Alarms |-> AlarmNow(s, i)]])

\* systimer_scaled_ticks: the fraction of a tick is carried over.
Numerator(s, elapsed) == elapsed * TimerHz + s.rem

CounterAfter(c, ticks) ==
    IF c.enable THEN [c EXCEPT !.value = (c.value + ticks) % Modulus] ELSE c

Counted(s, elapsed) ==
    [s EXCEPT
       !.rem = Numerator(s, elapsed) % CpuHz,
       !.counter = [u \in Units |-> CounterAfter(s.counter[u],
                                                Numerator(s, elapsed) \div CpuHz)]]

\* systimer_sync
Elapse(s, elapsed) ==
    IF ~s.clockEnabled \/ s.resetAsserted THEN s
    ELSE EvaluateAlarms(IF elapsed = 0 THEN s ELSE Counted(s, elapsed))

Now == Elapse(st, unseen)
Sync == unseen' = 0
-----------------------------------------------------------------------------
\* systimer_reset_registers; unit 0 comes up enabled.
ResetRegisters(s) ==
    [s EXCEPT
       !.counter = [u \in Units |-> [enable |-> u = 0, value |-> 0,
                      load |-> 0]],
       !.alarm = [i \in Alarms |-> [staged |-> 0, dirty |-> FALSE, real |-> 0,
                    cfg |-> [unit |-> 0, periodic |-> FALSE, field |-> 0],
                    period |-> 0, loaded |-> FALSE, enable |-> FALSE]],
       !.rem = 0, !.intEnable = {}, !.intRaw = {}, !.level = {}]

Init ==
    /\ st = ResetRegisters([counter |-> <<>>, alarm |-> <<>>, rem |-> 0,
              intEnable |-> {}, intRaw |-> {}, level |-> {},
              clockEnabled |-> TRUE, resetAsserted |-> FALSE])
    /\ unseen = 0

Run(n) ==
    /\ unseen + n <= MaxRun
    /\ unseen' = unseen + n
    /\ UNCHANGED st

\* systimer_read, flexe_systimer_eval.  A write to UNITn_OP is another look:
\* the captured value and its valid flag, which nothing here reads, are not kept.
Look == Sync /\ st' = Now

\* CONF: the enables of every unit and comparator in one word.
WriteConf(units, alarms) ==
    LET s == Now
    IN  /\ Sync
        /\ st' = EvaluateAlarms(
             [s EXCEPT
                !.counter = [u \in Units |-> [s.counter[u] EXCEPT !.enable = u \in units]],
                !.alarm = [i \in Alarms |-> [s.alarm[i] EXCEPT !.enable = i \in alarms]]])

LowWord(v, word) == (v - (v % Radix)) + word
HighWord(v, word) == word * Radix + (v % Radix)

WriteLoad(u, word) ==
    LET s == Now
    IN  /\ Sync
        /\ \/ st' = [s EXCEPT !.counter[u].load = LowWord(s.counter[u].load, word)]
           \/ /\ word < Modulus \div Radix
              /\ st' = [s EXCEPT !.counter[u].load = HighWord(s.counter[u].load, word)]

\* UNITn_LOAD
LoadCounter(u) ==
    LET s == Now
    IN  /\ Sync
        /\ st' = EvaluateAlarms([s EXCEPT !.counter[u].value = s.counter[u].load])

WriteTarget(i, word) ==
    LET s == Now
        new(v) == [s EXCEPT !.alarm[i].staged = v, !.alarm[i].dirty = TRUE]
        old == s.alarm[i].staged
    IN  /\ Sync
        /\ \/ st' = new(LowWord(old, word))
           \/ word < Modulus \div Radix /\ st' = new(HighWord(old, word))

\* TARGETn_CONF
WriteTargetConf(i, unit, periodic, field) ==
    /\ Sync
    /\ st' = EvaluateAlarms([Now EXCEPT !.alarm[i].cfg =
               [unit |-> unit, periodic |-> periodic, field |-> field]])

\* COMPn_LOAD: the target a comparator takes over.
Loaded(s, i) ==
    LET a == s.alarm[i]
    IN  [a EXCEPT
           !.period = a.cfg.field,
           !.real = IF a.cfg.periodic \/ ~a.dirty
                    THEN (s.counter[a.cfg.unit].value + a.cfg.field) % Modulus
                    ELSE a.staged,
           !.dirty = FALSE,
           !.loaded = TRUE]

LoadComparator(i) ==
    LET s == Now
    IN  /\ Sync
        /\ st' = EvaluateAlarms([s EXCEPT !.alarm[i] = Loaded(s, i)])

WriteIntEnable(is) ==
    /\ Sync
    /\ st' = UpdateIrqs([Now EXCEPT !.intEnable = is])

ClearInt(is) ==
    LET s == Now
    IN  /\ Sync
        /\ st' = UpdateIrqs([s EXCEPT !.intRaw = s.intRaw \ is])

\* flexe_systimer_set_system_state
SetSystemState(clock, reset) ==
    LET now == Now
        s == IF reset /\ ~now.resetAsserted THEN ResetRegisters(now) ELSE now
    IN  /\ <<clock, reset>> # <<st.clockEnabled, st.resetAsserted>>
        /\ Sync
        /\ st' = [s EXCEPT !.clockEnabled = clock, !.resetAsserted = reset]

Next ==
    \/ \E n \in 1..MaxRun : Run(n)
    \/ Look
    \/ \E us \in SUBSET Units, is \in SUBSET Alarms : WriteConf(us, is)
    \/ \E u \in Units : \/ \E word \in LoadWords : WriteLoad(u, word)
                        \/ LoadCounter(u)
    \/ \E i \in Alarms : \/ \E word \in 0..(Radix - 1) : WriteTarget(i, word)
                         \/ \E u \in Units, m \in BOOLEAN, p \in Periods :
                              WriteTargetConf(i, u, m, p)
                         \/ LoadComparator(i)
    \/ \E is \in SUBSET Alarms : WriteIntEnable(is) \/ ClearInt(is)
    \/ \E clock, reset \in BOOLEAN : SetSystemState(clock, reset)

Spec == Init /\ [][Next]_vars
-----------------------------------------------------------------------------
(* flexe_systimer_next_event: cycles from now to the nearest armed target. *)
(* The fraction of a tick already counted (rem) is not subtracted.         *)

NextEvents(s) ==
    IF ~s.clockEnabled \/ s.resetAsserted THEN {} ELSE
    {LET a == s.alarm[i]
         distance == (a.real - s.counter[a.cfg.unit].value) % Modulus
     IN  (distance * CpuHz + TimerHz - 1) \div TimerHz :
        i \in {j \in Alarms : Armed(s, j)}}
-----------------------------------------------------------------------------
(* Properties.                                                             *)

\* An alarm of s goes off when n more cycles are counted.
GoesOff(s, n) ==
    \E i \in Alarms : Armed(s, i) /\ Elapse(s, n).alarm[i] # s.alarm[i]

CounterType ==
    [enable : BOOLEAN, value : 0..(Modulus - 1), load : 0..(Modulus - 1)]
AlarmType ==
    [staged : 0..(Modulus - 1), dirty : BOOLEAN, real : 0..(Modulus - 1),
     cfg : [unit : Units, periodic : BOOLEAN, field : Periods \cup {0}],
     period : Periods \cup {0}, loaded : BOOLEAN, enable : BOOLEAN]
StType ==
    [counter : [Units -> CounterType], alarm : [Alarms -> AlarmType],
     rem : 0..(CpuHz - 1), intEnable : SUBSET Alarms, intRaw : SUBSET Alarms,
     level : SUBSET Alarms, clockEnabled : BOOLEAN, resetAsserted : BOOLEAN]

TypeOK == st \in StType /\ unseen \in 0..MaxRun

\* The fraction of a tick already counted, in cycles, rounded up.
MostLate == (CpuHz - 1 + TimerHz - 1) \div TimerHz

\* No write leaves a comparator that is due unserved, whatever the order of
\* target, period, load, unit, mode and enable; and the deadline given to the
\* event scheduler is one at which the nearest comparator goes off, late by no
\* more than the fraction of a tick it does not subtract.
AlarmsServed ==
    LET s == Now
        deadline == Min(NextEvents(s))
    IN  /\ \A i \in Alarms : ~Due(st, i)
        /\ NextEvents(s) # {} =>
             /\ GoesOff(s, deadline)
             /\ deadline > MostLate => ~GoesOff(s, deadline - MostLate - 1)
=============================================================================
