---------------------------- MODULE ChipControl -----------------------------
(***************************************************************************)
(* What joins the peripherals to the chip: the interrupt matrix and the    *)
(* clock gates and resets.                                                 *)
(* Each part stands alone: dev is the state of the one being explored.     *)
(***************************************************************************)
EXTENDS Integers, FiniteSets

VARIABLE dev

-----------------------------------------------------------------------------
(***************************************************************************)
(* The peripheral interrupt matrix (peripherals.c): which CPU line of each *)
(* core a peripheral source drives, the level of every source, the per-    *)
(* core clock gate, and the handlers the host registered per source.       *)
(*                                                                         *)
(* Sources in Whole drive both cores alike and carry a status word; those  *)
(* in PerCore (GPIO) are asserted on each core alone.                      *)
(***************************************************************************)
CONSTANTS
    Whole, PerCore,     \* interrupt sources
    Routeable,          \* CPU lines a source can drive
    Internal,           \* timer, software and profiling lines of the CPU
    MapReset,           \* the line every source is mapped to after reset
    Conditions          \* bits of a source's status word

Cores == {0, 1}
Sources == Whole \cup PerCore
Lines == Routeable \cup Internal

InterruptMatrixAssumption ==
    /\ Whole \cap PerCore = {} /\ Routeable \cap Internal = {}
    /\ MapReset \in Internal

(* map, coreLevel, level, gate, status: the arrays of esp32_periph_t;       *)
(* interrupt: the INTERRUPT word of each CPU; told: conditions the source's *)
(* handler was called for since they appeared; own: internal lines the CPU  *)
(* itself holds (the last two are history).                                 *)

MatrixTypeOK ==
    /\ dev.map \in [Cores \X Sources -> Lines]
    /\ dev.coreLevel \in [Cores \X Sources -> BOOLEAN]
    /\ dev.level \in [Sources -> BOOLEAN]
    /\ dev.gate \in [Cores -> BOOLEAN]
    /\ dev.status \in [Whole -> SUBSET Conditions]
    /\ dev.interrupt \in [Cores -> SUBSET Lines]

MatrixInit ==
    dev = [map |-> [x \in Cores \X Sources |-> MapReset],
           coreLevel |-> [x \in Cores \X Sources |-> FALSE],
           level |-> [s \in Sources |-> FALSE],
           gate |-> [c \in Cores |-> TRUE],
           status |-> [s \in Whole |-> {}],
           interrupt |-> [c \in Cores |-> {}],
           told |-> [s \in Whole |-> {}],
           own |-> [c \in Cores |-> {}]]
-----------------------------------------------------------------------------
\* intr_matrix_refresh_cpu_line: recomputed from every source mapped there.
RefreshLine(d, c, line) ==
    IF line \notin Routeable THEN d
    ELSE LET asserted == d.gate[c] /\ \E s \in Sources :
                             d.map[c, s] = line /\ d.coreLevel[c, s]
         IN  [d EXCEPT !.interrupt[c] =
                 IF asserted THEN @ \cup {line} ELSE @ \ {line}]

\* intr_matrix_refresh_core
RefreshCore(d, c) ==
    [d EXCEPT !.interrupt[c] = {l \in Lines : l \in RefreshLine(d, c, l).interrupt[c]}]

\* intr_matrix_map_source: the line it leaves and the line it joins.
MapSource(d, c, s, line) ==
    LET m == [d EXCEPT !.map[c, s] = line]
    IN  RefreshLine(RefreshLine(m, c, d.map[c, s]), c, line)

\* The handler reads the source's status word.
Dispatch(d, s) == IF s \in Whole THEN [d EXCEPT !.told[s] = d.status[s]] ELSE d

\* intr_matrix_update_source: both cores, then the handler on a rising edge.
UpdateSource(d, s, on) ==
    LET rising == on /\ ~d.level[s]
        l == [d EXCEPT !.level[s] = on,
                       !.coreLevel = [x \in DOMAIN @ |-> IF x[2] = s THEN on ELSE @[x]]]
        r == RefreshLine(RefreshLine(l, 0, l.map[0, s]), 1, l.map[1, s])
    IN  IF rising THEN Dispatch(r, s) ELSE r

\* intr_matrix_update_source_core: the handler runs on the combined edge.
UpdateSourceCore(d, c, s, on) ==
    LET r == RefreshLine([d EXCEPT !.coreLevel[c, s] = on], c, d.map[c, s])
        now == \E k \in Cores : r.coreLevel[k, s]
        e == [r EXCEPT !.level[s] = now]
    IN  IF now /\ ~d.level[s] THEN Dispatch(e, s) ELSE e

\* periph_assert_interrupt_status: a condition that was not in the last status
\* calls the handler even though the line is already high.
AssertStatus(d, s, status) ==
    LET fresh == status \ d.status[s]
        e == [d EXCEPT !.status[s] = status, !.told[s] = @ \cap status]
        u == UpdateSource(e, s, TRUE)
    IN  IF fresh # {} THEN Dispatch(u, s) ELSE u

\* periph_deassert_interrupt
Deassert(d, s) ==
    UpdateSource([d EXCEPT !.status[s] = {}, !.told[s] = {}], s, FALSE)
-----------------------------------------------------------------------------
\* target_intr_matrix_write: a map register of core c.
WriteMap(c, s, line) == dev' = MapSource(dev, c, s, line)

\* target_intr_matrix_write: the clock gate; an unchanged value does nothing.
WriteClockGate(c, on) ==
    dev' = IF on # dev.gate[c] THEN RefreshCore([dev EXCEPT !.gate[c] = on], c) ELSE dev

\* intr_matrix_write_software_interrupt, and a device's periph_assert_interrupt.
WriteSoftwareInterrupt(s, on) ==
    dev' = IF on THEN UpdateSource(dev, s, TRUE) ELSE Deassert(dev, s)

DeviceStatus(s, status) == status # {} /\ dev' = AssertStatus(dev, s, status)
DeviceDeassert(s) == dev' = Deassert(dev, s)
PinLevel(c, s, on) == dev' = UpdateSourceCore(dev, c, s, on)

\* The CPU raises or clears a line of its own (CCOMPARE, INTSET, INTCLEAR).
CpuLine(c, line) ==
    dev' = [dev EXCEPT !.interrupt[c] = (@ \ {line}) \cup ({line} \ @),
                       !.own[c] = (@ \ {line}) \cup ({line} \ @)]

MatrixNext ==
    \/ \E c \in Cores, s \in Sources, l \in Lines : WriteMap(c, s, l)
    \/ \E c \in Cores, on \in BOOLEAN : WriteClockGate(c, on)
    \/ \E s \in Whole : \/ \E on \in BOOLEAN : WriteSoftwareInterrupt(s, on)
                        \/ \E status \in SUBSET Conditions : DeviceStatus(s, status)
                        \/ DeviceDeassert(s)
    \/ \E s \in PerCore, c \in Cores, on \in BOOLEAN : PinLevel(c, s, on)
    \/ \E c \in Cores, l \in Internal : CpuLine(c, l)

MatrixSpec == MatrixInit /\ [][MatrixNext]_dev
-----------------------------------------------------------------------------
\* A routeable CPU line is up exactly when the core's matrix is clocked and a
\* source mapped there is asserted; a source mapped to a line of the CPU itself
\* (ETS_INVALID_INUM) neither raises nor clears it
\* (intr_matrix_cpu_line_is_routeable).
LineExact ==
    \A c \in Cores :
        /\ \A l \in Routeable : l \in dev.interrupt[c] <=>
              dev.gate[c] /\ \E s \in Sources : dev.map[c, s] = l /\ dev.coreLevel[c, s]
        /\ dev.interrupt[c] \cap Internal = dev.own[c]
        /\ \A s \in Sources : dev.level[s] <=> \E k \in Cores : dev.coreLevel[k, s]

\* Every condition a device reports reaches the source's handler, also while
\* the line is already high (periph_assert_interrupt_status).
EveryConditionTold == \A s \in Whole : dev.status[s] \subseteq dev.told[s]

-----------------------------------------------------------------------------
(***************************************************************************)
(* The SYSTEM block of clock gates and resets (system_clock.c): a table of *)
(* registers from the target descriptor, of which some bits gate a device, *)
(* some form the low-power clock, and whole banks are reported as the      *)
(* state of all peripherals.  Three listeners are told: each gated device, *)
(* the low-power listener and the peripheral listener.                     *)
(*                                                                         *)
(* A register is the set of its bits that are one.  The descriptor is      *)
(* chosen in Init among those the create function accepts; a behaviour     *)
(* has one descriptor and writes the gates' registers and one of the       *)
(* low-power registers (used).                                             *)
(***************************************************************************)
CONSTANTS
    Devices,      \* gated devices
    Bits,         \* bits of a register
    Banks         \* peripheral banks; bank b has registers <<"clk", b>> ...

SystemClockAssumption ==
    /\ IsFiniteSet(Devices) /\ Bits # {} /\ Bits \subseteq Nat
    /\ Banks # {} /\ Banks \subseteq Nat

\* Register 2b is bank b's clock register and 2b+1 its reset register; the
\* low-power registers come after them.
Clk(b) == 2 * b
Rst(b) == 2 * b + 1
Memory == 100
Divider == 101
Fraction == 102
BankRegs == {Clk(b) : b \in Banks} \cup {Rst(b) : b \in Banks}
Regs == BankRegs \cup {Memory, Divider, Fraction}

\* The low-power fields: one bit of MEMORY inhibits power down, DIVIDER is a
\* number, FRACTION selects sources and enables the clock.
Inhibit == {CHOOSE b \in Bits : TRUE}

Gates == [creg : BankRegs, cbit : Bits, rreg : BankRegs, rbit : Bits]

BankOf(g) == {b \in Banks : g.creg = Clk(b) /\ g.rreg = Rst(b)}

\* Both registers of a gate are those of one bank, and its bits are bits the
\* bank reports.
GateValid(g, valid) ==
    /\ BankOf(g) # {}
    /\ \A b \in BankOf(g) : g.cbit \in valid[b] /\ g.rbit \in valid[b]

GeometryValid(gates, valid, writable) ==
    /\ \A b \in Banks : /\ valid[b] # {}
                        /\ valid[b] \subseteq writable[Clk(b)]
                        /\ valid[b] \subseteq writable[Rst(b)]
    /\ \A d \in Devices : /\ GateValid(gates[d], valid)
                          /\ gates[d].cbit \in writable[gates[d].creg]
                          /\ gates[d].rbit \in writable[gates[d].rreg]
    /\ Inhibit \subseteq writable[Memory]

\* What each listener would be told now.
GateState(d, device) ==
    LET g == d.gates[device] IN
    [clock |-> g.cbit \in d.reg[g.creg], reset |-> g.rbit \in d.reg[g.rreg]]

LowPowerState(d) ==
    [allowed |-> d.reg[Memory] \cap Inhibit = {}, divider |-> d.reg[Divider],
     sources |-> d.reg[Fraction]]

PeripheralState(d) ==
    [b \in Banks |-> [clock |-> d.reg[Clk(b)] \cap d.valid[b],
                      reset |-> d.reg[Rst(b)] \cap d.valid[b]]]

\* A listener's knowledge is a sequence: empty until it is told.
Nothing == <<>>

GateInit ==
    \E gates \in [Devices -> Gates], valid \in [Banks -> SUBSET Bits],
       locked \in BankRegs \cup {Divider}, bit \in Bits,
       low \in {Memory, Divider, Fraction} :
      LET writable == [r \in Regs |-> IF r = locked THEN Bits \ {bit} ELSE Bits] IN
      /\ GeometryValid(gates, valid, writable)
      /\ dev = [gates |-> gates, valid |-> valid, writable |-> writable,
                used |-> {low} \cup UNION {{gates[x].creg, gates[x].rreg} : x \in Devices},
                reg |-> [r \in Regs |-> {}],
                told |-> [device \in Devices |-> Nothing],
                low |-> Nothing, peripheral |-> Nothing,
                lowListener |-> FALSE, peripheralListener |-> FALSE]

-----------------------------------------------------------------------------
PublishGate(d, devices) ==
    [d EXCEPT !.told = [x \in Devices |-> IF x \in devices THEN <<GateState(d, x)>> ELSE @[x]]]

PublishLowPower(d) ==
    IF d.lowListener THEN [d EXCEPT !.low = <<LowPowerState(d)>>] ELSE d

PublishPeripheral(d) ==
    IF d.peripheralListener THEN [d EXCEPT !.peripheral = <<PeripheralState(d)>>] ELSE d

\* The bits of a register some listener is told about.
MappedMask(r) ==
    CASE r = Memory -> Inhibit
      [] r \in {Divider, Fraction} -> Bits
      [] OTHER -> UNION {dev.valid[b] : b \in {x \in Banks : r \in {Clk(x), Rst(x)}}}

Affected(changed, r) ==
    {x \in Devices : \/ dev.gates[x].creg = r /\ dev.gates[x].cbit \in changed
                     \/ dev.gates[x].rreg = r /\ dev.gates[x].rbit \in changed}

\* system_clock_write: bits that are not writable keep their value, and a
\* write that changes nothing tells nobody.
WriteReg(r, value) ==
    LET old     == dev.reg[r]
        new     == (old \ dev.writable[r]) \cup (value \cap dev.writable[r])
        changed == (old \ new) \cup (new \ old)
        d1 == PublishGate([dev EXCEPT !.reg[r] = new], Affected(changed, r))
        d2 == IF r \in {Memory, Divider, Fraction} /\ changed \cap MappedMask(r) # {}
              THEN PublishLowPower(d1) ELSE d1
        d3 == IF r \in BankRegs THEN PublishPeripheral(d2) ELSE d2
    IN dev' = IF old = new THEN dev ELSE d3

\* flexe_system_clock_publish_gates, called when the session wires devices.
PublishGates == dev' = PublishGate(dev, Devices)

SetLowPowerListener ==
    \E on \in BOOLEAN :
      dev' = PublishLowPower([dev EXCEPT !.lowListener = on, !.low = Nothing])

SetPeripheralListener ==
    \E on \in BOOLEAN :
      dev' = PublishPeripheral([dev EXCEPT !.peripheralListener = on,
                                           !.peripheral = Nothing])

GateNext ==
    \/ \E r \in dev.used, value \in SUBSET Bits : WriteReg(r, value)
    \/ PublishGates \/ SetLowPowerListener \/ SetPeripheralListener

GateSpec == GateInit /\ [][GateNext]_dev

-----------------------------------------------------------------------------
GateTypeOK ==
    /\ dev.reg \in [Regs -> SUBSET Bits]
    /\ dev.told \in [Devices -> {Nothing} \cup {<<g>> : g \in [clock : BOOLEAN, reset : BOOLEAN]}]
    /\ \A r \in Regs : dev.reg[r] \subseteq dev.writable[r]

\* Every listener that has been told anything knows the registers' present
\* state, whichever register and bit changed last.
ListenersCurrent ==
    /\ \A x \in Devices : dev.told[x] # Nothing => dev.told[x] = <<GateState(dev, x)>>
    /\ dev.low # Nothing => dev.low = <<LowPowerState(dev)>>
    /\ dev.peripheral # Nothing => dev.peripheral = <<PeripheralState(dev)>>

\* The two views of a device agree: what its gate was told is what the
\* peripheral listener sees at the gate's bank, for every descriptor that
\* the create function accepts.
ViewsAgree ==
    \A x \in Devices :
      LET g == dev.gates[x] IN
      dev.told[x] # Nothing /\ dev.peripheral # Nothing =>
        \E b \in Banks :
          /\ dev.told[x][1].clock = (g.cbit \in dev.peripheral[1][b].clock)
          /\ dev.told[x][1].reset = (g.rbit \in dev.peripheral[1][b].reset)
          /\ g.creg = Clk(b)
=============================================================================
