# flexe in TLA+

A verification development for **flexe**, an emulator of the ESP32 (Xtensa LX6)
and ESP32-S3 (LX7) written in C. It models the FreeRTOS compatibility layer, the
session's batch loop, the processor with its interpreter and its JIT, the
devices and buses, the radio and file services and the savestates; it checks
them with TLC on small instances; and it proves with TLAPS, for every size, what
the scheduler, the kernel objects, the session and the clock services promise.

* [1. The system](#1-the-system)
* [2. Modules and code](#2-modules-and-code)
* [3. Runs](#3-runs)
* [4. Proofs](#4-proofs)
* [5. Where code and comments disagree](#5-where-code-and-comments-disagree)
* [6. What is not modelled](#6-what-is-not-modelled)
* [7. Plan](#7-plan)

`PROJECT.json` is the machine-readable side of this file: the components, the
runs, which lines every definition translates (`map`; a helper whose lines lie
within those of an operation already listed has no entry of its own), the mutants,
the hazards and the theorems.

## 1. The system

flexe runs unmodified ESP-IDF and Arduino firmware. A **session**
(`flexe_session.c`) owns two CPUs (`xtensa.c`, with a JIT beside the
interpreter), the memory and its caches, the device models, and the hooks that
replace firmware functions by host code. The host calls the session in
**batches**: core 0 runs up to some number of instructions, then
`flexe_session_post_batch()` runs core 1 for as long, publishes one time-line to
both cores, lets the services catch up (timer callbacks, preemption), and
honours the requests the guest left in the RTC controller (sleep, reset).
Everything happens in one host thread: the interleavings of the system are those
of two cores, interrupts and callbacks *within the emulated machine*, at the
granularity of service calls and batch boundaries.

There are two modes. In **compatibility mode** (ESP32) the FreeRTOS and
`esp_timer` functions of the firmware are hooked and emulated by host stubs
operating on host-side tables. In **native mode** (mandatory on the S3) the
firmware's own kernel runs, and everything depends on interrupts, CCOUNT and the
hardware timers being right.

### Inventory

| component | state | operations | interacts with | what is hard | what makes it correct |
|---|---|---|---|---|---|
| Task scheduler (`freertos_stubs.c`) | table of TCBs with states, wait flags, deadlines, saved register files; `current_task`, last switch and idle task of each core | create, both scheduler starts, delay, yield, suspend, resume, delete, preemption check | every kernel object blocks through it; the session calls it at batch ends; guest calls refuse switches | two cores share one table; a stub is atomic but batches interleave; the table may be full | RUNNING = current on exactly one core, a core executes its own task's context, affinity, urgency, no starvation |
| Queues, semaphores, mutexes | ring (head, tail, count), owner, depth; the wait fields of the TCBs | send, receive, peek, ISR forms, reset, delete; take, give, recursive forms | scheduler; a waker completes the call of the sleeper by patching its return register and buffer | time-out against arrival; different kinds of waiters on one object; wait flags left behind | exactly-once FIFO, tokens conserved, no lost wake-up, mutual exclusion, truthful answers |
| Event groups | bits, waiters' masks and options | set, clear, wait, sync, delete | scheduler | clear-on-exit inside the wake walk; group deleted under waiters | no missed event, truthful answers |
| Task notifications | saturating counts per task and slot | give from ISR, take | scheduler | a give in the tick of the time-out | each give counted once |
| Ring buffers | bytes, loans, acquired slots | send, acquire/complete, receive, return, delete | scheduler | in-place loans while senders append | loans stay, stream order, whole items |
| Software timers, absolute delays; `esp_timer` (`esp_timer_stubs.c`) | tables of timers with alarm, period, active | create, start, stop, change, delete, tick | batch end runs callbacks as guest calls, which command timers | callbacks inside the walk; late batches; two clocks | never early, phase kept, no start lost, overdue served |
| Synthetic guest calls (`guest_call.c`) | per-core active call, saved registers | synchronous and asynchronous call, completion | timers, ISRs, radio callbacks; scheduler asks it before switching | a callback that blocks or times out | interrupted context restored |
| Session (`flexe_session.c`) | clocks of both cores, APP-CPU start, asynchronous sleep, retained memory | run, post-batch, poll sleep, reset, rebuild | everything | cores advance clocks in two ways; reset and sleep requests in one batch; a rebuild that fails | one forward time-line, CCOUNT in step, right wake cause, retention exactly over deep sleep, sleep ends |
| CPU interpreter, window acceleration, disassembler (`xtensa.c`, `window_accel.c`, `xtensa_disasm.c`) | registers, windows, interrupt registers, cached decodings, spill records | instruction step, interrupt and exception delivery, window overflow and underflow | memory, hooks, JIT | several decoders of one instruction; shortcuts that skip interrupt checks; CCOUNT wraps | decoders and engines agree, frames and levels kept, no event skipped |
| JIT, AOT (`jit.c`, `aot.c`) | code cache, chains, dirty registers | compile, run, chain, invalidate | interpreter, memory, flash MMU | side exits; code modified or remapped while chained | a block leaves what the interpreter would leave, nothing stale runs |
| Memory, flash MMU (`memory.c`, `flash_mmu.c`, `esp32s3_extmem.c`) | page tables, MMU entries | map, remap, program, erase | JIT invalidation | remap under translated code | a read sees the current mapping |
| Interrupt matrix, event clock, clock gates (`peripherals.c`, `system_clock.c`) | routes, levels, deferred events, gates and resets | route, assert, schedule, dispatch, gate | every device, both cores | several sources on a line; deadlines of a lazily evaluated device | lines follow sources, no deadline missed, listeners told |
| Timer groups, system timer (`timer_group.c`, `systimer.c`) | counters, fractions of ticks, alarms, watchdog stage, interrupt bits | register reads and writes, sync, next event | both cores' cycle counts, clock gates, interrupt matrix | time moves only when somebody looks | observation does not change the outcome, deadlines exact, no alarm left due |
| RTC and power (`rtc_cntl.c`) | slow counter, alarm, watchdog, power domains, sleep requests, register layout | register writes, batch poll | session | alarm against pin in one batch; layouts of two targets | exact alarms, a sleeping chip can be woken, listeners current |
| Serial links (UART, UART DMA, USB serial/JTAG) | FIFOs, thresholds, time-outs | guest and host reads and writes | interrupt matrix, DMA | FIFO limits, idle time-outs | bytes in order, lines exact |
| Pins, pads, pulse devices (GPIO, IO_MUX, sigma-delta, PCNT, MCPWM, LEDC) | latches, routes, holds, phases, counters | register writes, level changes, sync | listeners on pads | lazily evaluated time, glitch filters | listeners current, jumps exact |
| Remote control (RMT, RMT v1) | pulse memory with wrapping reads | transmit, refill, receive | pads, interrupts | refill of one half while the other is sent | stream intact, end reported |
| Buses (I2C, TWAI, Ethernet, SPI, SD host, SDIO slave, I2S) and display, card and touch behind SPI | command lists, FIFOs, descriptor rings, error counters | transfers, errors, resets, clock gating | DMA, interrupts, host | descriptors shared with software, errors in mid-transfer | data intact, owner respected, no stall |
| DMA engine and S3 streaming devices (`gdma.c`, `i2s_v2.c`, `lcd_cam.c`, `apb_saradc.c`) | channels, links, owner bits | start, restart, service, stop | memory, devices | owner checks, partial service | each buffer once, streams alive |
| Flash and PSRAM (`spi_mem.c`) | write enable, protection, power state | commands of two hosts | memory, JIT | shared device state | one operation per enable, protected blocks unchanged |
| Files (`vfs_stubs.c`), Wi-Fi (`wifi_stubs.c`), Bluetooth (`bt_stubs.c`) | descriptor tables, host handles, event queues, buffer pools | open, read, write, close; connect, send, receive; HCI commands and data | host, guest calls | failing host calls, retries, restarts | handles owned by one, streams exact, answers own |
| ROM stubs (`rom_stubs.c`) | critical sections, heap locks | hooked functions | scheduler, CPU | hooks mixed with guest code | exclusion, level kept |
| Savestates (`savestate.c`) | a file of sections | save, restore | all of the above | state that is not saved, a save cut off | never a torn restore |
| Profiling, cryptography, radio links, image loading, board and UI | | host services | | mostly single-step | not modelled |

The hazards of this code, at the lines where they bite and with the properties
that watch them, are in `PROJECT.json`.

## 2. Modules and code

| module | models | code behind it |
|---|---|---|
| `FrtSched` | the scheduler's variables (TCB table, CPU flags), shared by everything built on it, and the dispatcher as operators: wake sleepers, pick, switch, park, install idle tasks, block, preemption check | `sched_*`, `frt_block_*`, `check_preempt_core` |
| `FrtTasks` | task calls, the two scheduler starts, legacy (single task) mode and promotion, synthetic guest calls, batch boundary | `stub_vTask*`, `sched_start`, `sched_promote_legacy`, trampolines, `guest_call8` |
| `FifoQueue` | what a queue promises: an abstract sequence with put, take, discard | specification |
| `FrtQueues` | `queue_t` with head, tail, count and buffer, blocked calls completed by their wakers | queue stubs |
| `FrtSemaphores` | counting semaphores, mutexes, recursive mutexes | the same `queue_t` without items |
| `FrtEvents` | event groups | event-group stubs |
| `FrtNotify` | direct-to-task notifications | notification stubs |
| `FrtRing` | no-split and byte ring buffers | ring-buffer stubs |
| `FrtTimers` | software timers and the walk that runs callbacks | timer stubs, `freertos_stubs_tick` |
| `FrtDelayUntil` | absolute delays over a wrapping tick counter | `frt_delay_until` |
| `EspTimers` | the `esp_timer` service, on the clocks of two cores | `esp_timer_stubs.c` |
| `Session` | batch loop, time-line, APP-CPU start and reset, sleeps, resets, retention | `flexe_session.c`, parts of `rtc_cntl.c`, `xtensa.c` |
| `TimerGroup`, `Systimer` | timers and watchdog of an S3 timer group; the S3 system timer | `timer_group.c`, `systimer.c` |
| `Xtensa` | *XtensaIsa*: five decoders of one instruction set; *XtensaAlu*: arithmetic of interpreter and native code | `xtensa.c`, `jit.c`, `xtensa_disasm.c` |
| `Jit` | *JitBlock*: one translated block beside the interpreter; *CodeCache*: lookup, chaining, invalidation | `jit.c` |
| `EventTiming` | *CpuInterrupts*: interrupts, exceptions, CCOUNT and its shortcuts; *EventClock*: deferred events of both cores | `xtensa.c`, `peripherals.c`, `freertos_stubs.c` |
| `GuestContexts` | *RegisterWindows*: windowed calls, spills, spill records; *PortCritical*: critical sections in guest code and in hooks | `xtensa.c`, `window_accel.c`, `rom_stubs.c` |
| `FlashMmu` | MMU tables of both targets, page table, translations | `flash_mmu.c`, `memory.c` |
| `Savestate` | save, interrupted save, restore | `savestate.c`, `main.c`, `freertos_stubs.c` |
| `ChipControl` | *InterruptMatrix*; *SystemClock*: gates and resets | `peripherals.c`, `system_clock.c` |
| `RtcDomain` | *RtcClock*: counter, alarm, watchdog; *RtcPower*: domains and sleep; *RtcLayout*: validation of a register layout | `rtc_cntl.c` |
| `SerialPorts` | *Uart*; *UsbSerialJtag* | `peripherals.c`, `usb_serial_jtag.c` |
| `Pins` | *Gpio* (ESP32), *GpioPads* (S3, routing and holds), *SigmaDelta* | `peripherals.c`, `gpio.c`, `io_mux.c`, `rtc_io.c` |
| `PulseDevices` | *Pcnt*, *Mcpwm*, *Ledc* | `peripherals.c` |
| `RemoteControl` | *Rmt* (ESP32), *RmtV1Rx*, *RmtV1Tx* (S3) | `peripherals.c`, `rmt_v1.c` |
| `DmaDevices` | *Gdma*, *Uhci*, *I2s*, *Sound* (I2S of the S3), *LcdCam*, *Adc* | `gdma.c`, `peripherals.c`, `i2s_v2.c`, `lcd_cam.c`, `apb_saradc.c` |
| `BusControllers` | *I2c*, *Twai*, *Emac* | `peripherals.c` |
| `SpiBus` | *GpSpi*: hosts, chip selects, attached devices; *Ili9341*: display commands and window | `spi_display.c` |
| `SdCards` | *Sdmmc* host, *SdioSlave*, *SdSpi*: the card behind SPI | `peripherals.c`, `spi_display.c` |
| `SpiMem` | flash and PSRAM behind two hosts | `spi_mem.c` |
| `RadioStubs` | *WifiSockets*, *WifiStation*, *BtHci* | `wifi_stubs.c`, `bt_stubs.c` |
| `Vfs` | mounts, descriptors, streams | `vfs_stubs.c` |
| `FrtSchedProofs` | what the dispatcher's operators do, as lemmas | |
| `FrtTasksProofs`, `FrtQueuesProofs`, `FrtNotifyProofs`, `FrtRingProofs`, `FrtEventsProofs` | theorems about the module they extend | |
| `FrtObjectsProofs` | theorems about semaphores, and about all the objects of `MCFrtObjects` together | |
| `MachineProofs` | theorems about the machine around the RTOS: `Session`, the clock services and hardware timers of `MCTimers`, `FlashMmu`, `Savestate`, `Jit` | |
| `MCFrtObjects`, `MCTimers`, `MCDevices`, `MCTransfers`, `MCMachine` | instances side by side, for TLC | |

**Stubs are actions.** A hooked firmware call runs to completion in host code, so
it is one action of a core `c`; its guard says that core `c` executes a task (not
a halted core), and it contains everything the stub does: the state change, the
wake of a waiter, the switch. The dispatcher therefore consists of *operators*
on a record of TCBs (`WakeSleepers`, `Pick`, `Switch`, ...), which the stubs
compose and assign once. A batch boundary is `CheckPreempt(c)`; time is `Tick`.

**Devices are records.** A device module holds its parts one after the other,
each introduced by a comment: the state of a part is the record `dev`, every
register write, host event and deferred callback is an action that computes the
new record, and the trailing update the C function makes (the interrupt line, the
next deadline, the pad) is part of it. Time is what the code uses: cycles that
have not been looked at yet.

**Contexts.** In the scheduler a register file is abstracted to whose code it
holds: `exec[c]` is what core `c` really executes, `saved[i]` what the TCB of
task `i` holds. That is enough to state that a task resumes as itself. The
spilling of register windows is a model of its own (`GuestContexts`).

**Blocked calls.** The code completes a blocked call for the sleeper: the waker
writes the return register and the receive buffer into the saved context. The
models keep these as `ret`, `got`, so that *what a call reports* can be compared
with *what happened*, which is recorded in history variables (`sent`, `accepted`,
`taken`, `given`, ...) that no guard reads except to bound the model.

**Time.** In the FreeRTOS modules one tick is a unit and deadlines are distances
(`wake[i]`), so time needs no bound. `FrtTimers`, `EspTimers` and `Session` keep
real clocks with a bound; `TimerGroup`, `Systimer` and the devices count CPU
cycles in differences and convert to ticks with remainders, like the code.

**Usages.** Several stubs only work for firmware that keeps to the kernel's
rules, or to what is usual (a callback does not block; a task does not suspend
the one another core runs). The constant `Guest` lists which of those unusual
things the firmware of a run does; with `Guest = {}` it does none. Every usage is
explained where the constant is declared; section 5 lists what it breaks.

**Composition.** Kernel objects are independent of one another in the code: they
meet in the scheduler. Each object module therefore EXTENDS the dispatcher, and
one run explores the objects *side by side*: an MC module has a variable that
chooses, in the initial state, the object or device a behaviour is about, and
that never changes. The state space is the sum, not the product, of those of its
parts, and the properties of the run name the properties of the parts.

What each model abstracts from its code:

* `FrtSched`: register windows; task names, stack sizes and entry points;
  tasks of priority 20 and more, which `xTaskCreate` does not
  register (`CreateDriver` is the call that leaves the table alone); the cycle
  arithmetic of deadlines, which becomes ticks.
* `FrtQueues`, `FrtSemaphores`: item bytes (an item is a number); one queue, so
  the handle table and its limit are not modelled; queue sets.
* `FrtRing`: bytes are numbered in the order they are sent; the header layout is
  left out.
* `EspTimers`: micro-seconds become units; the code's search for the LACT
  accessor in the firmware is left out.
* `Session`: guest code is "execute some cycles", "skip some time" or one
  request; RTC memory is one value.
* `TimerGroup`, `Systimer`: CPU frequency fixed (it is a word of guest memory; a
  change would be applied to cycles already elapsed since the last look); the
  captured values that reads return, DATE and the guards against 64-bit overflow
  are left out.
* `Xtensa`: words of four bits, so that every pair of operands is tried; the
  instruction formats keep their fields, with narrow immediates.
* `Jit`: host instruction encodings; a block is a short list of instructions that
  read, write, divide, call or leave.
* Devices: payloads are numbers in the order they were sent, or members of a
  small set; address ranges are scaled, and the constants say to what.

## 3. Runs

All bounds are CONSTANTS of the modules; the MC modules and `.cfg` files give
them values. `tlc -workers 2 -config X.cfg M` repeats a run.

| run | module, cfg | shows | distinct states |
|---|---|---|---|
| `tasks` | `FrtTasks`, `FrtTasks.cfg` | scheduler view, contexts, affinity, urgency | 311 thousand |
| `tasks_fair` | `FrtTasks`, `FrtTasksFair.cfg` | equals are not starved | 27 thousand |
| `queues` | `FrtQueues`, `FrtQueues.cfg` | exactly once, truthful calls, no lost wake-up, refinement of `FifoQueue`, also when blocked tasks are deleted | 494 thousand |
| `objects` | `MCFrtObjects`, `FrtObjects.cfg` | semaphores, mutexes, notifications, ring buffers, mailbox | 244 thousand |
| `events` | `FrtEvents`, `FrtEvents.cfg` | event groups | 32 thousand |
| `timers` | `MCTimers`, `Timers.cfg` | software timers, `esp_timer`, absolute delays; timer group with its watchdog, system timer | @TIMERS@ |
| `session` | `Session`, `Session.cfg` | time-line, sleep, reset, retention | 504 thousand |
| `devices` | `MCDevices`, `Devices.cfg` | 16 devices without DMA | 819 thousand |
| `transfers` | `MCTransfers`, `Transfers.cfg` | 19 components that move blocks of data | 1.37 million |
| `machine` | `MCMachine`, `Machine.cfg` | 10 parts of the processor and its surroundings | 1.21 million |
| `barrier` | `FrtEvents`, `FrtBarrier.cfg` | a comment that the code contradicts (section 5) | |
| `overshoot` | `EventTiming`, `Overshoot.cfg` | another one | |

### Scheduler (`tasks`, `tasks_fair`)

* `RunningIsCurrent`: a task is RUNNING if and only if it is current on exactly
  one core. `ContextIsOwn`: a core executes the code of its current task, and
  every other TCB holds its own context. `AffinityKept`: a pinned task is current
  only on its core.
* `DispatchIsUrgent`: whenever a core changes its task, no READY task it may run
  is more urgent than the one it chose.
* `NoStarvation`: a READY task among tasks of equal priority is eventually
  dispatched.

Bounds: four slots hold two application tasks and both idle tasks, which is the
least that lets both cores compete for a task and for idling at once; two
priorities, so that there is preemption and a tie; tasks that may run anywhere
and tasks pinned to core 1; delays of one tick, since a longer one only postpones
the same step.

Fairness (`tasks_fair`): time passes and each core's preemption check is made
again and again, because the session ends every batch with them; a synthetic
guest call ends, because the session bounds it. The checks are assumed strongly
fair: a core may be, in turn, inside and outside guest calls when they are made.
Nothing is assumed of the guest's own calls.

### Kernel objects (`queues`, `objects`, `events`)

* `ExactlyOnce`, `IsFifo`: an item that was accepted is in the queue, or was
  taken by one receiver, or was discarded by a reset, overwrite or deletion, and
  the ring, with its wrapping indices, implements an abstract sequence
  (`FifoQueue`), overwrites and front sends included.
* `CallsTellTruth`, `ResultTellsOutcome`, `AnswerTellsOutcome`: what a blocked
  call returns is what happened to it, also when time-out and arrival race.
* `NoLostWakeup`, `WakeupsArrive`, `NoEventMissed`: nobody sleeps beside what it
  waits for, be it an item, room, a token, a notification, bytes or bits.
* `Accounted`: gives and takes balance. `MutualExclusion`: one holder, whom the
  owner field names. `StreamPreserved`: bytes lent in place stay until they are
  returned; bytes arrive once, in order, whole items at a time.

The queue's firmware deletes tasks also while they wait (`delete_blocked`): the flags
they leave behind lose no item and no wake-up. That such a task may be revived is in
section 5.

Bounds: two application tasks and two cores (four slots); that mutexes exclude and
that nobody waits beside a token is proved for every number of tasks; a queue of
length 2 (indices wrap) with three items, one more than it holds; a mailbox of
length 1 (overwrite is only legal there) that is overwritten once, and one with
blocking peeks, of one item, for the properties that peeks do not break;
semaphores of two tokens and three gives;
notification counts that saturate at 2 with three gives; ring buffers of three
bytes with items of one and two. Event groups have two bits, interchangeable
(symmetry); any/all and clear-on-exit differ already with two.

### Timers (`timers`)

* `OnTime`: nothing fires before its time, a late batch does not shift a
  periodic timer, a one-shot fires once per start, a fixed-rate loop neither runs
  ahead nor drifts, also when its tick counter (`2 * HalfRange`: 16 here, 2^32 in
  the code) wraps.
* `CommandsHonoured`: what a callback does to its own timer, or anyone to any
  timer, survives the walk.
* `OverdueServed`: an overdue software timer is eventually served, if batches
  keep coming and callbacks return (both bounded by the session).
* `SyncIsAdditive`: an access in the middle of an interval changes nothing about
  its end: ticks and their fractions, reloads, watchdog stages, interrupt levels.
* `AlarmsExact`: the number of cycles given to the event scheduler is the first
  at which an alarm or a stage happens; after any write no comparator of the
  system timer is left due and unserved, its deadline late by no more than the
  fraction of a tick already counted (`MostLate`).

Bounds: two timers, so that one callback can command the other, before or after
it in the walk; times up to 4 allow a batch that is later than a full period. The
hardware timers have clocks of 3 and 2, so that a cycle is never a whole tick;
counters of three and four values, so that they wrap; dividers 1 and 2; watchdog holds of 0
and 2; a comparator period of 1, or 0 while none is loaded. Registers of two words are
written half by half in the system timer. The cores differ by at most one cycle: only which of them leads matters.

### Session (`session`)

* `InStep`: CCOUNT equals what the core's clock shows, for every way the clock
  moves, in compatibility mode; native firmware is only kept loosely in step, as
  the code says.
* `WakesRight`: a sleep ends by its alarm exactly at its deadline, or by an
  enabled pin, and the cause the guest reads is that one.
* `AcrossResets`: no core's time goes back within one boot, and its executed
  cycles do not even across a reset; RTC memory survives a wake from deep sleep
  and nothing else.
* `SleepEnds`: a sleep with an alarm ends, if the host keeps calling `run_core`
  and `post_batch` and a core's batch ends (an instruction budget): weak fairness
  of those three, nothing of the guest.

Bounds: two cycles per micro-second and batches of three cycles, so that batches
are not whole micro-seconds; two resets, enough for "deep sleep, then software
reset"; both targets, both modes, rebuilds that fail.

### Devices (`devices`)

UART, USB serial, GPIO, pads, sigma-delta, PCNT, MCPWM, LEDC, interrupt matrix,
clock gates, RTC clock, RTC power, RTC layout, and the three RMT engines.

* `LinesExact`: the level on an interrupt line is the one the raw and enable bits
  call for, after every order of events, writes, gating and resets.
* `StreamsIntact`: what is sent is what was put in, once and in order, and a
  transmitter with something to send has an event ahead or waits for the guest.
* `LazyExact`: a device whose time moves only when somebody looks is where it
  would be had it been stepped cycle by cycle, and nothing is counted while its
  clock is gated or behind its glitch filter.
* `ViewsCurrent`: listeners of pads, outputs, gates and power domains know the
  current state; a chip asleep can be woken; register layouts do not overlap.

Bounds: FIFOs of two, periods and limits of one to three, counters that wrap
within five cycles.

### Transfers (`transfers`)

UART DMA, SD host, I2C, TWAI, SDIO slave, Ethernet, I2S of both targets, GDMA,
LCD/camera, ADC, SPI hosts, flash and PSRAM, SD card, display, sockets, Wi-Fi
station, Bluetooth, files.

* `DataIntact`: what arrives is what was sent, once, in order and where it
  belongs. `LinesExact` as above.
* `NothingStalls`: a transfer that has begun has an event ahead of it, waits for
  the guest, or has said that it is over.
  For Bluetooth it is what the code keeps: no packet is lost unaccounted, and the order
  holds as long as the guest refuses none; a packet whose guest call timed out after
  the host took it comes a second time, once for each such call.
* `HandlesOwned`: every descriptor, host socket, file, pool buffer and chip select
  is in exactly one hand, and the account of what was taken balances over failures.
  Its debit side names all that the code leaves behind: the socket of a plain
  connection that could not be made again, the FILE slot of a failed `fopen`, the
  event buffer of a guest call that failed; one whose call timed out late is in two hands.
* `StepsLegal`: no step touches what belongs to somebody else.

Bounds: rings and queues of two or three entries, so that each is full and empty
within a few steps; two file descriptors, so that two streams are open at once and the
table is full; two mounts for three prefixes, so that the mount table is too; a failure of
each host call and each descriptor. Flash protection has the groups 0 and 1: the clamp of
groups above 4 needs more blocks than the eight of the model.

### Processor (`machine`)

* `EnginesAgree`: interpreter and native code compute the same over all operands
  of four bits, the decoders agree on every instruction word of the model, a block
  leaves by every exit the program counter and counts that the interpreter would leave,
  and its registers, and a hook what the guest function would. Three disagreements of
  the code are exempted by name (section 5): the registers an inline exit of a
  self-looping block leaves in host registers (`LeftBehind`, the rest of the exit is
  compared), `L16SI` in the register-window estimate, the listing of `LOOP`.
* `NothingStale`: no translation of overwritten RAM runs, chained or not, and the
  dispatcher enters none of reflashed or remapped code; a chain or native loop that runs
  over flash does go on (`ChainsNotStale` in section 5). No replaced mapping is used and
  no cut-off savestate is restored.
* `ContextsKept`: frames, levels, EPC/EPS and critical sections are as their owner
  left them.
* `NoEventLost`: the shortcuts of the event loop skip no interrupt, deadline or tick.
  Exempt are the two events that the code loses, both by way of CCOUNT (three bits): one
  that a single step passes and wraps beyond, which the run `overshoot` shows, and one at
  the value that means "no event".

The run `overshoot` starts CCOUNT near its wrap (`Starts`), with one compare register set
by the guest, and lets one step pass both.

### Mutants

Every property of every passing run has a mutant in `PROJECT.json`: a definition
(`Bug...`) that changes a mapped definition the way a plausible slip would (a
fraction dropped, a flag not cleared, a settled timer settled from the wrong
time). TLC finds each property violated under its mutant.

## 4. Proofs

`tlapm M.tla` checks the proofs of module `M`. Every theorem speaks of every value
of the constants its module declares; the assumptions on them (`SchedAssumption`,
`TasksAssumption`, `QueueAssumption`, `SemaphoreAssumption`, `EventAssumption`,
`SessionAssumption`, `ServicesAssumption`) only give the constants their types and
what the code's tables guarantee (room for the two idle tasks), and TLC evaluates
them in the runs. `FrtNotify` and `FrtRing` are only
instantiated by a run; their assumptions are the definitions `NotifyAssumption` and
`RingAssumption`, hypotheses of their theorems that `MCFrtObjects` assumes of its
instances (`ObjectsAssumption`).

| module | theorem | statement | holds if the firmware |
|---|---|---|---|
| `FrtTasksProofs` | `TypeCorrect` | `Spec => []TypeOK` | `Guest = {}` |
| | `RunningExact` | `Spec => []RunningIsCurrent` | `Guest = {}` |
| | `ContextsOwn` | `Spec => []ContextIsOwn` | `Guest = {}` |
| | `AffinitySafe` | `Spec => []AffinityKept` | `Guest = {}` |
| | `DispatchUrgent` | `Spec => DispatchIsUrgent` | `Guest = {}`, and gives no task the idle priority 0 |
| `FrtQueuesProofs` | `QueueInvariant` | `Spec => []QInv` | suspends no task blocked in a send |
| | `NothingLostOrTwice` | `Spec => []ExactlyOnce` | the same |
| | `CallsTruthful` | `Spec => []CallsTellTruth` | the same |
| | `WakeupsNotLost` | `Spec => []NoLostWakeup` | the same, and no blocking peek, no reset or deletion of a queue that is waited on |
| | `RingIsFifo` | `Spec => IsFifo`: the refinement of `FifoQueue` | the same as `QueueInvariant` |
| `FrtObjectsProofs` | `SemaphoreInvariant` | `Spec => []SInv` | |
| | `MutexesExclude` | `Spec => []MutualExclusion` | applies plain and recursive calls to no one mutex |
| | `TokensReachWaiters` | `Spec => []NoTokenWaits` | takes no semaphore with `xQueueGenericReceive` |
| | `TimeoutsTold` | `Spec => []WaitersNotTold` | |
| | `TokensKept` | `Spec => []TokensConserved` | takes no semaphore with `xQueueGenericReceive` |
| | `ObjectsInvariant` | `ObjectsSpec => []ObjectsInv` | |
| | `ObjectsAccounted` | `ObjectsSpec => []Accounted` | takes no semaphore with `xQueueGenericReceive` |
| | `ObjectsWake` | `ObjectsSpec => []WakeupsArrive` | the same, and a ring buffer has one receiver |
| | `ObjectsStream` | `ObjectsSpec => []StreamPreserved` | |
| | `ObjectsTruthful` | `ObjectsSpec => AnswerTellsOutcome` | |
| `FrtNotifyProofs` | `NotifyInvariant` | `Spec => []NInv` | |
| | `EachGiveOnce` | `Spec => []GivesAccounted` | |
| | `NotificationsNotMissed` | `Spec => []NoNotifyMissed` | |
| | `TakesTruthful` | `Spec => AnswerTellsOutcome` | |
| | `DeletedNotRevived` | `Spec => DeletedStays` | |
| `FrtRingProofs` | `RingInvariant` | `Spec => []RInv` | |
| | `BytesArriveInOrder` | `Spec => []StreamPreserved` | |
| | `LoansStayPut` | `Spec => []LoanStable` | |
| | `LoansAreItems` | `Spec => []ItemsWhole` | |
| | `ReceiverNotForgotten` | `Spec => []NoLostWakeup` | has one receiver, and does not suspend it while it waits |
| | `SuspensionObeyed` | `Spec => SuspendedStays` | suspends no task that waits for data |
| `FrtEventsProofs` | `EventInvariant` | `Spec => []EInv` | |
| | `EventsNotMissed` | `Spec => []NoEventMissed` | |
| | `ResultsTruthful` | `Spec => ResultTellsOutcome` | |
| `MachineProofs` | `CcountFollows` | `Spec => []InStep` | |
| | `WakesAreRight` | `Spec => []WakesRight` | |
| | `NothingLostOverResets` | `Spec => AcrossResets` | |
| | `TimersInvariant` | `ServicesSpec => []TimersInv` | delays by less than half the counter's range and not beyond the longest sleep (`IncrementsFit`); starts `esp_timer`s on core 0 only, and none from its own callback |
| | `TimersOnTime` | `ServicesSpec => []OnTime` | the same |
| | `TimersObey` | `ServicesSpec => CommandsHonoured` | the same |
| | `HwInvariant` | `ServicesSpec => []HwInv` | |
| | `TimersSync` | `ServicesSpec => []SyncIsAdditive` | |
| | `AlarmsOnDeadline` | `ServicesSpec => []AlarmsExact` | |
| | `FlashMmuInvariant` | `FlashMmu`: `Spec => [](TypeOK /\ MappingsHonoured /\ NoStaleCode)` | |
| | `SavestateInvariant` | `Savestate`: `Spec => [](TypeOK /\ NeverTorn /\ FilesWhole)` | |
| | `CodeCacheInvariant` | `Jit`: `CacheSpec => []` of `NoStaleTranslation`, `FlushNotForgotten`, `BytesWatched`, `BodyStaysInLoop` | |

The conditions of the last column are hypotheses of the theorems; without them the
statements are false, as section 5 shows. The other usages of `Guest` are allowed.

### The scheduler

None of the properties is inductive. That RUNNING means current says nothing
about the contexts a switch loads, and after a step from an unreachable state
with a task RUNNING on no core, or a slot beyond `task_count` READY, it fails.
The inductive invariant is

    IndInv == TypeOK /\ SchedInv /\ LegacyOK

where `SchedInv` says that slots beyond `task_count` are blank (`SlotsBlank`), a
core with a current task executes it, it is RUNNING and allowed there
(`CurrentOK`), a RUNNING task has a core (`RunningHasCore`), the cores' tasks
differ (`Apart`), each TCB holds its own context (`SavedIsOwn`) and idle tasks are
registered and pinned (`IdleOK`); and `LegacyOK` that before the scheduler runs
there is at most one task and core 0 executes it or boot code.

The argument follows the shape of the code. Every stub that gives up a core first
brings the table into a state in which nothing runs but the task of the *other*
core (`Prepared`), and then calls the dispatcher. So the lemmas come in two
groups: that waking sleepers, blocking and leaving keep a table `Prepared`
(`WakePrepared`, `EnterPrepared`, `VacantPrepared`), and that each outcome of the
dispatcher, adopting a task, going on, parking, takes a prepared table to
`SchedInv` (`AdoptInv`, `AdoptNextInv`, `NothingInv`, `SwitchInv`). Each stub is
then a few lines, and `NextInv` collects them.

`DispatchUrgent` needs one invariant more, `Ranked`: idle tasks have priority 0
and other registered tasks one that the guest gave. `AdoptUrgent` shows it of
`sched_pick_next()`; `PreemptUrgent` of the preemption check, where the search among
equals also accepts idle tasks and only their priority keeps them out: hence the
hypothesis that the guest does not use that priority.

`FrtSchedProofs` states what the dispatcher does to a running system (all slots
taken), for the modules of the kernel objects: what waking, blocking and switching
may change of a task (`WakeEffect`, `WaitEffect`, `SwitchEffect`, `BlockEffect`,
`PreemptEffect`, `PreemptMoves`, `TickMoves`), and that they keep the scheduler
`Settled` and its current tasks running (`CurrentRuns`); `RunningSettled` is their
base case. Each is proved once and used for queues, semaphores, notifications, ring
buffers and event groups alike.
`LeastNat` states the well-ordering of the naturals: where a recursive function has
to be followed step by step, the proof takes the least counterexample.

### Queues

    QInv ==
        /\ TypeOK /\ SchedInv /\ RingOK(ring)
        /\ Flags /\ Numbered /\ Truthful /\ NoPeek /\ Served /\ GoneEmpty /\ Account

The parts are named in `FrtQueuesProofs`: the scheduler is settled, current tasks run
and a task that waits for the queue is blocked (`SchedInv`); the ring's indices fit
its count (`RingOK`); whether a waiting task is flagged as sender agrees with its call
(`Flags`); items are numbered as they are sent (`Numbered`); a waiting call has its
pessimistic answer stored, and a completed one the outcome (`Truthful`); nobody is
blocked in a peek if the firmware never is (`NoPeek`); nobody waits for what is there
(`Served`); a deleted queue is empty (`GoneEmpty`); what was accepted is accounted for
(`Account`).
`ExactlyOnce` and `CallsTellTruth` are parts of it; `NoLostWakeup` is not inductive
alone, because a wake examines the flags, and the flags are right only while the
states are.

The ring is reduced to a sequence by lemmas about `Contents`: what enqueueing at
either end, dequeueing and overwriting do to it, for every capacity and every
position of the wrapping indices (`EnqueueBack`, `EnqueueFront`, `DequeueHead`,
`OverwriteOnly`). With them every step of `FrtQueues` is a step of `FifoQueue` or a
stutter (`RingIsFifo`), and exactly-once is a fact about sequences without
repetitions (`PutOnce`, `MoveOnce`, `DropOnce`). `QInv` was checked with TLC as an
invariant of the queue's run before it was proved.

### Semaphores and mutexes

    SInv == TypeOK /\ SchedInv /\ Pending /\ Served /\ HeldOnce /\ Excluded

One model covers the four uses of a `queue_t` without items (`Uses`: a counting
semaphore, a mutex with plain calls, a recursive mutex, a mutex to which both kinds
are applied), so one invariant does. `MutualExclusion` is not inductive alone: a
give hands the mutex to the first waiter, and nothing in it says that this task does
not hold the mutex already, or that the mutex is not free as well. So `SInv` adds
that who waits is blocked and has not been told of success, and of a mutex used with
one kind of calls that it does not hold it (`SchedInv`, `Pending`); that a token is
not free while a plain take waits (`Served`); and that plain takes do not nest
(`HeldOnce`). `Excluded` is `MutualExclusion` for the uses it is claimed of.

A give, plain or recursive, is shown in two parts, the hand-over to a waiter
(`ServeStep`, `HandedOK`) and the return of the token (`FreedOK`); a take in the
token being there (`TakenOK`), a nested take (`NestedOK`) and the wait (`WaitStep`).
`TokensConserved` sums over the tasks with a recursive function (`Total`). That such a
function exists, and that it grows by one when one task takes a token, is shown by
following it to the least index at which it would not (`SumExists`, `TotalGrows`).
The rest is the balance of each step: a give raises the count or serves one waiter,
who takes the token it gave. With `xQueueGenericReceive` it fails, since a waiter in that call
is served from the count although the give that woke it does not raise it.
`NoTokenWaits` and `WaitersNotTold` are the semaphores' part of the run's
`WakeupsArrive`, which speaks of the notifications and ring buffers beside them as
well. `SInv` was checked with TLC, with four and five slots, before it was proved.

### Notifications

`NInv` says that a task that waits is blocked, or was deleted while it was; that its
call stands at 0 and its slot holds nothing (`Unanswered`); and that what was taken
and what is there was given, exactly until the count saturates (`Balanced`). A give
to a sleeping taker finds an empty slot and takes the 1 on its behalf: this is why the
answer is positive (`TakesTruthful`) and why the balance is kept; one on another slot
is only counted. The guard `find_task` keeps a deleted task from being woken, although
its wait flag stays (`DeletedNotRevived`). These are the parts the notifications have
in the properties of the run `objects`.

### Ring buffers

    RInv ==
        /\ TypeOK /\ SchedInv /\ InOrder /\ Reserved /\ Lent /\ Prompt
        /\ Itemized(item_len, consumed, sent, ends)

What is stored is the run of bytes that were sent and not returned (`InOrder`); what is
reserved has room and a free entry, although receivers return data meanwhile
(`Reserved`); what is lent is a prefix of it, unchanged, and in an item buffer the first
item (`Lent`); and the lengths in `item_len` cut the stored bytes exactly at the ends of
the items (`Itemized`). The last part is the difficult one. `item_len` and the bytes are
kept apart by the code, and only their agreement makes a loan a whole item: `Cuts` says
it without a sum, by the positions at which the items end, and `CutsMore`, `CutsLess`
and `CutsFirst` show that a send adds one, a return removes the first, and that the
first lies within the data. `Prompt` is `NoLostWakeup` for one receiver, strengthened:
while it waits nothing is lent either. With two receivers the return that frees the
buffer wakes nobody, and with a waiter suspended the wait outlives the suspension:
both are hypotheses because section 5 shows the statements false without them. `RInv`
was checked with TLC for both kinds of buffer, one and two receivers, with and without
suspended waiters, before it was proved.

### The objects together

The run `objects` explores one object at a time, and its properties have a part for
each. `ObjectsInv` does too: it is the invariant of whichever object is explored.
`MCFrtObjects` takes its instances from the modules with the proofs, so the lemmas of
an instance (`Notify!NNext`, `Items!RNext`, `Mailbox!QNext`, ...) are cited by name, with
the assumptions those modules make proved of the instance (`InstanceAssumptions`). The
mailbox is the queue of length 1, for which `FrtQueues` is proved as for any other
length: `queue_enqueue_locked` overwrites it, and `FifoStep` says that it remains a queue.

### Event groups

`EInv`: the scheduler is settled, a current task runs, whoever has the event-group
flag is blocked, and what it waits for is not there. The hard step is the wake
walk: `WakeWaiters` is a pass over the table in which every released task may clear
bits that a later one waits for. `PassExists` and `PassSound` follow the recursive
function that models it: bits only disappear during the pass, so a condition that did
not hold when its task was examined does not hold at the end (`MetShrinks`).

### Session

`FullInv` is `InStep` and `WakesRight` with what they need: the values and the
configuration (`Known`), that only the S3 sleeps as a whole (`S3Only`), that both
cores have executed the same number of cycles from the publication of the time line
until core 0 runs again (`CyclesShared`), that a sleep is never stepped past its
deadline (`NotOverslept`), and that memory is marked for keeping only on the way into
a reset (`KeepTakenBack`). It is inductive, and `AcrossResets` follows from it step by
step.

### Clock services

`TimersInv` has one part for each service, and each says that what the code keeps and
what the guest asked for determine one another.

* `SwInv`, of a software timer: its alarm is the time of its last start plus one
  period more than it has had callbacks, those callbacks lie in the past, and a
  one-shot timer that is active has had none. The walk keeps this because it adds
  one period for each callback, however late it is, and settles the timer before the
  callback runs.
* `EspInv`, of an `esp_timer`: the same of the clock of the task that started it,
  except that while its callback runs the alarm is still the one being served, and
  that active and armed then differ exactly for a one-shot timer (`EspTimerOK`). A
  timer written by one step leaves the others right (`EspOneTimer`), so each action is
  about one record.
* `DelayInv`: the guest's word is the deadline modulo the range of the counter, and the
  deadline is less than half that range behind the present. Then the signed difference
  of two wrapped words is the difference of the times (`SignedDifference`, from
  `ModUnique`: a number has one quotient and one remainder), and the task wakes at its
  deadline, not near it.

### Timer groups and the system timer

The inductive invariant (`HwInv`) has three parts: the types; for a group, a fraction
of a tick that fits the divider of its timer or the prescaler of its watchdog
(`PhasesOK`; changing either drops the fraction, so it never sees another one); for
the system timer, that no comparator is due.

`TimersSync` needs only the types: that looking is harmless is a fact about `Elapse`,
for every state of a group and any two intervals. It is shown from the inside out.

* Ticks (`TicksAdd`): the remainder carried over makes the ticks of two intervals
  those of their sum.
* A timer (`AdvanceAdds`, `TimerAdds`): ticks that do not reach the alarm leave the
  distance to it shorter by as much (`DistanceShrinks`); those that do disable it, and
  what is left over moves the counter from the alarm or from the reload value.
* The watchdog (`FourAdd`): one round of the loop either applies all that is left or
  ends a stage, so rounds with some ticks, then rounds with more, are rounds with the
  sum (`OneMoreRound`); four rounds are enough because a stage is left behind by each
  that goes on (`NoStages`). What was raised on the way and the phase, which no round
  reads, are carried along (`FourWith`). An expired watchdog keeps a phase nobody can
  see (`SeenWdt`), since what starts it again resets it.
* The group (`ElapseAdds`): field by field.

`AlarmsOnDeadline` is about the converse conversion, from ticks to cycles.

* A timer group counts down with two divisions that round up, where it counted with
  two that round down. With a fraction that fits (`PhaseOK`) they are inverse: the
  ticks have come exactly when the cycles have (`TicksReach`, from `RoundedDown` and
  `RoundedUp`). Hence an alarm, and a stage, happens at its own deadline and not before
  (`AlarmAtDeadline`, `StageAtDeadline`), and the group at the least of them
  (`DeadlineIsExact`).
* The system timer compares the wrapped difference of counter and target with half the
  range. A comparator that is not due is at most half a turn ahead (`Ahead`), and one
  that is served is ahead again: the periods gone by are skipped and a period is less
  than half a turn (`PeriodsSkipped`). So evaluation, with which every write that could
  make one due ends, leaves none due (`Evaluated`, `SysStep`). At the deadline the
  counter has come to the target, and not half a turn beyond it because a cycle is less
  than half a turn; `MostLate` cycles and more before it, it has not
  (`TicksAtDeadline`, `SysDeadline`).

`GroupStep` and `SysStep` show that every access and every gate change keeps the
invariant; a word written into one half of a two-word register stays below the range
because the range is a multiple of the word (`WordPlaced`).

### Flash, savestates and translated code

These theorems are about the parts `Mmu`, `Snapshot` and `Native` of the run `machine`,
whose properties `NothingStale` joins; their assumptions (`FlashMmuAssumption`,
`SavestateAssumption`, `CodeCacheAssumption`) are hypotheses.

* `MmuInv`: the value applied to an entry is one that some core asked for, invalid only
  if none did (`Honoured`); the page table shows the value applied (`Applied`); and a
  translation is of the page its entry shows, in its present version (`Current`). A
  write changes one entry and drops what was translated from it.
* `SnapInv`: the parts of a file are those of one checkpoint, in their order
  (`FileOf`); the parts of a running machine belong together (`Whole`); and while a
  restore is under way, what has been read of the file is in the machine (`ReadBack`).
  A file that ends early never starts a mixture.
* `CacheInv`: the table's types, that every compiled byte of RAM is marked
  (`Watched`), and `Sound`: outdated blocks are left only while a flush is pending, which
  it only is while a block runs; without the chain limit none of those is of RAM, for a
  write to RAM sets it. That is why a chain over flash escapes and one over RAM does not.

### What stays with TLC

* Liveness (`NoStarvation`, `OverdueServed`, `SleepEnds`): the provers do not handle
  fairness and ENABLED.
* Devices, transfers and the processor (`LinesExact`, `StreamsIntact`, `ViewsCurrent`,
  `DataIntact`, `NothingStalls`, `HandlesOwned`, `StepsLegal`, `EnginesAgree`,
  `NothingStale`, `ContextsKept`, `NoEventLost`): checked on the instances of the `MC`
  modules. Each joins many small state machines, and its proof needs an invariant for
  every one of them; those of `NothingStale` have one, each for its own part.

## 5. Where code and comments disagree

Two disagreements have runs that TLC must find violated:

* `barrier` (`freertos_stubs.c:1112`): in `xEventGroupSync` the first waiter that
  is woken clears the rendezvous bits before the others are examined, so all but
  keep waiting although everybody arrived.
* `overshoot` (`xtensa.c:3261`): the interpreter's test `ccount >= next_timer_event` is
  unsigned. A step that passes the event and wraps CCOUNT leaves it unlatched for a whole
  turn, although the comment at line 99 says that overshooting can never lose a tick.

The following definitions are refuted in the same way, by adding the definition to
a configuration of the module with the usage or the sizes named. They document
the boundary of what the passing runs and the theorems say.

| module | definition | at | situation that refutes it |
|---|---|---|---|
| `FrtTasks` | `ContextIsOwn` | `freertos_stubs.c:701` | boot code creates two tasks (`Guest`); promotion stores boot's context in the first task's TCB |
| `FrtTasks` | `RunningIsCurrent` | `:684` | core 1 adopts a task before core 0 starts the scheduler, which clears it |
| `FrtTasks` | `SuspendedStops` | `:2313` | the other core's running task is suspended, and goes on |
| `FrtTasks` | `DeletedStops` | `:885` | a task deletes itself by handle, and goes on |
| `FrtTasks` | `RunningIsCurrent` | `:719` | a callback blocks inside a guest call |
| `FrtTasks` | `AffinityKept` | `:3505` | the only task is pinned to core 1 |
| `FrtTasks` | `NoStaleResume` | `:599` | the table is full and a guest call ends on a parked core |
| `FrtTasks` | `DispatchIsUrgent` | `:3209` | application tasks of priority 0 |
| `FrtQueues` | `NoLostWakeup` | `:1449` | a task blocks in `xQueuePeek` beside receivers (`peek_wait`) |
| `FrtQueues` | `NoLostWakeup` | `:2314` | a task is suspended in a send and later receives: `q_is_sender` is left behind (`suspend_sender`) |
| `FrtQueues` | `NoLostWakeup` | | a queue is reset while senders wait, or deleted while anyone waits (`reset_full`, `strand`) |
| `FrtQueues` | `DeletedStays` | `:889` | a blocked task is deleted (`delete_blocked`) |
| `FrtQueues` | `IsrNeverWaits` | `:1668` | an ISR sends to a full queue |
| `FrtSemaphores` | `TokensConserved` | `:1428` | a task waits for a counting semaphore in `xQueueGenericReceive` (`generic_receive`): the give that wakes it takes a token from the count and adds none |
| `FrtSemaphores` | `NoTokenWaits` | `:3389` | a semaphore is taken with `xQueueGenericReceive` |
| `FrtSemaphores` | `MutualExclusion` | `:1954` | a recursive mutex is given with the plain call |
| `FrtEvents` | `SetWakesAll` | `:933` | two waiters for one bit, both clearing it |
| `FrtDelayUntil` | `KeepsRate` | `:721` | an increment above 200,000,000 cycles |
| `FrtRing` | `NoLostWakeup` | `:2880` | two receivers of one ring buffer |
| `FrtRing` | `SuspendedStays` | `:2314` | a task is suspended in a ring-buffer receive |
| `EspTimers` | `ArmedIsActive` | `esp_timer_stubs.c:228` | a one-shot timer that its own callback starts again is deactivated when the callback returns (`restart_self`) |
| `EspTimers` | `NeverEarly` | `esp_timer_stubs.c:304` | a task on core 1 starts a timer |
| `Session` | `PublishIsLater` | `flexe_session.c:1217` | the published clock is the sum of two maxima, executed cycles and skipped time: later than both cores' clocks when one executed and the other skipped |
| `Xtensa` | `NsaNormalises` | `xtensa.c`, `jit.c:1232` | NSA counts all leading sign bits instead of the redundant ones; both engines agree, `tools/aot_recompile.py:501` subtracts one |
| `Xtensa` | `NeedCoversOperands` | `xtensa.c:760` | `window_operand_need` has no case for L16SI |
| `Xtensa` | `DisassemblyTrue` | `xtensa_disasm.c` | the offset of LOOP is sign-extended in the listing, zero-extended when executed |
| `Jit` | `ResidentWrittenBack` | `jit.c` | inline exits of QUOx/REMx, S32C1I and MOVSP in a self-looping block flush only what is dirty at that point |
| `Jit` | `ChainsNotStale` | `jit.c:4637` | flash is programmed or remapped under a chain: `jit_flush` only notes it, and the chain limit, which only writes to RAM clear, lets the chain go on |
| `Jit` | `ChainStaysInLoop` | `jit.c` | a chained jump does not test the loop registers |
| `Savestate` | `DerivedFollows`, `BothCores`, `IdleOnce` | `main.c:1740`, `freertos_stubs.c:3577` | `window_hazard`, `irq_check`, core 1 and the idle tasks are not saved or recomputed |
| `RadioStubs` | `ChainFreedOnce`, `DeliveredInOrder`, `NoHandleLost` | `bt_stubs.c:1181`, `bt_stubs.c:1139`, `wifi_stubs.c:1801` | an HCI packet of invalid length frees its chain repeatedly; a refused delivery is overtaken; a plain connection that cannot be made again frees its slot without closing the socket |
| `RadioStubs` | `GivenOnce` | `bt_stubs.c:985` | the guest call times out after the host took the packet, which is kept and given again |
| `SdCards` | `Answered` | `spi_display.c:236` | CMD25 with more blocks than the response buffer holds (`MaxMulti` above the queue) |
| `Vfs` | `FailedOpenHarmless`, `NoSlotLeaked` | `vfs_stubs.c` | an open that fails for lack of a descriptor has truncated the file; a failed `fopen` keeps its FILE slot |

Smaller things seen while translating, that no property is about:

* `timer_group.c`: a watchdog that has expired stays off until it is fed, even if
  it is enabled again. `systimer.c`: `flexe_systimer_next_event()` ignores the
  fraction of a tick already counted, so its deadline may be late by as much,
  rounded up to a cycle, which is why `AlarmsExact` allows it.
* `xtensa.c`: a timer event at 0xffffffff collides with "no event"; writing CCOUNT
  does not recompute the next event; a halted core wakes on masked interrupts.
  `window_accel.c`: a full spill stack overwrites its newest record and keeps the
  old base.
* `jit.c`: the ARM64 back end loads the chain limit once per entry.
* `savestate.h` promises a checksum that the code does not have.
* Radio: a late acknowledgement answers the next command of the same opcode; a full Wi-Fi event queue drops silently;
  the reason of a disconnect is read at delivery; several socket paths leave
  `errno` alone.
* `vfs_stubs.c`: `O_RDWR|O_CREAT` opens an existing file only; `O_WRONLY` without
  `O_TRUNC` appends; a full mount table answers `ESP_OK`; sizes are stale until a
  written file is closed.
* Devices: stopping the SD host's clock disarms a DMA transfer; stopping the TWAI
  clock during bus-off recovery disarms it; an S3 SPI start while the clock is
  gated is dropped; `gp_spi_host_configure` detaches all devices; an unmapped I2S
  descriptor leaves the stream active; `i2s_v2_service_rx` takes bytes before the
  descriptor is known to be writable; a camera START written before its channel is
  active is not retried; LEDC re-anchors a gated timer without its reported wraps;
  a frequency change drops the RTC counter's fraction; a sleep request that cannot
  be honoured is dropped with SLEEP_ENA left set; a GDMA RESTART begins at the link
  address again; flash commands with a dedicated bit ignore power-down, and 0x66
  stays armed.
* `rom_stubs.c`: the hook table is filled by unlimited probing and searched over 16
  slots.

## 6. What is not modelled

* **AOT, profiling and tracing**: blocks of the AOT library behave as those of the
  JIT; diagnostics have no state the guest sees.
* **Floating point, MAC16, memory instructions, host instruction encodings,
  cryptography, pixels and samples**: data, not control, and tested by the
  repository's differential tests.
* **Radio links, image loading, board, host UI and command line**: protocols and
  formats of the host side.
* **Parts of modelled components**: allow-split ring buffers and the split receive;
  the `esp_timer` dump and delay shims; the session's touch interrupts, JIT
  sampling and radio tick; the asynchronous guest call; recognition of guest
  window handlers; ROM functions other than critical sections; cache sync and
  memory protection registers; UHCI quick packets, RTC I2C, MDIO and PHY, RMT
  carrier and divider, SFDP tables, the ADC arbiter, i80 byte order; DNS, scans and
  name tables; the TCP bridge; the block hooks of `sdcard_stubs.c`; the
  touch, sensor, fuse and analogue parts of the RTC domain.
* **Savestates of the scheduler over several restores** (`idle_ready`): the
  definition `IdleOnce` states it and is refuted (section 5).

## 7. Plan

The model covers the core and the devices; what is left is to prove more of it.
In order of value:

1. The event clock: no deadline missed.
2. Register windows: frames preserved by every path that spills or refills them.
3. The devices whose streams are checked in `transfers`, the Bluetooth pool first.
