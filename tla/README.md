# Formal models of the I2C block

TLA+ models of the RTL under `src/rtl` (the OpenTitan I2C controller/target
block) and of the FIFO, arbiter and interrupt primitives it instantiates; TLC runs that check them on
small instances; TLAPS proofs of what matters most for every value of the
parameters.  The models are translated from the SystemVerilog; the register
descriptions of `src/data/i2c.hjson`, the comments, the SVA assertions and the
testbench under `src/tb` are read for what they promise.

## 1. The system

Every block runs on one clock.  Three parties act concurrently: the RTL, one
clock edge after the other; software, through registers that change between two
edges; and the other devices on the bus, which drive SCL and SDA.

| part | source (`src/`) | state | operations |
|---|---|---|---|
| FIFO primitive | `prim/rtl/prim_fifo_sync.sv`, `prim_fifo_sync_cnt.sv` | wrap pointers, storage, `under_rst` | write, read, pass-through, clear, reset in one edge |
| FIFO SRAM adapter | `rtl/i2c_fifo_sync_sram_adapter.sv` | input buffer, SRAM region, output buffer, read in flight | the same, over a single-port SRAM it may not be granted |
| I2C FIFOs | `rtl/i2c_fifos.sv`, `prim/rtl/prim_arbiter_tree.sv` | four adapters (FMT, RX, TX, ACQ), round-robin pointer, RAM | arbitration, RAM access, routing of responses |
| target FSM | `rtl/i2c_target_fsm.sv` | 27 states, bit and delay counters, stretch counter, NBYTES, flags of the transaction | address, write and read transfers, ACK control, stretching and its timeout, recording to the ACQ FIFO |
| controller FSM | `rtl/i2c_controller_fsm.sv` | 21 states, delay, bit and byte counters, `trans_started`, `pend_restart`, `auto_stop_q`, NACK timer | interprets FMT entries, START/bits/ACK/STOP, NACK halt, automatic Stop, loss of arbitration |
| bus monitor | `rtl/i2c_bus_monitor.sv` | START/STOP detection and its counter, bus state, release counter | START and STOP events, free bus, active and inactive timeouts |
| core | `rtl/i2c_core.sv` | output flops, interference counter, event registers | wires registers, FSMs, monitor, FIFOs, interrupts |
| interrupts | `prim/rtl/prim_intr_hw.sv` | interrupt state, test register, flopped output | event and status interrupts, test, W1C |
| top, registers | `rtl/i2c.sv`, `rtl/i2c_reg_top.sv` | register file | generated |
| testbench | `tb/` | scoreboard, monitors | UVM environment of the same RTL |

How they interact: software writes FDATA into the FMT FIFO, from which the
controller FSM takes its orders, and reads what it receives from the RX FIFO; it
fills the TX FIFO for reads by another controller and takes from the ACQ FIFO a
log of what was addressed to the target.  The controller asks the bus monitor
for a free bus; the target takes START, STOP and bus timeout from it.  Events set
bits of CONTROLLER_EVENTS, which halt the controller, and of TARGET_EVENTS,
which hold back reads, until software clears them.  The four FIFOs share one
SRAM port.  Both FSMs drive the same two wires, 0 if either asks for it, and the
monitor and both FSMs see what comes of it a cycle later.

What is hard here, and what makes each part correct:

* **Adapter.** An SRAM read is requested before it is known whether its entry
  will find room, entries take two routes, and the port may be denied at any
  time.  Correct: it is one FIFO, loses nothing, hides nothing for ever.
* **Target.** The ACQ FIFO fills up in the middle of a transaction; starts,
  stops, timeouts, a lost arbitration or the target's disabling hit any state;
  software acts during a stretch that is about to time out.  Correct: the log is
  well formed and tells what was on the bus, its end always finds room, no byte
  is ACK'd without room or grant, no stale data is sent, stretches end.
* **Controller.** An entry is decoded again and again until it is popped, while
  NACKs, timeouts, resets and a lost arbitration cut transactions short.
  Correct: whole bytes between START and STOP, every entry served exactly once,
  and the bus given back in the end.
* **Bus monitor.** Two detections share a counter, two timeouts and the bus-free
  time share another, and CTRL changes under a running monitor.  Correct: an
  event is reported if and only if it happened, and after the whole time.
* **I2C FIFOs.** Four FIFOs' pointers, one RAM, one read-data bus.  Correct: none
  notices the others but by a port that is taken, and none is refused for ever.
* **The block as a whole.** Each FSM counts the edges of SCL at its own pace, with
  stretches between them, and acts on a monitor that is some cycles behind.
  Correct: bytes and acknowledges arrive as they were sent, nothing either FSM
  drives looks like a START or STOP that nobody issued, orders get done.
* **Events.** Hardware and software write a register in the same cycle, and a
  cause lasts for one cycle.  Correct: nothing is lost on the way to a handler that
  knows the interrupt lines only.

## 2. The modules

A step of a model is one clock edge or one register access.  Definitions keep the
names of the signals and states.  `map` in PROJECT.json gives each definition's
lines.

| module | models | notes |
|---|---|---|
| `BoundedFifo` | what a FIFO promises | abstract specification, with clear and reset |
| `FifoParams` | | depth and entries, which every FIFO has |
| `PrimFifoSync` | `prim_fifo_sync` | wrap pointers kept, pass-through and `under_rst` included; implements `BoundedFifo` |
| `I2cFifoAdapter` | the SRAM adapter | its buffers are sequences (what `PrimFifoSync` implements), the arbiter's answer is an input of the edge; implements `BoundedFifo` of capacity Depth + 1 |
| `I2cFifos` | adapters, arbiter, RAM | each FIFO is an instance of `PrimFifoSync` (pointers) and of `I2cFifoAdapter` (decisions); implements, FIFO by FIFO, the steps of `I2cFifoAdapter` |
| `AcqLog` | what software may expect to read from ACQDATA | abstract specification: the grammar of the log, after the table in `data/i2c.hjson` |
| `I2cTargetFsm` | target FSM, levels of its FIFOs, the TARGET_EVENTS gate of the core | implements `AcqLog` |
| `BusTransaction` | what one controller may put on the bus | abstract specification |
| `I2cControllerFsm` | controller FSM, FMT FIFO, CONTROLLER_EVENTS and the halt, interference as the core reports it, the lines with an observer | implements `BusTransaction` |
| `I2cBusMonitor` | bus monitor | both detections, timeouts, bus state, with history of the lines |
| `I2cCore` | the wiring of the two FSMs and the monitor | instances of these three modules; byte values in both directions |
| `I2cEvents` | RX overflow, CONTROLLER_EVENTS, NACK count, `prim_intr_hw` | hardware and software in the same cycle |
| `PrimFifoSyncProofs`, `I2cFifoAdapterProofs`, `I2cFifosProofs`, `I2cTargetFsmProofs`, `I2cControllerFsmProofs`, `I2cBusMonitorProofs`, `I2cEventsProofs`, `I2cCoreProofs` | | theorems |
| `MC...` | | instances for TLC |

State and actions:

* **I2cTargetFsm.** One action per state of the FSM (`AddrAckWait`,
  `StretchAcqFull`, ...) for the next state; `NextState` applies the override of
  lines 669 and following (disable, START, STOP, timeout, arbitration).
  `Counters`, `Tracking` and `Fifos` are the other registers, and `Edge` is the
  conjunction.  A byte is abstracted to what the FSM's control depends on: the
  address matches or not and the R/W bit, chosen when it is complete.  ACQ and
  TX FIFOs are their levels, since the FSM reads nothing else; `last`, the last
  entry recorded, is history.  The bus conditions (`ev`) are what the monitor
  reports; when the RTL gives one of several priority, the model offers that one.
* **I2cControllerFsm.** One action per state; the four high phases of SCL, which
  differ in the following state and in what they sample, share `Pulse`.
  `Started`, `Restart`, `bit_counter`, `byte_counter`, `read_register` and
  `unhandled_nak_cnt` are the registers beside the state.  A delay is
  nondeterministic (at least two cycles, reloaded while SCL is stretched); the
  lines come back after one cycle.  Software writes transactions as the register
  descriptions ask for: a START first, and a halted controller's FMT FIFO put in
  order before its events are cleared.  `open`, `pulses`, `symbol`, `word`,
  `acked` and `bytes` belong to an observer that only sees the lines (and, for
  `bytes`, when an entry begins).
* **I2cBusMonitor.** `Detection` (the two pending flags and their counter),
  `Enabled`/`StateStep` (the state with its counter), `SwCtrl` (any write to
  CTRL).  `symbol`, `held`, `watched`, `low` and `still` are history of the lines.
* **I2cFifoAdapter, PrimFifoSync.** `Cycle` is an edge with `clr_i` low, `Clear`
  one with it high, `Reset` the reset; `wr` and `rd` are the handshakes of the
  cycle just over, the interface `BoundedFifo` is stated over.  In the adapter
  `Cycle` is `Handshake` (what is recorded of the interface) with `Move` (what the
  storages do); `Forget` is the part that clear and reset share.  `I2cFifos` is
  stated over `Move` and `Forget` alone.
* **I2cFifos.** One step is an edge for every FIFO: `Arbitrate` (round robin, with
  `lost`, the history of refusals), `Pointers`, `Ram`; any set of FIFOs may be
  cleared in it.  The RAM's output is `Undefined` unless a read was made the cycle
  before, so that a FIFO which takes data at the wrong time gets none of its own.
* **I2cCore.** `Edge` is one edge of all three: the controller's `Cycle`, the
  target's `NextState`, `Counters`, `Tracking`, `Fifos`, the monitor's `Detection`
  and `StateStep`.  Inputs these modules choose freely are wires here: `bus_event`,
  `hit`, `scl_o`, `target_sda_o`, `bus_free`.  The target assembles `input_byte` and
  sends `tx`; a byte is an address bit and the R/W bit, or a number.
* **I2cEvents.** A step is an edge with at most one access of software.  What the
  FSMs report is an input.  Software reads INTR_STATE in one access and writes back
  what it read (`seen`) in another; with `ReadsFirst = FALSE` it writes without having
  looked, its handler on the strength of `intr_o`.  `nacks`, `nacks_then` and `dropped`
  are history.

## 3. The runs

Eight runs pass, on the questions one asks of each part.

| run | instance | what it shows |
|---|---|---|
| `adapter` | depth 4 (SRAM region of 2), two values | one FIFO whatever the arbiter does; the read in flight always lands (`OupBufWreadyAfterSramRead_A`); no entry is hidden for ever |
| `fifos` | two FIFOs of depth 4 (RAM regions of 2, where the pointers of `PrimFifoSync` wrap), any set cleared in any cycle | each FIFO makes the steps of an adapter alone with its SRAM (`ImplementsAdapters`); a FIFO is refused at most RamArbN - 1 times in a row (`ServedInTurn`) |
| `target_framing` | ACQ depth 4, all bus conditions, stretch timeout, target disabled and ACK control switched at any time, both settings of NACK_ADDR_AFTER_TIMEOUT | the log obeys `AcqLog`; room for its end (`SpaceIsKept`); the end of an open transaction is recorded; a NACK'd transaction stays NACK'd; what is recorded as ACK'd was |
| `target_service` | ACQ depth 4, ACK control or TX gate, FIFO resets, NBYTES of 0 to 2 | no ACK without grant, no ACK'd byte unrecorded, no read data while older entries or events are open (`ReadGate`, which includes `AcqDepthRdCheck_A`), no glitch on SCL (`SclOutputGlitch_A`), stretches end if the timeout is on |
| `bus_monitor` | hold 2, t_buf 3, timeouts 3 and 4, CTRL written at any time, a bus that keeps its timing | events exactly when they happened; free bus (`FreeIsEarned`) and timeouts (`TimeoutsEarned`) after the whole time only, and in the end (`IdleBusIsFree`; `FirstStuckLowIsReported`, while no earlier active timeout is latched) |
| `controller` | bytes of 2 bits, FMT depth 2, seven kinds of entries, stretching and NACKing targets, bus and NACK timeouts | the bus obeys `BusTransaction`; entries served exactly; RX bytes are the bytes on the bus; NACK halt; automatic Stop; the bus is given back |
| `core` | bytes of 2 bits, FMT depth 2, ACQ depth 3, TX depth 1; writes, reads, an address nobody has, NACKs, FIFO resets, the host switched off and on, inactive bus timeout | no START or STOP but the controller's (`SymbolsIntended`); acknowledges (`AcksAgree`) and bytes (`BytesArrive`) arrive; a bus reported free is closed (`FreeIsClosed`); the monitor keeps the assumption `BusCondition` under which the target is proved (`TargetBusCondition`); orders get done (`OrdersServed`) |
| `events` | RX depth 2, NACK count of 2 bits' worth (stops at 2), one interrupt of the kind "Event" and two of the kind "Status" | no NACK uncounted, in the cycle of a read included; no dropped byte unreported, if software clears what it read and nothing else (`ReadsFirst`); no wake-up lost |

Why the bounds are enough:

* ACQ depth 4 is one more than the least the RTL's own assertion
  (`AcqFifoDeepEnough_A`) admits, so that a transaction can be recorded on top of
  an unread entry; the theorems of section 5 hold for every depth.
* A byte of one bit (target) or two (controller) has a first, a last and, with
  its acknowledge, a middle bit.  In the controller BYTE = 0 is a read of
  2^ByteBits = 4 bytes, so that `byte_index` needs its extra bit, as 256 does.
* Delays are 1 in the target: longer ones only repeat a state in which the same
  inputs are possible.  In the bus monitor all delays differ, so that taking one
  for another shows.  A FIFO depth of 4 has every split over the adapter's
  storages.
* The controller's delays are nondeterministic: every finite THIGH, TLOW, ... of at
  least two cycles is covered.
* `fifos` has two of the four FIFOs: the properties relate one FIFO to the others
  only by who has the port and whose data is on the bus, for which another FIFO is
  enough, and `ServedInTurn` is proved for every number.  Depth 4 is the least the
  RTL admits, with an SRAM region of 2 on which the pointers wrap;
  that they also wrap where the depth is no power of two is proved (`PointersCount`,
  `PrimIsFifo`, `FifosAreAdapters`).
* `core`: the bus timeout (`InactiveTimeout` 6) is longer than the delays of the
  controller, which end `Margin` cycles earlier: one that is shorter than a period of
  SCL would fire in every bit.  It counts with SCL high only, and fires in this run where
  multi-controller mode needs it: when the bus has been left alone after the monitor was
  enabled.  The timeouts of the target's stretch and the active timeout of the
  bus are off (see the observations).
* `events`: a count that stops at 2 has the first, the last and the saturated value;
  masks are all or none; two events tell a halt by a NACK from one by another cause.

Every property is violated by a plausible mutation of the code, listed in
PROJECT.json; the mutated operators stand before the definition they mutate.

Deadlock is checked everywhere.

### Fairness

* `I2cTargetFsm`, `I2cBusMonitor`: the clock runs (`QuietEdge`); the bus and
  software may fall silent for ever.  Nothing is assumed of software: `StretchEnds`
  needs only the timeout.
* `I2cFifoAdapter`: edges in which the SRAM is granted recur.  The arbiter is
  round-robin and always ready; `NoStarvation` proves that it grants in turn.
* `I2cCore`: the clock runs and delays end, and software keeps reading ACQDATA and
  writing TXDATA.  Without that the target stretches for ever and so does every
  order: it is software's duty, which the stretch timeout enforces.
* `I2cEvents`: the clock runs, and the handler takes its next step (for the overflow a
  read of INTR_STATE, then the write) for each interrupt that stays raised.
* `I2cControllerFsm`: `PromptEdge` - delays end, a target does not stretch for
  ever, a free bus is seen as free and SDA is released in the end.  The I2C
  specification asks this of targets; the FSM waits for ever if it fails, and
  relies on the bus timeout to tell software.

### Disagreements between code and documentation

Four runs each end in a counterexample to a promise (PROJECT.json quotes it).

* `controller_disabled`: the comment at `i2c_controller_fsm.sv:138` says that a
  transaction in which host mode is disabled ends with a STOP.  `trans_started` is
  cleared at once (line 286), so that at the end of the byte `PopFmtFifo` goes to
  Idle, and both lines are released without a STOP.
* `controller_start_race`: the comment at 659 says that the FSM goes back to Idle
  and waits when another device pulls SCL low first.  In the last cycle of
  SetupStart `log_start` is raised all the same (394): Idle then holds SCL low and
  the entry goes out as a repeated START in the other's transaction.
* `target_read_command`: a read command recorded after `StretchAddr` raises no
  TX_PENDING event.
* `bus_monitor_second_timeout`: the comment at `i2c_bus_monitor.sv:222` says that the
  bus becomes free when SCL is released after an active timeout.  With the inactive timeout
  on, the branch before it (214) takes the released bus to StBusBusyHigh, and the
  timeout stays latched.  When SCL is stuck low again before the bus was free, no event
  is raised (303), the target is not told, and the bus stays stuck.  (With
  `InactiveTimeout = 0` TLC finds `StuckLowIsReported` true.)  The same latch lets the bus count
  as free when SDA changes in two successive cycles under a high SCL, long after the
  timeout; `FreeIsEarned` accepts that.

Four definitions state what a reader of the code would expect and TLC refutes; give
them as INVARIANT to the instance named:

* `StartsAtFirstBit` (`controller_start_race`'s): a byte whose transmission loses
  arbitration leaves `bit_index` where it was; the next byte begins in the middle.
* `DropsReported` with `ReadsFirst = FALSE` (`events`): "SW wins" in `prim_subreg_arb.sv:87`,
  and `intr_o` is a cycle behind INTR_STATE.  A handler that goes by the line clears the
  overflow, still sees the line in the next cycle and clears once more: a byte dropped in
  that cycle is reported nowhere.  The comment in the primitive says who wins, so that this is
  how the register is meant, and a rule for software: write back what was read.
* `BeginsBusy` (`bus_monitor`'s): with MULTI_CONTROLLER_MONITOR_EN and ENABLEHOST set
  together the monitor shows a free bus for one cycle before it turns to "busy".
* `NBytesWithinGrant` (`target_service`'s, with SwOps = {"ackctrl"}): NBYTES is decremented in every mode and
  wraps; when ACK control is enabled inside a transfer, it is larger than anything
  software wrote.

Further observations made while modelling.  They are no runs, since no text of
the repository is contradicted outright or since the effect is a matter of taste:

* the adapter holds Depth + 1 entries (`i2c_fifo_sync_sram_adapter.sv:234`; the
  header says Depth);
* the end of a transaction whose beginning was not recorded is lost when the ACQ
  FIFO is full (`i2c_target_fsm.sv:630`); a NACK_START can be recorded for an
  address that was ACK'd before its stretch (521);
* `rw_bit_q` of an earlier transfer qualifies TARGET_EVENTS.BUS_TIMEOUT (625);
* `stretch_active_cnt` is reset at the start of a transaction only (153): the
  stretches of a long transaction add up to one timeout, as documented;
* with the active bus timeout enabled, a timeout in the cycle after SCL is released
  makes the target let go of SDA under a high SCL: a STOP nobody issued
  (`SymbolsIntended` in `core`, with `ActiveTimeoutEn = TRUE` and `ActiveTimeout = 5`);
* an event in the cycle in which software clears its own bit is lost ("SW wins" in
  `prim_subreg_arb`): if the bit was set, the second of two events of one kind cannot be
  told from the first.  A NACK in the cycle of a read of TARGET_NACK_COUNT is returned by that read;
* `tb/env/i2c_intr_checker.sv` expects every interrupt to go when software writes a 1
  to it; those of the kind "Status" are read-only and follow their condition;
* `StBusBusyStop` goes to `StBusBusyLow` without reloading the counter
  (`i2c_bus_monitor.sv:262`), which harms only on a bus that breaks the STOP-to-START time:
  with `LegalBus = FALSE` TLC refutes `TimeoutsEarned`;
* T_BUF = 0 never frees the bus after a STOP (263): TLC refutes `IdleBusIsFree`;
* UNHANDLED_NACK_TIMEOUT is set one cycle after the timer has expired, also when
  software clears the NACK in that cycle and the transaction goes on, or when no
  transaction was left to stop (`i2c_controller_fsm.sv:617`); the timer then stays
  blocked until software clears the bit.  BUS_TIMEOUT halts the controller but does
  not end its transaction;
* `auto_stop_q` survives an automatic Stop that loses arbitration (955), and
  `pend_restart` a lost transaction;
* a FMT FIFO reset before the FSM is idle lets `PopFmtFifo` go on with an empty
  FIFO, which reads as a byte 0 (928).  The constant `Hasty` opens this behaviour.

## 4. What the models leave out

Not modelled, and why:

* The parts of `i2c_core.sv` that are no control: the target loopback, the override
  of the lines (OVRD), the oversampled lines (VAL), the interference counter beyond
  what `Interferences` leaves open, and the interrupts made like the three modelled.
* The data of a byte in `I2cTargetFsm` (`I2cCore` has it), and data bytes in the ACQ
  FIFO.
* Lines slower than a cycle: rise and fall times are part of the delays.  Glitches.
* In `I2cCore` there is one controller.  Other controllers are arbitrary lines
  (`OtherControllers`) in one of the violation runs, not a second FSM: two
  controllers with a monitor each have too many states for TLC.
* A FMT FIFO reset before the FSM is idle (`Hasty`), which the register descriptions
  advise against.
* `prim_ram_1p_adv` is external: it answers a read in the next cycle.
* The register file and the top level are generated from `data/i2c.hjson` and hold
  no control; where hardware and software meet in a register, `I2cEvents` has it.
* The TL-UL bus, the UVM testbench, generators and simulation scripts.
* The `.ts` files under `sim/xcelium.d` are time stamps left by a simulator: lists
  of file names and dates.  There is no program in them that a model could follow;
  the logic is in the SystemVerilog under `rtl` and `prim/rtl`.

Hazards no property covers (PROJECT.json, `hazards`): the lost end of an unrecorded
transaction and the stale `rw_bit_q` contradict no promise of the repository, nor do
the registers that keep what a lost arbitration left in them (`StartsAtFirstBit`, refuted, shows
one of the three).  `PopFmtFifo` on a FIFO reset too early is the behaviour `Hasty`
opens.  The counter that is not reloaded (262) and delays of 0 (263) are outside the instance,
as said above.

## 5. Proofs

All theorems hold for every value of the constants that meets the assumptions
stated in the component's module (depths, delays at least 1); TLC evaluates these
assumptions in the runs (those of `FifoParams`, which `PrimFifoSync` shares with the
adapter, in `adapter`).  A theorem that needs more states it as a hypothesis,
named below with the reason the code has for it.  Each inductive invariant was
checked by TLC before it was proved.

**PrimFifoSyncProofs.**  `PointersCount`: the read pointer follows the write pointer by
the depth reported, and by no more than Depth.  With it the slots between the pointers
form a sequence (`ContentsIsSeq`), a push appends at the slot that follows it (also
where the index wraps, `SlotOfRange`) and a pop takes its head.  `PrimIsFifo`: every
step is one of `BoundedFifo`, for every Depth of at least 2, powers of two or not; the
pass-through is the case in which an entry is offered while nothing is inside.  TLC sees
the pointers in the run `fifos`; for the FIFO as a whole the theorem stands in for a run.

**I2cFifoAdapterProofs.**  `IInv` adds two facts to the type invariant: while a
read is in flight output buffer and SRAM region each have room (`RoomForRead`),
and nothing is stored under reset (`EmptyInReset`), and it contains
`FullLeavesInputSlot`, which is what keeps the total at Depth + 1.  `RoomForRead`
is needed since the read is requested one cycle before its data lands; it holds
because a read is requested only if the output buffer is not being filled to its
last slot, or an entry leaves it.  From it: `TypeCorrect`, `ReadAlwaysLands`,
`InputSlotLeft`, `NeverMoreThanOneExtra`.  `AdapterIsFifo` is the refinement of
`BoundedFifo`: the four places an entry can be in, put one behind the other, are the
abstract queue.  An edge moves entries between neighbouring places, so that the
queue loses at most its head and gains at most the entry offered; the only way round
the SRAM is open when nothing is in it or in flight.

**I2cFifosProofs.**  `NoStarvation`: `ServedInTurn` for every number of FIFOs, whatever
they ask for.  `lost` alone is not inductive.  The mask holds exactly the FIFOs above
the last winner, which gives every FIFO a place in the order of turns (`Distance`); a
refusal brings it nearer, so that refusals and distance together stay below RamArbN.
That the lowest requester exists comes from the well-foundedness of the naturals.
`FifosAreAdapters` is the refinement `ImplementsAdapters`, for every number of FIFOs and all
depths.  Its invariant `Placed` orders the two pointers of each FIFO, as in
`PrimFifoSyncProofs`, but on a region of the RAM: a write lands behind the youngest
entry of its own FIFO (`CountPush`) and in nobody else's region (`RegionsAreDisjoint`,
from the address map), a request comes only with room or an entry (`RequestsFit`), one
FIFO has the port (`GrantedAsks`), and the data of its read are on the bus when, and only
when, its own flag says so.  Together with `AdapterIsFifo` every FIFO of the block is a
bounded FIFO, whatever the others do.

**I2cTargetFsmProofs.**  Room for the end of a transaction is not inductive: a
NACK may take the last slot but one, and only one NACK may.  The strengthening:
a NACK'd transaction is confined to the states up to an address's acknowledge
(`NackedOnlyEnds`); a recorded NACK is latched (`NackLatched`); past an address the
transaction is ours (`Addressed`), and so is an open log (`OpenIsOurs`); before a
first START's address is recorded the log is closed (`FirstIsClosed`); in the
states of a write the log is inside one (`WriteOpen`).  With the two parts of
`SpaceIsKept` these are inductive.  One lemma per conjunct and per group of
registers; `Invariance` puts them together.  From it: `TypeCorrect`,
`EndHasSpace`, `NackIsFinal`, `EndIsRecorded` and `Framing`, that every step of the
target is a step of `AcqLog` or leaves the log alone.  They assume `BusCondition` of
the monitor, which `TargetIsInformed` proves of the core.

`TransferInvariance` is about the states of a transfer: in those of a read the log is
inside a read (`ReadOpen`), past the gate what the gate asked for still holds
(`GateOpen`), and what is recorded next is what the observer saw on the bus
(`AckSeen`).  From it: `ReadIsGated`, `LogIsTrue`, `NoSclGlitch`, unconditionally.
`GrantInvariance` relates the grants of software to `ack_cnt`, from which
`NoAckBeyondGrant` and `AckIsRecorded` follow.  These two assume that
`"ackctrl" \notin SwOps`: software chooses ACK control when it sets the device up.
Without it they are false: switched on while an ACK is being driven, the mode holds
a byte to a grant nobody gave.

**I2cBusMonitorProofs.**  `DetectsExactlyHolds`: a pending detection knows how long ago
its symbol was, and in the meantime SCL has been high (`DetInvariance`); true of every
bus and all delays, as is `HostTimeoutEarned`, which rests on a sum: the cycles SCL has been high and
the count left make up the delay loaded.  `FreeIsEarnedHolds` and `TimeoutsEarnedHolds`
have to exclude that a counter goes on from a delay it was not loaded with, when a STOP
is detected while SCL has already fallen.  They assume `LegalBus` (the devices keep the I2C timing:
SCL does not fall between a STOP and the next START, nor before the hold time of a START,
which is longer than t_hd_dat) and one bound each: THD_DAT at least 1 (`data/i2c.hjson:728-733` asks for the
round trip of the lines, and with 0 the count-down of the controller wraps), and T_BUF
other than 1 (a time of microseconds in cycles).  TLC violates the property when
either is dropped.

**I2cControllerFsmProofs.**  `TypeCorrect` is unconditional: none of the counters
underflows, whoever interferes, which needs that `byte_index` is at least 1 in the states
of a read.  The other theorems assume `OneController`: nobody else drives the
bus against the protocol, ENABLEHOST stays set, and software answers a halt in
Idle, where the programmer's guide sends it.  Each of the three is needed: with
any of them open the controller leaves the bus in the ways described in section 3
under disagreements, or below.  Their invariant has nine parts beside the types:

| part | what it says |
|---|---|
| `Sequence` | in the FMT FIFO an entry after a STOP begins with a START |
| `Control` | the state agrees with the entry on top, `trans_started`, `auto_stop` |
| `Halting` | where a NACK can be pending: from the acknowledge to Idle |
| `Clock`, `DataLine` | the lines lag one cycle behind what the state drives |
| `Seen` | what the observer believes of the transaction |
| `BitCount`, `ByteCount` | `bit_index` and `byte_index` and the observer's counts make up the whole |
| `WordCount` | the bits on the bus so far are the upper ones of FBYTE, and those read are in the shift register |

One lemma per part shows that an edge keeps it (`CycleMoves` lists the edges' moves
once for all), one per access of software the rest.  The powers of two in
`WordCount` are read as numbers of subsets, since a proof by induction is out of the
prover's reach: 2^(a + b) = 2^a * 2^b is the cardinality of the subsets of
1 .. a + b (`PowerSum`).  From it: `EntryServedHolds`, `IdleKnowsBusHolds`,
`RxIsOnBusHolds`, `NackHaltsHolds` and the refinement `ControllerIsBus`: what it puts on the bus
is START, whole bytes with an acknowledge, STOP or another START between bytes only, for
every width of a byte and every set of entries.

**I2cEventsProofs.**  `NacksAreReported` is inductive with the type invariant
(`TypeCorrect`), one step per register.  `DropsAreReported` assumes `ReadsFirst`, without which TLC
refutes it (section 3).  A byte may be dropped in any cycle between software's read of INTR_STATE
and its write, and in the cycle of the write.  The invariant that carries it over is
`SeenIsSet`: what software has read is still set, since hardware only sets and software
clears only what it has seen (`ClearsWhatItSaw`).  So a write either clears an
overflow that was reported, or leaves the bit to the byte dropped in its cycle.

**I2cCoreProofs.**  `TargetIsInformed` discharges what `I2cTargetFsmProofs` assumes: the
bus conditions that the monitor reports to the target meet `BusCondition`, on the lines
that controller and target drive.  The difficult part is that no transaction ends twice:
`t_xact_for_us` outlives the end by one cycle, in which neither a STOP nor a timeout may
be reported.  `JustEnded` says so; it is inductive with two facts about the monitor: a
detection is pending only while the lines are as its symbol left them (`Pending`), and
while it waits for t_buf the target has no transaction (`Stopped`), since on the way from
there to `BusBusyLow` the release counter is not loaded again and a timeout may be due at
once.  The hypothesis `LongTimeout` (the active timeout is off or not of a single cycle)
covers `BusFree`, from where the counter is loaded with it.  The run `core` has the active
timeout off, for the size of its state space; the invariant was checked by TLC with the
timeout off and with one of 2 cycles.  `CoreIsController`: what the core does with its
controller is what I2cControllerFsm allows, for all values of the constants;
`TypeCorrect` of `I2cControllerFsmProofs` applies.

The other theorems are about controller and target together.  I2cControllerFsm takes it
for granted that the other devices are targets that keep the protocol (`TargetsOnly`:
SDA changes under a low SCL only, and is released where the controller drives it).  The
target of the core does so only because both FSMs are at the same place of the same
transaction, and they stay there only because each keeps the lines as the other expects.
So neither can be proved first; `JointInvariance` proves both at once.  Its invariant is
that of I2cControllerFsmProofs and `Joint`, which has ten parts:

| part | what it says |
|---|---|
| `Program` | in the FMT FIFO, and in what software will write next, an address with R/W bit 1 is followed by reads, one with 0 by data, a STOP by a START |
| `Types`, `SameBit` | the registers' ranges; the target's bit counter is the observer's |
| `StartIsSeen`, `StopIsSeen` | from the cycle of a START or STOP until the target has acted on it: where the controller is meanwhile |
| `NackIsSeen` | after a NACK the target is out of the transaction |
| `InTime` | how many cycles SCL is still low (`Early`, `Middle`) when the target gets to work, and that with SCL high what it drives is what it drove |
| `Receives`, `Sends` | for each state of the target the states the controller may be in, and its next byte: one it reads, one it writes, or none (`Reading`, `Writing`, `Ending`) |
| `SameData` | the bits the target has shifted in, or sent, are those the observer saw |

`CoreTurn` shows that an edge from such a state drives the lines as `TargetsOnly` asks;
`TurnHolds` (the controller, seen from the target) and `TargetTurn` (the target's paths,
`Path` and `Registers`) say what the edge does, once for all; one lemma per part of
`Joint` shows that it is kept.  From the invariant:

* `CoreIsLoneController`: the core does with its controller what a controller alone on
  the bus does, so that (`CoreKeepsBus`) `EntryServed`, `RxIsOnBus`, `NackHalts` and the
  refinement of `BusTransaction` hold in the core;
* `SymbolsIntendedHolds`, `AcksAgreeHolds`, `BytesArriveHolds`: no START or STOP but the
  controller's, and every acknowledge and byte arrives as it was sent, for every width of
  a byte, every depth of the FIFOs and every set of entries and of bytes sent;
* `FreeIsClosedHolds`: a bus that the monitor reports free has no open transaction.  To
  the joint invariant comes `Released`: in an open transaction with both lines high the
  controller is in a pulse or before a repeated START, and leaves it before the release
  counter gets to 1.

Their hypotheses:

* `Timing`: the target's hold time and t_hd_dat are at most a cycle, and the active
  timeout is off.  The delays of the abstract controller may be as short as two cycles,
  so that no larger time fits into all of them; the code's own delays are larger by as
  much as software programs.  With the active timeout on, `SymbolsIntended` is false (see
  the observations in section 3).
* `Software`: an address of this target with the R/W bit set does not carry a STOP in the same
  entry.  The target would begin to send although nobody reads, and if its first bit is 0, hold SDA low
  under the controller's STOP for ever: TLC finds `OrdersServed` violated when `Orders`
  has such an entry.
* `FreeTiming`, of `FreeIsClosedHolds` only: the delays end three cycles before a bus
  timeout would, and the inactive timeout is not of one or two cycles, less than any
  pulse of SCL.  TLC violates `FreeIsClosed` when either is dropped.

The instance of the run `core` meets all three.

Only model-checked:

* liveness under fairness (`EntriesSurface`, `StretchEnds`, `FirstStuckLowIsReported`,
  `IdleBusIsFree`, `NackTimeoutStops`, `DisabledReleases`, `OrdersServed`, `InterruptsServed`):
  out of the prover's reach;
* the controller with other devices interfering or ENABLEHOST cleared in a transaction
  (`TypeCorrect` and `CoreIsController` excepted), where the code departs from what
  its comments say: the violation runs show it.

Every safety property of a passing run is stated by a theorem.

## 6. What could follow

FIFOs and adapter, target, monitor, controller, composition and events are done, each
with its abstract specification where it has one.  What could be
added:

1. The joint invariant for longer hold times of the target, with the delays of the
   controller bounded from below instead of any that are two cycles or longer.
2. A second controller beside `I2cCore`, as an abstract environment that keeps the
   I2C timing, for arbitration with the monitor in the loop.
