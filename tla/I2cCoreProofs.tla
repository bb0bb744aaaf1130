----------------------------- MODULE I2cCoreProofs -----------------------------
(****************************************************************************)
(* Proofs about I2cCore, whatever the controller's delays, the FIFOs'       *)
(* depths and the width of a byte: the bus conditions that the monitor      *)
(* reports are those under which I2cTargetFsm is proved; the controller is  *)
(* the one of I2cControllerFsm, and, next to this target, the one that is   *)
(* alone on the bus; the two FSMs agree on every bit, byte and acknowledge  *)
(* that they exchange; and a bus reported free has no open transaction.     *)
(****************************************************************************)
EXTENDS I2cCore, SequenceTheorems, TLAPS

\* The active timeout of the bus is off, or is longer than one cycle.
LongTimeout == ActiveTimeoutEn => ActiveTimeout # 1

\* The active timeout is reported in this cycle if SCL is low.
TimeoutDue == ActiveTimeoutEn /\ ~m_active_det /\ m_st = "BusBusyLow" /\ m_release_cnt = 1

\* The inductive invariant: a detection is pending only while the lines are as its
\* symbol left them; when the target has just ended a transaction, neither STOP nor
\* timeout is about to end it again; and after a STOP no transaction is the target's.
Pending ==
  /\ m_start_pending => scl_q
  /\ m_stop_pending => scl_q /\ sda_q
JustEnded == t_st = "Idle" /\ t_xact_for_us => ~m_stop_pending /\ ~TimeoutDue
Stopped == m_st = "BusBusyStop" => t_st = "Idle" \/ (t_st = "AcquireStart" /\ ~t_xact_for_us)
IInv == Pending /\ JustEnded /\ Stopped

\* What the target acts on, and why.
LEMMA BusEventCases ==
  /\ bus_event \in {"start", "stop", "timeout", None}
  /\ bus_event = "start" => m_start_pending
  /\ bus_event = "stop" => M!stop_det
  /\ M!stop_det => bus_event = "stop"
  /\ bus_event = "timeout" => M!event_bus_active_timeout
BY NoneAssumption DEF bus_event, M!start_det

\* A timeout is reported only when it is due.
LEMMA TimeoutCases ==
  ASSUME M!event_bus_active_timeout
  PROVE  TimeoutDue /\ ~scl /\ M!active_det_d
BY DEF M!event_bus_active_timeout, M!active_det_d, M!ActiveExpires, TimeoutDue

\* What an edge does to the target's state, after each bus condition.
LEMMA TargetMoves ==
  ASSUME NEW ev \in {"start", "stop", "timeout", None}, NEW h \in BOOLEAN,
         T!NextState(ev, h, FALSE)
  PROVE  /\ ev \in {"stop", "timeout"} => t_st' = "Idle"
         /\ t_st # "Idle" /\ t_st' = "Idle" => ev \in {"stop", "timeout"}
         /\ t_st = "Idle" => t_st' \in {"Idle", "AcquireStart"}
         /\ t_st = "AcquireStart" /\ scl => t_st' \in {"Idle", "AcquireStart"}
<1>1. CASE ev # None
  BY <1>1, NoneAssumption DEF T!NextState, T!Disabled, T!StopSeen
<1>2. CASE ev = None
  <2>1. T!StateStep(h, FALSE)
    BY <1>2, NoneAssumption DEF T!NextState, T!Disabled, T!StopSeen
  <2> QED
    BY <1>2, <2>1, NoneAssumption
    DEF T!StateStep, T!Idle, T!AcquireStart, T!AddrRead, T!AddrAckWait,
        T!AddrAckSetup, T!AddrAckPulse, T!AddrAckHold, T!TransmitWait, T!TransmitSetup,
        T!TransmitPulse, T!TransmitHold, T!TransmitAck, T!TransmitAckPulse, T!WaitForStop,
        T!AcquireByte, T!AcquireAckWait, T!AcquireAckSetup, T!AcquireAckPulse,
        T!AcquireAckHold, T!StretchAddrAck, T!StretchAddrAckSetup, T!StretchAddr,
        T!StretchTx, T!StretchTxSetup, T!StretchAcqFull, T!StretchAcqSetup
<1> QED
  BY <1>1, <1>2

\* An edge of the target, seen from the bus: where it goes and whose the transaction is.
LEMMA TargetEdge ==
  ASSUME TargetStep
  PROVE  /\ bus_event \in {"stop", "timeout"} => t_st' = "Idle"
         /\ t_st # "Idle" /\ t_st' = "Idle" => bus_event \in {"stop", "timeout"}
         /\ t_st = "Idle" => t_st' \in {"Idle", "AcquireStart"}
         /\ t_st = "AcquireStart" /\ scl => t_st' \in {"Idle", "AcquireStart"}
         /\ t_xact_for_us' => t_st = "AddrRead" \/ (t_st # "Idle" /\ t_xact_for_us)
<1>1. T!NextState(bus_event, hit, FALSE) /\ hit \in BOOLEAN
  BY DEF TargetStep, hit
<1>2. t_xact_for_us' => t_st = "AddrRead" \/ (t_st # "Idle" /\ t_xact_for_us)
  BY DEF TargetStep, T!Tracking, T!target_idle, hit
<1> QED
  BY <1>1, <1>2, BusEventCases, TargetMoves

\* The monitor after a STOP or a timeout: no active timeout is due at once.
LEMMA NothingDue ==
  ASSUME LongTimeout, MonitorStep,
         \/ M!stop_det /\ m_st # "BusBusyStop"
         \/ M!event_bus_active_timeout
  PROVE  ~TimeoutDue'
<1>1. CASE M!event_bus_active_timeout
  BY <1>1, TimeoutCases DEF MonitorStep, TimeoutDue
<1>2. CASE M!stop_det /\ m_st # "BusBusyStop"
  BY <1>2
  DEF LongTimeout, TimeoutDue, MonitorStep, M!Enabled, M!StateStep, M!BusFree, M!StopDetected,
      M!BusBusyLow, M!BusBusyHigh, M!BusBusyStop, M!To, M!Load, M!monitor_enable
<1> QED
  BY <1>1, <1>2

\* The monitor waits for t_buf after a STOP, and as long as both lines are high.
LEMMA WaitsAfterStop ==
  ASSUME MonitorStep, m_st' = "BusBusyStop"
  PROVE  M!stop_det \/ (m_st = "BusBusyStop" /\ scl)
BY DEF MonitorStep, M!Enabled, M!StateStep, M!BusFree, M!StopDetected,
       M!BusBusyLow, M!BusBusyHigh, M!BusBusyStop, M!To, M!Load, M!monitor_enable

\* A STOP or timeout that is reported is no longer pending.
LEMMA StopIsOver ==
  ASSUME Pending, MonitorStep, M!stop_det \/ M!event_bus_active_timeout
  PROVE  ~m_stop_pending'
<1>1. CASE M!stop_det
  BY <1>1 DEF MonitorStep, M!Detection, M!stop_det, M!stop_det_trigger, Pending
<1>2. CASE M!event_bus_active_timeout
  BY <1>2, TimeoutCases DEF MonitorStep, M!Detection, M!stop_det_trigger
<1> QED
  BY <1>1, <1>2

\* An edge keeps the invariant.
LEMMA EdgeStep ==
  ASSUME LongTimeout, IInv, Edge
  PROVE  IInv'
<1>1. PICK done \in Delays, expires \in BOOLEAN : Cycle(done, expires)
  BY DEF Edge
<1>2. scl_q' = scl /\ sda_q' = sda /\ TargetStep /\ MonitorStep
  BY <1>1 DEF Cycle, C!Cycle, C!Lines, sda
<1>3. Pending'
  <2>1. m_start_pending' => scl
    BY <1>2 DEF MonitorStep, M!Detection, M!start_det_trigger
  <2>2. m_stop_pending' => scl /\ sda
    BY <1>2 DEF MonitorStep, M!Detection, M!monitor_enable, M!start_det_trigger,
                M!stop_det_trigger, IInv, Pending
  <2> QED
    BY <1>2, <2>1, <2>2 DEF Pending
<1>4. JustEnded'
  <2> SUFFICES ASSUME t_st' = "Idle", t_xact_for_us'
               PROVE  ~m_stop_pending' /\ ~TimeoutDue'
    BY DEF JustEnded
  <2>1. t_st = "AddrRead" \/ (t_st # "Idle" /\ t_xact_for_us)
    BY <1>2, TargetEdge
  <2>2. M!stop_det \/ M!event_bus_active_timeout
    BY <1>2, <2>1, TargetEdge, BusEventCases
  <2>3. m_st # "BusBusyStop"
    BY <2>1 DEF IInv, Stopped
  <2> QED
    BY <1>2, <2>2, <2>3, NothingDue, StopIsOver DEF IInv
<1>5. Stopped'
  <2> SUFFICES ASSUME m_st' = "BusBusyStop"
               PROVE  t_st' = "Idle" \/ (t_st' = "AcquireStart" /\ ~t_xact_for_us')
    BY DEF Stopped
  <2>1. CASE M!stop_det
    BY <1>2, <2>1, TargetEdge, BusEventCases
  <2>2. CASE m_st = "BusBusyStop" /\ scl
    BY <1>2, <2>2, TargetEdge DEF IInv, Stopped
  <2> QED
    BY <1>2, <2>1, <2>2, WaitsAfterStop
<1> QED
  BY <1>3, <1>4, <1>5 DEF IInv

\* Every step keeps the invariant; software has no access to what it is about.
LEMMA StepIInv ==
  ASSUME LongTimeout
  PROVE  IInv /\ [Next]_vars => IInv'
<1> SUFFICES ASSUME IInv, [Next]_vars
             PROVE  IInv'
  OBVIOUS
<1>1. CASE Edge
  BY <1>1, EdgeStep
<1>2. CASE ~Edge
  <2>1. UNCHANGED <<scl_q, sda_q, t_st, t_xact_for_us, monitor>>
    BY <1>2 DEF Next, SwWrite, C!SwWrite, SwControl, C!SwClear, C!SwReset, C!SwEnable,
                C!SwDisable, SwReadAcq, SwWriteTx, vars, C!lines, lines, target
  <2> QED
    BY <2>1 DEF monitor, IInv, Pending, JustEnded, Stopped, TimeoutDue
<1> QED
  BY <1>1, <1>2

\* The monitor reports a START or STOP only after SCL was high, a timeout only while
\* SCL is low, and no end of a transaction twice: the assumption about the bus under
\* which the theorems of I2cTargetFsmProofs hold is met in the core, for all delays but
\* an active timeout of one cycle, which no bus can use.
THEOREM TargetIsInformed ==
  ASSUME LongTimeout
  PROVE  Spec => []TargetBusCondition
<1>1. Init => IInv
  BY DEF Init, T!Init, IInv, Pending, JustEnded, Stopped
<1>2. IInv => TargetBusCondition
  <2> SUFFICES ASSUME IInv
               PROVE  TargetBusCondition
    OBVIOUS
  <2>1. bus_event = "stop" => m_stop_pending
    BY BusEventCases DEF M!stop_det
  <2>2. bus_event = "timeout" => TimeoutDue /\ ~scl
    BY BusEventCases, TimeoutCases
  <2>3. T!StopSeen(bus_event) => ~(T!target_idle /\ t_xact_for_us)
    BY <2>1, <2>2 DEF T!StopSeen, T!target_idle, IInv, JustEnded
  <2>4. /\ bus_event \in {"start", "stop"} => scl_q
        /\ bus_event # "arbitration"
    BY <2>1, BusEventCases, NoneAssumption DEF IInv, Pending
  <2> QED
    BY <2>2, <2>3, <2>4, BusEventCases DEF TargetBusCondition, T!BusCondition
<1> QED
  BY <1>1, <1>2, StepIInv, PTL DEF Spec

------------------------------------------------------------------------------
(* The controller of the core is the one of I2cControllerFsm.                *)

\* A clock edge of the core is one of the controller, on lines that the target drives.
LEMMA EdgeIsController ==
  ASSUME Edge
  PROVE  C!Edge
<1>1. PICK done \in Delays, expires \in BOOLEAN : Cycle(done, expires)
  BY DEF Edge
<1>2. done \in C!Expiries
  <2>1. C!Expiries = BOOLEAN \/ C!Expiries = {FALSE}
    BY DEF C!Expiries
  <2>2. (TRUE \in C!Expiries) \in C!Expiries
    <3>1. CASE C!Expiries = BOOLEAN
      BY <3>1
    <3>2. CASE C!Expiries = {FALSE}
      <4>1. (TRUE \in C!Expiries) = FALSE
        BY <3>2
      <4> QED
        BY <3>2, <4>1
    <3> QED
      BY <2>1, <3>1, <3>2
  <2> QED
    BY <2>2 DEF Delays
<1>3. FALSE \in C!Interferences
  BY DEF C!Interferences
<1>4. M!bus_free \in BOOLEAN
  BY DEF M!bus_free
<1>5. (M!event_bus_active_timeout /\ ~C!host_idle) \in C!Timeouts
  BY DEF C!Timeouts, C!host_idle
<1>6. C!Cycle(done, M!bus_free, FALSE, expires, M!event_bus_active_timeout /\ ~C!host_idle)
  BY <1>1 DEF Cycle
<1> QED
  BY <1>2, <1>3, <1>4, <1>5, <1>6 DEF C!Edge

\* The core does with its controller only what I2cControllerFsm allows: the monitor
\* gives it free bus and timeout, the target its lines, and software keeps the rules of
\* I2cControllerFsm; so what is proved there without OneController holds here.
THEOREM CoreIsController == Spec => C!Spec
<1>1. Init => C!Init
  BY DEF Init
<1>2. [Next]_vars => [C!Next]_C!vars
  <2> SUFFICES ASSUME [Next]_vars
               PROVE  [C!Next]_C!vars
    OBVIOUS
  <2>1. CASE Edge
    BY <2>1, EdgeIsController DEF C!Next
  <2>2. CASE SwWrite
    BY <2>2 DEF SwWrite, C!Next
  <2>3. CASE SwControl
    BY <2>3 DEF SwControl, C!Next
  <2>4. CASE SwReadAcq \/ SwWriteTx \/ UNCHANGED vars
    BY <2>4 DEF SwReadAcq, SwWriteTx, vars, controller, lines,
                C!vars, C!fsm, C!lines, C!observer
  <2> QED
    BY <2>1, <2>2, <2>3, <2>4 DEF Next
<1> QED
  BY <1>1, <1>2, PTL DEF Spec, C!Spec

------------------------------------------------------------------------------
(* The controller and the target together.  The target of the core is as    *)
(* well behaved as a controller alone on the bus expects (TargetsOnly), but *)
(* only because both FSMs know where they are in the same transaction: the  *)
(* joint invariant says so.  P has the lemmas about the controller.         *)

P == INSTANCE I2cControllerFsmProofs WITH
  OtherControllers <- FALSE, BusTimeouts <- FALSE, Disables <- FALSE, Hasty <- FALSE

\* The assumptions of P are those of the core.
LEMMA ControllerAssumptions ==
  P!ByteAssumption /\ P!DepthAssumption /\ P!SwitchesAssumption /\ P!EntriesAssumption
BY PartsAssumption
DEF P!ByteAssumption, P!DepthAssumption, P!SwitchesAssumption, P!EntriesAssumption,
    C!FmtEntry, P!FmtEntry, C!Bytes, P!Bytes

\* P is a controller that shares the bus with no other one.
LEMMA OneController == P!OneController
BY DEF P!OneController

\* The controller's outputs do not depend on what else is on the bus.
LEMMA Same ==
  /\ C!Top = P!Top
  /\ C!scl_o = P!scl_o /\ C!sda = P!sda
  /\ C!host_idle = P!host_idle /\ C!unhandled_nak = P!unhandled_nak /\ C!host_nack = P!host_nack
  /\ C!sda_o = P!sda_o
  /\ \A w, b : C!Shift(w, b) = P!Shift(w, b)
  /\ C!Bytes = P!Bytes
<1>1. C!Top = P!Top
  BY DEF C!Top, P!Top
<1>2. C!scl_o = P!scl_o /\ C!host_idle = P!host_idle
  BY <1>1 DEF C!scl_o, P!scl_o, C!host_idle, P!host_idle, C!Pulses, P!Pulses
<1>3. C!sda = P!sda /\ C!unhandled_nak = P!unhandled_nak /\ C!host_nack = P!host_nack
  BY <1>1 DEF C!sda, P!sda, C!unhandled_nak, P!unhandled_nak, C!host_nack, P!host_nack
<1>4. C!sda_o = P!sda_o
  BY <1>1, <1>3 DEF C!sda_o, P!sda_o, C!fmt_bit, P!fmt_bit
<1>5. \A w, b : C!Shift(w, b) = P!Shift(w, b)
  BY DEF C!Shift, P!Shift, C!Bit, P!Bit
<1>6. C!Bytes = P!Bytes
  BY DEF C!Bytes, P!Bytes
<1> QED
  BY <1>1, <1>2, <1>3, <1>4, <1>5, <1>6

\* An edge on lines that the target drives as it should is one of a lone controller.
LEMMA CycleIsAlone ==
  ASSUME NEW done \in C!Expiries, NEW free \in BOOLEAN, NEW expires \in BOOLEAN, 
   P!TargetsOnly, C!Cycle(done, free, FALSE, expires, FALSE)
  PROVE P!Cycle(done, free, FALSE, expires, FALSE)
<1>1. C!StateStep(done, free) => P!StateStep(done, free)
  <2>1. /\ C!Idle(free) => P!Idle(free)
        /\ C!Active => P!Active
        /\ C!PopFmtFifo => P!PopFmtFifo
    BY Same DEF C!Idle, P!Idle, C!Active, P!Active, C!PopFmtFifo, P!PopFmtFifo,
       C!halt_controller, P!halt_controller, C!AutoStopNow, P!AutoStopNow, C!Stay, P!Stay,
       C!Goto, P!Goto
  <2>2. /\ C!SetupStart(done) => P!SetupStart(done)
        /\ C!HoldStart(done) => P!HoldStart(done)
        /\ C!ClockStart(done) => P!ClockStart(done)
        /\ C!SetupStop(done) => P!SetupStop(done)
        /\ C!ClockStop(done) => P!ClockStop(done)
        /\ C!HoldStop => P!HoldStop
    BY Same DEF C!SetupStart, P!SetupStart, C!HoldStart, P!HoldStart, C!ClockStart, P!ClockStart,
       C!SetupStop, P!SetupStop, C!ClockStop, P!ClockStop, C!HoldStop, P!HoldStop,
       C!scl_fell, P!scl_fell, C!Stay, P!Stay, C!Goto, P!Goto, C!Timed, P!Timed
  <2>3. /\ C!ClockLow(done) => P!ClockLow(done)
        /\ C!ClockLowAck(done) => P!ClockLowAck(done)
        /\ C!ReadClockLow(done) => P!ReadClockLow(done)
        /\ C!HostClockLowAck(done) => P!HostClockLowAck(done)
        /\ C!HoldBit(done) => P!HoldBit(done)
        /\ C!ReadHoldBit(done) => P!ReadHoldBit(done)
        /\ C!HoldDevAck(done) => P!HoldDevAck(done)
        /\ C!HostHoldBitAck(done) => P!HostHoldBitAck(done)
    BY Same
    DEF C!ClockLow, P!ClockLow, C!ClockLowAck, P!ClockLowAck, C!ReadClockLow, P!ReadClockLow,
       C!HostClockLowAck, P!HostClockLowAck, C!HoldBit, P!HoldBit, C!ReadHoldBit, P!ReadHoldBit,
       C!HoldDevAck, P!HoldDevAck, C!HostHoldBitAck, P!HostHoldBitAck, C!EntryDone, P!EntryDone,
       C!Goto, P!Goto, C!Timed, P!Timed
  <2>4. C!Pulse(done) => P!Pulse(done)
    BY Same DEF C!Pulse, P!Pulse, C!Pulses, P!Pulses, C!sda_unstable, P!sda_unstable,
       C!AfterPulse, P!AfterPulse, C!scl_fell, P!scl_fell, C!Goto, P!Goto, C!Timed, P!Timed
  <2> QED
    BY <2>1, <2>2, <2>3, <2>4, Zenon DEF C!StateStep, P!StateStep
<1>2. loaded' = (st' # st \/ (P!stretch_en /\ ~scl))
  BY DEF C!Cycle, C!stretch_en, P!stretch_en, C!Pulses, P!Pulses
<1>3. P!bit_counter(done) /\ P!byte_counter(done) /\ P!read_register(done)
  <2>1. /\ C!NextBit = P!NextBit /\ C!byte_num = P!byte_num
        /\ C!PulseEnds(done) = P!PulseEnds(done)
    BY Same DEF C!NextBit, P!NextBit, C!byte_num, P!byte_num, C!PulseEnds, P!PulseEnds,
       C!Pulses, P!Pulses, C!sda_unstable, P!sda_unstable, C!scl_fell, P!scl_fell
  <2> QED
    BY <2>1, Same DEF C!Cycle, C!bit_counter, P!bit_counter, C!byte_counter, P!byte_counter,
       C!read_register, P!read_register
<1>4. P!Started(done, FALSE) /\ P!Restart(done) /\ P!unhandled_nak_cnt(expires)
  <2>1. /\ C!log_start(done) = P!log_start(done) /\ C!log_stop = P!log_stop
        /\ C!arbitration_lost(FALSE) = P!arbitration_lost(FALSE)
        /\ C!req_restart = P!req_restart /\ C!incr_nak_cnt = P!incr_nak_cnt
    BY Same DEF C!log_start, P!log_start, C!log_stop, P!log_stop, C!arbitration_lost,
       P!arbitration_lost, C!sda_unstable, P!sda_unstable, C!ctrl_symbol_failed,
       P!ctrl_symbol_failed,
       C!Pulses, P!Pulses, C!scl_fell, P!scl_fell, C!req_restart, P!req_restart,
       C!incr_nak_cnt, P!incr_nak_cnt
  <2> QED
    BY <2>1 DEF C!Cycle, C!Started, P!Started, C!Restart, P!Restart,
       C!unhandled_nak_cnt, P!unhandled_nak_cnt
<1>5. events' = events \cup P!NewEvents(FALSE, FALSE)
  BY Same DEF C!Cycle, C!NewEvents, P!NewEvents, C!event_nak, P!event_nak, C!arbitration_lost,
     P!arbitration_lost, C!sda_unstable, P!sda_unstable, C!ctrl_symbol_failed, P!ctrl_symbol_failed,
     C!Pulses, P!Pulses, C!scl_fell, P!scl_fell, C!ControllerEvents, P!ControllerEvents
<1>6. P!Pop /\ P!Lines
  BY Same DEF C!Cycle, C!Pop, P!Pop, C!Lines, P!Lines
<1>7. P!Observer
  <2>1. /\ C!StartSeen = P!StartSeen /\ C!StopSeen = P!StopSeen /\ C!PulseSeen = P!PulseSeen
    BY Same DEF C!StartSeen, P!StartSeen, C!StopSeen, P!StopSeen, C!PulseSeen, P!PulseSeen,
       C!scl_fell, P!scl_fell
  <2> QED
    BY <2>1, Same DEF C!Cycle, C!Observer, P!Observer
<1> QED
  BY <1>1, <1>2, <1>3, <1>4, <1>5, <1>6, <1>7 DEF C!Cycle, P!Cycle, P!Goto, C!Goto

------------------------------------------------------------------------------
(* What the program is, and where both FSMs are in it.                      *)

\* The entry after the first i - 1 ones is, or can only be, a read; has a START.
ReadNext(i) == IF i \in 1 .. Len(fmt) THEN fmt[i].read ELSE writer # "start" /\ reads
StartNext(i) == IF i \in 1 .. Len(fmt) THEN fmt[i].start ELSE writer = "start"
TopReads == ReadNext(1)
NextReads == ReadNext(2)
TopStarts == StartNext(1)
NextStarts == StartNext(2)

\* Asks for a read: the R/W bit of an address.
AsksRead(e) == e.fbyte % 2 = 1

\* An entry agrees with the one that software wrote, or has to write, after it.
Follow(i) ==
  /\ fmt[i].stop \/ (fmt[i].read /\ ~fmt[i].rcont) => StartNext(i + 1)
  /\ fmt[i].rcont => ReadNext(i + 1)
  /\ ~fmt[i].stop /\ ~fmt[i].read => (ReadNext(i + 1) <=> fmt[i].start /\ AsksRead(fmt[i]))
Program ==
  /\ \A i \in 1 .. Len(fmt) : Follow(i)
  /\ writer = "read" => reads

\* The controller's next byte is one it reads, one it writes, or there is none.
Reading ==
  \/ st \in P!ReadBits
  \/ st = "HoldDevAck" /\ ~scl_q /\ ~P!Top.stop /\ NextReads
  \/ st = "HostHoldBitAck" /\ ~scl_q /\ ~P!host_nack
  \/ st = "PopFmtFifo" /\ trans_started /\ NextReads
  \/ st \in {"Idle", "Active"} /\ trans_started /\ TopReads
Writing ==
  \/ st \in P!WriteBits \cup P!Starting \cup P!Stopping
  \/ st = "HoldDevAck" /\ ~scl_q /\ (P!Top.stop \/ ~NextReads)
  \/ st = "PopFmtFifo" /\ ~NextReads
  \/ st \in {"Idle", "Active"} /\ ~TopReads
Ending ==
  \/ st \in P!Starting \cup P!Stopping \/ (st = "ClockLow" /\ pend_restart)
  \/ st = "HostHoldBitAck" /\ ~scl_q /\ P!host_nack
  \/ st = "PopFmtFifo" /\ NextStarts
  \/ st \in {"Idle", "Active"} /\ TopStarts

\* SCL is low and stays so for a cycle, or for two.
Middle == ~scl /\ st \notin P!SclRises \cup {"SetupStart"}
Early == Middle /\ (st \in P!SclLow => loaded)

\* The target's states before it acknowledges an address and a byte, and before it
\* sends a bit.
AddrAck == {"AddrAckWait", "StretchAddrAck", "StretchAddrAckSetup", "AddrAckSetup"}
AcquireAck == {"AcquireAckWait", "StretchAcqFull", "StretchAcqSetup", "AcquireAckSetup"}
SendSetup == {"TransmitWait", "StretchTx", "StretchTxSetup", "TransmitSetup"}
AckPulses == {"AddrAckPulse", "AcquireAckPulse"}
AckHolds == {"AddrAckHold", "AcquireAckHold"}
Sending == {"StretchTxSetup", "TransmitSetup", "TransmitPulse", "TransmitHold",
            "TransmitAck", "TransmitAckPulse"}

Types ==
  /\ t_st \in T!States
  /\ t_rw_bit \in BOOLEAN /\ t_xfer_for_us \in BOOLEAN /\ t_nack_transaction \in BOOLEAN
  /\ host_ack \in BOOLEAN /\ reads \in BOOLEAN
  /\ m_start_pending \in BOOLEAN /\ m_stop_pending \in BOOLEAN
  /\ tx \in Seq(P!Bytes) /\ input_byte \in P!Bytes

\* Both count the same bits.
SameBit == t_bit_idx = pulses

\* From START and STOP on the bus until the target has seen them.
StartIsSeen ==
  /\ m_start_pending => /\ st \in {"HoldStart", "ClockStart"} /\ m_det_count = 1
                        /\ open /\ scl /\ ~sda_q /\ t_st # "AcquireStart"
  /\ t_st = "AcquireStart" => st \in {"HoldStart", "ClockStart"} /\ open /\ scl_q /\ ~sda_q
  /\ st = "HoldStart" /\ ~sda_q => m_start_pending \/ t_st = "AcquireStart"
  /\ st = "ClockStart" => \/ m_start_pending \/ t_st = "AcquireStart"
                          \/ t_st = "AddrRead" /\ ~scl_q
  /\ open /\ t_st = "Idle" => m_start_pending
StopIsSeen ==
  /\ m_stop_pending => /\ ~open /\ ~trans_started /\ st \in {"Idle", "PopFmtFifo"}
                       /\ m_det_count = 1
  /\ ~open => t_st = "Idle" \/ m_stop_pending

\* After a NACK the target takes no part.
NackIsSeen ==
  /\ P!unhandled_nak \/ nak_expired \/ auto_stop => t_st \in {"WaitForStop", "Idle"}
  /\ trans_started => host_enable

\* How long the target has for what it does while SCL is low, and what it drives.
InTime ==
  /\ t_st \in {"AddrRead", "AcquireByte"} /\ pulses = ByteBits => Early
  /\ t_st \in {"AddrAckWait", "AcquireAckWait"} => Middle /\ t_tcount = 1
  /\ t_st = "TransmitWait" => Middle
  /\ t_st \in AckHolds \cup {"TransmitHold"} => Early /\ ~scl_q /\ t_tcount = 1
  /\ t_st \in T!Stretching => ~scl
  /\ t_st \in AddrAck \cup AcquireAck \cup SendSetup \cup {"TransmitAck", "StretchAddr"} => ~scl_q
  /\ t_st \in AckPulses \cup {"TransmitPulse", "TransmitAckPulse"} => scl_q
  /\ t_st \in AckPulses => ~sda_q
  /\ scl => others = target_sda_o

\* Where the controller is when the target receives ...
Receives ==
  /\ st \in P!Starting \/ pend_restart => P!Top.start
  /\ t_st = "AddrRead" =>
       /\ P!Top.start /\ ~t_xfer_for_us
       /\ IF pulses = ByteBits THEN st \in {"HoldBit", "ClockLowAck"}
                               ELSE st \in P!WriteBits \cup {"ClockStart"} /\ ~pend_restart
  /\ t_st = "AcquireByte" =>
       IF pulses = ByteBits THEN st \in {"HoldBit", "ClockLowAck"} ELSE Writing
  /\ t_st \in AddrAck \cup AcquireAck =>
       pulses = ByteBits /\ st \in {"HoldBit", "ClockLowAck", "ClockPulseAck"}
  /\ t_st \in AckPulses => pulses = ByteBits /\ st \in {"ClockPulseAck", "HoldDevAck"}
  /\ t_st \in AckHolds => pulses = 0 /\ st \in {"HoldDevAck", "ClockStop", "PopFmtFifo"}
  /\ t_st = "AcquireAckHold" => Writing
  /\ t_st \in {"AddrAckHold", "StretchAddr"} =>
       pulses = 0 /\ IF t_rw_bit THEN Reading ELSE Writing
  /\ t_st \in AddrAck \cup {"AddrAckPulse"} =>
       P!Top.start /\ (t_rw_bit <=> AsksRead(P!Top)) /\ (t_rw_bit => ~P!Top.stop)
  /\ t_st \in AcquireAck \cup {"AcquireAckPulse"} => ~P!Top.start
  /\ /\ t_st \in {"AcquireByte", "StretchAddr"} /\ ~pend_restart
     /\ st \in P!WriteBits \/ pulses = ByteBits
     => ~P!Top.start

\* ... and when it sends.
Sends ==
  /\ t_st \in {"TransmitWait", "StretchTx"} => pulses = 0
  /\ t_st \in SendSetup \cup {"TransmitPulse"} => pulses < ByteBits /\ Reading
  /\ t_st = "TransmitPulse" =>
       st \in {"ReadClockPulse", "ReadHoldBit"} /\ sda_q = tx_bit /\ others = tx_bit
  /\ t_st = "TransmitHold" =>
       IF pulses = ByteBits THEN st \in {"ReadHoldBit", "HostClockLowAck"} ELSE Reading
  /\ t_st = "TransmitAck" =>
       pulses = ByteBits /\ st \in {"ReadHoldBit", "HostClockLowAck", "HostClockPulseAck"}
  /\ t_st = "TransmitAckPulse" =>
       /\ pulses = ByteBits /\ st \in {"HostClockPulseAck", "HostHoldBitAck"}
       /\ host_ack = ~P!host_nack
  /\ t_st = "WaitForStop" /\ t_xfer_for_us /\ ~t_nack_transaction => Ending \/ ~open
  /\ t_st \in Sending =>
       tx # <<>> /\ word % 2^pulses = Head(tx) \div 2^(ByteBits - pulses)

\* The bits received are those that the observer saw.
SameData ==
  /\ ~scl_q => input_byte % 2^pulses = word % 2^pulses
  /\ scl_q /\ st \in P!WriteBits \cup P!ReadBits =>
       input_byte % 2^(pulses + 1) = 2 * (word % 2^pulses) + P!Bit(sda_q)
  /\ pulses = ByteBits => input_byte = word
  /\ t_st \in AckHolds \cup {"StretchAddr"} => input_byte = word /\ acked

Joint ==
  /\ Program /\ Types /\ SameBit /\ StartIsSeen /\ StopIsSeen /\ NackIsSeen
  /\ InTime /\ Receives /\ Sends /\ SameData

------------------------------------------------------------------------------
(* The FMT FIFO as a program.                                               *)

\* An entry with START is not a read.
LEMMA StartsNoRead ==
  ASSUME P!IInv, NEW i \in Nat, StartNext(i)
  PROVE  ~ReadNext(i)
<1>1. CASE i \in 1 .. Len(fmt)
  <2>1. fmt[i] \in Entries
    BY <1>1 DEF P!IInv, P!TypeOK
  <2>2. fmt[i].read => ~fmt[i].start
    BY <2>1, ControllerAssumptions, P!EntryFacts
  <2> QED
    BY <1>1, <2>2 DEF StartNext, ReadNext
<1>2. CASE i \notin 1 .. Len(fmt)
  BY <1>2 DEF StartNext, ReadNext
<1> QED
  BY <1>1, <1>2

\* What the program says of the entry on top and of the next one.
LEMMA TopOfProgram ==
  ASSUME P!IInv, Program, fmt # <<>>
  PROVE  /\ (TopReads <=> P!Top.read) /\ (TopStarts <=> P!Top.start)
         /\ P!Top.stop \/ (P!Top.read /\ ~P!Top.rcont) => NextStarts
         /\ P!Top.rcont => NextReads
         /\ ~P!Top.stop /\ ~P!Top.read => (NextReads <=> P!Top.start /\ AsksRead(P!Top))
         /\ NextStarts => ~NextReads
<1>1. 1 \in 1 .. Len(fmt) /\ P!Top = fmt[1]
  BY HeadTailProperties DEF P!IInv, P!TypeOK, P!Top
<1>2. Follow(1)
  BY <1>1 DEF Program
<1>3. NextStarts => ~NextReads
  BY StartsNoRead DEF NextStarts, NextReads
<1>4. ReadNext(1) = P!Top.read /\ StartNext(1) = P!Top.start
  BY <1>1 DEF ReadNext, StartNext
<1>5. 1 + 1 = 2
  OBVIOUS
<1> HIDE DEF ReadNext, StartNext
<1> QED
  BY <1>1, <1>2, <1>3, <1>4, <1>5, Zenon DEF Follow, TopReads, TopStarts, NextReads, NextStarts

\* The program is kept while no entry is popped, and moves up when one is.
LEMMA ProgramStep ==
  ASSUME P!IInv, Program, NEW done \in BOOLEAN, NEW free \in BOOLEAN, P!QuietEdge(done, free),
         reads' = reads
  PROVE  /\ Program'
         /\ st # "PopFmtFifo" => /\ (TopReads' <=> TopReads) /\ (NextReads' <=> NextReads)
                                 /\ (TopStarts' <=> TopStarts) /\ (NextStarts' <=> NextStarts)
                                 /\ P!Top' = P!Top
         /\ st = "PopFmtFifo" => (TopReads' <=> NextReads) /\ (TopStarts' <=> NextStarts)
<1>1. writer' = writer /\ fmt' = IF st = "PopFmtFifo" THEN Tail(fmt) ELSE fmt
  BY DEF P!QuietEdge
<1>2. CASE st # "PopFmtFifo"
  BY <1>1, <1>2 DEF Program, Follow, TopReads, NextReads, TopStarts, NextStarts, ReadNext,
                    StartNext, P!Top
<1>3. CASE st = "PopFmtFifo"
  <2>1. fmt \in Seq(Entries) /\ fmt # <<>> /\ fmt' = Tail(fmt)
    BY <1>1, <1>3 DEF P!IInv, P!TypeOK, P!Control, P!Stopping
  <2>2. Len(fmt') = Len(fmt) - 1 /\ \A i \in 1 .. Len(fmt') : fmt'[i] = fmt[i + 1]
    BY <2>1, HeadTailProperties
  <2>3. Len(fmt) \in Nat /\ Len(fmt) >= 1
    BY <2>1, HeadTailProperties
  <2>4. ASSUME NEW i \in Nat, i >= 1
        PROVE  ReadNext(i)' = ReadNext(i + 1) /\ StartNext(i)' = StartNext(i + 1)
    <3>1. i \in 1 .. Len(fmt') <=> i + 1 \in 1 .. Len(fmt)
      BY <2>2, <2>3, <2>4
    <3> QED
      BY <1>1, <2>2, <3>1 DEF ReadNext, StartNext
  <2>5. (TopReads' <=> NextReads) /\ (TopStarts' <=> NextStarts)
    BY <2>4 DEF TopReads, TopStarts, NextReads, NextStarts
  <2>6. ASSUME NEW i \in 1 .. Len(fmt')
        PROVE  Follow(i)'
    <3>1. i \in Nat /\ i >= 1 /\ i + 1 \in 1 .. Len(fmt) /\ i + 1 \in Nat /\ i + 1 >= 1
      BY <2>2, <2>3, <2>6
    <3>2. Follow(i + 1)
      BY <3>1 DEF Program
    <3>3. ReadNext(i + 1)' = ReadNext(i + 1 + 1) /\ StartNext(i + 1)' = StartNext(i + 1 + 1)
      BY <2>4, <3>1
    <3>4. fmt'[i] = fmt[i + 1]
      BY <2>2, <2>6
    <3> QED
      BY <3>2, <3>3, <3>4 DEF Follow, AsksRead
  <2>7. Program'
    BY <1>1, <2>6 DEF Program
  <2> QED
    BY <1>3, <2>5, <2>7
<1> QED
  BY <1>2, <1>3

\* Software's writes keep it, and say what it left open.
LEMMA ProgramWritten ==
  ASSUME P!IInv, Program, reads \in BOOLEAN, SwWrite
  PROVE  /\ Program'
         /\ \A i \in 1 .. Len(fmt) + 1 : ReadNext(i)' = ReadNext(i) /\ (StartNext(i) => StartNext(i)')
         /\ fmt # <<>> => P!Top' = P!Top
<1>1. PICK e \in Entries :
        /\ writer = "start" => e.start
        /\ writer = "read" => e.read
        /\ fmt' = Append(fmt, e)
        /\ writer' = IF e.rcont THEN "read" ELSE IF e.stop \/ e.read THEN "start" ELSE "any"
  BY DEF SwWrite, C!SwWrite
<1>2. /\ e.read => ~e.start
      /\ e.rcont => e.read /\ ~e.stop
      /\ e.read \in BOOLEAN /\ e.start \in BOOLEAN /\ e.stop \in BOOLEAN /\ e.rcont \in BOOLEAN
  BY ControllerAssumptions, P!EntryFacts
<1>3. /\ fmt \in Seq(Entries) /\ Len(fmt) \in Nat /\ Len(fmt') = Len(fmt) + 1
      /\ fmt'[Len(fmt) + 1] = e /\ \A i \in 1 .. Len(fmt) : fmt'[i] = fmt[i]
  BY <1>1, AppendProperties, LenProperties DEF P!IInv, P!TypeOK
<1>4. /\ writer # "start" => (e.read = reads) /\ (reads => ~e.start)
      /\ reads' = IF e.start THEN AsksRead(e) ELSE reads
  BY <1>1, <1>3 DEF SwWrite, AsksRead
<1>5. writer \in {"start", "any", "read"}
  BY DEF P!IInv, P!TypeOK
<1>6. ASSUME NEW i \in 1 .. Len(fmt) + 1
      PROVE  ReadNext(i)' = ReadNext(i) /\ (StartNext(i) => StartNext(i)')
  <2>1. CASE i \in 1 .. Len(fmt)
    BY <1>3, <2>1 DEF ReadNext, StartNext
  <2>2. CASE i = Len(fmt) + 1
    <3>1. i \notin 1 .. Len(fmt) /\ i \in 1 .. Len(fmt') /\ fmt'[i] = e
      BY <1>3, <2>2
    <3> QED
      BY <1>1, <1>2, <1>4, <3>1 DEF ReadNext, StartNext
  <2> QED
    BY <1>3, <1>6, <2>1, <2>2
<1>7. ASSUME NEW i \in 1 .. Len(fmt')
      PROVE  Follow(i)'
  <2>1. CASE i \in 1 .. Len(fmt)
    <3>1. i + 1 \in 1 .. Len(fmt) + 1
      BY <1>3, <2>1
    <3>2. Follow(i) /\ fmt'[i] = fmt[i] /\ fmt[i] \in Entries
      BY <1>3, <2>1 DEF Program
    <3>3. ReadNext(i + 1)' = ReadNext(i + 1) /\ (StartNext(i + 1) => StartNext(i + 1)')
      BY <1>6, <3>1
    <3> QED
      BY <3>2, <3>3 DEF Follow, AsksRead
  <2>2. CASE i = Len(fmt) + 1
    <3>1. i + 1 \notin 1 .. Len(fmt') /\ fmt'[i] = e
      BY <1>3, <2>2
    <3>2. ReadNext(i + 1)' = (writer' # "start" /\ reads') /\ StartNext(i + 1)' = (writer' = "start")
      BY <3>1 DEF ReadNext, StartNext
    <3>3. CASE e.read
      BY <1>1, <1>2, <1>4, <1>5, <3>1, <3>2, <3>3 DEF Follow, Program
    <3>4. CASE ~e.read
      BY <1>1, <1>2, <1>4, <1>5, <3>1, <3>2, <3>4 DEF Follow, AsksRead
    <3> QED
      BY <3>3, <3>4
  <2> QED
    BY <1>3, <1>7, <2>1, <2>2
<1>8. writer' = "read" => reads'
  BY <1>1, <1>2, <1>4, <1>5 DEF Program
<1>9. fmt # <<>> => P!Top' = P!Top
  BY <1>1, <1>3, HeadTailProperties, AppendProperties, EmptySeq DEF P!Top
<1> QED
  BY <1>6, <1>7, <1>8, <1>9 DEF Program

------------------------------------------------------------------------------
(* What the controller does next, as the target sees it.                    *)

\* SCL stays low while nothing releases it, and the controller waits while it rises.
LEMMA Ahead ==
  ASSUME P!IInv, NEW done \in BOOLEAN, NEW free \in BOOLEAN, P!QuietEdge(done, free)
  PROVE  /\ Early => Middle'
         /\ Middle => ~scl'
         /\ scl_q /\ ~scl => st \in P!SclFalls /\ Early'
         /\ ~scl_q /\ scl => st' = st /\ st \in P!SclRises \cup {"SetupStart"}
         /\ ~scl /\ st \in P!SclRises => st' = st
<1>1. P!Clock /\ P!Control /\ st \in P!States /\ scl \in BOOLEAN /\ scl_q \in BOOLEAN /\ loaded \in BOOLEAN
      /\ trans_started \in BOOLEAN
  BY DEF P!IInv, P!TypeOK, P!lines
<1>2. P!Top.read => ~P!Top.start
  BY ControllerAssumptions, P!TopFacts
<1> USE <1>1, <1>2
    DEF P!QuietEdge, P!Clock, P!Control, P!Moves, P!Timed, P!Goto, P!Stay, P!AutoStopNow,
     P!Idle, P!Active, P!PopFmtFifo, P!EntryDone, P!stretch_en, P!scl_o, P!host_idle,
     P!SclLow, P!SclFalls, P!SclRises, P!Between, P!Pulses, P!Starting, P!Stopping, P!WriteBits,
     P!WriteAck, P!ReadBits, P!ReadAck, P!States, Early, Middle
<1>3. CASE st \in P!SclLow
  BY <1>3
<1>4. CASE st \in P!SclFalls
  BY <1>4
<1>5. CASE st \in P!SclRises
  BY <1>5
<1>6. CASE st \in P!Between
  BY <1>6
<1>7. CASE st \in {"SetupStart", "HoldStart", "HoldStop"}
  BY <1>7
<1> QED
  BY <1>3, <1>4, <1>5, <1>6, <1>7

\* What a clock edge does to the controller, without what the target does not see.
Turn(done, free) ==
  /\ P!Clock /\ P!Control /\ P!BitCount /\ st \in P!States
  /\ scl \in BOOLEAN /\ scl_q \in BOOLEAN /\ loaded \in BOOLEAN /\ trans_started \in BOOLEAN
  /\ bit_index \in 0 .. ByteBits - 1 /\ pulses \in 0 .. ByteBits
  /\ ByteBits \in Nat /\ ByteBits >= 1
  /\ P!Moves(done, free)
  /\ done => ~loaded /\ (P!stretch_en => scl)
  /\ trans_started' = IF trans_started /\ ~host_enable THEN FALSE
                      ELSE (st = "SetupStart" /\ done) \/ (trans_started /\ ~P!log_stop)
  /\ pend_restart' = IF pend_restart /\ ~host_enable THEN FALSE
                     ELSE P!req_restart \/ (pend_restart /\ ~(st = "SetupStart" /\ done))
  /\ scl_q' = scl
  /\ open' <=> (st = "HoldStart" /\ sda_q /\ ~P!sda) \/ (open /\ ~(st = "HoldStop" /\ P!sda))
  /\ pulses' = IF st \in P!SclFalls \ {"ClockStart"} /\ scl_q /\ ~scl
               THEN IF pulses = ByteBits THEN 0 ELSE pulses + 1
               ELSE pulses
  /\ host_enable' = host_enable
  \* The entry on top and the next one.
  /\ st # "Idle" /\ ~auto_stop =>
       /\ (TopReads <=> P!Top.read) /\ (TopStarts <=> P!Top.start)
       /\ P!Top.stop \/ (P!Top.read /\ ~P!Top.rcont) => NextStarts
       /\ P!Top.rcont => NextReads /\ ~P!Top.stop
       /\ ~P!Top.stop /\ ~P!Top.read => (NextReads <=> P!Top.start /\ AsksRead(P!Top))
       /\ NextStarts => ~NextReads
  /\ TopStarts => ~TopReads
  /\ P!Top.read => ~P!Top.start
  /\ st # "PopFmtFifo" => /\ (TopReads' <=> TopReads) /\ (NextReads' <=> NextReads)
                          /\ (TopStarts' <=> TopStarts) /\ (NextStarts' <=> NextStarts)
                          /\ P!Top' = P!Top
  /\ st = "PopFmtFifo" => (TopReads' <=> NextReads) /\ (TopStarts' <=> NextStarts)
  \* The acknowledge bit of a read.
  /\ P!host_nack <=> ~P!Top.rcont /\ byte_index = 1
  /\ st \notin {"Active", "PopFmtFifo"} /\ (st = "HostHoldBitAck" => ~done) =>
       (P!host_nack' <=> P!host_nack)

\* A clock edge of the controller is such a turn.
LEMMA TurnHolds ==
  ASSUME P!IInv, Program, NEW done \in BOOLEAN, NEW free \in BOOLEAN, P!QuietEdge(done, free),
         reads' = reads
  PROVE  Turn(done, free)
<1>1. /\ P!Clock /\ P!Control /\ P!BitCount /\ st \in P!States /\ scl \in BOOLEAN /\ scl_q \in BOOLEAN
      /\ loaded \in BOOLEAN /\ trans_started \in BOOLEAN
      /\ bit_index \in 0 .. ByteBits - 1 /\ pulses \in 0 .. ByteBits /\ ByteBits \in Nat /\ ByteBits >= 1
  BY PartsAssumption DEF P!IInv, P!TypeOK, P!lines
<1>2. /\ P!Moves(done, free)
      /\ done => ~loaded /\ (P!stretch_en => scl)
      /\ trans_started' = IF trans_started /\ ~host_enable THEN FALSE
                          ELSE (st = "SetupStart" /\ done) \/ (trans_started /\ ~P!log_stop)
      /\ pend_restart' = IF pend_restart /\ ~host_enable THEN FALSE
                         ELSE P!req_restart \/ (pend_restart /\ ~(st = "SetupStart" /\ done))
      /\ scl_q' = scl /\ host_enable' = host_enable
      /\ pulses' = IF st \in P!SclFalls \ {"ClockStart"} /\ scl_q /\ ~scl
                   THEN IF pulses = ByteBits THEN 0 ELSE pulses + 1
                   ELSE pulses
  BY ControllerAssumptions, P!PulsesStep DEF P!QuietEdge
<1>3. open' <=> (st = "HoldStart" /\ sda_q /\ ~P!sda) \/ (open /\ ~(st = "HoldStop" /\ P!sda))
  BY ControllerAssumptions, P!Symbols DEF P!QuietEdge, P!Observer
<1>4. /\ st # "Idle" /\ ~auto_stop =>
           /\ (TopReads <=> P!Top.read) /\ (TopStarts <=> P!Top.start)
           /\ P!Top.stop \/ (P!Top.read /\ ~P!Top.rcont) => NextStarts
           /\ P!Top.rcont => NextReads /\ ~P!Top.stop
           /\ ~P!Top.stop /\ ~P!Top.read => (NextReads <=> P!Top.start /\ AsksRead(P!Top))
           /\ NextStarts => ~NextReads
      /\ TopStarts => ~TopReads
      /\ P!Top.read => ~P!Top.start
  <2>1. st # "Idle" /\ ~auto_stop => fmt # <<>>
    BY DEF P!IInv, P!Control
  <2>2. fmt # <<>> => P!Top \in Entries /\ (P!Top \in Entries => (P!Top.rcont => ~P!Top.stop))
    BY ControllerAssumptions, P!TopFacts, P!EntryFacts
  <2>3. TopStarts => ~TopReads
    BY StartsNoRead DEF TopStarts, TopReads
  <2> QED
    BY <2>1, <2>2, <2>3, TopOfProgram, ControllerAssumptions, P!TopFacts
<1>5. /\ st # "PopFmtFifo" => /\ (TopReads' <=> TopReads) /\ (NextReads' <=> NextReads)
                              /\ (TopStarts' <=> TopStarts) /\ (NextStarts' <=> NextStarts)
                              /\ P!Top' = P!Top
      /\ st = "PopFmtFifo" => (TopReads' <=> NextReads) /\ (TopStarts' <=> NextStarts)
  BY ProgramStep
<1>6. /\ P!host_nack <=> ~P!Top.rcont /\ byte_index = 1
      /\ st \notin {"Active", "PopFmtFifo"} /\ (st = "HostHoldBitAck" => ~done) =>
           (P!host_nack' <=> P!host_nack)
  <2>1. st # "Active" /\ (st = "HostHoldBitAck" => ~done) => byte_index' = byte_index
    BY DEF P!QuietEdge, P!byte_counter
  <2> QED
    BY <1>5, <2>1 DEF P!host_nack
<1> QED
  BY <1>1, <1>2, <1>3, <1>4, <1>5, <1>6 DEF Turn

\* A byte that is written goes on to its last bit.
LEMMA WriteBitsOn ==
  ASSUME NEW done, NEW free, Turn(done, free)
  PROVE  /\ st \in P!WriteBits \cup {"ClockStart"} /\ pulses < ByteBits =>
              IF pulses' = ByteBits THEN st' \in {"HoldBit", "ClockLowAck"}
              ELSE \/ st' \in P!WriteBits \cup {"ClockStart"}
                   \/ st = "ClockLow" /\ pend_restart /\ st' = "SetupStart"
         /\ st \in P!WriteBits \cup {"ClockStart"} /\ ~pend_restart => ~pend_restart'
         /\ st \notin P!WriteBits /\ pulses < ByteBits /\ Writing => pulses' < ByteBits
<1> USE DEF Turn, P!Clock, P!Control, P!BitCount, P!Moves, P!Timed, P!Goto, P!Stay,
     P!AutoStopNow, P!Idle, P!Active, P!PopFmtFifo, P!EntryDone, P!stretch_en, P!log_stop,
     P!req_restart, P!SclLow, P!SclFalls, P!SclRises, P!Between, P!Pulses, P!Starting,
     P!Stopping, P!WriteBits, P!WriteAck, P!ReadBits, P!ReadAck, P!States, Writing
<1>1. CASE st = "ClockLow"
  BY <1>1
<1>2. CASE st = "ClockPulse"
  <2>1. pulses' = pulses /\ ~pend_restart' /\ st' \in {"ClockPulse", "HoldBit"}
    BY <1>2
  <2> QED
    BY <1>2, <2>1
<1>3. CASE st = "HoldBit"
  <2>1. ~pend_restart'
    BY <1>3
  <2>2. scl_q /\ ~scl =>
          /\ pulses' = pulses + 1
          /\ st' \in {"HoldBit", IF pulses' = ByteBits THEN "ClockLowAck" ELSE "ClockLow"}
    BY <1>3
  <2>3. ~(scl_q /\ ~scl) => pulses' = pulses
    BY <1>3
  <2>4. scl_q /\ scl => st' = st
    BY <1>3
  <2>5. ~scl_q => st' \in {"HoldBit", IF pulses' = ByteBits THEN "ClockLowAck" ELSE "ClockLow"}
    BY <1>3
  <2> QED
    BY <1>3, <2>1, <2>2, <2>3, <2>4, <2>5
<1>4. CASE st = "ClockStart"
  <2>1. pulses' = 0 /\ ~pend_restart' /\ st' \in {"ClockStart", "ClockLow"}
    BY <1>4
  <2> QED
    BY <1>4, <2>1
<1>5. CASE st \notin P!WriteBits \cup {"ClockStart"}
  BY <1>5
<1> QED
  BY <1>1, <1>2, <1>3, <1>4, <1>5

\* Until then it has bytes to write.
LEMMA WritingOn ==
  ASSUME NEW done, NEW free, Turn(done, free)
  PROVE  Writing /\ st \notin P!WriteBits \cup {"ClockStart"} /\ ~auto_stop => Writing'
<1> USE DEF Turn, P!Clock, P!Control, P!BitCount, P!Moves, P!Timed, P!Goto, P!Stay,
     P!AutoStopNow, P!Idle, P!Active, P!PopFmtFifo, P!EntryDone, P!stretch_en, P!log_stop,
     P!req_restart, P!SclLow, P!SclFalls, P!SclRises, P!Between, P!Pulses, P!Starting,
     P!Stopping, P!WriteBits, P!WriteAck, P!ReadBits, P!ReadAck, P!States, Writing
<1>1. CASE st = "SetupStart"
  BY <1>1
<1>2. CASE st = "HoldStart"
  BY <1>2
<1>3. CASE st \in {"ClockStop", "SetupStop"}
  BY <1>3
<1>4. CASE st = "HoldStop"
  BY <1>4
<1>5. CASE st = "HoldDevAck"
  BY <1>5
<1>6. CASE st = "Idle"
  BY <1>6
<1>7. CASE st = "Active"
  BY <1>7
<1>8. CASE st = "PopFmtFifo"
  BY <1>8
<1>9. CASE st \notin P!Between \cup P!Starting \cup P!Stopping \cup {"HoldDevAck"}
  BY <1>9
<1> QED
  BY <1>1, <1>2, <1>3, <1>4, <1>5, <1>6, <1>7, <1>8, <1>9

\* The acknowledge bit of a byte that was written, and what comes after it.
LEMMA WriteAcks ==
  ASSUME NEW done, NEW free, Turn(done, free)
  PROVE  /\ pulses = ByteBits /\ st \in {"HoldBit", "ClockLowAck"} =>
              /\ ~scl_q /\ ~scl /\ pulses' = ByteBits
              /\ st' \in {"HoldBit", "ClockLowAck", "ClockPulseAck"}
         /\ st = "ClockPulseAck" /\ ~scl_q => st' = st /\ pulses' = pulses
         /\ st \in {"ClockPulseAck", "HoldDevAck"} /\ scl_q /\ scl =>
              st' \in {"ClockPulseAck", "HoldDevAck"} /\ pulses' = pulses
         /\ st \in {"ClockPulseAck", "HoldDevAck"} /\ scl_q /\ ~scl =>
              /\ st = "HoldDevAck" /\ pulses' = 0
              /\ st' \in {"HoldDevAck", "ClockStop", "PopFmtFifo"}
              /\ ~P!Top.stop /\ NextReads => Reading'
              /\ P!Top.stop \/ ~NextReads => Writing'
<1> USE DEF Turn, P!Clock, P!Control, P!BitCount, P!Moves, P!Timed, P!Goto, P!Stay,
     P!AutoStopNow, P!Idle, P!Active, P!PopFmtFifo, P!EntryDone, P!stretch_en, P!log_stop,
     P!req_restart, P!SclLow, P!SclFalls, P!SclRises, P!Between, P!Pulses, P!Starting,
     P!Stopping, P!WriteBits, P!WriteAck, P!ReadBits, P!ReadAck, P!States, Reading, Writing
<1>1. CASE st = "HoldBit"
  BY <1>1
<1>2. CASE st = "ClockLowAck"
  BY <1>2
<1>3. CASE st = "ClockPulseAck"
  BY <1>3
<1>4. CASE st = "HoldDevAck"
  BY <1>4
<1>5. CASE st \notin P!WriteAck \cup {"HoldBit"}
  BY <1>5
<1> QED
  BY <1>1, <1>2, <1>3, <1>4, <1>5

\* A byte that is read goes on to its last bit.
LEMMA ReadsOn ==
  ASSUME NEW done, NEW free, Turn(done, free)
  PROVE  /\ Reading /\ pulses < ByteBits /\ ~scl_q /\ ~nak_expired /\ (trans_started => host_enable) =>
              Reading' /\ pulses' = pulses /\ (scl => st = "ReadClockPulse" /\ st' = st)
         /\ st \in {"ReadClockPulse", "ReadHoldBit"} /\ scl_q /\ scl =>
              st' \in {"ReadClockPulse", "ReadHoldBit"} /\ pulses' = pulses
         /\ st \in {"ReadClockPulse", "ReadHoldBit"} /\ scl_q /\ ~scl =>
              /\ st = "ReadHoldBit" /\ pulses' = pulses + 1
              /\ IF pulses' = ByteBits THEN st' \in {"ReadHoldBit", "HostClockLowAck"}
                                       ELSE st' \in P!ReadBits
<1> USE DEF Turn, P!Clock, P!Control, P!BitCount, P!Moves, P!Timed, P!Goto, P!Stay,
     P!AutoStopNow, P!Idle, P!Active, P!PopFmtFifo, P!EntryDone, P!stretch_en, P!log_stop,
     P!req_restart, P!SclLow, P!SclFalls, P!SclRises, P!Between, P!Pulses, P!Starting,
     P!Stopping, P!WriteBits, P!WriteAck, P!ReadBits, P!ReadAck, P!States, Reading
<1>1. CASE st = "ReadClockLow"
  BY <1>1
<1>2. CASE st = "ReadClockPulse"
  BY <1>2
<1>3. CASE st = "ReadHoldBit"
  BY <1>3
<1>4. CASE st = "HoldDevAck"
  BY <1>4
<1>5. CASE st = "HostHoldBitAck"
  BY <1>5
<1>6. CASE st = "Idle"
  BY <1>6
<1>7. CASE st = "Active"
  BY <1>7
<1>8. CASE st = "PopFmtFifo"
  BY <1>8
<1>9. CASE st \in P!Starting \cup P!Stopping \cup P!WriteBits
                 \cup {"ClockLowAck", "ClockPulseAck", "HostClockLowAck", "HostClockPulseAck"}
  BY <1>9
<1> QED
  BY <1>1, <1>2, <1>3, <1>4, <1>5, <1>6, <1>7, <1>8, <1>9

\* The acknowledge bit of a byte that was read, and what comes after it.
LEMMA ReadAcks ==
  ASSUME NEW done, NEW free, Turn(done, free)
  PROVE  /\ pulses = ByteBits /\ st \in {"ReadHoldBit", "HostClockLowAck"} =>
              /\ ~scl_q /\ ~scl /\ pulses' = ByteBits
              /\ st' \in {"ReadHoldBit", "HostClockLowAck", "HostClockPulseAck"}
         /\ st = "HostClockPulseAck" /\ ~scl_q => st' = st /\ pulses' = pulses
         /\ st \in {"HostClockPulseAck", "HostHoldBitAck"} /\ scl =>
              /\ st' \in {"HostClockPulseAck", "HostHoldBitAck"} /\ pulses' = pulses
              /\ P!host_nack' <=> P!host_nack
         /\ st \in {"HostClockPulseAck", "HostHoldBitAck"} /\ scl_q /\ ~scl =>
              /\ st = "HostHoldBitAck" /\ pulses' = 0
              /\ IF P!host_nack THEN Ending' ELSE Reading'
<1> USE DEF Turn, P!Clock, P!Control, P!BitCount, P!Moves, P!Timed, P!Goto, P!Stay,
     P!AutoStopNow, P!Idle, P!Active, P!PopFmtFifo, P!EntryDone, P!stretch_en, P!log_stop,
     P!req_restart, P!SclLow, P!SclFalls, P!SclRises, P!Between, P!Pulses, P!Starting,
     P!Stopping, P!WriteBits, P!WriteAck, P!ReadBits, P!ReadAck, P!States, Reading, Ending
<1>1. CASE st = "ReadHoldBit"
  BY <1>1
<1>2. CASE st = "HostClockLowAck"
  BY <1>2
<1>3. CASE st = "HostClockPulseAck"
  BY <1>3
<1>4. CASE st = "HostHoldBitAck"
  BY <1>4
<1>5. CASE st \notin P!ReadAck \cup {"ReadHoldBit"}
  BY <1>5
<1> QED
  BY <1>1, <1>2, <1>3, <1>4, <1>5

\* After its last byte the controller ends the transfer.
LEMMA EndsOn ==
  ASSUME NEW done, NEW free, Turn(done, free)
  PROVE  Ending /\ st # "ClockStart" /\ open => Ending' \/ ~open'
<1> USE DEF Turn, P!Clock, P!Control, P!BitCount, P!Moves, P!Timed, P!Goto, P!Stay,
     P!AutoStopNow, P!Idle, P!Active, P!PopFmtFifo, P!EntryDone, P!stretch_en, P!log_stop,
     P!req_restart, P!SclLow, P!SclFalls, P!SclRises, P!Between, P!Pulses, P!Starting,
     P!Stopping, P!WriteBits, P!WriteAck, P!ReadBits, P!ReadAck, P!States, Ending
<1>1. CASE st \in {"SetupStart", "HoldStart"}
  BY <1>1
<1>2. CASE st \in {"ClockStop", "SetupStop"}
  BY <1>2
<1>3. CASE st = "HoldStop"
  BY <1>3
<1>4. CASE st = "ClockLow"
  BY <1>4
<1>5. CASE st = "HostHoldBitAck"
  BY <1>5
<1>6. CASE st = "Idle"
  BY <1>6
<1>7. CASE st = "Active"
  BY <1>7
<1>8. CASE st = "PopFmtFifo"
  BY <1>8
<1>9. CASE st \notin P!Starting \cup P!Stopping \cup P!Between \cup {"ClockLow", "HostHoldBitAck"}
  BY <1>9
<1> QED
  BY <1>1, <1>2, <1>3, <1>4, <1>5, <1>6, <1>7, <1>8, <1>9

\* Only an entry with START starts, and a byte without one follows no START.
LEMMA RestartsOn ==
  ASSUME NEW done, NEW free, Turn(done, free)
  PROVE  /\ (st \in P!Starting \/ pend_restart => P!Top.start) =>
              (st' \in P!Starting \/ pend_restart' => P!Top'.start)
         /\ (st \in P!WriteBits \cup {"ClockLowAck"} /\ ~pend_restart => ~P!Top.start) /\ st # "ClockStart" =>
              (st' \in P!WriteBits \cup {"ClockLowAck"} /\ ~pend_restart' => ~P!Top'.start)
<1> USE DEF Turn, P!Clock, P!Control, P!BitCount, P!Moves, P!Timed, P!Goto, P!Stay,
     P!AutoStopNow, P!Idle, P!Active, P!PopFmtFifo, P!EntryDone, P!stretch_en, P!log_stop,
     P!req_restart, P!SclLow, P!SclFalls, P!SclRises, P!Between, P!Pulses, P!Starting,
     P!Stopping, P!WriteBits, P!WriteAck, P!ReadBits, P!ReadAck, P!States
<1>1. CASE st \in P!Starting
  BY <1>1
<1>2. CASE st \in P!WriteBits
  BY <1>2
<1>3. CASE st = "Idle"
  BY <1>3
<1>4. CASE st = "Active"
  BY <1>4
<1>5. CASE st = "PopFmtFifo"
  BY <1>5
<1>6. CASE st \notin P!Starting \cup P!WriteBits \cup P!Between
  BY <1>6
<1> QED
  BY <1>1, <1>2, <1>3, <1>4, <1>5, <1>6

------------------------------------------------------------------------------
(* A clock edge of the core, and that the target keeps the rules of the     *)
(* bus.                                                                     *)

\* Timing of the target and of the monitor that fits the shortest delays that the
\* abstraction of the controller allows: hold times of one cycle, and no active timeout.
Timing == THold = 1 /\ ThdDat \in {0, 1} /\ ~ActiveTimeoutEn

\* The target acts on a START or STOP one cycle after it was on the bus.
LEMMA Detected ==
  ASSUME Timing, Types, StartIsSeen, StopIsSeen, MonitorStep
  PROVE  /\ bus_event = IF m_stop_pending THEN "stop" ELSE IF m_start_pending THEN "start" ELSE None
         /\ m_start_pending' = P!StartSeen /\ m_stop_pending' = P!StopSeen
         /\ P!StartSeen \/ P!StopSeen => m_det_count' = 1
<1>1. /\ M!stop_det <=> m_stop_pending
      /\ M!start_det <=> m_start_pending
  BY DEF M!stop_det, M!start_det, M!monitor_enable, Timing, StartIsSeen, StopIsSeen
<1>2. ~M!event_bus_active_timeout
  BY DEF Timing, M!event_bus_active_timeout, M!active_det_d
<1>3. /\ M!start_det_trigger <=> P!StartSeen
      /\ M!stop_det_trigger <=> P!StopSeen
  BY Same
  DEF M!start_det_trigger, M!stop_det_trigger, P!StartSeen, P!StopSeen, sda, M!monitor_enable
<1>4. M!Detection
  BY DEF MonitorStep
<1>5. P!StartSeen \in BOOLEAN /\ P!StopSeen \in BOOLEAN
  BY DEF P!StartSeen, P!StopSeen
<1>6. /\ m_start_pending' = P!StartSeen /\ m_stop_pending' = P!StopSeen
      /\ P!StartSeen \/ P!StopSeen => m_det_count' = 1
  BY <1>1, <1>3, <1>4, <1>5 DEF M!Detection
<1> QED
  BY <1>1, <1>2, <1>6 DEF bus_event

\* The states from which the controller may come to drive SDA with SCL released.
Approaching ==
  \/ st \in P!Driving
  \/ st = "Active" /\ ~trans_started
  \/ st \in {"ClockLow", "HostClockLowAck", "ClockStop"} /\ ~loaded

\* It comes from no other state to drive SDA.
LEMMA BeforeDriving ==
  ASSUME NEW done \in C!Expiries, NEW free \in BOOLEAN, C!StateStep(done, free),
         st' \in P!Driving
  PROVE  Approaching
<1>1. done => ~loaded
  BY DEF C!Expiries
<1> QED
  BY <1>1
  DEF Approaching, P!Driving, C!StateStep, C!Idle, C!Active, C!PopFmtFifo, C!SetupStart,
      C!HoldStart, C!ClockStart, C!ClockLow, C!ClockLowAck, C!ReadClockLow, C!HostClockLowAck,
      C!Pulse, C!Pulses, C!HoldBit, C!ReadHoldBit, C!HoldDevAck, C!HostHoldBitAck, C!ClockStop,
      C!SetupStop, C!HoldStop, C!Timed, C!Goto, C!Stay, C!AutoStopNow, C!EntryDone, C!AfterPulse

\* There the target releases SDA: it knows that the bit is the controller's.
LEMMA TargetReleases ==
  ASSUME P!IInv, InTime, Receives, Sends, Approaching
  PROVE  target_sda_o
<1>1. P!Clock /\ P!DataLine /\ scl \in BOOLEAN /\ others \in BOOLEAN
  BY DEF P!IInv, P!TypeOK, P!lines
<1>2. CASE scl
  <2>1. others = target_sda_o
    BY <1>2 DEF InTime
  <2> QED
    BY <1>1, <1>2, <2>1 DEF P!Clock, P!DataLine, P!Between, P!SclLow, Approaching
<1>3. CASE ~scl
  <2>1. st \in {"SetupStart", "ClockPulse", "HostClockPulseAck", "SetupStop",
                "ClockLow", "HostClockLowAck", "ClockStop"} /\ (st \in P!SclLow => ~loaded)
    BY <1>1, <1>3 DEF P!Clock, P!Between, P!Driving, P!SclLow, Approaching
  <2>2. ~Early
    BY <2>1 DEF Early, Middle, P!SclRises, P!Pulses, P!SclLow
  <2>3. t_st \notin AckPulses \cup AckHolds \cup {"TransmitHold"}
    BY <2>1, <2>2 DEF InTime, Receives, AckPulses, AckHolds
  <2>4. t_st \notin AddrAck \cup AcquireAck
    BY <2>1 DEF Receives
  <2>5. t_st \notin SendSetup \cup {"TransmitPulse"}
    <3>1. ~Reading
      BY <2>1 DEF Reading, P!ReadBits
    <3> QED
      BY <3>1 DEF Sends
  <2> QED
    BY <2>3, <2>4, <2>5
    DEF target_sda_o, T!AckStates, T!TransmitStates, AckPulses, AckHolds, AddrAck, AcquireAck,
        SendSetup
<1> QED
  BY <1>1, <1>2, <1>3

\* A clock edge of the core as each FSM sees it.
JointEdge(done, free) ==
  /\ P!QuietEdge(done, free) /\ reads' = reads
  /\ TargetStep /\ MonitorStep
  /\ others' = target_sda_o /\ (scl' => T!scl_o)
  /\ nak_expired' => P!unhandled_nak /\ st = "Idle"
  /\ P!unhandled_nak' => P!unhandled_nak \/ (st = "ClockPulseAck" /\ ~scl_q /\ scl /\ P!sda)

\* Where both FSMs are as the joint invariant says, the target drives the lines as a
\* controller alone on the bus expects, and the edge is one of I2cControllerFsm's.
LEMMA CoreTurn ==
  ASSUME Timing, P!IInv, Joint, Edge
  PROVE  /\ P!Edge /\ P!IInv'
         /\ \E done, free \in BOOLEAN : JointEdge(done, free) /\ done \in Delays
<1>1. PICK done \in Delays, expires \in BOOLEAN : Cycle(done, expires)
  BY DEF Edge
<1>2. done \in C!Expiries
  <2>1. C!Expiries = BOOLEAN \/ C!Expiries = {FALSE}
    BY DEF C!Expiries
  <2>2. (TRUE \in C!Expiries) \in C!Expiries
    <3>1. CASE C!Expiries = BOOLEAN
      BY <3>1
    <3>2. CASE C!Expiries = {FALSE}
      <4>1. (TRUE \in C!Expiries) = FALSE
        BY <3>2
      <4> QED
        BY <3>2, <4>1
    <3> QED
      BY <2>1, <3>1, <3>2
  <2> QED
    BY <2>2 DEF Delays
<1> DEFINE free == M!bus_free
<1>3. free \in BOOLEAN
  BY DEF M!bus_free
<1>4. (M!event_bus_active_timeout /\ ~C!host_idle) = FALSE
  BY DEF Timing, M!event_bus_active_timeout, M!active_det_d
<1>5. C!Cycle(done, free, FALSE, expires, FALSE)
  BY <1>1, <1>4 DEF Cycle
<1> HIDE DEF free
<1>6. /\ scl' = scl_o /\ others' = target_sda_o /\ TargetStep /\ MonitorStep /\ reads' = reads
      /\ InTime /\ Receives /\ Sends
  BY <1>1 DEF Cycle, Edge, Joint
<1>7. P!TargetsOnly
  <2>1. scl /\ P!scl_o => scl'
    BY <1>6, Same DEF InTime, scl_o, T!scl_o
  <2>2. others' # others => ~(scl /\ scl')
    BY <1>6 DEF InTime
  <2>3. P!transmitting' /\ P!scl_o' => others'
    <3> SUFFICES ASSUME P!transmitting', P!scl_o'
                 PROVE  others'
      OBVIOUS
    <3>1. st' \in P!Driving
      BY DEF P!transmitting, P!scl_o, P!host_idle, P!Driving, P!Pulses
    <3>2. C!StateStep(done, free)
      BY <1>5 DEF C!Cycle
    <3>3. Approaching
      BY <1>2, <1>3, <3>1, <3>2, BeforeDriving
    <3> QED
      BY <1>6, <3>3, TargetReleases
  <2> QED
    BY <2>1, <2>2, <2>3 DEF P!TargetsOnly
<1>8. P!Cycle(done, free, FALSE, expires, FALSE)
  BY <1>2, <1>3, <1>5, <1>7, CycleIsAlone
<1>9. done \in P!Expiries /\ FALSE \in P!Interferences /\ FALSE \in P!Timeouts
  <2>1. C!Expiries = P!Expiries
    BY DEF C!Expiries, P!Expiries, C!stretch_en, P!stretch_en, C!Waits, P!Waits, C!States,
           P!States, C!Pulses, P!Pulses
  <2> QED
    BY <1>2, <2>1 DEF P!Interferences, P!Timeouts
<1>10. done \in BOOLEAN /\ P!QuietEdge(done, free)
  BY <1>3, <1>8, <1>9, OneController, ControllerAssumptions, P!CycleIsQuiet
<1>11. P!Edge /\ P!IInv'
  <2>1. P!Edge
    BY <1>3, <1>8, <1>9 DEF P!Edge
  <2> QED
    BY <2>1, OneController, ControllerAssumptions, P!EdgeStep
<1>12. nak_expired' => P!unhandled_nak /\ st = "Idle"
  BY <1>8 DEF P!Cycle, P!unhandled_nak_cnt, P!incr_nak_cnt
<1>13. P!unhandled_nak' => P!unhandled_nak \/ (st = "ClockPulseAck" /\ ~scl_q /\ scl /\ P!sda)
  BY <1>8 DEF P!Cycle, P!unhandled_nak, P!NewEvents, P!event_nak
<1>14. scl' => T!scl_o
  BY <1>6 DEF scl_o
<1>15. JointEdge(done, free)
  BY <1>6, <1>10, <1>12, <1>13, <1>14 DEF JointEdge
<1> QED
  BY <1>1, <1>3, <1>10, <1>11, <1>15

------------------------------------------------------------------------------
(* What the target does next, and what the lemmas before give for one edge. *)

\* Where the target comes from.
Path ==
  /\ t_st' = "Idle" => m_stop_pending \/ (t_st = "Idle" /\ ~m_start_pending)
  /\ t_st' # "Idle" => ~m_stop_pending
  /\ t_st' = "AcquireStart" => m_start_pending \/ (t_st = "AcquireStart" /\ scl)
  /\ t_st' \notin {"Idle", "AcquireStart"} => ~m_start_pending
  /\ t_st' = "AddrRead" => \/ t_st = "AcquireStart" /\ ~scl
                           \/ t_st = "AddrRead" /\ pulses < ByteBits
  /\ t_st' \in AddrAck => \/ t_st = "AddrRead" /\ hit /\ t_st' = "AddrAckWait"
                          \/ t_st \in AddrAck /\ ~scl /\ t_st' # "AddrAckWait"
  /\ t_st' = "AddrAckPulse" => t_st \in {"AddrAckSetup", "AddrAckPulse"} /\ scl
  /\ t_st' = "AddrAckHold" => t_st = "AddrAckPulse" /\ ~scl
  /\ t_st' = "StretchAddr" => t_st \in {"AddrAckHold", "StretchAddr"}
  /\ t_st' = "AcquireByte" => \/ t_st = "AcquireByte" /\ pulses < ByteBits
                              \/ t_st = "AcquireAckHold"
                              \/ t_st \in {"AddrAckHold", "StretchAddr"} /\ ~t_rw_bit
  /\ t_st' \in AcquireAck =>
       \/ t_st = "AcquireByte" /\ pulses = ByteBits /\ t_st' = "AcquireAckWait"
       \/ t_st \in AcquireAck /\ ~scl /\ t_st' # "AcquireAckWait"
  /\ t_st' = "AcquireAckPulse" => t_st \in {"AcquireAckSetup", "AcquireAckPulse"} /\ scl
  /\ t_st' = "AcquireAckHold" => t_st = "AcquireAckPulse" /\ ~scl
  /\ t_st' = "TransmitWait" => \/ t_st = "AddrAckHold" /\ t_rw_bit
                               \/ t_st = "TransmitAckPulse" /\ ~scl /\ host_ack
  /\ t_st' = "StretchTx" => \/ t_st \in {"TransmitWait", "StretchTx"}
                            \/ t_st = "StretchAddr" /\ t_rw_bit
  /\ t_st' = "StretchTxSetup" => (t_st = "StretchTx" /\ tx # <<>>) \/ t_st = "StretchTxSetup"
  /\ t_st' = "TransmitSetup" => \/ t_st = "TransmitWait" /\ tx # <<>>
                                \/ t_st = "StretchTxSetup"
                                \/ t_st = "TransmitSetup" /\ ~scl
                                \/ t_st = "TransmitHold" /\ pulses # ByteBits
  /\ t_st' = "TransmitPulse" => t_st \in {"TransmitSetup", "TransmitPulse"} /\ scl
  /\ t_st' = "TransmitHold" => t_st = "TransmitPulse" /\ ~scl
  /\ t_st' = "TransmitAck" => \/ t_st = "TransmitHold" /\ pulses = ByteBits
                              \/ t_st = "TransmitAck" /\ ~scl
  /\ t_st' = "TransmitAckPulse" => t_st \in {"TransmitAck", "TransmitAckPulse"} /\ scl
  /\ t_st' = "WaitForStop" => \/ t_st = "WaitForStop" \/ t_nack_transaction'
                              \/ t_st = "AddrRead" /\ ~hit
                              \/ t_st = "TransmitAckPulse" /\ ~scl /\ ~host_ack
  /\ t_st' \in T!Stretching =>
       \/ t_st \in T!Stretching
       \/ t_st \in {"AddrAckWait", "AcquireAckWait", "TransmitWait", "AddrAckHold"}
  /\ ~m_stop_pending /\ ~m_start_pending =>
       /\ t_st \in {"AddrAckSetup", "AcquireAckSetup"} \cup AckPulses => t_st' \in T!AckStates
       /\ t_st = "TransmitSetup" => t_st' \in {"TransmitSetup", "TransmitPulse"}
       /\ t_st = "TransmitPulse" => t_st' \in {"TransmitPulse", "TransmitHold"}
       /\ t_st = "AcquireStart" => t_st' = IF scl THEN "AcquireStart" ELSE "AddrRead"
       /\ t_st = "AddrRead" /\ pulses < ByteBits => t_st' = "AddrRead"
       /\ t_st \in {"Idle", "WaitForStop"} => t_st' = t_st

\* What its registers keep of that.
Registers ==
  /\ t_bit_idx' = IF m_start_pending \/ (scl_q /\ ~scl /\ (t_st = "AcquireStart" \/ pulses = ByteBits))
                  THEN 0 ELSE IF scl_q /\ ~scl THEN pulses + 1 ELSE pulses
  /\ t_st' \in {"AddrAckWait", "AcquireAckWait", "TransmitHold"} \cup AckHolds => t_tcount' = 1
  /\ t_rw_bit' = IF hit THEN input_byte % 2 = 1 ELSE t_rw_bit
  /\ t_xfer_for_us' = (hit \/ (t_st \notin {"Idle", "AcquireStart"} /\ t_xfer_for_us))
  /\ t_st # "Idle" /\ t_nack_transaction => t_nack_transaction'
  /\ t_nack_transaction' \in BOOLEAN
  /\ input_byte' = IF t_st = "AcquireStart" /\ ~scl THEN 0
                   ELSE IF ~scl_q /\ scl /\ pulses # ByteBits THEN P!Shift(input_byte, P!sda)
                   ELSE input_byte
  /\ host_ack' = IF ~scl_q /\ scl /\ pulses = ByteBits THEN ~P!sda ELSE host_ack
  /\ tx' = IF t_st = "TransmitAckPulse" /\ ~scl /\ tx # <<>> THEN Tail(tx) ELSE tx
  /\ hit <=> t_st = "AddrRead" /\ pulses = ByteBits /\ address_match

\* A clock edge of the target goes along these paths.
LEMMA TargetTurn ==
  ASSUME Timing, P!IInv, Joint, TargetStep, MonitorStep
  PROVE  Path /\ Registers /\ t_st' \in T!States
<1>1. bus_event = IF m_stop_pending THEN "stop" ELSE IF m_start_pending THEN "start" ELSE None
  BY Detected DEF Joint
<1>2. /\ Types /\ SameBit /\ InTime /\ NoneAssumption /\ THold = 1
      /\ m_start_pending => ~m_stop_pending
  BY NoneAssumption DEF Joint, Timing, StartIsSeen, StopIsSeen
<1>3. hit <=> t_st = "AddrRead" /\ pulses = ByteBits /\ address_match
  BY <1>2 DEF hit, T!bit_ack, SameBit
<1>4. /\ m_stop_pending => t_st' = "Idle"
      /\ ~m_stop_pending /\ m_start_pending => t_st' = "AcquireStart"
      /\ ~m_stop_pending /\ ~m_start_pending => T!StateStep(hit, FALSE)
      /\ ~m_stop_pending /\ ~m_start_pending /\ t_st = "TransmitAckPulse" /\ ~scl =>
           t_st' = IF host_ack THEN "TransmitWait" ELSE "WaitForStop"
  <2>1. T!NextState(bus_event, hit, FALSE) /\ AckDecides
    BY DEF TargetStep
  <2> QED
    BY <1>1, <1>2, <2>1 DEF T!NextState, T!Disabled, T!StopSeen, AckDecides, NoneAssumption
<1>5. t_nack_transaction' = ((t_st # "Idle" /\ t_nack_transaction) \/ T!Nacks(FALSE))
  BY <1>1, <1>2 DEF TargetStep, T!Tracking, T!target_idle, NoneAssumption
<1>6. t_bit_idx = pulses
  BY <1>2 DEF SameBit
<1>7. ~T!stretch_tx => tx # <<>>
  BY DEF T!stretch_tx
<1>8. /\ t_st \in {"AddrAckWait", "AcquireAckWait", "TransmitHold"} \cup AckHolds => t_tcount = 1
      /\ t_st \in {"AddrAckWait", "AcquireAckWait"} \cup T!Stretching => ~scl
      /\ pulses \in 0 .. ByteBits /\ ByteBits \in Nat
  BY <1>2, PartsAssumption DEF InTime, P!IInv, P!TypeOK, Middle
<1>9. Path /\ t_st' \in T!States
  <2>1. CASE ~m_stop_pending /\ ~m_start_pending
    <3>1. t_st \in T!States /\ T!StateStep(hit, FALSE)
      BY <1>2, <1>4, <2>1 DEF Types
    <3> USE <1>3, <1>4, <1>5, <1>6, <1>7, <1>8, <2>1
        DEF T!Nacks, T!bit_ack, Path, AddrAck, AcquireAck, AckHolds, AckPulses, T!Stretching,
            T!States,
            T!AckStates, T!TransmitStates
    <3>2. CASE T!Idle
      BY <3>2 DEF T!Idle
    <3>3. CASE T!AcquireStart
      BY <3>3 DEF T!AcquireStart
    <3>4. CASE T!AddrRead(hit)
      BY <3>4 DEF T!AddrRead
    <3>5. CASE T!AddrAckWait
      BY <3>5 DEF T!AddrAckWait
    <3>6. CASE T!AddrAckSetup
      BY <3>6 DEF T!AddrAckSetup
    <3>7. CASE T!AddrAckPulse
      BY <3>7 DEF T!AddrAckPulse
    <3>8. CASE T!AddrAckHold
      BY <3>8 DEF T!AddrAckHold
    <3>9. CASE T!TransmitWait
      BY <3>9 DEF T!TransmitWait
    <3>10. CASE T!TransmitSetup
      BY <3>10 DEF T!TransmitSetup
    <3>11. CASE T!TransmitPulse
      BY <3>11 DEF T!TransmitPulse
    <3>12. CASE T!TransmitHold
      BY <3>12 DEF T!TransmitHold
    <3>13. CASE T!TransmitAck
      BY <3>13 DEF T!TransmitAck
    <3>14. CASE T!TransmitAckPulse
      BY <3>14 DEF T!TransmitAckPulse
    <3>15. CASE T!WaitForStop
      BY <3>15 DEF T!WaitForStop
    <3>16. CASE T!AcquireByte
      BY <3>16 DEF T!AcquireByte
    <3>17. CASE T!AcquireAckWait
      BY <3>17 DEF T!AcquireAckWait
    <3>18. CASE T!AcquireAckSetup
      BY <3>18 DEF T!AcquireAckSetup
    <3>19. CASE T!AcquireAckPulse
      BY <3>19 DEF T!AcquireAckPulse
    <3>20. CASE T!AcquireAckHold
      BY <3>20 DEF T!AcquireAckHold
    <3>21. CASE T!StretchAddrAck
      BY <3>21 DEF T!StretchAddrAck
    <3>22. CASE T!StretchAddrAckSetup
      BY <3>22 DEF T!StretchAddrAckSetup
    <3>23. CASE T!StretchAddr
      BY <3>23 DEF T!StretchAddr
    <3>24. CASE T!StretchTx
      BY <3>24 DEF T!StretchTx
    <3>25. CASE T!StretchTxSetup
      BY <3>25 DEF T!StretchTxSetup
    <3>26. CASE T!StretchAcqFull(FALSE)
      BY <3>26 DEF T!StretchAcqFull
    <3>27. CASE T!StretchAcqSetup
      BY <3>27 DEF T!StretchAcqSetup
    <3> QED
      BY <3>1, <3>2, <3>3, <3>4, <3>5, <3>6, <3>7, <3>8, <3>9, <3>10,
         <3>11, <3>12, <3>13, <3>14, <3>15, <3>16, <3>17, <3>18, <3>19,
         <3>20, <3>21, <3>22, <3>23, <3>24, <3>25, <3>26, <3>27, Zenon DEF T!StateStep
  <2>2. CASE m_stop_pending
    BY <1>2, <1>4, <2>2 DEF Path, AddrAck, AcquireAck, T!States, T!Stretching
  <2>3. CASE ~m_stop_pending /\ m_start_pending
    BY <1>4, <2>3 DEF Path, AddrAck, AcquireAck, T!States, T!Stretching
  <2> QED
    BY <2>1, <2>2, <2>3
<1>10. Registers
  <2>1. t_bit_idx' = IF m_start_pending \/ (scl_q /\ ~scl /\ (t_st = "AcquireStart" \/ pulses = ByteBits))
                     THEN 0 ELSE IF scl_q /\ ~scl THEN pulses + 1 ELSE pulses
    BY <1>1, <1>2, <1>6 DEF TargetStep, T!Counters, T!NextBit, T!Fall, T!bit_ack, NoneAssumption
  <2>2. t_st' \in {"AddrAckWait", "AcquireAckWait", "TransmitHold"} \cup AckHolds => t_tcount' = 1
    <3>1. t_st' \in {"AddrAckWait", "AcquireAckWait", "TransmitHold"} \cup AckHolds => T!LoadHold(hit)
      BY <1>3, <1>6, <1>9 DEF Path, T!LoadHold, T!bit_ack, AddrAck, AcquireAck, AckHolds
    <3> QED
      BY <1>2, <3>1 DEF TargetStep, T!Counters
  <2>3. /\ t_rw_bit' = IF hit THEN input_byte % 2 = 1 ELSE t_rw_bit
        /\ t_xfer_for_us' = (hit \/ (t_st \notin {"Idle", "AcquireStart"} /\ t_xfer_for_us))
    BY DEF TargetStep, T!Tracking, T!target_idle
  <2>4. t_nack_transaction' \in BOOLEAN /\ (t_st # "Idle" /\ t_nack_transaction => t_nack_transaction')
    BY <1>5
  <2>5. /\ input_byte' = IF t_st = "AcquireStart" /\ ~scl THEN 0
                         ELSE IF ~scl_q /\ scl /\ pulses # ByteBits THEN P!Shift(input_byte, P!sda)
                         ELSE input_byte
        /\ host_ack' = IF ~scl_q /\ scl /\ pulses = ByteBits THEN ~P!sda ELSE host_ack
        /\ tx' = IF t_st = "TransmitAckPulse" /\ ~scl /\ tx # <<>> THEN Tail(tx) ELSE tx
    BY <1>6, Same DEF TargetStep, TargetData, T!bit_ack, sda
  <2> QED
    BY <1>3, <2>1, <2>2, <2>3, <2>4, <2>5 DEF Registers
<1> QED
  BY <1>9, <1>10

\* What the lemmas before say of an edge.
LEMMA EdgeFacts ==
  ASSUME Timing, P!IInv, Joint, NEW done \in BOOLEAN, NEW free \in BOOLEAN, JointEdge(done, free)
  PROVE  /\ Turn(done, free) /\ Path /\ Registers /\ t_st' \in T!States /\ Program'
         /\ Early => Middle'
         /\ Middle => ~scl'
         /\ scl_q /\ ~scl => st \in P!SclFalls /\ Early'
         /\ ~scl_q /\ scl => st' = st /\ st \in P!SclRises \cup {"SetupStart"}
         /\ ~scl /\ st \in P!SclRises => st' = st
         /\ m_start_pending' = P!StartSeen /\ m_stop_pending' = P!StopSeen
         /\ P!StartSeen \/ P!StopSeen => m_det_count' = 1
         /\ P!StartSeen <=> st = "HoldStart" /\ sda_q /\ ~P!sda
         /\ P!StopSeen <=> st = "HoldStop" /\ P!sda
<1>1. P!QuietEdge(done, free) /\ reads' = reads /\ TargetStep /\ MonitorStep
  BY DEF JointEdge
<1>2. Program /\ Types /\ StartIsSeen /\ StopIsSeen
  BY DEF Joint
<1>3. Turn(done, free) /\ Program'
  BY <1>1, <1>2, TurnHolds, ProgramStep
<1>4. Path /\ Registers /\ t_st' \in T!States
  BY <1>1, TargetTurn
<1>5. /\ m_start_pending' = P!StartSeen /\ m_stop_pending' = P!StopSeen
      /\ P!StartSeen \/ P!StopSeen => m_det_count' = 1
  BY <1>1, <1>2, Detected
<1>6. /\ P!StartSeen <=> st = "HoldStart" /\ sda_q /\ ~P!sda
      /\ P!StopSeen <=> st = "HoldStop" /\ P!sda
  BY ControllerAssumptions, P!Symbols
<1> QED
  BY <1>1, <1>3, <1>4, <1>5, <1>6, Ahead

\* The types.
LEMMA TypesStep ==
  ASSUME Timing, P!IInv, Joint, NEW done \in BOOLEAN, NEW free \in BOOLEAN, JointEdge(done, free)
  PROVE  Types'
<1>1. Types /\ Registers /\ t_st' \in T!States /\ reads' = reads
      /\ m_start_pending' = P!StartSeen /\ m_stop_pending' = P!StopSeen
  BY EdgeFacts DEF Joint, JointEdge
<1>2. P!StartSeen \in BOOLEAN /\ P!StopSeen \in BOOLEAN /\ P!sda \in BOOLEAN /\ hit \in BOOLEAN
  BY DEF P!StartSeen, P!StopSeen, P!sda, hit
<1>3. input_byte' \in P!Bytes
  <2>1. 0 \in 0 .. ByteBits - 1 /\ 2^ByteBits \in Nat /\ 2^ByteBits >= 1
    BY PartsAssumption, ControllerAssumptions, P!PowerIsNat
  <2>2. P!Shift(input_byte, P!sda) \in P!Bytes
    BY <1>1, <1>2, <2>1, ControllerAssumptions, P!ShiftBits DEF Types
  <2>3. 0 \in P!Bytes
    BY <2>1 DEF P!Bytes
  <2> QED
    BY <1>1, <2>2, <2>3 DEF Registers, Types
<1>4. tx' \in Seq(P!Bytes)
  BY <1>1, HeadTailProperties DEF Registers, Types
<1>5. t_rw_bit' \in BOOLEAN /\ t_xfer_for_us' \in BOOLEAN /\ t_nack_transaction' \in BOOLEAN
      /\ host_ack' \in BOOLEAN
  BY <1>1, <1>2 DEF Registers, Types
<1> QED
  BY <1>1, <1>2, <1>3, <1>4, <1>5 DEF Types

\* The two counts of bits.
LEMMA SameBitStep ==
  ASSUME Timing, P!IInv, Joint, NEW done \in BOOLEAN, NEW free \in BOOLEAN, JointEdge(done, free)
  PROVE  SameBit'
<1>1. /\ SameBit /\ StartIsSeen /\ StopIsSeen /\ Registers /\ Turn(done, free)
      /\ scl_q /\ ~scl => st \in P!SclFalls
  BY EdgeFacts DEF Joint
<1>2. /\ t_bit_idx' = IF m_start_pending \/ (scl_q /\ ~scl /\ (t_st = "AcquireStart" \/ pulses = ByteBits))
                      THEN 0 ELSE IF scl_q /\ ~scl THEN pulses + 1 ELSE pulses
      /\ pulses' = IF st \in P!SclFalls \ {"ClockStart"} /\ scl_q /\ ~scl
                   THEN IF pulses = ByteBits THEN 0 ELSE pulses + 1
                   ELSE pulses
      /\ st \in {"HoldStart", "ClockStart"} => pulses = 0
  BY <1>1 DEF Registers, Turn, P!BitCount, P!Starting
<1>3. /\ m_start_pending => st \in {"HoldStart", "ClockStart"}
      /\ t_st = "AcquireStart" => st \in {"HoldStart", "ClockStart"}
      /\ st = "ClockStart" /\ scl_q => m_start_pending \/ t_st = "AcquireStart"
  BY <1>1 DEF StartIsSeen
<1> QED
  BY <1>1, <1>2, <1>3 DEF SameBit, P!SclFalls

\* From START on the bus until the target has seen it.
LEMMA StartIsSeenStep ==
  ASSUME Timing, P!IInv, Joint, NEW done \in BOOLEAN, NEW free \in BOOLEAN, JointEdge(done, free)
  PROVE  StartIsSeen'
<1>1. /\ SameBit /\ StartIsSeen /\ StopIsSeen /\ InTime /\ Path /\ t_st' \in T!States
      /\ m_start_pending' = P!StartSeen
      /\ P!StartSeen => m_det_count' = 1
      /\ P!StartSeen <=> st = "HoldStart" /\ sda_q /\ ~P!sda
      /\ P!StopSeen <=> st = "HoldStop" /\ P!sda
  BY EdgeFacts DEF Joint
<1>2. /\ P!Clock /\ P!DataLine /\ P!Moves(done, free) /\ (done => ~loaded)
      /\ scl_q' = scl /\ sda_q' = P!sda /\ (scl /\ P!scl_o => scl')
      /\ scl \in BOOLEAN /\ scl_q \in BOOLEAN /\ pulses \in 0 .. ByteBits /\ ByteBits >= 1
      /\ st \in {"HoldStart", "ClockStart"} => pulses = 0
      /\ st \in P!States /\ sda_q \in BOOLEAN
  BY PartsAssumption DEF JointEdge, P!QuietEdge, P!IInv, P!TypeOK, P!lines, P!BitCount, P!Starting
<1>3. open' <=> P!StartSeen \/ (open /\ ~P!StopSeen)
  BY <1>1, EdgeFacts DEF Turn
<1>4. st \in {"HoldStart", "ClockStart"} =>
        /\ ~sda_q => ~P!sda
        /\ scl => st' \in {"HoldStart", "ClockStart"}
  BY <1>2 DEF P!Clock, P!DataLine, P!Moves, P!Timed, P!Goto, P!Stay, P!SclFalls, P!sda,
     P!Idle, P!Active, P!PopFmtFifo
<1>5. /\ st' = "HoldStart" => st \in {"SetupStart", "HoldStart"}
      /\ st' = "ClockStart" => st \in {"HoldStart", "ClockStart"}
      /\ st = "HoldStart" /\ st' = "ClockStart" => ~P!sda
  BY <1>2 DEF P!Moves, P!Timed, P!Goto, P!Stay, P!Idle, P!Active, P!PopFmtFifo, P!AutoStopNow,
     P!EntryDone, P!DataLine, P!sda
<1>6. st = "SetupStart" => P!sda
  BY <1>2 DEF P!DataLine, P!Driving, P!sda
<1>7. st = "HoldStart" => scl /\ scl' /\ st' \in {"HoldStart", "ClockStart"}
  BY <1>2, <1>4 DEF P!Clock, P!scl_o
<1>8. m_start_pending' => /\ st' \in {"HoldStart", "ClockStart"} /\ m_det_count' = 1
                          /\ open' /\ scl' /\ ~sda_q' /\ t_st' # "AcquireStart"
  <2> SUFFICES ASSUME P!StartSeen
               PROVE  /\ st' \in {"HoldStart", "ClockStart"} /\ m_det_count' = 1
                      /\ open' /\ scl' /\ ~sda_q' /\ t_st' # "AcquireStart"
    BY <1>1
  <2>1. ~m_start_pending /\ t_st # "AcquireStart"
    BY <1>1 DEF StartIsSeen
  <2> QED
    BY <1>1, <1>2, <1>3, <1>7, <2>1 DEF Path
<1>9. t_st' = "AcquireStart" =>
        st' \in {"HoldStart", "ClockStart"} /\ open' /\ scl_q' /\ ~sda_q'
  <2> SUFFICES ASSUME t_st' = "AcquireStart"
               PROVE  st' \in {"HoldStart", "ClockStart"} /\ open' /\ scl_q' /\ ~sda_q'
    OBVIOUS
  <2>1. scl /\ open /\ st \in {"HoldStart", "ClockStart"} /\ ~sda_q
    BY <1>1 DEF Path, StartIsSeen
  <2> QED
    BY <1>1, <1>2, <1>3, <1>4, <2>1
<1>10. st = "HoldStart" /\ ~P!sda => m_start_pending' \/ t_st' = "AcquireStart"
  <2> SUFFICES ASSUME st = "HoldStart", ~P!sda, ~sda_q
               PROVE  t_st' = "AcquireStart"
    BY <1>1
  <2>1. m_start_pending \/ t_st = "AcquireStart"
    BY <1>1 DEF StartIsSeen
  <2>2. ~m_stop_pending /\ scl
    BY <1>1, <1>7 DEF StopIsSeen
  <2>3. m_start_pending => t_st' = "AcquireStart"
    BY <1>1, <2>2 DEF Path
  <2>4. ~m_start_pending /\ t_st = "AcquireStart" => t_st' = "AcquireStart"
    BY <1>1, <2>2 DEF Path
  <2> QED
    BY <2>1, <2>3, <2>4
<1>11. st' = "HoldStart" /\ ~sda_q' => m_start_pending' \/ t_st' = "AcquireStart"
  BY <1>2, <1>5, <1>6, <1>10
<1>12. st' = "ClockStart" => \/ m_start_pending' \/ t_st' = "AcquireStart"
                             \/ t_st' = "AddrRead" /\ ~scl_q'
  <2>1. CASE st' = "ClockStart" /\ st = "HoldStart"
    BY <1>5, <1>10, <2>1
  <2>2. CASE st' = "ClockStart" /\ st = "ClockStart"
    <3>1. ~m_stop_pending
      BY <1>1, <2>2 DEF StopIsSeen
    <3>2. /\ m_start_pending \/ t_st = "AcquireStart" \/ (t_st = "AddrRead" /\ ~scl_q)
          /\ m_start_pending => scl
      BY <1>1, <2>2 DEF StartIsSeen
    <3>3. (scl => scl_q) /\ pulses < ByteBits
      BY <1>2, <2>2, PartsAssumption DEF P!Clock, P!SclFalls
    <3>4. CASE m_start_pending
      BY <1>1, <3>1, <3>4 DEF Path
    <3>5. CASE ~m_start_pending /\ t_st = "AcquireStart"
      BY <1>1, <1>2, <3>1, <3>5 DEF Path
    <3>6. CASE ~m_start_pending /\ t_st = "AddrRead" /\ ~scl_q
      BY <1>1, <1>2, <3>1, <3>3, <3>6 DEF Path
    <3> QED
      BY <3>2, <3>4, <3>5, <3>6
  <2> QED
    BY <1>5, <2>1, <2>2
<1>13. open' /\ t_st' = "Idle" => m_start_pending'
  BY <1>1, <1>3 DEF Path, StartIsSeen, StopIsSeen
<1> QED
  BY <1>8, <1>9, <1>11, <1>12, <1>13 DEF StartIsSeen

\* From STOP on the bus until the target has seen it.
LEMMA StopIsSeenStep ==
  ASSUME Timing, P!IInv, Joint, NEW done \in BOOLEAN, NEW free \in BOOLEAN, JointEdge(done, free)
  PROVE  StopIsSeen'
<1>1. /\ StartIsSeen /\ StopIsSeen /\ Path /\ t_st' \in T!States
      /\ m_start_pending' = P!StartSeen /\ m_stop_pending' = P!StopSeen
      /\ P!StopSeen => m_det_count' = 1
      /\ P!StartSeen <=> st = "HoldStart" /\ sda_q /\ ~P!sda
      /\ P!StopSeen <=> st = "HoldStop" /\ P!sda
  BY EdgeFacts DEF Joint
<1>2. /\ P!Moves(done, free)
      /\ trans_started' = IF trans_started /\ ~host_enable THEN FALSE
                          ELSE (st = "SetupStart" /\ done) \/ (trans_started /\ ~P!log_stop)
      /\ open' <=> P!StartSeen \/ (open /\ ~P!StopSeen)
  BY <1>1, EdgeFacts DEF Turn
<1>3. P!StopSeen => ~trans_started' /\ ~open' /\ st' \in {"Idle", "PopFmtFifo"}
  BY <1>1, <1>2 DEF P!Moves, P!log_stop, P!Idle, P!Active, P!PopFmtFifo
<1>4. ~open' => t_st' = "Idle" \/ m_stop_pending'
  <2> SUFFICES ASSUME ~open, t_st' # "Idle" PROVE FALSE
    BY <1>1, <1>2
  <2>1. t_st = "Idle" /\ ~m_start_pending
    BY <1>1 DEF StartIsSeen, StopIsSeen, Path
  <2> QED
    BY <1>1, <2>1 DEF Path
<1> QED
  BY <1>1, <1>3, <1>4 DEF StopIsSeen

\* When SCL rises for the acknowledge bit of a byte that the controller wrote, the
\* target is about to acknowledge it, or takes no part.
LEMMA AckMoment ==
  ASSUME P!IInv, Joint, st = "ClockPulseAck", ~scl_q, scl
  PROVE  t_st \in {"AddrAckSetup", "AcquireAckSetup", "WaitForStop"}
<1>1. /\ t_st \in T!States /\ StartIsSeen /\ InTime /\ Receives /\ Sends
      /\ open /\ pulses = ByteBits /\ ~Early /\ ~Middle
  BY DEF Joint, Types, P!IInv, P!Seen, P!BitCount, Early, Middle, P!SclRises, P!SclFalls, P!Pulses,
         P!Between
<1>2. t_st \notin {"Idle", "AcquireStart"}
  BY <1>1 DEF StartIsSeen
<1>3. t_st \notin AckPulses \cup AckHolds \cup {"AddrRead", "AcquireByte", "AddrAckWait",
        "AcquireAckWait", "TransmitWait", "TransmitHold", "TransmitPulse", "TransmitAckPulse"}
      /\ t_st \notin T!Stretching
  BY <1>1 DEF InTime
<1>4. t_st \notin {"TransmitSetup", "TransmitAck"}
  BY <1>1, PartsAssumption DEF Sends, SendSetup
<1> QED
  BY <1>1, <1>2, <1>3, <1>4
  DEF T!States, T!AckStates, T!TransmitStates, T!Stretching, AckPulses, AckHolds

\* After a NACK the target takes no part.
LEMMA NackIsSeenStep ==
  ASSUME Timing, P!IInv, Joint, NEW done \in BOOLEAN, NEW free \in BOOLEAN, JointEdge(done, free)
  PROVE  NackIsSeen'
<1>1. /\ StartIsSeen /\ NackIsSeen /\ InTime /\ Path /\ Turn(done, free)
      /\ P!Control /\ P!Halting
  BY EdgeFacts DEF Joint, P!IInv
<1>2. /\ nak_expired' => P!unhandled_nak /\ st = "Idle"
      /\ P!unhandled_nak' => P!unhandled_nak \/ (st = "ClockPulseAck" /\ ~scl_q /\ scl /\ P!sda)
  BY DEF JointEdge
<1>3. trans_started' => host_enable'
  BY <1>1 DEF Turn, NackIsSeen, P!Control, P!Stopping
<1>4. auto_stop' => auto_stop \/ (nak_expired /\ st = "Idle")
  <2>1. P!Moves(done, free) /\ (trans_started => host_enable)
    BY <1>1 DEF Turn, NackIsSeen
  <2> QED
    BY <2>1 DEF P!Moves, P!Timed, P!Goto, P!Stay, P!AutoStopNow, P!Idle, P!Active, P!PopFmtFifo
<1>5. ASSUME t_st \in {"WaitForStop", "Idle"}, st \notin {"HoldStart", "ClockStart"}
      PROVE  t_st' \in {"WaitForStop", "Idle"}
  BY <1>1, <1>5 DEF StartIsSeen, Path
<1>6. CASE st = "ClockPulseAck" /\ ~scl_q /\ scl /\ P!sda
  <2>1. t_st \notin T!AckStates
    <3>1. t_st \in T!AckStates => ~target_sda_o
      BY DEF target_sda_o, T!AckStates
    <3>2. target_sda_o <=> others
      BY <1>1, <1>6 DEF InTime
    <3>3. others
      BY <1>6 DEF P!sda
    <3> QED
      BY <3>1, <3>2, <3>3
  <2>2. t_st = "WaitForStop"
    BY <1>6, <2>1, AckMoment DEF T!AckStates
  <2> QED
    BY <1>3, <1>5, <1>6, <2>2 DEF NackIsSeen
<1>7. CASE P!unhandled_nak \/ (nak_expired /\ st = "Idle") \/ auto_stop
  <2>1. t_st \in {"WaitForStop", "Idle"} /\ st \notin {"HoldStart", "ClockStart"}
    BY <1>1, <1>7 DEF NackIsSeen, P!Halting, P!Control, P!Stopping
  <2> QED
    BY <1>3, <1>5, <2>1 DEF NackIsSeen
<1> QED
  BY <1>2, <1>3, <1>4, <1>6, <1>7 DEF NackIsSeen

\* What the target drives changes only while SCL is low.
LEMMA TargetKeepsSda ==
  ASSUME Timing, P!IInv, Joint, NEW done \in BOOLEAN, NEW free \in BOOLEAN, JointEdge(done, free),
         scl'
  PROVE  others' = target_sda_o'
<1>1. /\ StartIsSeen /\ StopIsSeen /\ SameBit /\ InTime /\ Receives /\ Sends
      /\ Path /\ Registers /\ t_st' \in T!States /\ t_st \in T!States
      /\ ~Middle /\ ~Early /\ ~(scl_q /\ ~scl)
  BY EdgeFacts DEF Joint, Types, Early, Middle
<1>2. /\ others' = target_sda_o /\ t_st \notin T!Stretching
      /\ P!Clock /\ P!DataLine /\ scl \in BOOLEAN /\ others \in BOOLEAN
  BY DEF JointEdge, T!scl_o, P!IInv, P!TypeOK, P!lines
<1>3. t_st \notin AckHolds \cup {"AddrAckWait", "AcquireAckWait", "TransmitWait", "TransmitHold"}
  BY <1>1 DEF InTime
<1>4. /\ t_st \in T!AckStates => target_sda_o = FALSE
      /\ t_st \in {"TransmitSetup", "StretchTxSetup"} => target_sda_o = tx_bit
      /\ t_st \notin T!AckStates \cup T!TransmitStates => target_sda_o = TRUE
      /\ t_st' \in T!AckStates => target_sda_o' = FALSE
      /\ t_st' \in {"TransmitSetup", "StretchTxSetup"} => target_sda_o' = tx_bit'
      /\ t_st' \in {"TransmitPulse", "TransmitHold"} => target_sda_o' = others'
      /\ t_st' \notin T!AckStates \cup T!TransmitStates => target_sda_o' = TRUE
  BY DEF target_sda_o, T!AckStates, T!TransmitStates
<1>5. CASE m_stop_pending
  <2>1. t_st' = "Idle" /\ others /\ scl
    BY <1>1, <1>2, <1>5 DEF Path, StopIsSeen, P!Clock, P!DataLine, P!Between
  <2>2. target_sda_o' /\ target_sda_o
    BY <1>1, <1>4, <2>1 DEF InTime, T!AckStates, T!TransmitStates
  <2> QED
    BY <1>2, <2>2
<1>6. CASE m_start_pending /\ ~m_stop_pending
  <2>1. t_st' = "AcquireStart" /\ st \in {"HoldStart", "ClockStart"} /\ ~Reading
    BY <1>1, <1>6 DEF Path, StartIsSeen, Reading, P!ReadBits
  <2>2. t_st \notin AddrAck \cup AcquireAck \cup AckPulses \cup AckHolds
                    \cup SendSetup \cup {"TransmitPulse"}
    BY <1>1, <2>1 DEF Receives, Sends
  <2>3. t_st \notin T!AckStates \cup T!TransmitStates
    BY <1>3, <2>2
    DEF T!AckStates, T!TransmitStates, AddrAck, AcquireAck, AckPulses, AckHolds, SendSetup
  <2>4. target_sda_o' /\ target_sda_o
    BY <1>4, <2>1, <2>3 DEF T!AckStates, T!TransmitStates
  <2> QED
    BY <1>2, <2>4
<1>7. CASE ~m_start_pending /\ ~m_stop_pending
  <2>1. CASE t_st' \in {"TransmitPulse", "TransmitHold"}
    BY <1>4, <2>1
  <2>2. CASE t_st' \in T!AckStates
    <3>1. t_st \in T!AckStates
      BY <1>1, <1>2, <1>3, <2>2
      DEF Path, AddrAck, AcquireAck, AckPulses, AckHolds, T!AckStates, T!Stretching, InTime
    <3> QED
      BY <1>2, <1>4, <2>2, <3>1
  <2>3. CASE t_st' \in {"TransmitSetup", "StretchTxSetup"}
    <3>1. t_st = "TransmitSetup" /\ ~scl
      BY <1>1, <1>2, <1>3, <2>3 DEF Path, T!Stretching
    <3>2. tx' = tx /\ t_bit_idx' = t_bit_idx
      BY <1>1, <1>7, <3>1 DEF Registers, SameBit
    <3>3. tx_bit' = tx_bit
      BY <3>2 DEF tx_bit
    <3> QED
      BY <1>2, <1>4, <2>3, <3>1, <3>3
  <2>4. CASE t_st' \notin T!AckStates \cup T!TransmitStates
    <3>1. t_st \notin T!AckStates \cup T!TransmitStates
      BY <1>1, <1>2, <1>3, <1>7, <2>4
      DEF Path, T!AckStates, T!TransmitStates, T!Stretching, AckPulses, AckHolds
    <3> QED
      BY <1>2, <1>4, <2>4, <3>1
  <2> QED
    BY <2>1, <2>2, <2>3, <2>4 DEF T!TransmitStates
<1> QED
  BY <1>5, <1>6, <1>7

\* How long the target has for what it does while SCL is low.
LEMMA InTimeStep ==
  ASSUME Timing, P!IInv, Joint, NEW done \in BOOLEAN, NEW free \in BOOLEAN, JointEdge(done, free)
  PROVE  InTime'
<1>1. /\ InTime /\ Receives /\ Path /\ Registers
      /\ Early => Middle'
      /\ Middle => ~scl'
      /\ scl_q /\ ~scl => Early'
  BY EdgeFacts DEF Joint
<1>2. /\ scl_q' = scl /\ sda_q' = P!sda /\ scl \in BOOLEAN /\ scl_q \in BOOLEAN
      /\ (t_st \in T!Stretching => ~scl')
      /\ StartIsSeen
      /\ pulses \in 0 .. ByteBits /\ ByteBits \in Nat /\ ByteBits >= 1
  BY PartsAssumption DEF Joint, JointEdge, P!QuietEdge, T!scl_o, P!IInv, P!TypeOK, P!lines
<1>3. pulses' = pulses \/ (scl_q /\ ~scl)
  BY EdgeFacts DEF Turn
<1>4. t_st' \in {"AddrRead", "AcquireByte"} /\ pulses' = ByteBits => Early'
  BY <1>1, <1>2, <1>3 DEF Path, InTime, Receives, StartIsSeen, AckHolds
<1>5. t_st' \in {"AddrAckWait", "AcquireAckWait"} => Middle' /\ t_tcount' = 1
  BY <1>1 DEF Path, InTime, Registers, AddrAck, AcquireAck
<1>6. t_st' = "TransmitWait" => Middle'
  BY <1>1 DEF Path, InTime, AckHolds, Early
<1>7. t_st' \in AckHolds \cup {"TransmitHold"} => Early' /\ ~scl_q' /\ t_tcount' = 1
  BY <1>1, <1>2 DEF Path, InTime, Registers, AckHolds, AckPulses
<1>8. t_st' \in T!Stretching => ~scl'
  BY <1>1, <1>2 DEF Path, InTime, AckHolds, Early, Middle
<1>9. t_st' \in AddrAck \cup AcquireAck \cup SendSetup \cup {"TransmitAck", "StretchAddr"} => ~scl_q'
  BY <1>1, <1>2
  DEF Path, InTime, AddrAck, AcquireAck, SendSetup, AckHolds, Early, Middle, T!Stretching
<1>10. t_st' \in AckPulses \cup {"TransmitPulse", "TransmitAckPulse"} => scl_q'
  BY <1>1, <1>2 DEF Path, AckPulses
<1>11. t_st' \in AckPulses => ~sda_q'
  <2> SUFFICES ASSUME t_st' \in AckPulses PROVE ~P!sda
    BY <1>2
  <2>1. scl /\ t_st \in T!AckStates
    BY <1>1 DEF Path, AckPulses, T!AckStates
  <2>2. ~target_sda_o /\ others = target_sda_o
    BY <1>1, <2>1 DEF target_sda_o, T!AckStates, InTime
  <2> QED
    BY <2>2 DEF P!sda
<1>12. scl' => others' = target_sda_o'
  BY TargetKeepsSda
<1> QED
  BY <1>4, <1>5, <1>6, <1>7, <1>8, <1>9, <1>10, <1>11, <1>12 DEF InTime

\* After the address of this target with R/W = 1 software lets it send a byte: a STOP
\* there is driven against a target that may send zeros.
Software == \A e \in Entries : e.start /\ e.stop => e.fbyte # 2 * Address + 1

\* The address that the target recognises is the one that the controller sent.
LEMMA AddressArrives ==
  ASSUME Software, P!IInv, SameData, pulses = ByteBits, st \in {"HoldBit", "ClockLowAck"}
  PROVE  /\ input_byte = P!Top.fbyte
         /\ address_match /\ P!Top.start /\ input_byte % 2 = 1 => ~P!Top.stop
<1>1. P!Top \in Entries /\ P!Top.fbyte \in P!Bytes
  <2>1. P!Top \in Entries
    BY ControllerAssumptions, P!TopFacts DEF P!IInv, P!Control, P!Stopping
  <2> QED
    BY <2>1, ControllerAssumptions, P!EntryFacts
<1>2. word \in P!Bytes /\ input_byte = word
  BY DEF P!IInv, P!TypeOK, SameData
<1>3. word = P!Top.fbyte
  <2>1. CASE st = "ClockLowAck"
    BY <2>1 DEF P!IInv, P!WordCount, P!WriteAck
  <2>2. CASE st = "HoldBit"
    <3>1. word % 2^ByteBits = P!Top.fbyte \div 2^(ByteBits - ByteBits)
      BY <2>2 DEF P!IInv, P!WordCount, P!WriteBits
    <3>2. ByteBits - ByteBits = 0
      BY PartsAssumption
    <3>3. word % 2^ByteBits = word /\ P!Top.fbyte \div 2^0 = P!Top.fbyte
      BY <1>1, <1>2, ControllerAssumptions, P!WholeByte
    <3> QED
      BY <3>1, <3>2, <3>3
  <2> QED
    BY <2>1, <2>2
<1>4. address_match /\ input_byte % 2 = 1 => input_byte = 2 * Address + 1
  <2>1. input_byte \in Int
    BY <1>1, <1>2, <1>3, PartsAssumption, ControllerAssumptions, P!PowerIsNat DEF P!Bytes
  <2>2. input_byte = (input_byte \div 2) * 2 + (input_byte % 2) /\ input_byte \div 2 \in Int
    BY <2>1, P!DivMod
  <2> QED
    BY <2>2 DEF address_match
<1> QED
  BY <1>1, <1>2, <1>3, <1>4 DEF Software

\* Where the controller is when the target receives an address or a byte.
LEMMA ReceivesStep ==
  ASSUME Timing, Software, P!IInv, Joint,
         NEW done \in BOOLEAN, NEW free \in BOOLEAN, JointEdge(done, free)
  PROVE  Receives'
<1>1. /\ Receives /\ InTime /\ StartIsSeen /\ StopIsSeen /\ NackIsSeen /\ SameData /\ Path /\ Registers
      /\ P!Control /\ P!BitCount /\ P!Clock
  BY EdgeFacts DEF Joint, P!IInv
<1>2. /\ pulses \in 0 .. ByteBits /\ ByteBits \in Nat /\ ByteBits >= 1 /\ scl_q' = scl
      /\ pulses' \in 0 .. ByteBits
      /\ scl \in BOOLEAN /\ scl_q \in BOOLEAN
      /\ pulses' = pulses \/ (scl_q /\ ~scl)
      /\ st # "PopFmtFifo" => P!Top' = P!Top
      /\ Early => ~scl
      /\ hit <=> t_st = "AddrRead" /\ pulses = ByteBits /\ address_match
      /\ t_rw_bit' = IF hit THEN input_byte % 2 = 1 ELSE t_rw_bit
      /\ t_xfer_for_us' = (hit \/ (t_st \notin {"Idle", "AcquireStart"} /\ t_xfer_for_us))
      /\ Turn(done, free)
  <2>1. Turn(done, free)
    BY EdgeFacts
  <2>2. /\ pulses \in 0 .. ByteBits /\ ByteBits \in Nat /\ ByteBits >= 1 /\ scl_q' = scl
        /\ scl \in BOOLEAN /\ scl_q \in BOOLEAN
        /\ st # "PopFmtFifo" => P!Top' = P!Top
        /\ pulses' = IF st \in P!SclFalls \ {"ClockStart"} /\ scl_q /\ ~scl
                     THEN IF pulses = ByteBits THEN 0 ELSE pulses + 1
                     ELSE pulses
    BY <2>1 DEF Turn
  <2> QED
    BY <1>1, <2>1, <2>2 DEF Registers, Early, Middle
<1>3. st' \in P!Starting \/ pend_restart' => P!Top'.start
  BY <1>1, <1>2, RestartsOn DEF Receives
\* An address.
<1>4. t_st' = "AddrRead" =>
       /\ P!Top'.start /\ ~t_xfer_for_us'
       /\ IF pulses' = ByteBits THEN st' \in {"HoldBit", "ClockLowAck"}
                                ELSE st' \in P!WriteBits \cup {"ClockStart"} /\ ~pend_restart'
  <2> SUFFICES ASSUME t_st' = "AddrRead"
               PROVE  /\ P!Top'.start /\ ~t_xfer_for_us'
                      /\ IF pulses' = ByteBits THEN st' \in {"HoldBit", "ClockLowAck"}
                         ELSE st' \in P!WriteBits \cup {"ClockStart"} /\ ~pend_restart'
    OBVIOUS
  <2>1. /\ pulses < ByteBits /\ st \in P!WriteBits \cup {"ClockStart"} /\ ~pend_restart
        /\ P!Top.start /\ ~t_xfer_for_us'
    <3>1. CASE t_st = "AcquireStart" /\ ~scl
      <4>1. st = "ClockStart"
        BY <1>1, <3>1 DEF StartIsSeen, P!Clock
      <4> QED
        BY <1>1, <1>2, <3>1, <4>1 DEF Receives, P!BitCount, P!Starting, P!Control
    <3>2. CASE t_st = "AddrRead" /\ pulses < ByteBits
      <4>1. /\ P!Top.start /\ ~t_xfer_for_us /\ pulses # ByteBits
            /\ st \in P!WriteBits \cup {"ClockStart"} /\ ~pend_restart
        BY <1>1, <1>2, <3>2 DEF Receives
      <4>2. ~hit
        BY <1>2, <4>1
      <4> QED
        BY <1>2, <3>2, <4>1, <4>2
    <3> QED
      BY <1>1, <3>1, <3>2 DEF Path
  <2>2. /\ IF pulses' = ByteBits THEN st' \in {"HoldBit", "ClockLowAck"}
           ELSE st' \in P!WriteBits \cup {"ClockStart"}
        /\ ~pend_restart'
    BY <1>2, <2>1, WriteBitsOn
  <2> QED
    BY <1>2, <2>1, <2>2 DEF P!WriteBits
\* A byte.
<1>5. ASSUME pulses < ByteBits, Writing, ~auto_stop
      PROVE  IF pulses' = ByteBits THEN st' \in {"HoldBit", "ClockLowAck"} ELSE Writing'
  <2>1. CASE st \in P!WriteBits \cup {"ClockStart"}
    <3>1. IF pulses' = ByteBits THEN st' \in {"HoldBit", "ClockLowAck"}
          ELSE st' \in P!WriteBits \cup {"ClockStart"} \/ st' = "SetupStart"
      BY <1>2, <1>5, <2>1, WriteBitsOn
    <3> QED
      BY <3>1 DEF Writing, P!Starting
  <2>2. CASE st \notin P!WriteBits \cup {"ClockStart"}
    <3>1. Writing' /\ pulses' < ByteBits
      BY <1>2, <1>5, <2>2, WritingOn, WriteBitsOn
    <3> QED
      BY <1>2, <3>1
  <2> QED
    BY <2>1, <2>2
<1>6. t_st' = "AcquireByte" =>
        IF pulses' = ByteBits THEN st' \in {"HoldBit", "ClockLowAck"} ELSE Writing'
  <2> SUFFICES ASSUME t_st' = "AcquireByte" PROVE pulses < ByteBits /\ Writing /\ ~auto_stop
    BY <1>5
  <2>1. \/ t_st = "AcquireByte" /\ pulses < ByteBits
        \/ t_st = "AcquireAckHold"
        \/ t_st \in {"AddrAckHold", "StretchAddr"} /\ ~t_rw_bit
    BY <1>1 DEF Path
  <2> QED
    BY <1>1, <1>2, <2>1 DEF Receives, NackIsSeen, AckHolds
\* Its acknowledge bit.
<1>7. t_st' \in AddrAck \cup AcquireAck =>
        pulses' = ByteBits /\ st' \in {"HoldBit", "ClockLowAck", "ClockPulseAck"}
  <2> SUFFICES ASSUME t_st' \in AddrAck \cup AcquireAck
               PROVE  pulses' = ByteBits /\ st' \in {"HoldBit", "ClockLowAck", "ClockPulseAck"}
    OBVIOUS
  <2>1. \/ pulses = ByteBits /\ st \in {"HoldBit", "ClockLowAck"}
        \/ pulses = ByteBits /\ st = "ClockPulseAck" /\ ~scl_q
    BY <1>1, <1>2 DEF Path, Receives, InTime
  <2> QED
    BY <1>2, <2>1, WriteAcks
<1>8. t_st' \in AckPulses => pulses' = ByteBits /\ st' \in {"ClockPulseAck", "HoldDevAck"}
  <2> SUFFICES ASSUME t_st' \in AckPulses
               PROVE  pulses' = ByteBits /\ st' \in {"ClockPulseAck", "HoldDevAck"}
    OBVIOUS
  <2>1. /\ pulses = ByteBits /\ scl
        /\ \/ ~scl_q /\ st \in {"HoldBit", "ClockLowAck", "ClockPulseAck"}
           \/ scl_q /\ st \in {"ClockPulseAck", "HoldDevAck"}
    BY <1>1 DEF Path, Receives, InTime, AckPulses, AddrAck, AcquireAck
  <2> QED
    BY <1>2, <2>1, WriteAcks
<1>9. ASSUME t_st' \in AckHolds
      PROVE  /\ t_st \in AckPulses /\ st = "HoldDevAck"
             /\ pulses' = 0 /\ st' \in {"HoldDevAck", "ClockStop", "PopFmtFifo"}
             /\ ~P!Top.stop /\ NextReads => Reading'
             /\ P!Top.stop \/ ~NextReads => Writing'
             /\ ~P!Top.stop => (NextReads <=> P!Top.start /\ AsksRead(P!Top))
             /\ P!Top.stop \in BOOLEAN
  <2>1. t_st \in AckPulses /\ ~scl /\ scl_q /\ st \in {"ClockPulseAck", "HoldDevAck"}
    BY <1>1, <1>9 DEF Path, Receives, InTime, AckPulses, AckHolds
  <2>2. /\ st = "HoldDevAck" /\ pulses' = 0 /\ st' \in {"HoldDevAck", "ClockStop", "PopFmtFifo"}
        /\ ~P!Top.stop /\ NextReads => Reading'
        /\ P!Top.stop \/ ~NextReads => Writing'
    BY <1>2, <2>1, WriteAcks
  <2>3. ~auto_stop /\ ~P!Top.read
    BY <1>1, <2>2 DEF P!Control, P!Stopping, P!WriteAck
  <2>4. ~P!Top.stop => (NextReads <=> P!Top.start /\ AsksRead(P!Top))
    BY <1>2, <2>2, <2>3 DEF Turn
  <2>5. P!Top.stop \in BOOLEAN
    BY ControllerAssumptions, P!TopFacts
  <2> QED
    BY <2>1, <2>2, <2>4, <2>5
<1>10. t_st' = "AcquireAckHold" => Writing'
  <2> SUFFICES ASSUME t_st' = "AcquireAckHold" PROVE Writing'
    OBVIOUS
  <2>1. t_st = "AcquireAckPulse" /\ ~P!Top.start
    BY <1>1 DEF Path, Receives
  <2> QED
    BY <1>9, <2>1 DEF AckHolds
\* What follows an address.
<1>11. t_st' \in {"AddrAckHold", "StretchAddr"} =>
         pulses' = 0 /\ IF t_rw_bit' THEN Reading' ELSE Writing'
  <2>1. CASE t_st' = "AddrAckHold"
    <3>1. t_st = "AddrAckPulse" /\ t_rw_bit' = t_rw_bit
          /\ (t_rw_bit <=> AsksRead(P!Top)) /\ P!Top.start /\ (t_rw_bit => ~P!Top.stop)
      BY <1>1, <1>2, <2>1 DEF Path, Receives
    <3> QED
      BY <1>9, <2>1, <3>1 DEF AckHolds
  <2>2. CASE t_st' = "StretchAddr"
    <3>1. /\ t_st \in {"AddrAckHold", "StretchAddr"} /\ t_rw_bit' = t_rw_bit
          /\ pulses = 0 /\ ~scl_q /\ pulses' = 0 /\ ~nak_expired /\ (trans_started => host_enable)
          /\ ~auto_stop
          /\ IF t_rw_bit THEN Reading ELSE Writing
      BY <1>1, <1>2, <2>2 DEF Path, Receives, InTime, AckHolds, NackIsSeen
    <3>2. Reading => Reading'
      BY <1>2, <3>1, ReadsOn
    <3>3. Writing => Writing'
      BY <1>2, <1>5, <3>1
    <3> QED
      BY <3>1, <3>2, <3>3
  <2> QED
    BY <2>1, <2>2
<1>12. t_st' \in AddrAck \cup {"AddrAckPulse"} =>
         P!Top'.start /\ (t_rw_bit' <=> AsksRead(P!Top')) /\ (t_rw_bit' => ~P!Top'.stop)
  <2> SUFFICES ASSUME t_st' \in AddrAck \cup {"AddrAckPulse"}
               PROVE  P!Top'.start /\ (t_rw_bit' <=> AsksRead(P!Top')) /\ (t_rw_bit' => ~P!Top'.stop)
    OBVIOUS
  <2>1. CASE t_st = "AddrRead"
    <3>1. hit /\ pulses = ByteBits /\ address_match
      BY <1>1, <1>2, <2>1 DEF Path, AddrAck
    <3>2. st \in {"HoldBit", "ClockLowAck"} /\ P!Top.start
      BY <1>1, <2>1, <3>1 DEF Receives
    <3>3. input_byte = P!Top.fbyte /\ (input_byte % 2 = 1 => ~P!Top.stop)
      BY <1>1, <3>1, <3>2, AddressArrives
    <3> QED
      BY <1>2, <3>1, <3>2, <3>3 DEF AsksRead
  <2>2. CASE t_st # "AddrRead"
    <3>1. t_st \in AddrAck \cup {"AddrAckPulse"}
      BY <1>1, <2>2 DEF Path, AddrAck
    <3>2. st # "PopFmtFifo" /\ t_rw_bit' = t_rw_bit
      BY <1>1, <1>2, <2>2, <3>1 DEF Receives, AckPulses
    <3> QED
      BY <1>1, <1>2, <3>1, <3>2 DEF Receives, AsksRead
  <2> QED
    BY <2>1, <2>2
\* A byte after an address follows no START.
<1>13. t_st' \in AcquireAck \cup {"AcquireAckPulse"} => ~P!Top'.start
  <2> SUFFICES ASSUME t_st' \in AcquireAck \cup {"AcquireAckPulse"} PROVE ~P!Top'.start
    OBVIOUS
  <2>1. CASE t_st = "AcquireByte"
    <3>1. pulses = ByteBits /\ st \in {"HoldBit", "ClockLowAck"}
      BY <1>1, <2>1 DEF Path, Receives, AcquireAck
    <3>2. ~pend_restart
      BY <1>1, <3>1 DEF P!Control
    <3> QED
      BY <1>1, <1>2, <2>1, <3>1, <3>2 DEF Receives
  <2>2. CASE t_st # "AcquireByte"
    <3>1. t_st \in AcquireAck \cup {"AcquireAckPulse"}
      BY <1>1, <2>2 DEF Path, AcquireAck
    <3>2. st # "PopFmtFifo"
      BY <1>1, <3>1 DEF Receives, AckPulses
    <3> QED
      BY <1>1, <1>2, <3>1, <3>2 DEF Receives
  <2> QED
    BY <2>1, <2>2
<1>14. /\ t_st' \in {"AcquireByte", "StretchAddr"} /\ ~pend_restart'
       /\ st' \in P!WriteBits \/ pulses' = ByteBits
       => ~P!Top'.start
  <2> SUFFICES ASSUME t_st' \in {"AcquireByte", "StretchAddr"}, ~pend_restart',
                      st' \in P!WriteBits \/ pulses' = ByteBits
               PROVE  ~P!Top'.start
    OBVIOUS
  <2>1. st' \in P!WriteBits \cup {"ClockLowAck"}
    BY <1>2, <1>6, <1>11 DEF P!WriteBits
  <2>2. t_st \in {"AcquireByte", "StretchAddr"} \cup AckHolds /\ (t_st = "AcquireByte" => pulses < ByteBits)
    BY <1>1 DEF Path, AckHolds
  <2>3. st # "ClockStart"
    BY <1>1, <2>2 DEF StartIsSeen, Path, AckHolds
  <2>4. st \in P!WriteBits \cup {"ClockLowAck"} /\ ~pend_restart => ~P!Top.start
    <3>1. st = "ClockLowAck" => pulses = ByteBits
      BY <1>1 DEF P!BitCount
    <3>2. t_st \in AckHolds => st \notin P!WriteBits \cup {"ClockLowAck"}
      BY <1>1 DEF Receives, P!WriteBits
    <3>3. t_st = "StretchAddr" => pulses = 0
      BY <1>1 DEF Receives
    <3> QED
      BY <1>1, <1>2, <2>2, <3>1, <3>2, <3>3 DEF Receives
  <2> QED
    BY <1>2, <2>1, <2>3, <2>4, RestartsOn
<1> QED
  BY <1>3, <1>4, <1>6, <1>7, <1>8, <1>9, <1>10, <1>11, <1>12, <1>13, <1>14 DEF Receives

\* The bits sent so far are those on top of the TX FIFO.
LEMMA SentBitsStep ==
  ASSUME Timing, P!IInv, Joint, NEW done \in BOOLEAN, NEW free \in BOOLEAN, JointEdge(done, free),
         t_st' \in Sending
  PROVE  tx' # <<>> /\ word' % 2^pulses' = Head(tx') \div 2^(ByteBits - pulses')
<1>1. /\ SameBit /\ InTime /\ Sends /\ Path
      /\ tx' = IF t_st = "TransmitAckPulse" /\ ~scl /\ tx # <<>> THEN Tail(tx) ELSE tx
      /\ tx \in Seq(P!Bytes) /\ pulses \in 0 .. ByteBits /\ ByteBits \in Nat /\ ByteBits >= 1
      /\ word \in P!Bytes
  BY EdgeFacts, PartsAssumption DEF Joint, Types, Registers, P!IInv, P!TypeOK
<1>2. /\ pulses' = pulses \/ (scl_q /\ ~scl)
      /\ word' = IF st \in {"HoldBit", "ReadHoldBit"} /\ scl_q /\ ~scl
                 THEN P!Shift(word, sda_q) ELSE word
  BY EdgeFacts, ControllerAssumptions, P!WordStep DEF Turn, JointEdge
<1>3. CASE t_st \in Sending \ {"TransmitPulse"}
  <2>1. \/ ~(scl_q /\ ~scl) /\ t_st # "TransmitAckPulse"
        \/ t_st = "TransmitAckPulse" /\ scl
    BY <1>1, <1>3 DEF Path, InTime, Sending, SendSetup
  <2> QED
    BY <1>1, <1>2, <1>3, <2>1 DEF Sends
<1>4. CASE t_st = "TransmitPulse" /\ scl
  <2>1. tx' = tx /\ word' = word /\ pulses' = pulses /\ t_st \in Sending
    BY <1>1, <1>2, <1>4 DEF Sending
  <2> QED
    BY <1>1, <2>1 DEF Sends
<1>5. CASE t_st = "TransmitPulse" /\ ~scl
  <2>1. /\ scl_q /\ st \in {"ReadClockPulse", "ReadHoldBit"} /\ sda_q = tx_bit /\ pulses < ByteBits
        /\ tx # <<>> /\ word % 2^pulses = Head(tx) \div 2^(ByteBits - pulses) /\ tx' = tx
    BY <1>1, <1>5 DEF InTime, Sends, Sending
  <2>2. st = "ReadHoldBit" /\ pulses' = pulses + 1
    BY <1>5, <2>1, EdgeFacts, ReadsOn
  <2>3. word' = P!Shift(word, tx_bit)
    BY <1>2, <1>5, <2>1, <2>2
  <2>4. /\ pulses \in 0 .. ByteBits - 1 /\ ByteBits - 1 - pulses \in 0 .. ByteBits - 1
        /\ ByteBits - 1 - pulses + 1 = ByteBits - pulses
        /\ ByteBits - (pulses + 1) = ByteBits - 1 - pulses
    BY <1>1, <2>1
  <2>5. tx_bit \in BOOLEAN /\ tx_bit = ((Head(tx) \div 2^(ByteBits - 1 - pulses)) % 2 = 1)
    BY <1>1 DEF tx_bit, SameBit
  <2>6. word' % 2^(pulses + 1) = 2 * (word % 2^pulses) + P!Bit(tx_bit)
    BY <1>1, <2>3, <2>4, <2>5, ControllerAssumptions, P!ShiftBits
  <2>7. Head(tx) \in P!Bytes
    BY <1>1, <2>1, HeadTailProperties
  <2>8. Head(tx) \div 2^(ByteBits - 1 - pulses)
          = 2 * (Head(tx) \div 2^(ByteBits - 1 - pulses + 1)) + P!Bit(tx_bit)
    BY <2>4, <2>5, <2>7, ControllerAssumptions, P!ByteBitsOf
  <2> QED
    BY <2>1, <2>2, <2>4, <2>6, <2>8
<1>6. CASE t_st \notin Sending
  <2>1. t_st \in {"TransmitWait", "StretchTx"} /\ tx # <<>>
    BY <1>1, <1>6 DEF Path, Sending
  <2>2. pulses' = 0 /\ word' = word /\ tx' = tx
    BY <1>1, <1>2, <2>1 DEF Sends, InTime, SendSetup
  <2>3. Head(tx) \in P!Bytes /\ ByteBits - 0 = ByteBits
    BY <1>1, <2>1, HeadTailProperties
  <2>4. word % 2^0 = 0 /\ Head(tx) \div 2^ByteBits = 0
    BY <1>1, <2>3, ControllerAssumptions, P!WholeByte
  <2> QED
    BY <2>1, <2>2, <2>3, <2>4
<1> QED
  BY <1>3, <1>4, <1>5, <1>6 DEF Sending

\* Where the controller is when the target sends.
LEMMA SendsStep ==
  ASSUME Timing, P!IInv, Joint, NEW done \in BOOLEAN, NEW free \in BOOLEAN, JointEdge(done, free)
  PROVE  Sends'
<1>1. /\ Receives /\ Sends /\ InTime /\ StartIsSeen /\ StopIsSeen /\ NackIsSeen /\ SameBit
      /\ Path /\ Registers /\ P!DataLine
  BY EdgeFacts DEF Joint, P!IInv
<1>2. /\ pulses \in 0 .. ByteBits /\ ByteBits \in Nat /\ ByteBits >= 1
      /\ scl \in BOOLEAN /\ scl_q \in BOOLEAN /\ others \in BOOLEAN /\ sda_fsm_q \in BOOLEAN
      /\ host_ack \in BOOLEAN /\ P!host_nack \in BOOLEAN
      /\ others' = target_sda_o /\ sda_q' = P!sda
      /\ Turn(done, free)
  <2>1. Turn(done, free)
    BY EdgeFacts
  <2>2. others' = target_sda_o /\ sda_q' = P!sda
    BY DEF JointEdge, P!QuietEdge
  <2>3. /\ pulses \in 0 .. ByteBits
        /\ scl \in BOOLEAN /\ scl_q \in BOOLEAN /\ others \in BOOLEAN /\ sda_fsm_q \in BOOLEAN
    BY DEF P!IInv, P!TypeOK, P!lines
  <2>4. host_ack \in BOOLEAN /\ P!host_nack \in BOOLEAN
    BY DEF Joint, Types, P!host_nack
  <2> QED
    BY <2>1, <2>2, <2>3, <2>4, PartsAssumption
<1>3. \/ ~auto_stop /\ ~nak_expired /\ (trans_started => host_enable)
      \/ t_st \in {"WaitForStop", "Idle"}
  BY <1>1 DEF NackIsSeen
\* A byte is about to be sent.
<1>4. ASSUME pulses < ByteBits, Reading, ~scl_q, t_st \notin {"WaitForStop", "Idle"}
      PROVE  Reading' /\ pulses' = pulses /\ (scl => st = "ReadClockPulse" /\ st' = st)
  BY <1>2, <1>3, <1>4, ReadsOn
<1>5. t_st = "TransmitAckPulse" /\ ~scl =>
        /\ pulses' = 0
        /\ IF host_ack THEN Reading' ELSE Ending'
  <2> SUFFICES ASSUME t_st = "TransmitAckPulse", ~scl
               PROVE  pulses' = 0 /\ IF host_ack THEN Reading' ELSE Ending'
    OBVIOUS
  <2>1. scl_q /\ st \in {"HostClockPulseAck", "HostHoldBitAck"} /\ host_ack = ~P!host_nack
    BY <1>1 DEF InTime, Sends
  <2> QED
    BY <1>2, <2>1, ReadAcks
<1>6. ASSUME t_st' \in SendSetup
      PROVE  /\ pulses' < ByteBits /\ Reading'
             /\ t_st' \in {"TransmitWait", "StretchTx"} => pulses' = 0
  <2>1. CASE t_st = "TransmitAckPulse"
    <3>1. ~scl /\ host_ack
      BY <1>1, <1>6, <2>1 DEF Path, SendSetup
    <3> QED
      BY <1>2, <1>5, <2>1, <3>1
  <2>2. CASE t_st # "TransmitAckPulse"
    <3>1. /\ pulses < ByteBits /\ Reading /\ ~scl_q /\ t_st \notin {"WaitForStop", "Idle"}
          /\ t_st' \in {"TransmitWait", "StretchTx"} => pulses = 0
      <4>1. \/ t_st \in SendSetup \cup {"TransmitHold"}
            \/ t_st \in {"AddrAckHold", "StretchAddr"} /\ t_rw_bit
        BY <1>1, <1>6, <2>2 DEF Path, SendSetup
      <4>2. t_st = "TransmitHold" => t_st' = "TransmitSetup" /\ pulses # ByteBits
        BY <1>1, <1>6 DEF Path, SendSetup
      <4>3. t_st' \in {"TransmitWait", "StretchTx"} =>
              t_st \in {"TransmitWait", "StretchTx", "AddrAckHold", "StretchAddr"}
        BY <1>1, <2>2 DEF Path
      <4> QED
        BY <1>1, <1>2, <4>1, <4>2, <4>3 DEF Sends, Receives, InTime, SendSetup, AckHolds
    <3> QED
      BY <1>4, <3>1
  <2> QED
    BY <2>1, <2>2
<1>7. t_st' = "TransmitPulse" =>
        /\ pulses' < ByteBits /\ Reading'
        /\ st' \in {"ReadClockPulse", "ReadHoldBit"} /\ sda_q' = tx_bit' /\ others' = tx_bit'
  <2> SUFFICES ASSUME t_st' = "TransmitPulse"
               PROVE  /\ pulses' < ByteBits /\ Reading'
                      /\ st' \in {"ReadClockPulse", "ReadHoldBit"}
                      /\ sda_q' = tx_bit' /\ others' = tx_bit'
    OBVIOUS
  <2>1. scl /\ t_st \in {"TransmitSetup", "TransmitPulse"}
    BY <1>1 DEF Path
  <2>2. tx_bit' = tx_bit /\ tx_bit \in BOOLEAN
    <3>1. tx' = tx /\ t_bit_idx' = t_bit_idx
      BY <1>1, <1>2, <2>1 DEF Path, Registers, SameBit
    <3> QED
      BY <3>1 DEF tx_bit
  <2>3. /\ pulses' < ByteBits /\ Reading'
        /\ st \in {"ReadClockPulse", "ReadHoldBit"} /\ st' \in {"ReadClockPulse", "ReadHoldBit"}
    <3>1. CASE t_st = "TransmitSetup"
      <4>1. pulses < ByteBits /\ Reading /\ ~scl_q
        BY <1>1, <3>1 DEF Sends, InTime, SendSetup
      <4> QED
        BY <1>4, <2>1, <3>1, <4>1
    <3>2. CASE t_st = "TransmitPulse"
      <4>1. pulses < ByteBits /\ scl_q /\ st \in {"ReadClockPulse", "ReadHoldBit"}
        BY <1>1, <3>2 DEF Sends, InTime
      <4>2. pulses' = pulses /\ st' \in {"ReadClockPulse", "ReadHoldBit"}
        BY <1>2, <2>1, <4>1, ReadsOn
      <4> QED
        BY <4>1, <4>2 DEF Reading, P!ReadBits
    <3> QED
      BY <2>1, <3>1, <3>2
  <2>4. target_sda_o = tx_bit /\ others = tx_bit
    <3>1. others = target_sda_o
      BY <1>1, <2>1 DEF InTime
    <3>2. t_st = "TransmitSetup" => target_sda_o = tx_bit
      BY DEF target_sda_o, T!AckStates
    <3>3. t_st = "TransmitPulse" => others = tx_bit
      BY <1>1 DEF Sends
    <3> QED
      BY <2>1, <3>1, <3>2, <3>3
  <2>5. P!sda = others
    BY <1>1, <1>2, <2>3 DEF P!DataLine, P!sda
  <2> QED
    BY <1>2, <2>2, <2>3, <2>4, <2>5
<1>8. t_st' = "TransmitHold" =>
        IF pulses' = ByteBits THEN st' \in {"ReadHoldBit", "HostClockLowAck"} ELSE Reading'
  <2> SUFFICES ASSUME t_st' = "TransmitHold"
               PROVE  IF pulses' = ByteBits THEN st' \in {"ReadHoldBit", "HostClockLowAck"} ELSE Reading'
    OBVIOUS
  <2>1. t_st = "TransmitPulse" /\ ~scl /\ scl_q /\ st \in {"ReadClockPulse", "ReadHoldBit"}
    BY <1>1 DEF Path, Sends, InTime
  <2>2. IF pulses' = ByteBits THEN st' \in {"ReadHoldBit", "HostClockLowAck"} ELSE st' \in P!ReadBits
    BY <1>2, <2>1, ReadsOn
  <2> QED
    BY <2>2 DEF Reading
\* The acknowledge bit.
<1>9. t_st' = "TransmitAck" =>
        pulses' = ByteBits /\ st' \in {"ReadHoldBit", "HostClockLowAck", "HostClockPulseAck"}
  <2> SUFFICES ASSUME t_st' = "TransmitAck"
               PROVE  pulses' = ByteBits /\ st' \in {"ReadHoldBit", "HostClockLowAck", "HostClockPulseAck"}
    OBVIOUS
  <2>1. pulses = ByteBits /\ ~scl_q /\ st \in {"ReadHoldBit", "HostClockLowAck", "HostClockPulseAck"}
    BY <1>1 DEF Path, Sends, InTime
  <2> QED
    BY <1>2, <2>1, ReadAcks
<1>10. t_st' = "TransmitAckPulse" =>
         /\ pulses' = ByteBits /\ st' \in {"HostClockPulseAck", "HostHoldBitAck"}
         /\ host_ack' = ~P!host_nack'
  <2> SUFFICES ASSUME t_st' = "TransmitAckPulse"
               PROVE  /\ pulses' = ByteBits /\ st' \in {"HostClockPulseAck", "HostHoldBitAck"}
                      /\ host_ack' = ~P!host_nack'
    OBVIOUS
  <2>1. scl /\ t_st \in {"TransmitAck", "TransmitAckPulse"}
    BY <1>1 DEF Path
  <2>2. /\ pulses = ByteBits /\ st \in {"HostClockPulseAck", "HostHoldBitAck"}
        /\ ~scl_q => st = "HostClockPulseAck"
    <3>1. CASE t_st = "TransmitAck"
      <4>1. pulses = ByteBits /\ ~scl_q /\ st \in {"ReadHoldBit", "HostClockLowAck", "HostClockPulseAck"}
        BY <1>1, <3>1 DEF Sends, InTime
      <4> QED
        BY <1>2, <2>1, <4>1, ReadAcks
    <3>2. CASE t_st = "TransmitAckPulse"
      BY <1>1, <3>2 DEF Sends, InTime
    <3> QED
      BY <2>1, <3>1, <3>2
  <2>3. /\ st' \in {"HostClockPulseAck", "HostHoldBitAck"} /\ pulses' = pulses
        /\ P!host_nack' <=> P!host_nack
    BY <1>2, <2>1, <2>2, ReadAcks
  <2>4. host_ack' = ~P!host_nack
    <3>1. CASE ~scl_q
      <4>1. P!sda = P!host_nack
        BY <1>1, <1>2, <2>2, <3>1 DEF P!DataLine, P!Driving, P!sda
      <4> QED
        BY <1>1, <2>1, <2>2, <3>1, <4>1 DEF Registers
    <3>2. CASE scl_q
      <4>1. host_ack = ~P!host_nack
        BY <1>1, <2>1, <3>2 DEF Sends, InTime
      <4> QED
        BY <1>1, <3>2, <4>1 DEF Registers
    <3> QED
      BY <3>1, <3>2, <1>2
  <2>5. P!host_nack' \in BOOLEAN
    BY DEF P!host_nack
  <2> QED
    BY <1>2, <2>2, <2>3, <2>4, <2>5
\* After the last byte.
<1>11. t_st' = "WaitForStop" /\ t_xfer_for_us' /\ ~t_nack_transaction' => Ending' \/ ~open'
  <2> SUFFICES ASSUME t_st' = "WaitForStop", t_xfer_for_us', ~t_nack_transaction'
               PROVE  Ending' \/ ~open'
    OBVIOUS
  <2>1. t_st = "WaitForStop" \/ (t_st = "TransmitAckPulse" /\ ~scl /\ ~host_ack)
    BY <1>1 DEF Path, Registers, Receives
  <2>2. CASE t_st = "TransmitAckPulse" /\ ~scl /\ ~host_ack
    BY <1>5, <2>2
  <2>3. CASE t_st = "WaitForStop"
    <3>1. t_xfer_for_us /\ ~t_nack_transaction
      BY <1>1, <2>3 DEF Registers
    <3>2. ~m_stop_pending /\ ~m_start_pending
      BY <1>1 DEF Path
    <3>3. open /\ Ending /\ st # "ClockStart"
      BY <1>1, <2>3, <3>1, <3>2 DEF StartIsSeen, StopIsSeen, Sends
    <3> QED
      BY <1>2, <3>3, EndsOn
  <2> QED
    BY <2>1, <2>2, <2>3
<1>12. t_st' \in Sending =>
         tx' # <<>> /\ word' % 2^pulses' = Head(tx') \div 2^(ByteBits - pulses')
  BY SentBitsStep
<1> QED
  BY <1>6, <1>7, <1>8, <1>9, <1>10, <1>11, <1>12 DEF Sends, SendSetup

\* The target shifts in what the observer sees.
LEMMA SameDataStep ==
  ASSUME Timing, P!IInv, Joint, NEW done \in BOOLEAN, NEW free \in BOOLEAN, JointEdge(done, free)
  PROVE  SameData'
<1>1. /\ SameData /\ StartIsSeen /\ InTime /\ Receives /\ Path
      /\ P!Control /\ P!Clock /\ P!DataLine /\ P!BitCount /\ Turn(done, free)
      /\ scl_q /\ ~scl => st \in P!SclFalls
      /\ ~scl_q /\ scl => st' = st /\ st \in P!SclRises \cup {"SetupStart"}
  BY EdgeFacts DEF Joint, P!IInv
<1>2. /\ pulses \in 0 .. ByteBits /\ ByteBits \in Nat /\ ByteBits >= 1
      /\ word \in P!Bytes /\ input_byte \in P!Bytes /\ word' \in P!Bytes /\ input_byte' \in P!Bytes
      /\ sda_q \in BOOLEAN /\ P!sda \in BOOLEAN /\ scl \in BOOLEAN /\ scl_q \in BOOLEAN
      /\ scl_q' = scl /\ sda_q' = P!sda
  <2>1. P!QuietEdge(done, free) /\ scl_q' = scl /\ sda_q' = P!sda
    BY DEF JointEdge, P!QuietEdge
  <2>2. /\ pulses \in 0 .. ByteBits /\ word \in P!Bytes
        /\ sda_q \in BOOLEAN /\ scl \in BOOLEAN /\ scl_q \in BOOLEAN
    BY DEF P!IInv, P!TypeOK, P!lines
  <2>3. P!sda \in BOOLEAN
    BY DEF P!sda
  <2>4. input_byte \in P!Bytes /\ input_byte' \in P!Bytes
    BY TypesStep DEF Joint, Types
  <2>5. word' \in P!Bytes
    BY <2>1, ControllerAssumptions, P!WordStep
  <2> QED
    BY <2>1, <2>2, <2>3, <2>4, <2>5, PartsAssumption
<1>3. /\ word' = IF st \in {"HoldBit", "ReadHoldBit"} /\ scl_q /\ ~scl
                 THEN P!Shift(word, sda_q) ELSE word
      /\ pulses' = IF st \in P!SclFalls \ {"ClockStart"} /\ scl_q /\ ~scl
                   THEN IF pulses = ByteBits THEN 0 ELSE pulses + 1
                   ELSE pulses
      /\ input_byte' = IF t_st = "AcquireStart" /\ ~scl THEN 0
                       ELSE IF ~scl_q /\ scl /\ pulses # ByteBits THEN P!Shift(input_byte, P!sda)
                       ELSE input_byte
  BY EdgeFacts, ControllerAssumptions, P!WordStep DEF Turn, JointEdge, Registers
<1>4. acked' = IF st \in P!SclFalls \ {"ClockStart"} /\ scl_q /\ ~scl /\ pulses = ByteBits
               THEN ~sda_q ELSE acked
  <2>1. P!PulseSeen <=> st \in P!SclFalls \ {"ClockStart"} /\ scl_q /\ ~scl
    BY ControllerAssumptions, P!Symbols
  <2>2. acked' = IF P!PulseSeen /\ pulses = ByteBits THEN ~sda_q ELSE acked
    BY DEF JointEdge, P!QuietEdge, P!Observer
  <2> QED
    BY <2>1, <2>2
<1>5. t_st = "AcquireStart" =>
        scl_q /\ pulses = 0 /\ (~scl => st = "ClockStart" /\ pulses' = 0)
  BY <1>1, <1>3 DEF StartIsSeen, P!Clock, P!BitCount, P!Starting
<1>6. /\ st \in {"HoldBit", "ReadHoldBit"} /\ scl_q => pulses < ByteBits
      /\ st \in {"HoldDevAck", "HostHoldBitAck"} /\ scl_q => pulses = ByteBits
      /\ st = "ClockStart" => pulses = 0
      /\ st \in {"ClockPulse", "ReadClockPulse"} => pulses < ByteBits
  <2>1. bit_index \in 0 .. ByteBits - 1
    BY DEF P!IInv, P!TypeOK
  <2> QED
    BY <1>1, <1>2, <2>1 DEF P!BitCount, P!Starting
<1>7. input_byte' % 2^0 = 0 /\ word' % 2^0 = 0
  BY <1>2, ControllerAssumptions, P!WholeByte
\* While SCL is low.
<1>8. ~scl => input_byte' % 2^pulses' = word' % 2^pulses'
  <2> SUFFICES ASSUME ~scl PROVE input_byte' % 2^pulses' = word' % 2^pulses'
    OBVIOUS
  <2>1. CASE pulses' = 0
    BY <1>7, <2>1
  <2>2. CASE pulses' # 0 /\ ~scl_q
    BY <1>1, <1>3, <1>5, <2>2 DEF SameData
  <2>3. CASE pulses' # 0 /\ scl_q
    <3>1. st \in {"HoldBit", "ReadHoldBit"} /\ pulses \in 0 .. ByteBits - 1 /\ pulses' = pulses + 1
      BY <1>1, <1>2, <1>3, <1>6, <2>3 DEF P!SclFalls
    <3>2. word' = P!Shift(word, sda_q) /\ input_byte' = input_byte
      BY <1>3, <1>5, <2>3, <3>1
    <3>3. word' % 2^(pulses + 1) = 2 * (word % 2^pulses) + P!Bit(sda_q)
      BY <1>2, <3>1, <3>2, ControllerAssumptions, P!ShiftBits
    <3> QED
      BY <1>1, <2>3, <3>1, <3>2, <3>3 DEF SameData, P!WriteBits, P!ReadBits
  <2> QED
    BY <2>1, <2>2, <2>3
\* While it is high.
<1>9. scl /\ st' \in P!WriteBits \cup P!ReadBits =>
        input_byte' % 2^(pulses' + 1) = 2 * (word' % 2^pulses') + P!Bit(sda_q')
  <2> SUFFICES ASSUME scl, st' \in P!WriteBits \cup P!ReadBits
               PROVE  input_byte' % 2^(pulses' + 1) = 2 * (word' % 2^pulses') + P!Bit(sda_q')
    OBVIOUS
  <2>1. pulses' = pulses /\ word' = word
    BY <1>3
  <2>2. CASE ~scl_q
    <3>1. st \in {"ClockPulse", "ReadClockPulse"} /\ pulses \in 0 .. ByteBits - 1
      BY <1>1, <1>2, <1>6, <2>2 DEF P!SclRises, P!Pulses, P!WriteBits, P!ReadBits
    <3>2. input_byte' = P!Shift(input_byte, P!sda)
      BY <1>3, <2>2, <3>1, <1>2
    <3>3. input_byte' % 2^(pulses + 1) = 2 * (input_byte % 2^pulses) + P!Bit(P!sda)
      BY <1>2, <3>1, <3>2, ControllerAssumptions, P!ShiftBits
    <3> QED
      BY <1>1, <1>2, <2>1, <2>2, <3>3 DEF SameData
  <2>3. CASE scl_q
    <3>1. st \in {"ClockPulse", "HoldBit", "ReadClockPulse", "ReadHoldBit"}
      <4>1. /\ P!Moves(done, free) /\ (done => ~loaded) /\ (P!Top.read => ~P!Top.start)
            /\ trans_started \in BOOLEAN /\ loaded \in BOOLEAN /\ st \in P!States
        BY <1>1 DEF Turn
      <4> QED
        BY <1>1, <1>2, <2>3, <4>1
        DEF P!Moves, P!Timed, P!Goto, P!Stay, P!AutoStopNow, P!Idle, P!Active, P!PopFmtFifo,
            P!EntryDone, P!Clock, P!Control, P!SclLow, P!SclFalls, P!SclRises, P!Between, P!Pulses,
            P!WriteBits, P!ReadBits, P!States
    <3>2. P!sda = sda_q
      BY <1>1, <1>2, <2>3, <3>1 DEF P!DataLine, P!Driving, P!sda
    <3>3. input_byte' = input_byte
      BY <1>3, <2>3
    <3> QED
      BY <1>1, <1>2, <2>1, <2>3, <3>1, <3>2, <3>3 DEF SameData, P!WriteBits, P!ReadBits
  <2> QED
    BY <2>2, <2>3
\* A whole byte.
<1>10. pulses' = ByteBits => input_byte' = word'
  <2> SUFFICES ASSUME pulses' = ByteBits PROVE input_byte' = word'
    OBVIOUS
  <2>1. CASE pulses = ByteBits
    <3>1. ~(scl_q /\ ~scl)
      BY <1>1, <1>2, <1>3, <1>6, <2>1
    <3>2. word' = word /\ input_byte' = input_byte
      BY <1>2, <1>3, <1>5, <2>1, <3>1
    <3> QED
      BY <1>1, <2>1, <3>2 DEF SameData
  <2>2. CASE pulses # ByteBits
    <3>1. ~scl
      BY <1>3, <2>2
    <3>2. input_byte' % 2^ByteBits = word' % 2^ByteBits
      BY <1>8, <3>1
    <3> QED
      BY <1>2, <3>2, ControllerAssumptions, P!WholeByte
  <2> QED
    BY <2>1, <2>2
<1>11. t_st' \in AckHolds \cup {"StretchAddr"} => input_byte' = word' /\ acked'
  <2> SUFFICES ASSUME t_st' \in AckHolds \cup {"StretchAddr"} PROVE input_byte' = word' /\ acked'
    OBVIOUS
  <2>1. CASE t_st' \in AckHolds
    <3>1. t_st \in AckPulses /\ ~scl
      BY <1>1, <2>1 DEF Path, AckPulses, AckHolds
    <3>2. scl_q /\ ~sda_q /\ pulses = ByteBits /\ st \in {"ClockPulseAck", "HoldDevAck"}
      BY <1>1, <3>1 DEF InTime, Receives
    <3>3. st = "HoldDevAck"
      BY <1>1, <3>1, <3>2 DEF P!SclFalls
    <3>4. word' = word /\ input_byte' = input_byte /\ acked' = ~sda_q
      BY <1>3, <1>4, <3>1, <3>2, <3>3 DEF P!SclFalls, AckPulses
    <3> QED
      BY <1>1, <3>2, <3>4 DEF SameData
  <2>2. CASE t_st' = "StretchAddr"
    <3>1. t_st \in {"AddrAckHold", "StretchAddr"} /\ ~scl_q /\ ~scl
      BY <1>1, <2>2 DEF Path, InTime, AckHolds, Early, Middle, T!Stretching
    <3>2. word' = word /\ input_byte' = input_byte /\ acked' = acked
      BY <1>3, <1>4, <3>1
    <3> QED
      BY <1>1, <3>1, <3>2 DEF SameData, AckHolds
  <2> QED
    BY <2>1, <2>2
<1> QED
  BY <1>2, <1>8, <1>9, <1>10, <1>11 DEF SameData

------------------------------------------------------------------------------
(* The joint invariant holds.                                               *)

\* A clock edge keeps the joint invariant.
LEMMA JointEdgeStep ==
  ASSUME Timing, Software, P!IInv, Joint, Edge
  PROVE  P!Edge /\ P!IInv' /\ Joint'
<1>1. P!Edge /\ P!IInv'
  BY CoreTurn
<1>2. PICK done \in BOOLEAN, free \in BOOLEAN : JointEdge(done, free)
  BY CoreTurn
<1>3. Program'
  BY <1>2, EdgeFacts
<1>4. Types' /\ SameBit' /\ StartIsSeen' /\ StopIsSeen' /\ NackIsSeen'
  BY <1>2, TypesStep, SameBitStep, StartIsSeenStep, StopIsSeenStep, NackIsSeenStep
<1>5. InTime' /\ Receives' /\ Sends' /\ SameData'
  BY <1>2, InTimeStep, ReceivesStep, SendsStep, SameDataStep
<1> QED
  BY <1>1, <1>3, <1>4, <1>5 DEF Joint

\* What software leaves alone when it writes a register or a FIFO.
SoftwareStep ==
  /\ UNCHANGED <<st, loaded, bit_index, byte_index, trans_started, pend_restart, auto_stop,
                 nak_expired, lines, open, symbol, pulses, word, acked>>
  /\ UNCHANGED <<t_st, t_bit_idx, t_tcount, t_xfer_for_us, t_nack_transaction, t_rw_bit,
                 input_byte, host_ack>>
  /\ UNCHANGED <<m_start_pending, m_stop_pending, m_det_count>>
  /\ events' \subseteq events /\ (trans_started => host_enable') /\ reads' \in BOOLEAN

\* Where the target is at work, the two FSMs still agree on the entry on top and on
\* what comes next.
SameProgram ==
  /\ P!Top' = P!Top \/ st \in {"Idle"} \cup P!Stopping
  /\ Reading => Reading' \/ t_st \in {"WaitForStop", "Idle"}
  /\ Writing => Writing' \/ t_st \in {"WaitForStop", "Idle"}
  /\ Ending => Ending'

\* Then, with the TX FIFO only added to, the joint invariant is kept.
LEMMA SoftwareKeepsJoint ==
  ASSUME P!IInv, Joint, SoftwareStep, Program', SameProgram,
         tx' \in Seq(P!Bytes), tx # <<>> => tx' # <<>> /\ Head(tx') = Head(tx)
  PROVE  Joint'
<1>1. /\ Types /\ SameBit /\ StartIsSeen /\ StopIsSeen /\ NackIsSeen /\ InTime /\ Receives
      /\ Sends /\ SameData /\ P!Control /\ P!BitCount
  BY DEF Joint, P!IInv
<1>2. Types' /\ SameBit' /\ StartIsSeen' /\ StopIsSeen'
  BY <1>1 DEF SoftwareStep, Types, SameBit, StartIsSeen, StopIsSeen, lines, P!Bytes, T!States
<1>3. NackIsSeen'
  BY <1>1 DEF SoftwareStep, NackIsSeen, P!unhandled_nak
<1>4. Middle' = Middle /\ Early' = Early
  BY DEF SoftwareStep, Middle, Early, lines
<1>5. t_st \in Sending => (tx_bit' <=> tx_bit)
  BY <1>1 DEF SoftwareStep, Sends, tx_bit
<1>6. target_sda_o' = target_sda_o
  BY <1>5 DEF SoftwareStep, target_sda_o, lines, Sending, tx_bit
<1>7. InTime'
  BY <1>1, <1>4, <1>6 DEF SoftwareStep, InTime, lines
<1>8. Receives'
  <2>1. CASE P!Top' = P!Top
    BY <1>1, <2>1 DEF SoftwareStep, SameProgram, Receives, AsksRead, AckHolds, lines
  <2>2. CASE st \in {"Idle"} \cup P!Stopping
    <3>1. pulses = 0 /\ ~pend_restart /\ st \notin P!Starting \cup P!WriteBits
          /\ st \notin {"ClockStart", "HoldBit", "ClockLowAck", "ClockPulseAck", "HoldDevAck"}
      BY <1>1, <2>2 DEF P!Control, P!BitCount, P!Stopping, P!Starting, P!WriteBits, P!Between
    <3>2. ByteBits # 0
      BY PartsAssumption
    <3>3. t_st \notin {"AddrRead"} \cup AddrAck \cup AcquireAck \cup AckPulses
      BY <1>1, <3>1, <3>2 DEF Receives
    <3> QED
      BY <1>1, <3>1, <3>2, <3>3
      DEF SoftwareStep, SameProgram, Receives, AckHolds, AckPulses, AddrAck, AcquireAck
  <2> QED
    BY <2>1, <2>2 DEF SameProgram
<1>9. Sends'
  <2>1. t_st = "TransmitAckPulse" => P!host_nack' = P!host_nack
    <3>1. t_st = "TransmitAckPulse" => st \notin {"Idle"} \cup P!Stopping
      BY <1>1 DEF Sends, P!Stopping
    <3> QED
      BY <3>1 DEF SameProgram, SoftwareStep, P!host_nack
  <2>2. t_st = "TransmitPulse" => sda_q' = tx_bit' /\ others' = tx_bit'
    <3>1. t_st = "TransmitPulse" => sda_q = tx_bit /\ others = tx_bit
      BY <1>1 DEF Sends
    <3>2. t_st = "TransmitPulse" => tx_bit' = tx_bit
      BY <1>5 DEF Sending, tx_bit
    <3> QED
      BY <3>1, <3>2 DEF SoftwareStep, lines
  <2>3. t_st = "TransmitAckPulse" => host_ack' = ~P!host_nack'
    <3>1. t_st = "TransmitAckPulse" => host_ack = ~P!host_nack
      BY <1>1 DEF Sends
    <3> QED
      BY <2>1, <3>1 DEF SoftwareStep
  <2>4. /\ t_st \in SendSetup \cup {"TransmitPulse", "TransmitHold"} /\ Reading => Reading'
        /\ Ending => Ending'
    BY DEF SameProgram, SendSetup
  <2>5. UNCHANGED <<t_st, st, pulses, word, open, t_xfer_for_us, t_nack_transaction>>
    BY DEF SoftwareStep, lines
  <2>6. t_st \in Sending =>
          tx' # <<>> /\ word' % 2^pulses' = Head(tx') \div 2^(ByteBits - pulses')
    BY <1>1, <2>5 DEF Sends
  <2> QED
    BY <1>1, <2>2, <2>3, <2>4, <2>5, <2>6 DEF Sends
<1>10. SameData'
  BY <1>1 DEF SoftwareStep, SameData, lines
<1> QED
  BY <1>2, <1>3, <1>7, <1>8, <1>9, <1>10 DEF Joint

\* Software keeps both invariants.
LEMMA SwWriteJoint ==
  ASSUME P!IInv, Joint, SwWrite
  PROVE  P!SwWrite /\ P!IInv' /\ Joint'
<1>1. P!SwWrite /\ P!IInv'
  <2>1. P!SwWrite
    BY DEF SwWrite, C!SwWrite, P!SwWrite, C!fsm, P!fsm, C!lines, P!lines, C!observer, P!observer
  <2> QED
    BY <2>1, ControllerAssumptions, P!SwWriteStep
<1>2. Program /\ reads \in BOOLEAN /\ Types /\ NackIsSeen /\ P!Control /\ fmt \in Seq(Entries)
  BY DEF Joint, Types, P!IInv, P!TypeOK
<1>3. /\ Program'
      /\ \A i \in 1 .. Len(fmt) + 1 : ReadNext(i)' = ReadNext(i) /\ (StartNext(i) => StartNext(i)')
      /\ fmt # <<>> => P!Top' = P!Top
  BY <1>2, ProgramWritten
<1>4. SoftwareStep /\ tx' = tx
  <2>1. reads' \in BOOLEAN
    BY <1>2 DEF SwWrite
  <2> QED
    BY <1>2, <2>1
    DEF SoftwareStep, SwWrite, C!SwWrite, C!fsm, C!lines, C!observer, lines, target, monitor,
        NackIsSeen
<1>5. /\ TopReads' <=> TopReads
      /\ TopStarts => TopStarts'
      /\ fmt # <<>> => (NextReads' <=> NextReads) /\ (NextStarts => NextStarts')
  <2>1. 1 \in 1 .. Len(fmt) + 1 /\ (fmt # <<>> => 2 \in 1 .. Len(fmt) + 1)
    BY <1>2, EmptySeq, LenProperties
  <2>2. ReadNext(1)' = ReadNext(1) /\ (StartNext(1) => StartNext(1)')
    BY <1>3, <2>1
  <2>3. fmt # <<>> => ReadNext(2)' = ReadNext(2) /\ (StartNext(2) => StartNext(2)')
    BY <1>3, <2>1
  <2> QED
    BY <2>2, <2>3 DEF TopReads, TopStarts, NextReads, NextStarts
<1>6. fmt = <<>> => st \in {"Idle"} \cup P!Stopping
  BY <1>2 DEF P!Control
<1>7. SameProgram
  BY <1>3, <1>4, <1>5, <1>6
  DEF SameProgram, SoftwareStep, lines, Reading, Writing, Ending, P!ReadBits, P!WriteBits,
      P!Starting, P!Stopping,
      P!host_nack
<1> QED
  BY <1>1, <1>2, <1>3, <1>4, <1>7, SoftwareKeepsJoint DEF Types

\* When it answers events, resets the FMT FIFO or switches the controller.
LEMMA SwControlJoint ==
  ASSUME P!IInv, Joint, SwControl
  PROVE  /\ P!SwReset \/ P!SwClear \/ P!SwEnable \/ P!SwDisable
         /\ P!IInv' /\ Joint'
<1>1. Program /\ Types /\ NackIsSeen /\ P!Control /\ fmt \in Seq(Entries)
  BY DEF Joint, P!IInv, P!TypeOK
<1>2. /\ st = "Idle" /\ events' \subseteq events /\ reads' = reads /\ tx' = tx
      /\ UNCHANGED <<C!fsm, C!lines, C!observer, target, monitor>>
      /\ \/ fmt' = fmt /\ writer' = writer
         \/ fmt' = <<>> /\ writer' = "start" /\ (P!unhandled_nak \/ ~trans_started)
      /\ trans_started => host_enable'
  BY <1>1, Same
  DEF SwControl, C!SwClear, C!SwReset, C!SwEnable, C!SwDisable, C!host_idle, NackIsSeen, target,
      C!fsm, C!lines, C!observer
<1>3. (P!SwReset \/ P!SwClear \/ P!SwEnable \/ P!SwDisable) /\ P!IInv'
  <2>1. C!SwReset => P!SwReset
    BY DEF C!SwReset, P!SwReset, C!halt_controller, P!halt_controller, C!fsm, P!fsm, C!lines,
           P!lines, C!observer, P!observer
  <2>2. C!SwClear \/ C!SwEnable \/ C!SwDisable => P!SwClear \/ P!SwEnable \/ P!SwDisable
    BY Same DEF C!SwClear, P!SwClear, C!SwEnable, P!SwEnable, C!SwDisable, P!SwDisable,
       C!halt_controller, P!halt_controller, C!Resumable, P!Resumable, C!fsm, P!fsm, C!lines,
       P!lines, C!observer, P!observer
  <2>3. P!SwReset \/ (P!SwClear \/ P!SwEnable \/ P!SwDisable)
    BY <2>1, <2>2 DEF SwControl
  <2> QED
    BY <2>3, OneController, ControllerAssumptions, P!SwResetStep, P!SwRegisterStep
<1>4. SoftwareStep
  BY <1>1, <1>2 DEF SoftwareStep, Types, C!fsm, C!lines, C!observer, lines, target, monitor
<1>5. CASE fmt' = fmt /\ writer' = writer
  <2>1. Program' /\ SameProgram
    BY <1>1, <1>2, <1>4, <1>5
    DEF Program, Follow, ReadNext, StartNext, SameProgram, SoftwareStep, lines, Reading, Writing,
        Ending,
        TopReads, TopStarts, NextReads, NextStarts, P!Top, P!host_nack
  <2> QED
    BY <1>1, <1>2, <1>3, <1>4, <2>1, SoftwareKeepsJoint DEF Types
<1>6. CASE fmt' = <<>> /\ writer' = "start" /\ (P!unhandled_nak \/ ~trans_started)
  <2>1. Len(fmt') = 0 /\ 1 .. Len(fmt') = {}
    BY <1>6, EmptySeq
  <2>2. Program' /\ ~TopReads' /\ TopStarts'
    BY <1>6, <2>1 DEF Program, TopReads, TopStarts, ReadNext, StartNext
  <2>3. P!unhandled_nak => t_st \in {"WaitForStop", "Idle"}
    BY <1>1 DEF NackIsSeen
  <2>4. SameProgram
    BY <1>2, <1>4, <1>6, <2>2, <2>3
    DEF SameProgram, SoftwareStep, Reading, Writing, Ending, P!ReadBits
  <2> QED
    BY <1>1, <1>2, <1>3, <1>4, <2>2, <2>4, SoftwareKeepsJoint DEF Types
<1> QED
  BY <1>2, <1>5, <1>6

\* When it reads the ACQ FIFO, writes the TX FIFO, or does nothing.
LEMMA SwFifoJoint ==
  ASSUME P!IInv, Joint, SwReadAcq \/ SwWriteTx \/ UNCHANGED vars
  PROVE  UNCHANGED P!vars /\ P!IInv' /\ Joint'
<1>1. Program /\ Types /\ NackIsSeen
  BY DEF Joint
<1>2. /\ UNCHANGED <<controller, lines, monitor, reads, t_st, t_bit_idx, t_tcount, t_xfer_for_us,
                     t_nack_transaction, t_rw_bit, input_byte, host_ack>>
      /\ tx' = tx \/ \E byte \in TxBytes : tx' = Append(tx, byte)
  BY DEF SwReadAcq, SwWriteTx, vars, target
<1>3. UNCHANGED P!vars /\ P!IInv'
  <2>1. UNCHANGED P!vars
    BY <1>2 DEF controller, lines, P!vars, P!fsm, P!lines, P!observer
  <2> QED
    BY <2>1, ControllerAssumptions, P!StutterStep
<1>4. tx' \in Seq(P!Bytes) /\ (tx # <<>> => tx' # <<>> /\ Head(tx') = Head(tx))
  <2>1. tx \in Seq(P!Bytes) /\ TxBytes \subseteq P!Bytes
    BY <1>1, PartsAssumption, Same DEF Types
  <2>2. ASSUME NEW byte \in TxBytes, tx' = Append(tx, byte)
        PROVE  tx' \in Seq(P!Bytes) /\ (tx # <<>> => tx' # <<>> /\ Head(tx') = Head(tx))
    <3>1. byte \in P!Bytes
      BY <2>1
    <3>2. tx' \in Seq(P!Bytes) /\ tx' # <<>> /\ Len(tx) \in Nat
      BY <2>1, <2>2, <3>1, AppendProperties
    <3>3. tx # <<>> => Head(tx) = tx[1] /\ Head(tx') = tx'[1] /\ Len(tx) # 0
      BY <2>1, <3>2, HeadTailProperties, EmptySeq
    <3>4. tx # <<>> => tx'[1] = tx[1]
      BY <2>1, <2>2, <3>1, <3>2, <3>3, AppendProperties
    <3> QED
      BY <3>2, <3>3, <3>4
  <2> QED
    BY <1>2, <2>1, <2>2
<1>5. SoftwareStep
  BY <1>1, <1>2 DEF SoftwareStep, controller, lines, monitor, Types, NackIsSeen
<1>6. Program' /\ SameProgram
  BY <1>1, <1>2
  DEF controller, lines, Program, Follow, ReadNext, StartNext, SameProgram, Reading, Writing,
      Ending,
      TopReads, TopStarts, NextReads, NextStarts, P!Top, P!host_nack
<1> QED
  BY <1>3, <1>4, <1>5, <1>6, SoftwareKeepsJoint

\* Every step keeps both, and is one of the controller that is alone on the bus.
LEMMA JointStep ==
  ASSUME Timing, Software, P!IInv, Joint, [Next]_vars
  PROVE  [P!Next]_P!vars /\ P!IInv' /\ Joint'
<1>1. CASE Edge
  BY <1>1, JointEdgeStep DEF P!Next
<1>2. CASE SwWrite
  BY <1>2, SwWriteJoint DEF P!Next
<1>3. CASE SwControl
  BY <1>3, SwControlJoint DEF P!Next
<1>4. CASE SwReadAcq \/ SwWriteTx \/ UNCHANGED vars
  BY <1>4, SwFifoJoint
<1> QED
  BY <1>1, <1>2, <1>3, <1>4 DEF Next

\* Both invariants hold in the core.
THEOREM JointInvariance ==
  ASSUME Timing, Software
  PROVE  Spec => [](P!IInv /\ Joint)
<1>1. Init => P!IInv /\ Joint
  <2> SUFFICES ASSUME Init PROVE P!IInv /\ Joint
    OBVIOUS
  <2>1. P!IInv
    <3>1. P!Init
      BY DEF Init, C!Init, P!Init
    <3> QED
      BY <3>1, ControllerAssumptions, P!InitIInv
  <2>2. /\ st = "Idle" /\ t_st = "Idle" /\ t_bit_idx = 0 /\ pulses = 0 /\ ~open /\ scl /\ scl_q
        /\ ~trans_started /\ ~pend_restart /\ ~auto_stop /\ ~nak_expired /\ events = {}
        /\ others = TRUE /\ ~m_start_pending /\ ~m_stop_pending /\ fmt = <<>> /\ writer = "start"
        /\ tx = <<>> /\ input_byte = 0 /\ host_ack = FALSE /\ reads = FALSE
        /\ m_start_pending = FALSE /\ m_stop_pending = FALSE
        /\ t_rw_bit = FALSE /\ t_xfer_for_us = FALSE /\ t_nack_transaction = FALSE
    BY DEF Init, C!Init, T!Init
  <2>3. ByteBits # 0 /\ 0 \in P!Bytes
    BY PartsAssumption, ControllerAssumptions, P!PowerIsNat DEF P!Bytes
  <2>4. Program /\ SameBit
    BY <2>2, EmptySeq DEF Program, SameBit
  <2>5. Types
    BY <2>2, <2>3, EmptySeq DEF Types, T!States
  <2>6. StartIsSeen /\ StopIsSeen /\ NackIsSeen
    BY <2>2 DEF StartIsSeen, StopIsSeen, NackIsSeen, P!unhandled_nak
  <2>7. InTime
    BY <2>2 DEF InTime, target_sda_o, AckPulses, AckHolds, AddrAck, AcquireAck, SendSetup,
                T!Stretching, T!AckStates
  <2>8. Receives /\ Sends
    BY <2>2 DEF Receives, Sends, AckPulses, AckHolds, AddrAck, AcquireAck, SendSetup, Sending,
                P!Starting, P!WriteBits
  <2>9. SameData
    BY <2>2, <2>3 DEF SameData, AckHolds, P!WriteBits, P!ReadBits
  <2> QED
    BY <2>1, <2>4, <2>5, <2>6, <2>7, <2>8, <2>9 DEF Joint
<1>2. P!IInv /\ Joint /\ [Next]_vars => P!IInv' /\ Joint'
  BY JointStep
<1> QED
  BY <1>1, <1>2, PTL DEF Spec

\* The core does with its controller only what a controller alone on the bus does, the
\* lines being as a protocol-keeping target drives them: the target next to it is one.
THEOREM CoreIsLoneController ==
  ASSUME Timing, Software
  PROVE  Spec => P!Spec
<1>1. Init => P!Init
  BY DEF Init, C!Init, P!Init
<1>2. P!IInv /\ Joint /\ [Next]_vars => [P!Next]_P!vars
  BY JointStep
<1> QED
  BY <1>1, <1>2, JointInvariance, PTL DEF Spec, P!Spec

\* Hence, in the core, an entry leaves the FMT FIFO when exactly its bytes were
\* transferred, the RX FIFO takes what was on the bus, a NACK halts the controller, and
\* the bus sees nothing but transactions.
THEOREM CoreKeepsBus ==
  ASSUME Timing, Software
  PROVE  /\ Spec => []P!EntryServed
         /\ Spec => P!RxIsOnBus
         /\ Spec => P!NackHalts
         /\ Spec => P!ImplementsBus
<1>1. P!Spec => []P!EntryServed
  BY OneController, ControllerAssumptions, P!EntryServedHolds, PTL
<1>2. P!Spec => P!RxIsOnBus
  BY OneController, ControllerAssumptions, P!RxIsOnBusHolds, PTL
<1>3. P!Spec => P!NackHalts
  BY OneController, ControllerAssumptions, P!NackHaltsHolds, PTL
<1>4. P!Spec => P!ImplementsBus
  BY OneController, ControllerAssumptions, P!ControllerIsBus, PTL
<1> QED
  BY <1>1, <1>2, <1>3, <1>4, CoreIsLoneController, PTL

\* Nothing that the target drives looks like a START or STOP.
THEOREM SymbolsIntendedHolds ==
  ASSUME Timing, Software
  PROVE  Spec => []SymbolsIntended
<1>1. P!IInv => SymbolsIntended
  <2> SUFFICES ASSUME P!IInv PROVE SymbolsIntended
    OBVIOUS
  <2>1. C!StartSeen = P!StartSeen /\ C!StopSeen = P!StopSeen
    BY Same DEF C!StartSeen, P!StartSeen, C!StopSeen, P!StopSeen
  <2>2. (P!StartSeen => st = "HoldStart") /\ (P!StopSeen => st = "HoldStop")
    BY ControllerAssumptions, P!Symbols
  <2> QED
    BY <2>1, <2>2 DEF SymbolsIntended
<1> QED
  BY <1>1, JointInvariance, PTL

\* The controller sees an ACK exactly when the target gives one.
THEOREM AcksAgreeHolds ==
  ASSUME Timing, Software
  PROVE  Spec => []AcksAgree
<1>1. P!IInv /\ Joint => AcksAgree
  <2> SUFFICES ASSUME P!IInv, Joint, st = "ClockPulseAck", ~scl_q, scl
               PROVE  C!sda <=> t_st \notin T!AckStates
    BY DEF AcksAgree, sda
  <2>1. t_st \in {"AddrAckSetup", "AcquireAckSetup", "WaitForStop"}
    BY AckMoment
  <2>2. others = target_sda_o /\ sda_fsm_q
    BY DEF Joint, InTime, P!IInv, P!DataLine
  <2>3. target_sda_o <=> t_st \notin T!AckStates
    BY <2>1 DEF target_sda_o, T!AckStates
  <2> QED
    BY <2>2, <2>3, Same DEF P!sda
<1> QED
  BY <1>1, JointInvariance, PTL

\* The level of the ACQ FIFO is a number.
LEMMA AcqDepth == Spec => [](acq_depth \in Nat)
<1>1. Init => acq_depth \in Nat
  BY DEF Init, T!Init
<1>2. acq_depth \in Nat /\ [Next]_vars => (acq_depth \in Nat)'
  <2> SUFFICES ASSUME acq_depth \in Nat, [Next]_vars PROVE acq_depth' \in Nat
    OBVIOUS
  <2>1. CASE Edge
    <3>1. T!Fifos(bus_event, FALSE)
      BY <2>1 DEF Edge, Cycle, TargetStep
    <3>2. acq_depth' = acq_depth + 1 \/ acq_depth' = acq_depth
      BY <3>1 DEF T!Fifos
    <3> QED
      BY <3>2
  <2>2. CASE SwReadAcq
    BY <2>2 DEF SwReadAcq
  <2>3. CASE ~Edge /\ ~SwReadAcq
    BY <2>3 DEF Next, SwWrite, SwControl, SwWriteTx, vars, target
  <2> QED
    BY <2>1, <2>2, <2>3
<1> QED
  BY <1>1, <1>2, PTL DEF Spec

\* What the target has recorded in the ACQ FIFO.
LEMMA WriteArrivesStep ==
  ASSUME Timing, P!IInv, Joint, acq_depth \in Nat, [Next]_vars
  PROVE  WriteArrives
<1> SUFFICES ASSUME acq_depth' > acq_depth, t_last' \in T!Log!Write \cup T!Log!Read
             PROVE  input_byte = word /\ acked
  BY DEF WriteArrives
<1>1. Edge
  BY DEF Next, SwWrite, SwControl, SwReadAcq, SwWriteTx, vars, target
<1>2. T!Fifos(bus_event, FALSE)
  BY <1>1 DEF Edge, Cycle, TargetStep
<1> DEFINE e == T!Entry(bus_event, FALSE)
<1>3. e # None /\ t_last' = e
  <2>1. /\ acq_depth' = IF e # None /\ acq_depth < AcqFifoDepth THEN acq_depth + 1 ELSE acq_depth
        /\ e # None /\ acq_depth < AcqFifoDepth => t_last' = e
    BY <1>2 DEF T!Fifos, T!Disabled
  <2> HIDE DEF e
  <2> QED
    BY <2>1
<1>4. e = T!FsmEntry(FALSE)
  BY <1>3 DEF T!Entry, T!Log!Write, T!Log!Read
<1>5. t_st \in {"AddrAckHold", "StretchAddr", "AcquireAckHold"}
  BY <1>3, <1>4 DEF T!FsmEntry, T!Log!Write, T!Log!Read
<1> QED
  BY <1>5 DEF Joint, SameData, AckHolds

\* What the controller reads from the target.
LEMMA ReadArrivesStep ==
  ASSUME Timing, Software, P!IInv, Joint, [Next]_vars
  PROVE  ReadArrives
<1> SUFFICES ASSUME st = "ReadHoldBit", st' = "HostClockLowAck",
                    t_xfer_for_us, ~t_nack_transaction
             PROVE  tx # <<>> /\ read_byte = Head(tx)
  BY DEF ReadArrives
<1>1. Edge
  BY DEF Next, SwWrite, SwControl, SwReadAcq, SwWriteTx, vars, controller, C!SwWrite, C!SwClear,
         C!SwReset, C!SwEnable, C!SwDisable, C!fsm
<1>2. PICK done \in BOOLEAN, free \in BOOLEAN : JointEdge(done, free)
  BY <1>1, CoreTurn
<1>3. /\ StartIsSeen /\ StopIsSeen /\ InTime /\ Receives /\ Sends /\ Path /\ Registers
      /\ Turn(done, free) /\ t_st \in T!States
  BY <1>2, EdgeFacts DEF Joint, Types
<1>4. /\ pulses \in 0 .. ByteBits /\ ByteBits \in Nat /\ ByteBits >= 1 /\ scl_q \in BOOLEAN
      /\ word \in P!Bytes /\ tx \in Seq(P!Bytes) /\ open
      /\ P!Top.read /\ ~P!Top.start
  BY PartsAssumption, ControllerAssumptions, P!TopFacts
  DEF P!IInv, P!TypeOK, P!lines, P!Control, P!Seen, P!ReadBits, P!Between, P!Starting,
      Joint, Types
<1>5. ~scl /\ pulses' = ByteBits
  BY <1>3 DEF Turn, P!Moves, P!Timed, P!Goto, P!Stay, P!AutoStopNow, P!Idle, P!Active,
     P!PopFmtFifo, P!Clock, P!BitCount, P!SclFalls
<1>6. read_byte = word' /\ word' \in P!Bytes
  <2>1. read_byte = word' % 2^pulses' /\ word' \in P!Bytes
    BY <1>2, <1>5, ControllerAssumptions, P!ReadBit, P!WordStep DEF JointEdge
  <2> QED
    BY <1>5, <2>1, ControllerAssumptions, P!WholeByte
<1>7. pulses = IF scl_q THEN ByteBits - 1 ELSE ByteBits
  <2>1. /\ pulses' = IF scl_q THEN IF pulses = ByteBits THEN 0 ELSE pulses + 1 ELSE pulses
    BY <1>3, <1>5 DEF Turn, P!SclFalls
  <2> QED
    BY <1>4, <1>5, <2>1
<1>8. ~scl_q => word' = word
  BY <1>2, ControllerAssumptions, P!WordStep DEF JointEdge
\* Where the target is then.
<1>9. t_st \notin {"Idle", "AcquireStart", "AddrRead", "WaitForStop"}
  <2>1. ~m_start_pending /\ t_st # "AcquireStart" /\ t_st # "Idle"
    BY <1>3, <1>4 DEF StartIsSeen
  <2>2. ~Ending
    BY DEF Ending, P!Starting, P!Stopping
  <2> QED
    BY <1>3, <1>4, <2>1, <2>2 DEF Receives, Sends
<1>10. t_st \notin AddrAck \cup AcquireAck \cup AckPulses \cup AckHolds
                   \cup {"AcquireByte", "StretchAddr"}
  <2>1. ~Writing
    BY DEF Writing, P!WriteBits, P!Starting, P!Stopping
  <2>2. ByteBits # 0
    BY <1>4
  <2>3. t_st \notin AddrAck \cup AcquireAck \cup AckPulses \cup AckHolds
    BY <1>3 DEF Receives
  <2>4. t_st # "AcquireByte"
    BY <1>3, <2>1 DEF Receives
  <2>5. t_st = "StretchAddr" => ~scl_q /\ pulses = 0
    BY <1>3 DEF Receives, InTime
  <2> QED
    BY <1>7, <2>2, <2>3, <2>4, <2>5
<1>11. t_st \in {"TransmitPulse", "TransmitHold", "TransmitAck"}
  <2>1. t_st \notin SendSetup
    <3>1. t_st \in SendSetup => ~scl_q /\ pulses < ByteBits
      BY <1>3 DEF InTime, Sends
    <3> QED
      BY <1>4, <1>7, <3>1
  <2>2. t_st # "TransmitAckPulse"
    BY <1>3 DEF Sends
  <2> QED
    BY <1>3, <1>9, <1>10, <2>1, <2>2
    DEF T!States, T!Stretching, T!AckStates, T!TransmitStates, AddrAck, AcquireAck, AckPulses,
        AckHolds, SendSetup
<1>12. CASE ~scl_q
  <2>1. tx # <<>> /\ word % 2^ByteBits = Head(tx) \div 2^(ByteBits - ByteBits)
    BY <1>3, <1>7, <1>11, <1>12 DEF Sends, Sending
  <2>2. ByteBits - ByteBits = 0 /\ Head(tx) \in P!Bytes
    BY <1>4, <2>1, HeadTailProperties
  <2> QED
    BY <1>4, <1>6, <1>8, <1>12, <2>1, <2>2, ControllerAssumptions, P!WholeByte
<1>13. CASE scl_q
  <2>1. t_st = "TransmitPulse"
    BY <1>3, <1>11, <1>13 DEF InTime
  <2>2. ~m_start_pending /\ ~m_stop_pending
    BY <1>3, <1>4 DEF StartIsSeen, StopIsSeen
  <2>3. t_st' \in Sending /\ tx' = tx
    BY <1>3, <2>1, <2>2 DEF Path, Registers, Sending
  <2>4. tx # <<>> /\ word' % 2^ByteBits = Head(tx) \div 2^(ByteBits - ByteBits)
    BY <1>2, <1>5, <2>3, SentBitsStep
  <2>5. ByteBits - ByteBits = 0 /\ Head(tx) \in P!Bytes
    BY <1>4, <2>4, HeadTailProperties
  <2> QED
    BY <1>6, <2>4, <2>5, ControllerAssumptions, P!WholeByte
<1> QED
  BY <1>4, <1>12, <1>13

\* End to end: what the controller writes is what the target records, and what it reads
\* is what software gave the target to send.
THEOREM BytesArriveHolds ==
  ASSUME Timing, Software
  PROVE  Spec => BytesArrive
<1>1. P!IInv /\ Joint /\ acq_depth \in Nat /\ [Next]_vars => [WriteArrives /\ ReadArrives]_vars
  BY WriteArrivesStep, ReadArrivesStep
<1> QED
  BY <1>1, JointInvariance, AcqDepth, PTL DEF Spec, BytesArrive

------------------------------------------------------------------------------
(* The bus that the monitor reports free.                                   *)

\* The controller's delays end three cycles before a bus timeout would; an inactive
\* timeout of one or two cycles is shorter than any pulse (TLC finds both needed).
FreeTiming == InactiveTimeout \notin {1, 2} /\ Margin >= 3

\* What the monitor does with a clock edge: in multi-controller mode it begins with a
\* busy bus, and with the active timeout off it leaves BusBusyLow for an idle bus or a
\* STOP only.
LEMMA MonitorTurn ==
  ASSUME Timing, Multi, Types, StartIsSeen, StopIsSeen, MonitorStep,
         m_release_cnt \in Nat, ~m_active_det
  PROVE  /\ m_enable_q' /\ ~m_active_det' /\ m_release_cnt' \in Nat
         /\ m_st' \in {"BusFree", "BusBusyLow", "BusBusyHigh", "BusBusyStop"}
         /\ m_st' = "BusBusyHigh" =>
              \/ m_release_cnt' = InactiveTimeout /\ (~m_enable_q \/ scl)
              \/ /\ m_st = "BusBusyHigh" /\ scl /\ (sda <=> sda_q)
                 /\ m_release_cnt' = IF m_release_cnt > 0 THEN m_release_cnt - 1 ELSE 0
         /\ m_st' \in {"BusFree", "BusBusyStop"} =>
              \/ m_stop_pending /\ m_st' = "BusBusyStop"
              \/ m_st \in {"BusFree", "BusBusyStop"} /\ scl /\ sda
              \/ m_st = "BusBusyHigh" /\ m_release_cnt = 1 /\ scl /\ sda /\ sda_q
<1>1. M!stop_det <=> m_stop_pending
  BY DEF M!stop_det, M!monitor_enable, Timing, StopIsSeen
<1>2. /\ m_enable_q' = TRUE
      /\ M!Enabled \/ (~M!EnableEdge /\ M!StateStep)
      /\ m_active_det' = M!active_det_d
  BY DEF MonitorStep
<1>3. m_enable_q' /\ ~m_active_det'
  BY <1>2 DEF M!active_det_d, Timing
<1>4. {TBuf, ActiveTimeout, InactiveTimeout} \subseteq Nat
  BY PartsAssumption
<1>5. CASE M!Enabled
  BY <1>3, <1>4, <1>5 DEF M!Enabled, M!EnableEdge, M!Load
<1>6. CASE M!StateStep
  BY <1>1, <1>3, <1>4, <1>6
  DEF M!StateStep, M!BusFree, M!StopDetected, M!BusBusyLow, M!BusBusyHigh, M!BusBusyStop,
      M!To, M!Load, M!Keep, M!Down, M!monitor_enable, M!InactiveExpires, M!bus_idling
<1> QED
  BY <1>2, <1>5, <1>6

\* A free bus has no open transaction, and neither has one that is about to become free:
\* as long as a transaction is open, the controller ends the time in which both lines
\* are high before the inactive timeout does.
Released ==
  /\ m_release_cnt \in Nat /\ ~m_active_det
  /\ ~m_enable_q => scl
  /\ m_st = "BusBusyHigh" => scl_q
  /\ m_st \in {"BusFree", "BusBusyStop"} => ~open /\ t_st = "Idle"
  /\ scl_q /\ (st \in P!SclRises \/ (st = "SetupStart" /\ trans_started)) => ~loaded
  /\ m_st = "BusBusyHigh" /\ open /\ scl /\ P!sda /\ sda_q =>
       /\ m_release_cnt # 1
       /\ st \in P!Pulses \cup {"SetupStart"} => m_release_cnt # 2

\* With both lines high for two cycles of an open transaction, the controller is in a
\* pulse or before a repeated START.
LEMMA OpenAndHigh ==
  ASSUME P!IInv, open, scl, scl_q, P!sda, sda_q
  PROVE  \/ st \in P!Pulses \/ (st = "SetupStart" /\ trans_started)
         \/ st \in P!SclFalls \cup {"HoldStart"}
<1>1. P!Clock /\ P!DataLine /\ P!Seen /\ st \in P!States /\ scl \in BOOLEAN /\ scl_q \in BOOLEAN
      /\ trans_started \in BOOLEAN
  BY DEF P!IInv, P!TypeOK, P!lines
<1> QED
  BY <1>1 DEF P!Clock, P!DataLine, P!Seen, P!States, P!SclLow, P!SclRises, P!SclFalls, P!Between,
     P!Pulses

\* Then the controller ends that time: at once, or when its delay is over.
LEMMA HighEnds ==
  ASSUME P!IInv, NEW done \in BOOLEAN, NEW free \in BOOLEAN, P!QuietEdge(done, free),
         open, scl, scl_q, P!sda, sda_q, scl', P!sda'
  PROVE  /\ st \in P!Pulses \/ (st = "SetupStart" /\ trans_started)
         /\ done => st' \notin P!Pulses \cup {"SetupStart"}
<1>1. P!Clock /\ P!DataLine /\ P!Moves(done, free) /\ (scl' => P!scl_o)
  BY DEF P!QuietEdge, P!IInv
<1>2. st \notin P!SclFalls
  BY <1>1 DEF P!scl_o, P!SclFalls, P!Pulses, P!host_idle
<1>3. st # "HoldStart"
  <2>1. sda_fsm_q' = P!sda_o
    BY DEF P!QuietEdge
  <2> QED
    BY <2>1 DEF P!sda, P!sda_o
<1>4. st \in P!Pulses \/ (st = "SetupStart" /\ trans_started)
  BY <1>2, <1>3, OpenAndHigh
<1>5. done => st' \notin P!Pulses \cup {"SetupStart"}
  BY <1>1, <1>4 DEF P!Moves, P!Pulses, P!Timed, P!Goto
<1> QED
  BY <1>4, <1>5

\* A clock edge keeps the bus reported free without a transaction.
LEMMA ReleasedEdge ==
  ASSUME Timing, FreeTiming, Multi, P!IInv, Joint, Released, Edge
  PROVE  Released'
<1>1. PICK done \in BOOLEAN, free \in BOOLEAN : JointEdge(done, free) /\ done \in Delays
  BY CoreTurn
<1>2. P!QuietEdge(done, free) /\ MonitorStep
  BY <1>1 DEF JointEdge
<1>3. /\ scl_q' = scl /\ sda_q' = P!sda /\ scl \in BOOLEAN /\ P!Clock /\ P!Moves(done, free)
      /\ loaded' = (st' # st \/ (P!stretch_en /\ ~scl))
      /\ open' <=> P!StartSeen \/ (open /\ ~P!StopSeen)
      /\ trans_started' = IF trans_started /\ ~host_enable THEN FALSE
                          ELSE (st = "SetupStart" /\ done) \/ (trans_started /\ ~P!log_stop)
  BY <1>2 DEF P!QuietEdge, P!Observer, P!IInv, P!TypeOK, P!lines
<1>4. Path /\ StartIsSeen /\ StopIsSeen /\ Types
  BY <1>1, EdgeFacts DEF Joint
<1>5. m_release_cnt \in Nat /\ ~m_active_det /\ sda = P!sda
  BY Same DEF Released, sda
<1>6. /\ m_enable_q' /\ ~m_active_det' /\ m_release_cnt' \in Nat
      /\ m_st' = "BusBusyHigh" =>
           \/ m_release_cnt' = InactiveTimeout /\ (~m_enable_q \/ scl)
           \/ /\ m_st = "BusBusyHigh" /\ scl /\ (sda <=> sda_q)
              /\ m_release_cnt' = IF m_release_cnt > 0 THEN m_release_cnt - 1 ELSE 0
      /\ m_st' \in {"BusFree", "BusBusyStop"} =>
           \/ m_stop_pending /\ m_st' = "BusBusyStop"
           \/ m_st \in {"BusFree", "BusBusyStop"} /\ scl /\ sda
           \/ m_st = "BusBusyHigh" /\ m_release_cnt = 1 /\ scl /\ sda /\ sda_q
  BY <1>2, <1>4, <1>5, MonitorTurn
<1>7. m_st' = "BusBusyHigh" => scl_q'
  BY <1>3, <1>6 DEF Released
<1>8. scl_q' /\ (st' \in P!SclRises \/ (st' = "SetupStart" /\ trans_started')) => ~loaded'
  BY <1>3
  DEF Released, P!Clock, P!Moves, P!Timed, P!Goto, P!Stay, P!AutoStopNow, P!Idle, P!Active,
      P!PopFmtFifo, P!EntryDone, P!SclRises, P!SclLow, P!SclFalls, P!Between, P!Pulses,
      P!stretch_en
<1>9. m_st' \in {"BusFree", "BusBusyStop"} => ~open' /\ t_st' = "Idle"
  <2>1. CASE m_stop_pending
    <3>1. ~open /\ st # "HoldStart"
      BY <1>4, <2>1 DEF StopIsSeen
    <3>2. ~P!StartSeen
      BY <3>1, ControllerAssumptions, P!Symbols
    <3> QED
      BY <1>3, <1>4, <2>1, <3>1, <3>2 DEF Path
  <2>2. CASE ~m_stop_pending /\ m_st' \in {"BusFree", "BusBusyStop"}
    <3>1. P!sda
      BY <1>5, <1>6, <2>2
    <3>2. ~open
      BY <1>5, <1>6, <2>2 DEF Released
    <3>3. ~P!StartSeen
      BY <3>1 DEF P!StartSeen
    <3>4. t_st = "Idle" /\ ~m_start_pending
      BY <1>4, <2>2, <3>2 DEF StartIsSeen, StopIsSeen
    <3> QED
      BY <1>3, <1>4, <2>2, <3>2, <3>3, <3>4 DEF Path
  <2> QED
    BY <2>1, <2>2
<1>10. ASSUME m_st' = "BusBusyHigh", open', scl', P!sda', sda_q'
       PROVE  /\ m_release_cnt' # 1
              /\ st' \in P!Pulses \cup {"SetupStart"} => m_release_cnt' # 2
  <2>1. CASE m_release_cnt' = InactiveTimeout
    BY <2>1 DEF FreeTiming
  <2>2. CASE /\ m_st = "BusBusyHigh" /\ scl /\ (sda <=> sda_q)
             /\ m_release_cnt' = IF m_release_cnt > 0 THEN m_release_cnt - 1 ELSE 0
    <3>1. open /\ scl /\ scl_q /\ P!sda /\ sda_q
      <4>1. P!sda /\ sda_q
        BY <1>3, <1>5, <1>10, <2>2
      <4> QED
        BY <1>3, <1>10, <2>2, <4>1 DEF P!StartSeen, Released
    <3>2. /\ st \in P!Pulses \/ (st = "SetupStart" /\ trans_started)
          /\ done => st' \notin P!Pulses \cup {"SetupStart"}
      BY <1>2, <1>10, <3>1, HighEnds
    <3>3. m_release_cnt # 1 /\ m_release_cnt # 2
      BY <2>2, <3>1, <3>2 DEF Released
    <3>4. m_release_cnt = 3 => done
      <4> SUFFICES ASSUME m_release_cnt = 3
                   PROVE  done
        OBVIOUS
      <4>1. m_release_cnt <= Margin
        BY PartsAssumption DEF FreeTiming
      <4>2. done = (TRUE \in C!Expiries)
        BY <1>1, <2>2, <4>1 DEF Delays
      <4>3. ~loaded
        BY <3>1, <3>2 DEF Released, P!SclRises
      <4>4. st \in C!Waits
        BY <3>2 DEF C!Waits, C!States, C!Pulses, P!Pulses
      <4>5. TRUE \in C!Expiries
        BY <3>1, <4>3, <4>4 DEF C!Expiries
      <4> QED
        BY <4>2, <4>5
    <3> QED
      BY <1>5, <2>2, <3>2, <3>3, <3>4
  <2> QED
    BY <1>6, <1>10, <2>1, <2>2
<1> QED
  BY <1>6, <1>7, <1>8, <1>9, <1>10 DEF Released

\* So does every step.
LEMMA ReleasedStep ==
  ASSUME Timing, FreeTiming, Multi, P!IInv, Joint, Released, [Next]_vars
  PROVE  Released'
<1>1. CASE Edge
  BY <1>1, ReleasedEdge
<1>2. CASE ~Edge
  <2>1. UNCHANGED <<st, loaded, trans_started, scl, scl_q, sda_fsm_q, others, sda_q, open,
                    t_st, monitor>>
    BY <1>2 DEF Next, SwWrite, C!SwWrite, SwControl, C!SwClear, C!SwReset, C!SwEnable,
                C!SwDisable, SwReadAcq, SwWriteTx, vars, C!fsm, C!lines, C!observer, controller,
                lines, target
  <2> QED
    BY <2>1 DEF monitor, Released, P!sda
<1> QED
  BY <1>1, <1>2

\* A bus that the monitor reports free has no open transaction, whatever the delays of the
\* controller, as long as they are shorter than the bus timeouts.
THEOREM FreeIsClosedHolds ==
  ASSUME Timing, Software, FreeTiming
  PROVE  Spec => []FreeIsClosed
<1>1. CASE ~Multi
  <2>1. FreeIsClosed
    BY <1>1 DEF FreeIsClosed
  <2> QED
    BY <2>1, PTL
<1>2. CASE Multi
  <2>1. Init => Released
    BY DEF Init, C!Init, T!Init, Released, P!SclRises, P!Pulses
  <2>2. P!IInv /\ Joint /\ Released /\ [Next]_vars => Released'
    BY <1>2, ReleasedStep
  <2>3. Released => FreeIsClosed
    BY DEF Released, FreeIsClosed, M!bus_free, T!target_idle
  <2> QED
    BY <2>1, <2>2, <2>3, JointInvariance, PTL DEF Spec
<1> QED
  BY <1>1, <1>2
==============================================================================
