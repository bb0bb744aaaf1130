-------------------------------- MODULE I2cCore --------------------------------
(****************************************************************************)
(* rtl/i2c_core.sv: the controller FSM, the target FSM and the bus monitor  *)
(* of one I2C block, on a bus with no other device: software makes the      *)
(* controller talk to the target.  Edge is one clock edge of all three,     *)
(* each the steps of its own module; what these leave to their inputs is    *)
(* here what the wiring says: the lines are what the two FSMs drive, START, *)
(* STOP and bus timeout are what the monitor detects, and the target        *)
(* assembles bytes from SDA and sends those of its TX FIFO.                 *)
(*                                                                          *)
(* As in I2cControllerFsm the delays of the controller are as long as they  *)
(* like and the lines come back one cycle after they were driven.  ACK      *)
(* control and the gate of reads are off (I2cTargetFsm has them).           *)
(****************************************************************************)
EXTENDS Integers, Sequences

CONSTANTS ByteBits, FmtFifoDepth, Entries,      \* of I2cControllerFsm
          AcqFifoDepth, TxFifoDepth, THold, TSetup, NackTimeout,  \* of I2cTargetFsm
          TxBytes,                              \* ... what software writes to TXDATA
          Config,                               \* ... the setting of its options
          ThdDat, TBuf, ActiveTimeout, ActiveTimeoutEn, InactiveTimeout,  \* of I2cBusMonitor
          Multi,                                \* CTRL.MULTI_CONTROLLER_MONITOR_EN
          Margin,                               \* the controller's delays end so much earlier
          Address,                              \* TARGET_ID
          None

ASSUME NoneAssumption == None \notin {"start", "stop", "timeout", "arbitration"}

VARIABLES
  \* The controller, its registers and its observer of the bus, with the lines:
  \* others is what the target drives on SDA, sda_q of its FSM.
  st, loaded, bit_index, byte_index, read_byte, trans_started, pend_restart, auto_stop,
  nak_expired, fmt, events, host_enable, scl, scl_q, sda_fsm_q, others, sda_q, writer,
  open, symbol, pulses, word, acked, bytes,
  \* The target.
  t_st, t_bit_idx, t_tcount, t_stretch_cnt, t_restart_det, t_xact_for_us, t_xfer_for_us,
  t_nack_transaction, t_rw_bit, t_tx_events, t_last, acq_depth,
  input_byte, host_ack,        \* the byte received, the controller's last ACK
  tx,                          \* the TX FIFO
  reads,                       \* software: the address written last asks for a read
  \* The bus monitor.
  m_enable_q, m_start_pending, m_stop_pending, m_det_count, m_release_cnt, m_active_det, m_st

C == INSTANCE I2cControllerFsm WITH
  OtherControllers <- TRUE, BusTimeouts <- TRUE, Disables <- FALSE, Hasty <- FALSE

T == INSTANCE I2cTargetFsm WITH
  Configs <- {Config}, SwOps <- {}, AutoAckRange <- 1, AutoAckLoads <- {0},
  BusEvents <- {"start", "stop", "timeout"},
  enable <- TRUE, cfg <- Config, st <- t_st, bit_idx <- t_bit_idx, tcount <- t_tcount,
  stretch_cnt <- t_stretch_cnt, restart_det <- t_restart_det,
  xact_for_us <- t_xact_for_us, xfer_for_us <- t_xfer_for_us,
  nack_transaction <- t_nack_transaction, rw_bit <- t_rw_bit, tx_events <- t_tx_events,
  tx_level <- Len(tx), last <- t_last,
  auto_ack_cnt <- 0, granted <- 0, acked <- FALSE, rose <- FALSE

sda == C!sda
M == INSTANCE I2cBusMonitor WITH
  side <- TRUE, multi <- Multi, LegalBus <- TRUE, monitor_enable_q <- m_enable_q,
  start_pending <- m_start_pending, stop_pending <- m_stop_pending,
  det_count <- m_det_count, release_cnt <- m_release_cnt, active_det <- m_active_det,
  st <- m_st, symbol <- None, held <- 0, watched <- FALSE, low <- 0, still <- 0

\* Of the parts' assumptions those that their theorems need, and what TXDATA takes.
ASSUME PartsAssumption ==
  /\ ByteBits \in Nat /\ ByteBits >= 1
  /\ FmtFifoDepth \in Nat /\ FmtFifoDepth >= 1
  /\ Entries \subseteq
       {e \in C!FmtEntry : (e.read => ~e.start) /\ (e.rcont => e.read /\ ~e.stop)}
  /\ TxBytes \subseteq C!Bytes
  /\ {ThdDat, TBuf, ActiveTimeout, InactiveTimeout, Margin} \subseteq Nat

controller == <<st, loaded, bit_index, byte_index, read_byte, trans_started, pend_restart,
                auto_stop, nak_expired, fmt, events, host_enable, writer,
                open, symbol, pulses, word, acked, bytes>>
lines == <<scl, scl_q, sda_fsm_q, others, sda_q>>
target == <<t_st, t_bit_idx, t_tcount, t_stretch_cnt, t_restart_det, t_xact_for_us,
            t_xfer_for_us, t_nack_transaction, t_rw_bit, t_tx_events, t_last, acq_depth,
            input_byte, host_ack, tx>>
monitor == <<m_enable_q, m_start_pending, m_stop_pending, m_det_count, m_release_cnt,
             m_active_det, m_st>>
vars == <<controller, lines, target, monitor, reads>>
------------------------------------------------------------------------------
(* The wires between them.                                                  *)

\* address_match: a byte is an address and the R/W bit.
address_match == input_byte \div 2 = Address
hit == t_st = "AddrRead" /\ T!bit_ack /\ address_match

\* The bus condition the target acts on.
bus_event == IF M!stop_det THEN "stop"
             ELSE IF M!event_bus_active_timeout THEN "timeout"
             ELSE IF M!start_det THEN "start" ELSE None

tx_bit == (Head(tx) \div 2^(ByteBits - 1 - t_bit_idx)) % 2 = 1

\* Mutant of target_sda_o: a bit is driven only until SCL rises.
target_sda_o_short ==
  CASE t_st \in T!AckStates -> FALSE
    [] t_st \in {"TransmitSetup", "StretchTxSetup"} -> tx_bit
    [] OTHER -> TRUE

\* Mutant of target_sda_o: the ACK is driven from the rise of SCL only.
target_sda_o_late ==
  CASE t_st \in T!AckStates \ {"AddrAckSetup", "AcquireAckSetup"} -> FALSE
    [] t_st \in {"TransmitSetup", "StretchTxSetup"} -> tx_bit
    [] t_st \in {"TransmitPulse", "TransmitHold"} -> others
    [] OTHER -> TRUE

\* sda_o of the target.
target_sda_o ==
  CASE t_st \in T!AckStates -> FALSE
    [] t_st \in {"TransmitSetup", "StretchTxSetup"} -> tx_bit
    [] t_st \in {"TransmitPulse", "TransmitHold"} -> others
    [] OTHER -> TRUE

\* "Drive 0 if any FSM requests it."
scl_o == C!scl_o /\ T!scl_o

\* Mutant of TargetData: the acknowledge bit is shifted in as well.
TargetDataAck ==
  LET rise == ~scl_q /\ scl
  IN /\ input_byte' = IF t_st = "AcquireStart" /\ ~scl THEN 0
                      ELSE IF rise THEN C!Shift(input_byte, sda) ELSE input_byte
     /\ host_ack' = IF rise /\ T!bit_ack THEN ~sda ELSE host_ack
     /\ tx' = IF t_st = "TransmitAckPulse" /\ ~scl /\ tx # <<>> THEN Tail(tx) ELSE tx

\* The bytes the target receives and sends: shifted in when SCL rises.
TargetData ==
  LET rise == ~scl_q /\ scl
  IN /\ input_byte' = IF t_st = "AcquireStart" /\ ~scl THEN 0
                      ELSE IF rise /\ ~T!bit_ack THEN C!Shift(input_byte, sda)
                      ELSE input_byte
     /\ host_ack' = IF rise /\ T!bit_ack THEN ~sda ELSE host_ack
     /\ tx' = IF t_st = "TransmitAckPulse" /\ ~scl /\ tx # <<>> THEN Tail(tx) ELSE tx

\* The controller acknowledged the byte, or not: the target goes on, or waits.
AckDecides ==
  bus_event = None /\ t_st = "TransmitAckPulse" /\ ~scl =>
    t_st' = IF host_ack THEN "TransmitWait" ELSE "WaitForStop"

TargetStep ==
  /\ TargetData
  /\ T!NextState(bus_event, hit, FALSE) /\ AckDecides
  /\ T!Counters(bus_event, hit, None, FALSE)
  /\ T!Tracking(bus_event, hit, input_byte % 2 = 1, FALSE)
  /\ T!Fifos(bus_event, FALSE)

MonitorStep ==
  /\ m_enable_q' = TRUE
  /\ M!Detection
  /\ M!Enabled \/ (~M!EnableEdge /\ M!StateStep)
  /\ m_active_det' = M!active_det_d

\* One clock edge; interference needs another device.
Cycle(done, expires) ==
  /\ scl' = scl_o /\ others' = target_sda_o
  /\ C!Cycle(done, M!bus_free, FALSE, expires, M!event_bus_active_timeout /\ ~C!host_idle)
  /\ TargetStep
  /\ MonitorStep

\* THIGH, TLOW, ... are programmed shorter than the bus timeouts.
Delays == IF m_st \in {"BusBusyLow", "BusBusyHigh"} /\ m_release_cnt <= Margin
          THEN {TRUE \in C!Expiries} ELSE C!Expiries

Edge ==
  /\ \E done \in Delays, expires \in BOOLEAN : Cycle(done, expires)
  /\ UNCHANGED reads
------------------------------------------------------------------------------
(* Software.                                                                *)

\* Writes FDATA: after the address come reads or data, as its R/W bit says; the
\* byte of a read is read before anything else.
SwWrite ==
  /\ C!SwWrite
  /\ LET e == fmt'[Len(fmt')]
     IN /\ writer # "start" => (e.read = reads) /\ (reads => ~e.start)
        /\ reads' = IF e.start THEN e.fbyte % 2 = 1 ELSE reads
  /\ UNCHANGED <<target, monitor>>

\* Answers an event, or switches the controller when it is idle.  Inside a
\* transaction the FMT FIFO is reset after a NACK only: an addressed target sends.
SwControl ==
  /\ \/ C!SwClear
     \/ C!unhandled_nak /\ C!SwReset
     \/ C!host_idle /\ (C!SwReset \/ C!SwEnable \/ C!SwDisable)
  /\ UNCHANGED <<target, monitor, reads>>

\* Reads ACQDATA.
SwReadAcq ==
  /\ acq_depth > 0 /\ acq_depth' = acq_depth - 1
  /\ UNCHANGED <<controller, lines, monitor, reads, t_st, t_bit_idx, t_tcount, t_stretch_cnt,
                 t_restart_det, t_xact_for_us, t_xfer_for_us, t_nack_transaction,
                 t_rw_bit, t_tx_events, t_last, input_byte, host_ack, tx>>

\* Writes TXDATA.
SwWriteTx ==
  /\ Len(tx) < TxFifoDepth
  /\ \E byte \in TxBytes : tx' = Append(tx, byte)
  /\ UNCHANGED <<controller, lines, monitor, reads, t_st, t_bit_idx, t_tcount, t_stretch_cnt,
                 t_restart_det, t_xact_for_us, t_xfer_for_us, t_nack_transaction,
                 t_rw_bit, t_tx_events, t_last, acq_depth, input_byte, host_ack>>

\* Out of reset, on a free bus, with the target enabled.
Init ==
  /\ tx = <<>> /\ input_byte = 0 /\ host_ack = FALSE /\ reads = FALSE
  /\ C!Init /\ T!Init
  /\ m_enable_q = FALSE /\ m_start_pending = FALSE /\ m_stop_pending = FALSE
  /\ m_det_count = 0 /\ m_release_cnt = 0 /\ m_active_det = FALSE /\ m_st = "BusFree"

Next == Edge \/ SwWrite \/ SwControl \/ SwReadAcq \/ SwWriteTx
Spec == Init /\ [][Next]_vars

\* The clock runs and the delays end, and software keeps reading the ACQ FIFO
\* and filling the TX FIFO.
PromptEdge == Cycle(TRUE \in C!Expiries, TRUE) /\ UNCHANGED reads
FairSpec == Spec /\ WF_vars(PromptEdge) /\ WF_vars(SwReadAcq \/ SwWriteTx)
------------------------------------------------------------------------------
(* Correctness.                                                             *)

\* What the target records as an address or as data is what the controller had
\* on the bus, and the controller has seen it ACK'd.
WriteArrives ==
  acq_depth' > acq_depth /\ t_last' \in T!Log!Write \cup T!Log!Read
    => input_byte = word /\ acked

\* A byte that the controller gives to the RX FIFO is the one on top of the TX
\* FIFO, unless the target has given up the transfer.
ReadArrives ==
  st = "ReadHoldBit" /\ st' = "HostClockLowAck" /\ t_xfer_for_us /\ ~t_nack_transaction
    => tx # <<>> /\ read_byte = Head(tx)

\* End to end: no byte of a write or of a read is changed between the two FSMs.
BytesArrive == [][WriteArrives /\ ReadArrives]_vars

\* The controller takes a byte for ACK'd exactly when the target acknowledges it.
AcksAgree == st = "ClockPulseAck" /\ ~scl_q /\ scl => (sda <=> t_st \notin T!AckStates)

\* A START or STOP is on the bus only when the controller issues it: what the
\* target drives never looks like one.
SymbolsIntended ==
  /\ C!StartSeen => st \in {"HoldStart", "ClockStart"}
  /\ C!StopSeen => st = "HoldStop"

\* The bus conditions are those under which I2cTargetFsm is checked and proved.
TargetBusCondition == T!BusCondition(bus_event)

\* A bus that is reported free has no open transaction.
FreeIsClosed == Multi /\ m_enable_q /\ M!bus_free => ~open /\ T!target_idle

\* What software asks for is done in the end: the controller gets the bus, the
\* target its service, and the entry leaves the FMT FIFO, unless the controller is
\* halted or disabled.
OrdersServed ==
  (host_enable /\ fmt # <<>>)
    ~> (st = "PopFmtFifo" \/ C!halt_controller \/ ~host_enable \/ fmt = <<>>)
==============================================================================
