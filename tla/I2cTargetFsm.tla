----------------------------- MODULE I2cTargetFsm -----------------------------
(****************************************************************************)
(* rtl/i2c_target_fsm.sv: the I2C target with the fill level of its ACQ and *)
(* TX FIFOs, and the TARGET_EVENTS gate of rtl/i2c_core.sv.  Edge is one    *)
(* clock edge; the actions named Sw... are software's register accesses,    *)
(* which take effect between two edges.                                     *)
(*                                                                          *)
(* Abstracted: a byte has ByteBits bits (8 in the RTL) of which only the    *)
(* address match and the R/W bit are kept, chosen when the address is       *)
(* complete; SCL is chosen by the bus but cannot rise while this target     *)
(* holds it; a delay is a countdown that stops at 0 (the RTL's wraps, but   *)
(* is always reloaded before it is tested again); the stretch counter stops *)
(* at NackTimeout, the only value it is compared with.                      *)
(****************************************************************************)
EXTENDS Integers

CONSTANTS AcqFifoDepth,    \* parameter AcqFifoDepth
          ByteBits,        \* bits of a byte
          THold,           \* thd_dat_i
          TSetup,          \* t_r_i + tsu_dat_i
          NackTimeout,     \* nack_timeout_i
          AutoAckRange,    \* 2^9: the range of auto_ack_cnt_q
          AutoAckLoads,    \* what software loads into NBYTES
          TxFifoDepth,     \* bound on the TX FIFO level
          Configs,         \* the CTRL and TARGET_TIMEOUT_CTRL settings explored
          SwOps,           \* the optional software operations explored
          BusEvents,       \* the bus conditions explored
          None             \* no entry

ConfigType == [nack_timeout_en : BOOLEAN,
               nack_addr_after_timeout : BOOLEAN,
               tx_stretch_ctrl_en : BOOLEAN,
               ack_ctrl : BOOLEAN]

\* AcqFifoDeepEnough_A; delays of at least one cycle, as a tested countdown of
\* 0 would wrap.
ASSUME AcqFifoDepthAssumption == AcqFifoDepth \in Nat /\ AcqFifoDepth > 2
ASSUME TimingAssumption ==
  /\ ByteBits \in Nat /\ ByteBits >= 1
  /\ THold \in Nat /\ THold >= 1
  /\ TSetup \in Nat /\ TSetup >= 1
  /\ NackTimeout \in Nat
ASSUME AutoAckAssumption ==
  /\ AutoAckRange \in Nat /\ AutoAckRange >= 1
  /\ AutoAckLoads \subseteq 0 .. AutoAckRange - 1
ASSUME TxAssumption == TxFifoDepth \in Nat
ASSUME ConfigAssumption ==
  /\ Configs \subseteq ConfigType
  /\ SwOps \subseteq {"enable", "ackctrl", "acqrst", "txrst"}
  /\ BusEvents \subseteq {"start", "stop", "timeout", "arbitration"}

VARIABLES
  enable, cfg,                 \* registers written by software
  scl, scl_q,                  \* scl_i and scl_i_q
  st,                          \* state_q
  bit_idx, tcount, stretch_cnt,
  restart_det, xact_for_us, xfer_for_us, nack_transaction, rw_bit,
  auto_ack_cnt,
  acq_depth,                   \* acq_fifo_depth_i
  tx_level,                    \* entries of the TX FIFO
  tx_events,                   \* unhandled_tx_stretch_event: TARGET_EVENTS is not zero
  last,                        \* history: the last ACQ entry of this transaction
  acked,                       \* history: the byte received last was ACK'd on the bus
  granted,                     \* history: what is left of software's NBYTES in this transfer
  rose                         \* history: the last edge released SCL

regs == <<enable, cfg>>
bus == <<scl, scl_q>>
fsm == <<st, bit_idx, tcount, stretch_cnt, restart_det, xact_for_us, xfer_for_us,
         nack_transaction, rw_bit, auto_ack_cnt>>
hist == <<last, acked, granted, rose>>
vars == <<regs, bus, fsm, acq_depth, tx_level, tx_events, hist>>

Stretching == {"StretchAddrAck", "StretchAddrAckSetup", "StretchAddr", "StretchTx",
               "StretchTxSetup", "StretchAcqFull", "StretchAcqSetup"}
AckStates == {"AddrAckSetup", "AddrAckPulse", "AddrAckHold", "AcquireAckSetup",
              "AcquireAckPulse", "AcquireAckHold", "StretchAddrAckSetup", "StretchAcqSetup"}
TransmitStates == {"TransmitSetup", "TransmitPulse", "TransmitHold", "StretchTxSetup"}
States == {"Idle", "AcquireStart", "AddrRead", "AddrAckWait", "TransmitWait", "TransmitAck",
           "TransmitAckPulse", "WaitForStop", "AcquireByte", "AcquireAckWait"}
          \cup Stretching \cup AckStates \cup TransmitStates

Log == INSTANCE AcqLog

\* None marks the absence of an entry, a bus condition and a register write.
ASSUME NoneAssumption ==
  /\ None \notin Log!Recorded
  /\ None \notin {"start", "stop", "timeout", "arbitration"}
  /\ None \notin AutoAckLoads

TypeOK ==
  /\ enable \in BOOLEAN /\ cfg \in ConfigType
  /\ scl \in BOOLEAN /\ scl_q \in BOOLEAN
  /\ st \in States
  /\ bit_idx \in 0 .. ByteBits
  /\ tcount \in Nat /\ stretch_cnt \in 0 .. NackTimeout
  /\ restart_det \in BOOLEAN /\ xact_for_us \in BOOLEAN /\ xfer_for_us \in BOOLEAN
  /\ nack_transaction \in BOOLEAN /\ rw_bit \in BOOLEAN
  /\ auto_ack_cnt \in 0 .. AutoAckRange - 1
  /\ acq_depth \in 0 .. AcqFifoDepth
  /\ tx_level \in 0 .. TxFifoDepth
  /\ tx_events \in BOOLEAN
  /\ last \in Log!Recorded \cup {None}
  /\ acked \in BOOLEAN /\ rose \in BOOLEAN
  /\ granted \in 0 .. AutoAckRange - 1
------------------------------------------------------------------------------
scl_o == st \notin Stretching
transmitting == st \in AckStates \cup TransmitStates
target_idle == st = "Idle"
bit_ack == bit_idx = ByteBits

acq_fifo_remainder == AcqFifoDepth - acq_depth

\* Mutant of acq_fifo_plenty_space: no slot is kept for a NACK.
plenty_space_two == acq_fifo_remainder > 1

acq_fifo_plenty_space == acq_fifo_remainder > 2

\* Mutant of acq_fifo_full_or_last_space: a NACK may take the last slot.
full_only == acq_fifo_remainder = 0

acq_fifo_full_or_last_space == acq_fifo_remainder <= 1

can_auto_ack == ~cfg.ack_ctrl \/ auto_ack_cnt > 0
stretch_addr == ~acq_fifo_plenty_space

\* Mutant of stretch_rx: ACK control never stretches.
stretch_rx_full_only == ~acq_fifo_plenty_space

stretch_rx == ~acq_fifo_plenty_space \/ ~can_auto_ack

\* Mutant of stretch_tx: TARGET_EVENTS is not looked at.
stretch_tx_no_events == tx_level = 0 \/ acq_depth > 1

stretch_tx == tx_level = 0 \/ tx_events \/ acq_depth > 1
nack_timeout == cfg.nack_timeout_en /\ stretch_cnt >= NackTimeout

\* Mutant of actively_stretching: a stretch for ACK control does not count.
actively_stretching_full ==
  \/ st \in {"StretchAddrAck", "StretchAddr", "StretchAcqFull"} /\ stretch_addr
  \/ st = "StretchTx" /\ stretch_tx

actively_stretching ==
  \/ st \in {"StretchAddrAck", "StretchAddr"} /\ stretch_addr
  \/ st = "StretchTx" /\ stretch_tx
  \/ st = "StretchAcqFull" /\ stretch_rx
------------------------------------------------------------------------------
(* The outputs of the state (always_comb state_outputs), before and after the *)
(* start/stop override.                                                       *)

\* This edge sets nack_transaction_d: the controller was too fast, a stretch
\* timed out, or software asked for it (sw_nack_i).
Nacks(sw_nack) ==
  \/ st \in {"AddrAckWait", "AcquireAckWait"} /\ scl
  \/ st \in {"StretchAddrAck", "StretchAddr", "StretchTx"} /\ nack_timeout
  \/ st = "StretchAcqFull" /\ (nack_timeout \/ (sw_nack /\ ~can_auto_ack))

AddrEntry ==
  IF restart_det THEN (IF rw_bit THEN "RestartR" ELSE "RestartW")
                 ELSE (IF rw_bit THEN "StartR" ELSE "StartW")

\* What the state writes to the ACQ FIFO.
FsmEntry(sw_nack) ==
  CASE st = "AddrAckHold" /\ tcount = 1 /\ ~nack_transaction /\ ~stretch_addr -> AddrEntry
    [] st = "StretchAddr" /\ ~nack_timeout /\ ~stretch_addr -> AddrEntry
    [] st = "AcquireAckHold" /\ tcount = 1 /\ ~stretch_rx -> "Data"
    [] st \in {"StretchAddrAck", "StretchAddr"} /\ nack_timeout /\ ~acq_fifo_full_or_last_space
         -> "NackStart"
    [] st = "StretchAcqFull" /\ Nacks(sw_nack) /\ ~acq_fifo_full_or_last_space -> "Nack"
    [] OTHER -> None

StopSeen(ev) == ev \in {"stop", "timeout"}

\* Mutant of Entry: the Stop of a NACK'd transaction is recorded as a plain Stop.
EntryPlainStop(ev, sw_nack) ==
  IF enable /\ StopSeen(ev)
  THEN IF xact_for_us THEN (IF ev = "timeout" THEN "NackStop" ELSE "Stop") ELSE None
  ELSE FsmEntry(sw_nack)

\* acq_fifo_wvalid_o and acq_fifo_wdata_o: the end of a transaction replaces
\* what the state would write.
Entry(ev, sw_nack) ==
  IF enable /\ StopSeen(ev)
  THEN IF ~xact_for_us THEN None
       ELSE IF nack_transaction \/ ev = "timeout" THEN "NackStop" ELSE "Stop"
  ELSE FsmEntry(sw_nack)

\* event_read_cmd_received_o
event_read_cmd_received ==
  st = "AddrAckHold" /\ tcount = 1 /\ ~nack_transaction /\ ~stretch_addr /\ rw_bit
event_tx_bus_timeout(ev) == enable /\ ev = "timeout" /\ rw_bit
event_tx_arbitration_lost(ev) == ev = "arbitration" /\ rw_bit
------------------------------------------------------------------------------
(* The state transitions (always_comb state_functions), one action per state. *)

Idle == st = "Idle" /\ st' = "Idle"

AcquireStart == st = "AcquireStart" /\ st' = IF scl THEN st ELSE "AddrRead"

AddrRead(hit) ==
  /\ st = "AddrRead"
  /\ st' = IF ~bit_ack THEN st ELSE IF hit THEN "AddrAckWait" ELSE "WaitForStop"

\* Mutant of AddrAckWait: the address is not ACK'd before the stretch.
AddrAckWaitNoAck ==
  /\ st = "AddrAckWait"
  /\ \/ scl /\ st' = "WaitForStop"
     \/ ~scl /\ tcount # 1 /\ st' = st
     \/ /\ ~scl /\ tcount = 1
        /\ st' = IF nack_transaction THEN "WaitForStop"
                 ELSE IF stretch_addr THEN "StretchAddr" ELSE "AddrAckSetup"

AddrAckWait ==
  /\ st = "AddrAckWait"
  /\ \/ scl /\ st' = "WaitForStop"
     \/ ~scl /\ tcount # 1 /\ st' = st
     \/ /\ ~scl /\ tcount = 1
        /\ st' = IF ~cfg.nack_addr_after_timeout THEN "AddrAckSetup"
                 ELSE IF nack_transaction THEN "WaitForStop"
                 ELSE IF stretch_addr THEN "StretchAddrAck"
                 ELSE "AddrAckSetup"

AddrAckSetup == st = "AddrAckSetup" /\ st' = IF scl THEN "AddrAckPulse" ELSE st

AddrAckPulse == st = "AddrAckPulse" /\ st' = IF scl THEN st ELSE "AddrAckHold"

\* Mutant of AddrAckHold: a NACK'd transaction goes on to its data bytes.
AddrAckHoldOn ==
  /\ st = "AddrAckHold"
  /\ st' = IF tcount # 1 THEN st
           ELSE IF stretch_addr THEN "StretchAddr"
           ELSE IF rw_bit THEN "TransmitWait" ELSE "AcquireByte"

AddrAckHold ==
  /\ st = "AddrAckHold"
  /\ st' = IF tcount # 1 THEN st
           ELSE IF nack_transaction THEN "WaitForStop"
           ELSE IF stretch_addr THEN "StretchAddr"
           ELSE IF rw_bit THEN "TransmitWait" ELSE "AcquireByte"

TransmitWait ==
  st = "TransmitWait" /\ st' = IF stretch_tx THEN "StretchTx" ELSE "TransmitSetup"

TransmitSetup == st = "TransmitSetup" /\ st' = IF scl THEN "TransmitPulse" ELSE st

TransmitPulse == st = "TransmitPulse" /\ st' = IF scl THEN st ELSE "TransmitHold"

TransmitHold ==
  /\ st = "TransmitHold"
  /\ st' = IF tcount # 1 THEN st ELSE IF bit_ack THEN "TransmitAck" ELSE "TransmitSetup"

TransmitAck == st = "TransmitAck" /\ st' = IF scl THEN "TransmitAckPulse" ELSE st

\* host_ack is what the controller drove in this pulse: any value.
TransmitAckPulse ==
  /\ st = "TransmitAckPulse"
  /\ IF scl THEN st' = st ELSE st' \in {"TransmitWait", "WaitForStop"}

WaitForStop == st = "WaitForStop" /\ st' = st

AcquireByte == st = "AcquireByte" /\ st' = IF bit_ack THEN "AcquireAckWait" ELSE st

\* Mutant of AcquireAckWait: a data byte is ACK'd without room for it.
AcquireAckWaitNoSpace ==
  /\ st = "AcquireAckWait"
  /\ \/ scl /\ st' = "WaitForStop"
     \/ ~scl /\ tcount # 1 /\ st' = st
     \/ /\ ~scl /\ tcount = 1
        /\ st' = IF nack_transaction THEN "WaitForStop"
                 ELSE IF can_auto_ack THEN "AcquireAckSetup" ELSE "StretchAcqFull"

AcquireAckWait ==
  /\ st = "AcquireAckWait"
  /\ \/ scl /\ st' = "WaitForStop"
     \/ ~scl /\ tcount # 1 /\ st' = st
     \/ /\ ~scl /\ tcount = 1
        /\ st' = IF nack_transaction THEN "WaitForStop"
                 ELSE IF stretch_rx THEN "StretchAcqFull" ELSE "AcquireAckSetup"

AcquireAckSetup == st = "AcquireAckSetup" /\ st' = IF scl THEN "AcquireAckPulse" ELSE st

AcquireAckPulse == st = "AcquireAckPulse" /\ st' = IF scl THEN st ELSE "AcquireAckHold"

AcquireAckHold == st = "AcquireAckHold" /\ st' = IF tcount = 1 THEN "AcquireByte" ELSE st

StretchAddrAck ==
  /\ st = "StretchAddrAck"
  /\ st' = IF nack_timeout THEN "WaitForStop"
           ELSE IF stretch_addr THEN st ELSE "StretchAddrAckSetup"

StretchAddrAckSetup ==
  st = "StretchAddrAckSetup" /\ st' = IF tcount = 1 THEN "AddrAckSetup" ELSE st

StretchAddr ==
  /\ st = "StretchAddr"
  /\ st' = IF nack_timeout THEN "WaitForStop"
           ELSE IF stretch_addr THEN st
           ELSE IF rw_bit THEN "StretchTx" ELSE "AcquireByte"

\* Mutant of StretchTx: data that is there goes out without the setup time.
StretchTxDirect ==
  /\ st = "StretchTx"
  /\ st' = IF nack_timeout THEN "WaitForStop" ELSE IF stretch_tx THEN st ELSE "TransmitWait"

StretchTx ==
  /\ st = "StretchTx"
  /\ st' = IF nack_timeout THEN "WaitForStop" ELSE IF stretch_tx THEN st ELSE "StretchTxSetup"

StretchTxSetup == st = "StretchTxSetup" /\ st' = IF tcount = 1 THEN "TransmitSetup" ELSE st

StretchAcqFull(sw_nack) ==
  /\ st = "StretchAcqFull"
  /\ st' = IF Nacks(sw_nack) THEN "WaitForStop"
           ELSE IF stretch_rx THEN st ELSE "StretchAcqSetup"

StretchAcqSetup == st = "StretchAcqSetup" /\ st' = IF tcount = 1 THEN "AcquireAckSetup" ELSE st

StateStep(hit, sw_nack) ==
  \/ Idle \/ AcquireStart \/ AddrRead(hit)
  \/ AddrAckWait \/ AddrAckSetup \/ AddrAckPulse \/ AddrAckHold
  \/ TransmitWait \/ TransmitSetup \/ TransmitPulse \/ TransmitHold
  \/ TransmitAck \/ TransmitAckPulse \/ WaitForStop
  \/ AcquireByte \/ AcquireAckWait \/ AcquireAckSetup \/ AcquireAckPulse \/ AcquireAckHold
  \/ StretchAddrAck \/ StretchAddrAckSetup \/ StretchAddr
  \/ StretchTx \/ StretchTxSetup \/ StretchAcqFull(sw_nack) \/ StretchAcqSetup

\* target_enable_i was dropped in the middle of a transaction.
Disabled == ~target_idle /\ ~enable

\* The override at the end of state_functions: disable, start, end, arbitration.
NextState(ev, hit, sw_nack) ==
  \/ Disabled /\ st' = "Idle"
  \/ ~Disabled /\ enable /\ ev = "start" /\ st' = "AcquireStart"
  \/ ~Disabled /\ StopSeen(ev) /\ st' = "Idle"
  \/ ~Disabled /\ ev = "arbitration" /\ st' = "WaitForStop"
  \/ ~Disabled /\ (ev = None \/ (ev = "start" /\ ~enable)) /\ StateStep(hit, sw_nack)
------------------------------------------------------------------------------
(* The other registers.  On every edge each of them takes one value.        *)

Fall == scl_q /\ ~scl        \* a falling edge of SCL
TDone == tcount = 1

\* The conditions on which load_tcount is asserted.
LoadHold(hit) ==
  \/ st = "AddrRead" /\ bit_ack /\ hit
  \/ st \in {"AddrAckPulse", "TransmitPulse", "AcquireAckPulse"} /\ ~scl
  \/ st = "TransmitHold" /\ TDone /\ ~bit_ack
  \/ st = "AcquireByte" /\ bit_ack
LoadSetup(sw_nack) ==
  \/ st = "StretchAddrAck" /\ ~nack_timeout /\ ~stretch_addr
  \/ st = "StretchTx" /\ ~nack_timeout /\ ~stretch_tx
  \/ st = "StretchAcqFull" /\ ~Nacks(sw_nack) /\ ~stretch_rx

\* Mutant of NextBit: the acknowledge bit does not end the byte.
NextBitNoWrap(ev) ==
  IF ev = "start" \/ (Fall /\ st = "AcquireStart") THEN 0
  ELSE IF Fall THEN bit_idx + 1 ELSE bit_idx

\* bit_idx counts the falling edges of SCL, from 0 at the start of every byte.
NextBit(ev) ==
  IF ev = "start" \/ (Fall /\ (st = "AcquireStart" \/ bit_ack)) THEN 0
  ELSE IF Fall THEN bit_idx + 1 ELSE bit_idx

Counters(ev, hit, load, sw_nack) ==
  /\ scl_q' = scl
  /\ bit_idx' = NextBit(ev)
  /\ tcount' = IF LoadHold(hit) THEN THold
               ELSE IF LoadSetup(sw_nack) THEN TSetup
               ELSE IF enable /\ tcount > 0 THEN tcount - 1 ELSE tcount
  /\ stretch_cnt' = IF actively_stretching
                    THEN IF stretch_cnt < NackTimeout THEN stretch_cnt + 1 ELSE stretch_cnt
                    ELSE IF ev = "start" /\ target_idle THEN 0 ELSE stretch_cnt
  /\ auto_ack_cnt' = IF load # None THEN load
                     ELSE IF st = "AcquireStart" THEN 0
                     ELSE IF st = "AcquireAckHold" /\ TDone
                     THEN (auto_ack_cnt - 1) % AutoAckRange ELSE auto_ack_cnt

\* How the transaction is framed and whether this target takes part in it.
Tracking(ev, hit, rw, sw_nack) ==
  /\ rw_bit' = IF hit THEN rw ELSE rw_bit
  /\ xact_for_us' = (hit \/ (~target_idle /\ xact_for_us))
  /\ xfer_for_us' = (hit \/ (~target_idle /\ st # "AcquireStart" /\ xfer_for_us))
  /\ nack_transaction' = ((~target_idle /\ nack_transaction) \/ Nacks(sw_nack)
                            \/ ev = "arbitration")
  /\ restart_det' = IF enable /\ ev = "start" THEN ~target_idle
                    ELSE ~target_idle /\ restart_det

\* The ACQ FIFO takes what is written to it while it has room, the TX FIFO
\* loses a byte whether the controller ACK'd it or not, and TARGET_EVENTS
\* collects what i2c_core.sv puts there.
Fifos(ev, sw_nack) ==
  LET e == Entry(ev, sw_nack)
      room == acq_depth < AcqFifoDepth
  IN /\ acq_depth' = IF e # None /\ room THEN acq_depth + 1 ELSE acq_depth
     /\ last' = IF Disabled \/ (StopSeen(ev) /\ e # None /\ ~room) THEN None
                ELSE IF e # None /\ room THEN e ELSE last
     /\ tx_level' = IF st = "TransmitAckPulse" /\ ~scl /\ tx_level > 0
                    THEN tx_level - 1 ELSE tx_level
     /\ tx_events' = (tx_events \/ (event_read_cmd_received /\ cfg.tx_stretch_ctrl_en)
                       \/ event_tx_bus_timeout(ev) \/ event_tx_arbitration_lost(ev))

History(load) ==
  /\ acked' = IF st \in {"AddrAckPulse", "AcquireAckPulse"} /\ ~scl THEN TRUE
              ELSE IF st \in {"AddrRead", "AcquireByte"} THEN FALSE ELSE acked
  /\ granted' = IF load # None THEN load
                ELSE IF st = "AcquireStart" THEN 0
                ELSE IF st = "AcquireAckHold" /\ TDone /\ granted > 0 THEN granted - 1
                ELSE granted
  /\ rose' = (st \in Stretching /\ st' \notin Stretching)
------------------------------------------------------------------------------
(* What can happen on the bus.  A target that holds SCL keeps it low; a     *)
(* START or STOP is reported after SCL was high, at least one edge after    *)
(* the previous end; a bus timeout while SCL is held low; arbitration is    *)
(* lost while this target drives SDA and SCL is high.  Conditions reported  *)
(* together have the effect of the one the RTL gives priority to.           *)
BusCondition(ev) ==
  /\ ev \in BusEvents \cup {None}
  /\ ev \in {"start", "stop"} => scl_q
  /\ ev = "timeout" => ~scl
  /\ ev = "arbitration" => transmitting /\ scl
  /\ StopSeen(ev) => ~(target_idle /\ xact_for_us)

\* One clock edge.
Edge(ev, hit, rw, load, sw_nack) ==
  /\ BusCondition(ev)
  /\ hit => st = "AddrRead" /\ bit_ack
  /\ rw => hit
  /\ load # None => st = "StretchAcqFull" /\ ~can_auto_ack
  /\ sw_nack => st = "StretchAcqFull" /\ ~can_auto_ack
  /\ scl' \in IF scl_o THEN BOOLEAN ELSE {FALSE}
  /\ NextState(ev, hit, sw_nack)
  /\ Counters(ev, hit, load, sw_nack)
  /\ Tracking(ev, hit, rw, sw_nack)
  /\ Fifos(ev, sw_nack)
  /\ History(load)
  /\ UNCHANGED regs

SomeEdge ==
  \E ev \in BusEvents \cup {None}, hit, rw, sw_nack \in BOOLEAN,
     load \in AutoAckLoads \cup {None} : Edge(ev, hit, rw, load, sw_nack)
------------------------------------------------------------------------------
(* Software. *)

SwReadAcq ==                   \* reads ACQDATA
  /\ acq_depth > 0 /\ acq_depth' = acq_depth - 1
  /\ UNCHANGED <<regs, bus, fsm, tx_level, tx_events, hist>>

SwWriteTx ==                   \* writes TXDATA
  /\ tx_level < TxFifoDepth /\ tx_level' = tx_level + 1
  /\ UNCHANGED <<regs, bus, fsm, acq_depth, tx_events, hist>>

SwClearTxEvents ==             \* writes TARGET_EVENTS
  /\ tx_events /\ tx_events' = FALSE
  /\ UNCHANGED <<regs, bus, fsm, acq_depth, tx_level, hist>>

SwEnable ==                    \* CTRL.ENABLETARGET
  /\ "enable" \in SwOps /\ enable' = ~enable
  /\ UNCHANGED <<cfg, bus, fsm, acq_depth, tx_level, tx_events, hist>>

SwAckCtrl ==                   \* CTRL.ACK_CTRL_EN
  /\ "ackctrl" \in SwOps /\ cfg' = [cfg EXCEPT !.ack_ctrl = ~@]
  /\ UNCHANGED <<enable, bus, fsm, acq_depth, tx_level, tx_events, hist>>

SwAcqReset ==                  \* FIFO_CTRL.ACQRST
  /\ "acqrst" \in SwOps /\ acq_depth' = 0
  /\ UNCHANGED <<regs, bus, fsm, tx_level, tx_events, hist>>

SwTxReset ==                   \* FIFO_CTRL.TXRST
  /\ "txrst" \in SwOps /\ tx_level' = 0
  /\ UNCHANGED <<regs, bus, fsm, acq_depth, tx_events, hist>>

Software ==
  \/ SwReadAcq \/ SwWriteTx \/ SwClearTxEvents
  \/ SwEnable \/ SwAckCtrl \/ SwAcqReset \/ SwTxReset

\* Out of reset, with the target enabled.  tcount_q resets to its largest
\* value, as far from 1 as a count that ran out.
Init ==
  /\ enable = TRUE /\ cfg \in Configs
  /\ scl = TRUE /\ scl_q = TRUE
  /\ st = "Idle" /\ bit_idx = 0 /\ tcount = 0 /\ stretch_cnt = 0
  /\ restart_det = FALSE /\ xact_for_us = FALSE /\ xfer_for_us = FALSE
  /\ nack_transaction = FALSE /\ rw_bit = FALSE /\ auto_ack_cnt = 0
  /\ acq_depth = 0 /\ tx_level = 0 /\ tx_events = FALSE
  /\ last = None /\ acked = FALSE /\ granted = 0 /\ rose = FALSE

Next == SomeEdge \/ Software
Spec == Init /\ [][Next]_vars

\* The clock runs: neither the bus, whose conditions last several cycles, nor
\* software has something new at every edge.  Both may stop acting for ever.
QuietEdge == Edge(None, FALSE, FALSE, None, FALSE)
FairSpec == Spec /\ WF_vars(QuietEdge)
------------------------------------------------------------------------------
(* Correctness.  Open transactions are those software has seen begin.       *)

\* "ensure we always have space to absorb a stop": while the log is inside a
\* transaction there is room for its end, whatever else was recorded.
SpaceForStop == last \notin Log!Closed => acq_depth < AcqFifoDepth

\* "we also need one space to send a NACK ... while still keeping space for a
\* subsequent stop or repeated start".
SpaceForNack == last \in Log!Write \cup Log!Read => acq_depth + 1 < AcqFifoDepth

\* Together: no entry that must be recorded finds the ACQ FIFO full.
SpaceIsKept == SpaceForStop /\ SpaceForNack

\* The end of a transaction software saw begin is recorded, however full the
\* ACQ FIFO got meanwhile, unless software itself disabled the target.
EndRecorded ==
  [][last \notin Log!Closed /\ enable /\ ~target_idle /\ st' = "Idle"
       => last' \in {"Stop", "NackStop"}]_vars

\* Whatever the bus, the delays and software do, the ACQ FIFO receives a word
\* of the grammar that data/i2c.hjson promises.
FramingOK == Log!LogSpec

\* A transaction that was NACK'd transfers no byte any more before its end,
\* not even after a repeated START that addresses this target again.
NackedStaysNacked ==
  nack_transaction =>
    st \notin {"AcquireByte", "AcquireAckSetup", "AcquireAckPulse", "AcquireAckHold",
               "TransmitWait"} \cup TransmitStates

\* Data goes out only when software has dealt with what came before: it has read
\* everything before the read command (AcqDepthRdCheck_A; the one entry left can
\* only be that command) and, with TX_STRETCH_CTRL_EN, cleared TARGET_EVENTS.
ReadGate ==
  /\ st = "TransmitSetup" /\ acq_depth > 0 => acq_depth = 1 /\ last \in Log!Read
  /\ cfg.tx_stretch_ctrl_en /\ st \in TransmitStates => ~tx_events

\* SclOutputGlitch_A: SCL, once released, stays released for another cycle.
SclOutputGlitch == [][rose => scl_o']_vars

\* Under ACK control no byte is ACK'd beyond the number software granted in
\* this transfer.
AcksAreGranted ==
  cfg.ack_ctrl /\ st \in {"AcquireAckSetup", "AcquireAckPulse", "AcquireAckHold"} => granted > 0

\* The log tells what the bus saw: a byte recorded as data or as a transfer's
\* address was ACK'd, one recorded as NACK'd was not.
LogMatchesBus ==
  [][acq_depth' > acq_depth => /\ last' \in Log!Write \cup Log!Read => acked
                               /\ last' = "Nack" => ~acked]_vars

\* A byte that was ACK'd on the bus is recorded when its ACK ends: the space
\* and the grant that let it be ACK'd are still there.
AckedIsRecorded ==
  [][st = "AcquireAckHold" /\ st' = "AcquireByte"
       => last' = "Data" /\ acq_depth' = acq_depth + 1]_vars

\* With TARGET_TIMEOUT_CTRL.EN this target never holds SCL for ever, whatever
\* software fails to do.
StretchEnds == (~scl_o /\ cfg.nack_timeout_en) ~> scl_o
------------------------------------------------------------------------------
(* What comments and register descriptions say and the code does not do.    *)

\* TARGET_EVENTS.TX_PENDING: "A new Target-Mode read transfer has arrived that
\* addressed this target": the gate closes when a read command is recorded.
ReadCommandReported ==
  [][acq_depth' > acq_depth /\ last' \in Log!Read => tx_events']_vars

\* TARGET_ACK_CTRL.NBYTES: "Remaining number of bytes the Target module may ACK
\* automatically": never more than software wrote.
NBytesWithinGrant == cfg.ack_ctrl => auto_ack_cnt <= granted
==============================================================================
