--------------------------- MODULE I2cTargetFsmProofs ---------------------------
(****************************************************************************)
(* The framing of the ACQ log, proved for every FIFO depth above 2, every   *)
(* delay and every setting.  None of it is inductive alone: room for the    *)
(* end of a transaction is left only because a NACK, which may take the     *)
(* last slot but one, is recorded once, and that it is recorded once rests  *)
(* on the states a NACK'd transaction is confined to.                       *)
(****************************************************************************)
EXTENDS I2cTargetFsm, TLAPS

\* The states a NACK'd transaction can be in: up to the acknowledge of an
\* address, never past it.
EndOnly == {"Idle", "AcquireStart", "AddrRead", "AddrAckWait", "AddrAckSetup",
            "AddrAckPulse", "AddrAckHold", "WaitForStop"}
AddrStates == {"AcquireStart", "AddrRead", "AddrAckWait", "AddrAckSetup", "AddrAckPulse",
               "AddrAckHold", "StretchAddrAck", "StretchAddrAckSetup", "StretchAddr"}
WriteStates == {"AcquireByte", "AcquireAckWait", "AcquireAckSetup", "AcquireAckPulse",
                "AcquireAckHold", "StretchAcqFull", "StretchAcqSetup"}

NackedOnlyEnds == nack_transaction => st \in EndOnly
NackLatched == last \in Log!Nacked => nack_transaction
Addressed == st \notin {"Idle", "AcquireStart", "AddrRead", "WaitForStop"} => xact_for_us
OpenIsOurs == last \notin Log!Closed => xact_for_us /\ ~target_idle
FirstIsClosed == ~restart_det /\ st \in AddrStates => last \in Log!Closed
WriteOpen == st \in WriteStates => last \in Log!Write

IInv == /\ TypeOK
        /\ NackedOnlyEnds /\ NackLatched
        /\ Addressed /\ OpenIsOurs
        /\ FirstIsClosed /\ WriteOpen
        /\ SpaceForStop /\ SpaceForNack

USE DEF Log!Closed, Log!Write, Log!Read, Log!Nacked, Log!Recorded

\* A counter that wraps stays below its modulus.
LEMMA ModRange ==
  ASSUME NEW a \in Int, NEW n \in Nat, n >= 1
  PROVE  a % n \in 0 .. n - 1
  OBVIOUS

\* Reading or clearing the ACQ FIFO makes room.
LEMMA RoomKept ==
  ASSUME NEW n \in Nat, NEW a \in Nat, NEW b \in Nat, b <= a, a + 1 < n
  PROVE  b + 1 < n
  OBVIOUS
------------------------------------------------------------------------------
(* What one step does, part by part.                                        *)

\* Software's accesses leave the FSM and the bus alone, and only ever empty
\* the ACQ FIFO.
LEMMA SoftwareKeeps ==
  ASSUME TypeOK, Software
  PROVE  /\ UNCHANGED <<bus, fsm, hist>>
         /\ acq_depth' \in 0 .. acq_depth
         /\ tx_level' \in 0 .. TxFifoDepth
         /\ tx_events' \in BOOLEAN /\ enable' \in BOOLEAN /\ cfg' \in ConfigType
<1> USE DEF TypeOK, bus, fsm, hist, regs
<1>1. CASE SwReadAcq
  BY <1>1 DEF SwReadAcq
<1>2. CASE SwWriteTx
  BY <1>2, TxAssumption DEF SwWriteTx
<1>3. CASE SwClearTxEvents
  <2>1. UNCHANGED <<regs, bus, fsm, acq_depth, tx_level, hist>>
    BY <1>3 DEF SwClearTxEvents
  <2>2. tx_events' \in BOOLEAN
    BY <1>3, Zenon DEF SwClearTxEvents
  <2> QED
    BY <2>1, <2>2
<1>4. CASE SwEnable
  BY <1>4 DEF SwEnable
<1>5. CASE SwAckCtrl
  <2>1. UNCHANGED <<enable, bus, fsm, acq_depth, tx_level, tx_events, hist>>
    BY <1>5 DEF SwAckCtrl
  <2>2. cfg' = [cfg EXCEPT !.ack_ctrl = ~@]
    BY <1>5 DEF SwAckCtrl
  <2>3. cfg' \in ConfigType
    <3>1. (~cfg.ack_ctrl) \in BOOLEAN
      OBVIOUS
    <3> QED
      BY <2>2, <3>1, Zenon DEF ConfigType
  <2> QED
    BY <2>1, <2>3
<1>6. CASE SwAcqReset
  BY <1>6 DEF SwAcqReset
<1>7. CASE SwTxReset
  BY <1>7, TxAssumption DEF SwTxReset
<1> QED
  BY <1>1, <1>2, <1>3, <1>4, <1>5, <1>6, <1>7 DEF Software

\* What a state writes to the ACQ FIFO: a transfer or a byte only with room for
\* two more entries, a NACK only with room for one more.
LEMMA EntrySpace ==
  ASSUME TypeOK, NEW sw \in BOOLEAN
  PROVE  LET e == FsmEntry(sw) IN
         /\ e \in Log!Recorded \cup {None}
         /\ e \notin {"Stop", "NackStop"}
         /\ e \in Log!Write \cup Log!Read => acq_fifo_plenty_space
         /\ e \in Log!Nacked => ~acq_fifo_full_or_last_space /\ Nacks(sw)
         /\ e # None => st \in {"AddrAckHold", "StretchAddr", "AcquireAckHold",
                                "StretchAddrAck", "StretchAcqFull"}
  BY NoneAssumption
  DEF FsmEntry, AddrEntry, stretch_addr, stretch_rx, Nacks, TypeOK

\* Where a step may end: Idle only after a STOP, a bus timeout or a disable.
LEMMA IdleReached ==
  ASSUME NEW ev, NEW hit \in BOOLEAN, NEW sw \in BOOLEAN,
         NextState(ev, hit, sw), st' = "Idle"
  PROVE  Disabled \/ StopSeen(ev) \/ target_idle
  BY DEF NextState, StateStep, Idle, AcquireStart, AddrRead, AddrAckWait, AddrAckSetup,
         AddrAckPulse, AddrAckHold, TransmitWait, TransmitSetup, TransmitPulse,
         TransmitHold, TransmitAck, TransmitAckPulse, WaitForStop, AcquireByte,
         AcquireAckWait, AcquireAckSetup, AcquireAckPulse, AcquireAckHold,
         StretchAddrAck, StretchAddrAckSetup, StretchAddr, StretchTx, StretchTxSetup,
         StretchAcqFull, StretchAcqSetup, target_idle
------------------------------------------------------------------------------
(* Types.                                                                   *)

\* The FSM stays among its states.
LEMMA StateType ==
  ASSUME TypeOK, NEW ev, NEW hit \in BOOLEAN, NEW sw \in BOOLEAN, NextState(ev, hit, sw)
  PROVE  st' \in States
<1>1. StateStep(hit, sw) => st' \in States
  BY DEF TypeOK, StateStep, Idle, AcquireStart, AddrRead, AddrAckWait, AddrAckSetup,
         AddrAckPulse, AddrAckHold, TransmitWait, TransmitSetup, TransmitPulse,
         TransmitHold, TransmitAck, TransmitAckPulse, WaitForStop, AcquireByte,
         AcquireAckWait, AcquireAckSetup, AcquireAckPulse, AcquireAckHold,
         StretchAddrAck, StretchAddrAckSetup, StretchAddr, StretchTx, StretchTxSetup,
         StretchAcqFull, StretchAcqSetup, States, Stretching, AckStates, TransmitStates
<1> QED
  BY <1>1 DEF NextState, States

\* The counters keep their ranges.
LEMMA CountersType ==
  ASSUME TypeOK, NEW ev, NEW hit \in BOOLEAN, NEW sw \in BOOLEAN,
         NEW load \in AutoAckLoads \cup {None}, Counters(ev, hit, load, sw)
  PROVE  /\ scl_q' \in BOOLEAN /\ bit_idx' \in 0 .. ByteBits
         /\ tcount' \in Nat /\ stretch_cnt' \in 0 .. NackTimeout
         /\ auto_ack_cnt' \in 0 .. AutoAckRange - 1
<1>1. scl_q' \in BOOLEAN
  BY DEF TypeOK, Counters
<1>2. bit_idx' \in 0 .. ByteBits
  BY TimingAssumption DEF TypeOK, Counters, NextBit, Fall, bit_ack
<1>3. tcount' \in Nat
  BY TimingAssumption DEF TypeOK, Counters
<1>4. stretch_cnt' \in 0 .. NackTimeout
  BY TimingAssumption DEF TypeOK, Counters
<1>5. auto_ack_cnt' \in 0 .. AutoAckRange - 1
  <2>1. (auto_ack_cnt - 1) % AutoAckRange \in 0 .. AutoAckRange - 1
    <3>1. auto_ack_cnt - 1 \in Int
      BY AutoAckAssumption DEF TypeOK
    <3> QED
      BY <3>1, AutoAckAssumption, ModRange
  <2> QED
    BY <2>1, AutoAckAssumption DEF TypeOK, Counters
<1> QED
  BY <1>1, <1>2, <1>3, <1>4, <1>5

\* The levels of the FIFOs keep their ranges.
LEMMA FifosType ==
  ASSUME TypeOK, NEW ev, NEW sw \in BOOLEAN, Fifos(ev, sw)
  PROVE  /\ acq_depth' \in 0 .. AcqFifoDepth
         /\ last' \in Log!Recorded \cup {None}
         /\ tx_level' \in 0 .. TxFifoDepth /\ tx_events' \in BOOLEAN
<1>1. acq_depth' \in 0 .. AcqFifoDepth
  BY AcqFifoDepthAssumption DEF TypeOK, Fifos
<1>2. last' \in Log!Recorded \cup {None}
  <2>1. Entry(ev, sw) \in Log!Recorded \cup {None}
    BY EntrySpace DEF Entry
  <2> QED
    BY <2>1 DEF TypeOK, Fifos
<1>3. tx_level' \in 0 .. TxFifoDepth
  BY TxAssumption DEF TypeOK, Fifos
<1>4. tx_events' \in BOOLEAN
  BY Zenon DEF Fifos
<1> QED
  BY <1>1, <1>2, <1>3, <1>4

\* The flags of the transaction keep their types.
LEMMA TrackingType ==
  ASSUME TypeOK, NEW ev, NEW hit \in BOOLEAN, NEW rw \in BOOLEAN, NEW sw \in BOOLEAN,
         Tracking(ev, hit, rw, sw)
  PROVE  /\ rw_bit' \in BOOLEAN /\ xact_for_us' \in BOOLEAN /\ xfer_for_us' \in BOOLEAN
         /\ nack_transaction' \in BOOLEAN /\ restart_det' \in BOOLEAN
<1>1. rw_bit' \in BOOLEAN
  BY DEF TypeOK, Tracking
<1>2. xact_for_us' \in BOOLEAN /\ xfer_for_us' \in BOOLEAN
  BY Zenon DEF Tracking
<1>3. nack_transaction' \in BOOLEAN
  BY Zenon DEF Tracking
<1>4. restart_det' \in BOOLEAN
  BY Zenon DEF Tracking
<1> QED
  BY <1>1, <1>2, <1>3, <1>4

\* And so does the history.
LEMMA HistoryType ==
  ASSUME TypeOK, NEW load \in AutoAckLoads \cup {None}, History(load)
  PROVE  acked' \in BOOLEAN /\ granted' \in 0 .. AutoAckRange - 1 /\ rose' \in BOOLEAN
<1>1. acked' \in BOOLEAN
  BY DEF TypeOK, History
<1>2. granted' \in 0 .. AutoAckRange - 1
  BY AutoAckAssumption DEF TypeOK, History
<1>3. rose' \in BOOLEAN
  BY Zenon DEF History
<1> QED
  BY <1>1, <1>2, <1>3

\* Every step keeps the types.
LEMMA TypeStep == TypeOK /\ [Next]_vars => TypeOK'
<1> SUFFICES ASSUME TypeOK, [Next]_vars PROVE TypeOK'
  OBVIOUS
<1>1. CASE SomeEdge
  <2>1. PICK ev \in BusEvents \cup {None}, hit, rw, sw \in BOOLEAN,
             load \in AutoAckLoads \cup {None} : Edge(ev, hit, rw, load, sw)
    BY <1>1 DEF SomeEdge
  <2>2. enable' \in BOOLEAN /\ cfg' \in ConfigType /\ scl' \in BOOLEAN
    BY <2>1 DEF Edge, regs, TypeOK
  <2> QED
    BY <2>1, <2>2, StateType, CountersType, FifosType, TrackingType, HistoryType
    DEF Edge, TypeOK
<1>2. CASE Software
  BY <1>2, SoftwareKeeps, AcqFifoDepthAssumption DEF TypeOK, bus, fsm, hist
<1>3. CASE UNCHANGED vars
  BY <1>3 DEF TypeOK, vars, regs, bus, fsm, hist
<1> QED
  BY <1>1, <1>2, <1>3 DEF Next
------------------------------------------------------------------------------
(* The invariant is kept by an edge, one conjunct at a time.                *)

\* Where an edge may record something: with the target open to a transaction.
LEMMA LogStep ==
  ASSUME IInv, NEW ev \in BusEvents \cup {None}, NEW sw \in BOOLEAN, Fifos(ev, sw)
  PROVE  LET e == Entry(ev, sw) IN
         \/ last' = None
         \/ last' = last /\ acq_depth' = acq_depth /\ ~Disabled
         \/ /\ last' = e /\ e # None /\ ~Disabled
            /\ acq_depth < AcqFifoDepth /\ acq_depth' = acq_depth + 1
  BY NoneAssumption DEF Fifos, IInv, TypeOK

\* Room for the end of a transaction is kept.
LEMMA SpaceStep ==
  ASSUME IInv, NEW ev \in BusEvents \cup {None}, NEW sw \in BOOLEAN, Fifos(ev, sw)
  PROVE  SpaceForStop' /\ SpaceForNack'
<1> DEFINE e == Entry(ev, sw)
<1>1. CASE last' = None
  BY <1>1, NoneAssumption DEF SpaceForStop, SpaceForNack
<1>2. CASE last' = last /\ acq_depth' = acq_depth
  BY <1>2 DEF IInv, SpaceForStop, SpaceForNack
<1>3. CASE /\ last' = e /\ e # None
           /\ acq_depth < AcqFifoDepth /\ acq_depth' = acq_depth + 1
  <2>1. e \in {"Stop", "NackStop"} \/ e = FsmEntry(sw)
    BY <1>3 DEF Entry
  <2>2. acq_depth \in 0 .. AcqFifoDepth /\ TypeOK
    BY DEF IInv, TypeOK
  <2>3. CASE e \in {"Stop", "NackStop"}
    BY <2>3, <1>3 DEF SpaceForStop, SpaceForNack
  <2>4. CASE e = FsmEntry(sw)
    BY <2>4, <2>2, <1>3, EntrySpace, AcqFifoDepthAssumption
    DEF SpaceForStop, SpaceForNack, acq_fifo_plenty_space, acq_fifo_full_or_last_space,
        acq_fifo_remainder
  <2> QED
    BY <2>1, <2>3, <2>4
<1> QED
  BY <1>1, <1>2, <1>3, LogStep

\* A NACK'd transaction leads only towards its end.
LEMMA NackedStep ==
  ASSUME IInv, NEW ev \in BusEvents \cup {None},
         NEW hit \in BOOLEAN, NEW rw \in BOOLEAN, NEW sw \in BOOLEAN,
         NextState(ev, hit, sw), Tracking(ev, hit, rw, sw)
  PROVE  NackedOnlyEnds'
<1> SUFFICES ASSUME nack_transaction' PROVE st' \in EndOnly
  BY DEF NackedOnlyEnds
<1>1. nack_transaction \/ Nacks(sw) \/ ev = "arbitration"
  BY DEF Tracking
<1>2. CASE ev = "arbitration"
  BY <1>2, NoneAssumption DEF NextState, EndOnly, StopSeen
<1>3. ASSUME nack_transaction \/ Nacks(sw), StateStep(hit, sw)
      PROVE  st' \in EndOnly
  <2>1. CASE Nacks(sw)
    BY <2>1, <1>3
    DEF Nacks, EndOnly, StateStep, Idle, AcquireStart, AddrRead, AddrAckWait,
        AddrAckSetup, AddrAckPulse, AddrAckHold, TransmitWait, TransmitSetup,
        TransmitPulse, TransmitHold, TransmitAck, TransmitAckPulse, WaitForStop,
        AcquireByte, AcquireAckWait, AcquireAckSetup, AcquireAckPulse, AcquireAckHold,
        StretchAddrAck, StretchAddrAckSetup, StretchAddr, StretchTx, StretchTxSetup,
        StretchAcqFull, StretchAcqSetup
  <2>2. CASE nack_transaction
    <3>1. st \in EndOnly
      BY <2>2 DEF IInv, NackedOnlyEnds
    <3> QED
      BY <2>2, <3>1, <1>3
      DEF EndOnly, StateStep, Idle, AcquireStart, AddrRead, AddrAckWait,
          AddrAckSetup, AddrAckPulse, AddrAckHold, TransmitWait, TransmitSetup,
          TransmitPulse, TransmitHold, TransmitAck, TransmitAckPulse, WaitForStop,
          AcquireByte, AcquireAckWait, AcquireAckSetup, AcquireAckPulse, AcquireAckHold,
          StretchAddrAck, StretchAddrAckSetup, StretchAddr, StretchTx, StretchTxSetup,
          StretchAcqFull, StretchAcqSetup
  <2> QED
    BY <1>3, <2>1, <2>2
<1> QED
  BY <1>1, <1>2, <1>3 DEF NextState, EndOnly

\* A recorded NACK is latched for the rest of the transaction.
LEMMA LatchStep ==
  ASSUME IInv, NEW ev \in BusEvents \cup {None},
         NEW hit \in BOOLEAN, NEW rw \in BOOLEAN, NEW sw \in BOOLEAN,
         Fifos(ev, sw), Tracking(ev, hit, rw, sw)
  PROVE  NackLatched'
<1> DEFINE e == Entry(ev, sw)
<1> SUFFICES ASSUME last' \in Log!Nacked PROVE nack_transaction'
  BY DEF NackLatched
<1>1. CASE last' = last
  BY <1>1, NoneAssumption DEF IInv, NackLatched, OpenIsOurs, Tracking
<1>2. CASE last' = e
  <2>1. e = FsmEntry(sw)
    BY <1>2, NoneAssumption DEF Entry
  <2> QED
    BY <1>2, <2>1, EntrySpace DEF IInv, Tracking
<1> QED
  BY <1>1, <1>2, LogStep, NoneAssumption

\* Past its address, and while its log is open, a transaction is this target's.
LEMMA OursStep ==
  ASSUME IInv, NEW ev \in BusEvents \cup {None},
         NEW hit \in BOOLEAN, NEW rw \in BOOLEAN, NEW sw \in BOOLEAN,
         NextState(ev, hit, sw), Fifos(ev, sw), Tracking(ev, hit, rw, sw)
  PROVE  Addressed' /\ OpenIsOurs'
<1> DEFINE e == Entry(ev, sw)
<1>1. Addressed'
  <2>1. CASE StateStep(hit, sw)
    BY <2>1
    DEF IInv, Addressed, Tracking, target_idle, StateStep, Idle, AcquireStart, AddrRead,
        AddrAckWait, AddrAckSetup, AddrAckPulse, AddrAckHold, TransmitWait, TransmitSetup,
        TransmitPulse, TransmitHold, TransmitAck, TransmitAckPulse, WaitForStop,
        AcquireByte, AcquireAckWait, AcquireAckSetup, AcquireAckPulse, AcquireAckHold,
        StretchAddrAck, StretchAddrAckSetup, StretchAddr, StretchTx, StretchTxSetup,
        StretchAcqFull, StretchAcqSetup
  <2> QED
    BY <2>1 DEF NextState, Addressed
<1>2. OpenIsOurs'
  <2> SUFFICES ASSUME last' \notin Log!Closed PROVE xact_for_us' /\ ~target_idle'
    BY DEF OpenIsOurs
  <2>1. ~Disabled
    BY DEF Fifos
  <2>2. ~(enable /\ StopSeen(ev))
    <3> SUFFICES ASSUME enable, StopSeen(ev) PROVE FALSE
      OBVIOUS
    <3>1. e \in {None, "Stop", "NackStop"} /\ (e = None => ~xact_for_us)
      BY NoneAssumption DEF Entry
    <3>2. last' = last
      BY <3>1 DEF Fifos
    <3>3. xact_for_us
      BY <3>2 DEF IInv, OpenIsOurs
    <3> QED
      BY <3>1, <3>2, <3>3, NoneAssumption DEF Fifos
  <2>3. xact_for_us /\ ~target_idle
    <3>1. CASE last' = last
      BY <3>1 DEF IInv, OpenIsOurs
    <3>2. CASE last' = e /\ e # None
      <4>1. e = FsmEntry(sw)
        BY <2>2 DEF Entry
      <4> QED
        BY <4>1, <3>2, EntrySpace DEF IInv, Addressed, target_idle
    <3> QED
      BY <3>1, <3>2, LogStep
  <2>4. ~StopSeen(ev)
    BY <2>1, <2>2, <2>3 DEF Disabled
  <2>5. st' # "Idle"
    BY <2>1, <2>3, <2>4, IdleReached
  <2> QED
    BY <2>3, <2>5 DEF Tracking, target_idle
<1> QED
  BY <1>1, <1>2

\* The address of a transaction's first transfer comes with no entry recorded.
LEMMA FirstStep ==
  ASSUME IInv, NEW ev \in BusEvents \cup {None},
         NEW hit \in BOOLEAN, NEW rw \in BOOLEAN, NEW sw \in BOOLEAN,
         NextState(ev, hit, sw), Fifos(ev, sw), Tracking(ev, hit, rw, sw)
  PROVE  FirstIsClosed'
<1> DEFINE e == Entry(ev, sw)
<1> SUFFICES ASSUME ~restart_det', st' \in AddrStates PROVE last' \in Log!Closed
  BY DEF FirstIsClosed
<1>1. CASE target_idle
  <2>1. last \in Log!Closed /\ FsmEntry(sw) = None
    BY <1>1, EntrySpace DEF IInv, OpenIsOurs, target_idle
  <2> QED
    BY <2>1, LogStep DEF Entry
<1>2. CASE ~target_idle
  <2>1. ~restart_det /\ ~(enable /\ ev = "start")
    BY <1>2 DEF Tracking
  <2>2. StateStep(hit, sw) /\ ~StopSeen(ev)
    BY <2>1, NoneAssumption DEF NextState, AddrStates, StopSeen
  <2>3. st \in AddrStates
    BY <2>2
    DEF AddrStates, StateStep, Idle, AcquireStart, AddrRead,
        AddrAckWait, AddrAckSetup, AddrAckPulse, AddrAckHold, TransmitWait, TransmitSetup,
        TransmitPulse, TransmitHold, TransmitAck, TransmitAckPulse, WaitForStop,
        AcquireByte, AcquireAckWait, AcquireAckSetup, AcquireAckPulse, AcquireAckHold,
        StretchAddrAck, StretchAddrAckSetup, StretchAddr, StretchTx, StretchTxSetup,
        StretchAcqFull, StretchAcqSetup
  <2>4. last \in Log!Closed
    BY <2>1, <2>3 DEF IInv, FirstIsClosed
  <2>5. FsmEntry(sw) = None
    BY <2>2, <2>3
    DEF FsmEntry, AddrStates, StateStep, Idle, AcquireStart, AddrRead,
        AddrAckWait, AddrAckSetup, AddrAckPulse, AddrAckHold, TransmitWait, TransmitSetup,
        TransmitPulse, TransmitHold, TransmitAck, TransmitAckPulse, WaitForStop,
        AcquireByte, AcquireAckWait, AcquireAckSetup, AcquireAckPulse, AcquireAckHold,
        StretchAddrAck, StretchAddrAckSetup, StretchAddr, StretchTx, StretchTxSetup,
        StretchAcqFull, StretchAcqSetup
  <2> QED
    BY <2>2, <2>4, <2>5, LogStep DEF Entry
<1> QED
  BY <1>1, <1>2

\* While data bytes are received the last entry is one of a write transfer.
LEMMA WriteStep ==
  ASSUME IInv, NEW ev \in BusEvents \cup {None},
         NEW hit \in BOOLEAN, NEW rw \in BOOLEAN, NEW sw \in BOOLEAN,
         NextState(ev, hit, sw), Fifos(ev, sw)
  PROVE  WriteOpen'
<1> DEFINE e == Entry(ev, sw)
<1> SUFFICES ASSUME st' \in WriteStates PROVE last' \in Log!Write
  BY DEF WriteOpen
<1>1. StateStep(hit, sw) /\ ~StopSeen(ev) /\ ~Disabled
  BY NoneAssumption DEF NextState, WriteStates, StopSeen
<1>2. e = FsmEntry(sw)
  BY <1>1 DEF Entry
<1>3. \/ st \in WriteStates /\ ~(st = "StretchAcqFull" /\ Nacks(sw))
      \/ /\ ~rw_bit /\ ~stretch_addr
         /\ \/ st = "AddrAckHold" /\ tcount = 1 /\ ~nack_transaction
            \/ st = "StretchAddr" /\ ~nack_timeout
  BY <1>1
  DEF WriteStates, StateStep, Idle, AcquireStart, AddrRead,
      AddrAckWait, AddrAckSetup, AddrAckPulse, AddrAckHold, TransmitWait, TransmitSetup,
      TransmitPulse, TransmitHold, TransmitAck, TransmitAckPulse, WaitForStop,
      AcquireByte, AcquireAckWait, AcquireAckSetup, AcquireAckPulse, AcquireAckHold,
      StretchAddrAck, StretchAddrAckSetup, StretchAddr, StretchTx, StretchTxSetup,
      StretchAcqFull, StretchAcqSetup
<1>4. CASE st \in WriteStates /\ ~(st = "StretchAcqFull" /\ Nacks(sw))
  <2>1. last \in Log!Write
    BY <1>4 DEF IInv, WriteOpen
  <2>2. e \in {None, "Data"}
    BY <1>2, <1>4 DEF FsmEntry, WriteStates
  <2> QED
    BY <1>1, <2>1, <2>2 DEF Fifos
<1>5. CASE /\ ~rw_bit /\ ~stretch_addr
           /\ \/ st = "AddrAckHold" /\ tcount = 1 /\ ~nack_transaction
              \/ st = "StretchAddr" /\ ~nack_timeout
  <2>1. e \in {"StartW", "RestartW"}
    BY <1>2, <1>5 DEF FsmEntry, AddrEntry
  <2>2. acq_depth < AcqFifoDepth
    BY <1>5, AcqFifoDepthAssumption
    DEF stretch_addr, acq_fifo_plenty_space, acq_fifo_remainder, IInv, TypeOK
  <2> QED
    BY <1>1, <2>1, <2>2, NoneAssumption DEF Fifos
<1> QED
  BY <1>3, <1>4, <1>5
------------------------------------------------------------------------------
(* The theorems.                                                            *)

\* Out of reset the invariant holds.
LEMMA InitInv == Init => IInv
<1> SUFFICES ASSUME Init PROVE IInv
  OBVIOUS
<1>1. TypeOK
  <2>1. /\ enable \in BOOLEAN /\ scl \in BOOLEAN /\ scl_q \in BOOLEAN
        /\ restart_det \in BOOLEAN /\ xact_for_us \in BOOLEAN /\ xfer_for_us \in BOOLEAN
        /\ nack_transaction \in BOOLEAN /\ rw_bit \in BOOLEAN /\ tx_events \in BOOLEAN
        /\ acked \in BOOLEAN /\ rose \in BOOLEAN
    BY Zenon DEF Init
  <2>2. /\ st \in States /\ bit_idx \in 0 .. ByteBits /\ tcount \in Nat
        /\ stretch_cnt \in 0 .. NackTimeout /\ auto_ack_cnt \in 0 .. AutoAckRange - 1
        /\ acq_depth \in 0 .. AcqFifoDepth /\ tx_level \in 0 .. TxFifoDepth
        /\ granted \in 0 .. AutoAckRange - 1
    BY AcqFifoDepthAssumption, TimingAssumption, AutoAckAssumption, TxAssumption
    DEF Init, States
  <2>3. last \in Log!Recorded \cup {None} /\ cfg \in ConfigType
    BY ConfigAssumption DEF Init
  <2> QED
    BY <2>1, <2>2, <2>3 DEF TypeOK
<1> QED
  BY <1>1, NoneAssumption
  DEF Init, IInv, NackedOnlyEnds, NackLatched, Addressed, OpenIsOurs, FirstIsClosed,
      WriteOpen, SpaceForStop, SpaceForNack, EndOnly, AddrStates, WriteStates

\* Every step keeps the invariant.
LEMMA StepInv == IInv /\ [Next]_vars => IInv'
<1> SUFFICES ASSUME IInv, [Next]_vars PROVE IInv'
  OBVIOUS
<1>1. TypeOK'
  BY TypeStep DEF IInv
<1>2. CASE SomeEdge
  <2>1. PICK ev \in BusEvents \cup {None}, hit, rw, sw \in BOOLEAN,
             load \in AutoAckLoads \cup {None} : Edge(ev, hit, rw, load, sw)
    BY <1>2 DEF SomeEdge
  <2>2. NextState(ev, hit, sw) /\ Tracking(ev, hit, rw, sw) /\ Fifos(ev, sw)
    BY <2>1 DEF Edge
  <2> QED
    BY <1>1, <2>2, SpaceStep, NackedStep, LatchStep, OursStep, FirstStep, WriteStep
    DEF IInv
<1>3. CASE Software
  <2>1. UNCHANGED <<st, last, nack_transaction, xact_for_us, restart_det>>
        /\ acq_depth' \in 0 .. acq_depth
    BY <1>3, SoftwareKeeps DEF IInv, fsm, hist
  <2>2. acq_depth \in Nat
    BY AcqFifoDepthAssumption DEF IInv, TypeOK
  <2>3. SpaceForStop' /\ SpaceForNack'
    <3>1. last' = last /\ acq_depth' \in Nat /\ acq_depth' <= acq_depth
      BY <2>1, <2>2
    <3>2. SpaceForStop /\ SpaceForNack
      BY DEF IInv
    <3>3. SpaceForStop'
      BY <3>1, <3>2, <2>2, AcqFifoDepthAssumption DEF SpaceForStop
    <3>4. SpaceForNack'
      <4> SUFFICES ASSUME last' \in Log!Write \cup Log!Read
                   PROVE  acq_depth' + 1 < AcqFifoDepth
        BY DEF SpaceForNack
      <4>1. acq_depth + 1 < AcqFifoDepth
        BY <3>1, <3>2 DEF SpaceForNack
      <4> QED
        BY <4>1, <3>1, <2>2, AcqFifoDepthAssumption, RoomKept
    <3> QED
      BY <3>3, <3>4
  <2> QED
    BY <1>1, <2>1, <2>3
    DEF IInv, NackedOnlyEnds, NackLatched, Addressed, OpenIsOurs, FirstIsClosed,
        WriteOpen, target_idle
<1>4. CASE UNCHANGED vars
  BY <1>1, <1>4
  DEF vars, regs, bus, fsm, hist, IInv, NackedOnlyEnds, NackLatched, Addressed,
      OpenIsOurs, FirstIsClosed, WriteOpen, SpaceForStop, SpaceForNack, target_idle
<1> QED
  BY <1>2, <1>3, <1>4 DEF Next

\* In every reachable state, for every depth, delay and setting, the state has
\* its types, and a NACK'd transaction is confined to the states towards its end.
THEOREM Invariance == Spec => []IInv
  BY InitInv, StepInv, PTL DEF Spec

\* The registers of i2c_target_fsm.sv keep their ranges: bit_idx never passes the
\* acknowledge bit, the ACQ FIFO never holds more than its depth.
THEOREM TypeCorrect == Spec => []TypeOK
<1>1. IInv => TypeOK
  BY DEF IInv
<1> QED
  BY <1>1, Invariance, PTL

\* "ensure we always have space to absorb a stop", and one for a NACK before it: for
\* every depth above 2 there is room for the end of a transaction as long as its log
\* is open, and inside a transfer for a NACK as well.
THEOREM EndHasSpace == Spec => []SpaceIsKept
<1>1. IInv => SpaceIsKept
  BY DEF IInv, SpaceIsKept
<1> QED
  BY <1>1, Invariance, PTL

\* A NACK'd transaction transfers no byte before its end, whatever the bus,
\* software and the delays do.
THEOREM NackIsFinal == Spec => []NackedStaysNacked
<1>1. IInv => NackedStaysNacked
  BY DEF IInv, NackedOnlyEnds, NackedStaysNacked, EndOnly, TransmitStates
<1> QED
  BY <1>1, Invariance, PTL

\* i2c_target_fsm.sv:620-635: the end of a transaction software saw begin is
\* recorded, however full the ACQ FIFO got meanwhile, unless software disabled
\* the target.
THEOREM EndIsRecorded == Spec => EndRecorded
<1>1. IInv /\ [Next]_vars
        => [last \notin Log!Closed /\ enable /\ ~target_idle /\ st' = "Idle"
              => last' \in {"Stop", "NackStop"}]_vars
  <2> SUFFICES ASSUME IInv, [Next]_vars, ~(UNCHANGED vars), last \notin Log!Closed, enable,
                      ~target_idle, st' = "Idle"
               PROVE  last' \in {"Stop", "NackStop"}
    OBVIOUS
  <2>1. ~Software
    BY SoftwareKeeps DEF IInv, fsm, target_idle
  <2>2. PICK ev \in BusEvents \cup {None}, hit, rw, sw \in BOOLEAN,
             load \in AutoAckLoads \cup {None} : Edge(ev, hit, rw, load, sw)
    BY <2>1 DEF Next, SomeEdge
  <2>3. StopSeen(ev) /\ ~Disabled
    BY <2>2, IdleReached DEF Edge, Disabled
  <2>4. xact_for_us
    BY DEF IInv, OpenIsOurs
  <2>5. Entry(ev, sw) \in {"Stop", "NackStop"} /\ Entry(ev, sw) # None
    BY <2>3, <2>4, NoneAssumption DEF Entry
  <2>6. acq_depth < AcqFifoDepth
    BY DEF IInv, SpaceForStop
  <2> QED
    BY <2>2, <2>3, <2>5, <2>6 DEF Edge, Fifos
<1> QED
  BY <1>1, Invariance, PTL DEF Spec, EndRecorded
------------------------------------------------------------------------------
(* Every word recorded is one of the grammar AcqLog.                        *)

\* An entry a state writes may follow the last one.
LEMMA EntryFollows ==
  ASSUME IInv, NEW sw \in BOOLEAN, FsmEntry(sw) # None, last' = FsmEntry(sw)
  PROVE  Log!LogNext
<1>1. CASE FsmEntry(sw) = AddrEntry /\ st \in {"AddrAckHold", "StretchAddr"}
  <2>1. ~nack_transaction
    BY <1>1, NoneAssumption DEF FsmEntry, IInv, NackedOnlyEnds, EndOnly, AddrEntry
  <2>2. last \notin Log!Nacked
    BY <2>1 DEF IInv, NackLatched
  <2>3. CASE restart_det
    BY <2>2, <2>3, <1>1 DEF AddrEntry, Log!LogNext, Log!Restart
  <2>4. CASE ~restart_det
    <3>1. last \in Log!Closed
      BY <1>1, <2>4 DEF IInv, FirstIsClosed, AddrStates
    <3> QED
      BY <3>1, <2>4, <1>1 DEF AddrEntry, Log!LogNext, Log!Start
  <2> QED
    BY <2>3, <2>4
<1>2. CASE FsmEntry(sw) \in {"Data", "Nack"} /\ st \in {"AcquireAckHold", "StretchAcqFull"}
  BY <1>2 DEF IInv, WriteOpen, WriteStates, Log!LogNext, Log!Byte
<1>3. CASE FsmEntry(sw) = "NackStart" /\ st \in {"StretchAddrAck", "StretchAddr"}
  BY <1>3, NoneAssumption
  DEF IInv, NackedOnlyEnds, NackLatched, EndOnly, Log!LogNext, Log!NackStart
<1> QED
  BY <1>1, <1>2, <1>3 DEF FsmEntry

\* Every step is a step of the log or leaves it alone.
LEMMA LogNextStep == IInv /\ [Next]_vars => [Log!LogNext]_last
<1> SUFFICES ASSUME IInv, [Next]_vars, last' # last PROVE Log!LogNext
  OBVIOUS
<1>1. SomeEdge
  BY SoftwareKeeps DEF IInv, Next, vars, hist
<1>2. PICK ev \in BusEvents \cup {None}, hit, rw, sw \in BOOLEAN,
           load \in AutoAckLoads \cup {None} : Edge(ev, hit, rw, load, sw)
  BY <1>1 DEF SomeEdge
<1>3. CASE last' = None
  BY <1>3 DEF Log!LogNext, Log!Abandon
<1>4. CASE last' = Entry(ev, sw) /\ Entry(ev, sw) # None
  <2>1. CASE enable /\ StopSeen(ev)
    BY <1>4, <2>1
    DEF Entry, IInv, NackLatched, Log!LogNext, Log!Stop, Log!NackStop
  <2>2. CASE ~(enable /\ StopSeen(ev))
    BY <1>4, <2>2, EntryFollows DEF Entry
  <2> QED
    BY <2>1, <2>2
<1> QED
  BY <1>2, <1>3, <1>4, LogStep DEF Edge

\* The target implements the grammar that data/i2c.hjson describes for ACQDATA.
THEOREM Framing == Spec => FramingOK
<1>1. Init => Log!LogInit
  BY DEF Init, Log!LogInit
<1> QED
  BY <1>1, LogNextStep, Invariance, PTL DEF Spec, FramingOK, Log!LogSpec
------------------------------------------------------------------------------
(* What a transfer relies on: reads wait for software, an ACK is given only *)
(* with the room and the grant to record it.                                *)

ReadStates == {"TransmitWait", "StretchTx", "TransmitAck", "TransmitAckPulse"} \cup TransmitStates
AckedStates == {"AcquireAckSetup", "AcquireAckPulse", "AcquireAckHold", "StretchAcqSetup"}

\* A byte goes out after a recorded read command, with nothing else in the ACQ
\* FIFO and no event unhandled.
ReadOpen == st \in ReadStates => last \in Log!Read
GateOpen == st \in TransmitStates => acq_depth <= 1 /\ ~tx_events

\* Where the address or the byte was ACK'd, and where it cannot be yet.
AckSeen ==
  /\ st \in {"AddrAckHold", "StretchAddr", "AcquireAckHold"} => acked
  /\ st \in {"AcquireAckWait", "StretchAcqFull"} => ~acked

\* Where a stretch ends.
RoseWhere ==
  rose => st \in {"Idle", "AcquireStart", "WaitForStop", "AddrAckSetup", "AcquireByte",
                  "TransmitSetup", "AcquireAckSetup"}

TransferInv == ReadOpen /\ GateOpen /\ AckSeen /\ RoseWhere

\* NBYTES is what is left of the grant, and an ACK under way has its slot and its
\* grant until it is recorded.
GrantCounts == cfg.ack_ctrl => auto_ack_cnt = granted
AckHasRoom == st \in AckedStates => acq_fifo_plenty_space /\ can_auto_ack

\* Inside a transfer a state is entered only from the one before it: bus conditions
\* and a disable leave the transfer.
LEMMA TransferSteps ==
  ASSUME NEW ev \in BusEvents \cup {None}, NEW hit \in BOOLEAN, NEW sw \in BOOLEAN,
         NextState(ev, hit, sw), st' \notin {"Idle", "AcquireStart", "WaitForStop"}
  PROVE  StateStep(hit, sw) /\ ~StopSeen(ev) /\ ev # "arbitration" /\ ~Disabled
  BY NoneAssumption DEF NextState, StopSeen

\* How the states of a read transfer are entered.
LEMMA ReadSteps ==
  ASSUME NEW hit \in BOOLEAN, NEW sw \in BOOLEAN, StateStep(hit, sw)
  PROVE  /\ st' \in ReadStates =>
              \/ st \in ReadStates
              \/ /\ rw_bit /\ ~stretch_addr
                 /\ \/ st = "AddrAckHold" /\ tcount = 1 /\ ~nack_transaction
                    \/ st = "StretchAddr" /\ ~nack_timeout
         /\ st' \in TransmitStates =>
              st \in TransmitStates \/ (st \in {"TransmitWait", "StretchTx"} /\ ~stretch_tx)
  BY DEF ReadStates, TransmitStates, StateStep, Idle, AcquireStart, AddrRead, AddrAckWait,
      AddrAckSetup, AddrAckPulse, AddrAckHold, TransmitWait, TransmitSetup, TransmitPulse,
      TransmitHold, TransmitAck, TransmitAckPulse, WaitForStop, AcquireByte,
      AcquireAckWait, AcquireAckSetup, AcquireAckPulse, AcquireAckHold, StretchAddrAck,
      StretchAddrAckSetup, StretchAddr, StretchTx, StretchTxSetup, StretchAcqFull,
      StretchAcqSetup

\* How the states around an acknowledge are entered.
LEMMA AckSteps ==
  ASSUME NEW hit \in BOOLEAN, NEW sw \in BOOLEAN, StateStep(hit, sw)
  PROVE  /\ st' = "AddrAckHold" =>
              st = "AddrAckHold" \/ (st = "AddrAckPulse" /\ ~scl)
         /\ st' = "StretchAddr" => st \in {"AddrAckHold", "StretchAddr"}
         /\ st' = "AcquireAckHold" =>
              st = "AcquireAckHold" \/ (st = "AcquireAckPulse" /\ ~scl)
         /\ st' = "AcquireAckWait" => st \in {"AcquireByte", "AcquireAckWait"}
         /\ st' = "StretchAcqFull" =>
              st = "StretchAcqFull" \/ (st = "AcquireAckWait" /\ stretch_rx)
         /\ st' \in AckedStates =>
              \/ st \in AckedStates /\ ~(st = "AcquireAckHold" /\ tcount = 1)
              \/ /\ st \in {"AcquireAckWait", "StretchAcqFull"} /\ ~stretch_rx
                 /\ ~(st = "StretchAcqFull" /\ Nacks(sw))
  BY DEF AckedStates, StateStep, Idle, AcquireStart, AddrRead, AddrAckWait,
      AddrAckSetup, AddrAckPulse, AddrAckHold, TransmitWait, TransmitSetup, TransmitPulse,
      TransmitHold, TransmitAck, TransmitAckPulse, WaitForStop, AcquireByte,
      AcquireAckWait, AcquireAckSetup, AcquireAckPulse, AcquireAckHold, StretchAddrAck,
      StretchAddrAckSetup, StretchAddr, StretchTx, StretchTxSetup, StretchAcqFull,
      StretchAcqSetup

\* Where SCL is released, and that it is not taken again at once.
LEMMA StretchSteps ==
  ASSUME NEW hit \in BOOLEAN, NEW sw \in BOOLEAN, StateStep(hit, sw)
  PROVE  /\ st \in Stretching =>
              st' \in Stretching
                 \cup {"WaitForStop", "AddrAckSetup", "AcquireByte", "TransmitSetup",
                       "AcquireAckSetup"}
         /\ st \in {"Idle", "AcquireStart", "WaitForStop", "AddrAckSetup", "AcquireByte",
                   "TransmitSetup", "AcquireAckSetup"} => st' \notin Stretching
  BY DEF Stretching, StateStep, Idle, AcquireStart, AddrRead, AddrAckWait,
      AddrAckSetup, AddrAckPulse, AddrAckHold, TransmitWait, TransmitSetup, TransmitPulse,
      TransmitHold, TransmitAck, TransmitAckPulse, WaitForStop, AcquireByte,
      AcquireAckWait, AcquireAckSetup, AcquireAckPulse, AcquireAckHold, StretchAddrAck,
      StretchAddrAckSetup, StretchAddr, StretchTx, StretchTxSetup, StretchAcqFull,
      StretchAcqSetup

\* In the states of a read the log is inside a read.
LEMMA ReadOpenStep ==
  ASSUME IInv, ReadOpen, NEW ev \in BusEvents \cup {None},
         NEW hit \in BOOLEAN, NEW sw \in BOOLEAN, NextState(ev, hit, sw), Fifos(ev, sw)
  PROVE  ReadOpen'
<1> SUFFICES ASSUME st' \in ReadStates PROVE last' \in Log!Read
  BY DEF ReadOpen
<1>1. StateStep(hit, sw) /\ ~StopSeen(ev) /\ ~Disabled
  BY TransferSteps DEF ReadStates, TransmitStates
<1>2. CASE st \in ReadStates
  <2>1. Entry(ev, sw) = None
    BY <1>1, <1>2 DEF Entry, FsmEntry, ReadStates, TransmitStates
  <2> QED
    BY <1>1, <1>2, <2>1 DEF Fifos, ReadOpen
<1>3. CASE /\ rw_bit /\ ~stretch_addr
           /\ \/ st = "AddrAckHold" /\ tcount = 1 /\ ~nack_transaction
              \/ st = "StretchAddr" /\ ~nack_timeout
  <2>1. Entry(ev, sw) \in {"StartR", "RestartR"}
    BY <1>1, <1>3 DEF Entry, FsmEntry, AddrEntry
  <2>2. acq_depth < AcqFifoDepth
    BY <1>3, AcqFifoDepthAssumption
    DEF stretch_addr, acq_fifo_plenty_space, acq_fifo_remainder, IInv, TypeOK
  <2> QED
    BY <1>1, <2>1, <2>2, NoneAssumption DEF Fifos
<1> QED
  BY <1>1, <1>2, <1>3, ReadSteps

\* A byte goes out after the gate has been passed.
LEMMA GateOpenStep ==
  ASSUME IInv, GateOpen, NEW ev \in BusEvents \cup {None},
         NEW hit \in BOOLEAN, NEW sw \in BOOLEAN, NextState(ev, hit, sw), Fifos(ev, sw)
  PROVE  GateOpen'
<1> SUFFICES ASSUME st' \in TransmitStates PROVE acq_depth' <= 1 /\ ~tx_events'
  BY DEF GateOpen
<1>1. StateStep(hit, sw) /\ ~StopSeen(ev) /\ ev # "arbitration" /\ ~Disabled
  BY TransferSteps DEF TransmitStates
<1>2. st \in TransmitStates \cup {"TransmitWait", "StretchTx"} /\ acq_depth <= 1 /\ ~tx_events
  BY <1>1, ReadSteps DEF GateOpen, stretch_tx, IInv, TypeOK
<1>3. Entry(ev, sw) = None
  BY <1>1, <1>2 DEF Entry, FsmEntry, TransmitStates
<1>4. ~event_read_cmd_received /\ ~event_tx_bus_timeout(ev) /\ ~event_tx_arbitration_lost(ev)
  BY <1>1, <1>2
  DEF event_read_cmd_received, event_tx_bus_timeout, event_tx_arbitration_lost, StopSeen,
      TransmitStates
<1> QED
  BY <1>2, <1>3, <1>4 DEF Fifos

\* An ACK recorded has been on the bus.
LEMMA AckSeenStep ==
  ASSUME IInv, AckSeen, NEW ev \in BusEvents \cup {None},
         NEW hit \in BOOLEAN, NEW sw \in BOOLEAN, NEW load,
         NextState(ev, hit, sw), History(load)
  PROVE  AckSeen'
<1>1. SUFFICES ASSUME st' \notin {"Idle", "AcquireStart", "WaitForStop"}
               PROVE  AckSeen'
  BY DEF AckSeen
<1>2. StateStep(hit, sw)
  BY <1>1, TransferSteps
<1> QED
  BY <1>2, AckSteps DEF AckSeen, History

\* SCL was released in a stretch only.
LEMMA RoseStep ==
  ASSUME IInv, NEW ev \in BusEvents \cup {None},
         NEW hit \in BOOLEAN, NEW sw \in BOOLEAN, NEW load,
         NextState(ev, hit, sw), History(load)
  PROVE  RoseWhere'
<1>1. SUFFICES ASSUME rose', st' \notin {"Idle", "AcquireStart", "WaitForStop"}
               PROVE  st' \in {"AddrAckSetup", "AcquireByte", "TransmitSetup", "AcquireAckSetup"}
  BY DEF RoseWhere
<1>2. StateStep(hit, sw)
  BY <1>1, TransferSteps
<1>3. st \in Stretching /\ st' \notin Stretching
  BY <1>1 DEF History
<1> QED
  BY <1>1, <1>2, <1>3, StretchSteps

\* What the states of a transfer know of the log, of the gate and of the acknowledge holds
\* for every value of the constants.
THEOREM TransferInvariance == Spec => []TransferInv
<1>1. Init => TransferInv
  BY DEF Init, TransferInv, ReadOpen, GateOpen, AckSeen, RoseWhere, ReadStates, TransmitStates
<1>2. IInv /\ TransferInv /\ [Next]_vars => TransferInv'
  <2> SUFFICES ASSUME IInv, TransferInv, [Next]_vars PROVE TransferInv'
    OBVIOUS
  <2>1. CASE SomeEdge
    <3>1. PICK ev \in BusEvents \cup {None}, hit, rw, sw \in BOOLEAN,
               load \in AutoAckLoads \cup {None} : Edge(ev, hit, rw, load, sw)
      BY <2>1 DEF SomeEdge
    <3>2. NextState(ev, hit, sw) /\ Fifos(ev, sw) /\ History(load)
      BY <3>1 DEF Edge
    <3> QED
      BY <3>2, ReadOpenStep, GateOpenStep, AckSeenStep, RoseStep DEF TransferInv
  <2>2. CASE Software
    <3>1. UNCHANGED <<st, last, acked, rose>> /\ acq_depth' \in 0 .. acq_depth
      BY <2>2, SoftwareKeeps DEF IInv, fsm, hist
    <3>2. tx_events' => tx_events
      BY <2>2
      DEF Software, SwReadAcq, SwWriteTx, SwClearTxEvents, SwEnable, SwAckCtrl, SwAcqReset,
          SwTxReset
    <3>3. acq_depth <= 1 => acq_depth' <= 1
      BY <3>1, AcqFifoDepthAssumption DEF IInv, TypeOK
    <3> QED
      BY <3>1, <3>2, <3>3 DEF TransferInv, ReadOpen, GateOpen, AckSeen, RoseWhere
  <2>3. CASE UNCHANGED vars
    BY <2>3 DEF vars, fsm, hist, TransferInv, ReadOpen, GateOpen, AckSeen, RoseWhere
  <2> QED
    BY <2>1, <2>2, <2>3 DEF Next
<1> QED
  BY <1>1, <1>2, Invariance, PTL DEF Spec

\* AcqDepthRdCheck_A and the TX_STRETCH_CTRL_EN gate: a byte goes out only when software
\* has read everything before the read command and has dealt with every event.
THEOREM ReadIsGated == Spec => []ReadGate
<1>1. IInv /\ TransferInv => ReadGate
  <2> SUFFICES ASSUME IInv, TransferInv PROVE ReadGate
    OBVIOUS
  <2>1. st = "TransmitSetup" /\ acq_depth > 0 => acq_depth = 1 /\ last \in Log!Read
    BY AcqFifoDepthAssumption
    DEF IInv, TypeOK, TransferInv, ReadOpen, GateOpen, ReadStates, TransmitStates
  <2> QED
    BY <2>1 DEF TransferInv, GateOpen, ReadGate
<1> QED
  BY <1>1, Invariance, TransferInvariance, PTL

\* SclOutputGlitch_A: SCL, once the target has released it, stays released for another
\* cycle, whatever the bus and software do in it.
THEOREM NoSclGlitch == Spec => SclOutputGlitch
<1>1. IInv /\ TransferInv /\ [Next]_vars => [rose => scl_o']_vars
  <2> SUFFICES ASSUME IInv, TransferInv, Next, rose PROVE st' \notin Stretching
    BY DEF scl_o
  <2>1. /\ st \in {"Idle", "AcquireStart", "WaitForStop", "AddrAckSetup", "AcquireByte",
                   "TransmitSetup", "AcquireAckSetup"}
        /\ st \notin Stretching
    BY DEF TransferInv, RoseWhere, Stretching
  <2>2. CASE SomeEdge
    <3>1. PICK ev \in BusEvents \cup {None}, hit, rw, sw \in BOOLEAN,
               load \in AutoAckLoads \cup {None} : Edge(ev, hit, rw, load, sw)
      BY <2>2 DEF SomeEdge
    <3>2. NextState(ev, hit, sw)
      BY <3>1 DEF Edge
    <3>3. CASE st' \in {"Idle", "AcquireStart", "WaitForStop"}
      BY <3>3 DEF Stretching
    <3>4. CASE st' \notin {"Idle", "AcquireStart", "WaitForStop"}
      BY <2>1, <3>2, <3>4, TransferSteps, StretchSteps
    <3> QED
      BY <3>3, <3>4
  <2>3. CASE Software
    BY <2>1, <2>3, SoftwareKeeps DEF IInv, fsm
  <2> QED
    BY <2>2, <2>3 DEF Next
<1> QED
  BY <1>1, Invariance, TransferInvariance, PTL DEF Spec, SclOutputGlitch

\* The log tells what the bus saw: what is recorded as an address or as data was ACK'd,
\* what is recorded as a NACK'd byte was not.
THEOREM LogIsTrue == Spec => LogMatchesBus
<1> DEFINE Matches ==
      acq_depth' > acq_depth => /\ last' \in Log!Write \cup Log!Read => acked
                                /\ last' = "Nack" => ~acked
<1>1. IInv /\ TransferInv /\ [Next]_vars => [Matches]_vars
  <2> SUFFICES ASSUME IInv, TransferInv, Next, acq_depth' > acq_depth,
                      last' \in Log!Write \cup Log!Read \cup {"Nack"}
               PROVE  acked <=> last' # "Nack"
    OBVIOUS
  <2>1. SomeEdge
    BY SoftwareKeeps, AcqFifoDepthAssumption DEF Next, IInv, TypeOK
  <2>2. PICK ev \in BusEvents \cup {None}, hit, rw, sw \in BOOLEAN,
             load \in AutoAckLoads \cup {None} : Edge(ev, hit, rw, load, sw)
    BY <2>1 DEF SomeEdge
  <2>3. last' = Entry(ev, sw)
    BY <2>2, NoneAssumption, AcqFifoDepthAssumption DEF Edge, Fifos, IInv, TypeOK
  <2>4. last' = FsmEntry(sw)
    BY <2>3, NoneAssumption DEF Entry
  <2>5. \/ last' # "Nack" /\ st \in {"AddrAckHold", "StretchAddr", "AcquireAckHold"}
        \/ last' = "Nack" /\ st = "StretchAcqFull"
    BY <2>4, NoneAssumption DEF FsmEntry, AddrEntry
  <2> QED
    BY <2>5 DEF TransferInv, AckSeen
<1> QED
  BY <1>1, Invariance, TransferInvariance, PTL DEF Spec, LogMatchesBus
------------------------------------------------------------------------------
(* ACK control, with ACK_CTRL_EN left alone: software that sets it while an *)
(* ACK is under way takes the grant away that let the byte be ACK'd.        *)

GrantInv == GrantCounts /\ AckHasRoom /\ cfg \in ConfigType

\* A number below the modulus is its own remainder.
LEMMA ModSmall ==
  ASSUME NEW n \in Nat, n >= 1, NEW a \in 0 .. n - 1
  PROVE  a % n = a
  OBVIOUS

\* The room the ACK was given for is still there.
LEMMA PlentyKept ==
  ASSUME NEW n \in Nat, NEW a \in Nat, NEW b \in Nat, b <= a, n - a > 2
  PROVE  n - b > 2
  OBVIOUS

\* Under ACK control the hardware's count and what is left of the grant go down
\* together: a byte is only ACK'd, and its ACK only ends, with the count above 0.
LEMMA GrantCountsStep ==
  ASSUME IInv, GrantCounts, AckHasRoom, NEW ev, NEW hit \in BOOLEAN, NEW sw \in BOOLEAN,
         NEW load \in AutoAckLoads \cup {None}, cfg' = cfg,
         Counters(ev, hit, load, sw), History(load)
  PROVE  GrantCounts'
<1> SUFFICES ASSUME cfg.ack_ctrl PROVE auto_ack_cnt' = granted'
  BY DEF GrantCounts
<1>1. auto_ack_cnt = granted /\ auto_ack_cnt \in 0 .. AutoAckRange - 1
  BY DEF GrantCounts, IInv, TypeOK
<1>2. CASE load # None \/ st = "AcquireStart"
  BY <1>2 DEF Counters, History
<1>3. CASE load = None /\ st = "AcquireAckHold" /\ TDone
  <2>1. auto_ack_cnt > 0
    BY <1>3 DEF AckHasRoom, AckedStates, can_auto_ack
  <2>2. auto_ack_cnt - 1 \in 0 .. AutoAckRange - 1
    BY <1>1, <2>1, AutoAckAssumption
  <2>3. auto_ack_cnt' = auto_ack_cnt - 1
    BY <1>3, <2>2, ModSmall, AutoAckAssumption DEF Counters
  <2>4. granted' = granted - 1
    BY <1>1, <1>3, <2>1 DEF History
  <2> QED
    BY <1>1, <2>3, <2>4
<1>4. CASE load = None /\ st # "AcquireStart" /\ ~(st = "AcquireAckHold" /\ TDone)
  BY <1>1, <1>4 DEF Counters, History
<1> QED
  BY <1>2, <1>3, <1>4

\* The slot and the grant that let an ACK begin are there until it ends.
LEMMA AckHasRoomStep ==
  ASSUME IInv, AckHasRoom, NEW ev \in BusEvents \cup {None},
         NEW hit \in BOOLEAN, NEW rw \in BOOLEAN, NEW load, NEW sw \in BOOLEAN,
         Edge(ev, hit, rw, load, sw)
  PROVE  AckHasRoom'
<1> SUFFICES ASSUME st' \in AckedStates PROVE (acq_fifo_plenty_space /\ can_auto_ack)'
  BY DEF AckHasRoom
<1>1. StateStep(hit, sw) /\ ~StopSeen(ev)
  BY TransferSteps DEF Edge, AckedStates
<1>2. \/ st \in AckedStates /\ ~(st = "AcquireAckHold" /\ tcount = 1)
      \/ /\ st \in {"AcquireAckWait", "StretchAcqFull"} /\ ~stretch_rx
         /\ ~(st = "StretchAcqFull" /\ Nacks(sw))
  BY <1>1, AckSteps
<1>3. acq_fifo_plenty_space /\ can_auto_ack
  BY <1>2 DEF AckHasRoom, stretch_rx
<1>4. Entry(ev, sw) = None
  BY <1>1, <1>2 DEF Entry, FsmEntry, AckedStates
<1>5. acq_depth' = acq_depth
  BY <1>4 DEF Edge, Fifos
<1>6. load = None
  BY <1>3 DEF Edge
<1>7. auto_ack_cnt' = auto_ack_cnt /\ cfg' = cfg
  BY <1>2, <1>6 DEF Edge, Counters, regs, AckedStates, TDone
<1> QED
  BY <1>3, <1>5, <1>7 DEF acq_fifo_plenty_space, acq_fifo_remainder, can_auto_ack

\* With ACK control set once, the grants left and the ACKs given make up what software
\* granted.
THEOREM GrantInvariance ==
  ASSUME "ackctrl" \notin SwOps
  PROVE  Spec => []GrantInv
<1>1. Init => GrantInv
  BY ConfigAssumption DEF Init, GrantInv, GrantCounts, AckHasRoom, AckedStates
<1>2. IInv /\ GrantInv /\ [Next]_vars => GrantInv'
  <2> SUFFICES ASSUME IInv, GrantInv, [Next]_vars PROVE GrantInv'
    OBVIOUS
  <2>1. CASE SomeEdge
    <3>1. PICK ev \in BusEvents \cup {None}, hit, rw, sw \in BOOLEAN,
               load \in AutoAckLoads \cup {None} : Edge(ev, hit, rw, load, sw)
      BY <2>1 DEF SomeEdge
    <3>2. /\ cfg' = cfg /\ Counters(ev, hit, load, sw) /\ History(load)
      BY <3>1 DEF Edge, regs
    <3> QED
      BY <3>1, <3>2, GrantCountsStep, AckHasRoomStep DEF GrantInv
  <2>2. CASE Software
    <3>1. UNCHANGED <<st, auto_ack_cnt, granted>> /\ acq_depth' \in 0 .. acq_depth
      BY <2>2, SoftwareKeeps DEF IInv, fsm, hist
    <3>2. cfg' = cfg
      BY <2>2
      DEF Software, SwReadAcq, SwWriteTx, SwClearTxEvents, SwEnable, SwAckCtrl, SwAcqReset,
          SwTxReset, regs
    <3>3. acq_fifo_plenty_space => acq_fifo_plenty_space'
      <4>1. acq_depth \in Nat /\ acq_depth' \in Nat /\ acq_depth' <= acq_depth
        BY <3>1, AcqFifoDepthAssumption DEF IInv, TypeOK
      <4> QED
        BY <4>1, PlentyKept, AcqFifoDepthAssumption
        DEF acq_fifo_plenty_space, acq_fifo_remainder
    <3> QED
      BY <3>1, <3>2, <3>3 DEF GrantInv, GrantCounts, AckHasRoom, can_auto_ack
  <2>3. CASE UNCHANGED vars
    BY <2>3
    DEF vars, regs, fsm, hist, GrantInv, GrantCounts, AckHasRoom, can_auto_ack,
        acq_fifo_plenty_space, acq_fifo_remainder
  <2> QED
    BY <2>1, <2>2, <2>3 DEF Next
<1> QED
  BY <1>1, <1>2, Invariance, PTL DEF Spec

\* TARGET_ACK_CTRL: no byte is ACK'd beyond the number software granted in this
\* transfer.
THEOREM NoAckBeyondGrant ==
  ASSUME "ackctrl" \notin SwOps
  PROVE  Spec => []AcksAreGranted
<1>1. IInv /\ GrantInv => AcksAreGranted
  BY DEF IInv, TypeOK, GrantInv, GrantCounts, AckHasRoom, AckedStates, can_auto_ack,
         AcksAreGranted
<1> QED
  BY <1>1, Invariance, GrantInvariance, PTL

\* A byte that was ACK'd on the bus is recorded when its ACK ends.
THEOREM AckIsRecorded ==
  ASSUME "ackctrl" \notin SwOps
  PROVE  Spec => AckedIsRecorded
<1>1. IInv /\ GrantInv /\ [Next]_vars
        => [st = "AcquireAckHold" /\ st' = "AcquireByte"
              => last' = "Data" /\ acq_depth' = acq_depth + 1]_vars
  <2> SUFFICES ASSUME IInv, GrantInv, Next, st = "AcquireAckHold", st' = "AcquireByte"
               PROVE  last' = "Data" /\ acq_depth' = acq_depth + 1
    OBVIOUS
  <2>1. SomeEdge
    BY SoftwareKeeps DEF Next, IInv, fsm
  <2>2. PICK ev \in BusEvents \cup {None}, hit, rw, sw \in BOOLEAN,
             load \in AutoAckLoads \cup {None} : Edge(ev, hit, rw, load, sw)
    BY <2>1 DEF SomeEdge
  <2>3. StateStep(hit, sw) /\ ~StopSeen(ev) /\ ~Disabled
    BY <2>2, TransferSteps DEF Edge
  <2>4. tcount = 1
    BY <2>3
    DEF StateStep, Idle, AcquireStart, AddrRead, AddrAckWait,
      AddrAckSetup, AddrAckPulse, AddrAckHold, TransmitWait, TransmitSetup, TransmitPulse,
      TransmitHold, TransmitAck, TransmitAckPulse, WaitForStop, AcquireByte,
      AcquireAckWait, AcquireAckSetup, AcquireAckPulse, AcquireAckHold, StretchAddrAck,
      StretchAddrAckSetup, StretchAddr, StretchTx, StretchTxSetup, StretchAcqFull,
      StretchAcqSetup
  <2>5. acq_fifo_plenty_space /\ can_auto_ack
    BY DEF GrantInv, AckHasRoom, AckedStates
  <2>6. Entry(ev, sw) = "Data"
    BY <2>3, <2>4, <2>5 DEF Entry, FsmEntry, stretch_rx
  <2>7. acq_depth < AcqFifoDepth
    BY <2>5, AcqFifoDepthAssumption
    DEF IInv, TypeOK, acq_fifo_plenty_space, acq_fifo_remainder
  <2> QED
    BY <2>2, <2>3, <2>6, <2>7, NoneAssumption DEF Edge, Fifos
<1> QED
  BY <1>1, Invariance, GrantInvariance, PTL DEF Spec, AckedIsRecorded
==============================================================================
