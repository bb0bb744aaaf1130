---------------------------- MODULE I2cEventsProofs ----------------------------
(****************************************************************************)
(* Proofs about I2cEvents for every size of the RX FIFO, every value at     *)
(* which the NACK count saturates and every set of controller events.       *)
(****************************************************************************)
EXTENDS I2cEvents, TLAPS

\* What software has read in INTR_STATE is still so when it writes it back.
SeenIsSet == seen \subseteq intr_state

\* The inductive invariant, and the part of the type that the counts need.
IInv == TypeOK /\ NacksReported /\ (ReadsFirst => SeenIsSet /\ DropsReported)

CountsOK == target_nack_count \in 0..NackMax /\ nacks \in 0..(NackMax + 1)

\* An edge with any access: every step is one.
LEMMA StepIsEdge ==
  ASSUME Next
  PROVE  \E sw \in Other \cup UNION {Handler(i) : i \in Interrupts}, raised \in Raised,
            wvalid, wready, nacked \in BOOLEAN :
            /\ wready => wvalid /\ rx_fifo_depth < RxFifoDepth
            /\ Edge(sw, raised, wvalid, wready, nacked)
BY DEF Next, Handle, SomeEdge

\* Counting up to a limit: a register that stops at NackMax and the number of NACKs
\* agree, since the remainder never wraps the register.
LEMMA SaturatedCount ==
  ASSUME CountsOK, target_nack_count = Least(nacks, NackMax), NEW nacked \in BOOLEAN
  PROVE  /\ nack_count_d(nacked) \in 0..NackMax
         /\ nack_count_d(nacked) = Least(nacks + (IF nacked THEN 1 ELSE 0), NackMax)
         /\ nack_count_d(nacked)
              = Least(Least(nacks + (IF nacked THEN 1 ELSE 0), NackMax + 1), NackMax)
<1>1. NackMax \in Nat /\ NackMax > 0
  BY NackAssumption
<1>2. ASSUME nacked, target_nack_count < NackMax
      PROVE  nack_count_d(nacked) = target_nack_count + 1
  <2>1. target_nack_count + 1 \in 0..NackMax
    BY <1>1, <1>2 DEF CountsOK
  <2>2. \A n \in 0..NackMax : n % (NackMax + 1) = n
    BY <1>1
  <2>3. QED
    BY <1>2, <2>1, <2>2 DEF nack_count_d
<1>3. ASSUME ~(nacked /\ target_nack_count < NackMax)
      PROVE  nack_count_d(nacked) = target_nack_count
  BY <1>3 DEF nack_count_d
<1>4. CASE nacked /\ target_nack_count < NackMax
  <2>1. nacks = target_nack_count /\ nacks \in Nat
    BY <1>1, <1>4 DEF CountsOK, Least
  <2>2. (IF nacked THEN 1 ELSE 0) = 1
    BY <1>4
  <2>3. nack_count_d(nacked) = nacks + 1
    BY <1>2, <1>4, <2>1
  <2>4. nacks + 1 <= NackMax
    BY <1>1, <1>4, <2>1
  <2>5. QED
    BY <1>1, <2>1, <2>2, <2>3, <2>4 DEF Least
<1>5. CASE ~(nacked /\ target_nack_count < NackMax)
  BY <1>1, <1>3, <1>5 DEF CountsOK, Least
<1>6. QED
  BY <1>4, <1>5

\* Out of reset nothing is counted, dropped or reported.
LEMMA InitIInv == Init => IInv
<1> SUFFICES ASSUME Init PROVE IInv
  OBVIOUS
<1>1. TypeOK
  <2>1. /\ rx_fifo_depth \in 0..RxFifoDepth
        /\ target_nack_count \in 0..NackMax /\ rdata \in 0..NackMax
        /\ nacks \in 0..(NackMax + 1) /\ nacks_then \in 0..NackMax
    BY NackAssumption, RxAssumption DEF Init
  <2>2. QED
    BY <2>1 DEF Init, TypeOK
<1>2. NacksReported /\ SeenIsSet /\ DropsReported
  BY NackAssumption DEF Init, NacksReported, SeenIsSet, DropsReported, Least
<1>3. QED
  BY <1>1, <1>2 DEF IInv

\* The registers that are sets of bits.
LEMMA BitsStep ==
  ASSUME TypeOK, NEW sw \in Other \cup UNION {Handler(i) : i \in Interrupts},
         NEW raised \in Raised, NEW wvalid \in BOOLEAN, NEW wready \in BOOLEAN,
         NEW nacked, Edge(sw, raised, wvalid, wready, nacked)
  PROVE  /\ controller_events' \subseteq Events
         /\ intr_state' \subseteq Interrupts /\ intr_enable' \subseteq Interrupts
         /\ intr_o' \subseteq Interrupts /\ test_q' \subseteq StatusIntr
         /\ seen' \subseteq EventIntr /\ dropped' \in BOOLEAN
<1>1. controller_events' \subseteq Events
  BY DEF TypeOK, Edge, W1C, Raised
<1>2. intr_state' \subseteq Interrupts /\ intr_o' \subseteq Interrupts
  BY DEF TypeOK, Edge, IntrHw, W1C, status, condition, Interrupts
<1>3. sw.reg = "INTR_ENABLE" => sw.arg \subseteq Interrupts
  BY MaskAssumption DEF Other, Handler, DealWithOverflow, ReadState, ClearState, Access, Nothing
<1>4. intr_enable' \subseteq Interrupts /\ test_q' \subseteq StatusIntr
  BY <1>3 DEF TypeOK, Edge
<1>5. seen' \subseteq EventIntr /\ dropped' \in BOOLEAN
  BY DEF TypeOK, Edge, event_rx_overflow
<1>6. QED
  BY <1>1, <1>2, <1>4, <1>5

\* The RX FIFO, which takes a byte only if it has room.
LEMMA RxStep ==
  ASSUME rx_fifo_depth \in 0..RxFifoDepth, NEW sw, NEW wvalid \in BOOLEAN,
         NEW wready \in BOOLEAN, wready => wvalid /\ rx_fifo_depth < RxFifoDepth,
         RxFifo(sw, wvalid, wready)
  PROVE  rx_fifo_depth' \in 0..RxFifoDepth
BY RxAssumption DEF RxFifo

\* The counts: a read returns all there is, the NACK of its own cycle included.
LEMMA CountStep ==
  ASSUME IInv, NEW sw, NEW nacked \in BOOLEAN, NackCount(sw, nacked)
  PROVE  CountsOK' /\ NacksReported' /\ rdata' \in 0..NackMax /\ nacks_then' \in 0..NackMax
<1>0. NackMax \in Nat /\ NackMax > 0 /\ CountsOK
  BY NackAssumption DEF IInv, TypeOK, CountsOK
<1>1. CASE sw.reg = "TARGET_NACK_COUNT"
  <2>1. target_nack_count' = 0 /\ nacks' = 0
    BY <1>1 DEF NackCount, RC
  <2>2. rdata' = nacks_then'
    BY <1>0, <1>1, SaturatedCount DEF NackCount, RCRead, IInv, NacksReported
  <2>3. rdata' \in 0..NackMax
    BY <1>0, <1>1, SaturatedCount DEF NackCount, RCRead, IInv, NacksReported
  <2>4. QED
    BY <1>0, <2>1, <2>2, <2>3 DEF CountsOK, NacksReported, Least
<1>2. CASE sw.reg # "TARGET_NACK_COUNT"
  <2>1. /\ target_nack_count' = nack_count_d(nacked)
        /\ nacks' = Least(nacks + (IF nacked THEN 1 ELSE 0), NackMax + 1)
        /\ rdata' = 0 /\ nacks_then' = 0
    BY <1>2 DEF NackCount, RC
  <2>2. nacks' \in 0..(NackMax + 1)
    BY <1>0, <2>1 DEF CountsOK, Least
  <2>3. rdata' \in 0..NackMax /\ nacks_then' \in 0..NackMax
    BY <1>0, <2>1
  <2>4. QED
    BY <1>0, <2>1, <2>2, <2>3, SaturatedCount DEF IInv, CountsOK, NacksReported
<1>3. QED
  BY <1>1, <1>2

\* Software that reads first clears what it has seen, and nothing else.
LEMMA ClearsWhatItSaw ==
  ASSUME ReadsFirst, NEW sw \in Other \cup UNION {Handler(i) : i \in Interrupts},
         sw.reg = "INTR_STATE"
  PROVE  sw.arg \subseteq seen
BY DEF Other, Handler, DealWithOverflow, ReadState, ClearState, Access, Nothing

\* The events: set by hardware, in any cycle, and cleared by software only.  A byte is
\* dropped while software writes: either it clears what it has seen, so that an
\* older overflow was reported, or it clears nothing.
LEMMA DropStep ==
  ASSUME IInv, ReadsFirst, NEW sw \in Other \cup UNION {Handler(i) : i \in Interrupts},
         NEW raised, NEW wvalid \in BOOLEAN, NEW wready \in BOOLEAN,
         NEW nacked, Edge(sw, raised, wvalid, wready, nacked)
  PROVE  SeenIsSet' /\ DropsReported'
<1> DEFINE overflow == event_rx_overflow(wvalid, wready)
           set == (IF overflow THEN {"rx_overflow"} ELSE {}) \cup To(sw, "INTR_TEST")
           clear == To(sw, "INTR_STATE")
<1>1. intr_state' = W1C(intr_state \cap EventIntr, set \cap EventIntr, clear)
                      \cup condition \cup test_q
  BY DEF Edge, IntrHw
<1>2. SeenIsSet /\ DropsReported /\ seen \subseteq EventIntr
  BY DEF IInv, TypeOK
<1>3. clear \subseteq intr_state
  BY <1>2, ClearsWhatItSaw DEF To, SeenIsSet
<1>4. SeenIsSet'
  <2>1. CASE sw.reg = "INTR_STATE"
    BY <2>1 DEF Edge, SeenIsSet
  <2>2. CASE sw.reg # "INTR_STATE"
    <3>1. clear = {}
      BY <2>2 DEF To
    <3>2. intr_state \cap EventIntr \subseteq intr_state'
      BY <1>1, <3>1 DEF W1C
    <3>3. seen' = intr_state \cap EventIntr \/ seen' = seen
      BY <2>2 DEF Edge
    <3>4. QED
      BY <1>2, <3>2, <3>3 DEF SeenIsSet
  <2>3. QED
    BY <2>1, <2>2
<1>5. DropsReported'
  <2>1. SUFFICES ASSUME dropped' PROVE "rx_overflow" \in intr_state'
    BY DEF DropsReported
  <2>2. "rx_overflow" \notin clear \cap intr_state /\ (dropped \/ overflow)
    BY <2>1 DEF Edge
  <2>3. "rx_overflow" \notin clear
    BY <1>3, <2>2
  <2>4. "rx_overflow" \in (intr_state \cap EventIntr) \cup (set \cap EventIntr)
    BY <1>2, <2>2 DEF DropsReported, EventIntr
  <2>5. QED
    BY <1>1, <2>3, <2>4 DEF W1C
<1>6. QED
  BY <1>4, <1>5

\* Every step keeps the invariant.
LEMMA NextIInv == IInv /\ [Next]_vars => IInv'
<1> SUFFICES ASSUME IInv, [Next]_vars PROVE IInv'
  OBVIOUS
<1>1. CASE Next
  <2>1. PICK sw \in Other \cup UNION {Handler(i) : i \in Interrupts}, raised \in Raised,
             wvalid \in BOOLEAN, wready \in BOOLEAN, nacked \in BOOLEAN :
          /\ wready => wvalid /\ rx_fifo_depth < RxFifoDepth
          /\ Edge(sw, raised, wvalid, wready, nacked)
    BY <1>1, StepIsEdge
  <2>2. NackCount(sw, nacked) /\ RxFifo(sw, wvalid, wready)
    BY <2>1 DEF Edge
  <2>3. CountsOK' /\ NacksReported' /\ rdata' \in 0..NackMax /\ nacks_then' \in 0..NackMax
    BY <2>2, CountStep
  <2>4. ReadsFirst => SeenIsSet' /\ DropsReported'
    BY <2>1, DropStep
  <2>5. TypeOK'
    <3>1. rx_fifo_depth' \in 0..RxFifoDepth
      BY <2>1, <2>2, RxStep DEF IInv, TypeOK
    <3>2. /\ controller_events' \subseteq Events
          /\ intr_state' \subseteq Interrupts /\ intr_enable' \subseteq Interrupts
          /\ intr_o' \subseteq Interrupts /\ test_q' \subseteq StatusIntr
          /\ seen' \subseteq EventIntr /\ dropped' \in BOOLEAN
      BY <2>1, BitsStep DEF IInv
    <3>3. QED
      BY <2>3, <3>1, <3>2 DEF TypeOK, CountsOK
  <2>6. QED
    BY <2>3, <2>4, <2>5 DEF IInv
<1>2. CASE UNCHANGED vars
  BY <1>2 DEF vars, registers, software, history, IInv, TypeOK, NacksReported, SeenIsSet,
              DropsReported, Least
<1>3. QED
  BY <1>1, <1>2

\* The registers of the core hold what their fields can.
THEOREM TypeCorrect == Spec => []TypeOK
<1>1. IInv => TypeOK
  BY DEF IInv
<1>2. QED
  BY <1>1, InitIInv, NextIInv, PTL DEF Spec

\* No NACK of the target is lost between two reads of TARGET_NACK_COUNT, whatever the
\* width of the register, also when it comes in the cycle of a read.
THEOREM NacksAreReported == Spec => []NacksReported
<1>1. IInv => NacksReported
  BY DEF IInv
<1>2. QED
  BY <1>1, InitIInv, NextIInv, PTL DEF Spec

\* If software clears only what it has read to be set, a byte dropped at the RX FIFO is
\* reported until software clears an overflow that was reported, in whatever cycle it is
\* dropped.  (Of software that goes by intr_o alone, a cycle behind, this is false.)
THEOREM DropsAreReported == ASSUME ReadsFirst PROVE Spec => []DropsReported
<1>1. IInv => DropsReported
  BY DEF IInv
<1>2. QED
  BY <1>1, InitIInv, NextIInv, PTL DEF Spec
================================================================================
