------------------------------- MODULE I2cEvents -------------------------------
(****************************************************************************)
(* The events of rtl/i2c_core.sv on their way to software: the RX FIFO with *)
(* its overflow, CONTROLLER_EVENTS, TARGET_NACK_COUNT, and the interrupts   *)
(* made of them by prim_intr_hw, one of the kind "Event" and two of the     *)
(* kind "Status".  A step is one clock edge with at most one access of      *)
(* software to the registers, which hardware may update in the same cycle.  *)
(*                                                                          *)
(* What the FSMs report is an input here.  A register of several bits is    *)
(* the set of those that are 1; bytes are counted.                          *)
(****************************************************************************)
EXTENDS Integers, FiniteSets

CONSTANTS RxFifoDepth, RxThresh,   \* HOST_FIFO_CONFIG.RX_THRESH
          NackMax,                 \* the count that TARGET_NACK_COUNT stops at, 8'hFF
          Events,                  \* the bits of CONTROLLER_EVENTS
          Masks,                   \* what software writes to INTR_ENABLE and INTR_TEST
          ReadsFirst               \* software clears only what it has read to be set

EventIntr == {"rx_overflow"}
StatusIntr == {"rx_threshold", "controller_halt"}
Interrupts == EventIntr \cup StatusIntr

ASSUME RxAssumption == RxFifoDepth \in Nat \ {0} /\ RxThresh \in Nat /\ RxThresh < RxFifoDepth
ASSUME NackAssumption == NackMax \in Nat \ {0}
ASSUME MaskAssumption == Masks \subseteq SUBSET Interrupts
ASSUME SoftwareAssumption == ReadsFirst \in BOOLEAN

VARIABLES
  rx_fifo_depth, controller_events, target_nack_count,
  intr_state, intr_enable, intr_o,
  test_q,                          \* of the Status interrupts
  rdata,                           \* what software reads of TARGET_NACK_COUNT, 0 if it does not
  seen,                            \* what it read of the Events in INTR_STATE, until it writes
  \* History: the NACKs sent since the last read of the count, those it should return, and
  \* whether a byte was dropped since software cleared an overflow that was reported.
  nacks, nacks_then, dropped

registers == <<controller_events, target_nack_count, intr_state, intr_enable, test_q>>
software == <<rdata, seen>>
history == <<nacks, nacks_then, dropped>>
vars == <<rx_fifo_depth, registers, intr_o, software, history>>

Least(a, b) == IF a < b THEN a ELSE b
------------------------------------------------------------------------------
(* prim_subreg_arb: what a register becomes.                                *)

\* W1C: hardware sets bits, software clears those of the mask; "SW wins".
W1C(q, set, mask) == (q \cup set) \ mask

\* RC: a read clears the register, and returns what hardware writes meanwhile.
RC(q, d, re) == IF re THEN 0 ELSE d
\* Mutant of RCRead: it returns what the register held.
RCReadOld(q, d) == q
RCRead(q, d) == d

(* The core.                                                                *)

rx_gt_threshold == rx_fifo_depth > RxThresh
\* Mutant of status_controller_halt: only a NACK halts.
status_controller_halt_nack == "nack" \in controller_events
status_controller_halt == controller_events # {}

\* The conditions of the Status interrupts.
condition == {i \in StatusIntr : \/ i = "rx_threshold" /\ rx_gt_threshold
                                 \/ i = "controller_halt" /\ status_controller_halt}

\* The next value of the NACK count, as hardware has it: no more once saturated.
nack_count_d(nacked) ==
  IF nacked /\ target_nack_count < NackMax THEN (target_nack_count + 1) % (NackMax + 1)
  ELSE target_nack_count

event_rx_overflow(wvalid, wready) == wvalid /\ ~wready

(* prim_intr_hw.                                                            *)

status == (intr_state \cap EventIntr) \cup condition \cup test_q

\* Mutant of IntrHw: an event is forgotten in the next cycle.
IntrHwPulse(events, test, clear) ==
  /\ intr_state' = W1C({}, (events \cup test) \cap EventIntr, clear) \cup condition \cup test_q
  /\ intr_o' = status \cap intr_enable

IntrHw(events, test, clear) ==
  /\ intr_state' = W1C(intr_state \cap EventIntr, (events \cup test) \cap EventIntr, clear)
                     \cup condition \cup test_q
  /\ intr_o' = status \cap intr_enable

------------------------------------------------------------------------------
(* Software's accesses.                                                     *)

Access(reg, arg) == [reg |-> reg, arg |-> arg]
Nothing == Access("none", {})
To(sw, reg) == IF sw.reg = reg THEN sw.arg ELSE {}

\* INTR_STATE is read in one access and written in another: in the meantime, and since
\* intr_o is a cycle behind also before, its bits change.
ReadState == Access("READ_INTR_STATE", {})
ClearState(bits) == Access("INTR_STATE", bits)

\* A handler that reads first writes back only what it read; another goes by the line.
DealWithOverflow ==
  IF ReadsFirst /\ "rx_overflow" \notin seen THEN ReadState ELSE ClearState({"rx_overflow"})

\* Its interrupt handler does what an interrupt asks for while intr_o is raised, tested
\* or not: it deals with the overflow, reads a byte, or clears the controller's events.
Handler(i) ==
  {sw \in {DealWithOverflow, Access("RDATA", {}),
           Access("CONTROLLER_EVENTS", controller_events)} :
     /\ i \in intr_o
     /\ \/ i = "rx_overflow" /\ sw = DealWithOverflow
        \/ i = "rx_threshold" /\ sw.reg = "RDATA"
        \/ i = "controller_halt" /\ sw.reg = "CONTROLLER_EVENTS"}

\* The rest of the software does as it likes with the masks and the counts, reads
\* INTR_STATE, writes ones to it or resets the RX FIFO.
Other == {Nothing, Access("TARGET_NACK_COUNT", {}), ReadState,
          ClearState(IF ReadsFirst THEN seen ELSE Interrupts), Access("RXRST", {})}
         \cup {Access(reg, mask) : reg \in {"INTR_ENABLE", "INTR_TEST"}, mask \in Masks}

------------------------------------------------------------------------------
(* One clock edge: the FSMs report events of the controller, a byte for the *)
(* RX FIFO, which may be busy, and a NACK of the target.                    *)

RxFifo(sw, wvalid, wready) ==
  LET rready == sw.reg = "RDATA" /\ rx_fifo_depth > 0
  IN rx_fifo_depth' = IF sw.reg = "RXRST" THEN 0
                      ELSE rx_fifo_depth + (IF wvalid /\ wready THEN 1 ELSE 0)
                                         - (IF rready THEN 1 ELSE 0)

NackCount(sw, nacked) ==
  LET re == sw.reg = "TARGET_NACK_COUNT"
  IN /\ target_nack_count' = RC(target_nack_count, nack_count_d(nacked), re)
     /\ rdata' = IF re THEN RCRead(target_nack_count, nack_count_d(nacked)) ELSE 0
     \* Counting stops at NackMax + 1, which is more than the register can hold.
     /\ nacks' = IF re THEN 0 ELSE Least(nacks + (IF nacked THEN 1 ELSE 0), NackMax + 1)
     /\ nacks_then' = IF re THEN Least(nacks + (IF nacked THEN 1 ELSE 0), NackMax) ELSE 0

Edge(sw, raised, wvalid, wready, nacked) ==
  LET overflow == event_rx_overflow(wvalid, wready)
  IN /\ RxFifo(sw, wvalid, wready)
     /\ NackCount(sw, nacked)
     /\ controller_events' = W1C(controller_events, raised, To(sw, "CONTROLLER_EVENTS"))
     /\ IntrHw(IF overflow THEN {"rx_overflow"} ELSE {}, To(sw, "INTR_TEST"),
               To(sw, "INTR_STATE"))
     /\ test_q' = IF sw.reg = "INTR_TEST" THEN sw.arg \cap StatusIntr ELSE test_q
     /\ intr_enable' = IF sw.reg = "INTR_ENABLE" THEN sw.arg ELSE intr_enable
     /\ seen' = IF sw.reg = "READ_INTR_STATE" THEN intr_state \cap EventIntr
                ELSE IF sw.reg = "INTR_STATE" THEN {} ELSE seen
     \* Clearing a bit that is 0 acknowledges nothing.
     /\ dropped' = IF "rx_overflow" \in To(sw, "INTR_STATE") \cap intr_state THEN FALSE
                   ELSE dropped \/ overflow

\* A controller that is halted is not selected for the bus: what is left are timeouts.
Raised ==
  {{}} \cup {{e} : e \in IF status_controller_halt
                       THEN Events \cap {"bus_timeout", "unhandled_nack_timeout"}
                       ELSE Events}

SomeEdge(accesses) ==
  \E sw \in accesses, raised \in Raised, wvalid, wready, nacked \in BOOLEAN :
    /\ wready => wvalid /\ rx_fifo_depth < RxFifoDepth
    /\ Edge(sw, raised, wvalid, wready, nacked)

Handle(i) == SomeEdge(Handler(i))

Init ==
  /\ rx_fifo_depth = 0 /\ controller_events = {} /\ target_nack_count = 0
  /\ intr_state = {} /\ intr_enable = {} /\ intr_o = {} /\ test_q = {}
  /\ rdata = 0 /\ seen = {} /\ nacks = 0 /\ nacks_then = 0 /\ dropped = FALSE

Next == SomeEdge(Other) \/ \E i \in Interrupts : Handle(i)
Spec == Init /\ [][Next]_vars

\* The clock runs, and so does the handler while an interrupt is raised, for each of
\* them.
FairSpec ==
  Spec /\ WF_vars(SomeEdge({Nothing})) /\ \A i \in Interrupts : WF_vars(Handle(i))
------------------------------------------------------------------------------
(* Correctness.                                                             *)

TypeOK ==
  /\ rx_fifo_depth \in 0..RxFifoDepth
  /\ controller_events \subseteq Events
  /\ target_nack_count \in 0..NackMax /\ rdata \in 0..NackMax
  /\ intr_state \subseteq Interrupts /\ intr_enable \subseteq Interrupts
  /\ intr_o \subseteq Interrupts /\ test_q \subseteq StatusIntr /\ seen \subseteq EventIntr
  /\ nacks \in 0..(NackMax + 1) /\ nacks_then \in 0..NackMax /\ dropped \in BOOLEAN

\* Every NACK the target sent is in what one read of TARGET_NACK_COUNT returned or in
\* what the next will, also one sent in the cycle of the read, unless the
\* register is saturated.
NacksReported ==
  /\ rdata = nacks_then
  /\ target_nack_count = Least(nacks, NackMax)

\* A byte the RX FIFO had no room for is reported until software clears an overflow
\* that it could have read, also when it is dropped in the very cycle in which software
\* writes to INTR_STATE.  (Dropped in the cycle in which a bit that is set is cleared,
\* it goes with the older overflow.)  Of software that writes a 1 without having read
\* one it is false: "SW wins", and the byte is reported by nothing.
DropsReported == dropped => "rx_overflow" \in intr_state

\* No wake-up is lost: what an enabled interrupt stands for, software, which acts on
\* intr_o only, deals with in the end.
InterruptsServed ==
  /\ "rx_overflow" \in intr_enable \cap intr_state
       ~> ~("rx_overflow" \in intr_enable \cap intr_state)
  /\ "rx_threshold" \in intr_enable /\ rx_fifo_depth = RxFifoDepth
       ~> ~("rx_threshold" \in intr_enable /\ rx_fifo_depth = RxFifoDepth)
  /\ \A e \in Events :
       "controller_halt" \in intr_enable /\ e \in controller_events
         ~> ~("controller_halt" \in intr_enable /\ e \in controller_events)
==============================================================================
