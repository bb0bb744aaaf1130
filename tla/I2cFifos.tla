------------------------------- MODULE I2cFifos -------------------------------
(****************************************************************************)
(* rtl/i2c_fifos.sv: the FIFOs of the I2C block on one single-port SRAM.    *)
(* Each is an i2c_fifo_sync_sram_adapter with wrap pointers into a region   *)
(* of its own; a prim_arbiter_tree (round robin) lets one of them use the   *)
(* port in a cycle, and the data read is common to all of them.  One step   *)
(* is one clock edge, in which every FIFO gets its inputs.                  *)
(*                                                                          *)
(* The decisions inside an adapter are those of I2cFifoAdapter, on the      *)
(* entries between its pointers; what is added here is where these entries  *)
(* are.  The RAM (prim_ram_1p_adv, external) answers a read in the next     *)
(* cycle, and only then is its output defined.                              *)
(****************************************************************************)
EXTENDS Integers, Sequences, FiniteSetsExt

CONSTANTS RamArbN,      \* number of FIFOs, the last one being the ACQ FIFO
          FifoDepth,    \* parameter FifoDepth: all FIFOs but the ACQ FIFO
          AcqFifoDepth, \* parameter AcqFifoDepth
          Data,         \* Data[f]: the entries of FIFO f
          Undefined     \* what the RAM holds at power-up

Fifos == 0 .. RamArbN - 1
EntriesOf(f) == IF f = RamArbN - 1 THEN AcqFifoDepth ELSE FifoDepth

\* The RAM address map.
BaseAddr(f) == f * FifoDepth
RamDepth == (RamArbN - 1) * FifoDepth + AcqFifoDepth
SramFifoDepth(f) == EntriesOf(f) - 2

ASSUME FifosAssumption == RamArbN \in Nat /\ RamArbN >= 1
ASSUME DepthAssumption ==
  FifoDepth \in Nat /\ FifoDepth >= 4 /\ AcqFifoDepth \in Nat /\ AcqFifoDepth >= 4
ASSUME DataAssumption == \A f \in Fifos : Undefined \notin Data[f]

VARIABLES inp, oup,                \* u_inp_buf and u_oup_buf of each FIFO
          wptr, wmsb, rptr, rmsb,  \* u_sram_ptrs of each FIFO
          reading,                 \* sram_read_in_prev_cyc_q of each FIFO
          under_rst,               \* the buffers' under_rst
          ram, rdata,              \* the RAM and its output
          prio_mask,               \* prio_mask_q of the arbiter: who goes first
          lost                     \* history: how often a FIFO asked in vain, in a row

ptrs == <<wptr, wmsb, rptr, rmsb>>
vars == <<inp, oup, ptrs, reading, under_rst, ram, rdata, prio_mask, lost>>

Words == UNION {Data[f] : f \in Fifos} \cup {Undefined}
Region(f) == [i \in 0 .. SramFifoDepth(f) - 1 |-> ram[BaseAddr(f) + i]]
InFlight(f) == IF reading[f] THEN <<rdata>> ELSE <<>>

\* The pointers of FIFO f on its region of the RAM.  The handshakes wr and rd
\* of these two modules are not recorded here.
Ptrs(f) == INSTANCE PrimFifoSync WITH
  Depth <- SramFifoDepth(f), Data <- Words,
  wptr <- wptr[f], wmsb <- wmsb[f], rptr <- rptr[f], rmsb <- rmsb[f],
  storage <- Region(f), under_rst <- under_rst, wr <- <<>>, rd <- <<>>

Adapter(f) == INSTANCE I2cFifoAdapter WITH
  Depth <- EntriesOf(f), Data <- Data[f], Grants <- BOOLEAN,
  inp <- inp[f], sram <- Ptrs(f)!Contents, rdq <- InFlight(f), oup <- oup[f],
  under_rst <- under_rst, wr <- <<>>, rd <- <<>>

------------------------------------------------------------------------------
(* The arbiter.                                                             *)

\* Mutant of idx: the lowest index always goes first.
idx_fixed(reqs) == Min(reqs)

\* idx_o: the lowest requester above the last winner, or the lowest of all.
idx(reqs) == Min(IF reqs \cap prio_mask # {} THEN reqs \cap prio_mask ELSE reqs)

\* gnt_o, with ready_i always high: who may use the port.
Granted(reqs) == IF reqs = {} THEN {} ELSE {idx(reqs)}

Arbitrate(reqs) ==
  /\ prio_mask' = IF reqs = {} THEN prio_mask ELSE {f \in Fifos : f > idx(reqs)}
  /\ lost' = [f \in Fifos |-> IF f \in reqs \ Granted(reqs) /\ lost[f] < RamArbN
                              THEN lost[f] + 1 ELSE 0]
------------------------------------------------------------------------------
(* One clock edge: w[f] is what is offered to FIFO f, rready[f] the         *)
(* readiness of its reader, and the FIFOs in clr are cleared (FIFO_CTRL     *)
(* clears any of them at once).  The FIFO in gnt may use the port, for a    *)
(* read if it is in reads.                                                  *)

\* The pointers of the FIFO that got the port move; those of a FIFO being
\* cleared return to 0.
Pointers(gnt, reads, clr) ==
  LET At(ptr, moving) == [f \in Fifos |-> IF f \in clr THEN 0
                          ELSE IF f \in moving THEN Ptrs(f)!Incr(ptr[f]) ELSE ptr[f]]
      Msb(msb, ptr, moving) ==
        [f \in Fifos |-> f \notin clr /\ (msb[f] # (f \in moving /\ ptr[f] = SramFifoDepth(f) - 1))]
  IN /\ wptr' = At(wptr, gnt \ reads) /\ wmsb' = Msb(wmsb, wptr, gnt \ reads)
     /\ rptr' = At(rptr, reads)       /\ rmsb' = Msb(rmsb, rptr, reads)

\* Mutant of Ram: a read survives the clear of its FIFO.
RamKeepsRead(gnt, reads, clr, avail) ==
  LET f == CHOOSE f \in gnt : TRUE
  IN /\ ram' = IF gnt = reads THEN ram
               ELSE [ram EXCEPT ![BaseAddr(f) + wptr[f]] = Head(avail[f])]
     /\ rdata' = IF reads = {} THEN Undefined ELSE ram[BaseAddr(f) + rptr[f]]
     /\ reading' = [g \in Fifos |-> g \in reads]

\* The access of the FIFO that got the port; avail[f] is what it would store.
Ram(gnt, reads, clr, avail) ==
  LET f == CHOOSE f \in gnt : TRUE
  IN /\ ram' = IF gnt = reads THEN ram
               ELSE [ram EXCEPT ![BaseAddr(f) + wptr[f]] = Head(avail[f])]
     /\ rdata' = IF reads = {} THEN Undefined ELSE ram[BaseAddr(f) + rptr[f]]
     /\ reading' = [g \in Fifos |-> g \in reads \ clr]

\* The contents of the buffers, of those being cleared nothing.
Kept(buffers, clr) == [f \in Fifos |-> IF f \in clr THEN <<>> ELSE buffers[f]]

Cycle(w, rready) ==
  LET asking == {f \in Fifos : Adapter(f)!ReadRequest(w[f], rready[f])}
      reqs == asking \cup {f \in Fifos : Adapter(f)!WriteRequest(w[f], rready[f])}
      avail == [f \in Fifos |-> Adapter(f)!Avail(w[f])]
      drained == [f \in Fifos |->
                   IF Adapter(f)!Delivered(w[f], rready[f]) # <<>>
                   THEN Tail(Adapter(f)!OupAvail(w[f])) ELSE Adapter(f)!OupAvail(w[f])]
  IN /\ Arbitrate(reqs)
     /\ under_rst' = FALSE
     /\ \E gnt \in {Granted(reqs)} :
        \E reads \in {asking \cap gnt}, clr \in SUBSET Fifos :
          LET filled == [f \in Fifos |-> IF Adapter(f)!InpRead(w[f], rready[f], f \in gnt)
                                        THEN Tail(avail[f]) ELSE avail[f]]
          IN /\ Pointers(gnt, reads, clr)
             /\ Ram(gnt, reads, clr, avail)
             /\ inp' = Kept(filled, clr)
             /\ oup' = Kept(drained, clr)

\* What may be offered to the FIFOs, each getting entries of its own.
Offers == {w \in [Fifos -> UNION {Adapter(f)!Offers : f \in Fifos}] :
             \A f \in Fifos : w[f] \in Adapter(f)!Offers}

Nowhere == [f \in Fifos |-> FALSE]
Zero == [f \in Fifos |-> 0]
Nothing == [f \in Fifos |-> <<>>]

Init ==
  /\ inp = Nothing /\ oup = Nothing
  /\ wptr = Zero /\ rptr = Zero /\ wmsb = Nowhere /\ rmsb = Nowhere /\ reading = Nowhere
  /\ under_rst = TRUE
  /\ ram = [a \in 0 .. RamDepth - 1 |-> Undefined] /\ rdata = Undefined
  /\ prio_mask = {} /\ lost = Zero

\* rst_ni: the RAM keeps its contents.
Reset ==
  /\ inp' = Nothing /\ oup' = Nothing
  /\ wptr' = Zero /\ rptr' = Zero /\ wmsb' = Nowhere /\ rmsb' = Nowhere /\ reading' = Nowhere
  /\ under_rst' = TRUE
  /\ UNCHANGED ram /\ rdata' = Undefined
  /\ prio_mask' = {} /\ lost' = Zero

Next ==
  \/ \E w \in Offers, rready \in [Fifos -> BOOLEAN] : Cycle(w, rready)
  \/ Reset
Spec == Init /\ [][Next]_vars
------------------------------------------------------------------------------
(* Correctness.                                                             *)

AdapterStep(f) ==
  \/ Adapter(f)!Forget
  \/ \E w \in Adapter(f)!Offers, rready, gnt \in BOOLEAN : Adapter(f)!Move(w, rready, gnt)

\* Each FIFO sees nothing of the others but a port that is sometimes taken: with
\* the entries found in the RAM between its pointers, and the common read data
\* in the cycle after its own read, it makes the steps of a FIFO that is alone.
ImplementsAdapters == [][\A f \in Fifos : AdapterStep(f)]_vars

\* NoStarvation_A, and more: whatever the others do, a FIFO that keeps asking is
\* refused at most RamArbN - 1 times in a row.
ServedInTurn == \A f \in Fifos : lost[f] < RamArbN
==============================================================================
