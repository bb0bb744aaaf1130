---------------------------- MODULE I2cFifoAdapter ----------------------------
(****************************************************************************)
(* rtl/i2c_fifo_sync_sram_adapter.sv: a FIFO made of an input buffer, a     *)
(* region of a shared single-port SRAM and an output buffer.  One step is   *)
(* one clock edge.  The two buffers are prim_fifo_sync instances with       *)
(* Pass = 1, kept here as the sequences PrimFifoSync is shown to implement; *)
(* the SRAM region is the sequence of the entries between its pointers.     *)
(*                                                                          *)
(* The inputs of a cycle are the entry offered by the writer (w), the       *)
(* readiness of the reader (rready) and the arbiter's grant (gnt), which    *)
(* other FIFOs of i2c_fifos.sv may take away.                               *)
(****************************************************************************)
EXTENDS FifoParams  \* Depth: the entries in the SRAM and the output buffer

CONSTANT Grants   \* what the SRAM arbiter may answer: a subset of BOOLEAN

\* The SRAM region has at least one entry beside the output buffer's two.
ASSUME RegionAssumption == Depth >= 3
ASSUME GrantsAssumption == Grants \subseteq BOOLEAN

InpBufDepth == 2
OupBufDepth == 2
SramFifoDepth == Depth - OupBufDepth

VARIABLES inp,        \* u_inp_buf
          sram,       \* the SRAM between sram_rd_ptr and sram_wr_ptr
          rdq,        \* sram_read_in_prev_cyc_q with its sram_rdata_i: <<>> or <<d>>
          oup,        \* u_oup_buf
          under_rst,  \* the buffers' under_rst
          wr, rd      \* the handshakes of the last cycle

vars == <<inp, sram, rdq, oup, under_rst, wr, rd>>

Offers == AtMostOne

TypeOK ==
  /\ inp \in Seq(Data) /\ Len(inp) <= InpBufDepth
  /\ sram \in Seq(Data) /\ Len(sram) <= SramFifoDepth
  /\ oup \in Seq(Data) /\ Len(oup) <= OupBufDepth
  /\ rdq \in AtMostOne
  /\ under_rst \in BOOLEAN
  /\ wr \in AtMostOne /\ rd \in AtMostOne
------------------------------------------------------------------------------
sram_full == Len(sram) = SramFifoDepth
sram_empty == sram = <<>>
oup_buf_full == Len(oup) = OupBufDepth
oup_buf_almost_full == Len(oup) >= OupBufDepth - 1
oup_buf_wready == ~oup_buf_full /\ ~under_rst
inp_buf_wready == Len(inp) < InpBufDepth /\ ~under_rst

fifo_wready == inp_buf_wready /\ ~(sram_full /\ oup_buf_full)

\* fifo_depth_o
fifo_depth == Len(inp) + Len(sram) + Len(oup) + Len(rdq)

Accepted(w) == IF fifo_wready THEN w ELSE <<>>

\* What the input buffer presents: its oldest entry, or the one passing through.
Avail(w) == inp \o Accepted(w)

\* Mutant of Direct: an SRAM read in flight is forgotten.
DirectOverRead == sram_empty /\ oup_buf_wready

\* With the SRAM empty, entries go straight from the input to the output
\* buffer, unless an SRAM read is still in flight.
Direct == sram_empty /\ oup_buf_wready /\ rdq = <<>>

\* The entry written to the output buffer (oup_buf_wvalid, oup_buf_wdata).
OupWrite(w) ==
  IF rdq # <<>> THEN rdq
  ELSE IF Direct /\ Avail(w) # <<>> THEN <<Head(Avail(w))>> ELSE <<>>

\* The output buffer with the entry that passes through it; a full buffer
\* takes nothing (prim_fifo_sync's wready_o), which would lose the entry.
OupAvail(w) == IF oup_buf_wready THEN oup \o OupWrite(w) ELSE oup

\* fifo_rvalid_o: prim_fifo_sync derives it from wvalid_i, not from wready_o.
fifo_rvalid(w) == ~under_rst /\ (oup # <<>> \/ OupWrite(w) # <<>>)

Delivered(w, rready) ==
  IF rready /\ fifo_rvalid(w) THEN <<Head(OupAvail(w))>> ELSE <<>>

\* Mutant of ReadRequest: the entry in flight is not counted.
ReadRequestNoAlmostFull(w, rready) ==
  /\ ~sram_empty
  /\ ~oup_buf_full \/ Delivered(w, rready) # <<>>

\* Mutant of ReadRequest: draining the input buffer goes first.
ReadRequestLast(w, rready) == ~sram_empty /\ Avail(w) = <<>>

\* The SRAM is read when the output buffer will have room for the entry in the
\* next cycle: it is not being filled to its last slot, or it is being read.
ReadRequest(w, rready) ==
  /\ ~sram_empty
  /\ \/ ~((oup_buf_almost_full /\ rdq # <<>>) \/ oup_buf_full)
     \/ Delivered(w, rready) # <<>>

\* Mutant of WriteRequest: the SRAM is written when it is full.
WriteRequestFull(w, rready) ==
  /\ ~ReadRequest(w, rready) /\ ~Direct
  /\ Avail(w) # <<>>

\* Otherwise the input buffer is drained into the SRAM.
WriteRequest(w, rready) ==
  /\ ~ReadRequest(w, rready) /\ ~Direct
  /\ ~sram_full /\ Avail(w) # <<>>

\* sram_req_o
Request(w, rready) == ReadRequest(w, rready) \/ WriteRequest(w, rready)

\* The input buffer hands out its oldest entry, to the output buffer or to the SRAM.
InpRead(w, rready, gnt) ==
  Avail(w) # <<>> /\ (Direct \/ (WriteRequest(w, rready) /\ gnt))
------------------------------------------------------------------------------
Init ==
  /\ inp = <<>> /\ sram = <<>> /\ rdq = <<>> /\ oup = <<>>
  /\ under_rst = TRUE
  /\ wr = <<>> /\ rd = <<>>

Handshake(w, rready) ==
  /\ under_rst' = FALSE
  /\ wr' = Accepted(w)
  /\ rd' = Delivered(w, rready)

\* What moves inside in a cycle with clr_i low.
Move(w, rready, gnt) ==
  /\ inp' = IF InpRead(w, rready, gnt) THEN Tail(Avail(w)) ELSE Avail(w)
  /\ oup' = IF Delivered(w, rready) # <<>> THEN Tail(OupAvail(w)) ELSE OupAvail(w)
  /\ IF ReadRequest(w, rready) /\ gnt
     THEN rdq' = <<Head(sram)>> /\ sram' = Tail(sram)
     ELSE /\ rdq' = <<>>
          /\ sram' = IF WriteRequest(w, rready) /\ gnt
                     THEN Append(sram, Head(Avail(w))) ELSE sram

\* A clock edge with clr_i low.
Cycle(w, rready, gnt) == Handshake(w, rready) /\ Move(w, rready, gnt)

\* Everything inside is forgotten, the read in flight included.
Forget == inp' = <<>> /\ sram' = <<>> /\ rdq' = <<>> /\ oup' = <<>>

\* A clock edge with clr_i high: the handshakes of the cycle still happen at
\* the ports.
Clear(w, rready) == Handshake(w, rready) /\ Forget

Reset ==
  /\ Forget
  /\ under_rst' = TRUE
  /\ wr' = <<>> /\ rd' = <<>>

SomeCycle(gnt) == \E w \in Offers, rready \in BOOLEAN : Cycle(w, rready, gnt)

Next ==
  \/ \E gnt \in Grants : SomeCycle(gnt)
  \/ \E w \in Offers, rready \in BOOLEAN : Clear(w, rready)
  \/ Reset

Spec == Init /\ [][Next]_vars

\* The clock runs and the round-robin arbiter of i2c_fifos.sv grants the SRAM
\* again and again (prim_arbiter_tree never passes a requester over forever).
FairSpec == Spec /\ WF_vars(SomeCycle(TRUE))
------------------------------------------------------------------------------
\* OupBufWreadyAfterSramRead_A: an entry read from the SRAM in the previous
\* cycle always finds room in the output buffer (the read was requested before
\* the reader's behaviour in this cycle was known); otherwise it is lost.
OupBufWreadyAfterSramRead == rdq # <<>> => oup_buf_wready

\* The buffers together never hold more than one entry beyond the Depth of the
\* SRAM and output buffer, although the writer may fill the input buffer while
\* the arbiter keeps the SRAM away from the FIFO.
DepthBound == fifo_depth <= Depth + 1

\* When SRAM and output buffer are both full, the input buffer keeps a slot
\* free: the reason the code gives for not counting it as capacity.
FullLeavesInputSlot == sram_full /\ oup_buf_full => Len(inp) < InpBufDepth

\* An entry inside does not stay hidden behind the SRAM for ever: the output
\* buffer gets to present an entry, however the writer keeps the adapter busy.
EntriesSurface == fifo_depth > 0 ~> (oup # <<>> \/ rd # <<>> \/ fifo_depth = 0)

Fifo == INSTANCE BoundedFifo WITH Capacity <- Depth + 1, queue <- oup \o rdq \o sram \o inp

\* Whatever the arbiter does, the three storages and the entry in flight
\* between two of them behave as one FIFO: no entry is lost, duplicated or
\* overtaken, and a clear forgets all of them at once.
ImplementsFifo == Fifo!BFSpec
==============================================================================
