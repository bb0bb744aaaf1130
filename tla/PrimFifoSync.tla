----------------------------- MODULE PrimFifoSync -----------------------------
(****************************************************************************)
(* prim/rtl/prim_fifo_sync.sv (Depth >= 2, Pass = 1, Secure = 0, the way    *)
(* i2c_fifo_sync_sram_adapter instantiates it) with its wrap pointers,      *)
(* prim/rtl/prim_fifo_sync_cnt.sv.  One step is one clock edge.             *)
(****************************************************************************)
EXTENDS FifoParams

VARIABLES wptr, wmsb,   \* wptr_wrap_cnt_q: lower bits and MSB
          rptr, rmsb,   \* rptr_wrap_cnt_q: lower bits and MSB
          storage,      \* storage: a total array, undefined bits after power-up
          under_rst,
          wr, rd        \* the handshakes of the last cycle

vars == <<wptr, wmsb, rptr, rmsb, storage, under_rst, wr, rd>>

Slots == 0 .. Depth - 1

------------------------------------------------------------------------------
full  == wptr = rptr /\ wmsb # rmsb
empty == wptr = rptr /\ wmsb = rmsb

\* depth_o
depth == IF full THEN Depth
         ELSE IF wmsb = rmsb THEN wptr - rptr
         ELSE Depth - rptr + wptr

wready == ~full /\ ~under_rst

\* The entry accepted when w is offered (w = <<>>: wvalid_i low).
Accepted(w) == IF wready THEN w ELSE <<>>

\* rvalid_o with Pass = 1: something is stored or is being offered.
rvalid(w) == ~(empty /\ w = <<>>) /\ ~under_rst

\* rdata_o: an offered entry passes through an empty FIFO.
rdata(w) == IF empty THEN w[1] ELSE storage[rptr]

Delivered(w, rready) == IF rready /\ rvalid(w) THEN <<rdata(w)>> ELSE <<>>

\* A pointer after an increment: at the last slot it returns to 0.
Incr(p) == IF p = Depth - 1 THEN 0 ELSE p + 1
------------------------------------------------------------------------------
Init ==
  /\ wptr = 0 /\ rptr = 0 /\ wmsb = FALSE /\ rmsb = FALSE
  /\ storage \in [Slots -> Data]
  /\ under_rst = TRUE
  /\ wr = <<>> /\ rd = <<>>

\* The storage is written even in the cycle of a clear.
Store(w) ==
  storage' = IF Accepted(w) = <<>> THEN storage ELSE [storage EXCEPT ![wptr] = w[1]]

Handshake(w, rready) ==
  /\ under_rst' = FALSE
  /\ wr' = Accepted(w)
  /\ rd' = Delivered(w, rready)
  /\ Store(w)

\* A clock edge with clr_i low.
Cycle(w, rready) ==
  /\ Handshake(w, rready)
  /\ IF Accepted(w) = <<>> THEN UNCHANGED <<wptr, wmsb>>
     ELSE wptr' = Incr(wptr) /\ wmsb' = (wmsb # (wptr = Depth - 1))
  /\ IF Delivered(w, rready) = <<>> THEN UNCHANGED <<rptr, rmsb>>
     ELSE rptr' = Incr(rptr) /\ rmsb' = (rmsb # (rptr = Depth - 1))

\* A clock edge with clr_i high: both pointers return to zero, whatever they
\* would have done.
Clear(w, rready) ==
  /\ Handshake(w, rready)
  /\ wptr' = 0 /\ rptr' = 0 /\ wmsb' = FALSE /\ rmsb' = FALSE

\* rst_ni: the storage keeps its bits.
Reset ==
  /\ wptr' = 0 /\ rptr' = 0 /\ wmsb' = FALSE /\ rmsb' = FALSE
  /\ under_rst' = TRUE
  /\ wr' = <<>> /\ rd' = <<>>
  /\ UNCHANGED storage

Next ==
  \/ \E w \in AtMostOne, rready \in BOOLEAN : Cycle(w, rready)
  \/ \E w \in AtMostOne, rready \in BOOLEAN : Clear(w, rready)
  \/ Reset

Spec == Init /\ [][Next]_vars
------------------------------------------------------------------------------
\* The entries inside, oldest first.
Contents == [i \in 1 .. depth |->
               storage[IF rptr + i - 1 < Depth THEN rptr + i - 1 ELSE rptr + i - 1 - Depth]]

Fifo == INSTANCE BoundedFifo WITH Capacity <- Depth, queue <- Contents

\* The pointers, the storage and the pass-through implement a FIFO of Depth
\* entries: what is delivered is what was accepted, in that order.
ImplementsFifo == Fifo!BFSpec
==============================================================================
