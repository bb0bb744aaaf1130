------------------------------ MODULE FifoParams ------------------------------
(* The parameters that the synchronous FIFOs of the I2C block have in common. *)
EXTENDS Integers, Sequences

CONSTANTS Depth,   \* parameter Depth
          Data     \* the values of one entry

\* One entry is the configuration prim_fifo_sync has other logic for; the I2C
\* block does not use it.
ASSUME DepthAssumption == Depth \in Nat /\ Depth >= 2

\* What is offered, accepted or delivered in a cycle.
AtMostOne == {<<>>} \cup {<<d>> : d \in Data}
===============================================================================
