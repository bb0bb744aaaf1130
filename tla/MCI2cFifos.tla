------------------------------ MODULE MCI2cFifos ------------------------------
(* I2cFifos for TLC: two FIFOs, each with one entry of its own, so that an    *)
(* entry of the other or an unwritten word of the RAM is told apart.         *)
EXTENDS I2cFifos

Own == [f \in Fifos |-> {f}]
===============================================================================
