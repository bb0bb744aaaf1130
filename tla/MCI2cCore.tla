------------------------------- MODULE MCI2cCore -------------------------------
(* I2cCore for TLC.  A byte is one bit of address and the R/W bit.            *)
EXTENDS I2cCore

Write(byte, start, stop) ==
  [fbyte |-> byte, start |-> start, stop |-> stop, read |-> FALSE, rcont |-> FALSE,
   nakok |-> FALSE]
Read(byte, stop) ==
  [fbyte |-> byte, start |-> FALSE, stop |-> stop, read |-> TRUE, rcont |-> FALSE,
   nakok |-> FALSE]

\* The target's address for a write and for a read, another address, data.
Orders == {Write(2, TRUE, FALSE), Write(3, TRUE, FALSE), Write(0, TRUE, TRUE),
           Write(1, FALSE, TRUE), Read(1, TRUE)}

Plain == [nack_timeout_en |-> FALSE, nack_addr_after_timeout |-> FALSE,
          tx_stretch_ctrl_en |-> FALSE, ack_ctrl |-> FALSE]
================================================================================
