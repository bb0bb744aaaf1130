--------------------------- MODULE MCI2cFifoAdapter ---------------------------
(* TLC instance of I2cFifoAdapter: an arbiter that may or may not grant.     *)
EXTENDS I2cFifoAdapter
==============================================================================
