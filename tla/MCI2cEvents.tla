------------------------------ MODULE MCI2cEvents ------------------------------
(* I2cEvents for TLC.  The masks are all or nothing.                          *)
EXTENDS I2cEvents

AllOrNone == {{}, Interrupts}
================================================================================
