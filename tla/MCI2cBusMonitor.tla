---------------------------- MODULE MCI2cBusMonitor ----------------------------
(* I2cBusMonitor for TLC; every constant is a small value given in the .cfg. *)
EXTENDS I2cBusMonitor
==============================================================================
