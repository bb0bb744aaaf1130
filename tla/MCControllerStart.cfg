SPECIFICATION Spec
CONSTANTS
  ByteBits = 2
  FmtFifoDepth = 2
  Entries <- Mixed
  OtherControllers = TRUE
  BusTimeouts = FALSE
  Disables = FALSE
  Hasty = FALSE
PROPERTY StartedIsStarted
