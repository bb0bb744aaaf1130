SPECIFICATION Spec
CONSTANTS
  ByteBits = 2
  FmtFifoDepth = 2
  Entries <- Mixed
  OtherControllers = FALSE
  BusTimeouts = FALSE
  Disables = TRUE
  Hasty = FALSE
INVARIANT DisabledStops
