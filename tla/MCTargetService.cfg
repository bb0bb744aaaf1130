SPECIFICATION FairSpec
CONSTANTS
  AcqFifoDepth = 4
  ByteBits = 1
  THold = 1
  TSetup = 1
  NackTimeout = 1
  AutoAckRange = 3
  AutoAckLoads = {0, 1, 2}
  TxFifoDepth = 1
  Configs <- GateAndAckControl
  SwOps = {"txrst", "acqrst"}
  BusEvents <- StartStop
  None = None
INVARIANTS AcksAreGranted ReadGate
PROPERTIES AckedIsRecorded StretchEnds SclOutputGlitch
