SPECIFICATION Spec
CONSTANTS
  AcqFifoDepth = 3
  ByteBits = 1
  THold = 1
  TSetup = 1
  NackTimeout = 1
  AutoAckRange = 1
  AutoAckLoads = {}
  TxFifoDepth = 1
  Configs <- TxGate
  SwOps = {}
  BusEvents <- StartStop
  None = None
PROPERTY ReadCommandReported
