SPECIFICATION Spec
CONSTANTS
  AcqFifoDepth = 4
  ByteBits = 1
  THold = 1
  TSetup = 1
  NackTimeout = 1
  AutoAckRange = 1
  AutoAckLoads = {}
  TxFifoDepth = 1
  Configs <- FullFifo
  SwOps = {"enable", "ackctrl"}
  BusEvents <- AllBusEvents
  None = None
INVARIANTS TypeOK SpaceIsKept NackedStaysNacked
PROPERTIES FramingOK EndRecorded LogMatchesBus
