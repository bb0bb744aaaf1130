SPECIFICATION FairSpec
CONSTANTS
  ByteBits = 2
  FmtFifoDepth = 2
  Entries <- Orders
  AcqFifoDepth = 3
  TxFifoDepth = 1
  TxBytes = {1, 2}
  THold = 1
  TSetup = 1
  NackTimeout = 0
  Config <- Plain
  ThdDat = 1
  TBuf = 1
  ActiveTimeout = 1
  ActiveTimeoutEn = FALSE
  InactiveTimeout = 6
  Multi = TRUE
  Margin = 4
  Address = 1
  None = None
INVARIANTS SymbolsIntended AcksAgree FreeIsClosed TargetBusCondition
PROPERTIES BytesArrive OrdersServed
