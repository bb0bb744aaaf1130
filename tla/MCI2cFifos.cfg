SPECIFICATION Spec
CONSTANTS
  RamArbN = 2
  FifoDepth = 4
  AcqFifoDepth = 4
  Data <- Own
  Undefined = Undefined
INVARIANT ServedInTurn
PROPERTY ImplementsAdapters
