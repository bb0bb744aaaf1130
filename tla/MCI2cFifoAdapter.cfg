CONSTANTS
  Depth = 4
  Data = {d1, d2}
  Grants = {TRUE, FALSE}
SPECIFICATION FairSpec
INVARIANTS TypeOK OupBufWreadyAfterSramRead
PROPERTIES EntriesSurface ImplementsFifo
