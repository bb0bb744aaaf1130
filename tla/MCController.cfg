SPECIFICATION FairSpec
CONSTANTS
  ByteBits = 2
  FmtFifoDepth = 2
  Entries <- Mixed
  OtherControllers = FALSE
  BusTimeouts = TRUE
  Disables = FALSE
  Hasty = FALSE
INVARIANTS TypeOK EntryServed IdleKnowsBus
PROPERTIES ImplementsBus RxIsOnBus NackHalts NackTimeoutStops DisabledReleases
