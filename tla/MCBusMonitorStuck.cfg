SPECIFICATION FairSpec
CONSTANTS
  ThdDat = 2
  TBuf = 3
  ActiveTimeout = 4
  ActiveTimeoutEn = TRUE
  InactiveTimeout = 3
  LegalBus = TRUE
  None = None
PROPERTY StuckLowIsReported
