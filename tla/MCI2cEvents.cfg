SPECIFICATION FairSpec
CONSTANTS
  RxFifoDepth = 2
  RxThresh = 1
  NackMax = 2
  Events = {"nack", "bus_timeout"}
  Masks <- AllOrNone
  ReadsFirst = TRUE
INVARIANTS NacksReported DropsReported
PROPERTIES InterruptsServed
