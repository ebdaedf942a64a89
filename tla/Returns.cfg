SPECIFICATION FairSpec
CONSTANTS
  None = None
  Reqs <- NoStops
  WithData <- Write_
  WithBusy <- Busy_
  WithSbc <- Empty
  WithStop <- Empty
  Realigned <- Empty
  AutoCmd12 = FALSE
  AutoCmd23 = TRUE
  Mapping = "bounce"
  Faults <- SlowLines
  MaxLoops = 2
  MaxTries = 1
INVARIANTS
  NotForgotten
PROPERTIES
  EveryRequestReturns
