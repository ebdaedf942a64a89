SPECIFICATION Spec
CONSTANTS
  None = None
  Reqs <- AllReqs
  WithData <- AllData
  WithBusy <- Busy_
  WithSbc <- Sbc_
  WithStop <- AllStop
  Realigned <- AllReads
  AutoCmd12 = FALSE
  AutoCmd23 = TRUE
  Mapping = "sg"
  Faults <- NoMemory
  MaxLoops = 2
  MaxTries = 1
INVARIANTS
  CompletedOnce
  NotForgotten
  Attributed
  Delivered
  FreedOnce
PROPERTIES
  PortSpec
