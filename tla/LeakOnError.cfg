SPECIFICATION Spec
CONSTANTS
  None = None
  Reqs <- BusyAndSbc
  WithData <- Sbc_
  WithBusy <- Busy_
  WithSbc <- Sbc_
  WithStop <- Sbc_
  Realigned <- Sbc_
  AutoCmd12 = FALSE
  AutoCmd23 = FALSE
  Mapping = "sg"
  Faults <- Empty
  MaxLoops = 2
  MaxTries = 1
INVARIANTS
  FreedAtReturn
