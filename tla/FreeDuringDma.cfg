SPECIFICATION Spec
CONSTANTS
  None = None
  Reqs <- Stop_
  WithData <- Stop_
  WithBusy <- Empty
  WithSbc <- Empty
  WithStop <- Stop_
  Realigned <- Stop_
  AutoCmd12 = FALSE
  AutoCmd23 = TRUE
  Mapping = "sg"
  Faults <- Empty
  MaxLoops = 2
  MaxTries = 1
INVARIANTS
  FreedAfterTransfer
