SPECIFICATION FairSpec
CONSTANTS
  Boards <- AllBoards
  Clocks <- SomeClocks
  Widths <- AllWidths
  Timings <- AllTimings
  Vdd = "32_33"
  FreqMin = 400000
  MaxPhCode = 5
  TapThld = 2
  MaxRetry = 1
  MaxLoops = 2
INVARIANTS
  TypeOK
  NotFaster
  Reported
  InStep
  Restored
  Median
  TapKept
PROPERTIES
  Glitchless
  Returns
