SPECIFICATION Spec
CONSTANTS
  Boards <- Emmc
  Clocks <- TwoClocks
  Widths <- AllWidths
  Timings <- TwoTimings
  Vdd = "32_33"
  FreqMin = 400000
  MaxPhCode = 5
  TapThld = 2
  MaxRetry = 1
  MaxLoops = 1
PROPERTIES
  TunedInWindow
