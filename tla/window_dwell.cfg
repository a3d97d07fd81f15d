\* One window of any kind on a clock of half a second, with clicks, a sweep, a revocation and a crash.
SPECIFICATION LiveSpec
CONSTANTS
  Windows = {w1}
  Opens = {o1}
  Clickers = {k1, k2}
  Fills = {"prepay", "postpay", "house", "none"}
  TicksPerSecond = 2
  Dwell = 5
  Tolerance = 2
  MinGap = 1
  MinBeats = 3
  Minute = 6
  Young = 7
  Stale = 8
  AgeMax = 9
  OpenCap = 2
  RateCap = 2
  Bid = 1
  Budget = 9
  MaxCrashes = 1
INVARIANT HoldCoversGross
PROPERTIES
  KeepsContract
  WindowsEnd
  StrayClicksVoided
