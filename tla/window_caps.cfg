\* Two overlapping window_open calls and three windows against the caps and the total budget.
SPECIFICATION Spec
CONSTANTS
  Windows = {w1, w2, w3}
  Opens = {o1, o2}
  Clickers = {}
  Fills = {"prepay", "none"}
  TicksPerSecond = 1
  Dwell = 2
  Tolerance = 1
  MinGap = 1
  MinBeats = 1
  Minute = 1
  Young = 2
  Stale = 3
  AgeMax = 4
  OpenCap = 1
  RateCap = 2
  Bid = 1
  Budget = 2
  MaxCrashes = 0
SYMMETRY MCSymmetry
INVARIANT OvershootBounded
PROPERTY BudgetStops
