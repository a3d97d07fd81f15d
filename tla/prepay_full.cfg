\* Two billing runs with refunds, disputes, clawbacks, an adjustment and a crash that truncates ad_windows; a dead end is a supply of windows, batches and deposits used up.
SPECIFICATION Spec
CONSTANTS
  Windows = {w1, w2}
  Batches = {b1, b2}
  Runs = {r1, r2}
  Deposits = {d1}
  NoBatch = NoBatch
  DwellSeconds = 5
  Bid = 1
  DepositMicros = 12
  AdjustMicros = 3
  MaxAdjust = 1
  MaxCrashes = 1
  Reversals = TRUE
  Clawbacks = TRUE
SYMMETRY MCSymmetry
CHECK_DEADLOCK FALSE
INVARIANTS
  BalanceBacked
  ReceivableExplained
  SettledOnlyIfDrawn
  ReservedIsSumOfHolds
  HoldsCovered
PROPERTY KeepsContract
