\* Two overlapping batches and two payouts of one publisher with a postpaid window, its click and a prepaid window, against clawbacks and holds; a dead end is a supply of payouts used up.
SPECIFICATION Spec
CONSTANTS
  Publishers = {1}
  Payouts = {po1, po2}
  Runs = {r1, r2}
  Windows = {1, 2}
  Owner <- MCOneOwner
  ImpressionEarning = 3
  ClickEarning = 1
  Cent = 3
  MinPayout = 3
  MaxPayout = 6
  Limit = 1
  Closing = {}
  Prepay = {2}
  Actors = {"admin", "selfdeal", "sybil"}
SYMMETRY MCSymmetry
CHECK_DEADLOCK FALSE
INVARIANTS
  PayoutsBacked
  LedgerFollowsTransfers
  TransferredOnce
