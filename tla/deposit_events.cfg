\* A deposit and a post-pay charge, refunded and disputed, with two handlers and a fault; it stops when the payments are used up.
SPECIFICATION LiveSpec
CONSTANTS
  Deposits = {d1}
  Charges = {p1}
  Handlers = {h1, h2}
  Amount = 3
  Refunds = {1, 2}
  MaxDisputes = 1
  MaxFaults = 1
  Overtaking = FALSE
  None = None
CHECK_DEADLOCK FALSE
INVARIANTS
  NeverBeyondStripe
  HoldExplained
PROPERTY Settles
