\* Two overlapping monitor runs read the books query by query while they change; it stops when the changes of the bound are used up.
SPECIFICATION LiveSpec
CONSTANTS
  Runs = {r1, r2}
  Groups = {g1}
  Payouts = {p1}
  Advertisers = {a1}
  Reviews = {v1}
  Drifts <- MCDrifts
  Limit = 2
  MaxChanges = 2
  MaxErrors = 1
CHECK_DEADLOCK FALSE
PROPERTIES
  Converges
  ResolvedWasFine
