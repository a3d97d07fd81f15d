\* Two charge requests and three groups of two and a half cents with a minimum of four, a fault and a change of card or mode; a dead end is a supply of batches and intents used up.
SPECIFICATION Spec
CONSTANTS
  Groups = {g1, g2, g3}
  Batches = {b1, b2}
  Runs = {r1, r2}
  Intents = {p1, p2}
  Cards = {c1}
  None = None
  GroupMicros = 5
  CentMicros = 2
  MinCents = 4
  MaxFaults = 1
  MaxChanges = 1
  Overlaps = FALSE
SYMMETRY MCSymmetry
CHECK_DEADLOCK FALSE
INVARIANTS
  CollectedOnce
  CollectedIsKept
  SettledIsCollected
  RefundsCovered
