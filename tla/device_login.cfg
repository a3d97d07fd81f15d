\* One install and its background refreshers, two at once, against stale locks, lost answers, a logout and a revocation; it stops when the tokens of the bound are used up.
SPECIFICATION LiveSpec
CONSTANTS
  Grants = {d1}
  Ticks = {t1, t2}
  Timeout = 1
  Stale = 3
  Grace = 6
  MaxTokens = 5
  MaxFaults = 1
  NoGrant = NoGrant
CHECK_DEADLOCK FALSE
INVARIANT CredentialKept
PROPERTIES
  GraceNotExtended
  RefreshEnds
