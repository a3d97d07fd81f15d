\* Two once-per-second processes share one session file, through lost requests, key rotation and a killed process; it stops when the windows are used up.
SPECIFICATION LiveSpec
CONSTANTS
  Ticks = {t1, t2}
  Windows = {w1}
  Keys = {k1, k2}
  Bundle = {k1, k2}
  Legacy = k1
  Dwell = 2
  Cooldown = 1
  Timeout = 1
  Ttl = 1
  MinBeats = 2
  Stale = 4
  MaxFaults = 1
  NoWindow = NoWindow
CHECK_DEADLOCK FALSE
INVARIANTS
  CreditedWasSeen
  NeverTooShort
PROPERTY ShowsAgain
