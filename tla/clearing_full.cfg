\* Two clearings and two clawbacks of any origin race for a window and its click, with a crash.
SPECIFICATION LiveSpec
CONSTANTS
  Windows = {w1}
  Clearers = {c1, c2}
  Clawers = {t1, t2}
  Clicks = TRUE
  Origins = {"approve", "admin", "scan"}
  MaxCrashes = 1
INVARIANTS
  NoDoubleAccrual
  PairStandsTogether
  BookedMatchesState
  WithheldUnderReview
  ClawedBackReversed
  DeadlocksMeetAtPublisher
PROPERTIES
  RejectedReleases
