\* A batch that may die anywhere for a closing publisher below the minimum, with holds and account events.
SPECIFICATION LiveSpec
CONSTANTS
  Publishers = {1}
  Payouts = {po1}
  Runs = {r1}
  Windows = {1}
  Owner <- MCOneOwner
  ImpressionEarning = 3
  ClickEarning = 0
  Cent = 1
  MinPayout = 4
  MaxPayout = 6
  Limit = 1
  Closing = {1}
  Prepay = {}
  Actors = {"selfdeal", "sybil", "account"}
CHECK_DEADLOCK FALSE
PROPERTIES
  HeldNotReserved
  PendingEnds
