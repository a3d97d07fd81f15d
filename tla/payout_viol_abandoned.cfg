\* One payout, whose batch dies after the transfer, and a later batch whose look-up of the account fails.
SPECIFICATION Spec
CONSTANTS
  Publishers = {1}
  Payouts = {po1}
  Runs = {r1}
  Windows = {1}
  Owner <- MCOneOwner
  ImpressionEarning = 3
  ClickEarning = 0
  Cent = 3
  MinPayout = 3
  MaxPayout = 6
  Limit = 1
  Closing = {}
  Prepay = {}
  Actors = {}
CHECK_DEADLOCK FALSE
INVARIANT NoTransferAbandoned
