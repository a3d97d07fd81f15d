--------------------------- MODULE MCDepositEvents ---------------------------
(* DepositEvents with the payments and the bounds of deposit_events.cfg. *)
EXTENDS DepositEvents, TLC

=============================================================================
