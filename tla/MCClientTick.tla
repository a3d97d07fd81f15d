---------------------------- MODULE MCClientTick ----------------------------
(* ClientTick with the sets and the bounds of client_tick.cfg. *)
EXTENDS ClientTick, TLC

=============================================================================
