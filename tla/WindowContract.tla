--------------------------- MODULE WindowContract ---------------------------
(***************************************************************************)
(* What an ad window promises about the credit it holds: it is opened      *)
(* once, holds at most the estimate, owes at most what it held when it is  *)
(* credited, and in the end holds nothing.  AdWindow keeps the promise     *)
(* through the dwell protocol, PrepayBalance through the transactions that *)
(* move the balance.                                                       *)
(***************************************************************************)
EXTENDS Integers

CONSTANTS
  Windows,
  Estimate    \* the hold of a prepay window: ceil(dwell_ms / 1000) * bid

VARIABLES phase, amount

Init ==
  /\ phase = [w \in Windows |-> "none"]
  /\ amount = [w \in Windows |-> 0]

\* A window of an advertiser without prepaid credit holds nothing.
Hold(w) ==
  /\ phase[w] = "none"
  /\ phase' = [phase EXCEPT ![w] = "held"]
  /\ \E a \in {0, Estimate} : amount' = [amount EXCEPT ![w] = a]

\* The credited window keeps what the impression costs, the rest goes back.
Owe(w) ==
  /\ phase[w] = "held"
  /\ phase' = [phase EXCEPT ![w] = "owed"]
  /\ \E a \in 1 .. amount[w] : amount' = [amount EXCEPT ![w] = a]

\* Windows end together: a sweep, a draw-down of a batch, a crash.
End(S) ==
  /\ \A w \in S : phase[w] \in {"held", "owed"}
  /\ phase' = [w \in Windows |-> IF w \in S THEN "ended" ELSE phase[w]]
  /\ amount' = [w \in Windows |-> IF w \in S THEN 0 ELSE amount[w]]

Next ==
  \/ \E w \in Windows : Hold(w) \/ Owe(w)
  \/ \E S \in SUBSET Windows : End(S)

Spec == Init /\ [][Next]_<<phase, amount>>

=============================================================================
