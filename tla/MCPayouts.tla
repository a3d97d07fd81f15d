----------------------------- MODULE MCPayouts -----------------------------
EXTENDS Payouts, TLC

\* All windows belong to the first publisher.
MCOneOwner == [w \in Windows |-> 1]

\* The publishers and the windows are ordered, the rest is interchangeable.
MCSymmetry == Permutations(Payouts) \cup Permutations(Runs)

=============================================================================
