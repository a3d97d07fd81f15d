----------------------------- MODULE MCClearing -----------------------------
EXTENDS Clearing, TLC

\* Windows, clear_events sessions and clawback transactions are
\* interchangeable; the liveness run does not use it.
MCSymmetry == Permutations(Windows) \cup Permutations(Clearers)
              \cup Permutations(Clawers)

=============================================================================
