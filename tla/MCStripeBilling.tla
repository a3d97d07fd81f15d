-------------------------- MODULE MCStripeBilling --------------------------
EXTENDS StripeBilling, TLC

\* Groups, batch ids, intents and cards are interchangeable, and so are runs.
MCSymmetry == Permutations(Groups) \cup Permutations(Batches)
              \cup Permutations(Intents) \cup Permutations(Runs)

=============================================================================
