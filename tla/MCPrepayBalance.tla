-------------------------- MODULE MCPrepayBalance --------------------------
EXTENDS PrepayBalance, TLC

\* Windows are interchangeable, and so are batches, deposits and runs.
MCSymmetry == Permutations(Windows) \cup Permutations(Batches)
              \cup Permutations(Deposits) \cup Permutations(Runs)

=============================================================================
