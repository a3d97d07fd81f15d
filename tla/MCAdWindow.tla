----------------------------- MODULE MCAdWindow -----------------------------
EXTENDS AdWindow, TLC

\* Windows, window_open calls and click_resolve calls are interchangeable; the
\* liveness run does not use it.
MCSymmetry == Permutations(Windows) \cup Permutations(Opens)
              \cup Permutations(Clickers)

=============================================================================
