--------------------------- MODULE MCMoneyMonitor ---------------------------
EXTENDS MoneyMonitor, TLC

\* None, below ten, and more than ten times that.
MCDrifts == {0, 3, 40}

=============================================================================
