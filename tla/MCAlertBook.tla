----------------------------- MODULE MCAlertBook -----------------------------
EXTENDS AlertBook, TLC

Symmetry == Permutations(Runs) \cup Permutations(Keys)
=============================================================================
