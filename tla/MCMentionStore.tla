--------------------------- MODULE MCMentionStore ---------------------------
EXTENDS MentionStore, TLC

Symmetry == Permutations(Runs) \cup Permutations(Contents)
=============================================================================
