--------------------------- MODULE MCOrchestrator ---------------------------
EXTENDS Orchestrator, TLC

Symmetry == Permutations(Invocations) \cup Permutations(Sources)
=============================================================================
