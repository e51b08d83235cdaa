-------------------------- MODULE MCExplicitQueue --------------------------
EXTENDS ExplicitQueue
Symmetry == Permutations(Consumer) \cup Permutations(Block)
=============================================================================
