----------------------------- MODULE MCSubQueue -----------------------------
EXTENDS SubQueue
Symmetry == Permutations(Consumer) \cup Permutations(Block)
=============================================================================
