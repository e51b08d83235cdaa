--------------------------- MODULE MCProducerList ---------------------------
EXTENDS ProducerList, TLC
Symmetry == Permutations(Token)
=============================================================================
