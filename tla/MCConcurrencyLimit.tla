------------------------- MODULE MCConcurrencyLimit -------------------------
EXTENDS ConcurrencyLimit, TLC

Symmetry == Permutations(Tasks)
=============================================================================
