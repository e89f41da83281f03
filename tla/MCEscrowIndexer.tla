-------------------------- MODULE MCEscrowIndexer --------------------------
EXTENDS EscrowIndexer, TLC

Symmetry == Permutations(Processes)
=============================================================================
