-------------------------------- MODULE MCDKG --------------------------------
EXTENDS DKG, TLC

Symmetry == Permutations(Nodes) \cup Permutations(Dealers)
=============================================================================
