------------------------------ MODULE MCKeygen ------------------------------
EXTENDS Keygen, TLC
Symmetry == Permutations(Nodes \ {Dealer}) \cup Permutations(Commitments)
=============================================================================
