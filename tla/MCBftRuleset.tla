----------------------------- MODULE MCBftRuleset -----------------------------
EXTENDS BftRuleset, TLC

CONSTANTS u1, u2

NoOwners == [i \in {} |-> NoOne]

\* Index 0 was dumped from the old epoch's buffer, 1 is u1's, 2 is u2's.
OldOwners == [i \in 0..TransferLUI - 1 |-> IF i = 0 THEN NoOne ELSE IF i = 1 THEN u1 ELSE u2]

Symmetry == Permutations(Nodes)
=============================================================================
