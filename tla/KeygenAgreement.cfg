SPECIFICATION Spec
CONSTANTS
    NoC = NoC
    Nodes = {n1, n2}
    Dealer = n1
    K = 1
    T = 1
    Commitments = {c1, c2}
    Correct = {}
    InDecidedSet = TRUE
    MaxRestarts = 2
SYMMETRY Symmetry
INVARIANT Agreement
CHECK_DEADLOCK FALSE
