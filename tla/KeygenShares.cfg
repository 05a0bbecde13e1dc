SPECIFICATION Spec
CONSTANTS
    NoC = NoC
    Nodes = {n1, n2, n3}
    Dealer = n1
    K = 2
    T = 1
    Commitments = {c1, c2}
    Correct = {}
    InDecidedSet = FALSE
    MaxRestarts = 1
SYMMETRY Symmetry
INVARIANTS TypeOK SharesInterpolated ProofsSufficient ReadyVerifies
PROPERTIES PolynomialStable ImplementsSharing
CHECK_DEADLOCK FALSE
