SPECIFICATION Spec
CONSTANTS
    Nodes = {n1, n2}
    Dealers = {d1, d2, d3}
    K = 2
    T = 0
    Correct = {}
    MaxRestarts = 1
SYMMETRY Symmetry
INVARIANTS TypeOK SharesAgree ProposalProvable KeyRecoverable
CHECK_DEADLOCK FALSE
