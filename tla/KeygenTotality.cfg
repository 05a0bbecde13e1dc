SPECIFICATION FairSpec
CONSTANTS
    NoC = NoC
    Nodes = {n1, n2, n3}
    Dealer = n1
    K = 1
    T = 1
    Commitments = {c1}
    Correct = {n1, n2}
    InDecidedSet = TRUE
    MaxRestarts = 0
PROPERTIES Totality DealtEnds
CHECK_DEADLOCK FALSE
