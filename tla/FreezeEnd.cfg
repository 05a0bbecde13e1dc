SPECIFICATION FairSpec
CONSTANTS
    Nodes = {n1, n2}
    K = 1
    T = 0
    MaxAssigns = 3
    MaxRestarts = 2
INVARIANTS TypeOK EndIndexFinal EndIndexAgrees
PROPERTY WaitingTriggers
CHECK_DEADLOCK FALSE
