SPECIFICATION FairSpec
CONSTANTS
    Nodes = {n1, n2}
    K = 1
    T = 0
    MaxAssigns = 1
    MaxRestarts = 0
PROPERTIES FreezeContinues
CHECK_DEADLOCK FALSE
