SPECIFICATION FairSpec
CONSTANTS
    Nodes = {n1, n2, n3}
    Dealers = {d1, d2}
    K = 2
    T = 0
    Correct = {n1, n2}
    MaxRestarts = 0
PROPERTIES KeyCreated SharesStored
CHECK_DEADLOCK FALSE
