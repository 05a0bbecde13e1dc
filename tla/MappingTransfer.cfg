SPECIFICATION FairSpec
CONSTANTS
    OldNodes = {o1, o2}
    OldK = 2
    NewNodes = {n1, n2}
    NewK = 1
    EndIndex = 2
    Settled = {1}
    Correct = {n1}
    MaxRestarts = 1
INVARIANTS TypeOK KeyBacked OneKeyPerIndex ThawComplete
PROPERTY Thaws
CHECK_DEADLOCK FALSE
