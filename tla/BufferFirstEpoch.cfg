SPECIFICATION FairSpec
CONSTANTS
  u1 = u1
  u2 = u2
  NoOne = NoOne
  MaxFailedPubKeyAssigns = 2
  VerifierIDs = {u1, u2}
  Nodes = {n1, n2, n3}
  K = 2
  T = 1
  KeyBuffer = 3
  Epoch = 1
  TransferLUI = 0
  Owners <- NoOwners
  Failing = {0, 3}
  MaxLUI = 6
INVARIANTS TypeOK CountsKeys AssignedOnce BufferNonNegative
PROPERTIES BufferTriggered FreezeFinal AssignmentProgress
