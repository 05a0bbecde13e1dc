SPECIFICATION Spec
CONSTANTS
  u1 = u1
  u2 = u2
  NoOne = NoOne
  MaxFailedPubKeyAssigns = 2
  VerifierIDs = {u1, u2}
  Nodes = {n1, n2}
  K = 1
  T = 1
  KeyBuffer = 2
  Epoch = 2
  TransferLUI = 3
  Owners <- OldOwners
  Failing = {}
  MaxLUI = 4
SYMMETRY Symmetry
INVARIANTS AssignedOnce BufferNonNegative ThawComplete
PROPERTIES FreezeFinal IndexNeverBack
