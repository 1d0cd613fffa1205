CONSTANTS
  Clients = {c1, c2}
  NFiles = 2
  Data <- MCData
  Archives = {"A", "A2"}
  ReleaseOf <- MCReleaseOf
  Payload <- MCPayloadAA2
  InitialRoot <- MCRoot
  EditContents = {}
  Retention = 1
  IdOf <- MCIdOf
  MaxTxn = 8
  MaxSeconds = 2
  MaxSkews = 1
  MaxFaults = 1
  MaxEdits = 0
  None = None
SPECIFICATION FairSpec
INVARIANTS
  Exclusive
  UndoInv
PROPERTIES
  SessionEnds
  LockGivenBack
  ImplementsLock
CHECK_DEADLOCK FALSE
