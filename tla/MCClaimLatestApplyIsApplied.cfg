CONSTANTS
  Clients = {c1}
  NFiles = 2
  Data <- MCData
  Archives = {"A"}
  ReleaseOf <- MCReleaseOf
  Payload <- MCPayloadA
  InitialRoot <- MCRoot
  EditContents = {}
  Retention = 1
  IdOf <- MCIdOf
  MaxTxn = 4
  MaxSeconds = 1
  MaxSkews = 0
  MaxFaults = 1
  MaxEdits = 0
  None = None
SPECIFICATION Spec
INVARIANTS
  LatestApplyIsApplied
CHECK_DEADLOCK FALSE
