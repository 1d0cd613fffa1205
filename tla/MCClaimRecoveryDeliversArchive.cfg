CONSTANTS
  Clients = {c1}
  NFiles = 2
  Data <- MCData
  Archives = {"A", "B"}
  ReleaseOf <- MCReleaseOf
  Payload <- MCPayloadAB
  InitialRoot <- MCRootSkip
  EditContents = {}
  Retention = 1
  IdOf <- MCIdOf
  MaxTxn = 12
  MaxSeconds = 3
  MaxSkews = 0
  MaxFaults = 1
  MaxEdits = 0
  None = None
SPECIFICATION Spec
INVARIANTS
  RecoveryDeliversArchive
CHECK_DEADLOCK FALSE
