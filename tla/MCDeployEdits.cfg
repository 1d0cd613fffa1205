CONSTANTS
  Clients = {c1}
  NFiles = 2
  Data <- MCData
  Archives = {"A"}
  ReleaseOf <- MCReleaseOf
  Payload <- MCPayloadA
  InitialRoot <- MCRoot
  EditContents = {"manual", "absent", "special"}
  Retention = 1
  IdOf <- MCIdOf
  MaxTxn = 8
  MaxSeconds = 2
  MaxSkews = 0
  MaxFaults = 3
  MaxEdits = 2
  None = None
SPECIFICATION Spec
INVARIANTS
  UndoInv
PROPERTIES
  SavedIsNotLost
  NothingOverwrittenUnsaved
CHECK_DEADLOCK FALSE
