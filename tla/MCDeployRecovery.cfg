CONSTANTS
  Clients = {c1}
  NFiles = 2
  Data <- MCData
  Archives = {"A", "B"}
  ReleaseOf <- MCReleaseOf
  Payload <- MCPayloadAB
  InitialRoot <- MCRoot
  EditContents = {}
  Retention = 1
  IdOf <- MCIdOf
  MaxTxn = 16
  MaxSeconds = 4
  MaxSkews = 0
  MaxFaults = 2
  MaxEdits = 0
  None = None
SPECIFICATION Spec
INVARIANTS
  TypeOK
  ApplyingIsUndoable
  WrittenIsSaved
  RollbackRestores
  ApplyDelivers
  PointerUsable
  BaselineIsPristine
PROPERTIES
  NothingOverwrittenUnsaved
CHECK_DEADLOCK FALSE
