CONSTANTS
  Paths <- MCPaths
  Tracked <- MCTracked
  Versions = {"v1", "v2"}
  ManifestName = "M"
  Configs <- MCConfigs
  Trees <- MCTrees
  MaxChanges = 2
  ControlNames <- MCControlNames
  BackslashNames <- MCBackslashNames
SPECIFICATION Spec
INVARIANTS
  TypeOK
  BuildPassesValidation
  OneOrigin
CHECK_DEADLOCK FALSE
