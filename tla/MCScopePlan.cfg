CONSTANTS
  Paths <- MCPaths
  Tracked <- MCTracked
  Versions = {"v0", "v1", "v2"}
  ManifestName = "M"
  Configs <- MCAllConfigs
  Trees <- MCTrees
  Servers <- MCServers
  ServerFiles <- MCUsers
  MaxReleases = 2
  MaxEdits = 2
SPECIFICATION Spec
INVARIANTS
  TypeOK
  PlanIsOverlay
  ReportAgreesWithPlan
PROPERTIES
  FailsForAReason
CHECK_DEADLOCK FALSE
