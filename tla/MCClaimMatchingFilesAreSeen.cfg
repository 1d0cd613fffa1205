CONSTANTS
  Paths <- MCPaths
  Tracked <- MCTracked
  Versions = {"v0", "v1", "v2"}
  ManifestName = "M"
  Configs <- MCGeneratedConfigs
  Trees <- MCTrees
  Servers <- MCServers
  ServerFiles <- MCUsers
  MaxReleases = 2
  MaxEdits = 0
SPECIFICATION Spec
INVARIANTS
  MatchingFilesAreSeen
CHECK_DEADLOCK FALSE
