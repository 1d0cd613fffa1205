CONSTANTS
  Required <- MCRequired
  Optional <- MCOptional
  TarOptions = {"--create", "--gzip"}
  TestedVersions = {"1.35"}
  Servers <- MCServers
  MaxChanges = 2
SPECIFICATION Spec
INVARIANTS
  TypeOK
  VerdictOfAMoment
  VerdictIsFounded
  LostMeansNoVerdict
CHECK_DEADLOCK FALSE
