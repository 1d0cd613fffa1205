CONSTANTS
  Names <- MCNames
  Slash <- MCSlash
  Snapshots <- MCSnapshots
  Foreign <- MCForeign
  Absent = Absent
  Torn = Torn
  MaxRuns = 2
  Ids = {1, 2, 3, 4}
  Times = {1, 2}
  Retention = 1
SPECIFICATION Spec
INVARIANTS
  TypeOK
  VerdictIsRight
  AcceptedInOnePiece
  AcceptedUnpacks
  ReferencesHold
  NoGaps
  NewestSurvive
CHECK_DEADLOCK FALSE
