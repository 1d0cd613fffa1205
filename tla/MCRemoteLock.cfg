CONSTANTS
  Sessions <- MCSessions
  IdOf <- MCIdOf
  Nobody = "nobody"
  MaxFaults = 2
SPECIFICATION FairSpec
INVARIANTS
  TypeOK
  MutualExclusion
  LockInv
PROPERTIES
  ImplementsLock
  LockFreedOrFault
  LockFreedOrOrphaned
CHECK_DEADLOCK FALSE
