CONSTANTS
  Proc = {p1, p2, p3}
  NoFile = NoFile
  StaleAfter = 2
  MaxTries = 3
  MaxHold = 2
  MaxCrashes = 2
  Respawn = TRUE
SPECIFICATION BusyLockSpec
INVARIANTS LockTypeOK MutualExclusion StaleIsOrphan
PROPERTIES CallReturns OrphanReclaimed
