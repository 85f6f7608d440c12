CONSTANTS
  Proc = {p1, p2}
  NoFile = NoFile
  StaleAfter = 1
  MaxTries = 2
  MaxHold = 1
  MaxCrashes = 1
  Respawn = TRUE
  Target = {h1}
  Unset = Unset
  Endpoint = {e1}
  Load = {1}
  Lease = {l1}
  Secret = {s1}
  None = None
  UseUnit = 1
  TTLs = {1}
  UseCounts = {1}
  Requests <- OpenRequests
  Ceilings <- NoCeilings
  Horizon = 1
  Torn = Torn
SYMMETRY Symmetry
SPECIFICATION ProcSpec
INVARIANTS NoDoubleSpend
