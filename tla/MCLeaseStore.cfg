CONSTANTS
  h1 = h1  h2 = h2  e1 = e1  e2 = e2
  l1 = l1  l2 = l2  l3 = l3
  Target = {h1, h2}
  Unset = Unset
  Endpoint = {e1, e2}
  Load = {2, 3}
  Lease = {l1, l2, l3}
  Secret = {s1}
  None = None
  UseUnit = 2
  TTLs = {1}
  UseCounts = {2, 3}
  Requests <- Requested
  Ceilings <- NoCeilings
  Horizon = 2
SYMMETRY LeaseSymmetry
SPECIFICATION Spec
INVARIANTS TypeOK UsesConserved NeverWiden OnlyDeadLeasesVanish
PROPERTIES LineHonoured
