CONSTANTS
  Secret = {a}
  Pass = {pw1, pw2}
  NoPass = NoPass
  None = None
  Torn = Torn
  MaxToken = 3
  MaxVersion = 2
  MaxCrashes = 1
  Mishaps = {"guess"}
  MaxMishaps = 1
SYMMETRY Symmetry
SPECIFICATION RekeySpec
CHECK_DEADLOCK FALSE
INVARIANTS Recoverable
