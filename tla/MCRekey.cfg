CONSTANTS
  Secret = {a, b}
  Pass = {pw1, pw2}
  NoPass = NoPass
  None = None
  Torn = Torn
  MaxToken = 4
  MaxVersion = 2
  MaxCrashes = 2
  Mishaps = {"guess", "overlap", "tear", "throws", "linger"}
  MaxMishaps = 1
SYMMETRY Symmetry
SPECIFICATION RekeySpec
CHECK_DEADLOCK FALSE
INVARIANTS NoSecretLost VaultCurrent
PROPERTIES NeverStuck FinishedRekeyReadable OldKeyRetired
