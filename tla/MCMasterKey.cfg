CONSTANTS
  Proc = {p1, p2, p3}
  None = None
  Torn = Torn
  MaxKeys = 3
  Mishaps = {"overlap", "hiccup"}
SYMMETRY Symmetry
SPECIFICATION KeySpec
INVARIANTS SealedStaysReadable KeysAgree
PROPERTIES AuditMakesNoKey
