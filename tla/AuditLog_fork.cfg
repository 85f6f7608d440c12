CONSTANTS
  Proc = {cli, daemon}
  Daemon = {daemon}
  NoTip = NoTip
  MaxRecords = 3
  MaxKeys = 2
  MaxCrashes = 0
  MaxLosses = 0
  Mishaps = {"overlap"}
SPECIFICATION AuditSpec
INVARIANTS ChainAlwaysLinked
