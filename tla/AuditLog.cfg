CONSTANTS
  Proc = {cli, daemon}
  Daemon = {daemon}
  NoTip = NoTip
  MaxRecords = 4
  MaxKeys = 2
  MaxCrashes = 1
  MaxLosses = 1
  Mishaps = {"stale", "keyless", "disk", "unmarked"}
SPECIFICATION AuditSpec
INVARIANTS ChainLinked NoFalseAlarm RecordHeals
PROPERTIES LossCaught DowngradeRefused
