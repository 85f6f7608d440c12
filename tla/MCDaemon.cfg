SPECIFICATION DaemonSpec
CONSTANTS
  c1 = c1
  c2 = c2
  Call <- MCCall
  Asks <- MCAsks
  Server = {d1, d2}
  None = None
  Granted = 1
  MaxKills = 1
  Mishaps = {"overlap", "disk"}
  MaxMishaps = 1
INVARIANTS NoSilentSpend SureCallsServed
PROPERTIES RestartBinds EveryCallAnswered
CHECK_DEADLOCK FALSE
