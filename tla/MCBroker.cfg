CONSTANTS
  Req = {r1, r2, r3}
  Lease = {capped}
  Granted <- TwoUses
  Rate <- TwoPerWindow
  Concurrency <- TwoInFlight
  Window = 2
  Horizon = 2
  MaxRestarts = 1
SPECIFICATION BrokerSpec
CHECK_DEADLOCK FALSE
INVARIANTS CapHeld NoSlotLeak AdmissionsWithinRate UsesAccountedFor RevokeCutsOff
PROPERTIES SlotsReturn
