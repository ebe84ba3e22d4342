SPECIFICATION FairSpec
CONSTANTS
  Addresses = {a1, a2}
  MaxTimers = 3
  MaxIteration = 1
  Environments <- EnvironmentsDef
INVARIANTS
  TimersAreSound
PROPERTIES
  ClearedIntervalIsQuiet
  DeletedForItself
  TimeoutIsCalled
