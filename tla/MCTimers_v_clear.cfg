SPECIFICATION Spec
CONSTANTS
  Addresses = {a1, a2}
  MaxTimers = 3
  MaxIteration = 2
  Environments <- ClearingDef
PROPERTIES
  ClearedTimeoutIsQuiet
