SPECIFICATION Spec
CONSTANTS
  IpmDevices = {"aio", "glcd", "i2c"}
  IpmQueue = 2
  MaxIpmCalls = 3
  MaxChanges = 1
  MaxSensors = 2
  MaxStarts = 4
  MaxReadings = 2
  SensorRing = 3
  Vectors <- VectorsDef
  MaxNeurons = 3
  MaxPmeCalls = 6
  ServiceSets <- ServiceSetsDef
  BleBudgets <- BleBudgetsDef
  BleRing = 2
INVARIANTS
  CoresAgree
  SensorsAgree
  ModesAreKept
  ClientsAgree
PROPERTIES
  SavedIsRestored
  FaultsExplained
