SPECIFICATION FairSpec
CONSTANTS
  InitialSize = 1
  ChunkSize = 1
  MaxSize = 3
  RingWords = 5
  ArgWords = {1}
  MaxIteration = 2
  MaxRegs = 4
  Linux = FALSE
  Interrupts = TRUE
  Threads = TRUE
  QuietSources = FALSE
  MapAllocFails = TRUE
  StopsJs = TRUE
INVARIANTS
  IInv
  RemovedWillBeFreed
  UndefinedExplained
PROPERTIES
  RemovedIsFreed
