SPECIFICATION Spec
CONSTANTS
  InitialSize = 2
  ChunkSize = 1
  MaxSize = 3
  RingWords = 5
  ArgWords = {0, 1}
  MaxIteration = 2
  MaxRegs = 3
  Linux = FALSE
  Interrupts = TRUE
  Threads = TRUE
  QuietSources = TRUE
  MapAllocFails = TRUE
  StopsJs = FALSE
INVARIANTS
  StaleNeverDelivered
  HeldBalance
  UndefinedExplained
PROPERTIES
  OnceCalledOnce
