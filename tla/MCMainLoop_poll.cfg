SPECIFICATION LoopFairSpec
CONSTANTS
  LoopItems = 7
  MaxLoopIteration = 2
  MaxSends = 2
  Threads = TRUE
  Routines = {"aio"}
  Polling = {"aio"}
  Timed = {}
  TableSize = 3
INVARIANTS
  NoSleepWithWork
PROPERTIES
  EveryOneServicedByPolling
