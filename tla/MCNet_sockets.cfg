SPECIFICATION NetSpec
CONSTANTS
  Contexts = {c1, c2}
  NoContext = NoContext
  MaxConns = 2
  MaxClients = 2
  Mixed = FALSE
  MaxCloses = 1
  MaxCalls = 1
  MaxPackets = 2
  NetRing = 3
  ReadBuffer = 2
  MaxSegment = 2
SYMMETRY ContextSymmetry
INVARIANTS
  OwnDataInOrder
  ClosesAreCovered
PROPERTIES
  QueuedSocketIsHeld
