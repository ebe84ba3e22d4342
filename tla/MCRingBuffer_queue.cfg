SPECIFICATION Spec
CONSTANTS
  Size = 4
  Bytes = 16
  Types = {1}
  Values = {0, 254}
  Flushes = {254}
  Lengths = {0, 1, 2}
  Data <- DataWords
INVARIANTS
  RingIsSound
PROPERTIES
  ImplementsQueue
