SPECIFICATION Spec
CONSTANTS
  Emitters = {e1, e2}
  Names = {a, b}
  Funcs = {f, g}
  MaxListeners = 3
  MaxDepth = 2
  RingItems = 1
SYMMETRY Symmetric
INVARIANTS
  RemovalWhileCalled
