SPECIFICATION Spec
CONSTANTS
  Callers = {c1, c2}
  MaxCalls = 2
  MaxWire = 2
  MaxPhases = 1
SYMMETRY Symmetry
INVARIANTS
  ReaderNeverBlocks
  NoLeakedCalls
  NoLostResponse
PROPERTY
  ImplementsCalls
