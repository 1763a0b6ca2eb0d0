\* Every graph of four blocks; the checks on those of up to four edges.
SPECIFICATION CheckSpec
CONSTANTS
  BasicBlock = {A, B, C, D}
  root = A
  nullptr = nullptr
  KindOf <- MCKindOf
  MaxInstrs = 3
  MaxEdges = 4
SYMMETRY Symmetry
CHECK_DEADLOCK FALSE
INVARIANTS
  DomTreeIsDominance
  ErasedCovered
  NoneLeft
  SeenStaysAlive
