\* Every graph of three blocks, one of them removed or none.
SPECIFICATION Spec
CONSTANTS
  BasicBlock = {A, B, C}
  root = A
  nullptr = nullptr
CHECK_DEADLOCK FALSE
INVARIANTS
  IInv
  FindsReachable
PROPERTIES
  ImplementsSearch
  Progresses
