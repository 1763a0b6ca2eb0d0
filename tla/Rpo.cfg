\* Every graph of three blocks, one of them removed or none, and each size a
\* caller may pass.
SPECIFICATION Spec
CONSTANTS
  BasicBlock = {A, B, C}
  root = A
  nullptr = nullptr
CHECK_DEADLOCK FALSE
INVARIANTS
  SizeMatters
  Topological
PROPERTIES
  ImplementsSearch
