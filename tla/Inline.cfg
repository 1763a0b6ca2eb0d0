\* Every caller with every callee.
SPECIFICATION Spec
CONSTANTS
  Programs <- MCPrograms
  func = "f"
  nullptr = nullptr
  NewBlock <- MCNewBlock
  NewPhi <- MCNewPhi
CHECK_DEADLOCK FALSE
INVARIANTS
  DataflowPreserved
  CallsReplaced
  DefsDominateUses
  SameSkeleton
  PredecessorsKnown
  StopsOnlyBeyondLimits
