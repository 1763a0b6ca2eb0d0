\* Inlining keeps what the program computes, calls of calls included: violated.
SPECIFICATION Spec
CONSTANTS
  Programs <- MCPrograms
  func = "f"
  nullptr = nullptr
  NewBlock <- MCNewBlock
  NewPhi <- MCNewPhi
CHECK_DEADLOCK FALSE
INVARIANT DataflowKept
