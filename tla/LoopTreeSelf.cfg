\* A loop with two latches.
SPECIFICATION Spec
CONSTANTS
  BasicBlock = {A, B, C}
  root = A
  first = B
  last = C
  nullptr = nullptr
  noLoop = noLoop
  CfgGraphs <- SimpleGraphs
CHECK_DEADLOCK FALSE
INVARIANT NoLoopInItself
