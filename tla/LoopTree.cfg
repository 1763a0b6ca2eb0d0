\* Every graph of three blocks and every structured graph of four, with every
\* order of the predecessors.
SPECIFICATION FairSpec
CONSTANTS
  BasicBlock = {A, B, C, D}
  root = A
  first = B
  last = D
  nullptr = nullptr
  noLoop = noLoop
  CfgGraphs <- SmallGraphs
CHECK_DEADLOCK FALSE
INVARIANTS
  EveryCycleHasHeader
  MarkersClean
  LoopsAreNatural
  NestingIsContainment
PROPERTY Termination
