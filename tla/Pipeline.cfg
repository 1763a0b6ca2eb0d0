\* Structured functions of three blocks and an exit, and two nested loops, left
\* from the header or from the latch; some call another function.
SPECIFICATION PipelineFairSpec
CONSTANTS
  BasicBlock = {A, B, C, D}
  root = A
  B = B
  C = C
  D = D
  nullptr = nullptr
  noLoop = noLoop
  CfgGraphs <- SmallGraphs
  Instr <- Instrs
  Programs <- CallPrograms
  Targets = {0, 1, 2}
CHECK_DEADLOCK FALSE
INVARIANTS
  LinearOrderComplete
  LiveRangesCover
  RangesExact
  AllocationSound
PROPERTY PipelineTermination
