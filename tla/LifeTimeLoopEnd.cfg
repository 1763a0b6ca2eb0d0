\* Two nested loops, left from the header or from the latch.
SPECIFICATION LifeSpec
CONSTANTS
  BasicBlock = {A, B, C, D}
  root = A
  B = B
  C = C
  D = D
  nullptr = nullptr
  noLoop = noLoop
  CfgGraphs <- SmallGraphs
  Instr <- Instrs
  Programs <- AllPrograms
CHECK_DEADLOCK FALSE
INVARIANTS
  LoopEndEndsLoop
