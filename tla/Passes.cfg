\* Each pass alone and followed by another, on blocks of up to four instructions.
SPECIFICATION FairSpec
CONSTANTS
  Width = 2
  ConstValues = {0, 1, 2}
  BitOr <- BitwiseOr
  Admits <- Canonical
  MaxInstrs = 4
  PassLists <- UpToTwoPasses
CHECK_DEADLOCK FALSE
INVARIANTS
  MeaningPreserved
  OperandsInOrder
  UsersComplete
  FoldingComplete
PROPERTY Termination
