\* Two shifts in a row.
SPECIFICATION Spec
CONSTANTS
  Width = 2
  ConstValues = {0, 1}
  BitOr <- BitwiseOr
  Admits <- Canonical
  MaxInstrs = 5
  PassLists <- PeepholeOnly
CHECK_DEADLOCK FALSE
INVARIANT ShlByZeroReplaced
