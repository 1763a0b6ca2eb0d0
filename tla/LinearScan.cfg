\* Four values for two registers or none, lifetimes with holes and empty ranges
\* among them.
SPECIFICATION Spec
CONSTANTS
  i1 = i1  i2 = i2  i3 = i3  i4 = i4
  MaxTime = 3
  Targets = {0, 2}
  Instr <- Instr4
  Lifetimes <- MixedLifetimes
CHECK_DEADLOCK FALSE
INVARIANTS
  IInv
  NoClobber
  DistinctSlots
  RegistersPartitioned
  SpillsMinimal
PROPERTIES
  SpillsFurthestEnd
  ImplementsRegAlloc
