\* Any sequence of program steps and collections on a heap of three objects.
SPECIFICATION Spec
CONSTANTS
  Sources <- TwoSources
  MaxObjects = 3
  MaxRefs = 2
CHECK_DEADLOCK FALSE
INVARIANTS
  HeldIsAllocated
