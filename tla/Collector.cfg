\* Any sequence of program steps and collections on a heap of three objects.
SPECIFICATION FairSpec
CONSTANTS
  Sources <- TwoSources
  MaxObjects = 3
  MaxRefs = 2
CHECK_DEADLOCK FALSE
INVARIANTS
  TypeOK
  ReachableIsAllocated
  ListHoldsHeap
PROPERTIES
  GarbageIsFreed
  CollectionEnds
