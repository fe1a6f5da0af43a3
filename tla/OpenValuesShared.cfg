\* At most two open variables, the lower one captured first.
SPECIFICATION PairwiseSpec
CONSTANTS
  Cells = {c1, c2, c3}
  Values = {v1, v2}
  Unused = Unused
  Own = Own
  StackSize = 5
CHECK_DEADLOCK FALSE
INVARIANTS
  NoCellAboveTop
PROPERTIES
  SharesVariables
