\* Any program: captures in any order.
SPECIFICATION Spec
CONSTANTS
  Cells = {c1, c2, c3, c4}
  Values = {v1}
  Unused = Unused
  Own = Own
  StackSize = 6
SYMMETRY CellSymmetry
CHECK_DEADLOCK FALSE
INVARIANTS
  TypeOK
  OpenCellsAreListed
PROPERTIES
  LiveCellsStayAttached
