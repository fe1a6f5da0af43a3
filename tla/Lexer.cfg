SPECIFICATION Spec
CONSTANTS
  Dialects <- AllDialects
  MaxInterpolations = 2
CHECK_DEADLOCK FALSE
INVARIANTS
  TypeOK
  LinesAreCounted
  PiecesContinueTheirTemplates
  ErrorsAreReported
