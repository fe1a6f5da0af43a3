SPECIFICATION Spec
CONSTANTS
  Compute <- Arithmetic7
  IsLess <- Before7
  Dialects <- AllDialects
CHECK_DEADLOCK FALSE
INVARIANTS
  TypeOK
  ParsedAsGrouped
  RunsAsEvaluated
