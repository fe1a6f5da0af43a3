SPECIFICATION Spec
CONSTANTS
  a = a
  b = b
  d = d
  m = m
  NoName = NoName
  Keli = Keli
  Names = {a, b, d, m}
  Starts <- Beginnings
  Native = m
  Dialects <- AllDialects
  MaxNesting = 4
  MaxLocals = 4
  StackSize = 7
  MaxFrames = 8
  MaxCells = 3
  MaxClasses = 2
  MaxInstances = 2
CHECK_DEADLOCK FALSE
INVARIANTS
  TypeOK
  RegularStatementsLeaveNoValue
  NamesDenoteTheirVariables
  RunsAreDefined
  CapturedAreOnTheStack
  MethodsAreInherited
  MethodsRunOnInstances
  JumpsArePatched
