SPECIFICATION Spec
CONSTANTS
  Radix = 3
  Dialects <- AllDialects
CHECK_DEADLOCK FALSE
INVARIANTS
  TypeOK
  RunsWhatWasEmitted
  ErrorsNameTheirLine
  DisassemblesWhatWasEmitted
  StatementsAreFound
