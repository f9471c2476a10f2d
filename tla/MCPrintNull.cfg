CONSTANTS
  Alphabets <- MCPrintNull
  AsREADME = FALSE
SPECIFICATION ParseSpec
INVARIANTS PrintsWhatParses
CHECK_DEADLOCK FALSE
