CONSTANTS
  Alphabets <- MCPrintSExpr
  AsREADME = FALSE
SPECIFICATION ParseSpec
INVARIANTS PrintsSExpression
CHECK_DEADLOCK FALSE
