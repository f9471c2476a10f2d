CONSTANTS
  Alphabets <- MCReadmeEnum
  AsREADME = TRUE
SPECIFICATION ParseSpec
INVARIANTS RefusesNoDecl
CHECK_DEADLOCK FALSE
