CONSTANTS
  Alphabets <- MCReadmeSwitch
  AsREADME = TRUE
SPECIFICATION ParseSpec
INVARIANTS AcceptsOnlyDecls
CHECK_DEADLOCK FALSE
