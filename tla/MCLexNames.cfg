CONSTANTS
  Sources <- MCOperators
  KEYWORDS <- MCKeywords
  UINT64_MAX = 15
SPECIFICATION LexSpec
INVARIANTS OperatorsNamed
CHECK_DEADLOCK FALSE
