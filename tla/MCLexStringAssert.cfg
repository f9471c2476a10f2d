CONSTANTS
  Sources <- MCQuoted
  KEYWORDS <- MCKeywords
  UINT64_MAX = 15
SPECIFICATION LexSpec
INVARIANTS StringAssertHolds
CHECK_DEADLOCK FALSE
