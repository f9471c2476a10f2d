CONSTANTS
  Sources <- MCAll
  KEYWORDS <- MCKeywords
  UINT64_MAX = 15
SPECIFICATION LexSpec
INVARIANTS LexTypeOK IntValueExact LiteralsRoundTrip OverrunsOnlyUnclosed OperatorsLongest ModMatchesText
PROPERTIES ReachesEnd
CHECK_DEADLOCK FALSE
