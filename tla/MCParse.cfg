CONSTANTS
  Alphabets <- MCAlphabets
  AsREADME = FALSE
SPECIFICATION ParseSpec
INVARIANTS ParseTypeOK AcceptsOnlyDecls RefusesNoDecl LeavesInOrder PrecedenceExact TreeOwnsArrays CrashesOnlyIncomplete PrintsEveryLeaf IndentGivenBack
PROPERTIES NeverPastEnd Finishes
CHECK_DEADLOCK FALSE
