CONSTANTS
  type_int = type_int
  type_float = type_float
  a = a
  b = b
  TypeAddrs <- MCTypeAddrs
  ArraySizes = {3, 4}
  Buffers = {p}
  Listed <- MCTypeAddrs
  MaxParams = 1
  CallersRewrite = TRUE
SPECIFICATION TypesSpec
SYMMETRY MCSymmetry
INVARIANTS AnswerServes
CHECK_DEADLOCK FALSE
