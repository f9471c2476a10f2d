CONSTANTS
  type_int = type_int
  type_float = type_float
  a = a
  b = b
  TypeAddrs <- MCTypeAddrs
  ArraySizes = {3, 4}
  Buffers = {p, q}
  Listed = {type_int, a}
  MaxParams = 2
  CallersRewrite = FALSE
SPECIFICATION TypesSpec
INVARIANTS TypesTypeOK TypesCanonical AnswerServes
PROPERTIES ImplementsInterner
CHECK_DEADLOCK FALSE
