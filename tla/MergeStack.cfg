SPECIFICATION Spec
CONSTANTS
  I64Half = 8
  I32Half = 4
  UsizeWords = 64
  ByteBits = 8
  Kinds <- AllKinds
  Values <- SomeValues
  Operands <- SomeOperands
  MaxWrites = 3
INVARIANTS TypeOK LossNeedsCollapse BitsReadAsWritten EditsAreSplices
CHECK_DEADLOCK FALSE
