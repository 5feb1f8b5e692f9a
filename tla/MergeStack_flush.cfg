SPECIFICATION Spec
CONSTANTS
  I64Half = 8
  I32Half = 4
  UsizeWords = 64
  ByteBits = 8
  Kinds <- LossyKinds
  Values <- SomeValues
  Operands <- SomeOperands
  MaxWrites = 3
INVARIANT FlushInvisible
CHECK_DEADLOCK FALSE
