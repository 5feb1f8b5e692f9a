SPECIFICATION Spec
CONSTANTS
  I64Half = 8
  I32Half = 4
  UsizeWords = 64
  ByteBits = 8
  Kinds <- OnlyErlang
  Values <- SomeValues
  Operands <- ReversedOperands
  MaxWrites = 3
INVARIANT BoundsChecked
CHECK_DEADLOCK FALSE
