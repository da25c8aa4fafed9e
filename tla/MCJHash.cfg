CONSTANTS
  ByteBase = 2
  Bits = 4
  JHASH_INITVAL = 13
  BitXor <- MCXor
  InitVals = {0, 9}
  MaxLen = 16
SPECIFICATION Spec
INVARIANTS SameHash Reversible
CHECK_DEADLOCK FALSE
