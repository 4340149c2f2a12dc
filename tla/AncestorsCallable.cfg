SPECIFICATION GenSpec
CONSTANTS
  U64Max = 1000000000
  StackLimit = 1024
  MaxIndex = 16
  CreateBase = 32000
  Percentage = 50
  RootGas = 200000
  Salts = {7}
  MaxInitCode = 150
  MaxDepth = 3
  MaxDraws = 8
INVARIANT AncestorsCallable
CHECK_DEADLOCK FALSE
