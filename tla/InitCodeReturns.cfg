SPECIFICATION RtSpec
CONSTANTS
  U64Max = 1000000
  StackLimit = 8
  MaxIndex = 2
  CreateBase = 450
  Percentage = 50
  DrawnOps <- MCFillingOps
  InitCodes <- MCInitCodes
  Budgets = {40}
  AllowTermination = {FALSE}
  MaxInitCode = 64
  MaxOps = 11
INVARIANTS
  InitCodeReturns
CHECK_DEADLOCK FALSE
