SPECIFICATION RtSpec
CONSTANTS
  U64Max = 1000000
  StackLimit = 8
  MaxIndex = 2
  CreateBase = 450
  Percentage = 50
  DrawnOps <- MCFillAndCreateOps
  InitCodes <- MCInitCodes
  Budgets = {976, 977, 978, 979, 980, 981, 982}
  AllowTermination = {TRUE}
  MaxInitCode = 64
  MaxOps = 11
INVARIANTS
  BudgetForwarded
CHECK_DEADLOCK FALSE
