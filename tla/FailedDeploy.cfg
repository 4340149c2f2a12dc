SPECIFICATION RtSpec
CONSTANTS
  U64Max = 1000000
  StackLimit = 8
  MaxIndex = 2
  CreateBase = 640
  Percentage = 50
  DrawnOps <- MCDrawnOps
  InitCodes <- MCInitCodes
  Budgets = {1400}
  AllowTermination = {TRUE}
  MaxInitCode = 64
  MaxOps = 11
INVARIANTS
  ProgramSurvivesFailedDeploy
CHECK_DEADLOCK FALSE
