SPECIFICATION RtSpec
CONSTANTS
  U64Max = 1000000
  StackLimit = 8
  MaxIndex = 2
  CreateBase = 640
  Percentage = 50
  DrawnOps <- MCDrawnOps
  InitCodes <- MCInitCodes
  Budgets = {1400}
  AllowTermination = {TRUE, FALSE}
  MaxInitCode = 64
  MaxOps = 10
INVARIANTS
  RtTypeOK
  ProgramsNeverFault
  StackAndMemoryMirror
  GasCovered
CHECK_DEADLOCK FALSE
