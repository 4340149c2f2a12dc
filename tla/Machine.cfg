SPECIFICATION FairSpec
CONSTANTS
  U64Max = 1000000
  StackLimit = 8
  MaxIndex = 2
  CreateBase = 60
  Percentage = 50
  DrawnOps <- MCDrawnOps
  InitCodes <- MCInitCodes
  Budgets = {24, 200}
  AllowTermination = {TRUE, FALSE}
  MaxInitCode = 64
  MaxOps = 9
INVARIANTS
  TypeOK
  FixupsNeverBlock
  PaddingBounded
PROPERTIES
  CommitsCostGas
  IngestReturns
CHECK_DEADLOCK FALSE
