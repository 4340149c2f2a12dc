SPECIFICATION Spec
CONSTANTS
  U64Max <- MCU64Max
  StackLimit = 1024
  MaxIndex = 16
  CreateBase = 32000
  Percentage = 50
  Ops <- MCOps
  Heights <- MCHeights
  Memories <- MCMemories
  EntryGas <- MCEntryGas
INVARIANTS
  RegionNeverFaults
  RegionMatchesPrediction
  ForwardCoversBudget
  FixupsAreNeeded
  SummaryExact
CHECK_DEADLOCK FALSE
