SPECIFICATION Spec
CONSTANTS
  U64Max = 1000000000
  StackLimit = 1024
  MaxIndex = 16
  CreateBase = 32000
  Percentage = 50
  RootGas = 200000
  Salts = {7}
  MaxInitCode = 150
  MaxDepth = 4
  MaxDraws = 7
INVARIANTS
  GenTypeOK
  PassesAgree
  SnapshotIsolation
  RecordsMatchCode
  NoncesMatchRuntime
  CallTargetsSafe
CHECK_DEADLOCK FALSE
