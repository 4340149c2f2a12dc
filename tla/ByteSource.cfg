SPECIFICATION Spec
CONSTANTS
  U64Max = 1000000000
  StackLimit = 1024
  MaxIndex = 16
  CreateBase = 32000
  Percentage = 50
  MemoryOffsetLimit = 65535
  MemoryLengthLimit = 255
  Inputs <- MCInputs
  Profiles <- MCProfiles
  RootGas = 9
  OpcodePrices = {2, 4}
  MaxPads = 1
INVARIANTS
  SourceTypeOK
  ByteReadOnce
  DrawsFollowWeights
PROPERTIES
  GenerationEnds
CHECK_DEADLOCK FALSE
