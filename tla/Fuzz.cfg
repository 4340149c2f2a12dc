SPECIFICATION Spec
CONSTANTS
  Cores = 2
  Counts = {0, 2}
  MaxTests = 4
INVARIANTS
  TypeOK
  OkMeansAllTested
PROPERTIES
  EveryTestIsNew
  BailExits
  ErrorEndsRun
  LimitedRunEnds
CHECK_DEADLOCK FALSE
