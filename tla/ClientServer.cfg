SPECIFICATION FairSpec
CONSTANTS
  NumServers = 2
  MaxTests = 3
INVARIANTS
  TypeOK
  AnswersAreForTheirTest
  WorksOnlyWhenAwaited
  NoServerSurvives
PROPERTIES
  KeepsPromise
  LeavingEnds
CHECK_DEADLOCK FALSE
