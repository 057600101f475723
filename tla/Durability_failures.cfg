SPECIFICATION FairSpec
CONSTANTS
  MaxWrites = 3
  MaxRuns = 2
  MaxFailures = 3
INVARIANT TypeOK
INVARIANT NothingElseLost
INVARIANT NoHoles
PROPERTY ServerReturns
CHECK_DEADLOCK FALSE
