SPECIFICATION FairSpec
CONSTANTS
  a = a
  b = b
  w1 = w1
  w2 = w2
  Workers = {w1, w2}
  TenantOf <- OneEach
  QueueOf <- OneWatched
  NumQueues = 2
  TotalSlots = 2
  MinGuarantee = 2
  MaxAttempts = 2
  MaxScore = 2
  MaxExpiries = 1
INVARIANT TypeOK
INVARIANT AcksAccounted
INVARIANT HoldersBounded
PROPERTY BudgetSpent
PROPERTY BacklogServed
