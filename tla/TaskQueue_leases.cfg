SPECIFICATION FairSpec
CONSTANTS
  t1 = t1
  reaper = reaper
  free = free
  Threads = {t1}
  Reaper = reaper
  Free = free
  Queues = {1, 2}
  Reaped = {1, 2}
  DrainedQueue = 1
  Policies <- Blocking
  Requests = {"enqueue", "dequeue", "ack", "cumulative_ack"}
  ClockAhead = TRUE
  Retention = FALSE
  MaxAttempts = 2
  MaxBatch = 1
  MaxTasks = 2
  MaxSeq = 3
  MaxDeliveries = 1
  MaxRestarts = 1
  MaxFaults = 1
INVARIANT Inv
PROPERTY ReapedLeasesEnd
PROPERTY BlockedProducerReturns
CHECK_DEADLOCK FALSE
