SPECIFICATION Spec
CONSTANTS
  t1 = t1
  t2 = t2
  reaper = reaper
  free = free
  Threads = {t1, t2}
  Reaper = reaper
  Free = free
  Queues = {1, 2}
  Reaped = {1, 2}
  DrainedQueue = 1
  Policies <- UnlimitedWide
  Requests = {"enqueue", "dequeue", "ack"}
  ClockAhead = TRUE
  Retention = TRUE
  MaxAttempts = 2
  MaxBatch = 2
  MaxTasks = 2
  MaxSeq = 2
  MaxDeliveries = 2
  MaxRestarts = 0
  MaxFaults = 0
SYMMETRY ThreadSymmetry
INVARIANT NoCircularWait
INVARIANT AckCountedOnce
INVARIANT SingleCopy
CHECK_DEADLOCK FALSE
