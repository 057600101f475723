SPECIFICATION Spec
CONSTANTS
  t1 = t1
  t2 = t2
  reaper = reaper
  free = free
  Threads = {t1, t2}
  Reaper = reaper
  Free = free
  Queues = {1}
  Reaped = {1}
  DrainedQueue = 1
  Policies <- Limited
  Requests = {"enqueue", "dequeue", "ack", "nack"}
  ClockAhead = TRUE
  Retention = FALSE
  MaxAttempts = 2
  MaxBatch = 2
  MaxTasks = 4
  MaxSeq = 5
  MaxDeliveries = 1
  MaxRestarts = 0
  MaxFaults = 0
SYMMETRY ThreadSymmetry
INVARIANT TypeOK
INVARIANT QuotaBound
INVARIANT InflightWithinCap
CHECK_DEADLOCK FALSE
