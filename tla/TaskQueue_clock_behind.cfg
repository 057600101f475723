SPECIFICATION Spec
CONSTANTS
  t1 = t1
  t2 = t2
  reaper = reaper
  free = free
  Threads = {t1, t2}
  Reaper = reaper
  Free = free
  Queues = {1}
  Reaped = {1}
  DrainedQueue = 1
  Policies <- Unlimited
  Requests = {"enqueue"}
  ClockAhead = FALSE
  Retention = FALSE
  MaxAttempts = 2
  MaxBatch = 1
  MaxTasks = 2
  MaxSeq = 2
  MaxDeliveries = 2
  MaxRestarts = 1
  MaxFaults = 0
SYMMETRY ThreadSymmetry
INVARIANT NoTaskLost
CHECK_DEADLOCK FALSE
