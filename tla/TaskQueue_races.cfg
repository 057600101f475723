SPECIFICATION Spec
CONSTANTS
  t1 = t1
  t2 = t2
  reaper = reaper
  free = free
  Threads = {t1, t2}
  Reaper = reaper
  Free = free
  Queues = {1}
  Reaped = {1}
  DrainedQueue = 1
  Policies <- Unlimited
  Requests = {"enqueue", "dequeue_uncapped", "ack", "nack", "purge_dlq", "replay_dlq", "drain"}
  ClockAhead = TRUE
  Retention = FALSE
  MaxAttempts = 2
  MaxBatch = 1
  MaxTasks = 1
  MaxSeq = 4
  MaxDeliveries = 2
  MaxRestarts = 0
  MaxFaults = 1
SYMMETRY ThreadSymmetry
INVARIANT NoTaskLost
INVARIANT DeadLetterEarned
INVARIANT AttemptsEarned
PROPERTY DrainTruthful
PROPERTY ImplementsContract
CHECK_DEADLOCK FALSE
