SPECIFICATION StatsSpec
CONSTANTS
  a = a
  daemon = daemon
  o1 = o1
  none = none
  Tenants = {a}
  Daemon = daemon
  Operators = {o1}
  Plans <- Premium
  Updates <- Narrower
  Requests = {"force_release", "update_policy", "namespace", "drop", "provision"}
  Divisor = 4
  MinRateFloor = 5
  MaxThrottles = 2
  MaxRestarts = 1
  MaxPlans = 1
  MaxFaults = 1
  None = none
  FlushEvery = 1
  MaxThreshold = 1
  MaxEnqueues = 1
INVARIANT StatsTypeOK
INVARIANT RateRestored
INVARIANT ThrottlePersisted
INVARIANT ThrottleInForce
INVARIANT MaxInflightDecays
INVARIANT ThresholdSurvives
PROPERTY TotalsCredible
CHECK_DEADLOCK FALSE
