SPECIFICATION FairSpec
CONSTANTS
  a = a
  daemon = daemon
  o1 = o1
  none = none
  Tenants = {a}
  Daemon = daemon
  Operators = {o1}
  Plans <- Standard
  Updates <- NoUpdates
  Requests = {}
  Divisor = 4
  MinRateFloor = 5
  MaxThrottles = 1
  MaxRestarts = 0
  MaxPlans = 1
  MaxFaults = 1
  None = none
PROPERTY CalmReleases
CHECK_DEADLOCK FALSE
