SPECIFICATION Spec
CONSTANTS
  a = a
  p1 = p1
  v1 = v1
  nopolicy = nopolicy
  Tenants = {a}
  Threads = {p1}
  Versions = {v1}
  NoPolicy = nopolicy
  Requests = {"provision"}
  MaxCreations = 2
  MaxLocks = 0
  MaxCrashes = 1
  MaxFaults = 0
SYMMETRY Symmetries
INVARIANT AlwaysReopens
CHECK_DEADLOCK FALSE
