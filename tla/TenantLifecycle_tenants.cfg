SPECIFICATION Spec
CONSTANTS
  a = a
  p1 = p1
  p2 = p2
  v1 = v1
  v2 = v2
  nopolicy = nopolicy
  Tenants = {a}
  Threads = {p1, p2}
  Versions = {v1, v2}
  NoPolicy = nopolicy
  Requests = {"provision", "drop", "set_policy", "use"}
  MaxCreations = 2
  MaxLocks = 2
  MaxCrashes = 1
  MaxFaults = 1
SYMMETRY Symmetries
INVARIANT TypeOK
INVARIANT ProvisionedIsServed
 
INVARIANT QueueSerialized
CHECK_DEADLOCK FALSE
