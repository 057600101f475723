SPECIFICATION Spec
CONSTANTS
  w1 = w1
  w2 = w2
  none = none
  Tenants = {1, 2}
  Callers = {w1, w2}
  None = none
  Policies <- TwoTiers
  SlotRequests = {22}
  RoundsDown <- HeavyShare
  Scale = 105
  MaxCalls = 2
  MaxRefill = 1
  MaxChanges = 2
  ReturnSizes = {7}
SYMMETRY CallerSymmetry
INVARIANT TypeOK
INVARIANT InflightOvershoot
INVARIANT TokenDebtBounded
INVARIANT SlotsAccounted
INVARIANT PausedGetsNothing
PROPERTY ProportionalShare
CHECK_DEADLOCK FALSE
