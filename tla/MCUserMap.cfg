CONSTANTS
  User = {u1, u2, u3}
  Unnamed = {u3}
  Ip = {1, 2}
  Instance = {1, 2}
  MaxInFlight = 2
  MaxLost = 2
  MaxEvents = 4
  MaxLoads = 2
SPECIFICATION Spec
INVARIANTS NeverAnotherUser ExactWhenReliable
PROPERTIES OnlyLoadsMakeStale
SYMMETRY UserSymmetry
CHECK_DEADLOCK FALSE
