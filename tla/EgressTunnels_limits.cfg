SPECIFICATION Spec
CONSTANTS
  Clients = {c1, c2, c3, c4}
  MaxActive = 2
  MaxCreated = 3
  MaxStops = 1
SYMMETRY ClientSymmetry
CONSTRAINT Queue
INVARIANTS
  LimitsHold
  OpenedIsLogged
CHECK_DEADLOCK FALSE
