SPECIFICATION FairSpec
CONSTANTS
  Clients = {c1}
  MaxActive = 1
  MaxCreated = 1
  MaxStops = 1
PROPERTIES
  ResolvingIsTimed
CHECK_DEADLOCK FALSE
