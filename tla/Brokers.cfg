SPECIFICATION BrokersSpec
CONSTANTS
  Clients = {c1, c2, c3}
  MaxStops = 2
  Room = 2
  Chunk = 2
  Limit = 3
  MaxBytes = 4
INVARIANTS
  QuietRelease
  SilenceMeansDone
PROPERTIES
  StopReturns
  EndArrives
  ImplementsStream
CHECK_DEADLOCK FALSE
