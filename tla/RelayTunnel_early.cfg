CONSTANTS
  Room = 2
  Chunk = 2
  Limit = 2
  MaxBytes = 3
SPECIFICATION RelaySpec
INVARIANTS EarlyBytesArrive
CHECK_DEADLOCK FALSE
