CONSTANTS
  Clients = {c1, c2, c3}
  Family = {c1, c2}
  NoClient = none
SPECIFICATION RunSpec
INVARIANTS SingleAttempt InterruptReaches GateHolds NothingLeft OkRunIsClean
PROPERTIES QuietAfterRevoke ImplementsSupervised AlarmsEndRun
CHECK_DEADLOCK FALSE
