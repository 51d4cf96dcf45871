CONSTANTS
  r1 = r1  r2 = r2  p1 = p1  p2 = p2
  Requests <- OneRequest
  Canonical <- SameContent
  Procs = {p1, p2}
  Inodes = {1, 2}
  NoRequest = NoRequest  NoProc = NoProc  NoIssue = NoIssue
  LegacyRequests = {}
  Commands = {"start", "intake", "approve"}
  MaxUnfinished = 1
  MaxAudit = 3
  MaxMishaps = 1
  TornWrites = FALSE
  CarefulOperator = FALSE
SPECIFICATION FairSpec
PROPERTIES InterruptedSendSurfaces MarkersDrain
