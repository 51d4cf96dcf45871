CONSTANTS
  r1 = r1  r2 = r2  p1 = p1  p2 = p2
  Requests <- TwoRequests
  Canonical <- SameContent
  Procs = {p1, p2}
  Inodes = {1, 2}
  NoRequest = NoRequest  NoProc = NoProc  NoIssue = NoIssue
  LegacyRequests <- SecondRequest
  Commands = {"start", "intake", "preview", "approve", "reject", "resolve-created",
              "resolve-not-created"}
  MaxUnfinished = 1
  MaxAudit = 5
  MaxMishaps = 1
  TornWrites = TRUE
  CarefulOperator = TRUE
SPECIFICATION Spec
SYMMETRY ProcSymmetry
CONSTRAINT Within
INVARIANTS SendBudget AtMostOneIssue  AuditKeepsUp EverySendAudited CreatedIsReal CapacityRespected
PROPERTIES ImplementsApproval
