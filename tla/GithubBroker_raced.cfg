CONSTANTS
  c1 = c1
  c2 = c2
  work = work
  next = next
  main = main
  a = a
  b = b
  Zero = Zero
  NoClient = NoClient
  NoRef = NoRef
  Clients <- MCClients
  Nonces = {1, 2}
  MaxNonces = 2
  Refs <- MCRefs
  WorkRefs <- MCWork
  Oids <- MCOids
  Pushes <- MCPushes
  MaxUpdates = 2
  MaxTokens = 2
CONSTRAINT Quiet
SPECIFICATION Spec
CHECK_DEADLOCK FALSE
INVARIANT OkNamesCreated
