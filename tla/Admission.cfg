CONSTANTS
  Window = 4
  MaxSequence = 8
  Pids = {p1, p2, p3}
  Reaper = init
  MaxDepth = 3
  MaxForks = 6
  Apps = {a1, a2}
  Repositories = {g1, g2}
  Nothing = Nothing
  MaxInstalls = 2
  p1 = p1
  a1 = a1
  g1 = g1
  Commands = {c1, c2, c3}
  Requests <- MCRequests
  Ids = {i1, i2}
  Legacy = Legacy
  Plain = Plain
  Unset = Unset
  i1 = i1
  i2 = i2
  r1 = r1
  r2 = r2
SPECIFICATION AdmissionSpec
CONSTRAINT TwoAtOnce
SYMMETRY Same
INVARIANTS
  AdmittedDescended
  SignedPairWasInstalled
  SentTokenWasVerified
  RegisteredFits
PROPERTIES
  ImplementsAcceptOnce
  PolicyEndures
CHECK_DEADLOCK FALSE
