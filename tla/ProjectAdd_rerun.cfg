CONSTANTS
  Commands = {c1, c2, c3}
  Requests <- SetupOnly
  Ids = {i1, i2}
  Legacy = Legacy
  Plain = Plain
  Unset = Unset
  i1 = i1
  i2 = i2
  r1 = r1
  r2 = r2
SPECIFICATION AddSpec
INVARIANTS SetupCanBeRerun
CHECK_DEADLOCK FALSE
