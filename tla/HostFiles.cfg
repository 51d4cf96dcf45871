CONSTANTS
  Writers = {broker, host}
  Guarded = {broker}
  Names = {n1, n2}
  MaxAttempts = 2
  Nobody = nobody
  Earlier = earlier
  Migrators = {m1, m2}
  Settings = settings_json
  Directories = {dir}
  Versions = {v1, v2}
  Children = {child, denied, cached}
  Holder <- MCHolder
  Denied = {denied}
  Nothing = Nothing
  MaxChanges = 2
  dir = dir
  v1 = v1
  v2 = v2
  child = child
  denied = denied
  cached = cached
  Binders = {b1, b2}
  Replacing = {b1}
  Editors = {e1, e2, e3}
  Present = present
  Garbled = {e3}
  Vacant = Vacant
SPECIFICATION HostSpec
CONSTRAINT Alone
SYMMETRY Same
INVARIANTS
  FailureLeavesNothing
  PublishedIsPlan
  AnswerIsTrue
PROPERTIES
  ImplementsShelf
  GuestIsSafe
  EditsSurvive
CHECK_DEADLOCK FALSE
