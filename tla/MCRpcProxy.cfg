SPECIFICATION Spec
CHECK_DEADLOCK FALSE
CONSTANTS
  f1 = f1
  f2 = f2
  f3 = f3
  i1 = i1
  i2 = i2
  i3 = i3
  None = None
  Forward = {f1, f2, f3}
  Id <- UniqueIds
INVARIANTS
  TypeOK
  WaitingIffPending
PROPERTIES
  ForwardsEnd
  ImplementsRemoteCall
