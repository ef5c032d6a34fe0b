SPECIFICATION QueueSpec
CONSTANTS
  r1 = r1
  r2 = r2
  r3 = r3
  r4 = r4
  i1 = i1
  i2 = i2
  i3 = i3
  i4 = i4
  None = None
  Request = {r1, r2, r3, r4}
  Id <- ReusedIds
  Immediate = {r1, r3}
INVARIANTS
  QueueTypeOK
  OwnVerdict
  QueueConsistent
PROPERTIES
  Released
