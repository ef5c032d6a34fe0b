SPECIFICATION Spec
CONSTANTS
  w1 = w1
  w2 = w2
  s1 = s1
  s2 = s2
  s3 = s3
  c1 = c1
  c2 = c2
  None = None
  Boot = Boot
  Wallet = {w1, w2}
  Session = {s1, s2, s3}
  Call = {c1, c2}
SYMMETRY Alike
INVARIANTS
  TypeOK
  StoreConsistent
PROPERTIES
  EndedStaysEnded
  DisconnectEndsAll
