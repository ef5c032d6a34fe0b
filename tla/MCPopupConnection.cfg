SPECIFICATION Spec
CONSTANTS
  c1 = c1
  c2 = c2
  c3 = c3
  m1 = m1
  s1 = s1
  s2 = s2
  Call = {c1, c2}
  Message = {m1}
  Request = {s1}
  MaxMail = 2
  ConnectRetries = 1
  SendRetries = 1
INVARIANTS
  TypeOK
  NoLeftovers
  SendIsExact
PROPERTIES
  EndsForAReason
  ConnectSettles
