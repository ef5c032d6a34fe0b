SPECIFICATION Spec
CONSTANTS
  r1 = r1
  r2 = r2
  s1 = s1
  s2 = s2
  s3 = s3
  ch1 = ch1
  ch2 = ch2
  None = None
  Request = {r1, r2}
  NeedsApproval = {}
  Session = {s1, s2, s3}
  Stored = {s1}
  Chain = {ch1}
  BulkSize = 2
  MaxProxy = 2
INVARIANT TerminatedStaysInvalid
