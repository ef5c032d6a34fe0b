SPECIFICATION Spec
CONSTANTS
  r1 = r1
  r2 = r2
  s1 = s1
  s2 = s2
  s3 = s3
  ch1 = ch1
  ch2 = ch2
  None = None
  Request = {r1, r2}
  NeedsApproval = {r1}
  Session = {s1, s2, s3}
  Stored = {s1}
  Chain = {ch1, ch2}
  BulkSize = 2
  MaxProxy = 2
INVARIANTS
  TypeOK
  StoredIsGranted
  ForwardedIsAuthorised
  BlockedIffQueued
  NoWaitOnClosedProxy
  PartialIsPartial
PROPERTIES
  RevivedByUpdateOnly
  WaitsEnd
