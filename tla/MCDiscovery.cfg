SPECIFICATION Spec
CONSTANTS
  w1 = w1
  w2 = w2
  w3 = w3
  d1 = d1
  d2 = d2
  good = good
  other = other
  poor = poor
  None = None
  Responder = {w1, w2, w3}
  Unsteady = {w1}
  InPage = {w1, w2}
  Rdns <- TwoUnderOneName
  Look = {good, other, poor}
  Fulfilling = {good, other}
  FirstLook <- AllGood
  MaxSession = 2
INVARIANTS
  TypeOK
  SessionIsWhole
  FirstWins
  ResultAnswered
  ConflictIsReal
  AnsweredOnce
PROPERTIES
  DiscoveryEnds
  ImplementsSession
