SPECIFICATION Spec
CONSTANTS
  dapp = dapp
  wallet = wallet
  c1 = c1
  c2 = c2
  Node = {dapp, wallet}
  Call = {c1, c2}
  Caller <- SameCaller
  Peer <- PeerOf
  TimedCall = {c1}
  SerializedCall = {c1}
INVARIANTS
  TypeOK
  NoOrphan
  PendingIsUnsettled
  TimerHasEntry
  FulfilledWasProduced
PROPERTIES
  TimedCallsSettle
  ImplementsRemoteCall
