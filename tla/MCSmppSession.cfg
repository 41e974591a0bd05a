SPECIFICATION FairSpec
CONSTANTS
  Pdus <- MCPdus
  MaxInbox = 1
  MaxQueue = 2
  SeqMod = 2
  ElBase = 1
  KeepaliveOn = TRUE
  Throttling = TRUE
INVARIANTS
  TypeOK
  BoundAsGranted
  ClosedOnce
  DeliverToReceiver
  OneReader
  ResponsesInOrder
  KeepaliveArmed
  NoStaleTimeout
PROPERTIES
  RefinesLifecycle
  DisconnectHonoured
  PeerGoneDetected
  SilentPeerDropped
