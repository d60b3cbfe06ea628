\* The handshake and two calls, with every fault.
SPECIFICATION Spec
CONSTANTS
  MaxCalls = 3
  SockSize = 1
  RingRoom <- MCRingRoom
  MayDie = {"client", "server"}
  MayReset = TRUE
  MayTimeOut = TRUE
INVARIANTS
  TypeOK
  ReplyNeverBlocks
  NoReadAfterFailedWrite
PROPERTIES
  RefinesRemoteCalls
  QueryAnswered
  ServerEnds
