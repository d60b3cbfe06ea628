\* A socket or a pipe with every fault, the peer may stop anywhere.
SPECIFICATION Spec
CONSTANTS
  RingSize = 2
  MaxPackets = 3
  Kinds <- MCKinds
  Transports <- MCTransports
  MayReset = TRUE
  MallocMayFail = TRUE
INVARIANTS
  TypeOK
  PushedFaithful
  Framing
  DeliveredIsPushed
  HeapOwned
  EofPushesAll
PROPERTIES
  PacketsArrive
  ReceiverEnds
