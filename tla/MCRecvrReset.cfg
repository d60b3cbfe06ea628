\* The sanity assertion on a header, when the connection is reset: expected to be violated.
SPECIFICATION SafeSpec
CONSTANTS
  RingSize = 3
  MaxPackets = 2
  Kinds <- MCKinds
  Transports <- MCSocket
  MayReset = TRUE
  MallocMayFail = FALSE
INVARIANTS
  HeaderSane
