\* What "signal end of data" promises: expected to be violated.
SPECIFICATION SafeSpec
CONSTANTS
  RingSize = 4
  PipeCapacity = 3
  MaxPackets = 3
  Partial = Partial
  p1 = p1
  p2 = p2
  Packet <- MCPacket
INVARIANTS
  DataBeforeEnd
