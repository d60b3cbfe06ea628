\* Ring of 4 slots, 6 packets: 3 wait at most, the indexes wrap and go on.
SPECIFICATION Spec
CONSTANTS
  RingSize = 4
  PipeCapacity = 3
  MaxPackets = 6
  Partial = Partial
  p1 = p1
  p2 = p2
  Packet <- MCPacket
INVARIANTS
  TypeOK
  AssertsHold
  PipeNeverBlocks
  SlotStable
  RingContents
  JoinNeverBlocks
PROPERTIES
  EveryPacketHandled
  ChildEnds
  RefinesPacketQueue
