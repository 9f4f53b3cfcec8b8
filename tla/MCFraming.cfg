SPECIFICATION FairSpec
CONSTANTS
  HeaderSize = 2
  MAX_PACKET_SIZE = 4
  BUFFER_SIZE = 4
  RING_SIZE = 7
  Sizes = {1, 2, 3, 4, 5}
  MaxPackets = 4
CHECK_DEADLOCK FALSE
INVARIANTS
  TypeOK
  StreamIntact
  PacketsIntact
  ClosedForCause
PROPERTY AllParsed
