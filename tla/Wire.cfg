\* Two writers, three packets of two sizes around the limit, room for less than one.
SPECIFICATION Spec
CONSTANTS
  Writers = {w1, w2}
  Sizes = {1, 3, 4}
  MaxSize = 3
  Room = 5
  MaxPackets = 3
  NoPacket = NoPacket
INVARIANTS
  WireTypeOK
  StopsAtEndOnly
PROPERTIES
  ChannelSpec
  SentIsHandled
CHECK_DEADLOCK FALSE
