SPECIFICATION TransportSpec
CHECK_DEADLOCK FALSE
CONSTANTS
  U8 = 4
  U4 = 2
  PackedMax = 3
  SingleByte <- MCSingle
  DoubleByte <- MCDouble
  Nodes <- MCNodes
  encode_node <- MCEncode
  decode_node <- MCDecode
  Arrives <- Normal
  Unread <- Unreadable
  LenRadix = 4
  Chunks = {1, 2}
  MaxSends = 2
INVARIANTS
  OutgoingReadable
PROPERTIES
  ImplementsChannel
