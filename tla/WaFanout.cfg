SPECIFICATION Spec
CHECK_DEADLOCK FALSE
CONSTANTS
  d1 = d1  d2 = d2  g1 = g1  g2 = g2
  peer = peer  own = own  phone = phone  a1 = a1  a2 = a2
  Group = Group  Me = Me  NoSend = NoSend
  Sends = {d1, d2, g1, g2}
  Chat <- Chats
  Wanted <- Mixes
  Relayed = {d1, d2}
  Devices = {own, phone, a1}
  Owner <- Owners
  Own = own
  Linked = {own, a1}
  Big = {d2}
  MaxChanges = 2
  MaxFaults = 1
INVARIANTS
  EveryDeviceCanRead
  KeysUsedOnce
  OwnLineMeansAccepted
  RepliesFindTheirSends
