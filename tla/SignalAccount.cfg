CONSTANTS
  p = p
  q = q
  Peers = {p, q}
  Archive <- MCArchive
  Nobody = Nobody
  Number <- MCNumber
  MaxLinks = 3
SPECIFICATION AccountSpec
CHECK_DEADLOCK FALSE
INVARIANTS TimersHonoured
PROPERTIES PairingRetains ImportIsWhole
