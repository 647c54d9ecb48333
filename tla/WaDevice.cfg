CONSTANTS
  Processes = {p1, p2}
  Nobody = Nobody
  MaxIds = 2
  MaxStarts = 3
  MaxMail = 1
  MaxFaults = 1
SPECIFICATION FairSpec
CHECK_DEADLOCK FALSE
INVARIANTS KeysKept LossesHaveACause PairingStands
 
