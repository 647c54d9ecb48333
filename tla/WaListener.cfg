CONSTANTS
  l1 = l1  l2 = l2  s1 = s1  p1 = p1  g1 = g1
  Processes = {l1, l2, s1, p1, g1}
  Command <- Commands
  Nobody = Nobody
  MaxFaults = 2
SPECIFICATION FairSpec
CHECK_DEADLOCK FALSE
INVARIANTS AtMostOnce ReportsAreHonest
PROPERTIES WaitsEnd
