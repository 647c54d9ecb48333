SPECIFICATION Spec
CHECK_DEADLOCK FALSE
CONSTANTS
  peer = peer  group = group
  Peers = {peer}
  Groups = {group}
  MsgCount = 5
  Chat <- MCChat
  Form <- MCForm
  Tells = {4}
  Old = {1, 2, 3}
  MaxMigrates = 2
  MaxRefreshes = 1
  MaxFaults = 1
INVARIANTS
  NoMessageVanishes
  RowsFollowLines
  NeverSplitAgain
