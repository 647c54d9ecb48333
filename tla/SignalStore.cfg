\* Two terminals, a group of two other members, two commands, two faults;
\* one wrapper may be killed.
CONSTANTS
  t1 = t1
  t2 = t2
  a = a
  b = b
  Terminals = {t1, t2}
  NoTerminal = none
  Members = {a, b}
  Own = own
  MaxCommands = 2
  MaxRows = 2
  MaxFaults = 2
  MaxKills = 1
SPECIFICATION Spec
SYMMETRY Symmetry
CHECK_DEADLOCK FALSE
INVARIANTS
  TypeOK
  KeysUsedOnce
  ConsumedRowsKept
  TranscriptMeansDelivered
PROPERTIES
  RatchetNeverRewinds
