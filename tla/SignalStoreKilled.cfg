\* One wrapper is killed while its native process runs on.
CONSTANTS
  t1 = t1
  t2 = t2
  a = a
  b = b
  Terminals = {t1, t2}
  NoTerminal = none
  Members = {a}
  Own = own
  MaxCommands = 2
  MaxRows = 2
  MaxFaults = 2
  MaxKills = 1
SPECIFICATION Spec
SYMMETRY Symmetry
CHECK_DEADLOCK FALSE
INVARIANT
  NoKeyReuse
