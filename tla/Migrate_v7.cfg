SPECIFICATION Spec
CONSTANTS
  daemon = daemon
  cli = cli
  Openers = {daemon}
  Origins = {0, 1, 7, 14, 15, 18, 19, 21, 22}
  Current = 21
  MaxOpens = 3
INVARIANTS MigratedIsWhole
CHECK_DEADLOCK FALSE
