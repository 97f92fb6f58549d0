SPECIFICATION FairSpec
CONSTANTS
  w0 = w0
  w1 = w1
  w2 = w2
  web = web
  None = None
  Clients = {web}
  Wheels = {w1, w2}
  Origin = w0
  Reads <- MCReads
  Keep = 2
  KeepWheels = 1
  MaxRuns = 3
  MaxFailed = 1
  MaxSnaps = 1
  MaxStages = 2
  MaxWrites = 1
  Faults = {"reboot", "register", "build", "probe", "snapshot", "swap", "verify", "copy", "maps", "live", "manual"}
INVARIANTS ServesWhenSettled VerdictIsTrue WayBack
PROPERTIES NothingIsLost ServiceReturns
CHECK_DEADLOCK FALSE
