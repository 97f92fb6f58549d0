SPECIFICATION Spec
CONSTANTS
  w0 = w0
  w1 = w1
  w2 = w2
  web = web
  None = None
  Clients = {web}
  Wheels = {w1, w2}
  Origin = w0
  Reads <- MCReads
  Keep = 3
  KeepWheels = 1
  MaxRuns = 3
  MaxFailed = 1
  MaxSnaps = 0
  MaxStages = 1
  MaxWrites = 0
  Faults = {"live"}
INVARIANTS DefaultGoesBack
CHECK_DEADLOCK FALSE
