CONSTANTS
  t1 = t1
  t2 = t2
  f1 = f1
  d1 = d1
  d2 = d2
  c1 = c1
  x1 = x1
  Tasks = {t1}
  Features = {f1}
  FeatureOf <- MCFeatureOf
  DepsOf <- MCDepsOf
  Interactive = {}
  Runs = {d1, c1, x1}
  FixRuns = {x1}
  CliRuns = {c1}
  Faults = {"crash", "survive", "sigterm", "raise", "setup", "commit", "write"}
  MaxRuns = 2
  MaxAborts = 1
  Loop = {}
  None = None
SPECIFICATION Spec
CHECK_DEADLOCK FALSE
INVARIANTS TypeOK DoneHasWork DoneIsProved RunningHasKeeper
PROPERTIES FinalJobsAreFrozen BootSettles ReopenedByALateRun
