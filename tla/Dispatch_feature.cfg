CONSTANTS
  t1 = t1
  t2 = t2
  f1 = f1
  d1 = d1
  d2 = d2
  c1 = c1
  x1 = x1
  Tasks = {t1, t2}
  Features = {f1}
  FeatureOf <- MCFeatureOf
  DepsOf <- MCDepsOf
  Interactive = {}
  Runs = {d1, d2, x1}
  FixRuns = {x1}
  CliRuns = {}
  Faults = {"abort", "spawn"}
  MaxRuns = 2
  MaxAborts = 1
  Loop = {d1, d2, x1}
  None = None
SPECIFICATION FairSpec
CHECK_DEADLOCK FALSE
INVARIANTS InProgressIsHeld
PROPERTIES BoardSpec AbortReleases
