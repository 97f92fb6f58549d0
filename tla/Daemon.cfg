SPECIFICATION DaemonSpec
CONSTANTS
  Refreshers = {"poll", "cli"}
  Tours = {"poll"}
  Window = 1
  Keys = {"a", "b"}
  Foreign = {"x"}
  Overlap = FALSE
  MaxRounds = 2
  c1 = c1
  c2 = c2
  Conns = {c1, c2}
  Cap = 1
  MaxOut = 2
  MaxShells = 2
  None = None
  Kinds = {"project", "tool"}
  MaxCommits = 4
  MaxSyncs = 2
  Requests = {r1, r2}
  Features = {f1, f2}
  DeployBranches = {dev}
  WorktreeRange = {1, 2}
  DeployRange = {3, 4, 5}
  Outside = {3}
  MaxRaceRetry = 2
  MaxOps = 3
INVARIANTS AllowIsCumulative ShellIsHeld
PROPERTIES NewHeadHolds OffersAreHonest SessionLives SyncIsSound DeploymentsAreSound
CHECK_DEADLOCK FALSE
