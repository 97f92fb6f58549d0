SPECIFICATION StoreSpec
CONSTANTS
  None = None
  p = p
  q = q
  Requests = {p, q}
  MaxFixPasses = 2
  MaxContents = 3
  Faults = {"crash", "fail"}
  Features = {"fa"}
  MergeTasks = {"ta", "tb"}
  FeatureOf <- MCFeatureOf
  Mergers = {"m"}
  MaxTries = 2
  MergeFaults = {"redrain", "fail", "crash", "override"}
  Openers = {"daemon", "cli"}
  Origins = {0, 1, 7, 14, 15, 18, 19, 21, 22}
  Current = 21
  MaxOpens = 3
  Slugs = {"f", "g"}
  TaskSlugs <- MCTaskSlugs
  Decided = {"merged", "done", "active"}
  Commands = {"cli"}
  MaxStored = 3
  Creators = {"route", "cli"}
  Upstreams = {{"dev", "main"}, {"master"}, {}}
  Reseeders = {"a", "b"}
  MaxWrites = 3
  Maps = {"code"}
  Others = {"node"}
  Installers = {"command", "update"}
  Updates = {"update"}
  LastEdition = 2
  Trees <- MCTrees
  Runners = {"loop", "route"}
  Loops = {"loop"}
  MaxCommits = 2
  MaxRuns = 2
INVARIANTS PassesAreBounded GreenIsReviewed LandedIsCleared TiersAreEarned
PROPERTIES MigrationIsSafe RoadmapIsSound WiringHolds ProjectIsSound ScaffoldIsLaid ToolsAreHonest
SYMMETRY MCSymmetry
CHECK_DEADLOCK FALSE
