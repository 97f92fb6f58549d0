-------------------------------- MODULE Store --------------------------------
(***************************************************************************)
(* Nine machines that share no state: a behaviour belongs to one of them   *)
(* and the variables of the others are empty, so that one run checks them  *)
(* all and the state spaces add up instead of multiplying.                 *)
(***************************************************************************)
EXTENDS Refix

CONSTANTS
  Features, MergeTasks, FeatureOf, Mergers, MaxTries, MergeFaults,  \* Merge
  Openers, Origins, Current, MaxOpens,                              \* Migration
  Slugs, TaskSlugs, Decided,                                        \* Roadmap
  Commands, MaxStored,                                              \* Wiring
  Creators, Upstreams,                                              \* Project
  Reseeders, MaxWrites,                                             \* Overlay
  Maps, Others, Installers, Updates, LastEdition,                   \* Tools
  Trees, Runners, Loops, MaxCommits, MaxRuns                        \* Tiers

VARIABLES
  part,
  dev, main, branch, mwt, task, feature, work, tries, verdict, reviewing, drain, mpc, mof, mhead, outcomes, cleared,
  base, opener, opens, migrated, narrowed,
  rfeature, rtask, bare,
  key, blob, env, live, cred, server, wproc, stored, wired, stale,
  row, sot, remote, deploys, pproc, pcut,
  tip, owt, bundle, oproc, writes, laid, raced, ocut,
  edition, dist, has, link, tproc, ran, tcut,
  thead, twt, native, render, preview, rproc, lost, runs

merge     == <<dev, main, branch, mwt, task, feature, work, tries, verdict, reviewing, drain, mpc, mof, mhead, outcomes, cleared>>
migration == <<base, opener, opens, migrated, narrowed>>
roadmap   == <<rfeature, rtask, bare>>
wiring    == <<key, blob, env, live, cred, server, wproc, stored, wired, stale>>
project   == <<row, sot, remote, deploys, pproc, pcut>>
overlay   == <<tip, owt, bundle, oproc, writes, laid, raced, ocut>>
tools     == <<edition, dist, has, link, tproc, ran, tcut>>
tiers     == <<thead, twt, native, render, preview, rproc, lost, runs>>
all == <<part, vars, merge, migration, roadmap, wiring, project, overlay, tools, tiers>>

Me == INSTANCE Merge WITH Tasks <- MergeTasks, wt <- mwt, head <- mhead, Faults <- MergeFaults, Overlap <- FALSE
Mg == INSTANCE Migration
Ro == INSTANCE Roadmap WITH TasksOf <- TaskSlugs, feature <- rfeature, task <- rtask
Wi == INSTANCE Wiring WITH proc <- wproc, Shells <- Commands, Overlap <- FALSE
Pr == INSTANCE Project WITH proc <- pproc, cut <- pcut, Overlap <- {"seed", "adopt"}, Mixed <- FALSE
Ov == INSTANCE Overlay WITH wt <- owt, proc <- oproc, cut <- ocut, Shells <- Reseeders
To == INSTANCE Tools WITH proc <- tproc, cut <- tcut
Ti == INSTANCE Tiers WITH head <- thead, wt <- twt, proc <- rproc

ASSUME StoreAssumption ==
  /\ Me!MergeAssumption /\ Me!NoneAssumption /\ Mg!MigrationAssumption /\ Ro!RoadmapAssumption /\ Wi!WiringAssumption /\ Pr!ProjectAssumption
  /\ Ov!OverlayAssumption /\ To!ToolsAssumption /\ Ti!TiersAssumption

StoreInit ==
  /\ part \in {"refix", "merge", "migration", "roadmap", "wiring", "project", "overlay", "tools", "tiers"}
  /\ Init /\ (part # "refix" => sound = {} /\ clean = {})
  /\ IF part = "merge" THEN Me!Init
     ELSE /\ dev = {} /\ main = {} /\ branch = {} /\ mwt = {} /\ task = {} /\ feature = {}
          /\ work = {} /\ tries = {} /\ verdict = {} /\ reviewing = {} /\ drain = {}
          /\ mpc = {} /\ mof = {} /\ mhead = {} /\ outcomes = {} /\ cleared = {}
  /\ IF part = "migration" THEN Mg!Init
     ELSE base = {} /\ opener = {} /\ opens = {} /\ migrated = {} /\ narrowed = {}
  /\ IF part = "roadmap" THEN Ro!Init
     ELSE rfeature = {} /\ rtask = {} /\ bare = {}
  /\ IF part = "wiring" THEN Wi!Init
     ELSE /\ key = {} /\ blob = {} /\ env = {} /\ live = {} /\ cred = {} /\ server = {}
          /\ wproc = {} /\ stored = {} /\ wired = {} /\ stale = {}
  /\ IF part = "project" THEN Pr!Init
     ELSE row = {} /\ sot = {} /\ remote = {} /\ deploys = {} /\ pproc = {} /\ pcut = {}
  /\ IF part = "overlay" THEN Ov!Init
     ELSE /\ tip = {} /\ owt = {} /\ bundle = {} /\ oproc = {} /\ writes = {} /\ laid = {}
          /\ raced = {} /\ ocut = {}
  /\ IF part = "tools" THEN To!Init
     ELSE edition = {} /\ dist = {} /\ has = {} /\ link = {} /\ tproc = {} /\ ran = {} /\ tcut = {}
  /\ IF part = "tiers" THEN Ti!Init
     ELSE /\ thead = {} /\ twt = {} /\ native = {} /\ render = {} /\ preview = {}
          /\ rproc = {} /\ lost = {} /\ runs = {}

StoreNext ==
  /\ UNCHANGED part
  /\ \/ part = "refix" /\ Next /\ UNCHANGED <<merge, migration, roadmap, wiring, project, overlay, tools, tiers>>
     \/ part = "merge" /\ Me!Next /\ UNCHANGED <<vars, migration, roadmap, wiring, project, overlay, tools, tiers>>
     \/ part = "migration" /\ Mg!Next /\ UNCHANGED <<vars, merge, roadmap, wiring, project, overlay, tools, tiers>>
     \/ part = "roadmap" /\ Ro!Next /\ UNCHANGED <<vars, merge, migration, wiring, project, overlay, tools, tiers>>
     \/ part = "wiring" /\ Wi!Next /\ UNCHANGED <<vars, merge, migration, roadmap, project, overlay, tools, tiers>>
     \/ part = "project" /\ Pr!Next /\ UNCHANGED <<vars, merge, migration, roadmap, wiring, overlay, tools, tiers>>
     \/ part = "overlay" /\ Ov!Next /\ UNCHANGED <<vars, merge, migration, roadmap, wiring, project, tools, tiers>>
     \/ part = "tools" /\ To!Next /\ UNCHANGED <<vars, merge, migration, roadmap, wiring, project, overlay, tiers>>
     \/ part = "tiers" /\ Ti!Next /\ UNCHANGED <<vars, merge, migration, roadmap, wiring, project, overlay, tools>>

StoreSpec == StoreInit /\ [][StoreNext]_all

-----------------------------------------------------------------------------
\* Merge, with redrains: what reaches dev was reviewed or overridden.
LandedIsCleared == part = "merge" => Me!LandedIsCleared
\* Migration: whatever is found and cut, a settled base is of this version.
MigrationIsSafe == [][part = "migration" => Mg!MigrationStep]_all
\* Roadmap: an operational roadmap drains; an edit closes no cycle.
RoadmapIsSound == [][part = "roadmap" => Ro!RoadmapStep]_all
\* Wiring: what was stored opens, the token is the one the server accepts.
WiringHolds == [][part = "wiring" => Wi!WiringStep]_all
\* Project: a row has its repository, at rest the whole project.
ProjectIsSound == [][part = "project" => Pr!ProjectStep]_all
\* Overlay: a scaffold laid loses nothing and stays.
ScaffoldIsLaid == [][part = "overlay" => Ov!OverlayStep]_all
\* Tools: no false green, and what resolved still does.
ToolsAreHonest == [][part = "tools" => To!ToolsStep]_all
\* Tiers: the gate is let through by what the head holds.
TiersAreEarned == part = "tiers" => Ti!TiersAreEarned
=============================================================================
