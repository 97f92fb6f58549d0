-------------------------------- MODULE Project --------------------------------
(***************************************************************************)
(* The birth of a project: its row, its bare repository (the SoT), seeded  *)
(* from a bundle or adopted by cloning, its two deployments and its        *)
(* mirror.  Row and repository are written one after the other, in the     *)
(* opposite order for the two births, by processes that may be cut.        *)
(***************************************************************************)
EXTENDS FiniteSets

CONSTANTS
  Creators,    \* processes that create or edit the project
  Upstreams,   \* what an adopted repository may hold: its branches
  Overlap,     \* the operations that may run beside one of the same kind
  Mixed        \* TRUE: a seeding and an adoption run at the same time

ProjectAssumption ==
  /\ Upstreams \subseteq SUBSET {"dev", "main", "master"}
  /\ Overlap \subseteq {"seed", "adopt", "mirror"} /\ Mixed \in BOOLEAN

VARIABLES
  row,       \* the row: how it was born, the mirror it names
  sot,       \* the directory, its branches, its HEAD, where its history comes from
  remote,    \* the mirror git knows
  deploys,   \* branches with a deployment row
  proc,      \* each process: where it is, what it does
  cut        \* some process was cut

vars == <<row, sot, remote, deploys, proc, cut>>

NoRow == [born |-> "not", mirror |-> FALSE]
NoSot == [there |-> FALSE, bare |-> FALSE, branches |-> {}, head |-> "master", root |-> "none"]
Idle  == [pc |-> "idle", op |-> "none", mirror |-> FALSE]

At(p, pc) == proc[p].pc = pc
To(p, pc) == proc' = [proc EXCEPT ![p].pc = pc]
Done(p) == proc' = [proc EXCEPT ![p] = Idle]
Busy == {p \in Creators : ~At(p, "idle")}
Admitted(op) == \A q \in Busy :
  \/ proc[q].op = op /\ op \in Overlap
  \/ Mixed /\ {proc[q].op, op} = {"seed", "adopt"}

\* The adoption writes its row first, as the seeding does.
PrecedesMutant(op) == TRUE

\* Whether the INSERT comes before the repository.
Precedes(op) == op # "adopt"

\* create_project: an adoption looks at the row before it clones.
Start(p, op, mirror) ==
  /\ At(p, "idle") /\ Admitted(op)
  /\ op = "adopt" => row = NoRow
  /\ op = "mirror" => row # NoRow
  /\ op = "adopt" => ~mirror
  /\ proc' = [proc EXCEPT ![p] = [pc |-> IF op = "mirror" THEN "set mirror"
                                         ELSE IF Precedes(op) THEN "insert" ELSE "clone",
                                  op |-> op, mirror |-> mirror]]
  /\ UNCHANGED <<row, sot, remote, deploys, cut>>

\* clone_sot: into a directory that holds nothing; git removes what it began on a failure.
BeginClone(p) ==
  /\ At(p, "clone")
  /\ IF sot.there
       THEN Done(p) /\ UNCHANGED sot
       ELSE sot' = [NoSot EXCEPT !.there = TRUE] /\ To(p, "cloning")
  /\ UNCHANGED <<row, remote, deploys, cut>>

EndClone(p) ==
  /\ At(p, "cloning")
  /\ \/ sot' = NoSot /\ Done(p)
     \/ \E held \in Upstreams :
          /\ sot' = [there |-> TRUE, bare |-> TRUE, branches |-> held, head |-> "master",
                     root |-> IF held = {} THEN "none" ELSE "upstream"]
          /\ To(p, "normalize")
  /\ UNCHANGED <<row, remote, deploys, cut>>

\* _normalize_forge_branches: what is missing is derived, one ref at a time.
Normalize(p) ==
  /\ At(p, "normalize")
  /\ IF sot.branches = {} THEN UNCHANGED sot /\ To(p, "seed base")
     ELSE IF "dev" \notin sot.branches THEN sot' = [sot EXCEPT !.branches = @ \cup {"dev"}] /\ UNCHANGED proc
     ELSE IF "main" \notin sot.branches THEN sot' = [sot EXCEPT !.branches = @ \cup {"main"}] /\ UNCHANGED proc
     ELSE UNCHANGED sot /\ To(p, "head")
  /\ UNCHANGED <<row, remote, deploys, cut>>

\* init_sot: a bare repository if it is none yet ...
InitSot(p) ==
  /\ At(p, "init")
  /\ sot' = [sot EXCEPT !.there = TRUE, !.bare = TRUE]
  /\ To(p, "seed base")
  /\ UNCHANGED <<row, remote, deploys, cut>>

\* ... _seed_base: dev, then main, unless there is a dev ...
SeedBase(p) ==
  /\ At(p, "seed base")
  /\ IF "dev" \in sot.branches
       THEN UNCHANGED sot /\ To(p, "head")
       ELSE sot' = [sot EXCEPT !.branches = @ \cup {"dev"}, !.root = "seed"] /\ To(p, "seed main")
  /\ UNCHANGED <<row, remote, deploys, cut>>

SeedMain(p) ==
  /\ At(p, "seed main")
  /\ sot' = [sot EXCEPT !.branches = @ \cup {"main"}] /\ To(p, "head")
  /\ UNCHANGED <<row, remote, deploys, cut>>

\* ... and HEAD on main.
PointHead(p) ==
  /\ At(p, "head")
  /\ sot' = [sot EXCEPT !.head = "main"]
  /\ To(p, IF ~Precedes(proc[p].op) THEN "insert" ELSE IF proc[p].mirror THEN "remote" ELSE "deployments")
  /\ UNCHANGED <<row, remote, deploys, cut>>

\* The row is unique: who loses the race undoes the clone it made.
Insert(p) ==
  /\ At(p, "insert")
  /\ IF row = NoRow
       THEN /\ row' = [born |-> proc[p].op, mirror |-> proc[p].mirror]
            /\ To(p, IF proc[p].op = "seed" THEN "init" ELSE IF Precedes(proc[p].op) THEN "clone"
                   ELSE "deployments")
            /\ UNCHANGED sot
       ELSE /\ UNCHANGED row /\ Done(p)
            /\ sot' = IF proc[p].op = "adopt" THEN NoSot ELSE sot
  /\ UNCHANGED <<remote, deploys, cut>>

EnsureDeployments(p) ==
  /\ At(p, "deployments")
  /\ deploys' = {"main", "dev"} /\ Done(p)
  /\ UNCHANGED <<row, sot, remote, cut>>

\* list_deployments makes them again for a row that has none.
ListDeployments ==
  /\ row # NoRow /\ deploys' = {"main", "dev"}
  /\ UNCHANGED <<row, sot, remote, proc, cut>>

\* set_mirror_remote: the row, then git.
SetMirror(p) ==
  /\ At(p, "set mirror")
  /\ row' = [row EXCEPT !.mirror = proc[p].mirror] /\ To(p, "remote")
  /\ UNCHANGED <<sot, remote, deploys, cut>>

SetRemote(p) ==
  /\ At(p, "remote")
  /\ remote' = IF sot.bare THEN proc[p].mirror ELSE remote
  /\ IF proc[p].op = "seed" THEN To(p, "deployments") ELSE Done(p)
  /\ UNCHANGED <<row, sot, deploys, cut>>

Cut(p) ==
  /\ ~At(p, "idle") /\ Done(p) /\ cut' = TRUE
  /\ UNCHANGED <<row, sot, remote, deploys>>

Init ==
  /\ row = NoRow /\ sot = NoSot /\ remote = FALSE /\ deploys = {}
  /\ proc = [p \in Creators |-> Idle] /\ cut = FALSE

Next ==
  \/ ListDeployments
  \/ \E p \in Creators :
       \/ \E op \in {"seed", "adopt", "mirror"}, mirror \in BOOLEAN : Start(p, op, mirror)
       \/ BeginClone(p) \/ EndClone(p) \/ Normalize(p) \/ InitSot(p) \/ SeedBase(p) \/ SeedMain(p)
       \/ PointHead(p) \/ Insert(p) \/ EnsureDeployments(p) \/ SetMirror(p) \/ SetRemote(p) \/ Cut(p)

Spec == Init /\ [][Next]_vars

-----------------------------------------------------------------------------
TypeOK ==
  /\ row.born \in {"not", "seed", "adopt"} /\ sot.branches \subseteq {"dev", "main", "master"}
  /\ sot.root \in {"none", "seed", "upstream"} /\ deploys \subseteq {"dev", "main"}

Forged == sot.bare /\ {"dev", "main"} \subseteq sot.branches /\ sot.head = "main"

\* An adopted project has the repository it was cloned from, whoever else
\* adopts and whatever is cut; a repository a row refers to never loses a
\* branch; without a cut a project at rest is whole, seeded ones too, and its
\* row and git name the same mirror (create_project, clone_sot, set_mirror_remote).
ProjectStep ==
  /\ TypeOK'
  /\ row'.born = "adopt" => Forged'
  /\ row # NoRow => row'.born = row.born /\ sot.branches \subseteq sot'.branches
  /\ Busy' = {} /\ row' # NoRow /\ ~cut' =>
       /\ Forged' /\ deploys' = {"main", "dev"} /\ remote' = row'.mirror
       /\ row'.born = "seed" => sot'.root = "seed"
=============================================================================
