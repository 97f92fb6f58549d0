------------------------------- MODULE Upgrade -------------------------------
(***************************************************************************)
(* The update cycle: a wheel is staged, a preflight accepts a gesture      *)
(* (apply or rollback), an applicator outside the service carries it out   *)
(* step by step - new venv, probe, stop, cold snapshot, swap of the link,  *)
(* restart, maps, live verification, automatic return - while the daemon   *)
(* serves, dispatches and may be asked for something else, and the machine *)
(* may reboot between any two steps.                                       *)
(*                                                                         *)
(* A venv is the number of the run that built it, 0 for the one pip        *)
(* installed; a base is its schema and the set of writes it contains; a    *)
(* snapshot is a numbered copy of the base.  Uncommitted work, the         *)
(* systemd unit, a dispatch in progress and the live shells only refuse or *)
(* inform at the preflight, and are left out; so is the flag that opens a  *)
(* base of an unknown schema.                                              *)
(***************************************************************************)
EXTENDS Naturals, FiniteSets, Sequences, FiniteSetsExt

CONSTANTS
  Clients,     \* those who ask for a gesture: the web interface, the CLI
  Wheels,      \* editions that may be staged
  Origin,      \* the edition pip installed
  Reads,       \* SCHEMA_VERSION of each edition
  Keep,        \* KEEP_SNAPSHOTS
  KeepWheels,  \* KEEP_WHEELS
  MaxRuns, MaxFailed, MaxSnaps, MaxStages, MaxWrites,   \* bounds on what may happen
  Faults,      \* subset of FaultKinds
  None

FaultKinds == {"reboot", "register", "build", "probe", "snapshot", "swap",
               "verify", "copy", "maps", "live", "manual"}

ASSUME UpgradeAssumption ==
  /\ Origin \notin Wheels
  /\ Reads \in [Wheels \cup {Origin} -> Nat \ {0}]
  /\ Keep \in Nat \ {0} /\ KeepWheels \in Nat
  /\ MaxRuns \in Nat /\ MaxFailed \in Nat /\ MaxSnaps \in Nat /\ MaxStages \in Nat /\ MaxWrites \in Nat
  /\ Faults \subseteq FaultKinds
  /\ None \notin Nat

VARIABLES
  link,        \* <home>/current: the venv the service is started from
  venvs,       \* the venvs on disk that hold a whole forgemaster
  db,          \* the base: its schema (0: no file) and its writes
  aside,       \* bases a restore moved aside
  snaps,       \* the complete snapshots: number -> base
  taken,       \* snapshots taken so far
  proc,        \* the venv the service runs, or None
  tools,       \* the edition's maps in tools/venv: the venv that posed them
  depots,      \* staged wheels: number -> edition
  staged,      \* wheels staged so far
  ask,         \* the accepted plan of each client, or None
  run,         \* <home>/updates: the runs, oldest first
  writes       \* writes made so far

disk == <<link, venvs, db, aside>>
shots == <<snaps, taken>>
area == <<depots, staged>>
life == <<proc, writes>>
vars == <<disk, shots, area, life, tools, ask, run>>

NoBase == [schema |-> 0, data |-> {}]
Runs   == 1..Len(run)
Edition(v) == IF v = 0 THEN Origin ELSE run[v].wheel

Ended(i)  == run[i].rc # None                    \* result.json is there
Active(i) == ~Ended(i) /\ run[i].pc \notin {"unborn", "cut"}

\* Bound: no more than MaxFailed runs go wrong, in as many places as they like.
Failed == {i \in Runs : run[i].rc \in {1, 2} \/ run[i].pc \in {"cut", "unborn"}
                       \/ run[i].home \/ run[i].maps = "left"}
MayFail(i, kind) == kind \in Faults /\ Cardinality(Failed \ {i}) < MaxFailed

(***************************************************************************)
(* The base and the service                                                *)
(***************************************************************************)
SchemaOf(v) == Reads[Edition(v)]
Opened(b, v) == [b EXCEPT !.schema = IF @ < SchemaOf(v) THEN SchemaOf(v) ELSE @]
Servable == proc # None /\ db.schema <= SchemaOf(proc)

StopService == proc' = None

\* A user's write, through the service.
Write == /\ Servable /\ writes < MaxWrites
         /\ writes' = writes + 1
         /\ db' = [db EXCEPT !.data = @ \cup {writes + 1}]
         /\ UNCHANGED <<link, venvs, aside, shots, area, proc, tools, ask, run>>

(***************************************************************************)
(* Snapshots                                                               *)
(***************************************************************************)
Newest(n, S) == {s \in S : Cardinality({t \in S : t > s}) < n}

\* create then purge: the new one, and the newest of the others.
Create == LET S == Newest(Keep, DOMAIN snaps \cup {taken + 1})
          IN  /\ taken' = taken + 1
              /\ snaps' = [s \in S |-> IF s = taken + 1 THEN db ELSE snaps[s]]

Manual == /\ "manual" \in Faults /\ taken < MaxSnaps /\ db # NoBase
          /\ Create
          /\ UNCHANGED <<disk, area, life, tools, ask, run>>

\* What the results say of a snapshot: the run that took it, the venv that ran
\* then, and whether a rollback took it for its own safety.
Takers(s)  == {i \in Runs : Ended(i) /\ run[i].told /\ run[i].snap = s}
\* Mutant of IsSafety: every snapshot is a way back.
IsSafetyMutant(s) == FALSE
IsSafety(s) == \E i \in Takers(s) : run[i].mode = "rollback"
NamedVenvs == {run[i].from : i \in {j \in Runs : Ended(j) /\ run[j].told}}

\* _venvs_candidats: the stamped ones, and those a run names.
Candidates == (venvs \ {0}) \cup (NamedVenvs \cap venvs)

\* _premier_du_schema: the paired venv if it reads exactly this schema, else the
\* most recent one that does.
VenvFor(s) == LET fit == {v \in Candidates : SchemaOf(v) = snaps[s].schema}
                  paired == {run[i].from : i \in Takers(s)} \cap fit
              IN  IF paired # {} THEN Max(paired)
                  ELSE IF fit # {} THEN Max(fit) ELSE None

\* _cible_utilisable
Usable(s) == /\ ~IsSafety(s)
             /\ VenvFor(s) \notin {None, link}
             /\ SchemaOf(VenvFor(s)) <= SchemaOf(link)

(***************************************************************************)
(* Staging                                                                 *)
(***************************************************************************)

\* wheels_in_use
InUse == {run[i].depot : i \in {j \in Runs : ~Ended(j)}}

\* prune_wheels: the newest, and those a run without a verdict names.
Kept(D) == Newest(KeepWheels, D) \cup (D \cap InUse)

Stage == /\ staged < MaxStages
         /\ staged' = staged + 1
         /\ \E w \in Wheels :
              depots' = [d \in Kept(DOMAIN depots \cup {staged + 1}) |->
                           IF d = staged + 1 THEN w ELSE depots[d]]
         /\ UNCHANGED <<disk, shots, life, tools, ask, run>>

(***************************************************************************)
(* Preflight and launch                                                    *)
(***************************************************************************)
\* survey_updates_in_flight: the newest run that lived decides.
UpdateInFlight == LET lived == {i \in Runs : ~Ended(i) /\ run[i].pc # "unborn"}
                  IN  lived # {} /\ run[Max(lived)].pc # "cut"

\* The daemon answers the web interface; the CLI is a process of its own.
PreflightApply(c) ==
  /\ ask[c] = None /\ ~UpdateInFlight
  /\ \E d \in DOMAIN depots :
       ask' = [ask EXCEPT ![c] = [mode |-> "apply", depot |-> d, wheel |-> depots[d],
                                  aim |-> 0, to |-> 0]]
  /\ UNCHANGED <<disk, shots, area, life, tools, run>>

PreflightRollback(c) ==
  /\ ask[c] = None /\ ~UpdateInFlight
  /\ \E s \in DOMAIN snaps :
       /\ Usable(s)
       /\ ask' = [ask EXCEPT ![c] = [mode |-> "rollback", depot |-> 0, wheel |-> Origin,
                                     aim |-> s, to |-> VenvFor(s)]]
  /\ UNCHANGED <<disk, shots, area, life, tools, run>>

\* spawn: the directory and run.json, then the unit, which systemd may refuse.
Spawn(c) ==
  /\ ask[c] # None /\ Len(run) < MaxRuns
  /\ ask' = [ask EXCEPT ![c] = None]
  /\ \E born \in {"begin"} \cup (IF MayFail(0, "register") THEN {"unborn"} ELSE {}) :
       run' = Append(run,
         [mode |-> ask[c].mode, depot |-> ask[c].depot, wheel |-> ask[c].wheel,
          aim |-> ask[c].aim, from |-> 0, snap |-> 0, pc |-> born, home |-> FALSE,
          to |-> IF ask[c].mode = "apply" THEN Len(run) + 1 ELSE ask[c].to,
          maps |-> "none", restored |-> TRUE, told |-> TRUE, rc |-> None,
          impact |-> "none", seen |-> {}])
  /\ UNCHANGED <<disk, shots, area, life, tools>>

\* POST /update/apply and /rollback, or the command: a preflight, then a launch.
Gesture(c) == PreflightApply(c) \/ PreflightRollback(c) \/ Spawn(c)

(***************************************************************************)
(* The applicator of run i: apply and rollback are the same steps          *)
(***************************************************************************)
At(i, pc) == run[i].pc = pc
Goto(i, pc) == run' = [run EXCEPT ![i].pc = pc]
Result(i, rc, impact) ==
  run' = [run EXCEPT ![i].pc = "done", ![i].rc = rc, ![i].impact = impact]

\* An exception nobody caught: main writes a verdict without any detail.
Lost(i) == run' = [run EXCEPT ![i].pc = "done", ![i].rc = 2, ![i].impact = "unknown",
                              ![i].told = FALSE]
\* systemctl start: the service of the link opens the base b.
Start(v, b) == proc' = v /\ db' = Opened(b, v)

\* [1/7] and [2/7]: a new venv, beside the one that serves.
Build(i) ==
  /\ At(i, "begin")
  /\ \/ /\ run[i].depot \in DOMAIN depots
        /\ venvs' = venvs \cup {i}
        /\ run' = [run EXCEPT ![i].pc = "probe", ![i].from = link, ![i].seen = db.data]
     \/ /\ MayFail(i, "build") \/ run[i].depot \notin DOMAIN depots
        /\ venvs' = venvs
        /\ run' = [run EXCEPT ![i].pc = "done", ![i].from = link, ![i].seen = db.data,
                              ![i].rc = 1]
  /\ UNCHANGED <<link, db, aside, shots, area, life, tools, ask>>

\* [1/6] of a rollback: would the safety snapshot purge its target?
Aim(i) ==
  /\ At(i, "begin")
  /\ LET later == {s \in DOMAIN snaps : s > run[i].aim}
         refused == Cardinality(later) >= Keep - 1
     IN  run' = [run EXCEPT ![i].from = link, ![i].seen = db.data,
                            ![i].pc = IF refused THEN "done" ELSE "probe",
                            ![i].rc = IF refused THEN 1 ELSE None]
  /\ UNCHANGED <<disk, shots, area, life, tools, ask>>

\* The version is proved in isolation before anything moves.
Probe(i) ==
  /\ At(i, "probe")
  /\ Goto(i, "stop") \/ (MayFail(i, "probe") /\ Result(i, 1, "none"))
  /\ UNCHANGED <<disk, shots, area, life, tools, ask>>

Stop(i) == /\ At(i, "stop")
           /\ StopService /\ Goto(i, "snapshot")
           /\ UNCHANGED <<disk, shots, area, writes, tools, ask>>

\* Mutant of TakeSnapshot: a failure leaves the service stopped.
TakeSnapshotMutant(i) ==
  /\ At(i, "snapshot")
  /\ \/ Create /\ run' = [run EXCEPT ![i].pc = "swap", ![i].snap = taken + 1]
     \/ MayFail(i, "snapshot") /\ Result(i, 1, "none") /\ UNCHANGED shots
  /\ UNCHANGED <<disk, proc, area, writes, tools, ask>>

\* The old forgemaster takes the snapshot, service stopped.
TakeSnapshot(i) ==
  /\ At(i, "snapshot")
  /\ \/ /\ Create
        /\ run' = [run EXCEPT ![i].pc = "swap", ![i].snap = taken + 1]
        /\ UNCHANGED <<proc, db>>
     \/ /\ MayFail(i, "snapshot")
        /\ Start(link, db) /\ Result(i, 1, "none")
        /\ UNCHANGED shots
  /\ UNCHANGED <<link, venvs, aside, area, writes, tools, ask>>

\* apply: the link, then the service.
SwapForward(i) ==
  /\ At(i, "swap")
  /\ \/ link' = i /\ Start(i, db) /\ Goto(i, "maps")
     \/ MayFail(i, "swap") /\ Lost(i) /\ UNCHANGED <<link, proc, db>>
  /\ UNCHANGED <<venvs, aside, shots, area, writes, tools, ask>>

\* rollback: the target again, then the link first, the data next.
SwapBack(i) ==
  /\ At(i, "swap")
  /\ \/ /\ run[i].aim \in DOMAIN snaps
        /\ link' = run[i].to /\ Goto(i, "aside")
        /\ UNCHANGED <<proc, db>>
     \/ /\ run[i].aim \notin DOMAIN snaps \/ MayFail(i, "swap")
        /\ Start(link, db) /\ Result(i, 1, "none")
        /\ UNCHANGED link
  /\ UNCHANGED <<venvs, aside, shots, area, writes, tools, ask>>

(***************************************************************************)
(* restore.py: what is replaced moves aside, then the snapshot is copied   *)
(***************************************************************************)
\* Mutant of Source: the way home of a rollback uses its target again.
SourceMutant(i) == IF run[i].mode = "rollback" THEN run[i].aim ELSE run[i].snap
Source(i) == IF run[i].mode = "rollback" /\ ~run[i].home THEN run[i].aim ELSE run[i].snap

\* verify and check_compatibility
Restorable(i) == /\ Source(i) \in DOMAIN snaps
                 /\ snaps[Source(i)].schema <= SchemaOf(link)

\* Mutant of MoveAside: what is replaced is deleted.
MoveAsideMutant(i) ==
  /\ At(i, "aside") /\ Restorable(i)
  /\ db' = NoBase /\ Goto(i, "copy")
  /\ UNCHANGED <<link, venvs, aside, shots, area, life, tools, ask>>

MoveAside(i) ==
  /\ At(i, "aside") /\ Restorable(i)
  /\ aside' = aside \cup ({db} \ {NoBase}) /\ db' = NoBase
  /\ Goto(i, "copy")
  /\ UNCHANGED <<link, venvs, shots, area, life, tools, ask>>

CopyBack(i) ==
  /\ At(i, "copy") /\ Source(i) \in DOMAIN snaps
  /\ Start(link, snaps[Source(i)])
  /\ Goto(i, IF run[i].home THEN "remaps" ELSE "maps")
  /\ UNCHANGED <<link, venvs, aside, shots, area, writes, tools, ask>>

\* Mutant of RestoreFails: the link stays on the old binary.
RestoreFailsMutant(i) ==
  /\ \/ At(i, "aside") /\ (~Restorable(i) \/ MayFail(i, "verify"))
     \/ At(i, "copy") /\ (Source(i) \notin DOMAIN snaps \/ MayFail(i, "copy"))
  /\ Start(link, db) /\ Result(i, 2, "forward")
  /\ UNCHANGED <<link, venvs, aside, shots, area, writes, tools, ask>>

\* The other half is missing: the link goes where the base can be read.
RestoreFails(i) ==
  /\ \/ At(i, "aside") /\ (~Restorable(i) \/ MayFail(i, "verify"))
     \/ At(i, "copy") /\ (Source(i) \notin DOMAIN snaps \/ MayFail(i, "copy"))
  /\ \/ /\ run[i].mode = "apply"
        /\ link' = i /\ Start(i, db) /\ Result(i, 2, "forward")
     \/ /\ run[i].mode = "rollback" /\ ~run[i].home
        /\ link' = run[i].from /\ Start(run[i].from, db) /\ Result(i, 1, "asBefore")
     \/ /\ run[i].mode = "rollback" /\ run[i].home
        /\ link' = link /\ Start(link, db)
        /\ run' = [run EXCEPT ![i].pc = "remaps", ![i].restored = FALSE]
  /\ UNCHANGED <<venvs, aside, shots, area, writes, tools, ask>>

(***************************************************************************)
(* After the restart: the maps, then the verdict                           *)
(***************************************************************************)
\* repose_maps never blocks; an edition may not know how.
Maps(i) ==
  /\ At(i, "maps") \/ At(i, "remaps")
  /\ LET next == IF At(i, "maps") THEN "verify" ELSE "health"
     IN \/ /\ tools' = link
           /\ run' = [run EXCEPT ![i].pc = next, ![i].maps = "posed"]
        \/ /\ MayFail(i, "maps") /\ UNCHANGED tools
           /\ run' = [run EXCEPT ![i].pc = next, ![i].maps = "left"]
  /\ UNCHANGED <<disk, shots, area, life, ask>>

\* _verify_live: the service answers, with the version it should run.
Live(i) == Servable /\ proc = run[i].to

\* It says yes: an apply purges what a rollback cannot reach.
Accept(i) ==
  /\ At(i, "verify") /\ Live(i)
  /\ venvs' = IF run[i].mode = "apply" THEN venvs \cap {0, i, run[i].from} ELSE venvs
  /\ Result(i, 0, "done")
  /\ UNCHANGED <<link, db, aside, shots, area, life, tools, ask>>

\* It says no: stop, and the link goes back first.
Undo(i) ==
  /\ At(i, "verify") /\ (~Live(i) \/ MayFail(i, "live"))
  /\ StopService
  /\ \/ /\ link' = run[i].from
        /\ run' = [run EXCEPT ![i].pc = "aside", ![i].home = TRUE]
     \/ MayFail(i, "swap") /\ Lost(i) /\ UNCHANGED link
  /\ UNCHANGED <<venvs, db, aside, shots, area, writes, tools, ask>>

\* _wait_health after the way back.
Health(i) ==
  /\ At(i, "health")
  /\ \E rc \in (IF run[i].restored /\ Servable THEN {1} ELSE {})
               \cup (IF ~run[i].restored \/ ~Servable \/ MayFail(i, "live") THEN {2} ELSE {}) :
       Result(i, rc, IF run[i].restored THEN "undone" ELSE "dataLost")
  /\ UNCHANGED <<disk, shots, area, life, tools, ask>>

Shared(i) == \/ Probe(i) \/ Stop(i) \/ TakeSnapshot(i) \/ MoveAside(i) \/ CopyBack(i)
             \/ RestoreFails(i) \/ Maps(i) \/ Accept(i) \/ Undo(i) \/ Health(i)
Apply(i)    == run[i].mode = "apply" /\ (Build(i) \/ SwapForward(i) \/ Shared(i))
Rollback(i) == run[i].mode = "rollback" /\ (Aim(i) \/ SwapBack(i) \/ Shared(i))
Applicator(i) == i \in Runs /\ (Apply(i) \/ Rollback(i))

\* The machine restarts: applicators die, the unit of the link comes up.
Reboot ==
  /\ \E i \in Runs : Active(i) /\ MayFail(i, "reboot")
  /\ run' = [i \in Runs |-> IF Active(i) THEN [run[i] EXCEPT !.pc = "cut"] ELSE run[i]]
  /\ ask' = [c \in Clients |-> None]
  /\ proc' = link /\ db' = Opened(db, link)
  /\ UNCHANGED <<link, venvs, aside, shots, area, writes, tools>>

Init ==
  /\ link = 0 /\ venvs = {0} /\ proc = 0 /\ tools = 0
  /\ db = [schema |-> Reads[Origin], data |-> {}] /\ aside = {}
  /\ snaps = [s \in {} |-> NoBase] /\ taken = 0
  /\ depots = [d \in {} |-> Origin] /\ staged = 0
  /\ ask = [c \in Clients |-> None] /\ run = <<>> /\ writes = 0

Next ==
  \/ Write \/ Manual \/ Stage \/ Reboot
  \/ \E c \in Clients : Gesture(c)
  \/ \E i \in 1..MaxRuns : Applicator(i)

Spec == Init /\ [][Next]_vars

\* The applicator is a process: it goes on as long as it is not killed.
FairSpec == Spec /\ \A i \in 1..MaxRuns : WF_vars(Applicator(i))

(***************************************************************************)
(* Properties                                                              *)
(***************************************************************************)
Base == [schema : {0} \cup {Reads[e] : e \in Wheels \cup {Origin}}, data : SUBSET (1..MaxWrites)]
Pcs == {"unborn", "begin", "probe", "stop", "snapshot", "swap", "aside", "copy", "maps",
        "verify", "remaps", "health", "cut", "done"}
Impacts == {"none", "unknown", "forward", "asBefore", "done", "undone", "dataLost"}

\* The shape of the disk, of the journals and of what is pending.
TypeOK ==
  /\ link \in venvs /\ proc \in venvs \cup {None} /\ venvs \subseteq 0..Len(run)
  /\ tools \in 0..Len(run)
  /\ db \in Base /\ aside \subseteq Base
  /\ DOMAIN snaps \subseteq 1..taken /\ \A s \in DOMAIN snaps : snaps[s] \in Base
  /\ Cardinality(DOMAIN snaps) <= Keep
  /\ DOMAIN depots \subseteq 1..staged /\ \A d \in DOMAIN depots : depots[d] \in Wheels
  /\ writes \in 0..MaxWrites
  /\ Len(run) <= MaxRuns
  /\ \A i \in Runs : /\ run[i].pc \in Pcs /\ run[i].impact \in Impacts
                     /\ run[i].rc \in {None, 0, 1, 2} /\ (Ended(i) <=> run[i].pc = "done")
                     /\ run[i].from \in 0..(i - 1) /\ run[i].snap \in 0..taken

\* A wheel that reads less than the version it replaces.
Downgrade(i) == run[i].mode = "apply" /\ SchemaOf(i) < SchemaOf(run[i].from)

Settled == \A i \in Runs : ~Active(i)
\* No run was cut by a reboot, none ended on an exception, none had to keep an
\* older edition on data it could not put back.
Clean == \A i \in Runs : /\ run[i].pc # "cut" /\ run[i].told
                         /\ ~(run[i].impact = "forward" /\ Downgrade(i))

\* Whatever fails and wherever the machine stops, no write is destroyed: it is
\* in the base or in a base moved aside (restore never deletes what it replaces);
\* the retention keeps to its bound, and does not purge the wheel a run without a
\* verdict names.
NothingIsLost ==
  [][ /\ TypeOK'
      /\ (1..writes \subseteq db.data \cup UNION {b.data : b \in aside})'
      /\ \A i \in Runs : ~Ended(i) /\ run[i].depot \in DOMAIN depots /\ run'[i].rc = None
           => run[i].depot \in DOMAIN depots' ]_vars

\* Once every gesture has its verdict, the service runs the venv of the link and
\* reads the base: never an old binary on new data; and the host tooling is of
\* that edition unless a verdict said it was left.
ServesWhenSettled ==
  Settled /\ Clean =>
    /\ proc = link /\ Servable
    /\ (\A i \in Runs : run[i].maps # "left") => tools = link

\* What the last verdict says is what the disk shows: nothing touched, undone,
\* applied or back at the snapshot, with the data that goes with it.
VerdictIsTrue ==
  LET n == Len(run) IN
  n > 0 /\ Ended(n) =>
    /\ run[n].impact \in {"none", "undone"} =>
         link = run[n].from /\ run[n].seen \subseteq db.data
    /\ run[n].impact = "done" => link = run[n].to
    /\ run[n].impact = "done" /\ run[n].mode = "apply" => run[n].seen \subseteq db.data
    /\ run[n].impact = "done" /\ run[n].mode = "rollback" /\ run[n].aim \in DOMAIN snaps =>
         snaps[run[n].aim].data \subseteq db.data

\* The way back exists and is not retraced: after an apply that succeeded a
\* rollback may be aimed at the snapshot of that run, and goes to the venv that
\* ran before it; and while every gesture succeeds a rollback replayed after a
\* rollback does not return, by a snapshot some verdict names, to the version
\* the first one left.
WayBack ==
  LET n == Len(run) IN
  /\ n > 0 /\ Ended(n) /\ Clean /\ run[n].rc = 0 /\ run[n].mode = "apply"
       /\ run[n].snap \in DOMAIN snaps
       => Usable(run[n].snap) /\ VenvFor(run[n].snap) = run[n].from /\ run[n].from \in venvs
  /\ \A i \in Runs \ {1} :
       /\ run[i].mode = "rollback" /\ run[i].pc = "aside" /\ ~run[i].home
       /\ Takers(run[i].aim) # {}
       /\ run[i - 1].mode = "rollback" /\ \A j \in 1..(i - 1) : run[j].rc = 0
       => run[i].to # run[i - 1].from

\* A rollback without a named snapshot takes the newest usable one, and leaves for
\* a version installed before the one that serves.
DefaultGoesBack ==
  \A c \in Clients :
    /\ ask[c] # None /\ ask[c].mode = "rollback"
    /\ Takers(ask[c].aim) # {} /\ Usable(ask[c].aim)
    /\ ask[c].aim = Max({s \in DOMAIN snaps : Usable(s)})
    => ask[c].to < link

\* A service the update stopped comes back, unless a verdict was lost.
ServiceReturns == proc = None ~> (proc # None \/ ~Clean)
=============================================================================
