------------------------------- MODULE Roadmap -------------------------------
(***************************************************************************)
(* The roadmap of a project: features that depend on features, tasks that  *)
(* depend on tasks of their feature, the lenient way in (add), the         *)
(* validated one (set_deps), the drain that follows the dependencies, and  *)
(* the check that calls the roadmap operational.                           *)
(***************************************************************************)
EXTENDS FiniteSets

CONSTANTS
  Slugs,     \* features
  TasksOf,   \* feature -> its possible tasks
  Decided    \* statuses that are a state whatever the dependencies

Tasks == UNION {TasksOf[f] : f \in Slugs}

RoadmapAssumption ==
  /\ IsFiniteSet(Slugs) /\ \A f \in Slugs : IsFiniteSet(TasksOf[f])
  /\ \A f, g \in Slugs : f # g => TasksOf[f] \cap TasksOf[g] = {}
  /\ Decided \in {{"merged", "done"}, {"merged", "done", "active"}}

VARIABLES
  feature,   \* slug -> row
  task,      \* slug -> row
  bare       \* something was added without a facet or an acceptance

vars == <<feature, task, bare>>

NoRow == [status |-> "absent", deps |-> {}]
Rows(index) == {n \in DOMAIN index : index[n].status # "absent"}

(***************************************************************************)
(* The resolver: one index per feature, one for the features               *)
(***************************************************************************)
\* A row is on a cycle when every set closed under its dependencies that
\* holds them holds it.
Above(index, n) == index[n].deps \cap Rows(index)
Cyclic(index) ==
  {n \in Rows(index) : \A S \in SUBSET Rows(index) :
     Above(index, n) \subseteq S /\ (\A m \in S : Above(index, m) \subseteq S) => n \in S}

\* taskmap: a finished row, and maybe one at work, is that before anything else.
State(index, done, n) ==
  IF index[n].status \in Decided THEN index[n].status
  ELSE IF ~ index[n].deps \subseteq Rows(index) THEN "ERROR"
  ELSE IF n \in Cyclic(index) THEN "CYCLE"
  ELSE IF \A d \in index[n].deps : index[d].status = done THEN "READY"
  ELSE "BLOCKED_DEPS"

Index(f) == [t \in TasksOf[f] |-> task[t]]
classify(index) == [t \in Rows(index) |-> State(index, "done", t)]
classify_features(index) == [f \in Rows(index) |-> State(index, "merged", f)]

resolve_next(f) == {t \in Rows(Index(f)) : classify(Index(f))[t] = "READY"}

\* _discoverable_features: what a drain may work on.
Discoverable ==
  {f \in Rows(feature) : /\ classify_features(feature)[f] \notin {"merged", "BLOCKED_DEPS", "ERROR", "CYCLE"}
                         /\ resolve_next(f) # {}}
\* _worked_complete_features: what it may merge.
Worked == {f \in Rows(feature) : /\ feature[f].status # "merged" /\ Rows(Index(f)) # {}
                                 /\ \A t \in Rows(Index(f)) : task[t].status = "done"}

check_roadmap ==
  LET Bad(states) == {states[n] : n \in DOMAIN states} \cap {"ERROR", "CYCLE"}
  IN (IF Rows(feature) = {} \/ \E f \in Rows(feature) : Rows(Index(f)) = {} THEN {"EMPTY"} ELSE {})
     \cup (IF bare THEN {"MISSING"} ELSE {})
     \cup (UNION {Bad(classify(Index(f))) : f \in Rows(feature)})
     \cup Bad(classify_features(feature))

(***************************************************************************)
(* The store: each operation is one transaction                            *)
(***************************************************************************)
\* add_feature looks at no dependency: a roadmap is written in any order.
AddFeature(f) ==
  /\ f \notin Rows(feature)
  /\ \E deps \in SUBSET Slugs :
       feature' = [feature EXCEPT ![f] = [status |-> "planned", deps |-> deps]]
  /\ bare' \in {bare, TRUE}
  /\ UNCHANGED task

AddTask(f, t) ==
  /\ f \in Rows(feature) /\ t \in TasksOf[f] \ Rows(task)
  /\ \E deps \in SUBSET TasksOf[f] :
       task' = [task EXCEPT ![t] = [status |-> "todo", deps |-> deps]]
  /\ bare' \in {bare, TRUE}
  /\ UNCHANGED feature

\* What is written is classified before it is committed; the state of the
\* edited row alone decides.
AcceptedMutant(state) == state # "ERROR"
Accepted(state) == state \notin {"ERROR", "CYCLE"}

SetFeatureDeps(f) ==
  /\ f \in Rows(feature)
  /\ \E deps \in SUBSET Slugs :
       LET written == [feature EXCEPT ![f].deps = deps]
       IN Accepted(classify_features(written)[f]) /\ feature' = written
  /\ UNCHANGED <<task, bare>>

SetTaskDeps(f, t) ==
  /\ t \in Rows(Index(f))
  /\ \E deps \in SUBSET TasksOf[f] :
       LET written == [task EXCEPT ![t].deps = deps]
       IN Accepted(classify([u \in TasksOf[f] |-> written[u]])[t]) /\ task' = written
  /\ UNCHANGED <<feature, bare>>

\* A drain does a ready task of a discoverable feature, which reserve makes
\* active, and merges the worked ones.
Work(f, t) ==
  /\ f \in Discoverable /\ t \in resolve_next(f)
  /\ task' = [task EXCEPT ![t].status = "done"]
  /\ feature' = [feature EXCEPT ![f].status = "active"]
  /\ UNCHANGED bare

Merge(f) ==
  /\ f \in Worked
  /\ feature' = [feature EXCEPT ![f].status = "merged"]
  /\ UNCHANGED <<task, bare>>

Init == feature = [f \in Slugs |-> NoRow] /\ task = [t \in Tasks |-> NoRow] /\ bare = FALSE

Next == \E f \in Slugs :
  \/ AddFeature(f) \/ SetFeatureDeps(f) \/ Merge(f)
  \/ \E t \in TasksOf[f] : AddTask(f, t) \/ SetTaskDeps(f, t) \/ Work(f, t)

Spec == Init /\ [][Next]_vars

-----------------------------------------------------------------------------
TypeOK ==
  /\ feature \in [Slugs -> [status : {"absent", "planned", "active", "merged"}, deps : SUBSET Slugs]]
  /\ task \in [Tasks -> [status : {"absent", "todo", "done"}, deps : SUBSET Tasks]]
  /\ bare \in BOOLEAN

\* A roadmap the check has nothing to say about leaves a drain something to
\* do until every feature is merged (check_roadmap: an empty list means it drains).
OperationalDrains ==
  \/ Worked # {} \/ \A f \in Rows(feature) : feature[f].status = "merged"
  \/ Discoverable # {} \/ check_roadmap # {}

\* The edit of a row whose state is not its status puts no row on a cycle it
\* was not on (set_feature_deps, set_task_deps).
RoadmapStep ==
  /\ TypeOK' /\ OperationalDrains'
  /\ \A f \in Rows(feature) :
       /\ feature[f].status \notin Decided /\ feature'[f].deps # feature[f].deps =>
            Cyclic(feature') \subseteq Cyclic(feature)
       /\ \A t \in Rows(Index(f)) :
            task[t].status \notin Decided /\ task'[t].deps # task[t].deps =>
              Cyclic(Index(f)') \subseteq Cyclic(Index(f))
=============================================================================
