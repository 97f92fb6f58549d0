------------------------------- MODULE Merge --------------------------------
(***************************************************************************)
(* From a worker's commit to main: the branch of each feature, the review  *)
(* bound to its head, run_merge step by step (evaluate_gate, realignment,  *)
(* the two fast-forwards, cleanup, closing), and redrain.  run_merge holds *)
(* no lock across its git commands and its database writes, merge_ff tests *)
(* ancestry and then moves the ref.                                        *)
(*                                                                         *)
(* A ref is the sequence of the commits it contains: linear histories, so  *)
(* is_ancestor is a prefix test, the sequence stands for the sha.  The     *)
(* toolchain and rendering tiers are clean here (GateDecision has them),   *)
(* all diffs hold code, every run that succeeds commits something, and the *)
(* mirror push is left out.                                                *)
(***************************************************************************)
EXTENDS GateDecision, Naturals, SequencesExt

CONSTANTS
  Features,    \* the features of one project
  Tasks,       \* their tasks
  FeatureOf,   \* feature of each task
  Mergers,     \* requests that run run_merge
  MaxTries,    \* runs of a task (a bound), corrections of a feature
               \* (MAX_FIX_PASSES)
  Faults,      \* subset of FaultKinds
  Overlap,     \* whether runs, merges and redrains of a feature may overlap
  None

FaultKinds == {"crash", "conflict", "fail", "redrain", "override"}

ASSUME MergeAssumption ==
  /\ FeatureOf \in [Tasks -> Features]
  /\ Tasks \cap Features = {}
  /\ MaxTries \in Nat
  /\ Faults \subseteq FaultKinds
  /\ Overlap \in BOOLEAN
  /\ None \notin Tasks \cup Features

VARIABLES
  dev, main,   \* the two long-lived branches
  branch,      \* branch of each feature, or None
  wt,          \* whether its worktree is on disk
  task,        \* tasks.status
  feature,     \* features.status
  work,        \* what a worker of the feature is doing: a task, the feature
               \* itself for a correction pass, or None
  tries,       \* runs started so far
  verdict,     \* the Tier-1 verdict file: reviewed head and colour, or None
  reviewing,   \* the head a running reviewer was started on, or None
  drain,       \* a redrain of the feature: "none", "released" before its reset,
               \* or "cut" there by a crash
  mpc, mof,    \* where run_merge stands, and on which feature
  head,        \* the head_sha it holds
  outcomes,    \* merge_outcomes: feature and merged head
  cleared      \* commits a green review or an override of a red one covered

gitVars == <<dev, main, branch, wt>>
runVars == <<task, feature, work, tries, drain>>
revVars == <<verdict, reviewing>>
merVars == <<mpc, mof, head, outcomes>>
vars == <<gitVars, runVars, revVars, merVars, cleared>>

Jobs     == Tasks \cup Features
Commits  == [of: Jobs, try: 1..MaxTries]
\* None is no history.
ASSUME NoneAssumption == None \notin Seq(Commits)

Home(j)  == IF j \in Tasks THEN FeatureOf[j] ELSE j
TasksOf(f) == {t \in Tasks : FeatureOf[t] = f}

\* Mutant of IsAncestor: the exit code of git merge-base is not looked at.
IsAncestorMutant(s, t) == TRUE

IsAncestor(s, t) == IsPrefix(s, t)

\* diff dev...branch, as commits, and the branch rebased onto dev.
Own(f)     == IF branch[f] = None THEN {} ELSE ToSet(branch[f]) \ ToSet(dev)
OnDev(f)   == branch[f] # None /\ IsAncestor(dev, branch[f])
Ahead(b)   == LET A[i \in 0..Len(b)] ==
                    IF i = 0 THEN <<>>
                    ELSE IF b[i] \in ToSet(dev) THEN A[i - 1]
                    ELSE Append(A[i - 1], b[i])
              IN  A[Len(b)]
Rebased(f) == dev \o Ahead(branch[f])

Merging(f) == \E m \in Mergers : mpc[m] # "idle" /\ mof[m] = f

(***************************************************************************)
(* Work on a feature                                                       *)
(***************************************************************************)

\* worktree.reserve: a missing worktree is created on a branch reset to dev; a
\* worktree left on an older dev is rebased.
Reserved(f) == IF ~wt[f] THEN dev
               ELSE IF OnDev(f) THEN branch[f] ELSE Rebased(f)

Begin(f, j) ==
  /\ work[f] = None /\ tries[j] < MaxTries
  /\ Overlap \/ (~Merging(f) /\ drain[f] # "released")
  /\ tries' = [tries EXCEPT ![j] = @ + 1]
  /\ branch' = [branch EXCEPT ![f] = Reserved(f)]
  /\ wt' = [wt EXCEPT ![f] = TRUE]
  /\ feature' = [feature EXCEPT ![f] = "active"]
  /\ work' = [work EXCEPT ![f] = j]
  /\ UNCHANGED <<dev, main, drain, revVars, merVars, cleared>>

\* dispatch_next: a todo task of a feature.
StartTask(t) ==
  /\ task[t] = "todo"
  /\ Begin(FeatureOf[t], t)
  /\ task' = [task EXCEPT ![t] = "in_progress"]

\* dispatch_refix, when the gate is red for fresh code.
StartFix(f) ==
  /\ branch[f] # None /\ verdict[f] # None
  /\ verdict[f].sha = branch[f] /\ verdict[f].red /\ Own(f) # {}
  /\ Begin(f, f)
  /\ UNCHANGED task

\* commit_worktree on the branch as it stands; a task is closed if it is still
\* in_progress.  New content is not covered by an earlier review.
Commit(f) ==
  LET j == work[f]
      c == [of |-> j, try |-> tries[j]] IN
  /\ j # None /\ wt[f] /\ branch[f] # None
  /\ branch' = [branch EXCEPT ![f] = Append(@, c)]
  /\ task' = IF j \in Tasks /\ task[j] = "in_progress"
             THEN [task EXCEPT ![j] = "done"] ELSE task
  /\ work' = [work EXCEPT ![f] = None]
  /\ UNCHANGED <<dev, main, wt, feature, tries, drain, revVars, merVars, cleared>>

\* A failed run gives its task back; so does one whose worktree is gone.
WorkFails(f) ==
  /\ work[f] # None
  /\ "fail" \in Faults \/ ~wt[f]
  /\ task' = IF work[f] \in Tasks THEN [task EXCEPT ![work[f]] = "todo"]
                                  ELSE task
  /\ work' = [work EXCEPT ![f] = None]
  /\ UNCHANGED <<gitVars, feature, tries, drain, revVars, merVars, cleared>>

(***************************************************************************)
(* Tier-1 review                                                           *)
(***************************************************************************)

\* Mutant of Fresh: any verdict of the feature will do.
FreshMutant(f) == verdict[f] # None

Fresh(f) == verdict[f] # None /\ verdict[f].sha = branch[f]

\* dispatch_reviewer: every task is terminal, the diff is not empty, the head
\* has no fresh verdict, the worktree is alive; the head is read here.
ReviewStart(f) ==
  /\ reviewing[f] = None
  /\ \A t \in TasksOf(f) : task[t] = "done"
  /\ branch[f] # None /\ Own(f) # {} /\ ~Fresh(f) /\ wt[f]
  /\ reviewing' = [reviewing EXCEPT ![f] = branch[f]]
  /\ UNCHANGED <<gitVars, runVars, verdict, merVars, cleared>>

\* The verdict is bound to the head the reviewer was started on.
ReviewWrite(f, red) ==
  /\ reviewing[f] # None
  /\ verdict' = [verdict EXCEPT ![f] = [sha |-> reviewing[f], red |-> red]]
  /\ cleared' = IF red THEN cleared ELSE cleared \cup ToSet(reviewing[f])
  /\ reviewing' = [reviewing EXCEPT ![f] = None]
  /\ UNCHANGED <<gitVars, runVars, merVars>>

ReviewFails(f) ==
  /\ reviewing[f] # None
  /\ reviewing' = [reviewing EXCEPT ![f] = None]
  /\ UNCHANGED <<gitVars, runVars, verdict, merVars, cleared>>

(***************************************************************************)
(* run_merge                                                               *)
(***************************************************************************)


\* evaluate_gate: what the decision is composed from.
Gate(f, go, over) ==
  [red0 |-> FALSE, native |-> "ok", code |-> Own(f) # {},
   t1 |-> IF verdict[f] = None THEN "absent"
          ELSE IF Fresh(f) THEN "fresh" ELSE "stale",
   red1 |-> verdict[f] # None /\ verdict[f].red, t1Override |-> over,
   ui |-> FALSE, t15 |-> "absent", unrendered |-> FALSE,
   t15Override |-> FALSE, go |-> go]

\* A merge that is not allowed changes nothing; an absent branch has no
\* decision.
Evaluate(m, f, over) ==
  /\ mpc[m] = "idle" /\ branch[f] # None
  /\ over => "override" \in Faults
  /\ Overlap \/ (work[f] = None /\ ~Merging(f) /\ drain[f] # "released")
  /\ Allow(Gate(f, TRUE, over))
  /\ mpc' = [mpc EXCEPT ![m] = "allowed"]
  /\ mof' = [mof EXCEPT ![m] = f]
  /\ head' = [head EXCEPT ![m] = branch[f]]
  /\ cleared' = IF T1Overridden(Gate(f, TRUE, over))
                THEN cleared \cup ToSet(branch[f]) ELSE cleared
  /\ UNCHANGED <<gitVars, runVars, revVars, outcomes>>

Ended(m) ==
  /\ mpc' = [mpc EXCEPT ![m] = "idle"]
  /\ mof' = [mof EXCEPT ![m] = None]
  /\ head' = [head EXCEPT ![m] = None]

Step(m, from, to) == mpc[m] = from /\ mpc' = [mpc EXCEPT ![m] = to]

\* A branch that dev has outrun is rebased in its worktree, under the flock.
Align(m) ==
  LET f == mof[m] IN
  /\ Step(m, "allowed", "aligned")
  /\ branch[f] # None
  /\ IF OnDev(f)
     THEN UNCHANGED <<branch, head>>
     ELSE /\ wt[f]
          /\ branch' = [branch EXCEPT ![f] = Rebased(f)]
          /\ head' = [head EXCEPT ![m] = Rebased(f)]
  /\ UNCHANGED <<dev, main, wt, runVars, revVars, mof, outcomes, cleared>>

\* merge_ff is a test and then branch -f.
TestDev(m) ==
  /\ Step(m, "aligned", "ffdev")
  /\ OnDev(mof[m])
  /\ UNCHANGED <<gitVars, runVars, revVars, mof, head, outcomes, cleared>>


MoveDev(m) ==
  /\ Step(m, "ffdev", "landed")
  /\ branch[mof[m]] # None
  /\ dev' = branch[mof[m]]
  /\ UNCHANGED <<main, branch, wt, runVars, revVars, mof, head, outcomes,
                 cleared>>

TestMain(m) ==
  /\ Step(m, "landed", "ffmain")
  /\ IsAncestor(main, dev)
  /\ UNCHANGED <<gitVars, runVars, revVars, mof, head, outcomes, cleared>>

MoveMain(m) ==
  /\ Step(m, "ffmain", "promoted")
  /\ main' = dev
  /\ UNCHANGED <<dev, branch, wt, runVars, revVars, mof, head, outcomes,
                 cleared>>

\* worktree.release removes the worktree with --force.
Release(m) ==
  /\ Step(m, "promoted", "released")
  /\ wt' = [wt EXCEPT ![mof[m]] = FALSE]
  /\ UNCHANGED <<dev, main, branch, runVars, revVars, mof, head, outcomes,
                 cleared>>

\* git refuses to delete a branch that is absent or checked out.
DeleteBranch(m) ==
  /\ Step(m, "released", "deleted")
  /\ branch[mof[m]] # None /\ ~wt[mof[m]]
  /\ branch' = [branch EXCEPT ![mof[m]] = None]
  /\ UNCHANGED <<dev, main, wt, runVars, revVars, mof, head, outcomes,
                 cleared>>

\* record_merge: one row per feature and head.
RecordMerge(m) ==
  /\ Step(m, "deleted", "recorded")
  /\ outcomes' = outcomes \cup {<<mof[m], head[m]>>}
  /\ UNCHANGED <<gitVars, runVars, revVars, mof, head, cleared>>

\* Mutant of CloseTasks: every task of the feature is closed.
CloseTasksMutant(m) ==
  LET f == mof[m] IN
  /\ mpc[m] = "recorded" /\ Ended(m)
  /\ task' = [t \in Tasks |-> IF FeatureOf[t] = f THEN "done" ELSE task[t]]
  /\ feature' = [feature EXCEPT ![f] = "merged"]
  /\ UNCHANGED <<gitVars, work, tries, drain, revVars, outcomes, cleared>>

\* _close_feature_tasks: whatever is in_progress is closed as landed.
CloseTasks(m) ==
  LET f == mof[m] IN
  /\ mpc[m] = "recorded" /\ Ended(m)
  /\ task' = [t \in Tasks |->
                IF FeatureOf[t] = f /\ task[t] = "in_progress" THEN "done"
                                                               ELSE task[t]]
  /\ feature' = [feature EXCEPT ![f] = "merged"]
  /\ UNCHANGED <<gitVars, work, tries, drain, revVars, outcomes, cleared>>

\* A git command that fails raises out of run_merge where it stands: a
\* conflict or a dirty worktree in the rebase, a lost ancestry, a missing
\* worktree or branch.
MergeRaises(m) ==
  LET f == mof[m] IN
  /\ \/ /\ mpc[m] = "allowed"
        /\ \/ branch[f] = None
           \/ /\ ~OnDev(f)
              /\ ~wt[f] \/ "conflict" \in Faults \/ work[f] # None
     \/ mpc[m] = "aligned" /\ ~OnDev(f)
     \/ mpc[m] = "ffdev"  /\ branch[f] = None
     \/ mpc[m] = "landed" /\ ~IsAncestor(main, dev)
     \/ mpc[m] = "released" /\ (branch[f] = None \/ wt[f])
  /\ Ended(m)
  /\ UNCHANGED <<gitVars, runVars, revVars, outcomes, cleared>>

(***************************************************************************)
(* redrain_feature, and crashes                                            *)
(***************************************************************************)

RedrainRelease(f) ==
  /\ "redrain" \in Faults
  /\ drain[f] # "released"
  /\ Overlap \/ (work[f] = None /\ ~Merging(f))
  /\ drain' = [drain EXCEPT ![f] = "released"]
  /\ wt' = [wt EXCEPT ![f] = FALSE]
  /\ UNCHANGED <<dev, main, branch, task, feature, work, tries, revVars,
                 merVars, cleared>>

RedrainReset(f) ==
  /\ drain[f] = "released" /\ drain' = [drain EXCEPT ![f] = "none"]
  /\ task' = [t \in Tasks |-> IF FeatureOf[t] = f THEN "todo" ELSE task[t]]
  /\ feature' = [feature EXCEPT ![f] = "planned"]
  /\ UNCHANGED <<gitVars, work, tries, revVars, merVars, cleared>>

\* The daemon stops: its requests end where they stand, the boot gives the
\* interrupted tasks back (Dispatch).
Crash ==
  /\ "crash" \in Faults
  /\ mpc' = [m \in Mergers |-> "idle"]
  /\ mof' = [m \in Mergers |-> None]
  /\ head' = [m \in Mergers |-> None]
  /\ reviewing' = [f \in Features |-> None]
  /\ drain' = [f \in Features |-> IF drain[f] = "none" THEN "none" ELSE "cut"]
  /\ task' = [t \in Tasks |->
                IF work[FeatureOf[t]] = t /\ task[t] = "in_progress"
                THEN "todo" ELSE task[t]]
  /\ work' = [f \in Features |-> None]
  /\ UNCHANGED <<gitVars, feature, tries, verdict, outcomes, cleared>>

(***************************************************************************)
(* The specification                                                       *)
(***************************************************************************)

Init ==
  /\ dev = <<>> /\ main = <<>>
  /\ branch = [f \in Features |-> None]
  /\ wt = [f \in Features |-> FALSE]
  /\ task = [t \in Tasks |-> "todo"]
  /\ feature = [f \in Features |-> "planned"]
  /\ work = [f \in Features |-> None]
  /\ tries = [j \in Jobs |-> 0]
  /\ verdict = [f \in Features |-> None]
  /\ reviewing = [f \in Features |-> None]
  /\ drain = [f \in Features |-> "none"]
  /\ mpc = [m \in Mergers |-> "idle"]
  /\ mof = [m \in Mergers |-> None]
  /\ head = [m \in Mergers |-> None]
  /\ outcomes = {} /\ cleared = {}

MergeSteps(m) ==
  \/ Align(m) \/ TestDev(m) \/ MoveDev(m) \/ TestMain(m) \/ MoveMain(m)
  \/ Release(m) \/ DeleteBranch(m) \/ RecordMerge(m) \/ CloseTasks(m)
  \/ MergeRaises(m)

Next ==
  \/ \E t \in Tasks : StartTask(t)
  \/ \E f \in Features :
       \/ StartFix(f) \/ Commit(f) \/ WorkFails(f)
       \/ ReviewStart(f) \/ ReviewFails(f)
       \/ \E red \in BOOLEAN : ReviewWrite(f, red)
       \/ RedrainRelease(f) \/ RedrainReset(f)
       \/ \E m \in Mergers, over \in BOOLEAN : Evaluate(m, f, over)
  \/ \E m \in Mergers : MergeSteps(m)
  \/ Crash

Spec == Init /\ [][Next]_vars

(***************************************************************************)
(* Properties                                                              *)
(***************************************************************************)

\* The domains of the refs, the rows and the requests; a worktree has a branch.
TypeOK ==
  /\ dev \in Seq(Commits) /\ main \in Seq(Commits)
  /\ \A f \in Features :
       /\ branch[f] = None \/ branch[f] \in Seq(Commits)
       /\ wt[f] \in BOOLEAN /\ drain[f] \in {"none", "released", "cut"}
       /\ work[f] = None \/ (work[f] \in Jobs /\ Home(work[f]) = f)
       /\ feature[f] \in {"planned", "active", "merged"}
       /\ wt[f] => branch[f] # None
  /\ task \in [Tasks -> {"todo", "in_progress", "done"}]
  /\ tries \in [Jobs -> 0..MaxTries]
  /\ cleared \subseteq Commits

\* main follows dev: it never holds what dev does not; and the outcome journal
\* names heads that dev went through.
MainFollowsDev == IsPrefix(main, dev) /\ \A o \in outcomes : IsPrefix(o[2], dev)

\* The process guard: every commit that reaches dev was in the head of a green
\* review, or of a red one a human overrode.
LandedIsCleared == ToSet(dev) \subseteq cleared

\* A done task's work exists: on dev, or on the branch of its feature.  (Not
\* while a redrain is under way or was cut: a crash between its release and its
\* reset leaves the tasks done, and the next run resets the branch to dev.)
DoneWorkIsKept ==
  \A t \in Tasks : task[t] = "done" /\ drain[FeatureOf[t]] = "none" =>
    \E c \in ToSet(dev) \cup
             (IF branch[FeatureOf[t]] = None THEN {}
              ELSE ToSet(branch[FeatureOf[t]])) : c.of = t

\* No work is dropped: what a merge landed no later merge drops (merge_ff refuses
\* a ref that is not a descendant), and a branch is only deleted once main holds
\* all its commits; and main follows dev.
HistoryIsKept ==
  [][/\ TypeOK' /\ MainFollowsDev' /\ IsPrefix(dev, dev')
     /\ \A f \in Features :
          branch[f] # None /\ branch'[f] = None => ToSet(branch[f]) \subseteq ToSet(main)
    ]_vars
=============================================================================
