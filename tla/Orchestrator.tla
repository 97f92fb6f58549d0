---------------------------- MODULE Orchestrator ----------------------------
(***************************************************************************)
(* The drains of one project (run_project, run_feature): the loop that     *)
(* discovers ready features, submits them to a bounded pool, collects the  *)
(* reports and excludes what did not succeed; the finalisation of complete *)
(* features; the alerts; the socle gate and the DAG of features; the abort *)
(* sentinel all drains of a project share.  A run of a worker is two steps *)
(* here (Dispatch has its inside), a merge one (Merge has its inside).     *)
(*                                                                         *)
(* A drain reads the roadmap through its own connection, keeps its sets in *)
(* local variables, and nothing keeps two drains of a project apart.       *)
(* Cancelled tasks and features, redrain and the acknowledging of alerts   *)
(* are left out.                                                           *)
(***************************************************************************)
EXTENDS Naturals, FiniteSets

CONSTANTS
  Features, Tasks,
  FeatureOf,    \* feature of each task
  Needs,        \* tasks.depends_on, within a feature
  Wants,        \* features.depends_on
  Interactive,  \* tasks led in a terminal; their feature is the socle
  Later,        \* tasks added to the roadmap while the system runs
  Drains,       \* requests that run run_project or run_feature
  Scopes,       \* what a request may ask for: Whole, or a feature
  Whole,        \* the whole project
  MaxParallel,  \* size of the pool of run_project
  Faults,       \* subset of FaultKinds
  None

FaultKinds == {"worker_failed", "rate_limited", "interrupted",
               "git", "raised", "abort"}

ASSUME OrchestratorAssumption ==
  /\ IsFiniteSet(Features)
  /\ FeatureOf \in [Tasks -> Features]
  /\ Needs \in [Tasks -> SUBSET Tasks] /\ Wants \in [Features -> SUBSET Features]
  /\ \A t \in Tasks : \A n \in Needs[t] : FeatureOf[n] = FeatureOf[t]
  /\ Interactive \subseteq Tasks /\ Later \subseteq Tasks \ Interactive
  /\ Scopes \subseteq Features \cup {Whole} /\ Whole \notin Features
  /\ MaxParallel \in Nat \ {0}
  /\ Faults \subseteq FaultKinds

VARIABLES
  task,      \* tasks.status, "absent" before the task is added
  merged,    \* features whose status is merged
  verdict,   \* colour of the gate for the head of a feature, None if not given
  designed,  \* whether the interview has produced design and roadmap
  alerts,    \* open alerts: feature and kind
  abort,     \* the sentinel file of the project
  aborting,  \* whether request_abort stands between sentinel and kill
  pc,        \* where each drain stands
  scope,     \* what it drains
  gated,     \* the socle's gate as read at its start
  run,       \* its future of a feature: "queued", the task at work, the
             \* outcome to collect, or None
  kept,      \* the set a feature is kept out in: failed, needs_interview, ...
  todo,      \* complete features it has still to finalise
  drained,   \* complete features, as read after the loop
  last,      \* history: outcome of the drain's last run of a feature
  cut        \* history: drains and features killed by an abort under them

roadmap == <<task, merged, verdict, designed>>
signal  == <<abort, aborting, cut>>
local   == <<pc, scope, gated, kept, todo, drained>>
vars    == <<roadmap, alerts, signal, local, run, last>>

Held     == {"worker_failed", "rate_limited", "interrupted", "interview_hold"}
Outcomes == Held \cup {"ok", "raised"}
\* _WORKER_ALERT_KINDS
WorkerKinds == Held \cup {"socle_hold"}

\* A task is told from what else a future holds, and None from every value.
ASSUME DistinctAssumption ==
  /\ Tasks \cap (Outcomes \cup {"queued"}) = {}
  /\ None \notin Tasks \cup Outcomes \cup WorkerKinds \cup {"queued", "green", "red"}

(***************************************************************************)
(* The roadmap as a drain reads it                                         *)
(***************************************************************************)

TasksOf(f) == {t \in Tasks : FeatureOf[t] = f /\ task[t] # "absent"}

Ready(f) == {t \in TasksOf(f) :
               task[t] = "todo" /\ \A n \in Needs[t] : task[n] = "done"}

Socles    == {FeatureOf[t] : t \in Interactive}
SocleOpen == ~(Socles \subseteq merged)

InFlight(d) == {f \in Features : run[d][f] # None}
Working(d)  == {f \in Features : run[d][f] \in Tasks \cup {"queued"}}
Answered(d) == {f \in Features : run[d][f] \in Outcomes}

\* Mutant of Candidates: the DAG of the features is not looked at.
CandidatesMutant(d) ==
  {f \in Features \ merged :
     run[d][f] = None /\ kept[d][f] = None /\ Ready(f) # {}}

\* _discoverable_features
Candidates(d) ==
  {f \in Features \ merged :
     /\ run[d][f] = None /\ kept[d][f] = None
     /\ Wants[f] \subseteq merged
     /\ Ready(f) # {}}

\* _worked_complete_features
Complete(d) ==
  {f \in Features \ merged :
     /\ TasksOf(f) # {} /\ \A t \in TasksOf(f) : task[t] = "done"
     /\ kept[d][f] = None}

\* reconcile_socle: an interview that has produced closes the socle's tasks.
Reconciled ==
  IF designed /\ \E f \in Socles : Ready(f) \cap Interactive # {}
  THEN [t \in Tasks |-> IF t \in UNION {TasksOf(f) : f \in Socles}
                        THEN "done" ELSE task[t]]
  ELSE task

\* Its commit of the design gives the socle a new head.
Reheaded == [f \in Features |-> IF f \in Socles /\ Reconciled # task
                                THEN None ELSE verdict[f]]

(***************************************************************************)
(* The drain                                                               *)
(***************************************************************************)

Goto(d, l) == pc' = [pc EXCEPT ![d] = l]
Blank      == [f \in Features |-> None]

\* Mutant of Begin: run_feature does not look at the socle.
BeginMutant(d, s) ==
  /\ pc[d] = "idle"
  /\ task' = Reconciled /\ verdict' = Reheaded
  /\ Goto(d, "check")
  /\ scope' = [scope EXCEPT ![d] = s]
  /\ gated' = [gated EXCEPT ![d] = SocleOpen]
  /\ abort' = FALSE
  /\ kept' = [kept EXCEPT ![d] = Blank]
  /\ last' = [last EXCEPT ![d] = Blank]
  /\ cut' = {c \in cut : c[1] # d}
  /\ UNCHANGED <<merged, designed, alerts, aborting, run, todo, drained>>

\* Up to the loop: reconcile_socle, the socle's status, clear_abort.  A single
\* feature that has to wait for the socle gets its alert and is not drained.
Begin(d, s) ==
  /\ pc[d] = "idle"
  /\ task' = Reconciled /\ verdict' = Reheaded
  /\ IF s \in Features \ Socles /\ SocleOpen
     THEN /\ alerts' = alerts \cup {<<s, "socle_hold">>}
          /\ UNCHANGED <<signal, local, last>>
     ELSE /\ Goto(d, "check")
          /\ scope' = [scope EXCEPT ![d] = s]
          /\ gated' = [gated EXCEPT ![d] = SocleOpen]
          /\ abort' = FALSE
          /\ kept' = [kept EXCEPT ![d] = Blank]
          /\ last' = [last EXCEPT ![d] = Blank]
          /\ cut' = {c \in cut : c[1] # d}
          /\ UNCHANGED <<alerts, aborting, todo, drained>>
  /\ UNCHANGED <<merged, designed, run>>

\* abort_requested, before anything is assigned.
Check(d) ==
  /\ pc[d] = "check"
  /\ Goto(d, IF abort THEN "join" ELSE "assign")
  /\ UNCHANGED <<roadmap, alerts, signal, scope, gated, kept, todo, drained,
                 run, last>>

Submit(d, S) ==
  run' = [run EXCEPT ![d] = [f \in Features |->
            IF f \in S THEN "queued" ELSE run[d][f]]]

Smaller(m, n) == IF m < n THEN m ELSE n


\* A pass of run_project: work features wait for an open socle, the others are
\* submitted while the pool has room (which ones is the priority's choice).
Assign(d) ==
  LET held == IF gated[d] THEN Candidates(d) \ Socles ELSE {}
      open == Candidates(d) \ held
      free == MaxParallel - Cardinality(InFlight(d)) IN
  /\ pc[d] = "assign" /\ scope[d] = Whole
  /\ \E S \in SUBSET open :
       /\ Cardinality(S) = Smaller(free, Cardinality(open))
       /\ Submit(d, S)
       /\ Goto(d, IF InFlight(d) \cup S = {} THEN "join" ELSE "wait")
  /\ kept' = [kept EXCEPT ![d] = [f \in Features |->
                IF f \in held THEN "socle_hold" ELSE kept[d][f]]]
  /\ alerts' = alerts \cup (held \X {"socle_hold"})
  /\ UNCHANGED <<roadmap, signal, scope, gated, todo, drained, last>>

\* A pass of run_feature, which asks neither for the status of the feature nor
\* for the features it depends on.
AssignOne(d) ==
  LET f == scope[d] IN
  /\ pc[d] = "assign" /\ f \in Features
  /\ IF Ready(f) = {} THEN Goto(d, "join") /\ UNCHANGED run
                      ELSE Goto(d, "wait") /\ Submit(d, {f})
  /\ UNCHANGED <<roadmap, alerts, signal, scope, gated, kept, todo, drained,
                 last>>

(***************************************************************************)
(* A run of a worker, in a thread of the pool                              *)
(***************************************************************************)

Answer(d, f, o) ==
  /\ run' = [run EXCEPT ![d][f] = o]
  /\ last' = [last EXCEPT ![d][f] = o]

\* dispatch_next refuses, or hands the task to a terminal, or raises: the
\* realignment of the worktree (GitOpError, caught by _dispatch_one), the port
\* pool or the database (not caught).
Refuse(d, f) ==
  /\ run[d][f] = "queued"
  /\ \/ Ready(f) = {} /\ Answer(d, f, "worker_failed")
     \/ Ready(f) \cap Interactive # {} /\ Answer(d, f, "interview_hold")
     \/ /\ Ready(f) \ Interactive # {}
        /\ \/ "git" \in Faults /\ Answer(d, f, "worker_failed")
           \/ "raised" \in Faults /\ Answer(d, f, "raised")
  /\ UNCHANGED <<roadmap, alerts, signal, local>>

\* dispatch_next takes the next task; reserve makes the feature active, also a
\* merged one, and may move its head onto dev.
StartRun(d, f) ==
  /\ run[d][f] = "queued"
  /\ \E t \in Ready(f) \ Interactive :
       /\ task' = [task EXCEPT ![t] = "in_progress"]
       /\ run' = [run EXCEPT ![d][f] = t]
  /\ merged' = merged \ {f}
  /\ \E v \in {verdict[f], None} : verdict' = [verdict EXCEPT ![f] = v]
  /\ UNCHANGED <<designed, alerts, signal, local, last>>

GiveBack(t) == task' = [task EXCEPT ![t] = "todo"]

\* The worker's end: its work is committed and the task closed; or the run
\* fails, is rejected by the rate limit or cut, and gives the task back; or the
\* commit raises and the task stays in_progress.  After a merge the worktree is
\* gone and the run cannot succeed.
FinishRun(d, f) ==
  LET t == run[d][f] IN
  /\ t \in Tasks
  /\ \/ /\ f \notin merged
        /\ Answer(d, f, "ok")
        /\ task' = IF task[t] = "in_progress"
                   THEN [task EXCEPT ![t] = "done"] ELSE task
        /\ verdict' = [verdict EXCEPT ![f] = None]
     \/ /\ \E o \in Held \cap Faults : Answer(d, f, o)
        /\ GiveBack(t) /\ UNCHANGED verdict
     \/ /\ f \in merged /\ Answer(d, f, "worker_failed")
        /\ GiveBack(t) /\ UNCHANGED verdict
     \/ /\ "git" \in Faults /\ Answer(d, f, "worker_failed")
        /\ UNCHANGED <<task, verdict>>
     \/ /\ "raised" \in Faults /\ Answer(d, f, "raised")
        /\ GiveBack(t) /\ UNCHANGED verdict
  /\ UNCHANGED <<merged, designed, alerts, signal, local>>

(***************************************************************************)
(* The reports                                                             *)
(***************************************************************************)

\* Mutant of Collect: an interrupted feature is not kept out.
CollectMutant(d) ==
  LET D   == Answered(d)
      bad == {f \in D : run[d][f] \in Held} IN
  /\ pc[d] = "wait" /\ D # {}
  /\ \A f \in D : run[d][f] # "raised"
  /\ run' = [run EXCEPT ![d] = [f \in Features |->
               IF f \in D THEN None ELSE run[d][f]]]
  /\ kept' = [kept EXCEPT ![d] = [f \in Features |->
                IF f \in bad /\ run[d][f] # "interrupted" THEN run[d][f]
                ELSE kept[d][f]]]
  /\ alerts' = alerts \cup {<<f, run[d][f]>> : f \in bad}
  /\ Goto(d, "check")
  /\ UNCHANGED <<roadmap, signal, scope, gated, todo, drained, last>>

\* What wait returned: an alert for each run that did not succeed, and its
\* feature kept out for the rest of the drain.  A rate limit ends the loop, any
\* failure ends that of run_feature.
Collect(d) ==
  LET D   == Answered(d)
      bad == {f \in D : run[d][f] \in Held} IN
  /\ pc[d] = "wait" /\ D # {}
  /\ \A f \in D : run[d][f] # "raised"
  /\ run' = [run EXCEPT ![d] = [f \in Features |->
               IF f \in D THEN None ELSE run[d][f]]]
  /\ kept' = [kept EXCEPT ![d] = [f \in Features |->
                IF f \in bad THEN run[d][f] ELSE kept[d][f]]]
  /\ alerts' = alerts \cup {<<f, run[d][f]>> : f \in bad}
  /\ Goto(d, IF \/ \E f \in D : run[d][f] = "rate_limited"
                \/ scope[d] # Whole /\ bad # {}
             THEN "join" ELSE "check")
  /\ UNCHANGED <<roadmap, signal, scope, gated, todo, drained, last>>

\* fut.result() raises, after some of the others were reported.
CollectRaises(d) ==
  LET D   == Answered(d)
      bad == {f \in D : run[d][f] \in Held} IN
  /\ pc[d] = "wait" /\ \E f \in D : run[d][f] = "raised"
  /\ \E B \in SUBSET bad : alerts' = alerts \cup {<<f, run[d][f]>> : f \in B}
  /\ Goto(d, "raising")
  /\ UNCHANGED <<roadmap, signal, scope, gated, kept, todo, drained, run, last>>

\* The pool joins its threads, then the exception leaves run_project.
Raise(d) ==
  /\ pc[d] = "raising" /\ Working(d) = {}
  /\ Goto(d, "idle")
  /\ run' = [run EXCEPT ![d] = Blank]
  /\ UNCHANGED <<roadmap, alerts, signal, scope, gated, kept, todo, drained, last>>

(***************************************************************************)
(* After the loop                                                          *)
(***************************************************************************)

\* The pool joins its threads; what they answer now is read by nobody.  The
\* sentinel is removed, the complete features are listed.
Join(d) ==
  /\ pc[d] = "join" /\ Working(d) = {}
  /\ Goto(d, "finalize")
  /\ run' = [run EXCEPT ![d] = Blank]
  /\ abort' = FALSE
  /\ drained' = [drained EXCEPT ![d] = Complete(d)]
  /\ todo' = [todo EXCEPT ![d] = IF scope[d] = Whole THEN Complete(d)
                                 ELSE Complete(d) \cap {scope[d]}]
  /\ UNCHANGED <<roadmap, alerts, aborting, cut, scope, gated, kept, last>>

\* Mutant of Settle: a green gate leaves the alert of a red one open.
SettleMutant(f, v) ==
  /\ verdict' = [verdict EXCEPT ![f] = v]
  /\ alerts' = IF v = "green" THEN alerts ELSE alerts \cup {<<f, "gate_red">>}

\* The gate's colour and its alert.
Settle(f, v) ==
  /\ verdict' = [verdict EXCEPT ![f] = v]
  /\ alerts' = IF v = "green" THEN alerts \ {<<f, "gate_red">>}
                              ELSE alerts \cup {<<f, "gate_red">>}

\* finalize_feature: toolchain and review unless the head has its verdict; a
\* feature merged meanwhile has no branch.
Finalize(d, f) ==
  /\ pc[d] = "finalize" /\ f \in todo[d]
  /\ todo' = [todo EXCEPT ![d] = @ \ {f}]
  /\ IF f \in merged THEN UNCHANGED <<verdict, alerts>>
     ELSE \E v \in {"green", "red"} :
            (verdict[f] # None => v = verdict[f]) /\ Settle(f, v)
  /\ UNCHANGED <<task, merged, designed, signal, pc, scope, gated, kept,
                 drained, run, last>>

\* _dispositions
Disposition(d, f) ==
  IF kept[d][f] # None THEN kept[d][f]
  ELSE IF f \in drained[d] THEN "drained" ELSE "blocked"

\* Mutant of End: the alerts of all features of the project are resolved.
EndMutant(d) ==
  /\ pc[d] = "finalize" /\ todo[d] = {}
  /\ alerts' = alerts \ ((Features \ merged) \X WorkerKinds)
  /\ Goto(d, "idle")
  /\ UNCHANGED <<roadmap, signal, scope, gated, kept, todo, drained, run, last>>

\* The worker-level alerts of what was drained are resolved.
End(d) ==
  /\ pc[d] = "finalize" /\ todo[d] = {}
  /\ alerts' = alerts \ ({f \in Features \ merged :
                            Disposition(d, f) = "drained"} \X WorkerKinds)
  /\ Goto(d, "idle")
  /\ UNCHANGED <<roadmap, signal, scope, gated, kept, todo, drained, run, last>>

(***************************************************************************)
(* The others                                                              *)
(***************************************************************************)

\* The human's interview, and its closing at the session's end or by the
\* button; a killed session closes nothing, the next drain does.
Interview ==
  /\ ~designed /\ Interactive # {}
  /\ designed' = TRUE
  /\ UNCHANGED <<task, merged, verdict, alerts, signal, local, run, last>>

CloseSocle ==
  /\ Reconciled # task
  /\ task' = Reconciled /\ verdict' = Reheaded
  /\ UNCHANGED <<merged, designed, alerts, signal, local, run, last>>

\* forgemaster roadmap add-task
AddTask(t) ==
  /\ t \in Later /\ task[t] = "absent"
  /\ task' = [task EXCEPT ![t] = "todo"]
  /\ UNCHANGED <<merged, verdict, designed, alerts, signal, local, run, last>>

\* run_merge under a human's GO: the branch is deleted, the feature and what is
\* in progress closed, its alerts resolved.
Merge(f) ==
  /\ verdict[f] = "green"
  /\ merged' = merged \cup {f}
  /\ verdict' = [verdict EXCEPT ![f] = None]
  /\ task' = [t \in Tasks |-> IF FeatureOf[t] = f /\ task[t] = "in_progress"
                              THEN "done" ELSE task[t]]
  /\ alerts' = {a \in alerts : a[1] # f}
  /\ UNCHANGED <<designed, signal, local, run, last>>

\* dispatch_refix: a new head, finalised.
Refix(f) ==
  /\ verdict[f] = "red"
  /\ \E v \in {"green", "red"} : Settle(f, v)
  /\ UNCHANGED <<task, merged, designed, signal, local, run, last>>

\* request_abort: the sentinel of the project, then the kill of the workers it
\* finds, of the project or of one feature.
Abort ==
  /\ "abort" \in Faults /\ ~aborting
  /\ \E d \in Drains : pc[d] # "idle"
  /\ abort' = TRUE /\ aborting' = TRUE
  /\ UNCHANGED <<roadmap, alerts, cut, local, run, last>>

Kill(F) ==
  LET hit == {c \in Drains \X F : run[c[1]][c[2]] \in Tasks} IN
  /\ aborting /\ aborting' = FALSE
  /\ \E o \in {"interrupted", "worker_failed"} :
       LET after(old) == [d \in Drains |-> [f \in Features |->
                            IF <<d, f>> \in hit THEN o ELSE old[d][f]]] IN
       run' = after(run) /\ last' = after(last)
  /\ task' = [t \in Tasks |-> IF \E c \in hit : run[c[1]][c[2]] = t
                              THEN "todo" ELSE task[t]]
  /\ cut' = cut \cup {c \in Drains \X {h[2] : h \in hit} :
                        pc[c[1]] \in {"check", "assign", "wait"}}
  /\ UNCHANGED <<merged, verdict, designed, alerts, abort, local>>

-----------------------------------------------------------------------------

Init ==
  /\ task = [t \in Tasks |-> IF t \in Later THEN "absent" ELSE "todo"]
  /\ merged = {} /\ verdict = Blank /\ designed = FALSE
  /\ alerts = {} /\ abort = FALSE /\ aborting = FALSE /\ cut = {}
  /\ pc = [d \in Drains |-> "idle"]
  /\ scope = [d \in Drains |-> Whole]
  /\ gated = [d \in Drains |-> FALSE]
  /\ run = [d \in Drains |-> Blank]
  /\ kept = [d \in Drains |-> Blank]
  /\ last = [d \in Drains |-> Blank]
  /\ todo = [d \in Drains |-> {}]
  /\ drained = [d \in Drains |-> {}]

Loop(d)  == Check(d) \/ Assign(d) \/ AssignOne(d) \/ Collect(d)
            \/ CollectRaises(d) \/ Raise(d)
Close(d) == Join(d) \/ (\E f \in Features : Finalize(d, f)) \/ End(d)
Thread(d, f) == Refuse(d, f) \/ StartRun(d, f) \/ FinishRun(d, f)

Next ==
  \/ \E d \in Drains :
       \/ \E s \in Scopes : Begin(d, s)
       \/ Loop(d) \/ Close(d)
       \/ \E f \in Features : Thread(d, f)
  \/ \E f \in Features : Merge(f) \/ Refix(f)
  \/ \E t \in Tasks : AddTask(t)
  \/ Interview \/ CloseSocle \/ Abort
  \/ \E F \in {Features} \cup {{f} : f \in Features} : Kill(F)

Spec == Init /\ [][Next]_vars

\* A drain is a loop of one thread, its pool runs what was submitted, and a
\* worker ends at the latest at DISPATCH_TIMEOUT.
FairSpec ==
  /\ Spec
  /\ \A d \in Drains :
       /\ WF_vars(Loop(d) \/ Close(d))
       /\ \A f \in Features : WF_vars(Thread(d, f))

-----------------------------------------------------------------------------
(***************************************************************************)
(* Properties                                                              *)
(***************************************************************************)

\* The domains of the columns and of the local sets.
TypeOK ==
  /\ task \in [Tasks -> {"absent", "todo", "in_progress", "done"}]
  /\ merged \subseteq Features /\ designed \in BOOLEAN
  /\ verdict \in [Features -> {"green", "red", None}]
  /\ alerts \subseteq Features \X (WorkerKinds \cup {"gate_red"})
  /\ abort \in BOOLEAN /\ aborting \in BOOLEAN
  /\ pc \in [Drains -> {"idle", "check", "assign", "wait", "join", "raising",
                        "finalize"}]
  /\ scope \in [Drains -> Scopes \cup {Whole}] /\ gated \in [Drains -> BOOLEAN]
  /\ run \in [Drains -> [Features -> Tasks \cup Outcomes \cup {"queued", None}]]
  /\ kept \in [Drains -> [Features -> WorkerKinds \cup {None}]]
  /\ last \in [Drains -> [Features -> Outcomes \cup {None}]]
  /\ todo \in [Drains -> SUBSET Features]
  /\ drained \in [Drains -> SUBSET Features]
  /\ cut \subseteq Drains \X Features

\* No worker of a work feature is at work before the socle is merged, whatever
\* drain started it and however long ago that drain read the socle's status
\* (the gate of run_project and run_feature, orchestrator.py:236-243).
SocleFirst ==
  \A d \in Drains, f \in Features \ Socles : run[d][f] \in Tasks => ~SocleOpen

\* What a drain of the project works on has all the features it wants merged.
DependenciesFirst ==
  \A d \in Drains, f \in Features :
    scope[d] = Whole /\ run[d][f] \in Tasks => Wants[f] \subseteq merged

\* The badge of the gate tells the truth: a red verdict of the current head has
\* its open alert, a green one has none (finalize_feature's life cycle of
\* gate_red, over drains, corrections and merges).
GateAlert ==
  /\ TypeOK
  /\ \A f \in Features : /\ verdict[f] = "red" => <<f, "gate_red">> \in alerts
                         /\ verdict[f] = "green" => <<f, "gate_red">> \notin alerts

\* The loop of the drain ran to its end: no abort, no rate limit stopped it.
Uncut(d) == ~abort /\ \A f \in Features : last[d][f] # "rate_limited"

\* "aucun blocage silencieux" (db/alerts.py:3): when the loop of a drain ran to
\* its end, a feature whose last run was held or failed has an open alert, or is
\* merged, and one whose last run succeeded has no ready work left in a drain of
\* the project; the end of the drain resolves no alert of a worker about a feature
\* with work undone; and "une feature mergee ne re-bloque jamais"
\* (gate/merge.py:325).
NoSilentBlock ==
  [][/\ \A d \in Drains : pc[d] # "finalize" /\ pc'[d] = "finalize" /\ Uncut(d) =>
          \A f \in Features :
            /\ last[d][f] \in Held => f \in merged' \/ <<f, last[d][f]>> \in alerts'
            /\ scope[d] = Whole /\ last[d][f] = "ok" => Ready(f) = {}
     /\ \A d \in Drains : pc[d] = "finalize" /\ pc'[d] = "idle" =>
          \A a \in alerts :
            a[2] \in WorkerKinds /\ (\E t \in TasksOf(a[1]) : task[t] # "done") => a \in alerts'
     /\ \A a \in alerts' : a[1] \notin merged']_vars

\* "la boucle ne re-dispatche pas ce qu'on tue" (abort.py:100): a drain that was
\* going on when an abort killed a worker does not start that feature again.
KilledStaysDown ==
  [][\A d \in Drains, f \in Features :
       run[d][f] = "queued" /\ run'[d][f] \in Tasks => <<d, f>> \notin cut]_vars

\* "Terminaison garantie" (orchestrator.py:228): every drain comes to its end,
\* whatever its runs answer and whoever else works on the same features.
Terminates == \A d \in Drains : (pc[d] # "idle") ~> (pc[d] = "idle")
=============================================================================
