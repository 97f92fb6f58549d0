------------------------- MODULE OrchestratorProofs -------------------------
(***************************************************************************)
(* For any number of features and tasks: SocleFirst, GateAlert,            *)
(* DependenciesFirst, KilledStaysDown and NoSilentBlock.  A drain reads    *)
(* the socle's status once and acts on it for hours; what makes this safe  *)
(* is that a merged socle stays merged, because no worker is ever started  *)
(* on it: all its tasks are led in a terminal.  The DAG of the features is *)
(* safe as long as the wanted features do not grow after their merge, and  *)
(* a cut feature stays down, and no block is silent, as long as one drain  *)
(* at a time is going on.                                                  *)
(***************************************************************************)
EXTENDS Orchestrator, FiniteSetTheorems, TLAPS

\* The socle as it is seeded: interview tasks and nothing else.
PureSocle == \A t \in Tasks : FeatureOf[t] \in Socles => t \in Interactive

\* What a future can hold.
Marks == Tasks \cup Outcomes \cup {"queued", None}

\* Functions have their domains.
Shape ==
  /\ pc \in [Drains -> {"idle", "check", "assign", "wait", "join", "raising",
                        "finalize"}]
  /\ scope \in [Drains -> Features \cup {Whole}]
  /\ gated \in [Drains -> BOOLEAN]
  /\ run \in [Drains -> [Features -> Marks]]

Looping(d) == pc[d] \in {"check", "assign", "wait"}

\* A drain that did not find the gate closed is right for ever; one that did is
\* a drain of the project or of the socle itself.
GateReadHolds ==
  \A d \in Drains : Looping(d) =>
    /\ ~gated[d] => Socles \subseteq merged
    /\ gated[d] => scope[d] \notin Features \ Socles

\* Nothing of a work feature was submitted before the socle was merged.
SubmittedAfter ==
  \A d \in Drains, f \in Features \ Socles :
    run[d][f] # None => Socles \subseteq merged

GInv == Shape /\ GateReadHolds /\ SubmittedAfter

\* A merged socle stays merged.
LEMMA SocleStaysMerged ==
  ASSUME PureSocle, [Next]_vars, Socles \subseteq merged
  PROVE  Socles \subseteq merged'
<1> USE DEF roadmap, signal, local
<1>1. CASE \E d \in Drains, f \in Features : StartRun(d, f)
  <2>1. PICK d \in Drains, f \in Features : StartRun(d, f)
    BY <1>1
  <2>2. PICK t \in Ready(f) \ Interactive : TRUE
    BY <2>1 DEF StartRun
  <2>3. f \notin Socles
    BY <2>2 DEF PureSocle, Ready, TasksOf
  <2> QED
    BY <2>1, <2>3 DEF StartRun
<1>2. CASE \E f \in Features : Merge(f)
  BY <1>2 DEF Merge
<1>3. CASE \E d \in Drains : Loop(d) \/ Close(d) \/ \E s \in Scopes : Begin(d, s)
  <2>1. PICK d \in Drains : Loop(d) \/ Close(d) \/ \E s \in Scopes : Begin(d, s)
    BY <1>3
  <2>2. ASSUME Loop(d) PROVE merged' = merged
    BY <2>2 DEF Loop, Check, Assign, AssignOne, Collect, CollectRaises, Raise
  <2>3. CASE Close(d)
    BY <2>3 DEF Close, Join, Finalize, End
  <2>4. CASE \E s \in Scopes : Begin(d, s)
    BY <2>4 DEF Begin
  <2> QED BY <2>1, <2>2, <2>3, <2>4
<1>4. ASSUME NEW d \in Drains, NEW f \in Features, Thread(d, f), ~StartRun(d, f)
      PROVE  merged' = merged
  BY <1>4 DEF Thread, Refuse, FinishRun
<1>5. CASE \E f \in Features : Refix(f)
  BY <1>5 DEF Refix
<1>6. CASE \/ \E t \in Tasks : AddTask(t)
           \/ Interview \/ CloseSocle \/ Abort
           \/ \E F \in {Features} \cup {{f} : f \in Features} : Kill(F)
  BY <1>6 DEF AddTask, Interview, CloseSocle, Abort, Kill
<1>7. CASE UNCHANGED vars
  BY <1>7 DEF vars
<1> QED
  BY <1>1, <1>2, <1>3, <1>4, <1>5, <1>6, <1>7 DEF Next

\* The marks a task can carry.
LEMMA MarksHold ==
  /\ None \in Marks /\ "queued" \in Marks
  /\ Tasks \subseteq Marks /\ Outcomes \subseteq Marks
  /\ "worker_failed" \in Marks /\ "interview_hold" \in Marks
  /\ "interrupted" \in Marks /\ "ok" \in Marks /\ "raised" \in Marks
  /\ Held \subseteq Marks
BY DEF Marks, Outcomes, Held

\* The invariant holds before the first drain.
LEMMA InitHolds == Init => GInv
<1> SUFFICES ASSUME Init PROVE GInv
  OBVIOUS
<1> USE DEF Init, Blank
<1>1. Shape
  BY MarksHold DEF Shape
<1>2. GateReadHolds
  BY DEF GateReadHolds, Looping
<1>3. SubmittedAfter
  BY DEF SubmittedAfter
<1> QED
  BY <1>1, <1>2, <1>3 DEF GInv

\* Every step keeps the types.
LEMMA ShapeKept == Shape /\ [Next]_vars => Shape'
<1> SUFFICES ASSUME Shape, [Next]_vars PROVE Shape'
  OBVIOUS
<1> USE OrchestratorAssumption, DistinctAssumption, MarksHold
    DEF Shape, roadmap, signal, local, Goto
<1> Blank \in [Features -> Marks]
  BY DEF Blank
<1>a. ASSUME NEW d \in Drains, NEW S, Submit(d, S) PROVE run' \in [Drains -> [Features -> Marks]]
  BY <1>a DEF Submit
<1>b. ASSUME NEW d \in Drains, NEW f \in Features, NEW o \in Marks, Answer(d, f, o)
      PROVE  run' \in [Drains -> [Features -> Marks]]
  BY <1>b DEF Answer
<1>1. ASSUME NEW d \in Drains, NEW s \in Scopes, Begin(d, s) PROVE Shape'
  <2>1. SocleOpen \in BOOLEAN
    BY DEF SocleOpen
  <2>2. CASE s \in Features \ Socles /\ SocleOpen
    BY <1>1, <2>2 DEF Begin
  <2>3. CASE ~(s \in Features \ Socles /\ SocleOpen)
    <3>1. /\ pc' = [pc EXCEPT ![d] = "check"]
          /\ scope' = [scope EXCEPT ![d] = s]
          /\ gated' = [gated EXCEPT ![d] = SocleOpen]
          /\ run' = run
      BY <1>1, <2>3 DEF Begin
    <3>2. s \in Features \cup {Whole}
      OBVIOUS
    <3> QED
      BY <2>1, <3>1, <3>2
  <2> QED
    BY <2>2, <2>3
<1>2. ASSUME NEW d \in Drains, Loop(d) PROVE Shape'
  <2>1. CASE Check(d)
    BY <2>1 DEF Check
  <2>6. CASE Raise(d)
    BY <2>6 DEF Raise
  <2>2. CASE Assign(d)
    <3>1. \E S : Submit(d, S)
      BY <2>2 DEF Assign
    <3> QED
      BY <1>a, <2>2, <3>1 DEF Assign
  <2>3. CASE AssignOne(d)
    <3>1. CASE run' = run
      BY <2>3, <3>1 DEF AssignOne
    <3>2. CASE Submit(d, {scope[d]})
      BY <1>a, <2>3, <3>2 DEF AssignOne
    <3> QED
      BY <2>3, <3>1, <3>2 DEF AssignOne
  <2>4. CASE Collect(d)
    BY <2>4 DEF Collect
  <2>5. CASE CollectRaises(d)
    BY <2>5 DEF CollectRaises
  <2> QED
    BY <1>2, <2>1, <2>2, <2>3, <2>4, <2>5, <2>6 DEF Loop
<1>3. ASSUME NEW d \in Drains, Close(d) PROVE Shape'
  <2>1. CASE Join(d)
    BY <2>1 DEF Join
  <2>2. CASE UNCHANGED <<scope, gated, run>> /\ pc' \in {pc, [pc EXCEPT ![d] = "idle"]}
    BY <2>2
  <2> QED
    BY <1>3, <2>1, <2>2 DEF Close, Finalize, End
<1>4. ASSUME NEW d \in Drains, NEW f \in Features, Thread(d, f) PROVE Shape'
  <2>1. CASE Refuse(d, f)
    <3>1. \E o \in Marks : Answer(d, f, o)
      BY <2>1 DEF Refuse
    <3> QED
      BY <1>b, <2>1, <3>1 DEF Refuse
  <2>2. CASE StartRun(d, f)
    BY <2>2 DEF StartRun, Ready, TasksOf
  <2>3. CASE FinishRun(d, f)
    <3>1. \E o \in Marks : Answer(d, f, o)
      BY <2>3 DEF FinishRun
    <3> QED
      BY <1>b, <2>3, <3>1 DEF FinishRun
  <2> QED
    BY <1>4, <2>1, <2>2, <2>3 DEF Thread
<1>5. ASSUME NEW F \in SUBSET Features, Kill(F) PROVE Shape'
  BY <1>5 DEF Kill
<1>6. CASE UNCHANGED <<pc, scope, gated, run>>
  BY <1>6
<1> QED
  BY <1>1, <1>2, <1>3, <1>4, <1>5, <1>6 DEF Next, vars, Merge, Refix, AddTask,
     Interview, CloseSocle, Abort

\* Only Begin reads the gate and chooses the scope; a merged socle stays merged.
LEMMA GateReadKept ==
  ASSUME PureSocle, GInv, [Next]_vars PROVE GateReadHolds'
<1>1. Socles \subseteq merged => Socles \subseteq merged'
  BY SocleStaysMerged
<1>2. ASSUME NEW d \in Drains, NEW s \in Scopes, Begin(d, s) PROVE GateReadHolds'
  <2> USE <1>2, <1>1 DEF Begin, GInv, Shape, GateReadHolds, Looping, Goto,
                         SocleOpen, local
  <2>1. ASSUME NEW c \in Drains, c # d PROVE
          /\ pc'[c] = pc[c] /\ gated'[c] = gated[c] /\ scope'[c] = scope[c]
    BY <2>1
  <2>2. CASE s \in Features \ Socles /\ SocleOpen
    BY <2>2
  <2>3. CASE ~(s \in Features \ Socles /\ SocleOpen)
    <3>1. gated'[d] = SocleOpen /\ scope'[d] = s
      BY <2>3, OrchestratorAssumption, DistinctAssumption
    <3> QED
      BY <2>1, <2>3, <3>1
  <2> QED
    BY <2>2, <2>3
<1>3. ASSUME UNCHANGED <<scope, gated>>,
             \A d \in Drains : Looping(d)' => Looping(d)
      PROVE  GateReadHolds'
  BY <1>1, <1>3 DEF GInv, GateReadHolds
<1>4. ASSUME NEW d \in Drains, Loop(d) \/ Close(d)
      PROVE  UNCHANGED <<scope, gated>> /\ \A c \in Drains : Looping(c)' => Looping(c)
  BY <1>4 DEF Loop, Close, Check, Assign, AssignOne, Collect, CollectRaises, Raise,
     Join, Finalize, End, Goto, GInv, Shape, Looping
<1>5. CASE UNCHANGED <<pc, scope, gated>>
  BY <1>3, <1>5 DEF Looping
<1> QED
  BY <1>2, <1>3, <1>4, <1>5 DEF Next, vars, local, Thread, Refuse, StartRun,
     FinishRun, Merge, Refix, AddTask, Interview, CloseSocle, Abort, Kill

\* A work feature is submitted by a drain that did not find the gate closed.
LEMMA SubmittedKept ==
  ASSUME PureSocle, GInv, [Next]_vars PROVE SubmittedAfter'
<1>1. Socles \subseteq merged => Socles \subseteq merged'
  BY SocleStaysMerged
<1>2. ASSUME \A d \in Drains, f \in Features : run'[d][f] # None => run[d][f] # None
      PROVE  SubmittedAfter'
  BY <1>1, <1>2 DEF GInv, SubmittedAfter
<1>3. ASSUME NEW d \in Drains, Assign(d) PROVE SubmittedAfter'
  <2>1. PICK S \in SUBSET (Candidates(d) \
                 (IF gated[d] THEN Candidates(d) \ Socles ELSE {})) : Submit(d, S)
    BY <1>3 DEF Assign
  <2>2. S \subseteq Features
    BY DEF Candidates
  <2>3. gated[d] => S \subseteq Socles
    OBVIOUS
  <2>4. ~gated[d] => Socles \subseteq merged
    BY <1>3 DEF Assign, GInv, GateReadHolds, Looping
  <2>5. \A c \in Drains, f \in Features :
          run'[c][f] # None => run[c][f] # None \/ (c = d /\ f \in S)
    BY <2>1 DEF Submit, GInv, Shape
  <2> QED
    BY <1>1, <2>3, <2>4, <2>5 DEF GInv, SubmittedAfter, Shape
<1>4. ASSUME NEW d \in Drains, AssignOne(d) PROVE SubmittedAfter'
  <2>1. \A c \in Drains, f \in Features :
          run'[c][f] # None => run[c][f] # None \/ f = scope[d]
    BY <1>4 DEF AssignOne, Submit, GInv, Shape
  <2>2. scope[d] \in Features \ Socles => Socles \subseteq merged
    BY <1>4 DEF AssignOne, GInv, GateReadHolds, Looping, Shape
  <2> QED
    BY <1>1, <2>1, <2>2 DEF GInv, SubmittedAfter
<1>5. ASSUME NEW d \in Drains, NEW f \in Features, Thread(d, f)
      PROVE  \A c \in Drains, g \in Features : run'[c][g] # None => run[c][g] # None
  <2>1. run[d][f] # None
    BY <1>5, OrchestratorAssumption, DistinctAssumption DEF Thread, Refuse, StartRun, FinishRun, GInv, Shape
  <2> QED
    BY SMTT(30), <1>5, <2>1 DEF Thread, Refuse, StartRun, FinishRun, Answer, GInv, Shape
<1>6. ASSUME NEW d \in Drains, Collect(d) \/ Raise(d) \/ Join(d)
      PROVE  \A c \in Drains, g \in Features : run'[c][g] # None => run[c][g] # None
  BY <1>6 DEF Collect, Raise, Join, Blank, GInv, Shape
<1>7. ASSUME NEW F \in SUBSET Features, Kill(F)
      PROVE  \A c \in Drains, g \in Features : run'[c][g] # None => run[c][g] # None
  BY <1>7, OrchestratorAssumption, DistinctAssumption DEF Kill
<1>8. CASE run' = run
  BY <1>2, <1>8
<1> QED
  BY <1>2, <1>3, <1>4, <1>5, <1>6, <1>7, <1>8 DEF Next, vars, Loop, Close, Begin,
     Check, CollectRaises, Finalize, End, Merge, Refix, AddTask, Interview,
     CloseSocle, Abort

\* No worker of a work feature is at work before the socle is merged, for every
\* project whose socle holds interview tasks only.
THEOREM SocleFirstHolds == ASSUME PureSocle PROVE Spec => []SocleFirst
<1>1. Init => GInv
  BY InitHolds
<1>2. GInv /\ [Next]_vars => GInv'
  BY ShapeKept, GateReadKept, SubmittedKept DEF GInv
<1>3. GInv => SocleFirst
  BY OrchestratorAssumption, DistinctAssumption DEF GInv, SubmittedAfter, SocleFirst, SocleOpen
<1> QED
  BY <1>1, <1>2, <1>3, PTL DEF Spec

(***************************************************************************)
(* The gate's alert                                                        *)
(***************************************************************************)

\* The badge, apart from the domains: red is alerted, green is not.
AlertTells ==
  \A f \in Features : /\ verdict[f] = "red" => <<f, "gate_red">> \in alerts
                      /\ verdict[f] = "green" => <<f, "gate_red">> \notin alerts

Kinds   == WorkerKinds \cup {"gate_red"}
Colours == {"green", "red", None}
Keeps   == WorkerKinds \cup {None}
Ends    == Outcomes \cup {None}
Lives   == {"absent", "todo", "in_progress", "done"}

\* What TypeOK says beside the shape of the local variables.
Domains ==
  /\ task \in [Tasks -> Lives] /\ merged \subseteq Features
  /\ designed \in BOOLEAN /\ abort \in BOOLEAN /\ aborting \in BOOLEAN
  /\ verdict \in [Features -> Colours] /\ alerts \subseteq Features \X Kinds
  /\ scope \in [Drains -> Scopes \cup {Whole}]
  /\ kept \in [Drains -> [Features -> Keeps]]
  /\ last \in [Drains -> [Features -> Ends]]
  /\ todo \in [Drains -> SUBSET Features]
  /\ drained \in [Drains -> SUBSET Features]
  /\ cut \subseteq Drains \X Features

\* The type is the shape of the local variables and the domains of the rest.
LEMMA TypeParts == TypeOK <=> Shape /\ Domains
  BY OrchestratorAssumption
  DEF TypeOK, Shape, Domains, Kinds, Colours, Keeps, Ends, Lives, Marks

\* Membership of the values that the actions write.
LEMMA KindsHold ==
  /\ Held \subseteq Kinds /\ WorkerKinds \subseteq Kinds
  /\ "gate_red" \in Kinds /\ "gate_red" \notin WorkerKinds
  /\ "socle_hold" \in WorkerKinds /\ Held \subseteq WorkerKinds
  /\ WorkerKinds \subseteq Keeps /\ None \in Keeps
  /\ Outcomes \subseteq Ends /\ None \in Ends
  /\ Held \subseteq Outcomes /\ "ok" \in Outcomes /\ "raised" \in Outcomes
  /\ {"interrupted", "worker_failed", "interview_hold"} \subseteq Held
  /\ Colours = {"green", "red", None}
  /\ Lives = {"absent", "todo", "in_progress", "done"}
  BY DEF Kinds, Keeps, Ends, WorkerKinds, Held, Outcomes, Colours, Lives

\* A drain's answer is recorded in both tables.
LEMMA AnswerTyped ==
  ASSUME last \in [Drains -> [Features -> Ends]], NEW d \in Drains,
         NEW f \in Features, NEW o \in Outcomes, Answer(d, f, o)
  PROVE  last' \in [Drains -> [Features -> Ends]]
  BY KindsHold DEF Answer

\* Closing the interview's tasks keeps the domains, and a new head has no colour.
LEMMA ReconciledTyped ==
  ASSUME task \in [Tasks -> Lives], verdict \in [Features -> Colours]
  PROVE  /\ Reconciled \in [Tasks -> Lives] /\ Reheaded \in [Features -> Colours]
         /\ \A f \in Features : Reheaded[f] \in {verdict[f], None}
  BY KindsHold DEF Reconciled, Reheaded

\* No operation leaves the domains of the columns and of the local sets.
LEMMA DomainsKept == ASSUME Shape, Domains, [Next]_vars PROVE Domains'
<1> USE KindsHold DEF Domains, roadmap, signal, local, Goto
<1> Blank \in [Features -> Keeps] /\ Blank \in [Features -> Ends]
  BY DEF Blank
<1>1. ASSUME NEW d \in Drains, NEW s \in Scopes, Begin(d, s) PROVE Domains'
  <2>1. task' \in [Tasks -> Lives] /\ verdict' \in [Features -> Colours]
    BY <1>1, ReconciledTyped DEF Begin
  <2>2. CASE s \in Features \ Socles /\ SocleOpen
    BY <1>1, <2>1, <2>2 DEF Begin
  <2>3. CASE ~(s \in Features \ Socles /\ SocleOpen)
    BY ZenonT(60), <1>1, <2>1, <2>3 DEF Begin
  <2> QED
    BY <2>2, <2>3
<1>2. ASSUME NEW d \in Drains, Assign(d) PROVE Domains'
  BY <1>2 DEF Assign, Candidates
<1>3. ASSUME NEW d \in Drains, Collect(d) PROVE Domains'
  BY <1>3 DEF Collect, Answered
<1>4. ASSUME NEW d \in Drains, CollectRaises(d) PROVE Domains'
  BY <1>4 DEF CollectRaises, Answered
<1>5. ASSUME NEW d \in Drains, Check(d) \/ AssignOne(d) \/ Raise(d) PROVE Domains'
  BY <1>5 DEF Check, AssignOne, Raise
<1>6. ASSUME NEW d \in Drains, Join(d) PROVE Domains'
  BY <1>6 DEF Join, Complete
<1>7. ASSUME NEW d \in Drains, NEW f \in Features, Finalize(d, f) PROVE Domains'
  <2>1. CASE UNCHANGED <<verdict, alerts>>
    BY <1>7, <2>1 DEF Finalize
  <2>2. ASSUME NEW v \in {"green", "red"}, Settle(f, v) PROVE Domains'
    <3>1. verdict' \in [Features -> Colours] /\ alerts' \subseteq Features \X Kinds
      BY <2>2 DEF Settle
    <3>2. todo' \in [Drains -> SUBSET Features]
      BY <1>7 DEF Finalize
    <3> QED
      BY <1>7, <3>1, <3>2 DEF Finalize
  <2> QED
    BY <1>7, <2>1, <2>2 DEF Finalize
<1>8. ASSUME NEW d \in Drains, End(d) PROVE Domains'
  BY <1>8 DEF End
<1>9. ASSUME NEW d \in Drains, NEW f \in Features, Refuse(d, f) PROVE Domains'
  <2>1. last' \in [Drains -> [Features -> Ends]]
    BY <1>9, AnswerTyped DEF Refuse
  <2> QED
    BY <1>9, <2>1 DEF Refuse
<1>10. ASSUME NEW d \in Drains, NEW f \in Features, StartRun(d, f) PROVE Domains'
  BY <1>10 DEF StartRun
<1>11. ASSUME NEW d \in Drains, NEW f \in Features, FinishRun(d, f) PROVE Domains'
  <2>1. \E o \in Outcomes : Answer(d, f, o)
    BY <1>11 DEF FinishRun
  <2>2. last' \in [Drains -> [Features -> Ends]]
    BY <2>1, AnswerTyped
  <2>3. task' \in [Tasks -> Lives]
    BY SMTT(30), <1>11 DEF FinishRun, GiveBack
  <2>4. verdict' \in [Features -> Colours]
    BY <1>11 DEF FinishRun
  <2> QED
    BY <1>11, <2>2, <2>3, <2>4 DEF FinishRun
<1>12. ASSUME NEW f \in Features, Merge(f) PROVE Domains'
  BY <1>12 DEF Merge
<1>13. ASSUME NEW f \in Features, Refix(f) PROVE Domains'
  BY <1>13 DEF Refix, Settle
<1>14. ASSUME NEW t \in Tasks, AddTask(t) PROVE Domains'
  BY <1>14 DEF AddTask
<1>15. CASE Interview \/ Abort
  BY <1>15 DEF Interview, Abort
<1>16. CASE CloseSocle
  BY <1>16, ReconciledTyped DEF CloseSocle
<1>17. ASSUME NEW F \in SUBSET Features, Kill(F) PROVE Domains'
  <2>1. last' \in [Drains -> [Features -> Ends]]
    BY <1>17 DEF Kill
  <2>2. task' \in [Tasks -> Lives]
    BY <1>17 DEF Kill
  <2>3. cut' \subseteq Drains \X Features
    BY <1>17 DEF Kill
  <2> QED
    BY <1>17, <2>1, <2>2, <2>3 DEF Kill
<1>18. CASE UNCHANGED vars
  BY <1>18 DEF vars
<1> QED
  BY SMTT(30), <1>1, <1>2, <1>3, <1>4, <1>5, <1>6, <1>7, <1>8, <1>9, <1>10, <1>11, <1>12,
     <1>13, <1>14, <1>15, <1>16, <1>17, <1>18 DEF Next, Loop, Close, Thread

\* Every writer of a colour or of a gate's alert writes both: finalize_feature
\* and the correction settle them together, a new head has no colour, a merge
\* closes both, and the other alerts are of another kind.
LEMMA AlertsKept ==
  ASSUME Shape, Domains, AlertTells, [Next]_vars PROVE AlertTells'
<1> USE KindsHold, DistinctAssumption DEF AlertTells, Domains, roadmap, signal,
      local
<1>1. ASSUME UNCHANGED verdict,
             \A f \in Features : <<f, "gate_red">> \in alerts' <=> <<f, "gate_red">> \in alerts
      PROVE  AlertTells'
  BY <1>1
<1>2. ASSUME UNCHANGED alerts, \A f \in Features : verdict'[f] \in {verdict[f], None}
      PROVE  AlertTells'
  BY <1>2
<1>3. ASSUME NEW f \in Features, NEW v \in {"green", "red"}, Settle(f, v)
      PROVE  AlertTells'
  BY <1>3 DEF Settle
<1>4. ASSUME NEW d \in Drains, NEW s \in Scopes, Begin(d, s) PROVE AlertTells'
  <2>1. \A f \in Features : verdict'[f] \in {verdict[f], None}
    BY <1>4, ReconciledTyped DEF Begin
  <2>2. alerts' = alerts \/ alerts' = alerts \cup {<<s, "socle_hold">>}
    BY <1>4 DEF Begin
  <2>3. \A f \in Features : <<f, "gate_red">> # <<s, "socle_hold">>
    OBVIOUS
  <2>4. \A f \in Features : <<f, "gate_red">> \in alerts' <=> <<f, "gate_red">> \in alerts
    <3>1. CASE alerts' = alerts
      BY <3>1
    <3>2. CASE alerts' = alerts \cup {<<s, "socle_hold">>}
      BY <2>3, <3>2
    <3> QED
      BY <2>2, <3>1, <3>2
  <2> QED
    BY <2>1, <2>4
<1>5. ASSUME NEW d \in Drains, Assign(d) PROVE AlertTells'
  BY <1>1, <1>5 DEF Assign
<1>6. ASSUME NEW d \in Drains, Collect(d) \/ CollectRaises(d) PROVE AlertTells'
  <2>1. PICK B \in SUBSET {f \in Answered(d) : run[d][f] \in Held} :
          alerts' = alerts \cup {<<f, run[d][f]>> : f \in B}
    BY <1>6 DEF Collect, CollectRaises
  <2>2. \A f \in B : run[d][f] # "gate_red"
    OBVIOUS
  <2>3. \A f \in Features : <<f, "gate_red">> \in alerts' <=> <<f, "gate_red">> \in alerts
    BY <2>1, <2>2
  <2> QED
    BY <1>1, <1>6, <2>3 DEF Collect, CollectRaises
<1>7. ASSUME NEW d \in Drains, End(d) PROVE AlertTells'
  BY <1>1, <1>7 DEF End
<1>8. ASSUME NEW d \in Drains, NEW f \in Features, StartRun(d, f) PROVE AlertTells'
  BY ZenonT(60), <1>2, <1>8 DEF StartRun
<1>9. ASSUME NEW d \in Drains, NEW f \in Features, FinishRun(d, f) PROVE AlertTells'
  BY <1>2, <1>9 DEF FinishRun
<1>10. ASSUME NEW f \in Features, Merge(f) PROVE AlertTells'
  BY <1>10 DEF Merge
<1>11. CASE CloseSocle
  BY <1>2, <1>11, ReconciledTyped DEF CloseSocle
<1>12. ASSUME NEW d \in Drains, NEW f \in Features, Finalize(d, f) PROVE AlertTells'
  BY <1>3, <1>12 DEF Finalize
<1>13. ASSUME NEW f \in Features, Refix(f) PROVE AlertTells'
  BY <1>3, <1>13 DEF Refix
<1>14. CASE UNCHANGED <<verdict, alerts>>
  BY <1>14
<1> HIDE DEF AlertTells
<1> QED
  BY <1>4, <1>5, <1>6, <1>7, <1>8, <1>9, <1>10, <1>11, <1>12, <1>13, <1>14
  DEF Next, vars, Loop, Close, Thread, Check, AssignOne, Raise, Join, Refuse,
      AddTask, Interview, Abort, Kill

\* The first state has its type.
LEMMA TypeInit == Init => TypeOK
<1> SUFFICES ASSUME Init PROVE TypeOK
  OBVIOUS
<1>1. Shape
  BY InitHolds DEF GInv
<1>2. Domains
  BY KindsHold DEF Init, Blank, Domains
<1> QED
  BY <1>1, <1>2, TypeParts

\* Every step keeps it.
LEMMA TypeKept == TypeOK /\ [Next]_vars => TypeOK'
<1> SUFFICES ASSUME TypeOK, [Next]_vars PROVE TypeOK'
  OBVIOUS
<1>1. Shape' /\ Domains'
  BY ShapeKept, DomainsKept, TypeParts
<1>2. TypeOK' <=> Shape' /\ Domains'
  BY TypeParts, PTL
<1> QED
  BY <1>1, <1>2

\* The gate's badge tells the truth and every column keeps its domain, for any
\* number of drains, corrections and merges that settle the same feature.
THEOREM GateAlertHolds == Spec => []GateAlert
<1> DEFINE Inv == TypeOK /\ AlertTells
<1>1. Init => Inv
  <2> SUFFICES ASSUME Init PROVE Inv
    OBVIOUS
  <2>1. AlertTells
    BY DistinctAssumption DEF Init, Blank, AlertTells
  <2> QED
    BY <2>1, TypeInit
<1>2. Inv /\ [Next]_vars => Inv'
  BY TypeKept, AlertsKept, TypeParts
<1>3. Inv => GateAlert
  BY DEF GateAlert, AlertTells
<1> QED
  BY <1>1, <1>2, <1>3, PTL DEF Spec

(***************************************************************************)
(* The DAG of the features                                                 *)
(***************************************************************************)

\* Features whose roadmap does not grow, and projects where only those are
\* wanted: run_feature reopens a merged feature that was given a task, while
\* the features that want it may be at work.
Fixed         == Features \ {FeatureOf[t] : t \in Later}
WantsAreFixed == \A f \in Features : Wants[f] \subseteq Fixed

Full(f) == \A t \in Tasks : FeatureOf[t] = f => task[t] = "done"

\* A drain that has nothing to run has no future.
IdleIsBlank ==
  \A d \in Drains, f \in Features : pc[d] \in {"idle", "finalize"} => run[d][f] = None

\* A run works on a task of its feature, not on the socle, and the task is
\* its own.
WorkIsTaken ==
  \A d \in Drains, f \in Features : run[d][f] \in Tasks =>
    /\ FeatureOf[run[d][f]] = f /\ f \notin Socles
    /\ f \in Fixed => task[run[d][f]] = "in_progress"

WorkIsOwned ==
  \A d, e \in Drains : \A f \in Fixed :
    run[d][f] \in Tasks /\ run[e][f] = run[d][f] => d = e

\* A feature that does not grow has a verdict, is finalised or merged only when
\* all its tasks are done.
FixedIsFull ==
  \A f \in Fixed : \/ verdict[f] # None
                   \/ f \in merged
                   \/ \E d \in Drains : f \in todo[d]
                   => Full(f)

AbsentIsLater == \A t \in Tasks : task[t] = "absent" => t \in Later

WantsAreMerged ==
  \A d \in Drains, f \in Features :
    scope[d] = Whole /\ run[d][f] \in Tasks \cup {"queued"} => Wants[f] \subseteq merged

DInv == /\ TypeOK /\ IdleIsBlank /\ WorkIsTaken /\ WorkIsOwned /\ FixedIsFull
        /\ AbsentIsLater /\ WantsAreMerged

\* Who gives a future a task or puts it in the queue.
LEMMA RunMoves ==
  ASSUME Shape, [Next]_vars, NEW d \in Drains, NEW f \in Features,
         run'[d][f] \in Tasks \cup {"queued"}
  PROVE  \/ run'[d][f] = run[d][f]
         \/ StartRun(d, f)
         \/ Assign(d) /\ f \in Candidates(d)
         \/ AssignOne(d)
<1> DEFINE Goal == \/ run'[d][f] = run[d][f]
                   \/ StartRun(d, f)
                   \/ Assign(d) /\ f \in Candidates(d)
                   \/ AssignOne(d)
<1> USE DistinctAssumption DEF Shape, local
<1>0. None \notin Tasks \cup {"queued"} /\ "queued" \notin Outcomes
      /\ \A o \in Outcomes : o \notin Tasks \cup {"queued"}
  BY DEF Outcomes, Held
<1>1. ASSUME NEW e \in Drains, Assign(e) PROVE Goal
  <2>1. PICK S \in SUBSET Candidates(e) : Submit(e, S)
    BY <1>1 DEF Assign
  <2> QED
    BY <1>1, <2>1 DEF Submit
<1>2. ASSUME NEW e \in Drains, AssignOne(e) PROVE Goal
  BY <1>2 DEF AssignOne, Submit
<1>3. ASSUME NEW e \in Drains, Collect(e) \/ Raise(e) \/ Join(e) PROVE Goal
  BY <1>0, <1>3 DEF Collect, Raise, Join, Blank
<1>4. ASSUME NEW e \in Drains, NEW g \in Features, NEW o \in Outcomes,
             Answer(e, g, o)
      PROVE  Goal
  BY <1>0, <1>4 DEF Answer
<1>5. ASSUME NEW e \in Drains, NEW g \in Features, Refuse(e, g) \/ FinishRun(e, g)
      PROVE  Goal
  <2>1. \E o \in Outcomes : Answer(e, g, o)
    BY <1>5, KindsHold DEF Refuse, FinishRun
  <2> QED
    BY <1>4, <2>1
<1>6. ASSUME NEW e \in Drains, NEW g \in Features, StartRun(e, g) PROVE Goal
  <2>1. CASE e = d /\ g = f
    BY <1>6, <2>1
  <2>2. CASE ~(e = d /\ g = f)
    BY <1>6, <2>2 DEF StartRun
  <2> QED
    BY <2>1, <2>2
<1>7. ASSUME NEW F \in SUBSET Features, Kill(F) PROVE Goal
  BY <1>0, <1>7, KindsHold DEF Kill
<1>8. ASSUME run' = run PROVE Goal
  BY <1>8
<1> HIDE DEF Goal, Shape
<1>9. Goal
  BY <1>1, <1>2, <1>3, <1>5, <1>6, <1>7, <1>8 DEF Next, vars, Loop, Close,
     Thread, Begin, Check, CollectRaises, Finalize, End, Merge, Refix, AddTask,
     Interview, CloseSocle, Abort
<1> QED
  BY <1>9 DEF Goal

\* What may happen to the status of a task, and by whom.
LEMMA TaskMoves ==
  ASSUME TypeOK, [Next]_vars, NEW t \in Tasks, task'[t] # task[t]
  PROVE  \/ FeatureOf[t] \in Socles /\ task'[t] = "done"
         \/ task[t] = "todo" /\ task'[t] = "in_progress"
         \/ task[t] = "absent" /\ task'[t] = "todo"
         \/ task[t] = "in_progress" /\ task'[t] = "done" /\ Merge(FeatureOf[t])
         \/ /\ task'[t] # "absent"
            /\ \E d \in Drains, f \in Features :
                 run[d][f] = t /\ run'[d][f] \in Outcomes
<1> DEFINE Goal == \/ FeatureOf[t] \in Socles /\ task'[t] = "done"
                   \/ task[t] = "todo" /\ task'[t] = "in_progress"
                   \/ task[t] = "absent" /\ task'[t] = "todo"
                   \/ /\ task[t] = "in_progress" /\ task'[t] = "done"
                      /\ Merge(FeatureOf[t])
                   \/ /\ task'[t] # "absent"
                      /\ \E d \in Drains, f \in Features :
                           run[d][f] = t /\ run'[d][f] \in Outcomes
<1> SUFFICES ASSUME task'[t] # task[t] PROVE Goal
  OBVIOUS
<1>0. /\ task \in [Tasks -> Lives] /\ run \in [Drains -> [Features -> Marks]]
      /\ FeatureOf[t] \in Features
  BY TypeParts, OrchestratorAssumption DEF Shape, Domains
<1>1. ASSUME task' = Reconciled PROVE Goal
  BY <1>0, <1>1 DEF Reconciled, TasksOf
<1>2. ASSUME NEW d \in Drains, NEW f \in Features, StartRun(d, f) PROVE Goal
  BY <1>0, <1>2 DEF StartRun, Ready
<1>3. ASSUME NEW d \in Drains, NEW f \in Features, FinishRun(d, f) PROVE Goal
  <2>1. run[d][f] = t /\ task'[t] # "absent"
    BY <1>0, <1>3 DEF FinishRun, GiveBack
  <2>2. \E o \in Outcomes : Answer(d, f, o)
    BY <1>3, KindsHold DEF FinishRun
  <2>3. run'[d][f] \in Outcomes
    BY <1>0, <2>2 DEF Answer
  <2> QED
    BY <2>1, <2>3
<1>4. ASSUME NEW f \in Features, Merge(f) PROVE Goal
  <2>1. FeatureOf[t] = f /\ task[t] = "in_progress" /\ task'[t] = "done"
    BY <1>0, <1>4 DEF Merge
  <2> QED
    BY <1>4, <2>1
<1>5. ASSUME NEW u \in Tasks, AddTask(u) PROVE Goal
  BY <1>0, <1>5 DEF AddTask
<1>6. ASSUME NEW F \in SUBSET Features, Kill(F) PROVE Goal
  <2>0. task'[t] = "todo"
    BY <1>0, <1>6 DEF Kill
  <2>1. PICK c \in Drains \X F : run[c[1]][c[2]] = t /\ run[c[1]][c[2]] \in Tasks
    BY <1>0, <1>6 DEF Kill
  <2>2. PICK o \in Outcomes : run' = [d \in Drains |-> [f \in Features |->
           IF <<d, f>> \in {x \in Drains \X F : run[x[1]][x[2]] \in Tasks}
           THEN o ELSE run[d][f]]]
    BY <1>6, KindsHold DEF Kill
  <2>3. c[1] \in Drains /\ c[2] \in Features /\ c = <<c[1], c[2]>>
    OBVIOUS
  <2>4. run'[c[1]][c[2]] = o
    BY <2>1, <2>2, <2>3
  <2> QED
    BY <2>0, <2>1, <2>3, <2>4
<1>7. ASSUME task' = task PROVE FALSE
  BY <1>7
<1> HIDE DEF Goal
<1>8. Goal
  BY ZenonT(60), <1>1, <1>2, <1>3, <1>4, <1>5, <1>6, <1>7 DEF Next, vars, roadmap, Loop,
     Close, Thread, Begin, Check, Assign, AssignOne, Collect, CollectRaises,
     Raise, Join, Finalize, End, Refuse, Refix, Interview, CloseSocle, Abort
<1> QED
  BY <1>8 DEF Goal


\* A drain's futures are gone when it leaves its pool.
LEMMA IdleKept == ASSUME Shape, IdleIsBlank, [Next]_vars PROVE IdleIsBlank'
<1> USE DistinctAssumption DEF IdleIsBlank, local, Goto
<1> USE DEF Shape
<1>1. ASSUME NEW d \in Drains, NEW s \in Scopes, Begin(d, s) PROVE IdleIsBlank'
  BY <1>1 DEF Begin
<1>2. ASSUME NEW d \in Drains, Check(d) \/ Assign(d) \/ AssignOne(d) \/ Collect(d)
      PROVE  IdleIsBlank'
  BY <1>2 DEF Check, Assign, AssignOne, Submit, Collect
<1>3. ASSUME NEW d \in Drains, CollectRaises(d) \/ Raise(d) \/ Join(d) \/ End(d)
      PROVE  IdleIsBlank'
  BY <1>3 DEF CollectRaises, Raise, Join, End, Blank
<1>4. ASSUME NEW d \in Drains, NEW f \in Features, Thread(d, f) PROVE IdleIsBlank'
  BY <1>4 DEF Thread, Refuse, StartRun, FinishRun, Answer
<1>5. ASSUME NEW F \in SUBSET Features, Kill(F) PROVE IdleIsBlank'
  BY <1>5 DEF Kill
<1>6. ASSUME UNCHANGED <<pc, run>> PROVE IdleIsBlank'
  BY <1>6 <1> HIDE DEF IdleIsBlank
<1> QED
  BY <1>1, <1>2, <1>3, <1>4, <1>5, <1>6 DEF Next, vars, Loop, Close, Finalize,
     Merge, Refix, AddTask, Interview, CloseSocle, Abort

\* What a run of a fixed feature holds is in progress until the run answers.
LEMMA WorkKept ==
  ASSUME PureSocle, DInv, [Next]_vars PROVE WorkIsTaken' /\ WorkIsOwned'
<1> USE DistinctAssumption
<1>0. Shape /\ task \in [Tasks -> Lives]
  BY TypeParts DEF DInv, Domains
<1>1. ASSUME NEW d \in Drains, NEW f \in Features, run'[d][f] \in Tasks
      PROVE  run'[d][f] = run[d][f] \/ StartRun(d, f)
  <2>1. ASSUME NEW S, Submit(d, S) PROVE run'[d][f] = run[d][f]
    BY <1>0, <1>1, <2>1 DEF Submit, Shape
  <2>2. Assign(d) \/ AssignOne(d) => run' = run \/ \E S : Submit(d, S)
    BY DEF Assign, AssignOne
  <2>3. \/ run'[d][f] = run[d][f] \/ StartRun(d, f)
        \/ Assign(d) \/ AssignOne(d)
    BY <1>0, <1>1, RunMoves
  <2> QED
    BY <2>1, <2>2, <2>3
<1>2. ASSUME NEW d \in Drains, NEW f \in Features, StartRun(d, f)
      PROVE  /\ run'[d][f] \in Ready(f) \ Interactive
             /\ task'[run'[d][f]] = "in_progress"
             /\ \A e \in Drains, g \in Features :
                  ~(e = d /\ g = f) => run'[e][g] = run[e][g]
  BY <1>0, <1>2 DEF StartRun, Shape, Ready, TasksOf
<1>3. ASSUME NEW d \in Drains, NEW f \in Fixed, run[d][f] \in Tasks,
             run'[d][f] = run[d][f]
      PROVE  task'[run[d][f]] = "in_progress"
  <2>1. /\ f \in Features /\ f \notin Socles /\ FeatureOf[run[d][f]] = f
        /\ task[run[d][f]] = "in_progress"
    BY <1>3 DEF Fixed, DInv, WorkIsTaken
  <2>2. ~Merge(f)
    BY <1>3, <2>1 DEF Merge, DInv, FixedIsFull, Full
  <2>3. ASSUME NEW e \in Drains, NEW g \in Features, run[e][g] = run[d][f]
        PROVE  run'[e][g] \notin Outcomes
    BY <1>3, <2>1, <2>3 DEF DInv, WorkIsTaken, WorkIsOwned
  <2> QED
    BY <1>3, <2>1, <2>2, <2>3, TaskMoves DEF DInv
<1>4. WorkIsTaken'
  <2> SUFFICES ASSUME NEW d \in Drains, NEW f \in Features, run'[d][f] \in Tasks
               PROVE  /\ FeatureOf[run'[d][f]] = f /\ f \notin Socles
                      /\ f \in Fixed => task'[run'[d][f]] = "in_progress"
    BY DEF WorkIsTaken
  <2>1. CASE StartRun(d, f)
    BY <1>2, <2>1 DEF Ready, TasksOf, PureSocle
  <2>2. CASE run'[d][f] = run[d][f]
    BY <1>3, <2>2 DEF DInv, WorkIsTaken
  <2> QED
    BY <1>1, <2>1, <2>2
<1>5. WorkIsOwned'
  <2> SUFFICES ASSUME NEW d \in Drains, NEW e \in Drains, NEW f \in Fixed,
                      run'[d][f] \in Tasks, run'[e][f] = run'[d][f], d # e
               PROVE  FALSE
    BY DEF WorkIsOwned
  <2>0. f \in Features
    BY DEF Fixed
  <2>1. ASSUME NEW x \in Drains, NEW y \in Drains, x # y, StartRun(x, f),
               run'[x][f] = run'[y][f], run'[y][f] \in Tasks
        PROVE  FALSE
    <3>1. run[y][f] = run'[x][f] /\ task[run'[x][f]] = "todo"
      BY <1>2, <2>0, <2>1 DEF Ready
    <3> QED
      BY <2>0, <2>1, <3>1 DEF DInv, WorkIsTaken
  <2>2. run'[d][f] = run[d][f] /\ run'[e][f] = run[e][f]
    BY <1>1, <2>0, <2>1
  <2> QED
    BY <2>2 DEF DInv, WorkIsOwned
<1> QED
  BY <1>4, <1>5

\* Who changes the merged features.
LEMMA MergedMoves ==
  ASSUME [Next]_vars
  PROVE  \/ merged' = merged
         \/ \E f \in Features : Merge(f)
         \/ \E d \in Drains, f \in Features : StartRun(d, f) /\ merged' = merged \ {f}
<1> DEFINE Goal == \/ merged' = merged
                   \/ \E f \in Features : Merge(f)
                   \/ \E d \in Drains, f \in Features :
                        StartRun(d, f) /\ merged' = merged \ {f}
<1> USE DEF roadmap, signal, local
<1>1. ASSUME NEW d \in Drains, NEW f \in Features, StartRun(d, f) PROVE Goal
  <2>1. merged' = merged \ {f}
    BY <1>1 DEF StartRun
  <2> QED
    BY <1>1, <2>1
<1>2. ASSUME NEW f \in Features, Merge(f) PROVE Goal
  BY <1>2
<1>3. ASSUME merged' = merged PROVE Goal
  BY <1>3
<1> HIDE DEF Goal
<1>4. Goal
  BY ZenonT(60), <1>1, <1>2, <1>3 DEF Next, vars, Loop, Close, Thread, Begin, Check, Assign,
     AssignOne, Collect, CollectRaises, Raise, Join, Finalize, End, Refuse,
     FinishRun, Refix, AddTask, Interview, CloseSocle, Abort, Kill
<1> QED
  BY <1>4 DEF Goal

\* Only the start of a drain chooses its scope.
LEMMA ScopeMoves ==
  ASSUME [Next]_vars
  PROVE  scope' = scope \/ \E d \in Drains, s \in Scopes : Begin(d, s)
BY ZenonT(60) DEF Next, vars, local, Loop, Close, Thread, Check, Assign, AssignOne,
   Collect, CollectRaises, Raise, Join, Finalize, End, Refuse, StartRun,
   FinishRun, Merge, Refix, AddTask, Interview, CloseSocle, Abort, Kill

\* A fixed feature that is full stays full: nothing gives back a closed task
\* that nobody works on.
LEMMA FullStays ==
  ASSUME DInv, [Next]_vars, NEW f \in Fixed, Full(f) PROVE Full(f)'
<1> SUFFICES ASSUME NEW t \in Tasks, FeatureOf[t] = f, task'[t] # "done"
             PROVE  FALSE
  BY DEF Full
<1>1. task[t] = "done"
  BY DEF Full
<1>2. ASSUME NEW e \in Drains, NEW g \in Features, run[e][g] = t PROVE FALSE
  BY <1>1, <1>2 DEF DInv, WorkIsTaken
<1> QED
  BY <1>1, <1>2, TaskMoves DEF DInv

\* A verdict, a place in the list of finalisations and a merge are given to a
\* feature that is full at that moment.
LEMMA FullKept ==
  ASSUME DInv, [Next]_vars PROVE FixedIsFull' /\ AbsentIsLater'
<1> USE DistinctAssumption
<1>0. Shape /\ Domains
  BY TypeParts DEF DInv
<1>1. AbsentIsLater'
  <2> SUFFICES ASSUME NEW t \in Tasks, task'[t] = "absent" PROVE t \in Later
    BY DEF AbsentIsLater
  <2>1. task[t] = "absent"
    BY TaskMoves DEF DInv
  <2> QED
    BY <2>1 DEF DInv, AbsentIsLater
<1>2. ASSUME NEW f \in Fixed, verdict'[f] # None,
             verdict[f] = None
      PROVE  \E d \in Drains : f \in todo[d]
  <2>0. f \in Features
    BY DEF Fixed
  <2>1. ASSUME task' = Reconciled, verdict' = Reheaded PROVE FALSE
    BY <1>0, <1>2, <2>0, <2>1, ReconciledTyped DEF Domains
  <2>2. ASSUME NEW d \in Drains, NEW g \in Features, Finalize(d, g)
        PROVE  f \in todo[d]
    BY <1>0, <1>2, <2>0, <2>2 DEF Finalize, Settle, Domains
  <2>3. ASSUME NEW d \in Drains, NEW g \in Features, StartRun(d, g) \/ FinishRun(d, g)
        PROVE  FALSE
    BY <1>0, <1>2, <2>0, <2>3 DEF StartRun, FinishRun, Domains
  <2>4. ASSUME NEW g \in Features, Merge(g) \/ Refix(g) PROVE FALSE
    BY <1>0, <1>2, <2>0, <2>4 DEF Merge, Refix, Settle, Domains
  <2>5. ASSUME UNCHANGED verdict PROVE FALSE
    BY <1>2, <2>5
  <2> QED
    BY ZenonT(60), <2>1, <2>2, <2>3, <2>4, <2>5 DEF Next, vars, roadmap, Loop, Close, Thread,
       Begin, Check, Assign, AssignOne, Collect, CollectRaises, Raise, Join,
       End, Refuse, AddTask, Interview, CloseSocle, Abort, Kill
<1>3. ASSUME NEW f \in Fixed, f \in merged', f \notin merged PROVE verdict[f] # None
  <2>1. PICK g \in Features : Merge(g)
    BY <1>3, MergedMoves
  <2>2. g = f
    BY <1>3, <2>1 DEF Merge
  <2> QED
    BY <2>1, <2>2, DistinctAssumption DEF Merge
<1>4. ASSUME NEW f \in Fixed, NEW d \in Drains, f \in todo'[d], f \notin todo[d]
      PROVE  Full(f)
  <2>1. ASSUME NEW e \in Drains, NEW g \in Features, Finalize(e, g) PROVE FALSE
    BY <1>0, <1>4, <2>1 DEF Finalize, Domains
  <2>2. ASSUME NEW e \in Drains, Join(e) PROVE f \in Complete(e)
    BY <1>0, <1>4, <2>2 DEF Join, Domains
  <2>3. ASSUME UNCHANGED todo PROVE FALSE
    BY <1>4, <2>3
  <2>4. PICK e \in Drains : f \in Complete(e)
    BY ZenonT(60), <2>1, <2>2, <2>3 DEF Next, vars, roadmap, local, signal, Loop, Close,
       Thread, Begin, Check, Assign, AssignOne, Collect, CollectRaises, Raise,
       End, Refuse, StartRun, FinishRun, Merge, Refix, AddTask, Interview,
       CloseSocle, Abort, Kill
  <2> QED
    BY <2>4 DEF Complete, TasksOf, Full, Fixed, DInv, AbsentIsLater
<1>5. FixedIsFull'
  <2> SUFFICES ASSUME NEW f \in Fixed,
                      \/ verdict'[f] # None
                      \/ f \in merged'
                      \/ \E d \in Drains : f \in todo'[d]
               PROVE  Full(f)'
    BY DEF FixedIsFull
  <2>1. Full(f)
    BY <1>2, <1>3, <1>4 DEF DInv, FixedIsFull
  <2> QED
    BY <2>1, FullStays
<1> QED
  BY <1>1, <1>5

\* A drain of the project starts a feature over merged ones, and what is merged
\* and full is not started again.
LEMMA WantsKept ==
  ASSUME WantsAreFixed, DInv, [Next]_vars PROVE WantsAreMerged'
<1> USE DistinctAssumption
<1>0. Shape
  BY TypeParts DEF DInv
<1> SUFFICES ASSUME NEW d \in Drains, NEW f \in Features, scope'[d] = Whole,
                    run'[d][f] \in Tasks \cup {"queued"}, NEW g \in Wants[f]
             PROVE  g \in merged'
  BY DEF WantsAreMerged
<1>1. scope[d] = Whole
  <2>1. ASSUME NEW s \in Scopes, Begin(d, s) PROVE FALSE
    BY <1>0, <2>1 DEF Begin, Shape, DInv, IdleIsBlank
  <2>2. ASSUME NEW e \in Drains, NEW s \in Scopes, Begin(e, s), e # d
        PROVE  scope'[d] = scope[d]
    BY <1>0, <2>2 DEF Begin, Shape, local
  <2> QED
    BY <2>1, <2>2, ScopeMoves
<1>2. g \in merged
  <2>1. CASE run[d][f] \in Tasks \cup {"queued"}
    BY <1>1, <2>1 DEF DInv, WantsAreMerged
  <2>2. CASE Assign(d) /\ f \in Candidates(d)
    BY <2>2 DEF Candidates
  <2>3. CASE StartRun(d, f)
    BY <1>1, <2>3 DEF StartRun, DInv, WantsAreMerged
  <2>4. ~AssignOne(d)
    BY <1>1, OrchestratorAssumption DEF AssignOne
  <2> QED
    BY <1>0, <2>1, <2>2, <2>3, <2>4, RunMoves
<1>3. g \in Fixed /\ Full(g)
  BY <1>2 DEF WantsAreFixed, DInv, FixedIsFull
<1>4. \A e \in Drains : ~StartRun(e, g)
  BY <1>3 DEF StartRun, Ready, TasksOf, Full
<1>5. ASSUME NEW h \in Features, Merge(h) PROVE g \in merged'
  BY <1>2, <1>5 DEF Merge
<1> QED
  BY <1>2, <1>4, <1>5, MergedMoves

\* Nothing is at work, complete or merged at first.
LEMMA DInvInit == Init => DInv
<1> SUFFICES ASSUME Init PROVE DInv
  OBVIOUS
<1> USE DistinctAssumption DEF Init, Blank
<1>1. TypeOK
  BY TypeInit
<1>2. \A d \in Drains, f \in Features : run[d][f] = None
  OBVIOUS
<1>3. IdleIsBlank /\ WorkIsTaken /\ WorkIsOwned
  BY <1>2 DEF IdleIsBlank, WorkIsTaken, WorkIsOwned, Fixed
<1>4. FixedIsFull
  BY DEF FixedIsFull, Fixed
<1>5. AbsentIsLater
  BY DEF AbsentIsLater
<1>6. WantsAreMerged
  BY <1>2 DEF WantsAreMerged
<1> QED
  BY <1>1, <1>2, <1>3, <1>4, <1>5, <1>6 DEF DInv

\* A drain of the project works on a feature only over merged ones, for every
\* project whose socle is pure and whose wanted features do not grow.
THEOREM DependenciesFirstHolds ==
  ASSUME PureSocle, WantsAreFixed PROVE Spec => []DependenciesFirst
<1>1. DInv /\ [Next]_vars => DInv'
  <2> SUFFICES ASSUME DInv, [Next]_vars PROVE DInv'
    OBVIOUS
  <2>1. TypeOK'
    BY TypeKept DEF DInv
  <2> QED
    BY <2>1, IdleKept, WorkKept, FullKept, WantsKept, TypeParts DEF DInv
<1>2. DInv => DependenciesFirst
  BY DEF DInv, WantsAreMerged, DependenciesFirst
<1> QED
  BY <1>1, <1>2, DInvInit, PTL DEF Spec

(***************************************************************************)
(* What an abort killed stays down                                         *)
(***************************************************************************)

\* The drain of one feature has at most one future, and collects it before it
\* looks at the roadmap again.
FeatureDrainWaits ==
  \A d \in Drains : scope[d] \in Features =>
    /\ pc[d] \in {"check", "assign"} => \A f \in Features : run[d][f] = None
    /\ \A f \in Features : f # scope[d] => run[d][f] = None

\* What was cut is not at work; while the drain goes on it is either still to
\* be reported or kept out.
CutIsDown ==
  \A d \in Drains, f \in Features : <<d, f>> \in cut =>
    /\ run[d][f] \notin Tasks \cup {"queued"}
    /\ Looping(d) => \/ run[d][f] \in Held
                     \/ scope[d] = Whole /\ kept[d][f] # None

OneDrain == \A c, d \in Drains : c = d

KInv == TypeOK /\ IdleIsBlank /\ FeatureDrainWaits /\ CutIsDown

\* The drain of a feature submits to an empty pool and collects what it gets.
LEMMA FeatureDrainKept ==
  ASSUME Shape, IdleIsBlank, FeatureDrainWaits, [Next]_vars
  PROVE  FeatureDrainWaits'
<1> USE OrchestratorAssumption, DistinctAssumption
    DEF FeatureDrainWaits, Shape, local, Goto
<1>1. ASSUME NEW d \in Drains, NEW s \in Scopes, Begin(d, s)
      PROVE  FeatureDrainWaits'
  BY SMTT(30), <1>1 DEF Begin, IdleIsBlank
<1>2. ASSUME NEW d \in Drains, Check(d) PROVE FeatureDrainWaits'
  BY <1>2 DEF Check
<1>3. ASSUME NEW d \in Drains, Assign(d) PROVE FeatureDrainWaits'
  BY <1>3 DEF Assign, Submit
<1>4. ASSUME NEW d \in Drains, AssignOne(d) PROVE FeatureDrainWaits'
  BY <1>4 DEF AssignOne, Submit
<1>5. ASSUME NEW d \in Drains, Collect(d) PROVE FeatureDrainWaits'
  <2>1. \A e \in Drains, f \in Features :
          run'[e][f] = IF e = d /\ f \in Answered(d) THEN None ELSE run[e][f]
    BY <1>5 DEF Collect
  <2>2. \A e \in Drains : e # d => pc'[e] = pc[e]
    BY <1>5 DEF Collect
  <2>3. pc[d] = "wait" /\ pc'[d] \in {"join", "check"} /\ scope' = scope
        /\ Answered(d) # {}
    BY <1>5 DEF Collect
  <2>4. scope[d] \in Features => \A f \in Answered(d) : f = scope[d]
    BY DEF Answered, Outcomes
  <2> QED
    BY <2>1, <2>2, <2>3, <2>4
<1>6. ASSUME NEW d \in Drains, CollectRaises(d) \/ Raise(d) \/ Join(d) \/ End(d)
      PROVE  FeatureDrainWaits'
  BY <1>6 DEF CollectRaises, Raise, Join, End, Blank
<1>7. ASSUME NEW d \in Drains, NEW f \in Features, Thread(d, f)
      PROVE  FeatureDrainWaits'
  <2>1. run[d][f] # None /\ UNCHANGED <<pc, scope>>
    BY <1>7 DEF Thread, Refuse, StartRun, FinishRun
  <2>2. \A e \in Drains, g \in Features : ~(e = d /\ g = f) => run'[e][g] = run[e][g]
    BY <1>7 DEF Thread, Refuse, StartRun, FinishRun, Answer
  <2> QED
    BY <2>1, <2>2
<1>8. ASSUME NEW F \in SUBSET Features, Kill(F) PROVE FeatureDrainWaits'
  <2>1. \A e \in Drains, g \in Features : run[e][g] = None => run'[e][g] = None
    BY <1>8 DEF Kill
  <2>2. UNCHANGED <<pc, scope>>
    BY <1>8 DEF Kill
  <2> QED
    BY <2>1, <2>2
<1>9. ASSUME UNCHANGED <<pc, run, scope>> PROVE FeatureDrainWaits'
  BY <1>9
<1> HIDE DEF FeatureDrainWaits
<1> QED
  BY <1>1, <1>2, <1>3, <1>4, <1>5, <1>6, <1>7, <1>8, <1>9 DEF Next, vars, Loop,
     Close, Finalize, Merge, Refix, AddTask, Interview, CloseSocle, Abort

\* A drain goes on only from its loop or its start, which forgets what was cut.
LEMMA LoopMoves ==
  ASSUME Shape, [Next]_vars, NEW d \in Drains, Looping(d)'
  PROVE  \/ \E s \in Scopes : Begin(d, s) /\ \A f \in Features : <<d, f>> \notin cut'
         \/ Looping(d) /\ scope'[d] = scope[d]
<1> DEFINE Goal == \/ \E s \in Scopes : Begin(d, s) /\ \A f \in Features : <<d, f>> \notin cut'
                   \/ Looping(d) /\ scope'[d] = scope[d]
<1> USE DEF Shape, local, Looping, Goto
<1>1. ASSUME NEW e \in Drains, NEW s \in Scopes, Begin(e, s) PROVE Goal
  <2>1. CASE e = d
    <3>1. pc[d] = "idle"
      BY <1>1, <2>1 DEF Begin
    <3>2. cut' = {c \in cut : c[1] # d}
      BY <1>1, <2>1, <3>1 DEF Begin
    <3> QED
      BY <1>1, <2>1, <3>2
  <2>2. CASE e # d
    BY <1>1, <2>2 DEF Begin
  <2> QED
    BY <2>1, <2>2
<1>2. ASSUME NEW e \in Drains, Loop(e) PROVE Goal
  BY <1>2 DEF Loop, Check, Assign, AssignOne, Collect, CollectRaises, Raise
<1>3. ASSUME NEW e \in Drains, Close(e) PROVE Goal
  BY <1>3 DEF Close, Join, Finalize, End
<1>4. ASSUME UNCHANGED <<pc, scope>> PROVE Goal
  BY <1>4
<1> HIDE DEF Goal, Looping
<1>5. Goal
  BY <1>1, <1>2, <1>3, <1>4 DEF Next, vars, Thread, Refuse, StartRun, FinishRun,
     Merge, Refix, AddTask, Interview, CloseSocle, Abort, Kill
<1> QED
  BY <1>5 DEF Goal

\* What is kept out stays out, and the report of a held run is kept out when it
\* is collected by a drain that goes on.
LEMMA HeldKept ==
  ASSUME Shape, Domains, FeatureDrainWaits, [Next]_vars, NEW d \in Drains,
         NEW f \in Features, Looping(d), Looping(d)',
         \/ run[d][f] \in Held
         \/ scope[d] = Whole /\ kept[d][f] # None
  PROVE  \/ run'[d][f] \in Held
         \/ scope[d] = Whole /\ kept'[d][f] # None
<1> DEFINE Goal == \/ run'[d][f] \in Held
                   \/ scope[d] = Whole /\ kept'[d][f] # None
<1> USE DEF Shape, Domains, local, Goto
<1>0. None \notin Held /\ "socle_hold" # None
      /\ \A m \in Held : m \notin Tasks \cup {"queued"}
  BY DistinctAssumption DEF WorkerKinds, Outcomes, Held
<1>1. ASSUME NEW e \in Drains, NEW s \in Scopes, Begin(e, s) PROVE Goal
  BY <1>1 DEF Begin, Looping
<1>2. ASSUME NEW e \in Drains, Assign(e) PROVE Goal
  <2>1. PICK S \in SUBSET Candidates(e) : Submit(e, S)
    BY <1>2 DEF Assign
  <2>2. run[d][f] \in Held => run'[d][f] = run[d][f]
    BY <1>0, <2>1 DEF Submit, Candidates
  <2>3. kept[d][f] # None => kept'[d][f] # None
    BY <1>0, <1>2 DEF Assign
  <2> QED
    BY <2>2, <2>3
<1>3. ASSUME NEW e \in Drains, AssignOne(e) PROVE Goal
  <2>1. CASE e = d
    <3>1. run[d][f] = None
      BY <1>3, <2>1 DEF AssignOne, FeatureDrainWaits
    <3> QED
      BY <1>0, <1>3, <3>1 DEF AssignOne
  <2>2. CASE e # d
    BY <1>3, <2>2 DEF AssignOne, Submit
  <2> QED
    BY <2>1, <2>2
<1>4. ASSUME NEW e \in Drains, Collect(e) PROVE Goal
  <2>1. CASE e # d
    BY <1>4, <2>1 DEF Collect
  <2>2. CASE e = d /\ run[d][f] \in Held
    <3>1. f \in Answered(d)
      BY <2>2, KindsHold DEF Answered
    <3>2. kept'[d][f] # None
      BY <1>0, <1>4, <2>2, <3>1 DEF Collect
    <3>3. scope[d] = Whole
      BY <1>4, <2>2, <3>1 DEF Collect, Looping
    <3> QED
      BY <3>2, <3>3
  <2>3. CASE e = d /\ run[d][f] \notin Held
    BY <1>0, <1>4, <2>3 DEF Collect
  <2> QED
    BY <2>1, <2>2, <2>3
<1>5. ASSUME NEW e \in Drains, Raise(e) \/ Join(e) PROVE Goal
  BY <1>5 DEF Raise, Join, Looping
<1>6. ASSUME NEW e \in Drains, NEW g \in Features, Thread(e, g) PROVE Goal
  <2>1. run[e][g] \in Tasks \cup {"queued"} /\ kept' = kept
    BY <1>6 DEF Thread, Refuse, StartRun, FinishRun
  <2>2. \A c \in Drains, h \in Features : ~(c = e /\ h = g) => run'[c][h] = run[c][h]
    BY <1>6 DEF Thread, Refuse, StartRun, FinishRun, Answer
  <2> QED
    BY <1>0, <2>1, <2>2
<1>7. ASSUME NEW F \in SUBSET Features, Kill(F) PROVE Goal
  <2>1. run'[d][f] = run[d][f] \/ run[d][f] \in Tasks
    BY <1>7 DEF Kill
  <2> QED
    BY <1>0, <1>7, <2>1 DEF Kill
<1>8. ASSUME UNCHANGED <<run, kept>> PROVE Goal
  BY <1>8
<1> HIDE DEF Goal
<1>9. Goal
  BY <1>1, <1>2, <1>3, <1>4, <1>5, <1>6, <1>7, <1>8 DEF Next, vars, Loop, Close,
     Check, CollectRaises, Finalize, End, Merge, Refix, AddTask, Interview,
     CloseSocle, Abort
<1> QED
  BY <1>9 DEF Goal

\* Only a kill adds to what was cut.
LEMMA CutMoves ==
  ASSUME [Next]_vars
  PROVE  cut' \subseteq cut \/ \E F \in SUBSET Features : Kill(F)
<1> DEFINE Goal == cut' \subseteq cut \/ \E F \in SUBSET Features : Kill(F)
<1> USE DEF signal
<1>1. ASSUME NEW d \in Drains, NEW s \in Scopes, Begin(d, s) PROVE Goal
  BY <1>1 DEF Begin
<1>2. ASSUME NEW F \in SUBSET Features, Kill(F) PROVE Goal
  BY <1>2
<1>3. ASSUME cut' = cut PROVE Goal
  BY <1>3
<1> HIDE DEF Goal
<1>4. Goal
  BY ZenonT(60), <1>1, <1>2, <1>3 DEF Next, vars, Loop, Close, Thread, Check, Assign,
     AssignOne, Collect, CollectRaises, Raise, Join, Finalize, End, Refuse,
     StartRun, FinishRun, Merge, Refix, AddTask, Interview, CloseSocle, Abort
<1> QED
  BY <1>4 DEF Goal

\* What a kill hits has answered; what is kept out or unreported is not queued.
LEMMA CutKept == ASSUME OneDrain, KInv, [Next]_vars PROVE CutIsDown'
<1> USE DistinctAssumption
<1>0. Shape /\ Domains
  BY TypeParts DEF KInv
<1> SUFFICES ASSUME NEW d \in Drains, NEW f \in Features, <<d, f>> \in cut'
             PROVE  /\ run'[d][f] \notin Tasks \cup {"queued"}
                    /\ Looping(d)' => \/ run'[d][f] \in Held
                                      \/ scope'[d] = Whole /\ kept'[d][f] # None
  BY DEF CutIsDown
<1>1. CASE <<d, f>> \notin cut
  <2>1. PICK F \in SUBSET Features : Kill(F)
    BY <1>1, CutMoves
  <2>2. PICK h \in Drains \X F : h[2] = f /\ run[h[1]][h[2]] \in Tasks
    BY <1>1, <2>1 DEF Kill
  <2>3. h = <<d, f>> /\ run[d][f] \in Tasks
    BY <2>2 DEF OneDrain
  <2>4. run'[d][f] \in {"interrupted", "worker_failed"}
    BY <1>0, <2>1, <2>2, <2>3 DEF Kill
  <2> QED
    BY <2>4, KindsHold
<1>2. CASE <<d, f>> \in cut
  <2>1. /\ run[d][f] \notin Tasks \cup {"queued"}
        /\ Looping(d) => \/ run[d][f] \in Held
                         \/ scope[d] = Whole /\ kept[d][f] # None
    BY <1>2 DEF KInv, CutIsDown
  <2>2. run'[d][f] \notin Tasks \cup {"queued"}
    <3>1. ~StartRun(d, f)
      BY <2>1 DEF StartRun
    <3>2. ~(Assign(d) /\ f \in Candidates(d))
      BY <2>1 DEF Assign, Candidates, Looping, Outcomes
    <3>3. ASSUME AssignOne(d) PROVE run'[d][f] = run[d][f]
      <4>1. run[d][f] = None /\ Looping(d) /\ scope[d] \in Features
        BY <3>3 DEF AssignOne, KInv, FeatureDrainWaits, Looping
      <4> QED
        BY <2>1, <4>1, OrchestratorAssumption DEF Outcomes
    <3> QED
      BY <1>0, <2>1, <3>1, <3>2, <3>3, RunMoves
  <2>3. ASSUME Looping(d)'
        PROVE  run'[d][f] \in Held \/ (scope'[d] = Whole /\ kept'[d][f] # None)
    <3>1. Looping(d) /\ scope'[d] = scope[d]
      BY <1>0, <2>3, LoopMoves
    <3>2. run[d][f] \in Held \/ (scope[d] = Whole /\ kept[d][f] # None)
      BY <2>1, <3>1
    <3>3. run'[d][f] \in Held \/ (scope[d] = Whole /\ kept'[d][f] # None)
      BY <1>0, <2>3, <3>1, <3>2, HeldKept DEF KInv
    <3> QED
      BY <3>1, <3>3
  <2> QED
    BY <2>2, <2>3
<1> QED
  BY <1>1, <1>2

\* A drain that went on while an abort killed a worker of it does not start
\* that feature again, when it is the only drain of the project: with two, the
\* other one can have it in its queue.
THEOREM KilledStaysDownHolds == ASSUME OneDrain PROVE Spec => KilledStaysDown
<1>1. Init => KInv
  <2> SUFFICES ASSUME Init PROVE KInv
    OBVIOUS
  <2>1. TypeOK /\ IdleIsBlank
    BY DInvInit DEF DInv
  <2> QED
    BY <2>1 DEF Init, Blank, KInv, FeatureDrainWaits, CutIsDown
<1>2. KInv /\ [Next]_vars => KInv'
  <2> SUFFICES ASSUME KInv, [Next]_vars PROVE KInv'
    OBVIOUS
  <2>1. TypeOK'
    BY TypeKept DEF KInv
  <2> QED
    BY <2>1, IdleKept, FeatureDrainKept, CutKept, TypeParts DEF KInv
<1>3. KInv => \A d \in Drains, f \in Features :
        run[d][f] = "queued" /\ run'[d][f] \in Tasks => <<d, f>> \notin cut
  BY DEF KInv, CutIsDown
<1> QED
  BY <1>1, <1>2, <1>3, PTL DEF Spec, KilledStaysDown

(***************************************************************************)
(* No block is silent                                                      *)
(***************************************************************************)
\* What moves a column or a local variable, one lemma each: the arguments below
\* ask who can have written a value, not what an action leaves alone.

Going(d) == pc[d] \in {"check", "assign", "wait", "join"}

\* Values that are told apart.
LEMMA ValuesDiffer ==
  /\ None \notin Tasks \cup {"queued"} /\ None \notin Outcomes /\ "queued" \notin Outcomes
  /\ \A o \in Outcomes : o \notin Tasks \cup {"queued"}
  /\ "ok" \notin Held /\ "raised" \notin Held /\ "ok" # "raised" /\ "ok" \in Outcomes
  /\ None \notin Held /\ None # "queued" /\ "rate_limited" \in Held
BY DistinctAssumption DEF Outcomes, Held

\* A future is created by a pass of the loop.
LEMMA Submits ==
  ASSUME Shape, [Next]_vars, NEW d \in Drains, NEW f \in Features,
         run[d][f] = None, run'[d][f] # None
  PROVE  \/ Assign(d) /\ f \in Candidates(d) /\ (gated[d] => f \in Socles)
         \/ AssignOne(d) /\ f = scope[d] /\ Ready(f) # {}
<1> DEFINE Goal == \/ Assign(d) /\ f \in Candidates(d) /\ (gated[d] => f \in Socles)
                   \/ AssignOne(d) /\ f = scope[d] /\ Ready(f) # {}
<1> SUFFICES Goal
  OBVIOUS
<1> USE ValuesDiffer DEF Shape, local
<1>1. ASSUME NEW e \in Drains, Assign(e) PROVE Goal
  <2>1. PICK S \in SUBSET (Candidates(e) \
                 (IF gated[e] THEN Candidates(e) \ Socles ELSE {})) : Submit(e, S)
    BY <1>1 DEF Assign
  <2>2. e = d /\ f \in S
    BY <2>1 DEF Submit
  <2> QED
    BY <1>1, <2>1, <2>2
<1>2. ASSUME NEW e \in Drains, AssignOne(e) PROVE Goal
  <2>1. e = d /\ f = scope[d]
    BY <1>2 DEF AssignOne, Submit
  <2>2. Ready(f) # {}
    BY <1>2, <2>1 DEF AssignOne
  <2> QED
    BY <1>2, <2>1, <2>2
<1>3. ASSUME NEW e \in Drains, Collect(e) \/ Raise(e) \/ Join(e) PROVE Goal
  BY <1>3 DEF Collect, Raise, Join, Blank
<1>4. ASSUME NEW e \in Drains, NEW g \in Features, Thread(e, g) PROVE Goal
  <2>1. run[e][g] # None
    BY <1>4 DEF Thread, Refuse, StartRun, FinishRun
  <2>2. \A c \in Drains, h \in Features : ~(c = e /\ h = g) => run'[c][h] = run[c][h]
    BY <1>4 DEF Thread, Refuse, StartRun, FinishRun, Answer
  <2> QED
    BY <2>1, <2>2
<1>5. ASSUME NEW F \in SUBSET Features, Kill(F) PROVE Goal
  BY <1>5 DEF Kill
<1>6. ASSUME run' = run PROVE Goal
  BY <1>6
<1> HIDE DEF Goal, Shape
<1> QED
  BY <1>1, <1>2, <1>3, <1>4, <1>5, <1>6 DEF Next, vars, Loop, Close, Begin,
     Check, CollectRaises, Finalize, End, Merge, Refix, AddTask, Interview,
     CloseSocle, Abort

\* An answer is written in both tables at once, and by a run that was going on;
\* only the start of a drain forgets answers.
LEMMA AnswerMoves ==
  ASSUME Shape, Domains, [Next]_vars, NEW d \in Drains, NEW f \in Features
  PROVE  /\ last'[d][f] # last[d][f] =>
              \/ run[d][f] \in Tasks \cup {"queued"} /\ run'[d][f] = last'[d][f]
              \/ last'[d][f] = None /\ pc[d] = "idle"
         /\ run'[d][f] \in Outcomes /\ run'[d][f] # run[d][f] =>
              run[d][f] \in Tasks \cup {"queued"} /\ last'[d][f] = run'[d][f]
<1> DEFINE Goal == /\ last'[d][f] # last[d][f] =>
                        \/ run[d][f] \in Tasks \cup {"queued"} /\ run'[d][f] = last'[d][f]
                        \/ last'[d][f] = None /\ pc[d] = "idle"
                   /\ run'[d][f] \in Outcomes /\ run'[d][f] # run[d][f] =>
                        run[d][f] \in Tasks \cup {"queued"} /\ last'[d][f] = run'[d][f]
<1> SUFFICES Goal
  OBVIOUS
<1> USE ValuesDiffer DEF Shape, Domains, local
<1>1. ASSUME NEW e \in Drains, NEW s \in Scopes, Begin(e, s) PROVE Goal
  <2>1. run' = run /\ pc[e] = "idle"
    BY <1>1 DEF Begin
  <2>2. last'[d][f] # last[d][f] => e = d /\ last'[d][f] = None
    BY <1>1 DEF Begin, Blank
  <2> QED
    BY <2>1, <2>2
<1>2. ASSUME NEW e \in Drains, Assign(e) \/ AssignOne(e) PROVE Goal
  <2>1. last' = last /\ (run' = run \/ \E S : Submit(e, S))
    BY <1>2 DEF Assign, AssignOne
  <2>2. ASSUME NEW S, Submit(e, S) PROVE run'[d][f] \in {run[d][f], "queued"}
    BY <2>2 DEF Submit
  <2> QED
    BY <2>1, <2>2
<1>3. ASSUME NEW e \in Drains, Collect(e) \/ Raise(e) \/ Join(e) PROVE Goal
  <2>1. last' = last
    BY <1>3 DEF Collect, Raise, Join
  <2>2. Collect(e) => run'[d][f] \in {run[d][f], None}
    BY DEF Collect
  <2>3. ASSUME Raise(e) \/ Join(e) PROVE run'[d][f] \in {run[d][f], None}
    <3>1. run' = [run EXCEPT ![e] = Blank]
      BY <2>3 DEF Raise, Join
    <3> QED
      BY <3>1 DEF Blank
  <2> QED
    BY <1>3, <2>1, <2>2, <2>3
<1>4. ASSUME NEW e \in Drains, NEW g \in Features, Refuse(e, g) \/ FinishRun(e, g) PROVE Goal
  <2>1. run[e][g] \in Tasks \cup {"queued"} /\ \E o \in Outcomes : Answer(e, g, o)
    BY <1>4, KindsHold DEF Refuse, FinishRun
  <2> QED
    BY <2>1 DEF Answer
<1>5. ASSUME NEW e \in Drains, NEW g \in Features, StartRun(e, g) PROVE Goal
  <2>1. last' = last /\ \E t \in Tasks : run' = [run EXCEPT ![e][g] = t]
    BY <1>5 DEF StartRun, Ready, TasksOf
  <2> QED
    BY <2>1
<1>6. ASSUME NEW F \in SUBSET Features, Kill(F) PROVE Goal
  BY <1>6 DEF Kill
<1>7. ASSUME UNCHANGED <<run, last>> PROVE Goal
  BY <1>7
<1> HIDE DEF Goal, Shape, Domains
<1> QED
  BY <1>1, <1>2, <1>3, <1>4, <1>5, <1>6, <1>7 DEF Next, vars, Loop, Close,
     Thread, Check, CollectRaises, Finalize, End, Merge, Refix, AddTask,
     Interview, CloseSocle, Abort

\* Who changes what a drain keeps out.
LEMMA KeptMoves ==
  ASSUME Shape, Domains, [Next]_vars, NEW d \in Drains, NEW f \in Features,
         kept'[d][f] # kept[d][f]
  PROVE  \/ pc[d] = "idle" /\ kept'[d][f] = None
         \/ Assign(d) /\ f \in Candidates(d) /\ gated[d] /\ f \notin Socles
         \/ Collect(d) /\ run[d][f] \in Held /\ kept'[d][f] = run[d][f] /\ run'[d][f] = None
<1> DEFINE Goal == \/ pc[d] = "idle" /\ kept'[d][f] = None
                   \/ Assign(d) /\ f \in Candidates(d) /\ gated[d] /\ f \notin Socles
                   \/ /\ Collect(d) /\ run[d][f] \in Held /\ kept'[d][f] = run[d][f]
                      /\ run'[d][f] = None
<1> SUFFICES Goal
  OBVIOUS
<1> USE DEF Shape, Domains, local
<1>1. ASSUME NEW e \in Drains, NEW s \in Scopes, Begin(e, s) PROVE Goal
  <2>1. kept' = [kept EXCEPT ![e] = Blank] /\ pc[e] = "idle"
    BY <1>1 DEF Begin
  <2> QED
    BY <2>1 DEF Blank
<1>2. ASSUME NEW e \in Drains, Assign(e) PROVE Goal
  <2>1. e = d /\ f \in (IF gated[e] THEN Candidates(e) \ Socles ELSE {})
    BY <1>2 DEF Assign
  <2> QED
    BY <1>2, <2>1
<1>3. ASSUME NEW e \in Drains, Collect(e) PROVE Goal
  <2>1. e = d /\ f \in Answered(d) /\ run[d][f] \in Held /\ kept'[d][f] = run[d][f]
    BY <1>3 DEF Collect
  <2>2. run'[d][f] = None
    BY <1>3, <2>1 DEF Collect
  <2> QED
    BY <1>3, <2>1, <2>2
<1>4. ASSUME kept' = kept PROVE Goal
  BY <1>4
<1> HIDE DEF Goal, Shape, Domains
<1> QED
  BY ZenonT(60), <1>1, <1>2, <1>3, <1>4 DEF Next, vars, Loop, Close, Thread, Check,
     AssignOne, CollectRaises, Raise, Join, Finalize, End, Refuse, StartRun,
     FinishRun, Merge, Refix, AddTask, Interview, CloseSocle, Abort, Kill

\* A drain goes on, or starts with nothing to report and nothing kept out.
LEMMA GoingMoves ==
  ASSUME Shape, Domains, [Next]_vars, NEW d \in Drains, Going(d)'
  PROVE  \/ /\ pc[d] = "idle" /\ run' = run
            /\ \A f \in Features : last'[d][f] = None /\ kept'[d][f] = None
         \/ Going(d) /\ scope'[d] = scope[d] /\ gated'[d] = gated[d]
<1> DEFINE Goal == \/ /\ pc[d] = "idle" /\ run' = run
                      /\ \A f \in Features : last'[d][f] = None /\ kept'[d][f] = None
                   \/ Going(d) /\ scope'[d] = scope[d] /\ gated'[d] = gated[d]
<1> SUFFICES Goal
  OBVIOUS
<1> USE DEF Shape, Domains, local, Going, Goto
<1>1. ASSUME NEW e \in Drains, NEW s \in Scopes, Begin(e, s) PROVE Goal
  <2>1. CASE e = d
    <3>1. pc' # pc
      BY <1>1, <2>1 DEF Begin
    <3>2. last' = [last EXCEPT ![d] = Blank] /\ kept' = [kept EXCEPT ![d] = Blank] /\ run' = run
          /\ pc[d] = "idle"
      BY <1>1, <2>1, <3>1 DEF Begin
    <3> QED
      BY <3>2 DEF Blank
  <2>2. CASE e # d
    BY <1>1, <2>2 DEF Begin
  <2> QED
    BY <2>1, <2>2
<1>2. ASSUME NEW e \in Drains, Loop(e) PROVE Goal
  BY <1>2 DEF Loop, Check, Assign, AssignOne, Collect, CollectRaises, Raise
<1>3. ASSUME NEW e \in Drains, Close(e) PROVE Goal
  BY <1>3 DEF Close, Join, Finalize, End
<1>4. ASSUME UNCHANGED <<pc, scope, gated>> PROVE Goal
  BY <1>4
<1> HIDE DEF Goal, Shape, Domains, Going, Goto
<1> QED
  BY <1>1, <1>2, <1>3, <1>4 DEF Next, vars, Thread, Refuse, StartRun, FinishRun,
     Merge, Refix, AddTask, Interview, CloseSocle, Abort, Kill

\* While a drain goes on its futures are taken out by the collection only.
LEMMA CollectMoves ==
  ASSUME Shape, Domains, [Next]_vars, NEW d \in Drains, NEW f \in Features,
         Going(d)', run[d][f] # None, run'[d][f] = None
  PROVE  /\ run[d][f] \in Outcomes \ {"raised"}
         /\ run[d][f] \in Held => kept'[d][f] = run[d][f] /\ <<f, run[d][f]>> \in alerts'
<1> DEFINE Goal == Collect(d) /\ f \in Answered(d)
<1>1. Goal
  <2> USE ValuesDiffer DEF Shape, local, Goto
  <2>1. ASSUME NEW e \in Drains, Assign(e) \/ AssignOne(e) PROVE Goal
    <3>1. run' = run \/ \E S : Submit(e, S)
      BY <2>1 DEF Assign, AssignOne
    <3>2. ASSUME NEW S, Submit(e, S) PROVE run'[d][f] \in {run[d][f], "queued"}
      BY <3>2 DEF Submit
    <3> QED
      BY <3>1, <3>2
  <2>2. ASSUME NEW e \in Drains, Collect(e) PROVE Goal
    <3>1. run' = [run EXCEPT ![e] = [g \in Features |-> IF g \in Answered(e) THEN None ELSE run[e][g]]]
      BY <2>2 DEF Collect
    <3>2. e = d /\ f \in Answered(d)
      BY <3>1
    <3> QED
      BY <2>2, <3>2
  <2>3. ASSUME NEW e \in Drains, Raise(e) \/ Join(e) PROVE Goal
    <3>1. pc' \in {[pc EXCEPT ![e] = "idle"], [pc EXCEPT ![e] = "finalize"]}
          /\ run' = [run EXCEPT ![e] = Blank]
      BY <2>3 DEF Raise, Join
    <3>2. e = d
      BY <3>1
    <3>3. pc'[d] \in {"idle", "finalize"}
      BY <3>1, <3>2
    <3> QED
      BY <3>3 DEF Going
  <2>4. ASSUME NEW e \in Drains, NEW g \in Features, Refuse(e, g) \/ FinishRun(e, g) PROVE Goal
    <3>1. \E o \in Outcomes : Answer(e, g, o)
      BY <2>4, KindsHold DEF Refuse, FinishRun
    <3> QED
      BY <3>1 DEF Answer
  <2>5. ASSUME NEW e \in Drains, NEW g \in Features, StartRun(e, g) PROVE Goal
    <3>1. \E t \in Tasks : run' = [run EXCEPT ![e][g] = t]
      BY <2>5 DEF StartRun, Ready, TasksOf
    <3> QED
      BY <3>1
  <2>6. ASSUME NEW F \in SUBSET Features, Kill(F) PROVE Goal
    BY <2>6 DEF Kill, Outcomes, Held
  <2>7. ASSUME run' = run PROVE Goal
    BY <2>7
  <2> HIDE DEF Goal, Shape
  <2> QED
    BY <2>1, <2>2, <2>3, <2>4, <2>5, <2>6, <2>7 DEF Next, vars, Loop, Close,
       Thread, Begin, Check, CollectRaises, Finalize, End, Merge, Refix, AddTask,
       Interview, CloseSocle, Abort
<1>2. run[d][f] \in Outcomes \ {"raised"}
  BY <1>1 DEF Collect, Answered
<1>3. ASSUME run[d][f] \in Held PROVE kept'[d][f] = run[d][f] /\ <<f, run[d][f]>> \in alerts'
  <2>1. <<f, run[d][f]>> \in alerts'
    BY <1>1, <1>3 DEF Collect
  <2>2. kept'[d][f] = run[d][f]
    BY <1>1, <1>3 DEF Collect, Domains
  <2> QED
    BY <2>1, <2>2
<1> QED
  BY <1>2, <1>3
\* How a drain comes to the join.
LEMMA JoinMoves ==
  ASSUME Shape, [Next]_vars, NEW d \in Drains, pc'[d] = "join", pc[d] # "join"
  PROVE  \/ pc[d] = "check" /\ abort /\ abort' = abort
         \/ Assign(d) /\ \E S \in SUBSET Features : Submit(d, S) /\ InFlight(d) \cup S = {}
         \/ AssignOne(d) /\ run' = run
         \/ Collect(d) /\ \E f \in Answered(d) :
              run[d][f] = "rate_limited" \/ scope[d] # Whole
<1> DEFINE Goal == \/ pc[d] = "check" /\ abort /\ abort' = abort
                   \/ Assign(d) /\ \E S \in SUBSET Features : Submit(d, S) /\ InFlight(d) \cup S = {}
                   \/ AssignOne(d) /\ run' = run
                   \/ Collect(d) /\ \E f \in Answered(d) :
                        run[d][f] = "rate_limited" \/ scope[d] # Whole
<1> SUFFICES Goal
  OBVIOUS
<1> USE DEF Shape, local, signal, Goto
<1>1. ASSUME NEW e \in Drains, Check(e) PROVE Goal
  BY <1>1 DEF Check
<1>2. ASSUME NEW e \in Drains, Assign(e) PROVE Goal
  <2>1. e = d
    BY <1>2 DEF Assign
  <2>2. PICK S \in SUBSET Candidates(d) :
          Submit(d, S) /\ Goto(d, IF InFlight(d) \cup S = {} THEN "join" ELSE "wait")
    BY <1>2, <2>1 DEF Assign
  <2>3. InFlight(d) \cup S = {}
    BY <2>2
  <2>4. S \in SUBSET Features
    BY DEF Candidates
  <2> QED
    BY <1>2, <2>1, <2>2, <2>3, <2>4
<1>3. ASSUME NEW e \in Drains, AssignOne(e) PROVE Goal
  <2>1. e = d
    BY <1>3 DEF AssignOne
  <2>2. run' = run
    BY <1>3, <2>1 DEF AssignOne
  <2> QED
    BY <1>3, <2>1, <2>2
<1>4. ASSUME NEW e \in Drains, Collect(e) PROVE Goal
  <2>1. e = d
    BY <1>4 DEF Collect
  <2>2. \E f \in Answered(d) : run[d][f] = "rate_limited" \/ scope[d] # Whole
    BY <1>4, <2>1 DEF Collect
  <2> QED
    BY <1>4, <2>1, <2>2
<1>5. ASSUME NEW e \in Drains, NEW l, l # "join", pc' = [pc EXCEPT ![e] = l] PROVE Goal
  BY <1>5
<1>6. ASSUME pc' = pc PROVE Goal
  BY <1>6
<1>7. ASSUME NEW e \in Drains, NEW s \in Scopes, Begin(e, s) PROVE Goal
  <2>1. pc' = pc \/ pc' = [pc EXCEPT ![e] = "check"]
    BY <1>7 DEF Begin
  <2> QED
    BY <1>5, <1>6, <2>1
<1>8. ASSUME NEW e \in Drains, CollectRaises(e) \/ Raise(e) \/ Join(e) \/ End(e) PROVE Goal
  <2>1. \/ pc' = [pc EXCEPT ![e] = "raising"] \/ pc' = [pc EXCEPT ![e] = "idle"]
        \/ pc' = [pc EXCEPT ![e] = "finalize"]
    BY <1>8 DEF CollectRaises, Raise, Join, End
  <2> QED
    BY <1>5, <2>1
<1> HIDE DEF Goal, Shape, Goto
<1> QED
  BY <1>1, <1>2, <1>3, <1>4, <1>6, <1>7, <1>8 DEF Next, vars, Loop, Close, Thread,
     Refuse, StartRun, FinishRun, Finalize, Merge, Refix, AddTask, Interview,
     CloseSocle, Abort, Kill

\* The sentinel is removed at the join and at a start.
LEMMA AbortMoves ==
  ASSUME Shape, [Next]_vars, abort, ~abort'
  PROVE  \E d \in Drains : (pc[d] = "join" /\ pc'[d] = "finalize") \/ pc[d] = "idle"
<1> DEFINE Goal == \E d \in Drains : (pc[d] = "join" /\ pc'[d] = "finalize") \/ pc[d] = "idle"
<1> SUFFICES Goal
  OBVIOUS
<1> USE DEF Shape, local, signal, Goto
<1>1. ASSUME NEW d \in Drains, NEW s \in Scopes, Begin(d, s) PROVE Goal
  BY <1>1 DEF Begin
<1>2. ASSUME NEW d \in Drains, Join(d) PROVE Goal
  BY <1>2 DEF Join
<1>3. ASSUME abort' = abort \/ abort' PROVE Goal
  BY <1>3
<1> HIDE DEF Goal, Shape, Goto
<1> QED
  BY ZenonT(60), <1>1, <1>2, <1>3 DEF Next, vars, Loop, Close, Thread, Check, Assign, AssignOne,
     Collect, CollectRaises, Raise, Finalize, End, Refuse, StartRun, FinishRun,
     Merge, Refix, AddTask, Interview, CloseSocle, Abort, Kill

\* Only the join lists what was drained, and it lists what is complete.
LEMMA DrainedMoves ==
  ASSUME Shape, Domains, [Next]_vars, NEW d \in Drains, NEW f \in Features,
         \/ f \in drained'[d] /\ f \notin drained[d]
         \/ f \in todo'[d] /\ f \notin todo[d]
  PROVE  f \in Complete(d)
<1> DEFINE Goal == f \in Complete(d)
<1> SUFFICES Goal
  OBVIOUS
<1> USE DEF Shape, Domains, local
<1>1. ASSUME NEW e \in Drains, Join(e) PROVE Goal
  <2>1. e = d
    BY <1>1 DEF Join
  <2> QED
    BY <1>1, <2>1 DEF Join
<1>2. ASSUME NEW e \in Drains, NEW g \in Features, Finalize(e, g) PROVE Goal
  BY <1>2 DEF Finalize
<1>3. ASSUME UNCHANGED <<todo, drained>> PROVE Goal
  BY <1>3
<1> HIDE DEF Goal, Shape, Domains
<1> QED
  BY ZenonT(60), <1>1, <1>2, <1>3 DEF Next, vars, Loop, Close, Thread, Begin, Check, Assign,
     AssignOne, Collect, CollectRaises, Raise, End, Refuse, StartRun, FinishRun,
     Merge, Refix, AddTask, Interview, CloseSocle, Abort, Kill

\* A colour is given at the end of a drain or by a correction of a red gate.
LEMMA VerdictMoves ==
  ASSUME Shape, Domains, [Next]_vars, NEW f \in Features,
         verdict'[f] # None, verdict'[f] # verdict[f]
  PROVE  /\ UNCHANGED <<merged, run>>
         /\ \/ f \notin merged /\ \E d \in Drains : pc[d] = "finalize" /\ f \in todo[d]
            \/ verdict[f] = "red"
<1> DEFINE Goal == /\ UNCHANGED <<merged, run>>
                   /\ \/ f \notin merged /\ \E d \in Drains : pc[d] = "finalize" /\ f \in todo[d]
                      \/ verdict[f] = "red"
<1> SUFFICES Goal
  OBVIOUS
<1> USE DEF Domains
<1>1. ASSUME verdict' = Reheaded PROVE Goal
  BY <1>1, ReconciledTyped
<1>2. ASSUME NEW d \in Drains, NEW g \in Features, Finalize(d, g) PROVE Goal
  <2>1. g \notin merged /\ g = f
    BY <1>2 DEF Finalize, Settle
  <2> QED
    BY <1>2, <2>1 DEF Finalize
<1>3. ASSUME NEW d \in Drains, NEW g \in Features, StartRun(d, g) \/ FinishRun(d, g) PROVE Goal
  BY <1>3 DEF StartRun, FinishRun
<1>4. ASSUME NEW g \in Features, Merge(g) PROVE Goal
  BY <1>4 DEF Merge
<1>5. ASSUME NEW g \in Features, Refix(g) PROVE Goal
  <2>1. g = f
    BY <1>5 DEF Refix, Settle
  <2> QED
    BY <1>5, <2>1 DEF Refix
<1>6. ASSUME verdict' = verdict PROVE Goal
  BY <1>6
<1> HIDE DEF Goal, Domains
<1> QED
  BY ZenonT(60), <1>1, <1>2, <1>3, <1>4, <1>5, <1>6 DEF Next, vars, roadmap, Loop, Close,
     Thread, Begin, Check, Assign, AssignOne, Collect, CollectRaises, Raise, Join,
     End, Refuse, AddTask, Interview, CloseSocle, Abort, Kill
\* Who opens an alert: a closed socle, a report, a red gate.
LEMMA AlertOpens ==
  ASSUME Shape, Domains, [Next]_vars, NEW a \in alerts', a \notin alerts
  PROVE  /\ a[1] \in Features
         /\ \/ a[1] \notin Socles /\ ~(Socles \subseteq merged)
            \/ a[1] \notin merged
            \/ \E d \in Drains : run[d][a[1]] # None
            \/ verdict[a[1]] = "red"
         /\ merged' = merged
<1> DEFINE Goal == /\ a[1] \in Features
                   /\ \/ a[1] \notin Socles /\ ~(Socles \subseteq merged)
                      \/ a[1] \notin merged
                      \/ \E d \in Drains : run[d][a[1]] # None
                      \/ verdict[a[1]] = "red"
                   /\ merged' = merged
<1> SUFFICES Goal
  OBVIOUS
<1> USE DEF Shape, Domains, roadmap
<1>1. ASSUME NEW d \in Drains, NEW s \in Scopes, Begin(d, s) PROVE Goal
  <2>1. s \in Features \ Socles /\ SocleOpen /\ a = <<s, "socle_hold">> /\ merged' = merged
    BY <1>1 DEF Begin
  <2> QED
    BY <2>1 DEF SocleOpen
<1>2. ASSUME NEW d \in Drains, Assign(d) PROVE Goal
  <2>1. a[1] \in Candidates(d) /\ merged' = merged
    BY <1>2 DEF Assign
  <2> QED
    BY <2>1 DEF Candidates
<1>3. ASSUME NEW d \in Drains, Collect(d) \/ CollectRaises(d) PROVE Goal
  <2>1. /\ \E B \in SUBSET {f \in Answered(d) : run[d][f] \in Held} :
             alerts' = alerts \cup {<<f, run[d][f]>> : f \in B}
        /\ merged' = merged
    BY <1>3 DEF Collect, CollectRaises
  <2>2. PICK f \in Answered(d) : a = <<f, run[d][f]>>
    BY <2>1
  <2> QED
    BY <2>1, <2>2, ValuesDiffer DEF Answered
<1>4. ASSUME NEW d \in Drains, NEW f \in Features, Finalize(d, f) PROVE Goal
  BY <1>4 DEF Finalize, Settle
<1>5. ASSUME NEW f \in Features, Refix(f) PROVE Goal
  BY <1>5 DEF Refix, Settle
<1>6. ASSUME alerts' \subseteq alerts PROVE Goal
  BY <1>6
<1>7. ASSUME NEW f \in Features, Merge(f) PROVE Goal
  BY <1>7 DEF Merge
<1>8. ASSUME NEW d \in Drains, End(d) PROVE Goal
  BY <1>8 DEF End
<1> HIDE DEF Goal, Shape, Domains
<1> QED
  BY ZenonT(60), <1>1, <1>2, <1>3, <1>4, <1>5, <1>6, <1>7, <1>8 DEF Next, vars, Loop, Close,
     Thread, Check, AssignOne, Raise, Join, Refuse, StartRun, FinishRun, AddTask,
     Interview, CloseSocle, Abort, Kill

\* An alert of a worker is resolved by a merge, or at the end of a drain that
\* drained the feature.
LEMMA AlertCloses ==
  ASSUME Shape, Domains, [Next]_vars, NEW a \in alerts, a \notin alerts', a[2] \in WorkerKinds
  PROVE  \/ a[1] \in merged'
         \/ \E d \in Drains : pc[d] = "finalize" /\ a[1] \in drained[d]
<1> DEFINE Goal == \/ a[1] \in merged'
                   \/ \E d \in Drains : pc[d] = "finalize" /\ a[1] \in drained[d]
<1> SUFFICES Goal
  OBVIOUS
<1> USE DEF Shape, Domains
<1>1. ASSUME NEW d \in Drains, End(d) PROVE Goal
  <2>1. pc[d] = "finalize" /\ Disposition(d, a[1]) = "drained" /\ a[1] \in Features
    BY <1>1 DEF End
  <2>2. a[1] \in drained[d]
    <3>1. kept[d][a[1]] # None => kept[d][a[1]] \in WorkerKinds
      BY <2>1 DEF Keeps
    <3>2. "drained" \notin WorkerKinds
      BY DEF WorkerKinds, Held
    <3> QED
      BY <2>1, <3>1, <3>2 DEF Disposition
  <2> QED
    BY <2>1, <2>2
<1>2. ASSUME NEW f \in Features, Merge(f) PROVE Goal
  BY <1>2 DEF Merge
<1>3. ASSUME NEW f \in Features, NEW v \in {"green", "red"}, Settle(f, v) PROVE Goal
  BY <1>3, KindsHold DEF Settle
<1>4. ASSUME alerts \subseteq alerts' PROVE Goal
  BY <1>4
<1>5. ASSUME NEW d \in Drains, NEW f \in Features, Finalize(d, f) PROVE Goal
  BY <1>3, <1>4, <1>5 DEF Finalize
<1>6. ASSUME NEW f \in Features, Refix(f) PROVE Goal
  BY <1>3, <1>6 DEF Refix
<1>7. ASSUME NEW d \in Drains, NEW s \in Scopes, Begin(d, s) PROVE Goal
  BY <1>4, <1>7 DEF Begin
<1>8. ASSUME NEW d \in Drains, Assign(d) \/ Collect(d) \/ CollectRaises(d) PROVE Goal
  BY <1>4, <1>8 DEF Assign, Collect, CollectRaises
<1> HIDE DEF Goal, Shape, Domains
<1> QED
  BY ZenonT(60), <1>1, <1>2, <1>4, <1>5, <1>6, <1>7, <1>8 DEF Next, vars, Loop, Close,
     Thread, Check, AssignOne, Raise, Join, Refuse, StartRun, FinishRun, AddTask,
     Interview, CloseSocle, Abort, Kill

\* A task that is waiting is taken by a run of its feature.
LEMMA TaskStarts ==
  ASSUME Shape, Domains, [Next]_vars, NEW t \in Tasks, task[t] = "todo", task'[t] = "in_progress"
  PROVE  \E d \in Drains : run[d][FeatureOf[t]] # None
<1> DEFINE Goal == \E d \in Drains : run[d][FeatureOf[t]] # None
<1> SUFFICES Goal
  OBVIOUS
<1> USE DEF Shape, Domains
<1>1. ASSUME task' = Reconciled PROVE Goal
  BY <1>1 DEF Reconciled
<1>2. ASSUME NEW d \in Drains, NEW f \in Features, StartRun(d, f) PROVE Goal
  <2>1. FeatureOf[t] = f /\ run[d][f] = "queued"
    BY <1>2 DEF StartRun, Ready, TasksOf
  <2> QED
    BY <2>1, ValuesDiffer
<1>3. ASSUME NEW d \in Drains, NEW f \in Features, FinishRun(d, f) PROVE Goal
  BY <1>3 DEF FinishRun, GiveBack
<1>4. ASSUME NEW f \in Features, Merge(f) PROVE Goal
  BY <1>4 DEF Merge
<1>5. ASSUME NEW u \in Tasks, AddTask(u) PROVE Goal
  BY <1>5 DEF AddTask
<1>6. ASSUME NEW F \in SUBSET Features, Kill(F) PROVE Goal
  BY <1>6 DEF Kill
<1>7. ASSUME task' = task PROVE Goal
  BY <1>7
<1> HIDE DEF Goal, Shape, Domains
<1> QED
  BY ZenonT(60), <1>1, <1>2, <1>3, <1>4, <1>5, <1>6, <1>7 DEF Next, vars, roadmap, Loop,
     Close, Thread, Begin, Check, Assign, AssignOne, Collect, CollectRaises,
     Raise, Join, Finalize, End, Refuse, Refix, Interview, CloseSocle, Abort

\* A run succeeds on a feature that is not merged, and leaves it without a colour.
LEMMA OkMoves ==
  ASSUME Shape, Domains, [Next]_vars, NEW d \in Drains, NEW f \in Features,
         run'[d][f] = "ok", run[d][f] # "ok"
  PROVE  /\ run[d][f] \in Tasks /\ f \notin merged /\ verdict'[f] = None
         /\ UNCHANGED <<merged, kept, scope, pc>>
<1> DEFINE Goal == FinishRun(d, f)
<1>1. Goal
  <2> USE ValuesDiffer DEF Shape, local
  <2>1. ASSUME NEW e \in Drains, Assign(e) \/ AssignOne(e) PROVE Goal
    <3>1. run' = run \/ \E S : Submit(e, S)
      BY <2>1 DEF Assign, AssignOne
    <3>2. ASSUME NEW S, Submit(e, S) PROVE run'[d][f] \in {run[d][f], "queued"}
      BY <3>2 DEF Submit
    <3> QED
      BY <3>1, <3>2
  <2>2. ASSUME NEW e \in Drains, Collect(e) PROVE Goal
    <3>1. run'[d][f] \in {run[d][f], None}
      BY <2>2 DEF Collect
    <3> QED
      BY <3>1
  <2>3. ASSUME NEW e \in Drains, Raise(e) \/ Join(e) PROVE Goal
    <3>1. run' = [run EXCEPT ![e] = Blank]
      BY <2>3 DEF Raise, Join
    <3> QED
      BY <3>1 DEF Blank
  <2>4. ASSUME NEW e \in Drains, NEW g \in Features, Refuse(e, g) PROVE Goal
    <3>1. \E o \in Outcomes \ {"ok"} : Answer(e, g, o)
      BY <2>4, KindsHold DEF Refuse
    <3> QED
      BY <3>1 DEF Answer
  <2>5. ASSUME NEW e \in Drains, NEW g \in Features, StartRun(e, g) PROVE Goal
    <3>1. \E t \in Tasks : run' = [run EXCEPT ![e][g] = t]
      BY <2>5 DEF StartRun, Ready, TasksOf
    <3> QED
      BY <3>1
  <2>6. ASSUME NEW e \in Drains, NEW g \in Features, FinishRun(e, g) PROVE Goal
    <3>1. \E o \in Outcomes : Answer(e, g, o)
      BY <2>6, KindsHold DEF FinishRun
    <3>2. e = d /\ g = f
      BY <3>1 DEF Answer
    <3> QED
      BY <2>6, <3>2
  <2>7. ASSUME NEW F \in SUBSET Features, Kill(F) PROVE Goal
    BY <2>7 DEF Kill
  <2>8. ASSUME run' = run PROVE Goal
    BY <2>8
  <2> HIDE DEF Goal, Shape
  <2> QED
    BY <2>1, <2>2, <2>3, <2>4, <2>5, <2>6, <2>7, <2>8 DEF Next, vars, Loop, Close,
       Thread, Begin, Check, CollectRaises, Finalize, End, Merge, Refix, AddTask,
       Interview, CloseSocle, Abort
<1>2. run[d][f] \in Tasks /\ UNCHANGED <<merged, kept, scope, pc>>
  BY <1>1 DEF FinishRun, local
<1>3. f \notin merged /\ verdict' = [verdict EXCEPT ![f] = None]
  <2>1. ASSUME NEW o \in Outcomes \ {"ok"}, Answer(d, f, o) PROVE FALSE
    BY <2>1 DEF Answer, Shape
  <2> QED
    BY <1>1, <2>1, KindsHold, ValuesDiffer DEF FinishRun
<1> QED
  BY <1>2, <1>3 DEF Domains
(***************************************************************************)
(* What holds of one drain of a roadmap that does not grow                 *)
(***************************************************************************)
\* A future that has answered is the last answer.
AnswerIsLast ==
  \A d \in Drains, f \in Features : run[d][f] \in Outcomes => last[d][f] = run[d][f]

\* What was reported is a success, or kept out and alerted.
ReportIsKept ==
  \A d \in Drains, f \in Features :
    Going(d) /\ run[d][f] = None /\ last[d][f] # None =>
      \/ last[d][f] = "ok"
      \/ /\ last[d][f] \in Held /\ kept[d][f] = last[d][f]
         /\ f \in merged \/ <<f, last[d][f]>> \in alerts

\* What is kept out is not submitted, and a closed gate keeps all but the socle
\* out for the whole drain.
KeptIsNotRun ==
  \A d \in Drains, f \in Features :
    Going(d) /\ scope[d] = Whole =>
      /\ run[d][f] # None => kept[d][f] = None
      /\ gated[d] /\ f \notin Socles => run[d][f] = None /\ last[d][f] = None

\* A feature that succeeded can be taken up again by the same drain.
OkIsOpen ==
  \A d \in Drains, f \in Features :
    Going(d) /\ last[d][f] = "ok" =>
      /\ verdict[f] = None /\ f \notin merged /\ f \notin Socles
      /\ scope[d] = Whole => kept[d][f] = None /\ Wants[f] \subseteq merged

\* What has a colour or is merged is not at work, and a merged feature has
\* neither colour nor alert.
ClosedIsIdle ==
  \A f \in Features : verdict[f] # None \/ f \in merged =>
    /\ \A d \in Drains : run[d][f] = None
    /\ f \in merged => verdict[f] = None /\ \A a \in alerts : a[1] # f

\* A work feature that was ever worked on comes after the socle.
Worked(f) == \/ verdict[f] # None \/ f \in merged
             \/ \E d \in Drains : f \in todo[d]
             \/ \E t \in Tasks : FeatureOf[t] = f /\ task[t] \notin {"todo", "absent"}
WorkFollowsSocle ==
  \A f \in Features \ Socles : Worked(f) => Socles \subseteq merged

\* The loop ends by an abort, a rate limit, or when nothing is left to do.
Spent(d) == \A f \in Features : /\ run[d][f] = None
                                /\ scope[d] = Whole /\ last[d][f] = "ok" => Ready(f) = {}
Limited(d, f) == last[d][f] = "rate_limited" /\ run[d][f] \notin Tasks \cup {"queued"}
LoopEnds ==
  \A d \in Drains : pc[d] = "join" => abort \/ (\E f \in Features : Limited(d, f)) \/ Spent(d)

DrainedIsFull == \A d \in Drains : \A f \in drained[d] : Full(f)

Known == DInv /\ GateReadHolds /\ SubmittedAfter /\ FeatureDrainWaits
NInv  == /\ Known /\ AnswerIsLast /\ ReportIsKept /\ KeptIsNotRun /\ OkIsOpen
         /\ ClosedIsIdle /\ WorkFollowsSocle /\ LoopEnds /\ DrainedIsFull

\* A roadmap that is whole from the start.
NothingIsAdded == Later = {}

\* Where no task is added every feature has the tasks and the needs it began with.
LEMMA AllAreFixed == ASSUME NothingIsAdded PROVE Fixed = Features /\ WantsAreFixed
BY OrchestratorAssumption DEF NothingIsAdded, Fixed, WantsAreFixed

\* What the earlier sections prove of the same drain.
LEMMA KnownKept ==
  ASSUME PureSocle, NothingIsAdded, Known, [Next]_vars PROVE Known'
<1>0. Shape /\ GInv /\ WantsAreFixed
  BY TypeParts, AllAreFixed DEF Known, DInv, GInv
<1>1. TypeOK'
  BY TypeKept DEF Known, DInv
<1>2. DInv'
  BY <1>0, <1>1, IdleKept, WorkKept, FullKept, WantsKept DEF Known, DInv
<1>3. GateReadHolds' /\ SubmittedAfter'
  BY <1>0, GateReadKept, SubmittedKept
<1>4. FeatureDrainWaits'
  BY <1>0, FeatureDrainKept DEF Known, DInv
<1> QED
  BY <1>2, <1>3, <1>4 DEF Known

\* What has work to hand out has no colour and is not merged.
LEMMA ReadyIsOpen ==
  ASSUME NothingIsAdded, Known, NEW f \in Features, Ready(f) # {}
  PROVE  verdict[f] = None /\ f \notin merged
BY AllAreFixed DEF Known, DInv, FixedIsFull, Full, Ready, TasksOf

\* A merged feature stays merged.
LEMMA MergedStays ==
  ASSUME NothingIsAdded, Known, [Next]_vars, NEW f \in merged PROVE f \in merged'
<1>1. f \in Features
  BY TypeParts DEF Known, DInv, Domains
<1>2. \A d \in Drains : ~StartRun(d, f)
  <2>1. Ready(f) = {}
    BY <1>1, ReadyIsOpen
  <2> QED
    BY <2>1 DEF StartRun
<1>3. ASSUME NEW g \in Features, Merge(g) PROVE f \in merged'
  BY <1>3 DEF Merge
<1> QED
  BY <1>2, <1>3, MergedMoves

\* A merge is of a feature that has a colour.
LEMMA MergeEnters ==
  ASSUME Shape, Domains, [Next]_vars, NEW f \in Features, f \notin merged, f \in merged'
  PROVE  Merge(f) /\ verdict[f] = "green" /\ verdict'[f] = None /\ \A a \in alerts' : a[1] # f
<1>1. Merge(f)
  <2>1. PICK g \in Features : Merge(g)
    BY MergedMoves
  <2>2. g = f
    BY <2>1 DEF Merge
  <2> QED
    BY <2>1, <2>2
<1> QED
  BY <1>1 DEF Merge, Domains
\* The drain that goes on is the only one: nobody finalises or starts.
LEMMA OneGoing ==
  ASSUME OneDrain, NEW d \in Drains, Going(d), NEW e \in Drains
  PROVE  e = d /\ pc[e] \notin {"idle", "finalize"}
<1>1. e = d
  BY DEF OneDrain
<1> QED
  BY <1>1 DEF Going

\* An answer that waits is the last one given.
LEMMA AnswerKept == ASSUME NInv, [Next]_vars PROVE AnswerIsLast'
<1> SUFFICES ASSUME NEW d \in Drains, NEW f \in Features, run'[d][f] \in Outcomes
             PROVE  last'[d][f] = run'[d][f]
  BY DEF AnswerIsLast
<1>0. Shape /\ Domains
  BY TypeParts DEF NInv, Known, DInv
<1>1. CASE run'[d][f] # run[d][f]
  BY <1>0, <1>1, AnswerMoves
<1>2. CASE run'[d][f] = run[d][f]
  <2>1. last[d][f] = run[d][f]
    BY <1>2 DEF NInv, AnswerIsLast
  <2>2. pc[d] # "idle" /\ run[d][f] \notin Tasks \cup {"queued"}
    BY <1>2, ValuesDiffer DEF NInv, Known, DInv, IdleIsBlank
  <2> QED
    BY <1>0, <1>2, <2>1, <2>2, AnswerMoves
<1> QED
  BY <1>1, <1>2

\* A collected report is an ok, or is kept out with its alert standing.
LEMMA ReportKept ==
  ASSUME OneDrain, NothingIsAdded, NInv, [Next]_vars PROVE ReportIsKept'
<1> SUFFICES ASSUME NEW d \in Drains, NEW f \in Features, Going(d)', run'[d][f] = None, last'[d][f] # None
             PROVE  \/ last'[d][f] = "ok"
                    \/ /\ last'[d][f] \in Held /\ kept'[d][f] = last'[d][f]
                       /\ f \in merged' \/ <<f, last'[d][f]>> \in alerts'
  BY DEF ReportIsKept
<1>0. Shape /\ Domains
  BY TypeParts DEF NInv, Known, DInv
<1>1. Going(d) /\ pc[d] # "idle"
  BY <1>0, GoingMoves DEF Going
<1>2. last'[d][f] = last[d][f]
  <2>1. last'[d][f] # last[d][f] => run'[d][f] = last'[d][f]
    BY <1>0, <1>1, AnswerMoves
  <2> QED
    BY <2>1
<1>3. CASE run[d][f] = None
  <2>1. CASE last[d][f] = "ok"
    BY <1>2, <2>1
  <2>2. CASE last[d][f] # "ok"
    <3>1. /\ last[d][f] \in Held /\ kept[d][f] = last[d][f]
          /\ f \in merged \/ <<f, last[d][f]>> \in alerts
      BY <1>1, <1>2, <1>3, <2>2 DEF NInv, ReportIsKept
    <3>2. kept'[d][f] = kept[d][f]
      <4>1. f \notin Candidates(d)
        BY <3>1, ValuesDiffer DEF Candidates
      <4> QED
        BY <1>0, <1>1, <1>3, <4>1, KeptMoves, ValuesDiffer
    <3>3. f \in merged => f \in merged'
      BY MergedStays DEF NInv
    <3>4. ASSUME <<f, last[d][f]>> \in alerts PROVE f \in merged' \/ <<f, last[d][f]>> \in alerts'
      <4>1. PICK a : a = <<f, last[d][f]>>
        OBVIOUS
      <4>2. a[1] = f /\ a[2] \in WorkerKinds /\ a \in alerts
        BY <3>1, <3>4, <4>1, KindsHold
      <4>3. \A e \in Drains : pc[e] # "finalize"
        BY <1>1, OneGoing
      <4>4. a \in alerts' \/ a[1] \in merged'
        BY <1>0, <4>2, <4>3, AlertCloses
      <4> QED
        BY <4>1, <4>2, <4>4
    <3> QED
      BY <1>2, <3>1, <3>2, <3>3, <3>4
  <2> QED
    BY <2>1, <2>2
<1>4. CASE run[d][f] # None
  <2>1. /\ run[d][f] \in Outcomes \ {"raised"}
        /\ run[d][f] \in Held => kept'[d][f] = run[d][f] /\ <<f, run[d][f]>> \in alerts'
    BY <1>0, <1>4, CollectMoves
  <2>2. last[d][f] = run[d][f]
    BY <2>1 DEF NInv, AnswerIsLast
  <2>3. run[d][f] = "ok" \/ run[d][f] \in Held
    BY <2>1 DEF Outcomes
  <2> QED
    BY <1>2, <2>1, <2>2, <2>3
<1> QED
  BY <1>3, <1>4

\* What is kept out is not run, and behind the socle gate nothing runs.
LEMMA NotRunKept == ASSUME NInv, [Next]_vars PROVE KeptIsNotRun'
<1> SUFFICES ASSUME NEW d \in Drains, NEW f \in Features, Going(d)', scope'[d] = Whole
             PROVE  /\ run'[d][f] # None => kept'[d][f] = None
                    /\ gated'[d] /\ f \notin Socles => run'[d][f] = None /\ last'[d][f] = None
  BY DEF KeptIsNotRun
<1>0. Shape /\ Domains
  BY TypeParts DEF NInv, Known, DInv
<1>1. CASE pc[d] = "idle"
  <2>1. run'[d][f] = None /\ last'[d][f] = None
    BY <1>0, <1>1, GoingMoves DEF Going, NInv, Known, DInv, IdleIsBlank
  <2> QED
    BY <2>1
<1>2. CASE pc[d] # "idle"
  <2>0. Going(d) /\ scope[d] = Whole /\ gated'[d] = gated[d]
    BY <1>0, <1>2, GoingMoves
  <2>1. /\ run[d][f] # None => kept[d][f] = None
        /\ gated[d] /\ f \notin Socles => run[d][f] = None /\ last[d][f] = None
    BY <2>0 DEF NInv, KeptIsNotRun
  <2>2. ASSUME run[d][f] = None, run'[d][f] # None
        PROVE  Assign(d) /\ f \in Candidates(d) /\ (gated[d] => f \in Socles)
    BY <1>0, <2>0, <2>2, Submits, OrchestratorAssumption DEF AssignOne
  <2>3. ASSUME run'[d][f] # None PROVE kept'[d][f] = None
    <3>1. kept[d][f] = None
      BY <2>1, <2>2, <2>3 DEF Candidates
    <3>2. ~(Assign(d) /\ f \in Candidates(d) /\ gated[d] /\ f \notin Socles)
      BY <2>2, <2>3 DEF Candidates
    <3> QED
      BY <1>0, <1>2, <2>3, <3>1, <3>2, KeptMoves
  <2>4. ASSUME gated[d], f \notin Socles PROVE run'[d][f] = None /\ last'[d][f] = None
    <3>1. run[d][f] = None /\ last[d][f] = None
      BY <2>1, <2>4
    <3>2. run'[d][f] = None
      BY <2>2, <2>4, <3>1
    <3> QED
      BY <1>0, <3>1, <3>2, AnswerMoves, ValuesDiffer
  <2> QED
    BY <2>0, <2>3, <2>4
<1> QED
  BY <1>1, <1>2

\* An ok is followed by no verdict and no merge while its drain goes on.
LEMMA OpenKept ==
  ASSUME OneDrain, NothingIsAdded, NInv, [Next]_vars PROVE OkIsOpen'
<1> SUFFICES ASSUME NEW d \in Drains, NEW f \in Features, Going(d)', last'[d][f] = "ok"
             PROVE  /\ verdict'[f] = None /\ f \notin merged' /\ f \notin Socles
                    /\ scope'[d] = Whole => kept'[d][f] = None /\ Wants[f] \subseteq merged'
  BY DEF OkIsOpen
<1>0. Shape /\ Domains
  BY TypeParts DEF NInv, Known, DInv
<1>1. Going(d) /\ scope'[d] = scope[d] /\ pc[d] # "idle"
  BY <1>0, GoingMoves, ValuesDiffer DEF Going
<1>2. Wants[f] \subseteq merged => Wants[f] \subseteq merged'
  BY MergedStays DEF NInv
<1>3. CASE last[d][f] = "ok"
  <2>1. /\ verdict[f] = None /\ f \notin merged /\ f \notin Socles
        /\ scope[d] = Whole => kept[d][f] = None /\ Wants[f] \subseteq merged
    BY <1>1, <1>3 DEF NInv, OkIsOpen
  <2>2. verdict'[f] = None
    <3>1. \A e \in Drains : pc[e] # "finalize"
      BY <1>1, OneGoing
    <3>2. verdict[f] # "red"
      BY <2>1, DistinctAssumption
    <3> QED
      BY <1>0, <2>1, <3>1, <3>2, VerdictMoves
  <2>3. f \notin merged'
    <3>1. verdict[f] # "green"
      BY <2>1, DistinctAssumption
    <3> QED
      BY <1>0, <2>1, <3>1, MergeEnters
  <2>4. ASSUME scope[d] = Whole PROVE kept'[d][f] = None
    <3>1. run[d][f] \notin Held
      <4>1. run[d][f] \in Outcomes => run[d][f] = "ok"
        BY <1>3 DEF NInv, AnswerIsLast
      <4> QED
        BY <4>1, ValuesDiffer, KindsHold
    <3>2. ~(gated[d] /\ f \notin Socles)
      BY <1>1, <1>3, <2>4, ValuesDiffer DEF NInv, KeptIsNotRun
    <3> QED
      BY <1>0, <1>1, <2>1, <2>4, <3>1, <3>2, KeptMoves
  <2> QED
    BY <1>1, <1>2, <2>1, <2>2, <2>3, <2>4
<1>4. CASE last[d][f] # "ok"
  <2>1. run'[d][f] = "ok" /\ run[d][f] \in Tasks \cup {"queued"}
    BY <1>0, <1>1, <1>4, AnswerMoves
  <2>2. /\ run[d][f] \in Tasks /\ f \notin merged /\ verdict'[f] = None
        /\ UNCHANGED <<merged, kept>>
    BY <1>0, <2>1, OkMoves, ValuesDiffer
  <2>3. f \notin Socles
    BY <2>2 DEF NInv, Known, DInv, WorkIsTaken
  <2>4. ASSUME scope[d] = Whole PROVE kept[d][f] = None /\ Wants[f] \subseteq merged
    BY <1>1, <2>2, <2>4, ValuesDiffer DEF NInv, Known, DInv, WantsAreMerged, KeptIsNotRun
  <2> QED
    BY <1>1, <1>2, <2>2, <2>3, <2>4
<1> QED
  BY <1>3, <1>4
\* A feature judged or merged is run by nobody; merged, it keeps no alert.
LEMMA ClosedKept ==
  ASSUME OneDrain, NothingIsAdded, NInv, [Next]_vars PROVE ClosedIsIdle'
<1> SUFFICES ASSUME NEW f \in Features, verdict'[f] # None \/ f \in merged'
             PROVE  /\ \A d \in Drains : run'[d][f] = None
                    /\ f \in merged' => verdict'[f] = None /\ \A a \in alerts' : a[1] # f
  BY DEF ClosedIsIdle
<1>0. Shape /\ Domains
  BY TypeParts DEF NInv, Known, DInv
<1>1. ASSUME verdict[f] # None \/ f \in merged
      PROVE  /\ \A d \in Drains : run[d][f] = None /\ run'[d][f] = None
             /\ f \in merged => verdict[f] = None /\ \A a \in alerts : a[1] # f
  <2>1. /\ \A d \in Drains : run[d][f] = None
        /\ f \in merged => verdict[f] = None /\ \A a \in alerts : a[1] # f
    BY <1>1 DEF NInv, ClosedIsIdle
  <2>2. Ready(f) = {}
    BY <1>1, ReadyIsOpen DEF NInv
  <2>3. \A d \in Drains : run'[d][f] = None
    BY <1>0, <2>1, <2>2, Submits DEF Candidates
  <2> QED
    BY <2>1, <2>3
<1>2. ASSUME verdict'[f] # None, verdict'[f] # verdict[f]
      PROVE  /\ \A d \in Drains : run'[d][f] = None
             /\ f \notin merged'
  <2>1. /\ UNCHANGED <<merged, run>>
        /\ \/ f \notin merged /\ \E d \in Drains : pc[d] = "finalize" /\ f \in todo[d]
           \/ verdict[f] = "red"
    BY <1>0, <1>2, VerdictMoves
  <2>2. CASE verdict[f] = "red"
    BY <1>1, <2>1, <2>2, DistinctAssumption
  <2>3. CASE f \notin merged /\ \E d \in Drains : pc[d] = "finalize"
    <3>1. \A d \in Drains : pc[d] = "finalize"
      BY <2>3 DEF OneDrain
    <3>2. \A d \in Drains : run[d][f] = None
      BY <3>1 DEF NInv, Known, DInv, IdleIsBlank
    <3> QED
      BY <2>1, <2>3, <3>2
  <2> QED
    BY <2>1, <2>2, <2>3
<1>3. ASSUME f \in merged', f \notin merged
      PROVE  verdict[f] # None /\ verdict'[f] = None /\ \A a \in alerts' : a[1] # f
  BY <1>0, <1>3, MergeEnters, DistinctAssumption
<1>4. \A d \in Drains : run'[d][f] = None
  BY <1>1, <1>2, <1>3
<1>5. ASSUME f \in merged', f \in merged PROVE verdict'[f] = None /\ \A a \in alerts' : a[1] # f
  <2>1. verdict'[f] = None
    BY <1>1, <1>2, <1>5
  <2>2. ASSUME NEW a \in alerts', a[1] = f PROVE FALSE
    <3>1. a \notin alerts /\ verdict[f] # "red" /\ \A d \in Drains : run[d][f] = None
      BY <1>1, <1>5, <2>2, DistinctAssumption
    <3>2. f \notin Socles /\ ~(Socles \subseteq merged)
      BY <1>0, <1>5, <2>2, <3>1, AlertOpens
    <3> QED
      BY <1>5, <3>2 DEF NInv, WorkFollowsSocle, Worked
  <2> QED
    BY <2>1, <2>2
<1> QED
  BY <1>3, <1>4, <1>5

\* Outside the socle, work begins once the socle is merged.
LEMMA FollowsKept ==
  ASSUME PureSocle, NothingIsAdded, NInv, [Next]_vars PROVE WorkFollowsSocle'
<1> SUFFICES ASSUME NEW f \in Features \ Socles, Worked(f)' PROVE Socles \subseteq merged'
  BY DEF WorkFollowsSocle
<1>0. Shape /\ Domains /\ TypeOK
  BY TypeParts DEF NInv, Known, DInv
<1>1. Socles \subseteq merged => Socles \subseteq merged'
  BY SocleStaysMerged
<1>2. Worked(f) => Socles \subseteq merged
  BY DEF NInv, WorkFollowsSocle
<1>3. ASSUME verdict'[f] # None PROVE Worked(f)
  <2>1. CASE verdict'[f] = verdict[f]
    BY <1>3, <2>1 DEF Worked
  <2>2. CASE verdict'[f] # verdict[f]
    BY <1>0, <1>3, <2>2, VerdictMoves, DistinctAssumption DEF Worked
  <2> QED
    BY <2>1, <2>2
<1>4. ASSUME f \in merged' PROVE Worked(f)
  BY <1>0, <1>4, MergeEnters, DistinctAssumption DEF Worked
<1>5. ASSUME NEW d \in Drains, f \in todo'[d] PROVE Worked(f)
  <2>1. CASE f \in todo[d]
    BY <2>1 DEF Worked
  <2>2. CASE f \notin todo[d]
    <3>1. f \in Complete(d)
      BY <1>0, <1>5, <2>2, DrainedMoves
    <3>2. PICK t \in Tasks : FeatureOf[t] = f /\ task[t] = "done"
      BY <3>1 DEF Complete, TasksOf
    <3> QED
      BY <3>2 DEF Worked
  <2> QED
    BY <2>1, <2>2
<1>6. ASSUME NEW t \in Tasks, FeatureOf[t] = f, task'[t] \notin {"todo", "absent"}
      PROVE  Worked(f) \/ Socles \subseteq merged
  <2>1. CASE task[t] \notin {"todo", "absent"}
    BY <1>6, <2>1 DEF Worked
  <2>2. CASE task[t] \in {"todo", "absent"}
    <3>1. ASSUME NEW e \in Drains, NEW g \in Features, run[e][g] = t PROVE FALSE
      BY <2>2, <3>1, AllAreFixed DEF NInv, Known, DInv, WorkIsTaken
    <3>2. task[t] = "todo" /\ task'[t] = "in_progress"
      BY <1>0, <1>6, <2>2, <3>1, TaskMoves
    <3>3. \E d \in Drains : run[d][f] # None
      BY <1>0, <1>6, <3>2, TaskStarts
    <3> QED
      BY <3>3 DEF NInv, Known, SubmittedAfter
  <2> QED
    BY <2>1, <2>2
<1> QED
  BY <1>1, <1>2, <1>3, <1>4, <1>5, <1>6 DEF Worked

\* Nobody at work on a feature without a colour, outside the socle: nothing of
\* it becomes ready.
LEMMA ReadyStays ==
  ASSUME NothingIsAdded, NInv, [Next]_vars, NEW f \in Features \ Socles,
         verdict[f] = None, \A d \in Drains, g \in Features : run[d][g] = None
  PROVE  Ready(f)' \subseteq Ready(f)
<1>0. TypeOK /\ Shape /\ Domains
  BY TypeParts DEF NInv, Known, DInv
<1>1. ASSUME NEW t \in Tasks, FeatureOf[t] = f, task'[t] # task[t]
      PROVE  task[t] = "todo" /\ task'[t] = "in_progress"
  <2>1. ~Merge(f)
    BY DistinctAssumption DEF Merge
  <2>2. task[t] # "absent"
    BY DEF NothingIsAdded, NInv, Known, DInv, AbsentIsLater
  <2>3. \A d \in Drains, g \in Features : run[d][g] # t
    BY DistinctAssumption
  <2> QED
    BY <1>0, <1>1, <2>1, <2>2, <2>3, TaskMoves
<1> SUFFICES ASSUME NEW t \in Ready(f)' PROVE t \in Ready(f)
  OBVIOUS
<1>2. t \in Tasks /\ FeatureOf[t] = f /\ task'[t] = "todo" /\ \A n \in Needs[t] : task'[n] = "done"
  BY DEF Ready, TasksOf
<1>3. task[t] = "todo"
  BY <1>1, <1>2
<1>4. ASSUME NEW n \in Needs[t] PROVE task[n] = "done"
  <2>1. n \in Tasks /\ FeatureOf[n] = f
    BY <1>2, OrchestratorAssumption
  <2> QED
    BY <1>1, <1>2, <2>1
<1> QED
  BY <1>2, <1>3, <1>4 DEF Ready, TasksOf

\* A pass that submits nothing to an empty pool found nothing to submit.
LEMMA NothingToSubmit ==
  ASSUME OneDrain, NInv, NEW d \in Drains, Assign(d), InFlight(d) = {},
         NEW S \in SUBSET Features, Submit(d, S), S = {},
         NEW f \in Features, last[d][f] = "ok"
  PROVE  Ready(f) = {}
<1> DEFINE open == Candidates(d) \ (IF gated[d] THEN Candidates(d) \ Socles ELSE {})
<1>0. Shape /\ scope[d] = Whole /\ Going(d)
  BY TypeParts DEF NInv, Known, DInv, Assign, Going
<1>1. PICK T \in SUBSET open :
        /\ Cardinality(T) = Smaller(MaxParallel - Cardinality(InFlight(d)), Cardinality(open))
        /\ Submit(d, T)
  BY DEF Assign
<1>2. T = {}
  <2>1. \A g \in Features : run'[d][g] = run[d][g]
    BY DEF Submit, Shape
  <2>2. ASSUME NEW g \in T PROVE FALSE
    <3>1. g \in Features /\ run[d][g] = None
      BY <2>2 DEF Candidates
    <3>2. run'[d][g] = "queued"
      BY <1>0, <1>1, <3>1 DEF Submit, Shape
    <3> QED
      BY <1>0, <3>1, <3>2, ValuesDiffer DEF Submit, Shape
  <2> QED
    BY <2>2
<1>3. Cardinality(open) = 0
  <2>1. IsFiniteSet(open)
    <3>1. open \subseteq Features
      BY DEF Candidates
    <3> QED
      BY <3>1, FS_Subset, OrchestratorAssumption
  <2>2. Cardinality(open) \in Nat
    BY <2>1, FS_CardinalityType
  <2>3. Cardinality(T) = 0 /\ Cardinality(InFlight(d)) = 0
    BY <1>2, FS_EmptySet
  <2> HIDE DEF open
  <2> QED
    BY <1>1, <2>2, <2>3, OrchestratorAssumption DEF Smaller
<1>4. open = {}
  <2>1. IsFiniteSet(open)
    <3>1. open \subseteq Features
      BY DEF Candidates
    <3> QED
      BY <3>1, FS_Subset, OrchestratorAssumption
  <2> HIDE DEF open
  <2> QED
    BY <1>3, <2>1, FS_EmptySet
<1>5. /\ f \notin merged /\ f \notin Socles /\ kept[d][f] = None /\ Wants[f] \subseteq merged
  BY <1>0 DEF NInv, OkIsOpen
<1>6. ~gated[d]
  BY <1>0, <1>5, ValuesDiffer DEF NInv, KeptIsNotRun
<1>7. run[d][f] = None
  BY DEF InFlight
<1> QED
  BY <1>4, <1>5, <1>6, <1>7 DEF Candidates
\* The loop is left for one of its reasons.
LEMMA EndsKept ==
  ASSUME OneDrain, NothingIsAdded, NInv, OkIsOpen', [Next]_vars PROVE LoopEnds'
<1> SUFFICES ASSUME NEW d \in Drains, pc'[d] = "join"
             PROVE  abort' \/ (\E f \in Features : Limited(d, f)') \/ Spent(d)'
  BY DEF LoopEnds
<1>0. Shape /\ Domains /\ abort \in BOOLEAN /\ abort' \in BOOLEAN
  BY TypeParts, TypeKept DEF NInv, Known, DInv, Domains, TypeOK
<1>1. Going(d)' /\ (Going(d) => pc[d] \notin {"idle", "finalize"})
  BY DEF Going
<1>2. Going(d) /\ scope'[d] = scope[d]
  <2>1. pc[d] # "idle"
    BY <1>0, JoinMoves DEF Assign, AssignOne, Collect
  <2> QED
    BY <1>0, <1>1, <2>1, GoingMoves
<1>3. CASE pc[d] = "join"
  <2>1. abort => abort'
    <3>1. \A e \in Drains : e = d
      BY DEF OneDrain
    <3> QED
      BY <1>0, <1>3, <3>1, AbortMoves
  <2>2. ASSUME NEW f \in Features, last'[d][f] # last[d][f] PROVE run[d][f] \in Tasks \cup {"queued"}
    BY <1>0, <1>3, <2>2, AnswerMoves
  <2>3. ASSUME NEW f \in Features, run[d][f] = None PROVE run'[d][f] = None
    BY <1>0, <1>3, <2>3, Submits DEF Assign, AssignOne
  <2>4. ASSUME NEW f \in Features, Limited(d, f) PROVE Limited(d, f)'
    <3>1. last'[d][f] = last[d][f]
      BY <2>2, <2>4 DEF Limited
    <3>2. run'[d][f] \notin Tasks \cup {"queued"}
      BY <1>0, <1>3, <2>4, RunMoves DEF Limited, StartRun, Assign, AssignOne
    <3> QED
      BY <2>4, <3>1, <3>2 DEF Limited
  <2>5. ASSUME Spent(d) PROVE Spent(d)'
    <3> SUFFICES ASSUME NEW f \in Features
                 PROVE  /\ run'[d][f] = None
                        /\ scope'[d] = Whole /\ last'[d][f] = "ok" => Ready(f)' = {}
      BY DEF Spent
    <3>1. run[d][f] = None /\ run'[d][f] = None /\ last'[d][f] = last[d][f]
      BY <2>2, <2>3, <2>5, ValuesDiffer DEF Spent
    <3>2. ASSUME scope[d] = Whole, last[d][f] = "ok" PROVE Ready(f)' = {}
      <4>1. verdict[f] = None /\ f \notin Socles
        BY <1>2, <3>2 DEF NInv, OkIsOpen
      <4>2. \A e \in Drains, g \in Features : run[e][g] = None
        BY <2>5 DEF Spent, OneDrain
      <4>3. Ready(f)' \subseteq Ready(f)
        BY <4>1, <4>2, ReadyStays
      <4> QED
        BY <2>5, <3>2, <4>3 DEF Spent
    <3> QED
      BY <1>2, <3>1, <3>2
  <2> QED
    BY <1>3, <2>1, <2>4, <2>5 DEF NInv, LoopEnds
<1>4. CASE pc[d] # "join"
  <2>1. CASE abort /\ abort' = abort
    BY <2>1
  <2>2. CASE Assign(d) /\ \E S \in SUBSET Features : Submit(d, S) /\ InFlight(d) \cup S = {}
    <3>1. PICK S \in SUBSET Features : Submit(d, S) /\ InFlight(d) \cup S = {}
      BY <2>2
    <3>2. S = {} /\ InFlight(d) = {} /\ UNCHANGED <<last, task>>
      BY <2>2, <3>1 DEF Assign, roadmap
    <3>3. \A f \in Features : run[d][f] = None /\ run'[d][f] = None
      BY <1>0, <3>1, <3>2 DEF InFlight, Submit, Shape
    <3>4. ASSUME NEW f \in Features, last[d][f] = "ok" PROVE Ready(f) = {}
      BY <2>2, <3>1, <3>2, <3>4, NothingToSubmit
    <3>5. \A f \in Features : Ready(f)' = Ready(f)
      BY <3>2 DEF Ready, TasksOf
    <3> QED
      BY <3>2, <3>3, <3>4, <3>5 DEF Spent
  <2>3. CASE AssignOne(d) /\ run' = run
    <3>1. scope[d] \in Features /\ pc[d] = "assign"
      BY <2>3 DEF AssignOne
    <3>2. \A f \in Features : run[d][f] = None
      BY <3>1 DEF NInv, Known, FeatureDrainWaits
    <3> QED
      BY <1>2, <2>3, <3>1, <3>2, OrchestratorAssumption DEF Spent
  <2>4. CASE Collect(d) /\ \E f \in Answered(d) : run[d][f] = "rate_limited" \/ scope[d] # Whole
    <3>1. PICK f \in Answered(d) : run[d][f] = "rate_limited" \/ scope[d] # Whole
      BY <2>4
    <3>2. f \in Features /\ run[d][f] \in Outcomes /\ UNCHANGED last
      BY <2>4 DEF Answered, Collect
    <3>3. \A g \in Features : run'[d][g] = IF g \in Answered(d) THEN None ELSE run[d][g]
      BY <1>0, <2>4 DEF Collect, Shape
    <3>4. CASE run[d][f] = "rate_limited"
      <4>1. last'[d][f] = "rate_limited"
        BY <3>2, <3>4 DEF NInv, AnswerIsLast
      <4>2. run'[d][f] = None
        BY <3>1, <3>3, <3>2
      <4> QED
        BY <3>2, <4>1, <4>2, ValuesDiffer DEF Limited
    <3>5. CASE scope[d] # Whole
      <4>1. scope[d] \in Features
        BY <1>0, <3>5 DEF Shape
      <4>2. \A g \in Features : run[d][g] = None \/ g = f
        BY <3>2, <4>1, ValuesDiffer DEF NInv, Known, FeatureDrainWaits
      <4>3. \A g \in Features : run'[d][g] = None
        BY <3>1, <3>3, <4>2
      <4> QED
        BY <1>2, <3>5, <4>3 DEF Spent
    <3> QED
      BY <3>1, <3>4, <3>5
  <2> QED
    BY <1>0, <1>4, <2>1, <2>2, <2>3, <2>4, JoinMoves
<1> QED
  BY <1>3, <1>4

\* What a drain lists as drained stays full.
LEMMA DrainedKept ==
  ASSUME NothingIsAdded, NInv, [Next]_vars PROVE DrainedIsFull'
<1> SUFFICES ASSUME NEW d \in Drains, NEW f \in drained'[d] PROVE Full(f)'
  BY DEF DrainedIsFull
<1>0. Shape /\ Domains /\ DInv /\ f \in Fixed
  BY TypeParts, TypeKept, AllAreFixed DEF NInv, Known, DInv, TypeOK
<1>1. Full(f)
  <2>1. CASE f \in drained[d]
    BY <2>1 DEF NInv, DrainedIsFull
  <2>2. CASE f \notin drained[d]
    <3>1. f \in Complete(d)
      BY <1>0, <2>2, DrainedMoves DEF Fixed
    <3> QED
      BY <3>1 DEF Complete, TasksOf, Full, NothingIsAdded, NInv, Known, DInv, AbsentIsLater
  <2> QED
    BY <2>1, <2>2
<1> QED
  BY <1>0, <1>1, FullStays

\* Initially.
LEMMA NInvInit == Init => NInv
<1> SUFFICES ASSUME Init PROVE NInv
  OBVIOUS
<1>1. DInv /\ GInv
  BY DInvInit, InitHolds
<1> USE DistinctAssumption DEF Init, Blank
<1>2. \A d \in Drains, f \in Features : run[d][f] = None /\ pc[d] = "idle"
  OBVIOUS
<1>3. FeatureDrainWaits /\ AnswerIsLast /\ ReportIsKept /\ KeptIsNotRun /\ OkIsOpen /\ LoopEnds
  BY <1>2, ValuesDiffer DEF FeatureDrainWaits, AnswerIsLast, ReportIsKept, KeptIsNotRun, OkIsOpen,
     LoopEnds, Going
<1>4. ClosedIsIdle /\ WorkFollowsSocle /\ DrainedIsFull
  BY <1>2 DEF ClosedIsIdle, WorkFollowsSocle, Worked, DrainedIsFull
<1> QED
  BY <1>1, <1>3, <1>4 DEF NInv, Known, GInv

\* A drain comes to its end by the join and leaves it by the end.
LEMMA CloseMoves ==
  ASSUME Shape, [Next]_vars, NEW d \in Drains
  PROVE  /\ pc[d] # "finalize" /\ pc'[d] = "finalize" =>
              pc[d] = "join" /\ UNCHANGED <<merged, alerts>>
         /\ pc[d] = "finalize" /\ pc'[d] = "idle" => End(d)
<1> DEFINE Goal == /\ pc[d] # "finalize" /\ pc'[d] = "finalize" =>
                        pc[d] = "join" /\ UNCHANGED <<merged, alerts>>
                   /\ pc[d] = "finalize" /\ pc'[d] = "idle" => End(d)
<1> SUFFICES Goal
  OBVIOUS
<1> USE DEF Shape, local, roadmap, Goto
<1>1. ASSUME NEW e \in Drains, Join(e) PROVE Goal
  BY <1>1 DEF Join
<1>2. ASSUME NEW e \in Drains, End(e) PROVE Goal
  BY <1>2 DEF End
<1>3. ASSUME NEW e \in Drains, Loop(e) PROVE Goal
  BY <1>3 DEF Loop, Check, Assign, AssignOne, Collect, CollectRaises, Raise
<1>4. ASSUME NEW e \in Drains, NEW s \in Scopes, Begin(e, s) PROVE Goal
  <2>1. pc' = pc \/ pc' = [pc EXCEPT ![e] = "check"]
    BY <1>4 DEF Begin
  <2> QED
    BY <2>1
<1>5. ASSUME pc' = pc PROVE Goal
  BY <1>5
<1> HIDE DEF Goal, Shape
<1> QED
  BY <1>1, <1>2, <1>3, <1>4, <1>5 DEF Next, vars, Close, Thread, Refuse, StartRun,
     FinishRun, Finalize, Merge, Refix, AddTask, Interview, CloseSocle, Abort, Kill

\* No block is silent: for any finite number of features, any faults and any
\* order of merges, corrections and interviews, when one drain goes on at a time
\* over a roadmap nobody adds to, whose socle is pure.
THEOREM NoSilentBlockHolds ==
  ASSUME OneDrain, PureSocle, NothingIsAdded PROVE Spec => NoSilentBlock
<1> DEFINE
  Reported == \A d \in Drains : pc[d] # "finalize" /\ pc'[d] = "finalize" /\ Uncut(d) =>
                \A f \in Features :
                  /\ last[d][f] \in Held => f \in merged' \/ <<f, last[d][f]>> \in alerts'
                  /\ scope[d] = Whole /\ last[d][f] = "ok" => Ready(f) = {}
  Resolved == \A d \in Drains : pc[d] = "finalize" /\ pc'[d] = "idle" =>
                \A a \in alerts :
                  a[2] \in WorkerKinds /\ (\E t \in TasksOf(a[1]) : task[t] # "done") => a \in alerts'
  Quiet    == \A a \in alerts' : a[1] \notin merged'
<1>1. NInv /\ [Next]_vars => NInv'
  <2> SUFFICES ASSUME NInv, [Next]_vars PROVE NInv'
    OBVIOUS
  <2>1. Known'
    BY KnownKept DEF NInv
  <2>2. AnswerIsLast' /\ ReportIsKept' /\ KeptIsNotRun' /\ OkIsOpen'
    BY AnswerKept, ReportKept, NotRunKept, OpenKept
  <2>3. ClosedIsIdle' /\ WorkFollowsSocle' /\ LoopEnds' /\ DrainedIsFull'
    BY <2>2, ClosedKept, FollowsKept, EndsKept, DrainedKept
  <2> QED
    BY <2>1, <2>2, <2>3 DEF NInv
<1>2. NInv /\ NInv' /\ [Next]_vars => Reported /\ Resolved /\ Quiet
  <2> SUFFICES ASSUME NInv, NInv', [Next]_vars PROVE Reported /\ Resolved /\ Quiet
    OBVIOUS
  <2>0. Shape /\ Domains
    BY TypeParts DEF NInv, Known, DInv
  <2>1. ASSUME NEW d \in Drains, pc[d] # "finalize", pc'[d] = "finalize", Uncut(d), NEW f \in Features
        PROVE  /\ last[d][f] \in Held => f \in merged' \/ <<f, last[d][f]>> \in alerts'
               /\ scope[d] = Whole /\ last[d][f] = "ok" => Ready(f) = {}
    <3>1. pc[d] = "join" /\ UNCHANGED <<merged, alerts>>
      BY <2>0, <2>1, CloseMoves
    <3>2. Spent(d)
      BY <2>1, <3>1 DEF NInv, LoopEnds, Uncut, Limited
    <3>3. last[d][f] \in Held => f \in merged \/ <<f, last[d][f]>> \in alerts
      BY <3>1, <3>2, ValuesDiffer DEF NInv, ReportIsKept, Going, Spent
    <3> QED
      BY <3>1, <3>2, <3>3 DEF Spent
  <2>2. ASSUME NEW d \in Drains, pc[d] = "finalize", pc'[d] = "idle",
               NEW a \in alerts, a[2] \in WorkerKinds, NEW t \in TasksOf(a[1]), task[t] # "done"
        PROVE  a \in alerts'
    <3>1. UNCHANGED merged /\ \A e \in Drains : a[1] \notin drained[e]
      <4>1. UNCHANGED merged
        BY <2>0, <2>2, CloseMoves DEF End, roadmap
      <4>2. \A e \in Drains : a[1] \notin drained[e]
        BY <2>2 DEF TasksOf, NInv, DrainedIsFull, Full
      <4> QED
        BY <4>1, <4>2
    <3>2. a[1] \notin merged
      BY <2>0 DEF NInv, ClosedIsIdle, Domains
    <3> QED
      BY <2>0, <2>2, <3>1, <3>2, AlertCloses
  <2>3. Quiet
    <3>1. Domains'
      <4>1. TypeOK'
        BY DEF NInv, Known, DInv
      <4>2. TypeOK' <=> Shape' /\ Domains'
        BY TypeParts, PTL
      <4> QED
        BY <4>1, <4>2
    <3> QED
      BY <3>1 DEF NInv, ClosedIsIdle, Domains
  <2> QED
    BY <2>1, <2>2, <2>3
<1> QED
  BY <1>1, <1>2, NInvInit, PTL DEF Spec, NoSilentBlock
=============================================================================
