----------------------------- MODULE StoreProofs -----------------------------
(***************************************************************************)
(* What keeps a project, for every value of the constants: the correction  *)
(* passes, the roadmap, the merges and redrains, the tiers, the database.  *)
(* Each machine of the store moves by its own steps or not at all, so each *)
(* rests on an inductive invariant of its own.                             *)
(***************************************************************************)
EXTENDS Store, FiniteSetTheorems, SequenceTheorems, WellFoundedInduction, TLAPS

(***************************************************************************)
(* Refix: the review axis, whatever crosses it                             *)
(***************************************************************************)
\* Passes, drains, failures and crashes overlap: a verdict speaks of the head it
\* names, so a green gate stands on a clean review, and the passes stay bounded.

\* A review verdict says of the content it names what a reviewer finds there.
ReviewIsOfItsHead ==
  review # None => /\ review.sha \in Contents
                   /\ review.red = (review.sha \notin clean)

\* Inductive: the head a reviewer holds is a content, so is the verdict's.
IInv == TypeOK /\ ReviewIsOfItsHead

\* The invariant holds before the first pass.
LEMMA InitHolds == Init => IInv
<1> USE RefixAssumption DEF Contents
<1>1. Init => TypeOK
  BY DEF Init, TypeOK
<1> QED BY <1>1 DEF Init, IInv, ReviewIsOfItsHead

\* The shape of the state is kept, one step per action.
LEMMA TypeKept == TypeOK /\ [Next]_vars => TypeOK'
<1> SUFFICES ASSUME TypeOK, [Next]_vars PROVE TypeOK'
  OBVIOUS
<1> USE RefixAssumption DEF TypeOK, Contents, codeVars, Step
<1>1. ASSUME NEW r \in Requests, Refix(r) PROVE TypeOK'
  BY <1>1 DEF Refix
<1>2. ASSUME NEW r \in Requests, RecordFix(r) PROVE TypeOK'
  BY <1>2 DEF RecordFix
<1>3. ASSUME NEW r \in Requests, WorkerEdits(r) PROVE TypeOK'
  BY <1>3 DEF WorkerEdits
<1>4. ASSUME NEW r \in Requests, WorkerCommits(r) PROVE TypeOK'
  BY <1>4 DEF WorkerCommits
<1>5. ASSUME NEW r \in Requests, WorkerFails(r) \/ ReviewFails(r)
      PROVE  TypeOK'
  BY ZenonT(60), <1>5 DEF WorkerFails, ReviewFails
<1>6. ASSUME NEW r \in Requests, Finalize(r) PROVE TypeOK'
  BY <1>6 DEF Finalize
<1>7. ASSUME NEW r \in Requests, ReadHead(r) PROVE TypeOK'
  BY <1>7 DEF ReadHead
<1>8. ASSUME NEW r \in Requests, RunToolchain(r) PROVE TypeOK'
  BY <1>8 DEF RunToolchain
<1>9. ASSUME NEW r \in Requests, StartReview(r) PROVE TypeOK'
  BY <1>9 DEF StartReview
<1>10. ASSUME NEW r \in Requests, WriteReview(r) PROVE TypeOK'
  BY <1>10 DEF WriteReview
<1>11. CASE Crash
  BY <1>11 DEF Crash
<1>12. CASE UNCHANGED vars
  BY <1>12 DEF vars
<1> QED BY <1>1, <1>2, <1>3, <1>4, <1>5, <1>6, <1>7, <1>8, <1>9, <1>10,
           <1>11, <1>12 DEF Next

\* Only WriteReview touches the verdict, and it writes what it was started on.
LEMMA VerdictKept == IInv /\ [Next]_vars => ReviewIsOfItsHead'
<1> SUFFICES ASSUME IInv, [Next]_vars PROVE ReviewIsOfItsHead'
  OBVIOUS
<1> USE RefixAssumption DEF IInv, ReviewIsOfItsHead, Contents, codeVars
<1>1. ASSUME NEW r \in Requests, WriteReview(r) PROVE ReviewIsOfItsHead'
  <2>1. sha[r] \in Contents
    BY <1>1 DEF WriteReview, Step, TypeOK
  <2> QED BY <1>1, <2>1 DEF WriteReview
<1>2. CASE UNCHANGED <<review, clean>>
  BY <1>2
<1> QED BY <1>1, <1>2
        DEF Next, vars, Refix, RecordFix, WorkerEdits, WorkerCommits,
            WorkerFails, Finalize, ReadHead, RunToolchain, StartReview,
            ReviewFails, Crash

\* The invariant holds in every state.
LEMMA AlwaysIInv == Spec => []IInv
<1>1. IInv /\ [Next]_vars => IInv'
  BY TypeKept, VerdictKept DEF IInv
<1> QED BY InitHolds, <1>1, PTL DEF Spec

\* The state keeps its shape.
THEOREM RefixTypeCorrect == Spec => []TypeOK
BY AlwaysIInv, PTL DEF IInv

\* Whatever overlaps, fails or crashes, a green gate stands on a review that
\* found the head's own content clean (dispatch_reviewer, review.status).
THEOREM GreenReviewed == Spec => []GreenIsReviewed
<1>1. IInv => GreenIsReviewed
  <2> SUFFICES ASSUME IInv, GateGreen(Preview) PROVE head \in clean
    BY DEF GreenIsReviewed
  <2>1. ~ReviewMissing(Preview) /\ ~(ReviewRed(Preview) /\
          ~T1Overridden(Preview))
    BY DEF GateGreen, Blockers
  <2>2. ReviewState = "fresh" /\ ~(review # None /\ review.red)
    BY <2>1 DEF ReviewMissing, ReviewRed, T1Overridden, Preview
  <2>3. review # None /\ review.sha = head /\ ~review.red
    BY <2>2 DEF ReviewState
  <2> QED BY <2>3 DEF IInv, ReviewIsOfItsHead
<1> QED BY <1>1, AlwaysIInv, PTL

-----------------------------------------------------------------------------
\* Requests that counted the passes and have not recorded theirs.
Counted == {r \in Requests : pc[r] = "spend"}

\* Inductive: a pass that is counted is as good as spent.
PassesAreCounted ==
  fixes + Cardinality(Counted) <= MaxFixPasses + Cardinality(Requests) - 1

\* The requests about to spend a pass are finitely many, at most all of them.
LEMMA CountedIsFinite ==
  /\ Cardinality(Requests) \in Nat \ {0}
  /\ IsFiniteSet(Counted) /\ Cardinality(Counted) \in Nat
  /\ Cardinality(Counted) <= Cardinality(Requests)
<1> USE RefixAssumption
<1>1. Cardinality(Requests) \in Nat \ {0}
  BY FS_CardinalityType, FS_EmptySet
<1>2. Counted \in SUBSET Requests
  BY DEF Counted
<1>3. IsFiniteSet(Counted) /\ Cardinality(Counted) <= Cardinality(Requests)
  BY <1>2, FS_Subset
<1> QED BY <1>1, <1>3, FS_CardinalityType

\* A step that records nothing and counts no further request keeps the bound.
LEMMA FewerCounted ==
  ASSUME TypeOK, PassesAreCounted, fixes' = fixes, Counted' \subseteq Counted
  PROVE  PassesAreCounted'
<1>1. IsFiniteSet(Counted') /\ Cardinality(Counted') <= Cardinality(Counted)
  BY CountedIsFinite, FS_Subset
<1>2. Cardinality(Counted') \in Nat
  BY <1>1, FS_CardinalityType
<1> QED
  BY <1>1, <1>2, CountedIsFinite, RefixAssumption DEF PassesAreCounted, TypeOK

\* Every step keeps the passes counted.
LEMMA PassesKept ==
  ASSUME TypeOK, PassesAreCounted, [Next]_vars PROVE PassesAreCounted'
<1> USE DEF Step, codeVars
<1>1. ASSUME NEW r \in Requests, Refix(r) PROVE PassesAreCounted'
  <2>1. fixes' = fixes /\ fixes < MaxFixPasses
    BY <1>1 DEF Refix
  <2>2. Counted' \in SUBSET Requests
    BY DEF Counted
  <2>3. IsFiniteSet(Counted') /\ Cardinality(Counted') <= Cardinality(Requests)
    BY <2>2, RefixAssumption, FS_Subset
  <2>4. Cardinality(Counted') \in Nat
    BY <2>3, FS_CardinalityType
  <2> QED
    BY <2>1, <2>3, <2>4, CountedIsFinite, RefixAssumption DEF PassesAreCounted, TypeOK
<1>2. ASSUME NEW r \in Requests, RecordFix(r) PROVE PassesAreCounted'
  <2>1. fixes' = fixes + 1 /\ r \in Counted
    BY <1>2 DEF RecordFix, Counted
  <2>2. Counted' = Counted \ {r}
    BY <1>2 DEF RecordFix, Counted, TypeOK
  <2>3. Cardinality(Counted') = Cardinality(Counted) - 1
    BY <2>1, <2>2, CountedIsFinite, FS_RemoveElement
  <2> QED
    BY <2>1, <2>3, CountedIsFinite, RefixAssumption DEF PassesAreCounted, TypeOK
<1>3. ASSUME NEW r \in Requests, WorkerEdits(r) PROVE PassesAreCounted'
  BY <1>3, FewerCounted DEF WorkerEdits, Counted
<1>4. ASSUME NEW r \in Requests, WorkerCommits(r) PROVE PassesAreCounted'
  BY <1>4, FewerCounted DEF WorkerCommits, Counted, TypeOK
<1>5. ASSUME NEW r \in Requests, WorkerFails(r) \/ ReviewFails(r) PROVE PassesAreCounted'
  BY <1>5, FewerCounted DEF WorkerFails, ReviewFails, Counted, TypeOK
<1>6. ASSUME NEW r \in Requests, Finalize(r) \/ ReadHead(r) PROVE PassesAreCounted'
  BY <1>6, FewerCounted DEF Finalize, ReadHead, Counted, TypeOK
<1>7. ASSUME NEW r \in Requests, RunToolchain(r) PROVE PassesAreCounted'
  BY <1>7, FewerCounted DEF RunToolchain, Counted, TypeOK
<1>8. ASSUME NEW r \in Requests, StartReview(r) PROVE PassesAreCounted'
  BY <1>8, FewerCounted DEF StartReview, Counted, TypeOK
<1>9. ASSUME NEW r \in Requests, WriteReview(r) PROVE PassesAreCounted'
  BY <1>9, FewerCounted DEF WriteReview, Counted, TypeOK
<1>10. CASE Crash
  BY <1>10, FewerCounted DEF Crash, Counted
<1>11. CASE UNCHANGED vars
  BY <1>11, FewerCounted DEF vars, Counted
<1> QED BY <1>1, <1>2, <1>3, <1>4, <1>5, <1>6, <1>7, <1>8, <1>9, <1>10, <1>11 DEF Next

\* However many requests overlap and whatever crashes, the passes exceed
\* MAX_FIX_PASSES by at most the requests that overlap, less one.
THEOREM PassesBounded == Spec => []PassesAreBounded
<1>1. Init => PassesAreCounted
  <2> SUFFICES ASSUME Init PROVE PassesAreCounted
    OBVIOUS
  <2>1. Counted = {} /\ fixes = 0
    BY DEF Init, Counted
  <2> QED BY <2>1, FS_EmptySet, CountedIsFinite, RefixAssumption DEF PassesAreCounted
<1>2. TypeOK /\ PassesAreCounted => PassesAreBounded
  BY CountedIsFinite, RefixAssumption DEF PassesAreCounted, PassesAreBounded, TypeOK
<1>3. TypeOK /\ PassesAreCounted /\ [Next]_vars => PassesAreCounted'
  BY PassesKept
<1> QED BY <1>1, <1>2, <1>3, RefixTypeCorrect, PTL DEF Spec

\* The correction loop of the store is the one above.
LEMMA RefixIsTheirs == StoreSpec => Spec
<1>1. StoreInit => Init
  BY DEF StoreInit
<1>2. [StoreNext]_all => [Next]_vars
  BY DEF StoreNext, all
<1> QED BY <1>1, <1>2, PTL DEF StoreSpec, Spec

(***************************************************************************)
(* Roadmap: rows and their dependencies                                    *)
(***************************************************************************)
\* A collection of subsets of a finite set that is not empty has a member that
\* contains no other.
LEMMA Minimal ==
  ASSUME NEW D, IsFiniteSet(D), NEW C \in SUBSET (SUBSET D), C # {}
  PROVE  \E S \in C : \A T \in C : T \subseteq S => T = S
<1>1. C \subseteq FiniteSubsetsOf(D)
  BY FS_Subset DEF FiniteSubsetsOf
<1>2. IsWellFoundedOn(StrictSubsetOrdering(D), FiniteSubsetsOf(D))
  BY FS_StrictSubsetOrderingWellFounded
<1>3. PICK S \in C : \A T \in C : <<T, S>> \notin StrictSubsetOrdering(D)
  BY <1>1, <1>2, WFMin
<1> QED BY <1>3 DEF StrictSubsetOrdering

\* What a closed set is: the dependencies of its rows are in it.
Closure(index, S) == S \subseteq Ro!Rows(index) /\ \A m \in S : Ro!Above(index, m) \subseteq S

\* A row is off every cycle when a closed set that has its dependencies has not it.
LEMMA OffCycle ==
  ASSUME NEW index, NEW n \in Ro!Rows(index)
  PROVE  n \notin Ro!Cyclic(index) <=>
           \E S : Closure(index, S) /\ Ro!Above(index, n) \subseteq S /\ n \notin S
BY DEF Ro!Cyclic, Closure

\* While a row is not done, one of those that are not waits for nothing, when none
\* of them waits for a row that is missing or is on a cycle.
LEMMA SomethingIsReady ==
  ASSUME NEW index, NEW done, IsFiniteSet(DOMAIN index),
         NEW m \in Ro!Rows(index), index[m].status # done,
         \A n \in Ro!Rows(index) : index[n].status # done =>
           index[n].deps \subseteq Ro!Rows(index) /\ n \notin Ro!Cyclic(index)
  PROVE  \E n \in Ro!Rows(index) :
           /\ index[n].status # done
           /\ \A d \in index[n].deps : index[d].status = done
<1> DEFINE R == Ro!Rows(index)
           Undone == {n \in R : index[n].status # done}
           C == {S \in SUBSET R : Closure(index, S) /\ S \cap Undone # {}}
<1>1. IsFiniteSet(R)
  BY FS_Subset DEF Ro!Rows
<1>2. R \in C
  BY DEF Closure, Ro!Above
<1>3. PICK S \in C : \A T \in C : T \subseteq S => T = S
  <2> HIDE DEF R, C
  <2>1. C \in SUBSET (SUBSET R) /\ C # {}
    BY <1>2 DEF C
  <2> QED BY <1>1, <2>1, Minimal
<1>4. PICK n \in S : n \in Undone
  BY <1>3
<1>5. PICK T : Closure(index, T) /\ Ro!Above(index, n) \subseteq T /\ n \notin T
  BY <1>4, OffCycle
<1>6. S \cap T \notin C
  BY <1>3, <1>4, <1>5
<1>7. Closure(index, S \cap T)
  BY <1>3, <1>5 DEF Closure
<1>8. ASSUME NEW d \in index[n].deps, index[d].status # done PROVE FALSE
  <2>1. d \in Undone /\ d \in Ro!Above(index, n)
    BY <1>4, <1>8 DEF Ro!Above
  <2>2. d \in S \cap T
    BY <1>3, <1>4, <1>5, <2>1 DEF Closure
  <2> QED BY <1>3, <1>6, <1>7, <2>1, <2>2
<1> QED BY <1>4, <1>8

\* An edit of one row that leaves it off every cycle puts no other on one.
LEMMA EditClosesNoCycle ==
  ASSUME NEW old, NEW new, NEW n, Ro!Rows(new) = Ro!Rows(old),
         \A m \in Ro!Rows(old) : m # n => new[m].deps = old[m].deps,
         n \in Ro!Rows(old), n \notin Ro!Cyclic(new)
  PROVE  Ro!Cyclic(new) \subseteq Ro!Cyclic(old)
<1> SUFFICES ASSUME NEW m \in Ro!Cyclic(new), m \notin Ro!Cyclic(old) PROVE FALSE
  OBVIOUS
<1>1. m \in Ro!Rows(old) /\ m # n
  BY DEF Ro!Cyclic
<1>2. PICK S : Closure(old, S) /\ Ro!Above(old, m) \subseteq S /\ m \notin S
  BY <1>1, OffCycle
<1>3. PICK T : Closure(new, T) /\ Ro!Above(new, n) \subseteq T /\ n \notin T
  BY OffCycle
<1>4. \A k \in Ro!Rows(old) : k # n => Ro!Above(new, k) = Ro!Above(old, k)
  BY DEF Ro!Above
<1>5. \A U : Closure(new, U) /\ Ro!Above(new, m) \subseteq U => m \in U
  BY <1>1, OffCycle
<1>6. CASE m \in T
  <2>1. Closure(new, S \cap T)
    BY <1>2, <1>3, <1>4 DEF Closure
  <2>2. Ro!Above(new, m) \subseteq S \cap T
    BY <1>1, <1>2, <1>3, <1>4, <1>6 DEF Closure
  <2> QED BY <1>2, <1>5, <2>1, <2>2
<1>7. CASE m \notin T
  <2>1. Closure(new, S \cup T)
    BY <1>2, <1>3, <1>4 DEF Closure
  <2>2. Ro!Above(new, m) \subseteq S \cup T
    BY <1>1, <1>2, <1>4
  <2> QED BY <1>2, <1>5, <1>7, <2>1, <2>2
<1> QED BY <1>6, <1>7

\* The rows of the roadmap are finitely many.
LEMMA RoadmapFinite ==
  IsFiniteSet(Slugs) /\ \A f \in Slugs : IsFiniteSet(TaskSlugs[f])
<1>1. \A S : Ro!IsFiniteSet(S) <=> IsFiniteSet(S)
  BY DEF Ro!IsFiniteSet, IsFiniteSet
<1> QED BY <1>1, StoreAssumption DEF StoreAssumption, Ro!RoadmapAssumption

\* A task is of one feature, and what has been decided is at least merged.
LEMMA RoadmapHolds ==
  /\ \A f, g \in Slugs : f # g => TaskSlugs[f] \cap TaskSlugs[g] = {}
  /\ Decided \in {{"merged", "done"}, {"merged", "done", "active"}}
BY StoreAssumption DEF StoreAssumption, Ro!RoadmapAssumption

\* Every row is of a feature or a task, with a status and dependencies.
LEMMA RoadmapIsTyped ==
  ASSUME Ro!TypeOK, [Ro!Next]_roadmap
  PROVE  Ro!TypeOK'
<1> USE DEF Ro!TypeOK
<1>0. \A f \in Slugs : TaskSlugs[f] \subseteq Ro!Tasks
  BY DEF Ro!Tasks
<1>1. ASSUME NEW f \in Slugs, Ro!AddFeature(f) PROVE Ro!TypeOK'
  <2>1. PICK deps \in SUBSET Slugs : rfeature' = [rfeature EXCEPT ![f] = [status |-> "planned", deps |-> deps]]
    BY <1>1 DEF Ro!AddFeature
  <2>2. rfeature' \in [Slugs -> [status : {"absent", "planned", "active", "merged"}, deps : SUBSET Slugs]]
    BY <2>1
  <2>3. bare' \in BOOLEAN
    BY <1>1 DEF Ro!AddFeature
  <2> QED BY <1>1, <2>2, <2>3 DEF Ro!AddFeature
<1>2. ASSUME NEW f \in Slugs, Ro!SetFeatureDeps(f) PROVE Ro!TypeOK'
  <2>1. PICK deps \in SUBSET Slugs : rfeature' = [rfeature EXCEPT ![f].deps = deps]
    BY <1>2 DEF Ro!SetFeatureDeps
  <2> QED BY <1>2, <2>1 DEF Ro!SetFeatureDeps
<1>3. ASSUME NEW f \in Slugs, Ro!Merge(f) PROVE Ro!TypeOK'
  BY <1>3 DEF Ro!Merge
<1>4. ASSUME NEW f \in Slugs, NEW t \in TaskSlugs[f], Ro!AddTask(f, t) PROVE Ro!TypeOK'
  <2>1. PICK deps \in SUBSET TaskSlugs[f] : rtask' = [rtask EXCEPT ![t] = [status |-> "todo", deps |-> deps]]
    BY <1>4 DEF Ro!AddTask
  <2>2. deps \in SUBSET Ro!Tasks /\ t \in Ro!Tasks
    BY <1>0
  <2> QED BY <1>4, <2>1, <2>2 DEF Ro!AddTask
<1>5. ASSUME NEW f \in Slugs, NEW t \in TaskSlugs[f], Ro!SetTaskDeps(f, t) PROVE Ro!TypeOK'
  <2>1. PICK deps \in SUBSET TaskSlugs[f] : rtask' = [rtask EXCEPT ![t].deps = deps]
    BY <1>5 DEF Ro!SetTaskDeps
  <2>2. deps \in SUBSET Ro!Tasks /\ t \in Ro!Tasks
    BY <1>0
  <2> QED BY <1>5, <2>1, <2>2 DEF Ro!SetTaskDeps
<1>6. ASSUME NEW f \in Slugs, NEW t \in TaskSlugs[f], Ro!Work(f, t) PROVE Ro!TypeOK'
  BY <1>0, <1>6 DEF Ro!Work
<1>7. CASE UNCHANGED roadmap
  BY <1>7 DEF roadmap
<1> QED BY <1>1, <1>2, <1>3, <1>4, <1>5, <1>6, <1>7 DEF Ro!Next

\* The tasks of a feature have the rows of the tasks.
LEMMA IndexOfFeature ==
  ASSUME Ro!TypeOK, NEW f \in Slugs
  PROVE  /\ DOMAIN Ro!Index(f) = TaskSlugs[f]
         /\ \A t \in TaskSlugs[f] : Ro!Index(f)[t] = rtask[t]
         /\ IsFiniteSet(DOMAIN Ro!Index(f))
<1>1. TaskSlugs[f] \subseteq Ro!Tasks /\ IsFiniteSet(TaskSlugs[f])
  BY RoadmapFinite DEF Ro!Tasks
<1> QED BY <1>1 DEF Ro!Index, Ro!TypeOK

\* A feature that may be worked on and whose tasks the check has nothing to say
\* about has a task that is ready, unless they are all done.
LEMMA TaskIsReady ==
  ASSUME Ro!TypeOK, NEW f \in Ro!Rows(rfeature), Ro!Rows(Ro!Index(f)) # {},
         f \notin Ro!Worked, rfeature[f].status # "merged",
         \A t \in Ro!Rows(Ro!Index(f)) : Ro!classify(Ro!Index(f))[t] \notin {"ERROR", "CYCLE"}
  PROVE  Ro!resolve_next(f) # {}
<1> DEFINE index == Ro!Index(f)
<1>1. f \in Slugs
  BY DEF Ro!TypeOK, Ro!Rows
<1>2. \A t \in Ro!Rows(index) : t \in TaskSlugs[f] /\ index[t] = rtask[t] /\ rtask[t].status \in {"todo", "done"}
  BY <1>1, IndexOfFeature, RoadmapHolds DEF Ro!Rows, Ro!TypeOK, Ro!Tasks
<1>3. PICK m \in Ro!Rows(index) : index[m].status # "done"
  BY <1>2 DEF Ro!Worked
<1>4. \A n \in Ro!Rows(index) : "todo" \notin Decided /\ Ro!classify(index)[n] = Ro!State(index, "done", n)
  BY RoadmapHolds DEF Ro!classify, Ro!RoadmapAssumption
<1>5. \A n \in Ro!Rows(index) : index[n].status # "done" =>
        index[n].deps \subseteq Ro!Rows(index) /\ n \notin Ro!Cyclic(index)
  BY <1>2, <1>4 DEF Ro!State
<1> HIDE DEF index
<1>6. PICK n \in Ro!Rows(index) : /\ index[n].status # "done"
                                  /\ \A d \in index[n].deps : index[d].status = "done"
  BY <1>1, <1>3, <1>5, SomethingIsReady, IndexOfFeature DEF index
<1>7. Ro!classify(index)[n] = "READY"
  BY <1>2, <1>4, <1>5, <1>6 DEF Ro!State
<1> QED BY <1>6, <1>7 DEF Ro!resolve_next, index

\* The check has nothing to say: a feature is merged, worked or discoverable.
LEMMA RoadmapDrains == ASSUME Ro!TypeOK PROVE Ro!OperationalDrains
<1> SUFFICES ASSUME Ro!check_roadmap = {}, Ro!Worked = {},
                    NEW m \in Ro!Rows(rfeature), rfeature[m].status # "merged"
             PROVE  Ro!Discoverable # {}
  BY DEF Ro!OperationalDrains
<1> DEFINE Undone(f) == f \in Ro!Rows(rfeature) /\ rfeature[f].status # "merged"
<1>1. DOMAIN rfeature = Slugs /\ IsFiniteSet(Slugs)
      /\ \A f \in Ro!Rows(rfeature) : f \in Slugs /\ rfeature[f].status \in {"planned", "active", "merged"}
  <2>1. IsFiniteSet(Slugs)
    BY RoadmapFinite
  <2> QED BY <2>1 DEF Ro!TypeOK, Ro!Rows
<1>2. \A f \in Ro!Rows(rfeature) :
        /\ Ro!Rows(Ro!Index(f)) # {}
        /\ \A t \in Ro!Rows(Ro!Index(f)) : Ro!classify(Ro!Index(f))[t] \notin {"ERROR", "CYCLE"}
        /\ Ro!classify_features(rfeature)[f] \notin {"ERROR", "CYCLE"}
        /\ Ro!classify_features(rfeature)[f] = Ro!State(rfeature, "merged", f)
  <2> SUFFICES ASSUME NEW f \in Ro!Rows(rfeature)
               PROVE  /\ Ro!Rows(Ro!Index(f)) # {}
                      /\ \A t \in Ro!Rows(Ro!Index(f)) : Ro!classify(Ro!Index(f))[t] \notin {"ERROR", "CYCLE"}
                      /\ Ro!classify_features(rfeature)[f] \notin {"ERROR", "CYCLE"}
                      /\ Ro!classify_features(rfeature)[f] = Ro!State(rfeature, "merged", f)
    OBVIOUS
  <2> DEFINE Bad(states) == {states[n] : n \in DOMAIN states} \cap {"ERROR", "CYCLE"}
  <2>1. /\ Ro!Rows(Ro!Index(f)) # {}
        /\ Bad(Ro!classify(Ro!Index(f))) = {} /\ Bad(Ro!classify_features(rfeature)) = {}
    BY DEF Ro!check_roadmap
  <2>2. DOMAIN Ro!classify(Ro!Index(f)) = Ro!Rows(Ro!Index(f))
    BY DEF Ro!classify
  <2>3. DOMAIN Ro!classify_features(rfeature) = Ro!Rows(rfeature)
        /\ Ro!classify_features(rfeature)[f] = Ro!State(rfeature, "merged", f)
    BY DEF Ro!classify_features
  <2> QED BY <2>1, <2>2, <2>3
<1>3. \A f : Undone(f) => Ro!resolve_next(f) # {}
  BY <1>2, TaskIsReady
<1>4. CASE \E f : Undone(f) /\ rfeature[f].status \in Decided
  <2>1. PICK f : Undone(f) /\ rfeature[f].status \in Decided
    BY <1>4
  <2>2. Ro!classify_features(rfeature)[f] = rfeature[f].status
    BY <1>2, <2>1 DEF Ro!State
  <2> QED BY <1>1, <1>3, <2>1, <2>2 DEF Ro!Discoverable
<1>5. CASE \A f : Undone(f) => rfeature[f].status \notin Decided
  <2>1. \A f : Undone(f) => rfeature[f].deps \subseteq Ro!Rows(rfeature) /\ f \notin Ro!Cyclic(rfeature)
    BY <1>2, <1>5 DEF Ro!State
  <2>2. PICK f \in Ro!Rows(rfeature) : /\ rfeature[f].status # "merged"
                                       /\ \A d \in rfeature[f].deps : rfeature[d].status = "merged"
    BY <1>1, <2>1, SomethingIsReady
  <2>3. Ro!classify_features(rfeature)[f] = "READY"
    BY <1>2, <1>5, <2>1, <2>2 DEF Ro!State
  <2> QED BY <1>3, <2>2, <2>3 DEF Ro!Discoverable
<1> QED BY <1>4, <1>5

\* An accepted edit of a feature closes no cycle.
LEMMA FeatureEditClosesNoCycle ==
  ASSUME Ro!TypeOK, [Ro!Next]_roadmap, NEW f \in Ro!Rows(rfeature),
         rfeature[f].status \notin Decided, rfeature'[f].deps # rfeature[f].deps
  PROVE  Ro!Cyclic(rfeature') \subseteq Ro!Cyclic(rfeature)
<1>1. f \in Slugs /\ DOMAIN rfeature = Slugs /\ rfeature \in [Slugs -> [status : {"absent", "planned", "active", "merged"}, deps : SUBSET Slugs]]
  BY DEF Ro!TypeOK, Ro!Rows
<1>2. Ro!SetFeatureDeps(f)
  <2>1. ASSUME NEW g \in Slugs, Ro!AddFeature(g) PROVE FALSE
    BY <1>1, <2>1 DEF Ro!AddFeature, Ro!Rows
  <2>2. ASSUME NEW g \in Slugs, Ro!SetFeatureDeps(g) PROVE g = f
    BY <1>1, <2>2 DEF Ro!SetFeatureDeps
  <2>3. ASSUME NEW g \in Slugs, Ro!Merge(g) \/ \E t \in TaskSlugs[g] : Ro!Work(g, t) PROVE FALSE
    BY <1>1, <2>3 DEF Ro!Merge, Ro!Work
  <2>4. ASSUME NEW g \in Slugs, NEW t \in TaskSlugs[g], Ro!AddTask(g, t) \/ Ro!SetTaskDeps(g, t) PROVE FALSE
    BY <2>4 DEF Ro!AddTask, Ro!SetTaskDeps
  <2> QED BY <2>1, <2>2, <2>3, <2>4 DEF Ro!Next, roadmap
<1>3. PICK deps \in SUBSET Slugs : /\ rfeature' = [rfeature EXCEPT ![f].deps = deps]
                                   /\ Ro!Accepted(Ro!classify_features(rfeature')[f])
  BY <1>2 DEF Ro!SetFeatureDeps
<1>4. Ro!Rows(rfeature') = Ro!Rows(rfeature) /\ rfeature'[f].status = rfeature[f].status
      /\ \A g \in Slugs : g # f => rfeature'[g] = rfeature[g]
  BY <1>1, <1>3 DEF Ro!Rows
<1>5. f \notin Ro!Cyclic(rfeature')
  BY <1>3, <1>4 DEF Ro!Accepted, Ro!classify_features, Ro!State
<1>6. \A m \in Ro!Rows(rfeature) : m # f => rfeature'[m].deps = rfeature[m].deps
  BY <1>1, <1>4 DEF Ro!Rows
<1> QED BY <1>4, <1>5, <1>6, EditClosesNoCycle

\* An accepted edit of a task closes no cycle among those of its feature.
LEMMA TaskEditClosesNoCycle ==
  ASSUME Ro!TypeOK, [Ro!Next]_roadmap, NEW f \in Slugs, NEW t \in Ro!Rows(Ro!Index(f)),
         rtask[t].status \notin Decided, rtask'[t].deps # rtask[t].deps
  PROVE  Ro!Cyclic(Ro!Index(f)') \subseteq Ro!Cyclic(Ro!Index(f))
<1>1. t \in TaskSlugs[f] /\ t \in Ro!Tasks /\ rtask[t].status # "absent"
      /\ rtask \in [Ro!Tasks -> [status : {"absent", "todo", "done"}, deps : SUBSET Ro!Tasks]]
  BY IndexOfFeature DEF Ro!TypeOK, Ro!Rows, Ro!Tasks
<1>2. PICK g \in Slugs : t \in TaskSlugs[g] /\ Ro!SetTaskDeps(g, t)
  <2>1. ASSUME NEW g \in Slugs, Ro!AddFeature(g) \/ Ro!SetFeatureDeps(g) \/ Ro!Merge(g) PROVE FALSE
    BY <2>1 DEF Ro!AddFeature, Ro!SetFeatureDeps, Ro!Merge
  <2>2. ASSUME NEW g \in Slugs, NEW u \in TaskSlugs[g], Ro!AddTask(g, u) PROVE FALSE
    BY <1>1, <2>2 DEF Ro!AddTask, Ro!Rows
  <2>3. ASSUME NEW g \in Slugs, NEW u \in TaskSlugs[g], Ro!SetTaskDeps(g, u) PROVE u = t
    BY <1>1, <2>3 DEF Ro!SetTaskDeps
  <2>4. ASSUME NEW g \in Slugs, NEW u \in TaskSlugs[g], Ro!Work(g, u) PROVE FALSE
    BY <1>1, <2>4 DEF Ro!Work
  <2> QED BY <2>1, <2>2, <2>3, <2>4 DEF Ro!Next, roadmap
<1>3. g = f
  BY <1>1, <1>2, RoadmapHolds DEF Ro!RoadmapAssumption
<1>4. PICK deps \in SUBSET TaskSlugs[f] :
        /\ rtask' = [rtask EXCEPT ![t].deps = deps]
        /\ Ro!Accepted(Ro!classify([u \in TaskSlugs[f] |-> rtask'[u]])[t])
  BY <1>2, <1>3 DEF Ro!SetTaskDeps
<1> DEFINE old == Ro!Index(f)
           new == [u \in TaskSlugs[f] |-> rtask'[u]]
<1>5. Ro!Index(f)' = new
  BY DEF Ro!Index
<1>6. TaskSlugs[f] \subseteq Ro!Tasks
  BY DEF Ro!Tasks
<1>7. /\ DOMAIN new = TaskSlugs[f] /\ DOMAIN old = TaskSlugs[f]
      /\ \A u \in TaskSlugs[f] : u # t => new[u] = old[u]
      /\ new[t].status = old[t].status /\ old[t] = rtask[t]
  BY <1>1, <1>4, <1>6, IndexOfFeature
<1> HIDE DEF old, new
<1>8. Ro!Rows(new) = Ro!Rows(old)
  BY <1>1, <1>7 DEF Ro!Rows
<1>9. t \in Ro!Rows(old)
  BY DEF old
<1>10. Ro!Accepted(Ro!State(new, "done", t))
  BY <1>4, <1>8, <1>9 DEF Ro!classify, new
<1>11. t \notin Ro!Cyclic(new)
  BY <1>7, <1>10 DEF Ro!Accepted, Ro!State
<1>12. \A m \in Ro!Rows(old) : m # t => new[m].deps = old[m].deps
  BY <1>7 DEF Ro!Rows
<1> QED BY <1>5, <1>8, <1>9, <1>11, <1>12, EditClosesNoCycle DEF old

\* For any features and tasks: a roadmap the check has nothing to say about leaves
\* a drain something to do until every feature is merged, and an accepted edit of a
\* row puts no row on a cycle it was not on.
THEOREM RoadmapIsSoundHolds == StoreSpec => RoadmapIsSound
<1> DEFINE Inv == part = "roadmap" => Ro!TypeOK
<1>1. StoreInit => Inv
  <2>1. Ro!NoRow \in [status : {"absent", "planned", "active", "merged"}, deps : SUBSET Slugs]
        /\ Ro!NoRow \in [status : {"absent", "todo", "done"}, deps : SUBSET Ro!Tasks]
    BY DEF Ro!NoRow
  <2>2. Ro!Init => Ro!TypeOK
    BY <2>1 DEF Ro!Init, Ro!TypeOK
  <2> QED BY <2>2 DEF StoreInit
<1>2. ASSUME [StoreNext]_all, part = "roadmap" PROVE [Ro!Next]_roadmap /\ part' = part
  BY <1>2 DEF StoreNext, all
<1>3. Inv /\ [StoreNext]_all => Inv'
  <2>1. [StoreNext]_all => part' = part
    BY DEF StoreNext, all
  <2> QED BY <1>2, <2>1, RoadmapIsTyped
<1>4. Inv /\ [StoreNext]_all => (part = "roadmap" => Ro!RoadmapStep)
  <2> SUFFICES ASSUME Ro!TypeOK, [Ro!Next]_roadmap PROVE Ro!RoadmapStep
    BY <1>2
  <2>1. Ro!TypeOK'
    BY RoadmapIsTyped
  <2>2. Ro!OperationalDrains'
    BY <2>1, RoadmapDrains, PTL
  <2>3. \A f \in Ro!Rows(rfeature) : f \in Slugs
    BY DEF Ro!TypeOK, Ro!Rows
  <2> QED BY <2>1, <2>2, <2>3, FeatureEditClosesNoCycle, TaskEditClosesNoCycle DEF Ro!RoadmapStep
<1> QED BY <1>1, <1>3, <1>4, PTL DEF StoreSpec, RoadmapIsSound

(***************************************************************************)
(* Merge: the store's machine is the one of MergeProofs                    *)
(***************************************************************************)
MP == INSTANCE MergeProofs WITH Tasks <- MergeTasks, wt <- mwt, head <- mhead, Faults <- MergeFaults, Overlap <- FALSE

\* The two instances of Merge have the same helpers.
LEMMA SameHelpers ==
  /\ Me!Jobs = MP!Jobs /\ Me!Commits = MP!Commits
  /\ \A s, t : Me!IsAncestor(s, t) = MP!IsAncestor(s, t)
  /\ \A s : Me!ToSet(s) = MP!ToSet(s)
  /\ \A b : Me!Ahead(b) = MP!Ahead(b)
  /\ \A f : /\ Me!Own(f) = MP!Own(f) /\ Me!OnDev(f) = MP!OnDev(f) /\ Me!Merging(f) = MP!Merging(f)
            /\ Me!Reserved(f) = MP!Reserved(f) /\ Me!TasksOf(f) = MP!TasksOf(f)
            /\ Me!Fresh(f) = MP!Fresh(f)
            /\ \A go, over : Me!Gate(f, go, over) = MP!Gate(f, go, over)
  /\ \A j : Me!Home(j) = MP!Home(j)
  /\ \A i : Me!Allow(i) = MP!Allow(i) /\ Me!T1Overridden(i) = MP!T1Overridden(i)
<1>1. Me!Jobs = MP!Jobs /\ Me!Commits = MP!Commits
  BY DEF Me!Jobs, MP!Jobs, Me!Commits, MP!Commits
<1>2. \A s, t : Me!IsAncestor(s, t) = MP!IsAncestor(s, t)
  BY DEF Me!IsAncestor, MP!IsAncestor, Me!IsPrefix, MP!IsPrefix
<1>3. \A s : Me!ToSet(s) = MP!ToSet(s)
  BY DEF Me!ToSet, MP!ToSet
<1>4. \A b : Me!Ahead(b) = MP!Ahead(b)
  BY <1>3 DEF Me!Ahead, MP!Ahead
<1>5. \A f : /\ Me!Own(f) = MP!Own(f) /\ Me!OnDev(f) = MP!OnDev(f) /\ Me!Merging(f) = MP!Merging(f)
             /\ Me!TasksOf(f) = MP!TasksOf(f) /\ Me!Fresh(f) = MP!Fresh(f)
  BY <1>2, <1>3 DEF Me!Own, MP!Own, Me!OnDev, MP!OnDev, Me!Merging, MP!Merging, Me!TasksOf, MP!TasksOf, Me!Fresh, MP!Fresh
<1>6. \A f : Me!Reserved(f) = MP!Reserved(f)
  BY <1>4, <1>5 DEF Me!Reserved, MP!Reserved, Me!Rebased, MP!Rebased
<1>7. \A f : \A go, over : Me!Gate(f, go, over) = MP!Gate(f, go, over)
  BY <1>5 DEF Me!Gate, MP!Gate
<1>8. \A j : Me!Home(j) = MP!Home(j)
  BY DEF Me!Home, MP!Home
<1>9. \A i : /\ Me!NativeBroken(i) = MP!NativeBroken(i) /\ Me!ReviewMissing(i) = MP!ReviewMissing(i)
             /\ Me!ReviewRed(i) = MP!ReviewRed(i) /\ Me!Unrendered(i) = MP!Unrendered(i)
  BY DEF Me!NativeBroken, MP!NativeBroken, Me!ReviewMissing, MP!ReviewMissing, Me!ReviewRed, MP!ReviewRed,
         Me!Unrendered, MP!Unrendered
<1>10. \A i : /\ Me!T1Overridden(i) = MP!T1Overridden(i) /\ Me!T15Overridden(i) = MP!T15Overridden(i)
  BY <1>9 DEF Me!T1Overridden, MP!T1Overridden, Me!T15Overridden, MP!T15Overridden
<1>11. \A i : Me!Blockers(i) = MP!Blockers(i)
  BY <1>9, <1>10 DEF Me!Blockers, MP!Blockers
<1>12. \A i : Me!Allow(i) = MP!Allow(i)
  BY <1>11 DEF Me!Allow, MP!Allow, Me!GateGreen, MP!GateGreen
<1> QED BY <1>1, <1>2, <1>3, <1>4, <1>5, <1>6, <1>7, <1>8, <1>10, <1>12

\* What MergeProofs assumes of its constants is what the store assumes.
LEMMA MergeHolds == MP!MergeAssumption /\ MP!NoneAssumption
BY SameHelpers, StoreAssumption
   DEF StoreAssumption, Me!MergeAssumption, Me!NoneAssumption, MP!MergeAssumption, MP!NoneAssumption,
       Me!FaultKinds, MP!FaultKinds

\* A run of a feature moves the same way.
LEMMA SameWork ==
  /\ \A t \in MergeTasks : Me!StartTask(t) => MP!StartTask(t)
  /\ \A f \in Features :
       /\ Me!StartFix(f) => MP!StartFix(f)
       /\ Me!Commit(f) => MP!Commit(f)
       /\ Me!WorkFails(f) => MP!WorkFails(f)
       /\ Me!ReviewStart(f) => MP!ReviewStart(f)
       /\ Me!ReviewFails(f) => MP!ReviewFails(f)
       /\ \A red \in BOOLEAN : Me!ReviewWrite(f, red) => MP!ReviewWrite(f, red)
       /\ Me!RedrainRelease(f) => MP!RedrainRelease(f)
       /\ Me!RedrainReset(f) => MP!RedrainReset(f)
  /\ Me!Crash => MP!Crash
<1> USE SameHelpers DEF Me!gitVars, MP!gitVars, Me!runVars, MP!runVars, Me!revVars, MP!revVars, Me!merVars, MP!merVars
<1>1. \A f, j : Me!Begin(f, j) => MP!Begin(f, j)
  BY DEF Me!Begin, MP!Begin
<1>2. \A t \in MergeTasks : Me!StartTask(t) => MP!StartTask(t)
  BY <1>1 DEF Me!StartTask, MP!StartTask
<1>3. \A f \in Features : Me!StartFix(f) => MP!StartFix(f)
  BY <1>1 DEF Me!StartFix, MP!StartFix
<1>4. \A f \in Features : Me!Commit(f) => MP!Commit(f)
  BY DEF Me!Commit, MP!Commit
<1>5. \A f \in Features : Me!WorkFails(f) => MP!WorkFails(f)
  BY DEF Me!WorkFails, MP!WorkFails
<1>6. \A f \in Features : Me!ReviewStart(f) => MP!ReviewStart(f)
  BY DEF Me!ReviewStart, MP!ReviewStart
<1>7. \A f \in Features : Me!ReviewFails(f) => MP!ReviewFails(f)
  BY DEF Me!ReviewFails, MP!ReviewFails
<1>8. \A f \in Features : \A red \in BOOLEAN : Me!ReviewWrite(f, red) => MP!ReviewWrite(f, red)
  BY DEF Me!ReviewWrite, MP!ReviewWrite
<1>9. \A f \in Features : Me!RedrainRelease(f) => MP!RedrainRelease(f)
  BY DEF Me!RedrainRelease, MP!RedrainRelease
<1>10. \A f \in Features : Me!RedrainReset(f) => MP!RedrainReset(f)
  BY DEF Me!RedrainReset, MP!RedrainReset
<1>11. Me!Crash => MP!Crash
  BY DEF Me!Crash, MP!Crash
<1> QED BY <1>2, <1>3, <1>4, <1>5, <1>6, <1>7, <1>8, <1>9, <1>10, <1>11

\* So does a merge.
LEMMA SameMerge ==
  /\ \A m \in Mergers : Me!MergeSteps(m) => MP!MergeSteps(m)
  /\ \A m \in Mergers, f \in Features, over \in BOOLEAN : Me!Evaluate(m, f, over) => MP!Evaluate(m, f, over)
<1> USE SameHelpers DEF Me!gitVars, MP!gitVars, Me!runVars, MP!runVars, Me!revVars, MP!revVars, Me!merVars, MP!merVars,
        Me!Step, MP!Step, Me!Ended, MP!Ended
<1>1. \A m : Me!Align(m) => MP!Align(m)
  <2>1. \A f : Me!Rebased(f) = MP!Rebased(f)
    BY DEF Me!Rebased, MP!Rebased
  <2> QED BY <2>1 DEF Me!Align, MP!Align
<1>2. \A m : Me!TestDev(m) => MP!TestDev(m)
  BY DEF Me!TestDev, MP!TestDev
<1>3. \A m : Me!MoveDev(m) => MP!MoveDev(m)
  BY DEF Me!MoveDev, MP!MoveDev
<1>4. \A m : Me!TestMain(m) => MP!TestMain(m)
  BY DEF Me!TestMain, MP!TestMain
<1>5. \A m : Me!MoveMain(m) => MP!MoveMain(m)
  BY DEF Me!MoveMain, MP!MoveMain
<1>6. \A m : Me!Release(m) => MP!Release(m)
  BY DEF Me!Release, MP!Release
<1>7. \A m : Me!DeleteBranch(m) => MP!DeleteBranch(m)
  BY DEF Me!DeleteBranch, MP!DeleteBranch
<1>8. \A m : Me!RecordMerge(m) => MP!RecordMerge(m)
  BY DEF Me!RecordMerge, MP!RecordMerge
<1>9. \A m : Me!CloseTasks(m) => MP!CloseTasks(m)
  BY DEF Me!CloseTasks, MP!CloseTasks
<1>10. \A m : Me!MergeRaises(m) => MP!MergeRaises(m)
  BY DEF Me!MergeRaises, MP!MergeRaises
<1>11. \A m \in Mergers, f \in Features, over \in BOOLEAN : Me!Evaluate(m, f, over) => MP!Evaluate(m, f, over)
  <2> SUFFICES ASSUME NEW m \in Mergers, NEW f \in Features, NEW over \in BOOLEAN, Me!Evaluate(m, f, over)
               PROVE  MP!Evaluate(m, f, over)
    OBVIOUS
  <2> DEFINE i == MP!Gate(f, TRUE, over)
  <2>1. i = Me!Gate(f, TRUE, over)
    OBVIOUS
  <2>2. MP!Allow(i) /\ (MP!T1Overridden(i) = Me!T1Overridden(i))
    BY <2>1 DEF Me!Evaluate
  <2> HIDE DEF i
  <2>3. cleared' = IF MP!T1Overridden(i) THEN cleared \cup MP!ToSet(branch[f]) ELSE cleared
    BY <2>1, <2>2 DEF Me!Evaluate
  <2> QED BY <2>2, <2>3 DEF Me!Evaluate, MP!Evaluate, i
<1> QED BY <1>1, <1>2, <1>3, <1>4, <1>5, <1>6, <1>7, <1>8, <1>9, <1>10, <1>11 DEF Me!MergeSteps, MP!MergeSteps

\* For any features, tasks and mergers: what reaches dev was in the head of a green
\* review, or of a red one a human overrode, redrains included.
THEOREM LandedIsClearedHolds == StoreSpec => []LandedIsCleared
<1>1. StoreInit => (part = "merge" => MP!LInv)
  <2>1. Me!Init => MP!Init
    BY SameHelpers DEF Me!Init, MP!Init
  <2> QED BY <2>1, MergeHolds, MP!LInvInit DEF StoreInit
<1>2. ASSUME [StoreNext]_all, part = "merge" PROVE [Me!Next]_merge
  BY <1>2 DEF StoreNext, all
<1>3. [Me!Next]_merge => [MP!Next]_(MP!vars)
  <2>1. Me!Next => MP!Next
    BY SameWork, SameMerge DEF Me!Next, MP!Next
  <2>2. UNCHANGED merge => UNCHANGED MP!vars
    BY DEF merge, MP!vars, MP!gitVars, MP!runVars, MP!revVars, MP!merVars
  <2> QED BY <2>1, <2>2
<1>4. [StoreNext]_all => part' = part
  BY DEF StoreNext, all
<1>5. (part = "merge" => MP!LInv) /\ [StoreNext]_all => (part = "merge" => MP!LInv)'
  BY <1>2, <1>3, <1>4, MergeHolds, MP!LInvKept
<1>6. (part = "merge" => MP!LInv) => LandedIsCleared
  BY SameHelpers DEF MP!LInv, MP!LandedIsCleared, LandedIsCleared, Me!LandedIsCleared
<1> QED BY <1>1, <1>5, <1>6, PTL DEF StoreSpec

(***************************************************************************)
(* Tiers: what a runner saw is what its verdict says                       *)
(***************************************************************************)
Within(s) == {s[i] : i \in DOMAIN s}

\* The groups of steps, and every step a group may play.
Groups == {"front", "backend-node", "backend", "declared"}
Plays == (UNION {Within(t.steps) : t \in Trees})
         \cup ({"npm-ci", "npm-run-gate", "ruff", "mypy", "pytest"} \X {"root", "web", "server"})

\* The first of a sequence and the others are all it holds.
LEMMA HeadAndTail ==
  ASSUME NEW S, NEW s \in Seq(S), s # <<>>
  PROVE  /\ Head(s) \in S /\ Tail(s) \in Seq(S)
         /\ Within(s) = {Head(s)} \cup Within(Tail(s))
<1>1. Len(s) \in Nat \ {0} /\ DOMAIN s = 1..Len(s) /\ Head(s) = s[1] /\ Tail(s) \in Seq(S)
      /\ Len(Tail(s)) = Len(s) - 1 /\ \A i \in 1..Len(Tail(s)) : Tail(s)[i] = s[i + 1]
  BY HeadTailProperties, EmptySeq, LenProperties
<1>2. DOMAIN Tail(s) = 1..(Len(s) - 1)
  BY <1>1, LenProperties
<1>3. ASSUME NEW i \in DOMAIN s, i # 1 PROVE s[i] \in Within(Tail(s))
  <2>1. i - 1 \in DOMAIN Tail(s) /\ Tail(s)[i - 1] = s[i]
    BY <1>1, <1>2, <1>3
  <2> QED BY <2>1 DEF Within
<1>4. ASSUME NEW i \in DOMAIN Tail(s) PROVE Tail(s)[i] \in Within(s)
  <2>1. i + 1 \in DOMAIN s /\ Tail(s)[i] = s[i + 1]
    BY <1>1, <1>2
  <2> QED BY <2>1 DEF Within
<1>5. Head(s) \in S /\ Head(s) \in Within(s)
  <2>1. 1 \in DOMAIN s /\ s[1] \in S
    BY <1>1, ElementOfSeq
  <2> QED BY <1>1, <2>1 DEF Within
<1>6. Within(s) \subseteq {Head(s)} \cup Within(Tail(s))
  BY <1>1, <1>3 DEF Within
<1>7. Within(Tail(s)) \subseteq Within(s)
  BY <1>4 DEF Within
<1> QED BY <1>1, <1>5, <1>6, <1>7

\* What two sequences end to end hold.
LEMMA EndToEnd ==
  ASSUME NEW S, NEW s \in Seq(S), NEW t \in Seq(S)
  PROVE  s \o t \in Seq(S) /\ Within(s \o t) = Within(s) \cup Within(t)
<1>1. s \o t \in Seq(S) /\ Len(s \o t) = Len(s) + Len(t) /\ Len(s) \in Nat /\ Len(t) \in Nat
      /\ \A i \in 1..Len(s) + Len(t) : (s \o t)[i] = IF i <= Len(s) THEN s[i] ELSE t[i - Len(s)]
  BY ConcatProperties, LenProperties
<1>2. DOMAIN s = 1..Len(s) /\ DOMAIN t = 1..Len(t) /\ DOMAIN (s \o t) = 1..(Len(s) + Len(t))
  BY <1>1, LenProperties
<1>3. Within(s \o t) \subseteq Within(s) \cup Within(t)
  BY <1>1, <1>2 DEF Within
<1>4. ASSUME NEW i \in DOMAIN s PROVE s[i] \in Within(s \o t)
  BY <1>1, <1>2 DEF Within
<1>5. ASSUME NEW i \in DOMAIN t PROVE t[i] \in Within(s \o t)
  <2>1. Len(s) + i \in DOMAIN (s \o t) /\ (s \o t)[Len(s) + i] = t[i]
    BY <1>1, <1>2
  <2> QED BY <2>1 DEF Within
<1>6. Within(s) \subseteq Within(s \o t) /\ Within(t) \subseteq Within(s \o t)
  BY <1>4, <1>5 DEF Within
<1> QED BY <1>1, <1>3, <1>6

\* The groups a diff triggers are those of what it touches.
LEMMA TriggersAreTouched ==
  ASSUME NEW files
  PROVE  /\ Ti!Triggers(files) \in Seq(Groups)
         /\ "front" \in Within(Ti!Triggers(files)) <=> Ti!touches_front(files)
         /\ "backend-node" \in Within(Ti!Triggers(files)) <=> Ti!touches_node_backend(files)
         /\ "backend" \in Within(Ti!Triggers(files)) <=> Ti!touches_py(files)
         /\ "declared" \in Within(Ti!Triggers(files)) <=> Ti!touches_undeclared_source(files)
<1>1. \A touched, g : g \in Groups => /\ Ti!When(touched, g) \in Seq(Groups)
                                      /\ Within(Ti!When(touched, g)) = IF touched THEN {g} ELSE {}
  <2> SUFFICES ASSUME NEW touched, NEW g \in Groups
               PROVE  /\ Ti!When(touched, g) \in Seq(Groups)
                      /\ Within(Ti!When(touched, g)) = IF touched THEN {g} ELSE {}
    OBVIOUS
  <2>1. <<g>> \in Seq(Groups) /\ Within(<<g>>) = {g} /\ <<>> \in Seq(Groups) /\ Within(<<>>) = {}
    BY DEF Within
  <2> QED BY <2>1 DEF Ti!When
<1> DEFINE a == Ti!When(Ti!touches_front(files), "front")
           b == Ti!When(Ti!touches_node_backend(files), "backend-node")
           c == Ti!When(Ti!touches_py(files), "backend")
           d == Ti!When(Ti!touches_undeclared_source(files), "declared")
<1>2. /\ {a, b, c, d} \subseteq Seq(Groups)
      /\ Within(a) = IF Ti!touches_front(files) THEN {"front"} ELSE {}
      /\ Within(b) = IF Ti!touches_node_backend(files) THEN {"backend-node"} ELSE {}
      /\ Within(c) = IF Ti!touches_py(files) THEN {"backend"} ELSE {}
      /\ Within(d) = IF Ti!touches_undeclared_source(files) THEN {"declared"} ELSE {}
  BY <1>1 DEF Groups
<1> DEFINE ab == a \o b
           abc == ab \o c
           abcd == abc \o d
<1>3. Ti!Triggers(files) = abcd
  BY DEF Ti!Triggers
<1> HIDE DEF a, b, c, d
<1>4. ab \in Seq(Groups) /\ Within(ab) = Within(a) \cup Within(b)
  BY <1>2, EndToEnd
<1> HIDE DEF ab
<1>5. abc \in Seq(Groups) /\ Within(abc) = Within(ab) \cup Within(c)
  <2>1. ab \in Seq(Groups) /\ c \in Seq(Groups)
    BY <1>2, <1>4
  <2>2. ab \o c \in Seq(Groups) /\ Within(ab \o c) = Within(ab) \cup Within(c)
    BY <2>1, EndToEnd
  <2> QED BY <2>2
<1> HIDE DEF abc
<1>6. abcd \in Seq(Groups) /\ Within(abcd) = Within(abc) \cup Within(d)
  BY <1>2, <1>5, EndToEnd
<1> HIDE DEF abcd
<1>7. Within(abcd) = Within(a) \cup Within(b) \cup Within(c) \cup Within(d)
  BY <1>4, <1>5, <1>6
<1> QED BY <1>2, <1>3, <1>6, <1>7

\* A unit of a group is a sequence of steps.
LEMMA StepsAreSeq ==
  ASSUME NEW t \in Trees, NEW g \in Groups, NEW own \in BOOLEAN
  PROVE  Ti!Steps(g, t, own) \in Seq(Plays)
<1>1. Ti!Declared(t) \in Seq(Plays)
  <2>1. t.steps \in Seq(Within(t.steps))
    BY StoreAssumption DEF StoreAssumption, Ti!TiersAssumption, Within
  <2>2. Within(t.steps) \subseteq Plays
    BY DEF Plays
  <2>3. t.steps \in Seq(Plays)
    BY <2>1, <2>2, SeqMonotonic
  <2> QED BY <2>3, EmptySeq DEF Ti!Declared
<1> DEFINE d == Ti!NodeDir(g, t)
<1>2. d \in {"root", "web", "server"}
  BY DEF Ti!NodeDir
<1>3. /\ <<"npm-ci", d>> \in Plays /\ <<"npm-run-gate", d>> \in Plays
      /\ <<"ruff", "root">> \in Plays /\ <<"mypy", "root">> \in Plays /\ <<"pytest", "root">> \in Plays
  BY <1>2 DEF Plays
<1> HIDE DEF Plays
<1>4. /\ <<<<"ruff", "root">>, <<"mypy", "root">>, <<"pytest", "root">>>> \in Seq(Plays)
      /\ <<<<"npm-ci", d>>>> \in Seq(Plays) /\ <<<<"npm-run-gate", d>>>> \in Seq(Plays) /\ <<>> \in Seq(Plays)
  BY <1>3
<1>5. (IF own THEN <<<<"npm-ci", d>>>> ELSE <<>>) \o <<<<"npm-run-gate", d>>>> \in Seq(Plays)
  BY <1>4, ConcatProperties
<1> QED BY <1>1, <1>4, <1>5 DEF Ti!Steps, Groups

\* What a group's unit proves when its steps are green: every file it is for.
Covered(g, t) == \E own \in BOOLEAN : /\ Ti!Steps(g, t, own) # <<>>
                                       /\ Within(Ti!Steps(g, t, own)) \subseteq t.green

\* When every group the head triggers is covered, every source of it is proved.
LEMMA CoveredIsProved ==
  ASSUME NEW t \in Trees, \A g \in Within(Ti!Triggers(t.files)) : Covered(g, t)
  PROVE  \A f \in t.files : Ti!is_tier0_source(f) => Ti!Proved(f, t)
<1> SUFFICES ASSUME NEW f \in t.files, Ti!is_tier0_source(f) PROVE Ti!Proved(f, t)
  OBVIOUS
<1>1. ASSUME NEW g \in {"front", "backend-node"}, Covered(g, t)
      PROVE  Ti!NodeDir(g, t) \in t.gates /\ <<"npm-run-gate", Ti!NodeDir(g, t)>> \in t.green
  <2>1. PICK own \in BOOLEAN : Ti!Steps(g, t, own) # <<>> /\ Within(Ti!Steps(g, t, own)) \subseteq t.green
    BY <1>1 DEF Covered
  <2> DEFINE d == Ti!NodeDir(g, t)
             u == IF own THEN <<<<"npm-ci", d>>>> ELSE <<>>
             v == <<<<"npm-run-gate", d>>>>
             S == {<<"npm-ci", d>>, <<"npm-run-gate", d>>}
  <2>2. d \in t.gates /\ Ti!Steps(g, t, own) = u \o v
    BY <2>1 DEF Ti!Steps
  <2>3. u \in Seq(S) /\ v \in Seq(S) /\ <<"npm-run-gate", d>> \in Within(v)
    BY DEF Within
  <2> HIDE DEF u, v, d, S
  <2>4. Within(v) \subseteq Within(u \o v)
    BY <2>3, EndToEnd
  <2> QED BY <2>1, <2>2, <2>3, <2>4 DEF d
<1>2. f.web => \E d \in {"root", "web"} \cap t.gates : <<"npm-run-gate", d>> \in t.green
  <2> SUFFICES ASSUME f.web PROVE \E d \in {"root", "web"} \cap t.gates : <<"npm-run-gate", d>> \in t.green
    OBVIOUS
  <2>1. Covered("front", t)
    BY TriggersAreTouched DEF Ti!touches_front
  <2>2. Ti!NodeDir("front", t) \in {"root", "web"}
    BY DEF Ti!NodeDir
  <2> QED BY <1>1, <2>1, <2>2
<1>3. f.suffix \in Ti!NodeSuffixes /\ ~f.web =>
        \E d \in {"root", "server"} \cap t.gates : <<"npm-run-gate", d>> \in t.green
  <2> SUFFICES ASSUME f.suffix \in Ti!NodeSuffixes, ~f.web
               PROVE  \E d \in {"root", "server"} \cap t.gates : <<"npm-run-gate", d>> \in t.green
    OBVIOUS
  <2>1. Covered("backend-node", t)
    BY TriggersAreTouched DEF Ti!touches_node_backend
  <2>2. Ti!NodeDir("backend-node", t) \in {"root", "server"}
    BY DEF Ti!NodeDir
  <2> QED BY <1>1, <2>1, <2>2
<1>4. f.suffix = "py" =>
        "pyproject" \in t.gates /\ {<<s, "root">> : s \in {"ruff", "mypy", "pytest"}} \subseteq t.green
  <2> SUFFICES ASSUME f.suffix = "py"
               PROVE  "pyproject" \in t.gates /\ {<<s, "root">> : s \in {"ruff", "mypy", "pytest"}} \subseteq t.green
    OBVIOUS
  <2>1. Covered("backend", t)
    BY TriggersAreTouched DEF Ti!touches_py
  <2> DEFINE p3 == <<<<"ruff", "root">>, <<"mypy", "root">>, <<"pytest", "root">>>>
  <2>2. "pyproject" \in t.gates /\ Within(p3) \subseteq t.green
    BY <2>1 DEF Covered, Ti!Steps
  <2>3. Within(p3) = {<<"ruff", "root">>, <<"mypy", "root">>, <<"pytest", "root">>}
    BY DEF Within
  <2> QED BY <2>2, <2>3
<1>5. ~Ti!covered_by_known_route(f) =>
        t.manifest = "sound" /\ t.steps # <<>> /\ \A i \in DOMAIN t.steps : t.steps[i] \in t.green
  <2> SUFFICES ASSUME ~Ti!covered_by_known_route(f)
               PROVE  t.manifest = "sound" /\ t.steps # <<>> /\ \A i \in DOMAIN t.steps : t.steps[i] \in t.green
    OBVIOUS
  <2>1. Covered("declared", t)
    BY TriggersAreTouched DEF Ti!touches_undeclared_source
  <2> QED BY <2>1 DEF Covered, Ti!Steps, Ti!Declared, Within
<1> QED BY <1>2, <1>3, <1>4, <1>5 DEF Ti!Proved

\* What a runner holds, and the shape of its verdicts.
Files == UNION {t.files : t \in Trees}
Contracts == {Ti!Contract(t) : t \in Trees} \cup {Ti!NoContract}
Deployed == {"contract", "probe", "authority", "render", "teardown"}
RunnerType ==
  [pc : {"idle", "diff", "step", "native", "deploy"} \cup Deployed, sha : Nat, diff : SUBSET Files,
   groups : Seq(Groups), steps : Seq(Plays), seen : SUBSET Plays, contract : Contracts,
   ok : BOOLEAN, true : BOOLEAN]
VerdictType == [sha : Nat, ok : BOOLEAN, true : BOOLEAN]

\* What a runner that saw the head each time it looked has found of it.
Sound(p, h) ==
  /\ p.pc \in {"diff", "step"} => p.ok
  /\ p.pc = "native" => ~p.ok
  /\ p.pc = "diff" => p.seen = {} /\ p.steps = <<>>
  /\ p.true /\ p.sha = h.sha =>
       /\ p.pc = "step" =>
            /\ p.seen \subseteq h.tree.green
            /\ \A g \in Within(Ti!Triggers(h.tree.files)) :
                 \/ g \in Within(p.groups)
                 \/ \E own \in BOOLEAN : /\ Ti!Steps(g, h.tree, own) # <<>>
                                         /\ Within(Ti!Steps(g, h.tree, own)) \subseteq p.seen \cup Within(p.steps)
       /\ p.pc = "probe" => p.contract = Ti!Contract(h.tree)
       /\ p.pc \in {"authority", "render"} /\ p.ok => Ti!Shows(Ti!Contract(h.tree), h.tree)
       /\ p.pc = "render" /\ p.ok => ~h.tree.leaks

\* Inductive: a verdict that is true, green and of the head says of the head
\* what its tier is asked for, and a preview is somebody's or was lost in a crash.
Tiered ==
  /\ thead \in [sha : Nat, tree : Trees] /\ thead.sha \in 1..MaxCommits
  /\ twt \in Trees /\ preview \subseteq Trees
  /\ twt # thead.tree => thead.sha < MaxCommits
  /\ native \in VerdictType /\ native.sha <= thead.sha
  /\ render \in VerdictType /\ render.sha <= thead.sha
  /\ rproc \in [Runners -> RunnerType]
  /\ \A r \in Runners : rproc[r].sha <= thead.sha /\ Sound(rproc[r], thead)
  /\ native.ok /\ native.true /\ native.sha = thead.sha
       => \A g \in Within(Ti!Triggers(thead.tree.files)) : Covered(g, thead.tree)
  /\ render.ok /\ render.true /\ render.sha = thead.sha
       => Ti!Shows(Ti!Contract(thead.tree), thead.tree) /\ ~thead.tree.leaks
  /\ preview # {} => lost \/ \E r \in Runners : rproc[r].pc \in Deployed

\* The invariant holds before the first commit.
LEMMA TieredInit ==
  ASSUME Ti!Init PROVE Tiered
<1>0. Ti!TiersAssumption
  BY StoreAssumption DEF StoreAssumption
<1>1. Ti!Idle \in RunnerType /\ Ti!Idle.sha = 0 /\ Ti!Idle.pc = "idle"
  <2>1. <<>> \in Seq(Groups) /\ <<>> \in Seq(Plays)
    BY EmptySeq
  <2> HIDE DEF Groups, Plays, Files
  <2> QED BY <2>1 DEF Ti!Idle, RunnerType, Contracts
<1>2. \A r \in Runners : rproc[r] = Ti!Idle
  BY DEF Ti!Init
<1>3. Sound(Ti!Idle, thead)
  BY <1>1 DEF Sound
<1>4. rproc \in [Runners -> RunnerType]
  BY <1>1 DEF Ti!Init
<1>5. thead \in [sha : Nat, tree : Trees] /\ thead.sha \in 1..MaxCommits /\ thead.sha = 1 /\ twt \in Trees
      /\ twt = thead.tree
  BY <1>0 DEF Ti!Init, Ti!TiersAssumption
<1>6. /\ native \in VerdictType /\ native.sha = 0 /\ ~native.ok
      /\ render \in VerdictType /\ render.sha = 0 /\ ~render.ok
  BY DEF Ti!Init, Ti!NoVerdict, VerdictType
<1>7. preview = {}
  BY DEF Ti!Init, Ti!Down
<1> QED BY <1>1, <1>2, <1>3, <1>4, <1>5, <1>6, <1>7 DEF Tiered

\* One runner moved, the branch did not: what is left to show is about it.
LEMMA OneRunner ==
  ASSUME Tiered, NEW r \in Runners, NEW new \in RunnerType, rproc' = [rproc EXCEPT ![r] = new],
         new.sha <= thead.sha, Sound(new, thead), UNCHANGED thead
  PROVE  /\ rproc' \in [Runners -> RunnerType] /\ rproc'[r] = new
         /\ \A q \in Runners \ {r} : rproc'[q] = rproc[q]
         /\ \A q \in Runners : rproc'[q].sha <= thead'.sha /\ Sound(rproc'[q], thead')
<1>1. rproc \in [Runners -> RunnerType] /\ \A q \in Runners : rproc[q].sha <= thead.sha /\ Sound(rproc[q], thead)
  BY DEF Tiered
<1>2. /\ rproc' \in [Runners -> RunnerType] /\ rproc'[r] = new
      /\ \A q \in Runners \ {r} : rproc'[q] = rproc[q]
  BY <1>1
<1>3. \A q \in Runners : rproc'[q].sha <= thead'.sha /\ Sound(rproc'[q], thead)
  BY <1>1, <1>2
<1> QED BY <1>2, <1>3

\* Neither a verdict nor a preview: the rest is what it was.
LEMMA RunnerAlone ==
  ASSUME Tiered, NEW r \in Runners, NEW new \in RunnerType, rproc' = [rproc EXCEPT ![r] = new],
         new.sha <= thead.sha, Sound(new, thead),
         UNCHANGED <<thead, twt, native, render, preview, lost>>,
         rproc[r].pc \in Deployed => new.pc \in Deployed
  PROVE  Tiered'
<1>1. /\ rproc' \in [Runners -> RunnerType] /\ rproc'[r] = new
      /\ \A q \in Runners \ {r} : rproc'[q] = rproc[q]
      /\ \A q \in Runners : rproc'[q].sha <= thead'.sha /\ Sound(rproc'[q], thead')
  BY OneRunner
<1>2. preview' # {} => lost' \/ \E q \in Runners : rproc'[q].pc \in Deployed
  BY <1>1 DEF Tiered
<1> QED BY <1>1, <1>2 DEF Tiered

\* Every step keeps the invariant, one step per action.
LEMMA TieredKept ==
  ASSUME Tiered, [Ti!Next]_(Ti!vars) PROVE Tiered'
<1>0. Ti!TiersAssumption
  BY StoreAssumption DEF StoreAssumption
<1>1. ASSUME NEW r \in Runners PROVE rproc[r] \in RunnerType /\ rproc[r].sha <= thead.sha /\ Sound(rproc[r], thead)
  BY DEF Tiered
<1>2. Ti!Idle \in RunnerType /\ Ti!Idle.pc = "idle" /\ Ti!Idle.sha = 0 /\ Ti!Idle.ok
      /\ Ti!Idle.seen = {} /\ Ti!Idle.steps = <<>> /\ Ti!Idle.sha <= thead.sha
  <2>1. <<>> \in Seq(Groups) /\ <<>> \in Seq(Plays) /\ thead.sha \in Nat
    BY EmptySeq DEF Tiered
  <2> HIDE DEF Groups, Plays, Files
  <2> QED BY <2>1 DEF Ti!Idle, RunnerType, Contracts
<1>3. ASSUME NEW r \in Runners, rproc' = [rproc EXCEPT ![r] = Ti!Idle],
             UNCHANGED <<thead, twt, native, render, lost>>, preview' \in {preview, {}},
             preview' = {} \/ rproc[r].pc \notin Deployed
      PROVE  Tiered'
  <2>1. Sound(Ti!Idle, thead)
    BY <1>2 DEF Sound
  <2>2. /\ rproc' \in [Runners -> RunnerType] /\ rproc'[r] = Ti!Idle
        /\ \A q \in Runners \ {r} : rproc'[q] = rproc[q]
        /\ \A q \in Runners : rproc'[q].sha <= thead'.sha /\ Sound(rproc'[q], thead')
    BY <1>2, <1>3, <2>1, OneRunner
  <2>3. preview' # {} => lost' \/ \E q \in Runners : rproc'[q].pc \in Deployed
    BY <1>3, <2>2 DEF Tiered
  <2>4. preview' \subseteq Trees
    BY <1>3 DEF Tiered
  <2> QED BY <1>3, <2>2, <2>3, <2>4 DEF Tiered
<1>4. ASSUME NEW r \in Runners, NEW at \in {"diff", "deploy"}, Ti!Begin(r, at) PROVE Tiered'
  <2> DEFINE new == [Ti!Idle EXCEPT !.pc = at, !.sha = thead.sha]
  <2>1. new \in RunnerType /\ new.pc = at /\ new.sha = thead.sha /\ new.ok /\ new.seen = {} /\ new.steps = <<>>
    <3>1. thead.sha \in Nat
      BY DEF Tiered
    <3> HIDE DEF Groups, Plays, Files, Contracts
    <3> QED BY <1>2, <3>1 DEF RunnerType
  <2> HIDE DEF new
  <2>2. Sound(new, thead) /\ new.sha <= thead.sha
    BY <2>1 DEF Sound, Tiered
  <2>3. rproc' = [rproc EXCEPT ![r] = new] /\ rproc[r].pc = "idle"
        /\ UNCHANGED <<thead, twt, native, render, preview, lost>>
    BY <1>4 DEF Ti!Begin, Ti!At, new
  <2> QED BY <2>1, <2>2, <2>3, RunnerAlone DEF Deployed
<1>5. ASSUME NEW r \in Runners, Ti!Diff(r) PROVE Tiered'
  <2> DEFINE p == rproc[r]
             files == IF r \in Loops THEN thead.tree.files ELSE {}
             groups == Ti!Triggers(thead.tree.files)
             new == [p EXCEPT !.pc = "step", !.diff = files, !.groups = groups]
  <2>1. files \in SUBSET Files /\ groups \in Seq(Groups)
    BY TriggersAreTouched DEF Files, Tiered
  <2>2. p \in RunnerType /\ p.sha <= thead.sha /\ Sound(p, thead) /\ p.pc = "diff"
    BY <1>1, <1>5 DEF Ti!Diff, Ti!At
  <2>3. /\ rproc' = [rproc EXCEPT ![r] = new]
        /\ UNCHANGED <<thead, twt, native, render, preview, lost>>
    BY <1>5 DEF Ti!Diff, Ti!Set
  <2> HIDE DEF p, files
  <2>4. /\ new \in RunnerType /\ new.pc = "step" /\ new.groups = groups /\ new.sha = p.sha
        /\ new.seen = p.seen /\ new.steps = p.steps /\ new.ok = p.ok /\ new.true = p.true
    <3> HIDE DEF Groups, Plays, Files, Contracts, groups
    <3> QED BY <2>1, <2>2 DEF RunnerType
  <2> HIDE DEF new
  <2>5. Sound(new, thead)
    BY <2>2, <2>4 DEF Sound
  <2> QED BY <2>2, <2>3, <2>4, <2>5, RunnerAlone DEF Deployed, p
<1>6. ASSUME NEW r \in Runners, NEW own \in BOOLEAN, Ti!Group(r, own) PROVE Tiered'
  <2> DEFINE p == rproc[r]
             g0 == Head(p.groups)
             steps == Ti!Steps(g0, twt, own)
             un == Ti!Uncovered(steps)
             new == [p EXCEPT !.pc = IF un THEN "native" ELSE "step", !.steps = steps,
                              !.groups = Tail(@), !.ok = ~un, !.true = @ /\ Ti!Faithful]
  <2>1. p \in RunnerType /\ p.sha <= thead.sha /\ Sound(p, thead) /\ p.pc = "step" /\ p.steps = <<>> /\ p.groups # <<>>
    BY <1>1, <1>6 DEF Ti!Group, Ti!At
  <2>2. /\ rproc' = [rproc EXCEPT ![r] = new]
        /\ UNCHANGED <<thead, twt, native, render, preview, lost>>
    BY <1>6 DEF Ti!Group, Ti!Set
  <2>3. g0 \in Groups /\ Tail(p.groups) \in Seq(Groups) /\ Within(p.groups) = {g0} \cup Within(Tail(p.groups))
    BY <2>1, HeadAndTail DEF RunnerType
  <2>4. steps \in Seq(Plays) /\ twt \in Trees
    BY <2>3, StepsAreSeq DEF Tiered
  <2>5. un <=> steps = <<>>
    BY DEF Ti!Uncovered
  <2> HIDE DEF un, steps, p
  <2>6. /\ new \in RunnerType /\ new.pc = (IF un THEN "native" ELSE "step") /\ new.groups = Tail(p.groups)
        /\ new.sha = p.sha /\ new.seen = p.seen /\ new.steps = steps
    <3> HIDE DEF Groups, Plays, Files, Contracts
    <3>1. (p.true /\ Ti!Faithful) \in BOOLEAN /\ (~un) \in BOOLEAN
      BY <2>1, <2>5 DEF RunnerType, Ti!Faithful
    <3> QED BY <2>1, <2>3, <2>4, <3>1 DEF RunnerType
  <2>7. new.ok = ~un /\ new.true = (p.true /\ Ti!Faithful)
    BY <2>1 DEF RunnerType
  <2> HIDE DEF new
  <2>8. ASSUME new.true, new.sha = thead.sha, new.pc = "step", NEW g \in Within(Ti!Triggers(thead.tree.files))
        PROVE  \/ g \in Within(new.groups)
               \/ \E b \in BOOLEAN : /\ Ti!Steps(g, thead.tree, b) # <<>>
                                     /\ Within(Ti!Steps(g, thead.tree, b)) \subseteq new.seen \cup Within(new.steps)
    <3>1. p.true /\ twt = thead.tree /\ p.sha = thead.sha /\ ~un
      BY <2>6, <2>7, <2>8 DEF Ti!Faithful
    <3>2. CASE g = g0
      BY <2>5, <2>6, <3>1, <3>2 DEF steps
    <3>3. CASE g # g0 /\ g \in Within(p.groups)
      BY <2>3, <2>6, <3>3
    <3>4. CASE g \notin Within(p.groups)
      <4>1. PICK b \in BOOLEAN : /\ Ti!Steps(g, thead.tree, b) # <<>>
                                 /\ Within(Ti!Steps(g, thead.tree, b)) \subseteq p.seen \cup Within(p.steps)
        BY <2>1, <2>8, <3>1, <3>4 DEF Sound
      <4>2. Within(p.steps) = {}
        BY <2>1 DEF Within
      <4> QED BY <2>6, <4>1, <4>2
    <3> QED BY <3>2, <3>3, <3>4
  <2>9. new.true /\ new.sha = thead.sha => new.seen \subseteq thead.tree.green
    BY <2>1, <2>6, <2>7 DEF Sound
  <2>10. Sound(new, thead)
    BY <2>6, <2>7, <2>8, <2>9 DEF Sound
  <2> QED BY <2>1, <2>2, <2>6, <2>10, RunnerAlone DEF Deployed, p
<1>7. ASSUME NEW r \in Runners, NEW red \in BOOLEAN, Ti!Play(r, red) PROVE Tiered'
  <2> DEFINE p == rproc[r]
             s == Head(p.steps)
             ok == s \in p.seen \/ (s \in twt.green /\ ~red)
             true == p.true /\ (s \in p.seen \/ Ti!Faithful)
             new == [p EXCEPT !.pc = IF ok THEN "step" ELSE "native", !.steps = Tail(@), !.ok = ok,
                              !.seen = @ \cup {s}, !.true = @ /\ (s \in p.seen \/ Ti!Faithful)]
  <2>1. p \in RunnerType /\ p.sha <= thead.sha /\ Sound(p, thead) /\ p.pc = "step" /\ p.steps # <<>>
    BY <1>1, <1>7 DEF Ti!Play, Ti!At
  <2>2. /\ rproc' = [rproc EXCEPT ![r] = new]
        /\ UNCHANGED <<thead, twt, native, render, preview, lost>>
    BY <1>7 DEF Ti!Play, Ti!Set
  <2>3. s \in Plays /\ Tail(p.steps) \in Seq(Plays) /\ Within(p.steps) = {s} \cup Within(Tail(p.steps))
    BY <2>1, HeadAndTail DEF RunnerType
  <2>4. ok \in BOOLEAN /\ true \in BOOLEAN
    <3>1. p.true \in BOOLEAN
      BY <2>1 DEF RunnerType
    <3> QED BY <3>1
  <2>5. new = [p EXCEPT !.pc = IF ok THEN "step" ELSE "native", !.steps = Tail(p.steps), !.ok = ok,
                        !.seen = p.seen \cup {s}, !.true = true]
    BY <2>1 DEF RunnerType
  <2>6. (s \in p.seen => ok) /\ (ok => s \in p.seen \/ s \in twt.green)
        /\ (true => p.true /\ (s \in p.seen \/ twt = thead.tree))
    BY DEF Ti!Faithful
  <2> HIDE DEF new, s, p, ok, true
  <2>7. /\ new \in RunnerType /\ new.pc = (IF ok THEN "step" ELSE "native") /\ new.groups = p.groups
        /\ new.sha = p.sha /\ new.seen = p.seen \cup {s} /\ new.steps = Tail(p.steps)
    <3> HIDE DEF Groups, Plays, Files, Contracts
    <3> QED BY <2>1, <2>3, <2>4, <2>5 DEF RunnerType
  <2>8. new.ok = ok /\ new.true = true
    BY <2>1, <2>5 DEF RunnerType
  <2>9. new.true /\ new.sha = thead.sha /\ new.pc = "step" => new.seen \subseteq thead.tree.green
    BY <2>1, <2>6, <2>7, <2>8 DEF Sound
  <2>10. ASSUME new.true, new.sha = thead.sha, NEW g \in Within(Ti!Triggers(thead.tree.files))
         PROVE  \/ g \in Within(new.groups)
                \/ \E b \in BOOLEAN : /\ Ti!Steps(g, thead.tree, b) # <<>>
                                      /\ Within(Ti!Steps(g, thead.tree, b)) \subseteq new.seen \cup Within(new.steps)
    <3>1. p.true /\ p.sha = thead.sha
      BY <2>6, <2>7, <2>8, <2>10
    <3>2. \/ g \in Within(p.groups)
          \/ \E b \in BOOLEAN : /\ Ti!Steps(g, thead.tree, b) # <<>>
                                /\ Within(Ti!Steps(g, thead.tree, b)) \subseteq p.seen \cup Within(p.steps)
      BY <2>1, <2>10, <3>1 DEF Sound
    <3>3. p.seen \cup Within(p.steps) = new.seen \cup Within(new.steps)
      BY <2>3, <2>7
    <3> QED BY <2>7, <3>2, <3>3
  <2>11. Sound(new, thead)
    BY <2>7, <2>8, <2>9, <2>10 DEF Sound
  <2> QED BY <2>1, <2>2, <2>7, <2>11, RunnerAlone DEF Deployed, p
<1>8. ASSUME NEW r \in Runners, Ti!Native(r) PROVE Tiered'
  <2> DEFINE p == rproc[r]
             new == IF r \in Loops /\ Ti!Visual(p.diff) /\ ~Ti!Fresh(render, p.sha)
                      THEN [Ti!Idle EXCEPT !.pc = "deploy", !.sha = p.sha] ELSE Ti!Idle
  <2>1. p \in RunnerType /\ p.sha <= thead.sha /\ Sound(p, thead) /\ p.sha \in Nat
    BY <1>1 DEF RunnerType
  <2>2. p.pc = "native" \/ (p.pc = "step" /\ p.steps = <<>> /\ p.groups = <<>>)
    BY <1>8 DEF Ti!Native, Ti!At
  <2>3. /\ rproc' = [rproc EXCEPT ![r] = new] /\ native' = [sha |-> p.sha, ok |-> p.ok, true |-> p.true]
        /\ UNCHANGED <<thead, twt, render, preview, lost>>
    <3>1. (IF r \in Loops /\ Ti!Visual(p.diff) /\ ~Ti!Fresh(render, p.sha)
             THEN Ti!Set(r, [Ti!Idle EXCEPT !.pc = "deploy", !.sha = p.sha]) ELSE Ti!Set(r, Ti!Idle))
          => rproc' = [rproc EXCEPT ![r] = new]
      BY DEF Ti!Set
    <3> QED BY <1>8, <3>1 DEF Ti!Native
  <2>4. new \in RunnerType /\ new.sha <= thead.sha /\ new.pc \in {"deploy", "idle"}
    <3> HIDE DEF Groups, Plays, Files, Contracts, p
    <3>1. LET n == [Ti!Idle EXCEPT !.pc = "deploy", !.sha = p.sha]
          IN  n \in RunnerType /\ n.sha = p.sha /\ n.pc = "deploy"
      BY <1>2, <2>1 DEF RunnerType
    <3> QED BY <1>2, <2>1, <3>1
  <2> HIDE DEF new
  <2>5. Sound(new, thead)
    BY <2>4 DEF Sound
  <2>6. /\ rproc' \in [Runners -> RunnerType] /\ rproc'[r] = new
        /\ \A q \in Runners \ {r} : rproc'[q] = rproc[q]
        /\ \A q \in Runners : rproc'[q].sha <= thead'.sha /\ Sound(rproc'[q], thead')
    BY <2>3, <2>4, <2>5, OneRunner
  <2>7. preview' # {} => lost' \/ \E q \in Runners : rproc'[q].pc \in Deployed
    BY <2>2, <2>3, <2>6 DEF Tiered, Deployed
  <2>8. native' \in VerdictType /\ native'.sha = p.sha /\ native'.ok = p.ok /\ native'.true = p.true
    BY <2>1, <2>3 DEF VerdictType, RunnerType
  <2>9. ASSUME p.ok, p.true, p.sha = thead.sha, NEW g \in Within(Ti!Triggers(thead.tree.files))
        PROVE  Covered(g, thead.tree)
    <3>1. p.pc = "step" /\ p.steps = <<>> /\ p.groups = <<>>
      BY <2>1, <2>2, <2>9 DEF Sound
    <3>2. Within(p.groups) = {} /\ Within(p.steps) = {}
      BY <3>1 DEF Within
    <3>3. PICK b \in BOOLEAN : /\ Ti!Steps(g, thead.tree, b) # <<>>
                               /\ Within(Ti!Steps(g, thead.tree, b)) \subseteq p.seen
      BY <2>1, <2>9, <3>1, <3>2 DEF Sound
    <3>4. p.seen \subseteq thead.tree.green
      BY <2>1, <2>9, <3>1 DEF Sound
    <3> QED BY <3>3, <3>4 DEF Covered
  <2> HIDE DEF p
  <2> QED BY <2>1, <2>3, <2>6, <2>7, <2>8, <2>9 DEF Tiered
<1>9. ASSUME NEW r \in Runners, Ti!Verify(r) PROVE Tiered'
  BY <1>4, <1>9 DEF Ti!Verify
<1>10. ASSUME NEW r \in Runners, NEW ok \in BOOLEAN, Ti!Manifest(r, ok) PROVE Tiered'
  <2>1. /\ render' = [sha |-> thead.sha, ok |-> ok, true |-> FALSE]
        /\ UNCHANGED <<thead, twt, native, preview, rproc, lost>>
    BY <1>10 DEF Ti!Manifest
  <2>2. render' \in VerdictType /\ render'.sha = thead.sha /\ ~render'.true
    BY <2>1 DEF VerdictType, Tiered
  <2>3. thead.sha <= thead.sha
    BY DEF Tiered
  <2> QED BY <2>1, <2>2, <2>3 DEF Tiered
<1>11. ASSUME NEW r \in Runners, Ti!Deploy(r) PROVE Tiered'
  <2> DEFINE p == rproc[r]
             new == [p EXCEPT !.pc = "contract", !.true = @ /\ Ti!Faithful]
  <2>1. p \in RunnerType /\ p.sha <= thead.sha
    BY <1>1
  <2>2. rproc' = [rproc EXCEPT ![r] = new] /\ preview' = {twt} /\ UNCHANGED <<thead, twt, native, render, lost>>
    BY <1>11 DEF Ti!Deploy, Ti!Set
  <2>3. (p.true /\ Ti!Faithful) \in BOOLEAN
    BY <2>1 DEF RunnerType, Ti!Faithful
  <2> HIDE DEF p
  <2>4. new \in RunnerType /\ new.sha = p.sha /\ new.pc = "contract"
    <3> HIDE DEF Groups, Plays, Files, Contracts
    <3> QED BY <2>1, <2>3 DEF RunnerType, Deployed
  <2> HIDE DEF new
  <2>5. Sound(new, thead)
    BY <2>4 DEF Sound
  <2>6. /\ rproc' \in [Runners -> RunnerType] /\ rproc'[r] = new
        /\ \A q \in Runners : rproc'[q].sha <= thead'.sha /\ Sound(rproc'[q], thead')
    BY <2>1, <2>2, <2>4, <2>5, OneRunner
  <2>7. rproc'[r].pc \in Deployed /\ preview' \subseteq Trees
    BY <2>2, <2>4, <2>6 DEF Deployed, Tiered
  <2> QED BY <2>2, <2>6, <2>7 DEF Tiered
<1>12. ASSUME NEW r \in Runners, NEW opaque \in BOOLEAN, Ti!NoDeploy(r, opaque) PROVE Tiered'
  <2>1. rproc' = [rproc EXCEPT ![r] = Ti!Idle] /\ UNCHANGED <<thead, twt, native, render>> /\ rproc[r].pc = "deploy"
        /\ ((preview' = {twt} /\ lost' = TRUE) \/ UNCHANGED <<preview, lost>>)
    BY <1>12 DEF Ti!NoDeploy, Ti!Set, Ti!At
  <2>2. CASE UNCHANGED <<preview, lost>>
    BY <1>3, <2>1, <2>2 DEF Deployed
  <2>3. CASE preview' = {twt} /\ lost' = TRUE
    <3>1. Sound(Ti!Idle, thead)
      BY <1>2 DEF Sound
    <3>2. /\ rproc' \in [Runners -> RunnerType]
          /\ \A q \in Runners : rproc'[q].sha <= thead'.sha /\ Sound(rproc'[q], thead')
      BY <1>2, <2>1, <3>1, OneRunner
    <3>3. preview' \subseteq Trees
      BY <2>3 DEF Tiered
    <3> QED BY <2>1, <2>3, <3>2, <3>3 DEF Tiered
  <2> QED BY <2>1, <2>2, <2>3
<1>13. ASSUME NEW r \in Runners, Ti!ReadContract(r) PROVE Tiered'
  <2> DEFINE p == rproc[r]
             c == Ti!Contract(twt)
             new == [p EXCEPT !.pc = "probe", !.contract = c, !.true = @ /\ Ti!Faithful]
  <2>1. p \in RunnerType /\ p.sha <= thead.sha
    BY <1>1
  <2>2. rproc' = [rproc EXCEPT ![r] = new] /\ UNCHANGED <<thead, twt, native, render, preview, lost>>
    BY <1>13 DEF Ti!ReadContract, Ti!Set
  <2>3. (p.true /\ Ti!Faithful) \in BOOLEAN /\ c \in Contracts
    BY <2>1 DEF RunnerType, Ti!Faithful, Contracts, Tiered
  <2>4. Ti!Faithful => c = Ti!Contract(thead.tree)
    BY DEF Ti!Faithful
  <2> HIDE DEF p, c
  <2>5. /\ new \in RunnerType /\ new.sha = p.sha /\ new.pc = "probe" /\ new.contract = c
    <3> HIDE DEF Groups, Plays, Files, Contracts
    <3> QED BY <2>1, <2>3 DEF RunnerType, Deployed
  <2>6. new.true => Ti!Faithful
    BY <2>1 DEF RunnerType
  <2> HIDE DEF new
  <2>7. Sound(new, thead)
    BY <2>4, <2>5, <2>6 DEF Sound
  <2> QED BY <2>1, <2>2, <2>5, <2>7, RunnerAlone DEF Deployed
<1>14. ASSUME NEW r \in Runners, NEW broken \in BOOLEAN, Ti!Probe(r, broken) PROVE Tiered'
  <2> DEFINE p == rproc[r]
             ok == ~broken /\ \E t \in preview : Ti!Shows(p.contract, t)
             true == p.true /\ preview = {thead.tree}
             new == [p EXCEPT !.pc = "authority", !.ok = ok, !.true = @ /\ preview = {thead.tree}]
  <2>1. p \in RunnerType /\ p.sha <= thead.sha /\ Sound(p, thead) /\ p.pc = "probe"
    BY <1>1, <1>14 DEF Ti!Probe, Ti!At
  <2>2. rproc' = [rproc EXCEPT ![r] = new] /\ UNCHANGED <<thead, twt, native, render, preview, lost>>
    BY <1>14 DEF Ti!Probe, Ti!Set
  <2>3. ok \in BOOLEAN /\ true \in BOOLEAN
    BY <2>1 DEF RunnerType
  <2>4. new = [p EXCEPT !.pc = "authority", !.ok = ok, !.true = true]
    BY <2>1 DEF RunnerType
  <2>5. true /\ ok => p.true /\ Ti!Shows(p.contract, thead.tree)
    BY DEF Ti!Shows
  <2> HIDE DEF p, ok, true, new
  <2>6. /\ new \in RunnerType /\ new.sha = p.sha /\ new.pc = "authority"
    <3> HIDE DEF Groups, Plays, Files, Contracts
    <3> QED BY <2>1, <2>3, <2>4 DEF RunnerType, Deployed
  <2>7. new.ok = ok /\ new.true = true
    BY <2>1, <2>4 DEF RunnerType
  <2>8. Sound(new, thead)
    BY <2>1, <2>5, <2>6, <2>7 DEF Sound
  <2> QED BY <2>1, <2>2, <2>6, <2>8, RunnerAlone DEF Deployed
<1>15. ASSUME NEW r \in Runners, Ti!Authority(r) PROVE Tiered'
  <2> DEFINE p == rproc[r]
             ok == p.ok /\ \A t \in preview : ~t.leaks
             true == p.true /\ preview = {thead.tree}
             new == [p EXCEPT !.pc = "render", !.ok = @ /\ \A t \in preview : ~t.leaks,
                              !.true = @ /\ preview = {thead.tree}]
  <2>1. p \in RunnerType /\ p.sha <= thead.sha /\ Sound(p, thead) /\ p.pc = "authority"
    BY <1>1, <1>15 DEF Ti!Authority, Ti!At
  <2>2. rproc' = [rproc EXCEPT ![r] = new] /\ UNCHANGED <<thead, twt, native, render, preview, lost>>
    BY <1>15 DEF Ti!Authority, Ti!Set
  <2>3. ok \in BOOLEAN /\ true \in BOOLEAN
    BY <2>1 DEF RunnerType
  <2>4. new = [p EXCEPT !.pc = "render", !.ok = ok, !.true = true]
    BY <2>1 DEF RunnerType
  <2>5. (true => p.true) /\ (ok => p.ok) /\ (true /\ ok => ~thead.tree.leaks)
    OBVIOUS
  <2> HIDE DEF p, ok, true, new
  <2>6. /\ new \in RunnerType /\ new.sha = p.sha /\ new.pc = "render"
    <3> HIDE DEF Groups, Plays, Files, Contracts
    <3> QED BY <2>1, <2>3, <2>4 DEF RunnerType, Deployed
  <2>7. new.ok = ok /\ new.true = true
    BY <2>1, <2>4 DEF RunnerType
  <2>8. Sound(new, thead)
    BY <2>1, <2>5, <2>6, <2>7 DEF Sound
  <2> QED BY <2>1, <2>2, <2>6, <2>8, RunnerAlone DEF Deployed
<1>16. ASSUME NEW r \in Runners, Ti!Render(r) PROVE Tiered'
  <2> DEFINE p == rproc[r]
             new == [Ti!Idle EXCEPT !.pc = "teardown"]
  <2>1. p \in RunnerType /\ p.sha <= thead.sha /\ Sound(p, thead) /\ p.pc = "render"
    BY <1>1, <1>16 DEF Ti!Render, Ti!At
  <2>2. rproc' = [rproc EXCEPT ![r] = new] /\ render' = [sha |-> p.sha, ok |-> p.ok, true |-> p.true]
        /\ UNCHANGED <<thead, twt, native, preview, lost>>
    BY <1>16 DEF Ti!Render, Ti!Set
  <2> HIDE DEF p
  <2>3. new \in RunnerType /\ new.sha = 0 /\ new.pc = "teardown"
    <3> HIDE DEF Groups, Plays, Files, Contracts
    <3> QED BY <1>2 DEF RunnerType, Deployed
  <2> HIDE DEF new
  <2>4. Sound(new, thead) /\ new.sha <= thead.sha
    BY <1>2, <2>3 DEF Sound
  <2>5. /\ rproc' \in [Runners -> RunnerType] /\ rproc'[r] = new
        /\ \A q \in Runners \ {r} : rproc'[q] = rproc[q]
        /\ \A q \in Runners : rproc'[q].sha <= thead'.sha /\ Sound(rproc'[q], thead')
    BY <2>2, <2>3, <2>4, OneRunner
  <2>6. preview' # {} => lost' \/ \E q \in Runners : rproc'[q].pc \in Deployed
    BY <2>3, <2>5 DEF Deployed
  <2>7. render' \in VerdictType /\ render'.sha = p.sha /\ render'.ok = p.ok /\ render'.true = p.true
    BY <2>1, <2>2 DEF VerdictType, RunnerType
  <2>8. p.ok /\ p.true /\ p.sha = thead.sha
          => Ti!Shows(Ti!Contract(thead.tree), thead.tree) /\ ~thead.tree.leaks
    BY <2>1 DEF Sound
  <2> QED BY <2>1, <2>2, <2>5, <2>6, <2>7, <2>8 DEF Tiered
<1>17. ASSUME NEW r \in Runners, Ti!Teardown(r) PROVE Tiered'
  BY <1>3, <1>17 DEF Ti!Teardown, Ti!Set, Ti!Down
<1>18. ASSUME NEW r \in Runners, Ti!Cut(r) PROVE Tiered'
  <2>1. rproc' = [rproc EXCEPT ![r] = Ti!Idle] /\ UNCHANGED <<thead, twt, native, render, preview>>
        /\ (preview = {} \/ lost')
    BY <1>18 DEF Ti!Cut, Ti!Set, Ti!Down
  <2>2. Sound(Ti!Idle, thead)
    BY <1>2 DEF Sound
  <2>3. /\ rproc' \in [Runners -> RunnerType]
        /\ \A q \in Runners : rproc'[q].sha <= thead'.sha /\ Sound(rproc'[q], thead')
    BY <1>2, <2>1, <2>2, OneRunner
  <2> QED BY <2>1, <2>3 DEF Tiered
<1>19. ASSUME NEW t \in Trees, Ti!Write(t) PROVE Tiered'
  BY <1>19 DEF Ti!Write, Tiered
<1>20. ASSUME Ti!Commit PROVE Tiered'
  <2>1. thead' = [sha |-> thead.sha + 1, tree |-> twt]
        /\ UNCHANGED <<twt, native, render, preview, rproc, lost>>
    BY <1>20 DEF Ti!Commit
  <2>2. thead.sha \in Nat /\ thead.sha < MaxCommits /\ twt \in Trees
    BY <1>20 DEF Tiered, Ti!Commit, Ti!Faithful
  <2>3. /\ thead' \in [sha : Nat, tree : Trees] /\ thead'.sha = thead.sha + 1 /\ thead'.tree = twt
        /\ thead'.sha \in 1..MaxCommits
    BY <1>0, <2>1, <2>2 DEF Ti!TiersAssumption
  <2>4. \A r \in Runners : rproc[r].sha \in Nat /\ rproc[r].sha <= thead.sha
    BY <1>1 DEF RunnerType
  <2>5. ASSUME NEW r \in Runners PROVE rproc'[r].sha <= thead'.sha /\ Sound(rproc'[r], thead')
    <3>1. rproc[r].sha < thead'.sha /\ rproc'[r] = rproc[r] /\ rproc[r].sha # thead'.sha
      BY <2>1, <2>2, <2>3, <2>4
    <3>2. Sound(rproc[r], thead)
      BY <1>1
    <3>3. Sound(rproc[r], thead')
      BY <3>1, <3>2 DEF Sound
    <3> QED BY <2>2, <2>3, <2>4, <3>1, <3>3
  <2>6. native \in VerdictType /\ native.sha \in Nat /\ native.sha <= thead.sha
        /\ render \in VerdictType /\ render.sha \in Nat /\ render.sha <= thead.sha
    BY DEF Tiered, VerdictType
  <2>7. native.sha < thead'.sha /\ render.sha < thead'.sha
    BY <2>2, <2>3, <2>6
  <2>8. native'.sha <= thead'.sha /\ render'.sha <= thead'.sha /\ native'.sha # thead'.sha /\ render'.sha # thead'.sha
    BY <2>1, <2>2, <2>3, <2>6, <2>7
  <2> QED BY <2>1, <2>2, <2>3, <2>5, <2>6, <2>8 DEF Tiered
<1>21. ASSUME UNCHANGED Ti!vars PROVE Tiered'
  BY <1>21 DEF Ti!vars, Tiered
<1>22. ASSUME NEW r \in Runners, Ti!Toolchain(r) PROVE Tiered'
  BY <1>4, <1>22 DEF Ti!Toolchain
<1> QED BY <1>5, <1>6, <1>7, <1>8, <1>9, <1>10, <1>11, <1>12, <1>13, <1>14, <1>15, <1>16, <1>17, <1>18, <1>19,
           <1>20, <1>21, <1>22 DEF Ti!Next

\* What the invariant says of the verdicts is what the gate needs of them.
LEMMA TieredIsEarned == Tiered => Ti!TiersAreEarned
<1> SUFFICES ASSUME Tiered PROVE Ti!TiersAreEarned
  OBVIOUS
<1>1. thead.tree \in Trees /\ Ti!TypeOK
  BY DEF Tiered, Ti!TypeOK
<1>2. Ti!NativeStatus = "n/a" \/ (Ti!NativeStatus = "green" /\ native.true)
        => \A g \in Within(Ti!Triggers(thead.tree.files)) : Covered(g, thead.tree)
  <2>1. Ti!NativeStatus = "n/a" => Within(Ti!Triggers(thead.tree.files)) = {}
    BY DEF Ti!NativeStatus, Within
  <2>2. Ti!NativeStatus = "green" => native.ok /\ native.sha = thead.sha
    BY DEF Ti!NativeStatus, Ti!Fresh
  <2> QED BY <2>1, <2>2 DEF Tiered
<1>3. Ti!Busy = {} /\ ~lost => preview = Ti!Down
  BY DEF Tiered, Ti!Busy, Ti!At, Deployed, Ti!Down
<1>4. Ti!Fresh(render, thead.sha) /\ render.ok /\ render.true
        => Ti!Shows(Ti!Contract(thead.tree), thead.tree) /\ ~thead.tree.leaks
  BY DEF Tiered, Ti!Fresh
<1> QED BY <1>1, <1>2, <1>3, <1>4, CoveredIsProved DEF Ti!TiersAreEarned

\* Two runners, new heads and edits between any two of their steps, crashes: the
\* gate is let through only by what was proved of the head itself.
THEOREM TiersAreEarnedHolds == StoreSpec => []TiersAreEarned
<1> DEFINE I == part = "tiers" => Tiered
<1>1. StoreInit => I
  BY TieredInit DEF StoreInit
<1>2. I /\ [StoreNext]_all => I'
  <2> SUFFICES ASSUME I, [StoreNext]_all, part' = "tiers" PROVE Tiered'
    OBVIOUS
  <2>1. part = "tiers"
    BY DEF StoreNext, all
  <2>2. [Ti!Next]_(Ti!vars)
    BY <2>1 DEF StoreNext, all, tiers, Ti!vars
  <2> QED BY <2>1, <2>2, TieredKept
<1>3. I => TiersAreEarned
  BY TieredIsEarned DEF TiersAreEarned
<1> QED BY <1>1, <1>2, <1>3, PTL DEF StoreSpec

(***************************************************************************)
(* Migration: what a process has made sure of, whoever migrates beside     *)
(***************************************************************************)
\* The shape of the base and of a process that opens it.
Checks == {"type", "rate_limited", "interrupted", "findings"}
BaseType == [ver : Nat, tables : SUBSET DOMAIN Mg!Since, columns : SUBSET Mg!Columns, narrow : SUBSET Checks,
             unique : BOOLEAN, rows : SUBSET {"copy", "interrupted"}]
Stages == {"closed", "ddl", "columns", "alter", "guard", "rebuild", "stamp", "open"}
OpenerType == [pc : Stages, step : 1..5, todo : SUBSET Mg!Columns, saw : BOOLEAN]

\* A process that migrates.
Working(w) == w.pc \notin {"closed", "open"}

\* What creating the tables leaves, and columns that are there, but for the
\* one the v8 rebuild forgets.
Tabled == base.tables = DOMAIN Mg!Since /\ base.unique
Present(C) == C \subseteq base.columns \cup (IF migrated THEN {<<"projects", 14>>} ELSE {})

\* The columns of the i-th table.
Cols(i) == {Mg!Tables[i]} \X Mg!Added[Mg!Tables[i]]

\* A process that will rebuild v16, if nothing stops it before it has.
Owes(w) == w.step = 3 /\ (w.pc = "guard" \/ (w.pc = "rebuild" /\ w.saw))

\* The CHECK the i-th rebuild is for is as wide as today's; v15 written over
\* v16 narrows its own again, and whoever did it owes v16, or was stopped.
Wide(i) ==
  IF i = 3 THEN "interrupted" \in base.narrow => narrowed \/ \E q \in Openers : Owes(opener[q])
  ELSE Mg!Narrow[Mg!Rebuilds[i]] \notin base.narrow

\* The rebuilds a process is past.
Past(w) ==
  IF w.pc = "stamp" THEN 1..4
  ELSE IF w.pc = "guard" THEN {i \in 1..4 : i < w.step}
  ELSE IF w.pc = "rebuild" THEN {i \in 1..4 : i < w.step \/ (i = w.step /\ ~w.saw)}
  ELSE {}

\* What a process at work has made sure of.
Reached(w) ==
  /\ w.pc \in {"columns", "alter", "guard", "rebuild", "stamp"} => Tabled
  /\ w.pc \in {"columns", "alter"} => \A i \in 1..4 : i < w.step => Present(Cols(i))
  /\ w.pc = "alter" => w.step <= 4 /\ Present(Cols(w.step) \ w.todo)
  /\ w.pc \in {"guard", "rebuild", "stamp"} => w.step <= 4 /\ Present(Mg!Columns)
  /\ \A i \in Past(w) : Wide(i)

\* Inductive: a base of this version is whole but for what a process at work still
\* owes it, and for what one that was stopped owed.  A base nobody works on that has
\* not this version yet promises nothing: the next opening begins again.
Migrating ==
  /\ base \in BaseType /\ opener \in [Openers -> OpenerType] /\ migrated \in BOOLEAN
  /\ \A p \in Openers : Working(opener[p]) => base.ver <= Current /\ Reached(opener[p])
  /\ base.ver = Current => /\ Tabled /\ Present(Mg!Columns) /\ "copy" \notin base.rows
                           /\ \A i \in 1..4 : Wide(i)

\* What a step may not do to a base.
Raises ==
  /\ base'.ver >= base.ver
  /\ base.ver > Current => base' = base

\* The tables, their columns and the rebuilds, in their order.
LEMMA Schema ==
  /\ Len(Mg!Tables) = 4 /\ Len(Mg!Rebuilds) = 4 /\ Current = 21
  /\ Mg!Rebuilds[1] = "v8" /\ Mg!Rebuilds[2] = "v15" /\ Mg!Rebuilds[3] = "v16" /\ Mg!Rebuilds[4] = "v19"
  /\ Mg!Narrow["v8"] = "type" /\ Mg!Narrow["v15"] = "rate_limited"
  /\ Mg!Narrow["v16"] = "interrupted" /\ Mg!Narrow["v19"] = "findings"
  /\ \A i \in 1..4 : Cols(i) \subseteq Mg!Columns /\ Cols(i) = {Mg!Tables[i]} \X Mg!Added[Mg!Tables[i]]
  /\ \A c \in Mg!Columns : c[2] \in Nat /\ c[2] <= 14 /\ \E i \in 1..4 : c \in Cols(i)
<1>1. Current = 21
  BY StoreAssumption DEF StoreAssumption, Mg!MigrationAssumption
<1>2. Len(Mg!Tables) = 4 /\ Mg!Tables[1] = "jobs" /\ Mg!Tables[2] = "projects" /\ Mg!Tables[3] = "features" /\ Mg!Tables[4] = "tasks"
  BY DEF Mg!Tables
<1>3. /\ Len(Mg!Rebuilds) = 4
      /\ Mg!Rebuilds[1] = "v8" /\ Mg!Rebuilds[2] = "v15" /\ Mg!Rebuilds[3] = "v16" /\ Mg!Rebuilds[4] = "v19"
  BY DEF Mg!Rebuilds
<1>4. /\ Mg!Narrow["v8"] = "type" /\ Mg!Narrow["v15"] = "rate_limited"
      /\ Mg!Narrow["v16"] = "interrupted" /\ Mg!Narrow["v19"] = "findings"
  BY DEF Mg!Narrow
<1>5. DOMAIN Mg!Added = {"jobs", "projects", "features", "tasks"}
  BY DEF Mg!Added
<1>6. \A i \in 1..4 : Mg!Tables[i] \in DOMAIN Mg!Added
  BY <1>2, <1>5
<1>7. \A i \in 1..4 : Cols(i) \subseteq Mg!Columns
  BY <1>6 DEF Cols, Mg!Columns
<1>8. \A t \in DOMAIN Mg!Added : \A n \in Mg!Added[t] : n \in Nat /\ n <= 14
  BY <1>5 DEF Mg!Added
<1>9. ASSUME NEW c \in Mg!Columns PROVE c[2] \in Nat /\ c[2] <= 14 /\ \E i \in 1..4 : c \in Cols(i)
  <2>1. PICK t \in DOMAIN Mg!Added : c \in {t} \X Mg!Added[t]
    BY DEF Mg!Columns
  <2>2. \E i \in 1..4 : t = Mg!Tables[i]
    BY <1>2, <1>5
  <2> QED BY <1>8, <2>1, <2>2 DEF Cols
<1> QED BY <1>1, <1>2, <1>3, <1>4, <1>7, <1>9 DEF Cols

\* Whatever version is found, what it wrote is a base; one of this version is whole.
LEMMA WhatWasWritten ==
  ASSUME NEW v \in Nat
  PROVE  /\ Mg!Wrote(v) \in BaseType /\ Mg!Wrote(v).ver = v
         /\ v = 21 => /\ Mg!Wrote(v).tables = DOMAIN Mg!Since /\ Mg!Wrote(v).columns = Mg!Columns
                      /\ Mg!Wrote(v).narrow = {} /\ Mg!Wrote(v).unique /\ Mg!Wrote(v).rows = {}
<1> DEFINE tables == {t \in DOMAIN Mg!Since : Mg!Since[t] <= v}
           columns == {c \in Mg!Columns : c[2] <= v}
           held == {r \in DOMAIN Mg!Narrow :
                      CASE r = "v8" -> v \in 6..7        [] r = "v15" -> v \in 1..14
                        [] r = "v16" -> v \in 1..15      [] r = "v19" -> v \in 17..18}
           narrow == {Mg!Narrow[r] : r \in held}
           rows == IF v \in 5..19 THEN {"copy"} ELSE {}
<1>1. Mg!Wrote(v) = [ver |-> v, tables |-> tables, columns |-> columns, narrow |-> narrow, unique |-> v >= 17, rows |-> rows]
  BY DEF Mg!Wrote
<1>2. DOMAIN Mg!Narrow = {"v8", "v15", "v16", "v19"}
  BY DEF Mg!Narrow
<1>3. tables \subseteq DOMAIN Mg!Since /\ (v = 21 => tables = DOMAIN Mg!Since)
  BY DEF Mg!Since
<1>4. columns \subseteq Mg!Columns /\ (v = 21 => columns = Mg!Columns)
  BY Schema
<1>5. narrow \subseteq Checks
  BY <1>2, Schema DEF Checks
<1>6. v = 21 => narrow = {}
  <2>1. ASSUME v = 21, NEW r \in DOMAIN Mg!Narrow PROVE r \notin held
    <3>1. v \notin 6..7 /\ v \notin 1..14 /\ v \notin 1..15 /\ v \notin 17..18
      BY <2>1
    <3>2. CASE r = "v8"
      BY <3>1, <3>2
    <3>3. CASE r = "v15"
      BY <3>1, <3>3
    <3>4. CASE r = "v16"
      BY <3>1, <3>4
    <3>5. CASE r = "v19"
      BY <3>1, <3>5
    <3> QED BY <1>2, <3>2, <3>3, <3>4, <3>5
  <2> QED BY <2>1
<1>7. rows \subseteq {"copy"} /\ (v = 21 => rows = {})
  OBVIOUS
<1> DEFINE unique == v >= 17
<1>8. Mg!Wrote(v) = [ver |-> v, tables |-> tables, columns |-> columns, narrow |-> narrow, unique |-> unique, rows |-> rows]
  BY <1>1
<1>12. unique \in BOOLEAN
  OBVIOUS
<1>13. v = 21 => unique
  OBVIOUS
<1> HIDE DEF tables, columns, narrow, rows, unique
<1>10. rows \subseteq {"copy", "interrupted"}
  BY <1>7
<1>11. Mg!Wrote(v) \in BaseType
  BY <1>3, <1>4, <1>5, <1>8, <1>10, <1>12 DEF BaseType
<1>14. v = 21 => Mg!Wrote(v).unique
  BY <1>8, <1>13
<1> QED BY <1>3, <1>4, <1>6, <1>7, <1>8, <1>10, <1>11, <1>14

\* The invariant holds over every base that is found.
LEMMA MigratingInit == Mg!Init => Migrating
<1> SUFFICES ASSUME Mg!Init PROVE Migrating
  OBVIOUS
<1>0. Origins \subseteq Nat
  BY StoreAssumption DEF StoreAssumption, Mg!MigrationAssumption
<1>1. PICK v \in Nat : base = Mg!Wrote(v)
  BY <1>0 DEF Mg!Init
<1>2. Mg!Closed \in OpenerType /\ ~Working(Mg!Closed)
  BY DEF Mg!Closed, OpenerType, Stages, Working
<1>3. opener = [p \in Openers |-> Mg!Closed] /\ migrated = FALSE /\ narrowed = FALSE
  BY DEF Mg!Init
<1>4. \A p \in Openers : ~Working(opener[p])
  BY <1>2, <1>3
<1>5. base.ver = Current => Tabled /\ Present(Mg!Columns) /\ "copy" \notin base.rows /\ base.narrow = {}
  BY <1>1, <1>3, Schema, WhatWasWritten DEF Tabled, Present
<1>6. base.narrow = {} => \A i \in 1..4 : Wide(i)
  BY DEF Wide
<1> QED BY <1>1, <1>2, <1>3, <1>4, <1>5, <1>6, WhatWasWritten DEF Migrating

\* A CHECK that is wide stays so when none is narrowed and nobody gives up what it owes.
LEMMA StaysWide ==
  ASSUME base'.narrow \subseteq base.narrow,
         "interrupted" \in base'.narrow =>
           (narrowed => narrowed') /\ \A q \in Openers : Owes(opener[q]) => Owes(opener'[q])
  PROVE  \A i \in 1..4 : Wide(i) => Wide(i)'
BY DEF Wide

\* The invariant from one move of a process at work.
LEMMA OneOpener ==
  ASSUME Migrating, NEW p \in Openers, NEW new \in OpenerType, opener' = [opener EXCEPT ![p] = new], Working(opener[p]),
         base' \in BaseType, base'.ver = base.ver, migrated' \in BOOLEAN,
         Tabled => Tabled', \A C \in SUBSET Mg!Columns : Present(C) => Present(C)',
         \A i \in 1..4 : Wide(i) => Wide(i)',
         Working(new) => Reached(new)', base'.rows \subseteq base.rows
  PROVE  Migrating'
<1>1. opener' \in [Openers -> OpenerType] /\ opener'[p] = new /\ \A q \in Openers \ {p} : opener'[q] = opener[q]
  BY DEF Migrating
<1>2. base.ver <= Current
  BY DEF Migrating
<1>4. ASSUME NEW q \in Openers, Working(opener'[q])
      PROVE  base'.ver <= Current /\ Reached(opener[q])'
  <2>1. CASE q = p
    <3>1. Reached(opener[q])'
      BY <1>1, <1>4, <2>1 DEF Reached
    <3> QED BY <1>1, <1>2, <1>4, <2>1, <3>1
  <2>2. CASE q # p
    <3>1. opener'[q] = opener[q] /\ Working(opener[q]) /\ Reached(opener[q])
      BY <1>1, <1>4, <2>2 DEF Migrating
    <3>2. \A i \in 1..4 : Cols(i) \in SUBSET Mg!Columns
      BY Schema
    <3>3. \A i \in Past(opener[q]) : i \in 1..4
      BY DEF Past
    <3>4. \A i \in Past(opener[q]) : Wide(i)'
      BY <3>1, <3>3 DEF Reached
    <3>5. opener[q].pc = "alter" => opener[q].step \in 1..4 /\ Cols(opener[q].step) \ opener[q].todo \in SUBSET Mg!Columns
      BY <3>1, <3>2 DEF Reached, Migrating, OpenerType
    <3>6. Past(opener[q])' = Past(opener[q])
      BY <3>1 DEF Past
    <3>7. Reached(opener[q])'
      BY <3>1, <3>2, <3>4, <3>5, <3>6 DEF Reached
    <3> QED BY <1>2, <3>1, <3>7
  <2> QED BY <2>1, <2>2
<1>5. base'.ver = Current => Tabled' /\ Present(Mg!Columns)' /\ "copy" \notin base'.rows /\ \A i \in 1..4 : Wide(i)'
  BY <1>2 DEF Migrating
<1> QED BY <1>1, <1>4, <1>5 DEF Migrating

\* Every step keeps the invariant and only raises the base, one step per action.
LEMMA MigratingKept ==
  ASSUME Migrating, [Mg!Next]_(Mg!vars) PROVE Migrating' /\ Raises
<1>0. Current = 21
  BY Schema
<1>1. /\ base \in BaseType /\ base.ver \in Nat /\ base.tables \subseteq DOMAIN Mg!Since /\ base.columns \subseteq Mg!Columns
      /\ base.narrow \subseteq Checks /\ base.rows \subseteq {"copy", "interrupted"}
      /\ migrated \in BOOLEAN /\ opener \in [Openers -> OpenerType]
  BY DEF Migrating, BaseType
<1>2. ASSUME NEW p \in Openers
      PROVE  /\ opener[p] \in OpenerType
             /\ Working(opener[p]) => base.ver <= Current /\ Reached(opener[p])
  BY <1>1 DEF Migrating
<1>3. Mg!Closed \in OpenerType /\ ~Working(Mg!Closed)
  BY DEF Mg!Closed, OpenerType, Stages, Working
<1>4. ASSUME NEW p \in Openers, NEW new \in OpenerType, opener' = [opener EXCEPT ![p] = new], Working(opener[p]),
             UNCHANGED <<base, migrated, narrowed>>,
             ~Owes(opener[p]) \/ Owes(new) \/ "interrupted" \notin base.narrow,
             Working(new) => Reached(new)'
      PROVE  Migrating' /\ Raises
  <2>1. opener'[p] = new /\ \A q \in Openers \ {p} : opener'[q] = opener[q]
    BY <1>1, <1>4
  <2>2. \A i \in 1..4 : Wide(i) => Wide(i)'
    BY <1>4, <2>1, StaysWide
  <2>3. (Tabled => Tabled') /\ \A C \in SUBSET Mg!Columns : Present(C) => Present(C)'
    BY <1>4 DEF Tabled, Present
  <2>4. Migrating'
    BY <1>1, <1>4, <2>2, <2>3, OneOpener
  <2> QED BY <1>1, <1>4, <2>4 DEF Raises
<1>5. ASSUME NEW p \in Openers, Mg!Open(p) PROVE Migrating' /\ Raises
  <2>1. ~Working(opener[p]) /\ UNCHANGED <<base, migrated, narrowed>>
    BY <1>5 DEF Mg!Open, Mg!At, Working
  <2>2. PICK at, new :
          /\ at \in {"open", "ddl"} /\ (at = "ddl" => ~Mg!TooNew)
          /\ new = [opener[p] EXCEPT !.pc = at, !.step = 1] /\ opener' = [opener EXCEPT ![p] = new]
    <3> DEFINE becomes(a) == [opener[p] EXCEPT !.pc = a, !.step = 1]
    <3>1. \/ Mg!To(p, "open", 1)
          \/ Mg!To(p, "ddl", 1) /\ ~Mg!TooNew
      BY <1>5 DEF Mg!Open
    <3>2. \A a : Mg!To(p, a, 1) => opener' = [opener EXCEPT ![p] = becomes(a)]
      BY <1>1 DEF Mg!To
    <3> HIDE DEF becomes
    <3>3. \/ opener' = [opener EXCEPT ![p] = becomes("open")]
          \/ opener' = [opener EXCEPT ![p] = becomes("ddl")] /\ ~Mg!TooNew
      BY <3>1, <3>2
    <3>4. CASE opener' = [opener EXCEPT ![p] = becomes("open")]
      <4>1. "open" \in {"open", "ddl"} /\ "open" # "ddl"
        OBVIOUS
      <4> QED BY <3>4, <4>1 DEF becomes
    <3>5. CASE opener' = [opener EXCEPT ![p] = becomes("ddl")] /\ ~Mg!TooNew
      <4>1. "ddl" \in {"open", "ddl"}
        OBVIOUS
      <4> QED BY <3>5, <4>1 DEF becomes
    <3> QED BY <3>3, <3>4, <3>5
  <2>3. new \in OpenerType /\ new.pc = at
    <3>1. at \in Stages /\ 1 \in 1..5
      BY <2>2 DEF Stages
    <3> QED BY <1>2, <2>2, <3>1 DEF OpenerType
  <2>4. opener' \in [Openers -> OpenerType] /\ opener'[p] = new /\ \A q \in Openers \ {p} : opener'[q] = opener[q]
    BY <1>1, <2>2, <2>3
  <2>5. \A i \in 1..4 : Wide(i) => Wide(i)'
    <3>1. \A q \in Openers : Owes(opener[q]) => Owes(opener'[q])
      BY <2>1, <2>4 DEF Owes, Working
    <3> QED BY <2>1, <3>1, StaysWide
  <2>6. ASSUME NEW q \in Openers, Working(opener'[q]) PROVE base.ver <= Current /\ Reached(opener[q])'
    <3>1. CASE q = p
      <4>1. opener'[q].pc = "ddl" /\ ~Mg!TooNew
        BY <2>2, <2>3, <2>4, <2>6, <3>1 DEF Working
      <4> QED BY <1>0, <1>1, <4>1 DEF Mg!TooNew, Reached, Past
    <3>2. CASE q # p
      <4>1. opener'[q] = opener[q] /\ Reached(opener[q]) /\ base.ver <= Current
        BY <1>2, <2>4, <2>6, <3>2
      <4>2. \A i \in Past(opener[q]) : i \in 1..4
        BY DEF Past
      <4> QED BY <2>1, <2>5, <4>1, <4>2 DEF Reached, Past, Tabled, Present
    <3> QED BY <3>1, <3>2
  <2>7. base'.ver = Current => Tabled' /\ Present(Mg!Columns)' /\ "copy" \notin base'.rows /\ \A i \in 1..4 : Wide(i)'
    BY <2>1, <2>5 DEF Migrating, Tabled, Present
  <2>8. Migrating'
    BY <1>1, <2>1, <2>4, <2>6, <2>7 DEF Migrating
  <2> QED BY <1>1, <2>1, <2>8 DEF Raises
<1>6. ASSUME NEW p \in Openers, Mg!CreateTables(p) PROVE Migrating' /\ Raises
  <2>0. PICK w : w = opener[p]
    OBVIOUS
  <2>1. w \in OpenerType /\ w.pc = "ddl" /\ Working(w) /\ UNCHANGED <<migrated, narrowed>> /\ base.ver <= 21
    BY <1>0, <1>2, <1>6, <2>0 DEF Mg!CreateTables, Mg!At, Working
  <2>2. opener' = opener => opener' = [opener EXCEPT ![p] = w]
    BY <1>1, <2>0
  <2>3. CASE base.ver = 0 /\ base.columns = {}
    <3>1. base' = [Mg!Wrote(21) EXCEPT !.ver = 0] /\ opener' = opener
      BY <1>0, <1>6, <2>3 DEF Mg!CreateTables
    <3>2. /\ base' \in BaseType /\ base'.ver = 0 /\ base'.tables = DOMAIN Mg!Since /\ base'.columns = Mg!Columns
          /\ base'.narrow = {} /\ base'.rows = Mg!Wrote(21).rows
      BY <3>1, WhatWasWritten DEF BaseType
    <3>3. base'.unique
      <4>1. base'.unique = Mg!Wrote(21).unique
        BY <3>1, WhatWasWritten DEF BaseType
      <4> QED BY <4>1, WhatWasWritten
    <3>4. base'.rows = {}
      BY <3>2, WhatWasWritten
    <3>5. Tabled' /\ \A C \in SUBSET Mg!Columns : Present(C)'
      BY <3>2, <3>3 DEF Tabled, Present
    <3>6. \A i \in 1..4 : Wide(i)'
      BY <3>2 DEF Wide
    <3>7. Reached(w)'
      BY <2>1 DEF Reached, Past
    <3>8. Migrating'
      BY <1>1, <2>0, <2>1, <2>2, <2>3, <3>1, <3>2, <3>4, <3>5, <3>6, <3>7, OneOpener
    <3> QED BY <1>0, <1>1, <2>1, <2>3, <3>2, <3>8 DEF Raises
  <2>4. CASE ~(base.ver = 0 /\ base.columns = {}) /\ DOMAIN Mg!Since \ base.tables # {}
    <3>1. PICK first \in SUBSET DOMAIN Mg!Since : base' = [base EXCEPT !.tables = base.tables \cup first] /\ opener' = opener
      <4>1. PICK first : /\ first = {t \in DOMAIN Mg!Since \ base.tables :
                                       \A u \in DOMAIN Mg!Since \ base.tables : Mg!Since[t] <= Mg!Since[u]}
                         /\ base' = [base EXCEPT !.tables = @ \cup first] /\ opener' = opener
        BY <1>6, <2>4 DEF Mg!CreateTables
      <4>2. first \in SUBSET DOMAIN Mg!Since
        BY <4>1
      <4> QED BY <1>1, <4>1, <4>2 DEF BaseType
    <3>2. /\ base' \in BaseType /\ base'.ver = base.ver /\ base'.tables = base.tables \cup first
          /\ base'.columns = base.columns /\ base'.narrow = base.narrow /\ base'.rows = base.rows
      <4>1. base.tables \cup first \in SUBSET DOMAIN Mg!Since
        BY <1>1
      <4> QED BY <1>1, <3>1, <4>1 DEF BaseType
    <3>3. base'.unique = base.unique
      BY <1>1, <3>1 DEF BaseType
    <3>4. (Tabled => Tabled') /\ \A C \in SUBSET Mg!Columns : Present(C) => Present(C)'
      BY <1>1, <2>1, <3>2, <3>3 DEF Tabled, Present
    <3>5. \A i \in 1..4 : Wide(i) => Wide(i)'
      BY <2>1, <3>1, <3>2, StaysWide
    <3>6. Reached(w)'
      BY <2>1 DEF Reached, Past
    <3>7. Migrating'
      BY <1>1, <2>0, <2>1, <2>2, <3>1, <3>2, <3>4, <3>5, <3>6, OneOpener
    <3> QED BY <1>0, <1>1, <2>1, <3>2, <3>7 DEF Raises
  <2>5. CASE ~(base.ver = 0 /\ base.columns = {}) /\ DOMAIN Mg!Since \ base.tables = {}
    <3>0. PICK new : new = [w EXCEPT !.pc = "columns", !.step = 1]
      OBVIOUS
    <3>1. base' = [base EXCEPT !.unique = TRUE] /\ opener' = [opener EXCEPT ![p] = new]
      BY <1>1, <1>6, <2>0, <2>5, <3>0 DEF Mg!CreateTables, Mg!To
    <3>2. new \in OpenerType /\ new.pc = "columns" /\ new.step = 1 /\ Working(new)
      <4>1. "columns" \in Stages /\ 1 \in 1..5
        BY DEF Stages
      <4>2. new \in OpenerType /\ new.pc = "columns" /\ new.step = 1
        BY <2>1, <3>0, <4>1 DEF OpenerType
      <4> QED BY <4>2 DEF Working
    <3>3. /\ base' \in BaseType /\ base'.ver = base.ver /\ base'.tables = base.tables /\ base'.unique = TRUE
          /\ base'.columns = base.columns /\ base'.narrow = base.narrow /\ base'.rows = base.rows
      BY <1>1, <3>1 DEF BaseType
    <3>4. Tabled' /\ \A C \in SUBSET Mg!Columns : Present(C) => Present(C)'
      BY <1>1, <2>1, <2>5, <3>3 DEF Tabled, Present
    <3>5. \A i \in 1..4 : Wide(i) => Wide(i)'
      <4>1. \A q \in Openers : Owes(opener[q]) => Owes(opener'[q])
        BY <1>1, <2>0, <2>1, <3>1 DEF Owes
      <4> QED BY <2>1, <3>3, <4>1, StaysWide
    <3>6. Reached(new)'
      BY <3>2, <3>4 DEF Reached, Past
    <3>7. Migrating'
      BY <1>1, <2>0, <2>1, <3>1, <3>2, <3>3, <3>4, <3>5, <3>6, OneOpener
    <3> QED BY <1>0, <1>1, <2>1, <3>3, <3>7 DEF Raises
  <2> QED BY <2>3, <2>4, <2>5
<1>7. ASSUME NEW p \in Openers, Mg!ReadColumns(p) PROVE Migrating' /\ Raises
  <2>0. PICK w : w = opener[p]
    OBVIOUS
  <2>1. w \in OpenerType /\ w.pc = "columns" /\ Working(w) /\ Reached(w) /\ UNCHANGED <<base, migrated, narrowed>> /\ ~Owes(w)
    BY <1>2, <1>7, <2>0 DEF Mg!ReadColumns, Mg!At, Working, Owes
  <2>2. CASE w.step > 4
    <3>0. PICK new : new = [w EXCEPT !.pc = "guard", !.step = 1]
      OBVIOUS
    <3>1. opener' = [opener EXCEPT ![p] = new]
      BY <1>1, <1>7, <2>0, <2>2, <3>0, Schema DEF Mg!ReadColumns, Mg!To
    <3>2. new \in OpenerType /\ new.pc = "guard" /\ new.step = 1 /\ Working(new)
      <4>1. "guard" \in Stages /\ 1 \in 1..5
        BY DEF Stages
      <4>2. new \in OpenerType /\ new.pc = "guard" /\ new.step = 1
        BY <2>1, <3>0, <4>1 DEF OpenerType
      <4> QED BY <4>2 DEF Working
    <3>3. Present(Mg!Columns)
      <4>1. \A i \in 1..4 : i < w.step
        BY <2>1, <2>2 DEF OpenerType
      <4>2. \A i \in 1..4 : Present(Cols(i))
        BY <2>1, <4>1 DEF Reached
      <4> QED BY <4>2, Schema DEF Present
    <3>4. Reached(new)'
      BY <2>1, <3>2, <3>3 DEF Reached, Past, Tabled, Present
    <3> QED BY <1>4, <2>0, <2>1, <3>1, <3>2, <3>4
  <2>3. CASE ~(w.step > 4)
    <3>0. PICK t, todo, new : /\ t = Mg!Tables[w.step] /\ todo = ({t} \X Mg!Added[t]) \ base.columns
                              /\ new = [w EXCEPT !.pc = "alter", !.todo = todo]
      OBVIOUS
    <3>1. opener' = [opener EXCEPT ![p] = new]
      BY <1>1, <1>7, <2>0, <2>3, <3>0, Schema DEF Mg!ReadColumns
    <3>2. w.step \in 1..4 /\ todo = Cols(w.step) \ base.columns /\ todo \subseteq Mg!Columns
      BY <2>1, <2>3, <3>0, Schema DEF OpenerType, Cols
    <3>3. new \in OpenerType /\ new.pc = "alter" /\ new.step = w.step /\ new.todo = todo /\ Working(new)
      <4>1. "alter" \in Stages
        BY DEF Stages
      <4>2. new \in OpenerType /\ new.pc = "alter" /\ new.step = w.step /\ new.todo = todo
        BY <2>1, <3>0, <3>2, <4>1 DEF OpenerType
      <4> QED BY <4>2 DEF Working
    <3>4. Present(Cols(w.step) \ todo)
      BY <3>2 DEF Present
    <3>5. Reached(new)'
      BY <2>1, <3>2, <3>3, <3>4 DEF Reached, Past, Tabled, Present
    <3> QED BY <1>4, <2>0, <2>1, <3>1, <3>3, <3>5
  <2> QED BY <2>2, <2>3
<1>8. ASSUME NEW p \in Openers, opener' = [opener EXCEPT ![p] = Mg!Closed], UNCHANGED <<base, migrated>>,
             base.ver = Current \/ (\E q \in Openers \ {p} : Working(opener[q]))
               => \A i \in 1..4 : Wide(i) => Wide(i)'
      PROVE  Migrating' /\ Raises
  <2>1. opener' \in [Openers -> OpenerType] /\ opener'[p] = Mg!Closed /\ \A q \in Openers \ {p} : opener'[q] = opener[q]
    BY <1>1, <1>3, <1>8
  <2>2. ASSUME NEW q \in Openers, Working(opener'[q]) PROVE base.ver <= Current /\ Reached(opener[q])'
    <3>1. q \in Openers \ {p} /\ opener'[q] = opener[q] /\ Working(opener[q])
      BY <1>3, <2>1, <2>2
    <3>2. \A i \in 1..4 : Wide(i) => Wide(i)'
      BY <1>8, <3>1
    <3>3. Reached(opener[q]) /\ base.ver <= Current
      BY <1>2, <3>1
    <3>4. \A i \in Past(opener[q]) : i \in 1..4
      BY DEF Past
    <3> QED BY <1>8, <3>1, <3>2, <3>3, <3>4 DEF Reached, Past, Tabled, Present
  <2>3. base'.ver = Current => Tabled' /\ Present(Mg!Columns)' /\ "copy" \notin base'.rows /\ \A i \in 1..4 : Wide(i)'
    BY <1>8 DEF Migrating, Tabled, Present
  <2>4. Migrating'
    BY <1>1, <1>8, <2>1, <2>2, <2>3 DEF Migrating
  <2> QED BY <1>1, <1>8, <2>4 DEF Raises
\* Closing gives up nothing, unless the process owed v16.
<1>16. ASSUME NEW p \in Openers, opener' = [opener EXCEPT ![p] = Mg!Closed], UNCHANGED <<base, migrated>>,
              narrowed => narrowed', ~Owes(opener[p]) \/ "interrupted" \notin base.narrow \/ narrowed'
       PROVE  Migrating' /\ Raises
  <2>1. \A q \in Openers \ {p} : opener'[q] = opener[q]
    BY <1>1, <1>16
  <2>2. \A i \in 1..4 : Wide(i) => Wide(i)'
    <3>1. CASE narrowed'
      BY <1>16, <3>1 DEF Wide
    <3>2. CASE ~Owes(opener[p]) \/ "interrupted" \notin base.narrow
      BY <1>16, <2>1, <3>2 DEF Wide
    <3> QED BY <1>16, <3>1, <3>2
  <2> QED BY <1>8, <1>16, <2>2
<1>9. ASSUME NEW p \in Openers, Mg!AddColumn(p) PROVE Migrating' /\ Raises
  <2>0. PICK w, todo : w = opener[p] /\ todo = w.todo
    OBVIOUS
  <2>1. /\ w \in OpenerType /\ w.pc = "alter" /\ Working(w) /\ Reached(w) /\ UNCHANGED <<migrated, narrowed>> /\ ~Owes(w)
        /\ w.step \in 1..4 /\ todo \in SUBSET Mg!Columns /\ base.ver <= 21
    <3>1. w \in OpenerType /\ w.pc = "alter" /\ Working(w) /\ UNCHANGED <<migrated, narrowed>> /\ ~Owes(w)
      BY <1>2, <1>9, <2>0 DEF Mg!AddColumn, Mg!At, Working, Owes
    <3>2. Reached(w) /\ base.ver <= 21
      BY <1>0, <1>2, <2>0, <3>1
    <3> QED BY <2>0, <3>1, <3>2 DEF OpenerType, Reached
  <2>2. CASE todo = {}
    <3>0. PICK new, next : next = w.step + 1 /\ new = [w EXCEPT !.pc = "columns", !.step = next]
      OBVIOUS
    <3>1. opener' = [opener EXCEPT ![p] = new] /\ UNCHANGED base
      BY <1>1, <1>9, <2>0, <2>2, <3>0 DEF Mg!AddColumn, Mg!To
    <3>2. new \in OpenerType /\ new.pc = "columns" /\ new.step = next /\ Working(new)
      <4>1. "columns" \in Stages /\ next \in 1..5
        BY <2>1, <3>0 DEF Stages
      <4>2. new \in OpenerType /\ new.pc = "columns" /\ new.step = next
        BY <2>1, <3>0, <4>1 DEF OpenerType
      <4> QED BY <4>2 DEF Working
    <3>3. \A i \in 1..4 : i < next => Present(Cols(i))
      <4>1. Present(Cols(w.step))
        BY <2>0, <2>1, <2>2 DEF Reached, Present
      <4>2. \A i \in 1..4 : i < next => i < w.step \/ i = w.step
        BY <2>1, <3>0
      <4> QED BY <2>1, <4>1, <4>2 DEF Reached
    <3>4. Reached(new)'
      BY <2>1, <3>1, <3>2, <3>3 DEF Reached, Past, Tabled, Present
    <3> QED BY <1>4, <2>0, <2>1, <3>1, <3>2, <3>4
  <2>3. CASE todo # {}
    <3>0. PICK c : c = CHOOSE e \in todo : \A d \in todo : e[2] <= d[2]
      OBVIOUS
    <3>1. c \in todo
      <4>1. PICK versions : versions = {d[2] : d \in todo}
        OBVIOUS
      <4>5. versions \in SUBSET Nat /\ versions # {}
        BY <2>1, <2>3, <4>1, Schema
      <4>2. PICK m \in versions : \A k \in versions : m <= k
        BY <4>5, MergeHolds, MP!LeastNatural
      <4>3. PICK d \in todo : d[2] = m
        BY <4>1, <4>2
      <4>4. \A e \in todo : d[2] <= e[2]
        BY <4>1, <4>2, <4>3
      <4> QED BY <3>0, <4>3, <4>4
    <3>2. CASE c \in base.columns
      <4>1. opener' = [opener EXCEPT ![p] = Mg!Closed] /\ UNCHANGED base
        BY <1>9, <2>0, <2>3, <3>0, <3>2 DEF Mg!AddColumn
      <4> QED BY <1>16, <2>0, <2>1, <4>1
    <3>3. CASE c \notin base.columns
      <4>0. PICK new : new = [w EXCEPT !.todo = todo \ {c}]
        OBVIOUS
      <4>1. base' = [base EXCEPT !.columns = base.columns \cup {c}] /\ opener' = [opener EXCEPT ![p] = new]
        <5>1. base' = [base EXCEPT !.columns = @ \cup {c}] /\ opener' = [opener EXCEPT ![p].todo = @ \ {c}]
          BY <1>9, <2>0, <2>3, <3>0, <3>3 DEF Mg!AddColumn
        <5>2. base' = [base EXCEPT !.columns = base.columns \cup {c}]
          BY <1>1, <5>1 DEF BaseType
        <5>3. opener' = [opener EXCEPT ![p] = new]
          BY <1>1, <2>0, <4>0, <5>1
        <5> QED BY <5>2, <5>3
      <4>2. /\ base' \in BaseType /\ base'.ver = base.ver /\ base'.tables = base.tables /\ base'.narrow = base.narrow
            /\ base'.columns = base.columns \cup {c} /\ base'.rows = base.rows
        <5>1. base.columns \cup {c} \in SUBSET Mg!Columns
          BY <1>1, <2>1, <3>1
        <5> QED BY <1>1, <4>1, <5>1 DEF BaseType
      <4>3. base'.unique = base.unique
        BY <1>1, <4>1 DEF BaseType
      <4>4. new \in OpenerType /\ new.pc = "alter" /\ new.step = w.step /\ new.todo = todo \ {c}
        BY <2>1, <4>0 DEF OpenerType
      <4>5. (Tabled => Tabled') /\ \A C \in SUBSET Mg!Columns : Present(C) => Present(C)'
        BY <2>1, <4>2, <4>3 DEF Tabled, Present
      <4>6. \A i \in 1..4 : Wide(i) => Wide(i)'
        <5>1. \A q \in Openers : Owes(opener[q]) => Owes(opener'[q])
          BY <1>1, <2>0, <2>1, <4>1
        <5> QED BY <2>1, <4>2, <5>1, StaysWide
      <4>7. Present(Cols(w.step) \ (todo \ {c}))'
        <5>1. Present(Cols(w.step) \ todo)
          BY <2>0, <2>1 DEF Reached
        <5> QED BY <2>1, <4>2, <5>1 DEF Present
      <4>8. Reached(new)'
        <5>1. \A i \in 1..4 : i < w.step => Present(Cols(i))'
          BY <2>1, <4>5, Schema DEF Reached
        <5> QED BY <2>1, <4>4, <4>5, <4>7, <5>1 DEF Reached, Past
      <4>9. Migrating'
        BY <1>1, <2>0, <2>1, <4>1, <4>2, <4>4, <4>5, <4>6, <4>8, OneOpener
      <4> QED BY <1>0, <1>1, <2>1, <4>2, <4>9 DEF Raises
    <3> QED BY <3>2, <3>3
  <2> QED BY <2>2, <2>3
<1>10. ASSUME NEW p \in Openers, Mg!ReadGuard(p) PROVE Migrating' /\ Raises
  <2>0. PICK w, saw, new : w = opener[p] /\ saw = (Mg!Narrow[Mg!Rebuilds[w.step]] \in base.narrow)
                           /\ new = [w EXCEPT !.pc = "rebuild", !.saw = saw]
    OBVIOUS
  <2>1. /\ w \in OpenerType /\ w.pc = "guard" /\ Working(w) /\ Reached(w) /\ w.step \in 1..4
        /\ opener' = [opener EXCEPT ![p] = new] /\ UNCHANGED <<base, migrated, narrowed>>
    <3>1. w \in OpenerType /\ w.pc = "guard" /\ Working(w) /\ UNCHANGED <<base, migrated, narrowed>>
      BY <1>2, <1>10, <2>0 DEF Mg!ReadGuard, Mg!At, Working
    <3>2. Reached(w)
      BY <1>2, <2>0, <3>1
    <3>3. opener' = [opener EXCEPT ![p] = new]
      BY <1>1, <1>10, <2>0 DEF Mg!ReadGuard
    <3> QED BY <3>1, <3>2, <3>3 DEF OpenerType, Reached
  <2>2. saw \in BOOLEAN /\ (saw <=> Mg!Narrow[Mg!Rebuilds[w.step]] \in base.narrow)
    <3>1. saw <=> Mg!Narrow[Mg!Rebuilds[w.step]] \in base.narrow
      BY <2>0
    <3>2. saw \in BOOLEAN
      BY <2>0
    <3> QED BY <3>1, <3>2
  <2>3. new \in OpenerType /\ new.pc = "rebuild" /\ new.step = w.step /\ new.saw = saw
    <3>1. "rebuild" \in Stages
      BY DEF Stages
    <3> QED BY <2>0, <2>1, <2>2, <3>1 DEF OpenerType
  <2>4. ~Owes(w) \/ Owes(new) \/ "interrupted" \notin base.narrow
    BY <2>2, <2>3, Schema DEF Owes
  <2>5. ~saw => Wide(w.step)
    BY <2>2, Schema DEF Wide
  <2>6. \A i \in 1..4 : i < w.step \/ (i = w.step /\ ~saw) => Wide(i)
    BY <2>1, <2>5 DEF Reached, Past
  <2>7. \A i \in 1..4 : i < w.step \/ (i = w.step /\ ~saw) => Wide(i)'
    <3>1. CASE "interrupted" \notin base.narrow
      BY <2>1, <2>6, <3>1 DEF Wide
    <3>2. CASE "interrupted" \in base.narrow
      <4>1. \A q \in Openers : Owes(opener[q]) => Owes(opener'[q])
        BY <1>1, <2>0, <2>1, <2>4, <3>2
      <4> QED BY <2>1, <2>6, <4>1, StaysWide
    <3> QED BY <3>1, <3>2
  <2>8. Reached(new)'
    BY <2>1, <2>3, <2>7 DEF Reached, Past, Tabled, Present
  <2> QED BY <1>4, <2>0, <2>1, <2>3, <2>4, <2>8
<1>11. ASSUME NEW p \in Openers, Mg!Rebuild(p) PROVE Migrating' /\ Raises
  <2>0. PICK w, new, at, step :
          /\ w = opener[p] /\ at = (IF w.step = 4 THEN "stamp" ELSE "guard") /\ step = (IF w.step = 4 THEN 1 ELSE w.step + 1)
          /\ new = [w EXCEPT !.pc = at, !.step = step]
    OBVIOUS
  <2>1. w \in OpenerType /\ w.pc = "rebuild" /\ Working(w) /\ Reached(w) /\ w.step \in 1..4 /\ base.ver <= 21
    <3>1. w \in OpenerType /\ w.pc = "rebuild" /\ Working(w)
      BY <1>2, <1>11, <2>0 DEF Mg!Rebuild, Mg!At, Working
    <3>2. Reached(w) /\ base.ver <= 21
      BY <1>0, <1>2, <2>0, <3>1
    <3> QED BY <3>1, <3>2 DEF OpenerType, Reached
  <2>2. /\ new \in OpenerType /\ new.pc = at /\ new.step = step /\ Working(new)
        /\ new.pc \in {"guard", "stamp"} /\ new.step <= 4
    <3>1. at \in Stages /\ step \in 1..5 /\ step <= 4 /\ at \in {"guard", "stamp"}
      BY <2>0, <2>1 DEF Stages
    <3>2. new \in OpenerType /\ new.pc = at /\ new.step = step
      BY <2>0, <2>1, <3>1 DEF OpenerType
    <3> QED BY <3>1, <3>2 DEF Working
  <2>3. \A i \in Past(new) : i \in 1..4 /\ (i < w.step \/ i = w.step)
    BY <2>0, <2>1, <2>2 DEF Past
  <2>4. \A i \in 1..4 : i < w.step \/ (i = w.step /\ ~w.saw) => Wide(i)
    BY <2>1 DEF Reached, Past
  <2>5. LET next == IF w.step = Len(Mg!Rebuilds) THEN Mg!To(p, "stamp", 1) ELSE Mg!To(p, "guard", w.step + 1)
        IN  next => opener' = [opener EXCEPT ![p] = new]
    BY <1>1, <2>0, Schema DEF Mg!To
  <2>6. Tabled /\ Present(Mg!Columns)
    BY <2>1 DEF Reached
  <2>7. CASE ~w.saw
    <3>1. opener' = [opener EXCEPT ![p] = new] /\ UNCHANGED <<base, migrated, narrowed>>
      BY <1>11, <2>0, <2>5, <2>7 DEF Mg!Rebuild
    <3>2. \A q \in Openers : Owes(opener[q]) => Owes(opener'[q])
      BY <1>1, <2>0, <2>1, <2>7, <3>1 DEF Owes
    <3>3. \A i \in Past(new) : Wide(i)'
      BY <2>3, <2>4, <2>7, <3>1, <3>2, StaysWide
    <3>4. Reached(new)'
      <4>1. Tabled' /\ Present(Mg!Columns)'
        BY <2>6, <3>1 DEF Tabled, Present
      <4> QED BY <2>2, <3>3, <4>1 DEF Reached, Past
    <3>5. ~Owes(w)
      BY <2>1, <2>7 DEF Owes
    <3> QED BY <1>4, <2>0, <2>1, <2>2, <3>1, <3>4, <3>5
  <2>8. CASE w.saw /\ w.step = 2 /\ "interrupted" \in base.rows
    <3>1. opener' = [opener EXCEPT ![p] = Mg!Closed] /\ UNCHANGED <<base, migrated, narrowed>>
      BY <1>11, <2>0, <2>8, Schema DEF Mg!Rebuild
    <3>2. ~Owes(w)
      BY <2>8 DEF Owes
    <3> QED BY <1>16, <2>0, <3>1, <3>2
  <2>9. CASE w.saw /\ ~(w.step = 2 /\ "interrupted" \in base.rows)
    <3>0. PICK r : r = Mg!Rebuilds[w.step]
      OBVIOUS
    <3>1. /\ opener' = [opener EXCEPT ![p] = new] /\ base' = Mg!Rebuilt(r) /\ migrated' = (migrated \/ r = "v8")
          /\ narrowed' = (narrowed /\ r # "v16")
      <4>1. ~(r = "v15" /\ "interrupted" \in base.rows)
        BY <2>1, <2>9, <3>0, Schema
      <4> QED BY <1>11, <2>0, <2>5, <2>9, <3>0, <4>1 DEF Mg!Rebuild
    <3>2. migrated' \in BOOLEAN /\ (migrated => migrated') /\ (w.step = 1 => migrated')
      <4>1. w.step = 1 => r = "v8"
        BY <3>0, Schema
      <4>2. CASE r = "v8"
        BY <3>1, <4>2
      <4>3. CASE r # "v8"
        BY <1>1, <3>1, <4>1, <4>3
      <4> QED BY <4>2, <4>3
    <3>3. /\ base' \in BaseType /\ base'.ver = base.ver /\ base'.tables = base.tables /\ base'.rows = base.rows
          /\ base'.columns \subseteq base.columns
          /\ base'.columns \cup {<<"projects", 14>>} = base.columns \cup {<<"projects", 14>>}
          /\ w.step # 1 => base'.columns = base.columns
          /\ w.step # 2 => base'.narrow \subseteq base.narrow
          /\ base'.narrow \subseteq base.narrow \cup {"interrupted"}
          /\ Mg!Narrow[r] \notin base'.narrow
      <4>1. CASE w.step = 1
        <5>1. r = "v8" /\ Mg!Narrow[r] = "type"
          BY <3>0, <4>1, Schema
        <5>2. base' = [base EXCEPT !.narrow = base.narrow \ {"type"}, !.columns = base.columns \ {<<"projects", 14>>}]
          BY <1>1, <3>1, <5>1 DEF Mg!Rebuilt, BaseType
        <5>3. base.narrow \ {"type"} \in SUBSET Checks /\ base.columns \ {<<"projects", 14>>} \in SUBSET Mg!Columns
          BY <1>1
        <5>4. /\ base' \in BaseType /\ base'.ver = base.ver /\ base'.tables = base.tables /\ base'.rows = base.rows
              /\ base'.columns = base.columns \ {<<"projects", 14>>} /\ base'.narrow = base.narrow \ {"type"}
          BY <1>1, <5>2, <5>3 DEF BaseType
        <5> QED BY <4>1, <5>1, <5>4
      <4>2. CASE w.step = 2
        <5>1. r = "v15" /\ Mg!Narrow[r] = "rate_limited"
          BY <3>0, <4>2, Schema
        <5>2. base' = [base EXCEPT !.narrow = (base.narrow \ {"rate_limited"}) \cup {"interrupted"}]
          BY <1>1, <3>1, <5>1 DEF Mg!Rebuilt, BaseType
        <5>3. (base.narrow \ {"rate_limited"}) \cup {"interrupted"} \in SUBSET Checks
          BY <1>1 DEF Checks
        <5>4. /\ base' \in BaseType /\ base'.ver = base.ver /\ base'.tables = base.tables /\ base'.rows = base.rows
              /\ base'.columns = base.columns /\ base'.narrow = (base.narrow \ {"rate_limited"}) \cup {"interrupted"}
          BY <1>1, <5>2, <5>3 DEF BaseType
        <5> QED BY <4>2, <5>1, <5>4
      <4>3. CASE w.step = 3
        <5>1. r = "v16" /\ Mg!Narrow[r] = "interrupted"
          BY <3>0, <4>3, Schema
        <5>2. base' = [base EXCEPT !.narrow = base.narrow \ {"rate_limited", "interrupted"}]
          BY <1>1, <3>1, <5>1 DEF Mg!Rebuilt, BaseType
        <5>3. base.narrow \ {"rate_limited", "interrupted"} \in SUBSET Checks
          BY <1>1
        <5>4. /\ base' \in BaseType /\ base'.ver = base.ver /\ base'.tables = base.tables /\ base'.rows = base.rows
              /\ base'.columns = base.columns /\ base'.narrow = base.narrow \ {"rate_limited", "interrupted"}
          BY <1>1, <5>2, <5>3 DEF BaseType
        <5> QED BY <4>3, <5>1, <5>4
      <4>4. CASE w.step = 4
        <5>1. r = "v19" /\ Mg!Narrow[r] = "findings"
          BY <3>0, <4>4, Schema
        <5>2. base' = [base EXCEPT !.narrow = base.narrow \ {"findings"}, !.unique = TRUE]
          BY <1>1, <3>1, <5>1 DEF Mg!Rebuilt, BaseType
        <5>3. base.narrow \ {"findings"} \in SUBSET Checks
          BY <1>1
        <5>4. /\ base' \in BaseType /\ base'.ver = base.ver /\ base'.tables = base.tables /\ base'.rows = base.rows
              /\ base'.columns = base.columns /\ base'.narrow = base.narrow \ {"findings"}
          BY <1>1, <5>2, <5>3 DEF BaseType
        <5> QED BY <4>4, <5>1, <5>4
      <4> QED BY <2>1, <4>1, <4>2, <4>3, <4>4
    <3>4. base.unique => base'.unique
      <4>1. r \in {"v8", "v15", "v16", "v19"}
        BY <2>1, <3>0, Schema
      <4>2. CASE r = "v8"
        BY <1>1, <3>1, <4>2 DEF Mg!Rebuilt, BaseType
      <4>3. CASE r = "v15"
        BY <1>1, <3>1, <4>3 DEF Mg!Rebuilt, BaseType
      <4>4. CASE r = "v16"
        BY <1>1, <3>1, <4>4 DEF Mg!Rebuilt, BaseType
      <4>5. CASE r = "v19"
        BY <1>1, <3>1, <4>5 DEF Mg!Rebuilt, BaseType
      <4> QED BY <4>1, <4>2, <4>3, <4>4, <4>5
    <3>5. (Tabled => Tabled') /\ \A C \in SUBSET Mg!Columns : Present(C) => Present(C)'
      BY <3>2, <3>3, <3>4 DEF Tabled, Present
    <3>6. opener'[p] = new /\ \A q \in Openers \ {p} : opener'[q] = opener[q]
      BY <1>1, <3>1
    <3>7. w.step # 2 => \A i \in 1..4 : Wide(i) => Wide(i)'
      <4>1. ASSUME w.step # 2, "interrupted" \in base'.narrow
            PROVE  (narrowed => narrowed') /\ \A q \in Openers : Owes(opener[q]) => Owes(opener'[q])
        <5>1. w.step # 3
          BY <3>0, <3>3, <4>1, Schema
        <5>2. r # "v16"
          BY <2>1, <3>0, <5>1, Schema
        <5> QED BY <2>0, <3>1, <3>6, <5>1, <5>2 DEF Owes
      <4> QED BY <3>3, <4>1, StaysWide
    <3>8. w.step = 2 => \A i \in {1, 2, 4} : Wide(i) => Wide(i)'
      BY <3>3, Schema DEF Wide
    <3>9. Wide(w.step)'
      BY <2>1, <3>0, <3>3, Schema DEF Wide
    <3>10. w.step = 2 => Wide(3)'
      <4>1. w.step = 2 => Owes(new)
        BY <2>0, <2>2 DEF Owes
      <4>2. w.step = 2 => Owes(opener'[p])
        BY <3>6, <4>1
      <4> QED BY <4>2 DEF Wide
    <3>11. \A i \in 1..4 : Wide(i) => Wide(i)'
      <4>1. \A i \in 1..4 : i \in {1, 2, 4} \/ i = 3
        OBVIOUS
      <4> QED BY <3>7, <3>8, <3>10, <4>1
    <3>12. \A i \in Past(new) : Wide(i)'
      <4> SUFFICES ASSUME NEW i \in Past(new) PROVE Wide(i)'
        OBVIOUS
      <4>1. i \in 1..4 /\ (i < w.step \/ i = w.step)
        BY <2>3
      <4>2. CASE i = w.step
        BY <3>9, <4>2
      <4>3. CASE i < w.step
        <5>1. Wide(i)
          BY <2>4, <4>1, <4>3
        <5>2. w.step = 2 => i \in {1, 2, 4}
          BY <4>1, <4>3
        <5> QED BY <3>7, <3>8, <4>1, <5>1, <5>2
      <4> QED BY <4>1, <4>2, <4>3
    <3>13. Reached(new)'
      <4>1. Tabled' /\ Present(Mg!Columns)'
        BY <2>6, <3>5
      <4> QED BY <2>2, <3>12, <4>1 DEF Reached, Past
    <3>14. Migrating'
      BY <1>1, <2>0, <2>1, <2>2, <3>1, <3>2, <3>3, <3>5, <3>11, <3>13, OneOpener
    <3> QED BY <1>0, <1>1, <2>1, <3>3, <3>14 DEF Raises
  <2> QED BY <2>7, <2>8, <2>9
<1>12. ASSUME NEW p \in Openers, Mg!Stamp(p) PROVE Migrating' /\ Raises
  <2>0. PICK w, new : w = opener[p] /\ new = [w EXCEPT !.pc = "open", !.step = 1]
    OBVIOUS
  <2>1. w \in OpenerType /\ w.pc = "stamp" /\ Working(w) /\ base.ver <= 21 /\ Reached(w)
        /\ opener' = [opener EXCEPT ![p] = new] /\ UNCHANGED <<migrated, narrowed>>
        /\ base' = [base EXCEPT !.ver = 21, !.rows = base.rows \ {"copy"}]
    <3>1. w \in OpenerType /\ w.pc = "stamp" /\ Working(w) /\ UNCHANGED <<migrated, narrowed>>
      BY <1>2, <1>12, <2>0 DEF Mg!Stamp, Mg!At, Working
    <3>2. base' = [base EXCEPT !.ver = 21, !.rows = base.rows \ {"copy"}] /\ opener' = [opener EXCEPT ![p] = new]
      BY <1>0, <1>1, <1>12, <2>0 DEF Mg!Stamp, Mg!To, BaseType
    <3> QED BY <1>0, <1>2, <2>0, <3>1, <3>2
  <2>2. /\ base' \in BaseType /\ base'.ver = 21 /\ base'.tables = base.tables /\ base'.columns = base.columns
        /\ base'.narrow = base.narrow /\ base'.rows = base.rows \ {"copy"}
    <3>1. base.rows \ {"copy"} \in SUBSET {"copy", "interrupted"} /\ 21 \in Nat
      BY <1>1
    <3> QED BY <1>1, <2>1, <3>1 DEF BaseType
  <2>3. base'.unique = base.unique
    BY <1>1, <2>1 DEF BaseType
  <2>4. new \in OpenerType /\ ~Working(new)
    <3>1. "open" \in Stages /\ 1 \in 1..5
      BY DEF Stages
    <3>2. new \in OpenerType /\ new.pc = "open"
      BY <2>0, <2>1, <3>1 DEF OpenerType
    <3> QED BY <3>2 DEF Working
  <2>5. opener' \in [Openers -> OpenerType] /\ opener'[p] = new /\ \A q \in Openers \ {p} : opener'[q] = opener[q]
    BY <1>1, <2>1, <2>4
  <2>6. (Tabled => Tabled') /\ \A C \in SUBSET Mg!Columns : Present(C) => Present(C)'
    BY <2>1, <2>2, <2>3 DEF Tabled, Present
  <2>7. \A i \in 1..4 : Wide(i) => Wide(i)'
    <3>1. \A q \in Openers : Owes(opener[q]) => Owes(opener'[q])
      BY <2>0, <2>1, <2>5 DEF Owes
    <3> QED BY <2>1, <2>2, <3>1, StaysWide
  <2>8. ASSUME NEW q \in Openers, Working(opener'[q])
        PROVE  Reached(opener[q])'
    <3>1. q # p /\ opener'[q] = opener[q] /\ Reached(opener[q])
      BY <1>2, <2>4, <2>5, <2>8
    <3>3. (\A i \in Past(opener[q]) : i \in 1..4) /\ Past(opener[q])' = Past(opener[q])
      BY <3>1 DEF Past
    <3>4. opener[q].pc = "alter" => opener[q].step \in 1..4
      BY <1>2, <3>1 DEF Reached, OpenerType
    <3> QED BY <2>6, <2>7, <3>1, <3>3, <3>4, Schema DEF Reached
  <2>9. Tabled' /\ Present(Mg!Columns)' /\ (\A i \in 1..4 : Wide(i)') /\ "copy" \notin base'.rows
    <3>1. Tabled /\ Present(Mg!Columns) /\ \A i \in 1..4 : Wide(i)
      BY <2>1 DEF Reached, Past
    <3> QED BY <2>2, <2>6, <2>7, <3>1
  <2>10. Migrating'
    <3>1. \A q \in Openers : Working(opener'[q]) => base'.ver <= Current /\ Reached(opener[q])'
      BY <1>0, <2>2, <2>8
    <3> QED BY <1>0, <1>1, <2>1, <2>2, <2>5, <2>9, <3>1 DEF Migrating
  <2> QED BY <1>0, <1>1, <2>1, <2>2, <2>10 DEF Raises
<1>13. ASSUME NEW p \in Openers, Mg!Work(p) PROVE Migrating' /\ Raises
  <2>1. UNCHANGED <<opener, migrated, narrowed>> /\ base.ver = Current /\ base' = [base EXCEPT !.rows = base.rows \cup {"interrupted"}]
    BY <1>1, <1>13 DEF Mg!Work, BaseType
  <2>2. /\ base' \in BaseType /\ base'.ver = base.ver /\ base'.tables = base.tables /\ base'.columns = base.columns
        /\ base'.narrow = base.narrow /\ base'.rows = base.rows \cup {"interrupted"}
    <3>1. base.rows \cup {"interrupted"} \in SUBSET {"copy", "interrupted"}
      BY <1>1
    <3> QED BY <1>1, <2>1, <3>1 DEF BaseType
  <2>3. base'.unique = base.unique
    BY <1>1, <2>1 DEF BaseType
  <2>4. (Tabled => Tabled') /\ \A C \in SUBSET Mg!Columns : Present(C) => Present(C)'
    BY <2>1, <2>2, <2>3 DEF Tabled, Present
  <2>5. \A i \in 1..4 : Wide(i) => Wide(i)'
    BY <2>1, <2>2, StaysWide
  <2>6. ASSUME NEW q \in Openers, Working(opener[q]) PROVE Reached(opener[q])'
    <3>1. Reached(opener[q])
      BY <1>2, <2>6
    <3>2. (\A i \in Past(opener[q]) : i \in 1..4) /\ Past(opener[q])' = Past(opener[q])
      BY <2>1 DEF Past
    <3>3. opener[q].pc = "alter" => opener[q].step \in 1..4
      BY <1>2, <3>1 DEF Reached, OpenerType
    <3> QED BY <2>1, <2>4, <2>5, <3>1, <3>2, <3>3, Schema DEF Reached
  <2>7. Migrating'
    BY <1>0, <2>1, <2>2, <2>4, <2>5, <2>6 DEF Migrating
  <2> QED BY <1>0, <1>1, <2>1, <2>2, <2>7 DEF Raises
<1>14. ASSUME NEW p \in Openers, Mg!Close(p) PROVE Migrating' /\ Raises
  <2>1. /\ opener' = [opener EXCEPT ![p] = Mg!Closed] /\ UNCHANGED <<base, migrated, narrowed>>
        /\ ~Owes(opener[p])
    BY <1>14 DEF Mg!Close, Mg!At, Owes
  <2> QED BY <1>16, <2>1
<1>17. ASSUME NEW p \in Openers, Mg!Stop(p) PROVE Migrating' /\ Raises
  <2>1. opener' = [opener EXCEPT ![p] = Mg!Closed] /\ UNCHANGED <<base, migrated>>
    BY <1>17 DEF Mg!Stop
  <2>2. narrowed' = (narrowed \/ (/\ Owes(opener[p]) /\ "interrupted" \in base.narrow
                                  /\ base.ver = Current \/ \E q \in Openers \ {p} : Working(opener[q])))
    <3>1. Mg!Owes(p) <=> Owes(opener[p])
      BY DEF Mg!Owes, Owes, Mg!At
    <3>2. \A q \in Openers : Mg!AtWork(q) <=> Working(opener[q])
      BY DEF Mg!AtWork, Mg!At, Working
    <3> QED BY <1>17, <3>1, <3>2 DEF Mg!Stop
  <2>3. CASE base.ver = Current \/ \E q \in Openers \ {p} : Working(opener[q])
    <3>1. (narrowed => narrowed') /\ (~Owes(opener[p]) \/ "interrupted" \notin base.narrow \/ narrowed')
      BY <2>2, <2>3
    <3> QED BY <1>16, <2>1, <3>1
  <2>4. CASE ~(base.ver = Current \/ \E q \in Openers \ {p} : Working(opener[q]))
    BY <1>8, <2>1, <2>4
  <2> QED BY <2>3, <2>4
<1>15. ASSUME UNCHANGED Mg!vars PROVE Migrating' /\ Raises
  <2>1. UNCHANGED <<base, opener, migrated, narrowed>>
    BY <1>15 DEF Mg!vars
  <2>2. Migrating'
    BY <2>1 DEF Migrating, Reached, Past, Wide, Owes, Tabled, Present, Cols
  <2> QED BY <1>1, <2>1, <2>2 DEF Raises
<1> QED BY <1>5, <1>6, <1>7, <1>9, <1>10, <1>11, <1>12, <1>13, <1>14, <1>15, <1>17 DEF Mg!Next

\* A step between two states of the invariant that raises the base is a safe one.
LEMMA MigratingSteps ==
  ASSUME Migrating', Raises PROVE Mg!MigrationStep
<1>1. Mg!TypeOK'
  BY DEF Migrating, BaseType, OpenerType, Stages, Mg!TypeOK
<1>2. ASSUME Mg!Settled'
      PROVE  Mg!Whole(IF migrated THEN Mg!Columns \ {<<"projects", 14>>} ELSE Mg!Columns,
                      IF narrowed THEN {"interrupted"} ELSE {})'
  <2>1. base'.ver = Current /\ \A q \in Openers : ~Working(opener'[q])
    BY <1>2 DEF Mg!Settled, Mg!AtWork, Mg!At, Working
  <2>2. Tabled' /\ Present(Mg!Columns)' /\ "copy" \notin base'.rows /\ \A i \in 1..4 : Wide(i)'
    BY <2>1 DEF Migrating
  <2>3. \A q \in Openers : ~Owes(opener'[q])
    BY <2>1 DEF Owes, Working
  <2>4. base'.narrow \subseteq {"type", "rate_limited", "interrupted", "findings"}
    BY DEF Migrating, BaseType, Checks
  <2>5. "type" \notin base'.narrow /\ "rate_limited" \notin base'.narrow /\ "findings" \notin base'.narrow
    BY <2>2, Schema DEF Wide
  <2>6. "interrupted" \in base'.narrow => narrowed'
    BY <2>2, <2>3 DEF Wide
  <2>7. base'.narrow \subseteq (IF narrowed' THEN {"interrupted"} ELSE {})
    BY <2>4, <2>5, <2>6
  <2> QED BY <2>2, <2>7 DEF Mg!Whole, Tabled, Present
<1> QED BY <1>1, <1>2 DEF Mg!MigrationStep, Mg!TooNew, Raises

\* Any version found, migrations side by side and cut at any statement: a settled
\* base is of this version, but for the column the v8 rebuild forgets and for the
\* CHECK of jobs where a stale rebuild of v15 was stopped before the v16 it owed; one
\* too new is never written.
THEOREM MigrationHolds == StoreSpec => MigrationIsSafe
<1> DEFINE I == part = "migration" => Migrating
<1>1. StoreInit => I
  BY MigratingInit DEF StoreInit
<1>2. ASSUME I, [StoreNext]_all, part' = "migration" \/ part = "migration"
      PROVE  part = "migration" /\ part' = "migration" /\ [Mg!Next]_(Mg!vars)
  BY <1>2 DEF StoreNext, all, migration, Mg!vars
<1>3. I /\ [StoreNext]_all => I'
  BY <1>2, MigratingKept
<1>4. I /\ [StoreNext]_all => [part = "migration" => Mg!MigrationStep]_all
  BY <1>2, MigratingKept, MigratingSteps
<1> QED BY <1>1, <1>3, <1>4, PTL DEF StoreSpec, MigrationIsSafe
=============================================================================
