----------------------------- MODULE MergeProofs -----------------------------
(***************************************************************************)
(* The merge for any number of features, tasks and corrections.  What      *)
(* reaches dev was reviewed, whoever else merges, when no run, correction, *)
(* redrain or second merge works on the feature that is merged; and no     *)
(* work is dropped when, besides, one merge at a time is going on.  Both   *)
(* rest on what a rebase does: dev, then the commits dev does not hold.    *)
(***************************************************************************)
EXTENDS Merge, FiniteSetTheorems, TLAPS

(***************************************************************************)
(* Induction on a set of numbers                                           *)
(***************************************************************************)

\* A set of naturals that is not empty has a least member: strict inclusion of
\* the intervals below its members is well founded.
LEMMA LeastNatural ==
  ASSUME NEW S \in SUBSET Nat, S # {}
  PROVE  \E m \in S : \A k \in S : m <= k
<1> DEFINE Below == {0..k : k \in S}
<1>1. Below \subseteq FiniteSubsetsOf(Nat)
  <2> SUFFICES ASSUME NEW k \in S PROVE 0..k \in FiniteSubsetsOf(Nat)
    OBVIOUS
  <2>1. k \in Nat /\ 0..k \subseteq Nat
    OBVIOUS
  <2>2. IsFiniteSet(0..k)
    BY <2>1, FS_Interval
  <2> QED
    BY <2>1, <2>2 DEF FiniteSubsetsOf
<1>2. IsWellFoundedOn(StrictSubsetOrdering(Nat), FiniteSubsetsOf(Nat))
  BY FS_StrictSubsetOrderingWellFounded
<1>3. Below # {}
  OBVIOUS
<1> HIDE DEF Below
<1>4. PICK B \in Below : \A C \in Below : <<C, B>> \notin StrictSubsetOrdering(Nat)
  BY <1>1, <1>2, <1>3, WFMin
<1>5. PICK m \in S : B = 0..m
  BY DEF Below
<1>6. ASSUME NEW k \in S, k < m PROVE FALSE
  <2>1. 0..k \in Below /\ k \in Nat /\ m \in Nat
    BY DEF Below
  <2>2. 0..k \subseteq 0..m /\ 0..k # 0..m /\ 0..k \subseteq Nat /\ 0..m \subseteq Nat
    BY <1>6, <2>1
  <2>3. <<0..k, 0..m>> \in StrictSubsetOrdering(Nat)
    BY <2>2 DEF StrictSubsetOrdering
  <2> QED
    BY <1>4, <1>5, <2>1, <2>3
<1> QED
  BY <1>6

\* Induction over the naturals, for a property given as a set.
LEMMA SetInduction ==
  ASSUME NEW S, 0 \in S, \A n \in Nat : n \in S => n + 1 \in S
  PROVE  Nat \subseteq S
<1> SUFFICES ASSUME Nat \ S # {} PROVE FALSE
  OBVIOUS
<1>1. PICK m \in Nat \ S : \A k \in Nat \ S : m <= k
  BY LeastNatural
<1>2. m # 0 /\ m - 1 \in Nat
  OBVIOUS
<1>3. m - 1 \in S
  BY <1>1, <1>2
<1>4. (m - 1) + 1 \in S
  BY <1>2, <1>3
<1> QED
  BY <1>1, <1>4

(***************************************************************************)
(* Refs                                                                    *)
(***************************************************************************)

Shas == Seq(Commits)

\* A prefix holds the same commits in the same places.
LEMMA PrefixIff ==
  ASSUME NEW s \in Shas, NEW t \in Shas
  PROVE  IsPrefix(s, t) <=> /\ Len(s) <= Len(t)
                            /\ \A i \in 1..Len(s) : s[i] = t[i]
<1> USE DEF Shas
<1>1. ASSUME Len(s) <= Len(t)
      PROVE  SubSeq(s, 1, Len(s)) = SubSeq(t, 1, Len(s))
             <=> \A i \in 1..Len(s) : s[i] = t[i]
  <2>1. /\ SubSeq(s, 1, Len(s)) = [i \in 1..Len(s) |-> s[i]]
        /\ SubSeq(t, 1, Len(s)) = [i \in 1..Len(s) |-> t[i]]
    BY <1>1
  <2> QED
    BY <2>1
<1> QED
  BY <1>1 DEF IsPrefix

\* Ancestry is a preorder, and an ancestor holds no other commits.
LEMMA PrefixRefl == ASSUME NEW s \in Shas PROVE IsPrefix(s, s)
BY PrefixIff DEF Shas

\* A prefix of a prefix is one.
LEMMA PrefixTrans ==
  ASSUME NEW s \in Shas, NEW t \in Shas, NEW u \in Shas,
         IsPrefix(s, t), IsPrefix(t, u)
  PROVE  IsPrefix(s, u)
BY PrefixIff DEF Shas

\* What a prefix contains, the whole contains.
LEMMA PrefixSet ==
  ASSUME NEW s \in Shas, NEW t \in Shas, IsPrefix(s, t)
  PROVE  ToSet(s) \subseteq ToSet(t)
<1>1. Len(s) <= Len(t) /\ \A i \in 1..Len(s) : s[i] = t[i]
  BY PrefixIff
<1> QED
  BY <1>1 DEF ToSet, Shas

\* What is put after a history keeps it as a prefix, and adds its commits.
LEMMA ConcatRefs ==
  ASSUME NEW s \in Shas, NEW t \in Shas
  PROVE  /\ s \o t \in Shas /\ IsPrefix(s, s \o t)
         /\ ToSet(s \o t) = ToSet(s) \cup ToSet(t)
<1> USE DEF Shas
<1>1. s \o t \in Shas /\ Len(s \o t) = Len(s) + Len(t)
  OBVIOUS
<1>2. \A i \in 1..Len(s) : (s \o t)[i] = s[i]
  OBVIOUS
<1>3. \A i \in 1..Len(t) : (s \o t)[Len(s) + i] = t[i]
  OBVIOUS
<1>4. IsPrefix(s, s \o t)
  <2>1. Len(s) <= Len(s \o t)
    BY <1>1
  <2> QED
    BY <1>1, <1>2, <2>1, PrefixIff
<1>5. ToSet(s) \subseteq ToSet(s \o t)
  BY <1>1, <1>4, PrefixSet
<1>6. ToSet(t) \subseteq ToSet(s \o t)
  <2> SUFFICES ASSUME NEW i \in 1..Len(t) PROVE t[i] \in ToSet(s \o t)
    BY SMTT(30) DEF ToSet
  <2>1. Len(s) + i \in DOMAIN (s \o t)
    BY <1>1
  <2> QED
    BY <1>3, <2>1 DEF ToSet
<1>7. ToSet(s \o t) \subseteq ToSet(s) \cup ToSet(t)
  <2> SUFFICES ASSUME NEW i \in 1..(Len(s) + Len(t))
               PROVE  (s \o t)[i] \in ToSet(s) \cup ToSet(t)
    BY <1>1 DEF ToSet
  <2>1. CASE i <= Len(s)
    BY <1>2, <2>1 DEF ToSet
  <2>2. CASE i > Len(s)
    <3>1. i - Len(s) \in 1..Len(t)
      BY <2>2
    <3> QED
      BY <1>3, <3>1 DEF ToSet
  <2> QED
    BY <2>1, <2>2
<1> QED
  BY <1>1, <1>4, <1>5, <1>6, <1>7

\* One commit more.
LEMMA AppendRef ==
  ASSUME NEW s \in Shas, NEW c \in Commits
  PROVE  /\ Append(s, c) \in Shas /\ ToSet(Append(s, c)) = ToSet(s) \cup {c}
<1> USE DEF Shas
<1>1. /\ Append(s, c) \in Shas /\ Len(Append(s, c)) = Len(s) + 1
      /\ \A i \in 1..Len(s) : Append(s, c)[i] = s[i]
      /\ Append(s, c)[Len(s) + 1] = c
  OBVIOUS
<1>2. \A i \in 1..(Len(s) + 1) : i \in 1..Len(s) \/ i = Len(s) + 1
  OBVIOUS
<1> QED
  BY <1>1, <1>2 DEF ToSet

\* A ref holds commits.
LEMMA RefSet == ASSUME NEW s \in Shas PROVE ToSet(s) \subseteq Commits
BY DEF Shas, ToSet

\* What the recursion of Ahead says of a function.
Replays(g, b, D, n) ==
  g = [i \in 0..n |-> IF i = 0 THEN <<>>
                      ELSE IF b[i] \in D THEN g[i - 1]
                      ELSE Append(g[i - 1], b[i])]

\* There is such a function.
LEMMA AheadDefined ==
  ASSUME NEW n \in Nat, NEW b, NEW D
  PROVE  \E g : Replays(g, b, D, n)
<1> DEFINE Next1(g, i) == IF b[i] \in D THEN g[i - 1] ELSE Append(g[i - 1], b[i])
           S == {m \in Nat : \E g : Replays(g, b, D, m)}
<1> USE DEF Replays
<1>1. 0 \in S
  <2>1. Replays([i \in 0..0 |-> <<>>], b, D, 0)
    OBVIOUS
  <2> QED
    BY <2>1
<1>2. ASSUME NEW m \in Nat, m \in S PROVE m + 1 \in S
  <2>1. PICK g : Replays(g, b, D, m)
    BY <1>2
  <2> DEFINE h == [i \in 0..(m + 1) |->
                     IF i = m + 1 THEN Next1(g, m + 1) ELSE g[i]]
  <2>2. \A i \in 0..m : h[i] = g[i]
    OBVIOUS
  <2>3. ASSUME NEW i \in 0..(m + 1)
        PROVE  h[i] = IF i = 0 THEN <<>> ELSE Next1(h, i)
    <3>1. CASE i = 0
      <4>1. g[0] = <<>>
        BY <2>1
      <4> QED
        BY <2>2, <3>1, <4>1
    <3>2. CASE i # 0
      <4>1. i - 1 \in 0..m /\ h[i - 1] = g[i - 1]
        BY <3>2
      <4>2. h[i] = Next1(g, i)
        <5>1. CASE i = m + 1
          BY <5>1
        <5>2. CASE i # m + 1
          <6>1. i \in 0..m /\ h[i] = g[i]
            BY <5>2
          <6> QED
            BY <2>1, <3>2, <6>1
        <5> QED
          BY <5>1, <5>2
      <4> QED
        BY <3>2, <4>1, <4>2
    <3> QED
      BY <3>1, <3>2
  <2>4. Replays(h, b, D, m + 1)
    BY <2>3
  <2> HIDE DEF h, Replays
  <2> QED
    BY <2>4
<1> HIDE DEF S, Replays
<1>3. n \in S
  BY <1>1, <1>2, SetInduction
<1> QED
  BY <1>3 DEF S

\* What a rebase replays: the commits that dev does not hold.
LEMMA AheadIs ==
  ASSUME NEW b \in Shas
  PROVE  Ahead(b) \in Shas /\ ToSet(Ahead(b)) = ToSet(b) \ ToSet(dev)
<1> DEFINE D == ToSet(dev)
           A[i \in 0..Len(b)] == IF i = 0 THEN <<>>
                                 ELSE IF b[i] \in D THEN A[i - 1]
                                 ELSE Append(A[i - 1], b[i])
           First(i) == {b[j] : j \in 1..i}
           S == {m \in Nat : m <= Len(b) =>
                   A[m] \in Shas /\ ToSet(A[m]) = First(m) \ D}
<1>0. Len(b) \in Nat /\ \A i \in 1..Len(b) : b[i] \in Commits
  BY DEF Shas
<1>1. A = [i \in 0..Len(b) |-> IF i = 0 THEN <<>>
                               ELSE IF b[i] \in D THEN A[i - 1]
                               ELSE Append(A[i - 1], b[i])]
  <2>1. \E g : Replays(g, b, D, Len(b))
    BY <1>0, AheadDefined
  <2> QED
    BY <2>1 DEF Replays
<1>2. Ahead(b) = A[Len(b)]
  BY DEF Ahead
<1> HIDE DEF A, D
<1>3. 0 \in S
  <2>1. A[0] = <<>>
    BY <1>0, <1>1
  <2>2. <<>> \in Shas /\ ToSet(<<>>) = {}
    BY DEF Shas, ToSet
  <2> QED
    BY <2>1, <2>2
<1>4. ASSUME NEW m \in Nat, m \in S PROVE m + 1 \in S
  <2> SUFFICES ASSUME m + 1 <= Len(b)
               PROVE  /\ A[m + 1] \in Shas
                      /\ ToSet(A[m + 1]) = First(m + 1) \ D
    OBVIOUS
  <2>1. A[m] \in Shas /\ ToSet(A[m]) = First(m) \ D
    BY <1>0, <1>4
  <2>2. A[m + 1] = IF b[m + 1] \in D THEN A[m] ELSE Append(A[m], b[m + 1])
    <3>1. m + 1 \in 0..Len(b) /\ m + 1 # 0 /\ (m + 1) - 1 = m
      BY <1>0
    <3> QED
      BY <1>1, <3>1
  <2>3. First(m + 1) = First(m) \cup {b[m + 1]}
    OBVIOUS
  <2>4. b[m + 1] \in Commits
    BY <1>0
  <2>5. CASE b[m + 1] \in D
    BY <2>1, <2>2, <2>3, <2>5
  <2>6. CASE b[m + 1] \notin D
    <3>1. ToSet(Append(A[m], b[m + 1])) = ToSet(A[m]) \cup {b[m + 1]}
          /\ Append(A[m], b[m + 1]) \in Shas
      BY <2>1, <2>4, AppendRef
    <3> QED
      BY <2>1, <2>2, <2>3, <2>6, <3>1
  <2> QED
    BY <2>5, <2>6
<1> HIDE DEF S
<1>5. Len(b) \in S
  BY <1>0, <1>3, <1>4, SetInduction
<1>6. ToSet(b) = First(Len(b))
  BY DEF Shas, ToSet
<1> QED
  BY <1>0, <1>2, <1>5, <1>6 DEF S, D

\* A rebased branch holds dev and its own commits, and nothing else.
LEMMA RebasedIs ==
  ASSUME NEW f, dev \in Shas, branch[f] \in Shas
  PROVE  /\ Rebased(f) \in Shas /\ IsPrefix(dev, Rebased(f))
         /\ ToSet(Rebased(f)) = ToSet(dev) \cup ToSet(branch[f])
BY AheadIs, ConcatRefs DEF Rebased

(***************************************************************************)
(* Types                                                                   *)
(***************************************************************************)

Branches == Shas \cup {None}
Lives    == {"todo", "in_progress", "done"}
States   == {"planned", "active", "merged"}
Redrains == {"none", "released", "cut"}
Reviews  == [sha: Shas, red: BOOLEAN]
Stages   == {"idle", "allowed", "aligned", "ffdev", "landed", "ffmain",
             "promoted", "released", "deleted", "recorded"}

GitShape == /\ dev \in Shas /\ main \in Shas
            /\ branch \in [Features -> Branches]
            /\ wt \in [Features -> BOOLEAN]
            /\ \A f \in Features : wt[f] => branch[f] # None

RunShape == /\ task \in [Tasks -> Lives]
            /\ feature \in [Features -> States]
            /\ work \in [Features -> Jobs \cup {None}]
            /\ tries \in [Jobs -> 0..MaxTries]
            /\ drain \in [Features -> Redrains]
            /\ \A f \in Features : work[f] # None =>
                 Home(work[f]) = f /\ tries[work[f]] >= 1

RevShape == /\ verdict \in [Features -> Reviews \cup {None}]
            /\ reviewing \in [Features -> Branches]
            /\ cleared \subseteq Commits

MerShape == /\ mpc \in [Mergers -> Stages]
            /\ mof \in [Mergers -> Features \cup {None}]
            /\ head \in [Mergers -> Branches]
            /\ outcomes \subseteq Features \X Shas
            /\ \A m \in Mergers : mpc[m] # "idle" =>
                 mof[m] \in Features /\ head[m] \in Shas

TInv == GitShape /\ RunShape /\ RevShape /\ MerShape

\* A ref is not None, nor is a job.
LEMMA NoneIsApart ==
  /\ None \notin Shas /\ None \notin Jobs /\ None \notin Features
  /\ Shas \subseteq Branches /\ None \in Branches
  /\ \A b \in Branches : b # None => b \in Shas
  /\ \A j \in Jobs : Home(j) \in Features
BY NoneAssumption, MergeAssumption DEF Shas, Branches, Jobs, Home

\* What a run starts from.
LEMMA ReservedIs ==
  ASSUME GitShape, NEW f \in Features
  PROVE  /\ Reserved(f) \in Shas
         /\ wt[f] => /\ branch[f] \in Shas
                     /\ ToSet(branch[f]) \subseteq ToSet(Reserved(f))
<1>1. CASE ~wt[f]
  BY <1>1 DEF Reserved, GitShape
<1>2. CASE wt[f]
  <2>1. branch[f] \in Shas /\ dev \in Shas
    BY <1>2, NoneIsApart DEF GitShape
  <2>2. Rebased(f) \in Shas /\ ToSet(branch[f]) \subseteq ToSet(Rebased(f))
    BY <2>1, RebasedIs
  <2> QED
    BY <1>2, <2>1, <2>2 DEF Reserved
<1> QED
  BY <1>1, <1>2

\* The types hold before the first run.
LEMMA TypeInit == Init => TInv
<1> SUFFICES ASSUME Init PROVE TInv
  OBVIOUS
<1> USE DEF Init
<1>0. <<>> \in Shas
  BY DEF Shas
<1>1. GitShape
  BY <1>0, NoneIsApart DEF GitShape
<1>2. RunShape
  BY MergeAssumption DEF RunShape, Lives, States, Redrains
<1>3. RevShape
  BY NoneIsApart DEF RevShape
<1>4. MerShape
  BY NoneIsApart DEF MerShape, Stages
<1> QED
  BY <1>1, <1>2, <1>3, <1>4 DEF TInv

\* A run that begins keeps the types: it reserves a worktree on dev and marks its tasks.
LEMMA BeginTyped ==
  ASSUME TInv, NEW f \in Features, NEW j \in Jobs, Home(j) = f, Begin(f, j),
         task' \in [Tasks -> Lives]
  PROVE  TInv'
<1> USE DEF TInv
<1>1. GitShape'
  <2>1. Reserved(f) \in Shas
    BY ReservedIs
  <2> QED
    BY <2>1, NoneIsApart DEF Begin, GitShape
<1>2. RunShape'
  <2>1. tries'[j] >= 1 /\ tries' \in [Jobs -> 0..MaxTries]
        /\ \A k \in Jobs : tries'[k] >= tries[k]
    BY MergeAssumption DEF Begin, RunShape
  <2>2. work' = [work EXCEPT ![f] = j] /\ feature' \in [Features -> States]
        /\ drain' = drain
    BY DEF Begin, RunShape, States
  <2> QED
    BY <2>1, <2>2 DEF RunShape
<1>3. RevShape'
  BY DEF Begin, revVars, RevShape
<1>4. MerShape'
  BY DEF Begin, merVars, MerShape
<1> QED
  BY <1>1, <1>2, <1>3, <1>4

\* Every step keeps the types.
LEMMA TypeKept == TInv /\ [Next]_vars => TInv'
<1> SUFFICES ASSUME TInv, [Next]_vars PROVE TInv'
  OBVIOUS
<1> USE NoneIsApart DEF TInv, gitVars, runVars, revVars, merVars
<1>a. UNCHANGED gitVars => GitShape'
  BY DEF GitShape
<1>b. UNCHANGED runVars => RunShape'
  BY DEF RunShape
<1>c. UNCHANGED <<revVars, cleared>> => RevShape'
  BY DEF RevShape
<1>d. UNCHANGED merVars => MerShape'
  BY DEF MerShape
<1>1. ASSUME NEW t \in Tasks, StartTask(t) PROVE TInv'
  <2>1. task' \in [Tasks -> Lives]
    BY <1>1 DEF StartTask, RunShape, Lives
  <2>2. t \in Jobs /\ Home(t) = FeatureOf[t] /\ FeatureOf[t] \in Features
    BY MergeAssumption DEF Jobs, Home
  <2> QED
    BY <1>1, <2>1, <2>2, BeginTyped DEF StartTask
<1>2. ASSUME NEW f \in Features, StartFix(f) PROVE TInv'
  <2>1. task' \in [Tasks -> Lives]
    BY <1>2 DEF StartFix, RunShape
  <2>2. f \in Jobs /\ Home(f) = f
    BY MergeAssumption DEF Jobs, Home
  <2> QED
    BY <1>2, <2>1, <2>2, BeginTyped DEF StartFix
<1>3. ASSUME NEW f \in Features, Commit(f) PROVE TInv'
  <2>1. work[f] \in Jobs /\ tries[work[f]] \in 1..MaxTries /\ branch[f] \in Shas
    BY <1>3, MergeAssumption DEF Commit, RunShape, GitShape
  <2>2. [of |-> work[f], try |-> tries[work[f]]] \in Commits
    BY <2>1 DEF Commits
  <2>3. Append(branch[f], [of |-> work[f], try |-> tries[work[f]]]) \in Shas
    BY <2>1, <2>2, AppendRef
  <2>4. GitShape'
    BY <1>3, <2>3 DEF Commit, GitShape
  <2>5. task' \in [Tasks -> Lives]
    BY <1>3 DEF Commit, RunShape, Lives
  <2>6. RunShape'
    BY <1>3, <2>5 DEF Commit, RunShape
  <2> QED
    BY <1>3, <1>c, <1>d, <2>4, <2>6 DEF Commit
<1>4. ASSUME NEW f \in Features, WorkFails(f) PROVE TInv'
  <2>1. task' \in [Tasks -> Lives]
    BY <1>4 DEF WorkFails, RunShape, Lives
  <2>2. RunShape'
    BY <1>4, <2>1 DEF WorkFails, RunShape
  <2> QED
    BY <1>4, <1>a, <1>c, <1>d, <2>2 DEF WorkFails
<1>5. ASSUME NEW f \in Features, ReviewStart(f) PROVE TInv'
  <2>1. RevShape'
    BY <1>5 DEF ReviewStart, RevShape, GitShape
  <2> QED
    BY <1>5, <1>a, <1>b, <1>d, <2>1 DEF ReviewStart
<1>6. ASSUME NEW f \in Features, ReviewFails(f) PROVE TInv'
  <2>1. RevShape'
    BY <1>6 DEF ReviewFails, RevShape
  <2> QED
    BY <1>6, <1>a, <1>b, <1>d, <2>1 DEF ReviewFails
<1>7. ASSUME NEW f \in Features, NEW red \in BOOLEAN, ReviewWrite(f, red)
      PROVE  TInv'
  <2>1. reviewing[f] \in Shas
    BY <1>7 DEF ReviewWrite, RevShape
  <2>2. [sha |-> reviewing[f], red |-> red] \in Reviews
        /\ ToSet(reviewing[f]) \subseteq Commits
    BY <2>1, RefSet DEF Reviews
  <2>3. RevShape'
    BY <1>7, <2>2 DEF ReviewWrite, RevShape
  <2> QED
    BY <1>7, <1>a, <1>b, <1>d, <2>3 DEF ReviewWrite
<1>8. ASSUME NEW f \in Features, RedrainRelease(f) PROVE TInv'
  <2>1. GitShape'
    BY <1>8 DEF RedrainRelease, GitShape
  <2>2. RunShape'
    BY <1>8 DEF RedrainRelease, RunShape, Redrains
  <2> QED
    BY <1>8, <1>c, <1>d, <2>1, <2>2 DEF RedrainRelease
<1>9. ASSUME NEW f \in Features, RedrainReset(f) PROVE TInv'
  <2>1. task' \in [Tasks -> Lives] /\ feature' \in [Features -> States]
        /\ drain' \in [Features -> Redrains]
    BY <1>9 DEF RedrainReset, RunShape, Lives, States, Redrains
  <2>2. RunShape'
    BY <1>9, <2>1 DEF RedrainReset, RunShape
  <2> QED
    BY <1>9, <1>a, <1>c, <1>d, <2>2 DEF RedrainReset
<1>10. ASSUME NEW m \in Mergers, NEW f \in Features, NEW over \in BOOLEAN,
              Evaluate(m, f, over)
       PROVE  TInv'
  <2>1. branch[f] \in Shas
    BY <1>10 DEF Evaluate, GitShape
  <2>2. MerShape'
    BY <1>10, <2>1 DEF Evaluate, MerShape, Stages
  <2>3. RevShape'
    BY <1>10, <2>1, RefSet DEF Evaluate, RevShape
  <2> QED
    BY <1>10, <1>a, <1>b, <2>2, <2>3 DEF Evaluate
<1>11. ASSUME NEW m \in Mergers, MergeSteps(m) PROVE TInv'
  <2>0. mpc[m] # "idle" => mof[m] \in Features /\ head[m] \in Shas
    BY DEF MerShape
  <2>1. ASSUME Align(m) PROVE TInv'
    <3>1. mof[m] \in Features /\ branch[mof[m]] \in Shas
      BY <2>0, <2>1 DEF Align, Step, GitShape
    <3>2. Rebased(mof[m]) \in Shas
      BY <3>1, RebasedIs DEF GitShape
    <3>3. GitShape'
      BY <2>1, <3>2 DEF Align, GitShape
    <3>4. MerShape'
      BY <2>1, <3>1, <3>2 DEF Align, Step, MerShape, Stages
    <3> QED
      BY <2>1, <1>b, <1>c, <3>3, <3>4 DEF Align
  <2>2. ASSUME NEW to \in Stages, NEW from \in Stages \ {"idle"}, Step(m, from, to),
               UNCHANGED <<mof, head, outcomes>>
        PROVE  MerShape'
    BY <2>0, <2>2 DEF Step, MerShape
  <2>3. ASSUME TestDev(m) \/ TestMain(m) PROVE TInv'
    BY <2>2, <2>3, <1>a, <1>b, <1>c DEF TestDev, TestMain, Stages
  <2>4. ASSUME MoveDev(m) PROVE TInv'
    <3>1. GitShape'
      BY <2>0, <2>4 DEF MoveDev, Step, GitShape
    <3> QED
      BY <2>2, <2>4, <1>b, <1>c, <3>1 DEF MoveDev, Stages
  <2>5. ASSUME MoveMain(m) PROVE TInv'
    <3>1. GitShape'
      BY <2>5 DEF MoveMain, GitShape
    <3> QED
      BY <2>2, <2>5, <1>b, <1>c, <3>1 DEF MoveMain, Stages
  <2>6. ASSUME Release(m) PROVE TInv'
    <3>1. GitShape'
      BY <2>6 DEF Release, GitShape
    <3> QED
      BY <2>2, <2>6, <1>b, <1>c, <3>1 DEF Release, Stages
  <2>7. ASSUME DeleteBranch(m) PROVE TInv'
    <3>1. GitShape'
      BY <2>7 DEF DeleteBranch, GitShape
    <3> QED
      BY <2>2, <2>7, <1>b, <1>c, <3>1 DEF DeleteBranch, Stages
  <2>8. ASSUME RecordMerge(m) PROVE TInv'
    <3>1. MerShape'
      BY <2>0, <2>8 DEF RecordMerge, Step, MerShape, Stages
    <3> QED
      BY <2>8, <1>a, <1>b, <1>c, <3>1 DEF RecordMerge
  <2>9. ASSUME Ended(m), outcomes' = outcomes PROVE MerShape'
    BY <2>9 DEF Ended, MerShape, Stages
  <2>10. ASSUME CloseTasks(m) PROVE TInv'
    <3>1. task' \in [Tasks -> Lives] /\ feature' \in [Features -> States]
      BY <2>10 DEF CloseTasks, RunShape, Lives, States
    <3>2. RunShape'
      BY <2>10, <3>1 DEF CloseTasks, RunShape
    <3> QED
      BY <2>9, <2>10, <1>a, <1>c, <3>2 DEF CloseTasks
  <2>11. ASSUME MergeRaises(m) PROVE TInv'
    BY <2>9, <2>11, <1>a, <1>b, <1>c DEF MergeRaises
  <2> QED
    BY <1>11, <2>1, <2>3, <2>4, <2>5, <2>6, <2>7, <2>8, <2>10, <2>11
    DEF MergeSteps
<1>12. ASSUME Crash PROVE TInv'
  <2>1. task' \in [Tasks -> Lives] /\ drain' \in [Features -> Redrains]
    BY <1>12 DEF Crash, RunShape, Lives, Redrains
  <2>2. RunShape'
    BY <1>12, <2>1 DEF Crash, RunShape
  <2>3. RevShape'
    BY <1>12 DEF Crash, RevShape
  <2>4. MerShape'
    BY <1>12 DEF Crash, MerShape, Stages
  <2> QED
    BY <1>12, <1>a, <2>2, <2>3, <2>4 DEF Crash
<1>13. ASSUME UNCHANGED vars PROVE TInv'
  BY <1>13, <1>a, <1>b, <1>c, <1>d DEF vars
<1> HIDE DEF TInv
<1> QED
  BY <1>1, <1>2, <1>3, <1>4, <1>5, <1>6, <1>7, <1>8, <1>9, <1>10, <1>11, <1>12,
     <1>13 DEF Next

(***************************************************************************)
(* Who moves what                                                          *)
(***************************************************************************)

\* A branch moves under a run, a commit, a realignment, or is deleted.
LEMMA BranchMoves ==
  ASSUME TInv, [Next]_vars, NEW f \in Features, branch'[f] # branch[f]
  PROVE  \/ \E j \in Jobs : Begin(f, j)
         \/ Commit(f)
         \/ \E m \in Mergers : Align(m) /\ mof[m] = f /\ branch'[f] = Rebased(f)
         \/ \E m \in Mergers : DeleteBranch(m) /\ mof[m] = f /\ branch'[f] = None
<1> DEFINE Goal == \/ \E j \in Jobs : Begin(f, j)
                   \/ Commit(f)
                   \/ \E m \in Mergers : /\ Align(m) /\ mof[m] = f
                                         /\ branch'[f] = Rebased(f)
                   \/ \E m \in Mergers : /\ DeleteBranch(m) /\ mof[m] = f
                                         /\ branch'[f] = None
<1>0. branch \in [Features -> Branches]
  BY DEF TInv, GitShape
<1>1. ASSUME NEW g \in Features, NEW j \in Jobs, Begin(g, j) PROVE Goal
  <2>1. g = f
    BY <1>0, <1>1 DEF Begin
  <2> QED
    BY <1>1, <2>1
<1>2. ASSUME NEW t \in Tasks, StartTask(t) PROVE Goal
  <2>1. t \in Jobs /\ FeatureOf[t] \in Features
    BY MergeAssumption DEF Jobs
  <2> QED
    BY <1>1, <1>2, <2>1 DEF StartTask
<1>3. ASSUME NEW g \in Features, StartFix(g) PROVE Goal
  <2>1. g \in Jobs
    BY DEF Jobs
  <2> QED
    BY <1>1, <1>3, <2>1 DEF StartFix
<1>4. ASSUME NEW g \in Features, Commit(g) PROVE Goal
  <2>1. g = f
    BY <1>0, <1>4 DEF Commit
  <2> QED
    BY <1>4, <2>1
<1>5. ASSUME NEW m \in Mergers, Align(m) PROVE Goal
  <2>1. mof[m] = f /\ branch'[f] = Rebased(f)
    BY <1>0, <1>5 DEF Align
  <2> QED
    BY <1>5, <2>1
<1>6. ASSUME NEW m \in Mergers, DeleteBranch(m) PROVE Goal
  <2>1. mof[m] = f /\ branch'[f] = None
    BY <1>0, <1>6 DEF DeleteBranch
  <2> QED
    BY <1>6, <2>1
<1>7. ASSUME branch' = branch PROVE FALSE
  BY <1>7
<1> HIDE DEF Goal
<1>8. Goal
  BY <1>2, <1>3, <1>4, <1>5, <1>6, <1>7 DEF Next, vars, gitVars, MergeSteps,
     WorkFails, ReviewStart, ReviewWrite, ReviewFails, Evaluate, TestDev,
     MoveDev, TestMain, MoveMain, Release, RecordMerge, CloseTasks, MergeRaises,
     RedrainRelease, RedrainReset, Crash
<1> QED
  BY <1>8 DEF Goal

\* A merge that is under way was allowed now, stands where it stood, or took
\* one step on its feature.
LEMMA StageMoves ==
  ASSUME TInv, [Next]_vars, NEW m \in Mergers, mpc'[m] # "idle"
  PROVE  \/ \E f \in Features, over \in BOOLEAN :
              Evaluate(m, f, over) /\ mpc'[m] = "allowed" /\ mof'[m] = f
         \/ /\ mpc[m] # "idle" /\ mof'[m] = mof[m]
            /\ mpc'[m] = mpc[m] \/ MergeSteps(m)
<1> DEFINE Goal == \/ \E f \in Features, over \in BOOLEAN :
                        /\ Evaluate(m, f, over) /\ mpc'[m] = "allowed"
                        /\ mof'[m] = f
                   \/ /\ mpc[m] # "idle" /\ mof'[m] = mof[m]
                      /\ mpc'[m] = mpc[m] \/ MergeSteps(m)
<1>0. mpc \in [Mergers -> Stages] /\ mof \in [Mergers -> Features \cup {None}]
  BY DEF TInv, MerShape
<1>1. ASSUME NEW n \in Mergers, NEW f \in Features, NEW over \in BOOLEAN,
             Evaluate(n, f, over)
      PROVE  Goal
  <2>1. CASE n = m
    <3>1. mpc'[m] = "allowed" /\ mof'[m] = f
      BY <1>0, <1>1, <2>1 DEF Evaluate
    <3> QED
      BY <1>1, <2>1, <3>1
  <2>2. CASE n # m
    BY <1>0, <1>1, <2>2 DEF Evaluate
  <2> QED
    BY <2>1, <2>2
<1>2. ASSUME NEW n \in Mergers, MergeSteps(n) PROVE Goal
  <2>1. ASSUME Ended(n) PROVE Goal
    BY <1>0, <2>1 DEF Ended
  <2>2. ASSUME mof' = mof, NEW from \in Stages \ {"idle"}, NEW to, Step(n, from, to)
        PROVE  Goal
    BY <1>0, <1>2, <2>2 DEF Step
  <2> QED
    BY <1>2, <2>1, <2>2 DEF MergeSteps, Align, TestDev, MoveDev, TestMain,
       MoveMain, Release, DeleteBranch, RecordMerge, CloseTasks, MergeRaises,
       Stages
<1>3. ASSUME Crash PROVE FALSE
  BY <1>3 DEF Crash
<1>4. ASSUME UNCHANGED merVars PROVE Goal
  BY <1>4 DEF merVars
<1> HIDE DEF Goal
<1>5. Goal
  BY <1>1, <1>2, <1>3, <1>4 DEF Next, vars, StartTask, StartFix, Begin, Commit,
     WorkFails, ReviewStart, ReviewWrite, ReviewFails, RedrainRelease,
     RedrainReset
<1> QED
  BY <1>5 DEF Goal

\* Only the first fast-forward moves dev.
LEMMA DevMoves ==
  ASSUME [Next]_vars
  PROVE  dev' = dev \/ \E m \in Mergers : MoveDev(m)
BY ZenonT(60) DEF Next, vars, gitVars, StartTask, StartFix, Begin, Commit, WorkFails,
   ReviewStart, ReviewWrite, ReviewFails, Evaluate, MergeSteps, Align, TestDev,
   TestMain, MoveMain, Release, DeleteBranch, RecordMerge, CloseTasks,
   MergeRaises, RedrainRelease, RedrainReset, Crash

\* What was cleared stays cleared; only reviews and overrides clear.
LEMMA ClearedGrows ==
  ASSUME [Next]_vars PROVE cleared \subseteq cleared'
BY ZenonT(60) DEF Next, vars, StartTask, StartFix, Begin, Commit, WorkFails, ReviewStart,
   ReviewWrite, ReviewFails, Evaluate, MergeSteps, Align, TestDev, MoveDev,
   TestMain, MoveMain, Release, DeleteBranch, RecordMerge, CloseTasks,
   MergeRaises, RedrainRelease, RedrainReset, Crash

\* A feature gets work from a run that begins there.
LEMMA WorkMoves ==
  ASSUME TInv, [Next]_vars, NEW f \in Features, work'[f] # None
  PROVE  work'[f] = work[f] \/ \E j \in Jobs : Begin(f, j) /\ work'[f] = j
<1> DEFINE Goal == work'[f] = work[f] \/ \E j \in Jobs : Begin(f, j) /\ work'[f] = j
<1>0. work \in [Features -> Jobs \cup {None}]
  BY DEF TInv, RunShape
<1>1. ASSUME NEW g \in Features, NEW j \in Jobs, Begin(g, j) PROVE Goal
  <2>1. CASE g = f
    BY <1>0, <1>1, <2>1 DEF Begin
  <2>2. CASE g # f
    BY <1>0, <1>1, <2>2 DEF Begin
  <2> QED
    BY <2>1, <2>2
<1>2. ASSUME NEW t \in Tasks, StartTask(t) PROVE Goal
  <2>1. t \in Jobs /\ FeatureOf[t] \in Features
    BY MergeAssumption DEF Jobs
  <2> QED
    BY <1>1, <1>2, <2>1 DEF StartTask
<1>3. ASSUME NEW g \in Features, StartFix(g) PROVE Goal
  <2>1. g \in Jobs
    BY DEF Jobs
  <2> QED
    BY <1>1, <1>3, <2>1 DEF StartFix
<1>4. ASSUME NEW g \in Features, Commit(g) \/ WorkFails(g) PROVE Goal
  BY <1>0, <1>4 DEF Commit, WorkFails
<1>5. ASSUME Crash PROVE FALSE
  BY <1>5 DEF Crash
<1>6. ASSUME work' = work PROVE Goal
  BY <1>6
<1> HIDE DEF Goal
<1>7. Goal
  BY <1>2, <1>3, <1>4, <1>5, <1>6 DEF Next, vars, runVars, ReviewStart,
     ReviewWrite, ReviewFails, Evaluate, MergeSteps, Align, TestDev, MoveDev,
     TestMain, MoveMain, Release, DeleteBranch, RecordMerge, CloseTasks,
     MergeRaises, RedrainRelease, RedrainReset
<1> QED
  BY <1>7 DEF Goal

(***************************************************************************)
(* What lands was cleared                                                  *)
(***************************************************************************)

\* Nobody works on a feature that is being merged.
Quiet ==
  \A m \in Mergers : mpc[m] # "idle" => work[mof[m]] = None

\* A green verdict covers its head, and so does what allowed a merge until dev
\* moves.
VerdictCovers ==
  \A f \in Features :
    (verdict[f] # None /\ ~verdict[f].red) => ToSet(verdict[f].sha) \subseteq cleared

MergeCovers ==
  \A m \in Mergers :
    (mpc[m] \in {"allowed", "aligned", "ffdev"} /\ branch[mof[m]] # None) =>
      ToSet(branch[mof[m]]) \subseteq cleared

LInv == TInv /\ Quiet /\ VerdictCovers /\ MergeCovers /\ LandedIsCleared

\* While a merge runs, no run is under way on its feature: neither starts beside the other.
LEMMA QuietKept ==
  ASSUME Overlap = FALSE, TInv, Quiet, [Next]_vars PROVE Quiet'
<1> SUFFICES ASSUME NEW m \in Mergers, mpc'[m] # "idle", work'[mof'[m]] # None
             PROVE  FALSE
  BY DEF Quiet
<1>1. mof'[m] \in Features
  <2>1. MerShape'
    BY TypeKept DEF TInv
  <2> QED
    BY <2>1 DEF MerShape
<1>2. work'[mof'[m]] = work[mof'[m]] \/ \E j \in Jobs : Begin(mof'[m], j)
  BY <1>1, WorkMoves
<1>3. CASE mpc[m] # "idle" /\ mof'[m] = mof[m]
  <2>1. work[mof[m]] = None /\ Merging(mof[m])
    BY <1>3 DEF Quiet, Merging
  <2> QED
    BY <1>2, <1>3, <2>1 DEF Begin
<1>4. ASSUME NEW f \in Features, NEW over \in BOOLEAN, Evaluate(m, f, over),
             mof'[m] = f
      PROVE  FALSE
  <2>1. work[f] = None /\ work' = work
    BY <1>4 DEF Evaluate, runVars
  <2> QED
    BY <1>4, <2>1
<1> QED
  BY <1>3, <1>4, StageMoves

\* What allows a merge: no code ahead of dev, a green review of this head, or a
\* red one that was overridden now.
LEMMA AllowedIsCovered ==
  ASSUME TInv, VerdictCovers, LandedIsCleared, NEW m \in Mergers,
         NEW f \in Features, NEW over \in BOOLEAN, Evaluate(m, f, over)
  PROVE  ToSet(branch[f]) \subseteq cleared'
<1> DEFINE i == Gate(f, TRUE, over)
<1>1. /\ branch[f] # None /\ Allow(i)
      /\ cleared' = IF T1Overridden(i) THEN cleared \cup ToSet(branch[f])
                    ELSE cleared
  BY DEF Evaluate
<1>2. "t1missing" \notin Blockers(i) /\ "t1red" \notin Blockers(i)
  BY <1>1 DEF Allow, GateGreen
<1>3. ~ReviewMissing(i) /\ (ReviewRed(i) => T1Overridden(i))
  BY <1>2 DEF Blockers
<1>4. CASE Own(f) = {}
  <2>1. ToSet(branch[f]) \subseteq ToSet(dev)
    BY <1>1, <1>4 DEF Own
  <2> QED
    BY <1>1, <2>1 DEF LandedIsCleared
<1>5. CASE Own(f) # {} /\ ~T1Overridden(i)
  <2>1. i.code /\ i.t1 = "fresh" /\ ~i.red1
    BY <1>3, <1>5 DEF ReviewMissing, ReviewRed, Gate
  <2>2. Fresh(f) /\ verdict[f] # None /\ ~verdict[f].red
    BY <2>1 DEF Gate
  <2> QED
    BY <1>1, <2>2 DEF Fresh, VerdictCovers
<1>6. CASE T1Overridden(i)
  BY <1>1, <1>6
<1> QED
  BY <1>4, <1>5, <1>6

\* What a green verdict covers stays cleared.
LEMMA VerdictKept ==
  ASSUME TInv, VerdictCovers, [Next]_vars PROVE VerdictCovers'
<1>0. cleared \subseteq cleared'
  BY ClearedGrows
<1>1. ASSUME NEW f \in Features, NEW red \in BOOLEAN, ReviewWrite(f, red)
      PROVE  VerdictCovers'
  BY <1>0, <1>1 DEF ReviewWrite, VerdictCovers, TInv, RevShape
<1>2. ASSUME verdict' = verdict PROVE VerdictCovers'
  BY <1>0, <1>2 DEF VerdictCovers
<1> QED
  BY <1>1, <1>2 DEF Next, vars, revVars, StartTask, StartFix, Begin, Commit,
     WorkFails, ReviewStart, ReviewFails, Evaluate, MergeSteps, Align, TestDev,
     MoveDev, TestMain, MoveMain, Release, DeleteBranch, RecordMerge,
     CloseTasks, MergeRaises, RedrainRelease, RedrainReset, Crash

\* What a merge is about to put on dev is cleared, and so is what is there.
LEMMA CoverKept ==
  ASSUME Overlap = FALSE, LInv, [Next]_vars PROVE MergeCovers' /\ LandedIsCleared'
<1>0. cleared \subseteq cleared' /\ TInv /\ TInv'
  BY ClearedGrows, TypeKept DEF LInv
<1>1. LandedIsCleared'
  <2>1. ASSUME NEW m \in Mergers, MoveDev(m) PROVE ToSet(dev') \subseteq cleared
    BY <2>1 DEF MoveDev, Step, LInv, MergeCovers
  <2>2. CASE dev' = dev
    BY <1>0, <2>2 DEF LInv, LandedIsCleared
  <2> QED
    BY <1>0, <2>1, <2>2, DevMoves DEF LandedIsCleared
<1>2. MergeCovers'
  <2> SUFFICES ASSUME NEW m \in Mergers,
                      mpc'[m] \in {"allowed", "aligned", "ffdev"},
                      branch'[mof'[m]] # None
               PROVE  ToSet(branch'[mof'[m]]) \subseteq cleared'
    BY DEF MergeCovers
  <2>1. ASSUME NEW f \in Features, NEW over \in BOOLEAN, Evaluate(m, f, over),
               mof'[m] = f
        PROVE  ToSet(branch'[mof'[m]]) \subseteq cleared'
    <3>1. branch' = branch
      BY <2>1 DEF Evaluate, gitVars
    <3> QED
      BY <1>0, <2>1, <3>1, AllowedIsCovered DEF LInv
  <2>2. ASSUME mpc[m] # "idle", mof'[m] = mof[m], mpc'[m] = mpc[m] \/ MergeSteps(m)
        PROVE  ToSet(branch'[mof'[m]]) \subseteq cleared'
    <3> DEFINE f == mof[m]
    <3>1. f \in Features
      BY <1>0, <2>2 DEF TInv, MerShape
    <3>2. mpc[m] \in {"allowed", "aligned", "ffdev"}
      <4>1. CASE MergeSteps(m)
        BY <1>0, <4>1 DEF TInv, MerShape, MergeSteps, Align, TestDev, MoveDev,
           TestMain, MoveMain, Release, DeleteBranch, RecordMerge, CloseTasks,
           MergeRaises, Step, Ended
      <4> QED
        BY <2>2, <4>1
    <3>3. CASE branch'[f] = branch[f]
      BY <1>0, <2>2, <3>2, <3>3 DEF LInv, MergeCovers
    <3>4. CASE branch'[f] = Rebased(f) /\ branch[f] # None
      <4>1. branch[f] \in Shas /\ dev \in Shas
        BY <1>0, <3>1, <3>4, NoneIsApart DEF TInv, GitShape
      <4>2. ToSet(branch'[f]) = ToSet(dev) \cup ToSet(branch[f])
        BY <3>4, <4>1, RebasedIs
      <4> QED
        BY <1>0, <2>2, <3>2, <3>4, <4>2 DEF LInv, MergeCovers, LandedIsCleared
    <3>5. \A j \in Jobs : ~Begin(f, j)
      BY <2>2 DEF Begin, Merging
    <3>6. ~Commit(f)
      BY <2>2 DEF Commit, LInv, Quiet
    <3>7. ASSUME NEW n \in Mergers, Align(n), mof[n] = f PROVE branch[f] # None
      BY <3>7 DEF Align
    <3> QED
      BY <1>0, <2>2, <3>1, <3>3, <3>4, <3>5, <3>6, <3>7, BranchMoves
  <2>3. mpc'[m] # "idle"
    OBVIOUS
  <2> QED
    BY <1>0, <2>1, <2>2, <2>3, StageMoves
<1> QED
  BY <1>1, <1>2

\* Nothing is cleared, landed or under way at first.
LEMMA LInvInit == Init => LInv
<1> SUFFICES ASSUME Init PROVE LInv
  OBVIOUS
<1>1. Quiet /\ VerdictCovers /\ MergeCovers
  BY DEF Init, Quiet, VerdictCovers, MergeCovers
<1>2. LandedIsCleared
  BY DEF Init, LandedIsCleared, ToSet
<1> QED
  BY <1>1, <1>2, TypeInit DEF LInv

\* One step keeps the invariant, when what the theorem says does not overlap.
LEMMA LInvKept == ASSUME Overlap = FALSE, LInv, [Next]_vars PROVE LInv'
BY TypeKept, QuietKept, VerdictKept, CoverKept DEF LInv

\* Every commit that reaches dev was in the head of a green review, or of a red
\* one a human overrode, when runs, merges and redrains of a feature do not
\* overlap; merges of different features may.
THEOREM LandedIsClearedHolds ==
  ASSUME Overlap = FALSE PROVE Spec => []LandedIsCleared
<1>1. LInv => LandedIsCleared
  BY DEF LInv
<1> QED
  BY <1>1, LInvInit, LInvKept, PTL DEF Spec

(***************************************************************************)
(* No work is dropped                                                      *)
(***************************************************************************)

OneMerger == \A m, n \in Mergers : m = n

\* The branch is the head that run_merge holds, until it deletes it.
HeadStays ==
  \A m \in Mergers :
    mpc[m] \in {"allowed", "aligned", "ffdev", "landed", "ffmain", "promoted",
                "released"} => branch[mof[m]] = head[m]

\* How far the head has landed.
Landing ==
  \A m \in Mergers :
    /\ mpc[m] = "ffdev" => IsPrefix(dev, head[m])
    /\ mpc[m] \in {"landed", "ffmain", "promoted", "released", "deleted",
                   "recorded"} => dev = head[m]
    /\ mpc[m] \in {"promoted", "released", "deleted", "recorded"} => main = dev

HInv == TInv /\ Quiet /\ HeadStays /\ Landing /\ MainFollowsDev

\* Only run_merge moves the two long-lived branches and writes the journal.
LEMMA RefMoves ==
  ASSUME [Next]_vars, \A m \in Mergers : ~MergeSteps(m)
  PROVE  UNCHANGED <<dev, main, outcomes>>
BY ZenonT(60) DEF Next, vars, gitVars, merVars, StartTask, StartFix, Begin, Commit,
   WorkFails, ReviewStart, ReviewWrite, ReviewFails, Evaluate, RedrainRelease,
   RedrainReset, Crash

\* The head it holds changes under nobody else's hands.
LEMMA HeadMoves ==
  ASSUME TInv, [Next]_vars, NEW m \in Mergers, \A n \in Mergers : ~MergeSteps(n),
         mpc[m] # "idle", mpc'[m] # "idle"
  PROVE  head'[m] = head[m]
<1>0. head \in [Mergers -> Branches] /\ mpc \in [Mergers -> Stages]
  BY DEF TInv, MerShape
<1>1. ASSUME NEW n \in Mergers, NEW f \in Features, NEW over \in BOOLEAN,
             Evaluate(n, f, over)
      PROVE  head'[m] = head[m]
  BY <1>0, <1>1 DEF Evaluate
<1>2. ASSUME Crash PROVE FALSE
  BY <1>2 DEF Crash
<1> QED
  BY <1>1, <1>2 DEF Next, vars, merVars, StartTask, StartFix, Begin, Commit,
     WorkFails, ReviewStart, ReviewWrite, ReviewFails, RedrainRelease,
     RedrainReset

\* Nobody moves the branch of a feature that is being merged, but run_merge.
LEMMA BranchHeld ==
  ASSUME Overlap = FALSE, TInv, Quiet, [Next]_vars, NEW m \in Mergers,
         mpc[m] # "idle", \A n \in Mergers : ~MergeSteps(n)
  PROVE  branch'[mof[m]] = branch[mof[m]]
<1>1. mof[m] \in Features /\ work[mof[m]] = None /\ Merging(mof[m])
  BY DEF TInv, MerShape, Quiet, Merging
<1>2. \A j \in Jobs : ~Begin(mof[m], j)
  BY <1>1 DEF Begin
<1>3. ~Commit(mof[m])
  BY <1>1 DEF Commit
<1>4. \A n \in Mergers : ~Align(n) /\ ~DeleteBranch(n)
  BY DEF MergeSteps
<1> QED
  BY <1>1, <1>2, <1>3, <1>4, BranchMoves

\* One step of run_merge keeps what it knows, and only moves dev and main on.
LEMMA MergeStepKeeps ==
  ASSUME OneMerger, HInv, NEW m \in Mergers, MergeSteps(m)
  PROVE  HeadStays' /\ Landing' /\ MainFollowsDev' /\ IsPrefix(dev, dev')
<1>0. /\ mpc \in [Mergers -> Stages] /\ mof \in [Mergers -> Features \cup {None}]
      /\ head \in [Mergers -> Branches] /\ branch \in [Features -> Branches]
      /\ dev \in Shas /\ main \in Shas /\ outcomes \subseteq Features \X Shas
      /\ mpc[m] # "idle" => mof[m] \in Features /\ head[m] \in Shas
      /\ \A n \in Mergers : n = m
  BY DEF HInv, TInv, GitShape, MerShape, OneMerger
<1>1. IsPrefix(main, dev) /\ \A o \in outcomes : o[2] \in Shas /\ IsPrefix(o[2], dev)
  BY <1>0 DEF HInv, MainFollowsDev
<1>2. /\ mpc[m] \in {"allowed", "aligned", "ffdev", "landed", "ffmain",
                     "promoted", "released"} => branch[mof[m]] = head[m]
      /\ mpc[m] = "ffdev" => IsPrefix(dev, head[m])
      /\ mpc[m] \in {"landed", "ffmain", "promoted", "released", "deleted",
                     "recorded"} => dev = head[m]
      /\ mpc[m] \in {"promoted", "released", "deleted", "recorded"} => main = dev
  BY DEF HInv, HeadStays, Landing
<1>3. IsPrefix(dev, dev) /\ IsPrefix(main, main)
  BY <1>0, PrefixRefl
<1> DEFINE Goal == HeadStays' /\ Landing' /\ MainFollowsDev' /\ IsPrefix(dev, dev')
<1>4. ASSUME UNCHANGED <<dev, main, outcomes>>,
             mpc'[m] \notin {"allowed", "aligned", "ffdev", "landed", "ffmain",
                             "promoted", "released", "deleted", "recorded"}
      PROVE  Goal
  BY <1>0, <1>1, <1>3, <1>4 DEF HeadStays, Landing, MainFollowsDev
<1>5. ASSUME Align(m) PROVE Goal
  <2>1. mpc[m] = "allowed" /\ mpc'[m] = "aligned" /\ mof' = mof
        /\ UNCHANGED <<dev, main, outcomes>>
    BY <1>0, <1>5 DEF Align, Step
  <2>2. branch'[mof[m]] = head'[m]
    BY <1>0, <1>2, <1>5, <2>1 DEF Align
  <2> QED
    BY <1>0, <1>1, <1>3, <2>1, <2>2 DEF HeadStays, Landing, MainFollowsDev
<1>6. ASSUME TestDev(m) PROVE Goal
  <2>1. mpc[m] = "aligned" /\ mpc'[m] = "ffdev" /\ UNCHANGED <<mof, head, branch>>
        /\ UNCHANGED <<dev, main, outcomes>> /\ OnDev(mof[m])
    BY <1>0, <1>6 DEF TestDev, Step, gitVars
  <2>2. IsPrefix(dev, head[m])
    BY <1>2, <2>1 DEF OnDev, IsAncestor
  <2> QED
    BY <1>0, <1>1, <1>2, <1>3, <2>1, <2>2 DEF HeadStays, Landing, MainFollowsDev
<1>7. ASSUME MoveDev(m) PROVE Goal
  <2>1. mpc[m] = "ffdev" /\ mpc'[m] = "landed" /\ UNCHANGED <<mof, head, branch>>
        /\ UNCHANGED <<main, outcomes>> /\ dev' = head[m]
    BY <1>0, <1>2, <1>7 DEF MoveDev, Step
  <2>2. IsPrefix(dev, head[m]) /\ head[m] \in Shas
    BY <1>0, <1>2, <2>1
  <2>3. IsPrefix(main, head[m]) /\ \A o \in outcomes : IsPrefix(o[2], head[m])
    BY <1>0, <1>1, <2>2, PrefixTrans
  <2> QED
    BY <1>0, <1>2, <2>1, <2>2, <2>3 DEF HeadStays, Landing, MainFollowsDev
<1>8. ASSUME TestMain(m) PROVE Goal
  <2>1. mpc[m] = "landed" /\ mpc'[m] = "ffmain" /\ UNCHANGED <<mof, head, branch>>
        /\ UNCHANGED <<dev, main, outcomes>>
    BY <1>0, <1>8 DEF TestMain, Step, gitVars
  <2> QED
    BY <1>0, <1>1, <1>2, <1>3, <2>1 DEF HeadStays, Landing, MainFollowsDev
<1>9. ASSUME MoveMain(m) PROVE Goal
  <2>1. mpc[m] = "ffmain" /\ mpc'[m] = "promoted" /\ UNCHANGED <<mof, head, branch>>
        /\ UNCHANGED <<dev, outcomes>> /\ main' = dev
    BY <1>0, <1>9 DEF MoveMain, Step
  <2> QED
    BY <1>0, <1>1, <1>2, <1>3, <2>1 DEF HeadStays, Landing, MainFollowsDev
<1>10. ASSUME Release(m) PROVE Goal
  <2>1. mpc[m] = "promoted" /\ mpc'[m] = "released" /\ UNCHANGED <<mof, head, branch>>
        /\ UNCHANGED <<dev, main, outcomes>>
    BY <1>0, <1>10 DEF Release, Step
  <2> QED
    BY <1>0, <1>1, <1>2, <1>3, <2>1 DEF HeadStays, Landing, MainFollowsDev
<1>11. ASSUME DeleteBranch(m) PROVE Goal
  <2>1. mpc[m] = "released" /\ mpc'[m] = "deleted" /\ UNCHANGED <<mof, head>>
        /\ UNCHANGED <<dev, main, outcomes>>
    BY <1>0, <1>11 DEF DeleteBranch, Step
  <2> QED
    BY <1>0, <1>1, <1>2, <1>3, <2>1 DEF HeadStays, Landing, MainFollowsDev
<1>12. ASSUME RecordMerge(m) PROVE Goal
  <2>1. mpc[m] = "deleted" /\ mpc'[m] = "recorded" /\ UNCHANGED <<mof, head>>
        /\ UNCHANGED <<dev, main>> /\ outcomes' = outcomes \cup {<<mof[m], head[m]>>}
    BY <1>0, <1>12 DEF RecordMerge, Step, gitVars
  <2>2. \A o \in outcomes' : IsPrefix(o[2], dev)
    BY <1>1, <1>2, <1>3, <2>1
  <2> QED
    BY <1>0, <1>1, <1>2, <1>3, <2>1, <2>2 DEF HeadStays, Landing, MainFollowsDev
<1>13. ASSUME CloseTasks(m) \/ MergeRaises(m) PROVE Goal
  <2>1. mpc'[m] = "idle" /\ UNCHANGED <<dev, main, outcomes>>
    BY <1>0, <1>13 DEF CloseTasks, MergeRaises, Ended, gitVars
  <2> QED
    BY <1>4, <2>1
<1> HIDE DEF Goal
<1>14. Goal
  BY <1>5, <1>6, <1>7, <1>8, <1>9, <1>10, <1>11, <1>12, <1>13 DEF MergeSteps
<1> QED
  BY <1>14 DEF Goal

\* With one merger, every step keeps the order of the references, and dev only grows.
LEMMA HInvKept ==
  ASSUME Overlap = FALSE, OneMerger, HInv, [Next]_vars
  PROVE  HInv' /\ IsPrefix(dev, dev')
<1>1. TInv' /\ Quiet'
  BY TypeKept, QuietKept DEF HInv
<1>2. CASE \E m \in Mergers : MergeSteps(m)
  BY <1>1, <1>2, MergeStepKeeps DEF HInv
<1>3. CASE \A m \in Mergers : ~MergeSteps(m)
  <2>1. UNCHANGED <<dev, main, outcomes>>
    BY <1>3, RefMoves
  <2>2. MainFollowsDev' /\ IsPrefix(dev, dev')
    BY <2>1, PrefixRefl DEF HInv, TInv, GitShape, MainFollowsDev
  <2>3. ASSUME NEW m \in Mergers, mpc'[m] # "idle"
        PROVE  \/ mpc'[m] = "allowed" /\ branch'[mof'[m]] = head'[m]
               \/ /\ mpc'[m] = mpc[m] /\ mof'[m] = mof[m] /\ head'[m] = head[m]
                  /\ branch'[mof[m]] = branch[mof[m]]
    <3>1. ASSUME NEW f \in Features, NEW over \in BOOLEAN, Evaluate(m, f, over),
                 mpc'[m] = "allowed", mof'[m] = f
          PROVE  branch'[mof'[m]] = head'[m]
      BY <3>1 DEF Evaluate, gitVars, HInv, TInv, MerShape
    <3>2. ASSUME mpc[m] # "idle" PROVE head'[m] = head[m] /\ branch'[mof[m]] = branch[mof[m]]
      BY <1>3, <2>3, <3>2, HeadMoves, BranchHeld DEF HInv
    <3> QED
      BY <1>3, <2>3, <3>1, <3>2, StageMoves DEF HInv
  <2>4. HeadStays'
    BY <2>3 DEF HInv, HeadStays
  <2>5. Landing'
    BY <2>1, <2>3 DEF HInv, Landing
  <2> QED
    BY <1>1, <2>2, <2>4, <2>5 DEF HInv
<1> QED
  BY <1>2, <1>3

\* That order holds at first.
LEMMA HInvInit == Init => HInv
<1> SUFFICES ASSUME Init PROVE HInv
  OBVIOUS
<1>1. Quiet /\ HeadStays /\ Landing
  BY DEF Init, Quiet, HeadStays, Landing
<1>2. <<>> \in Shas
  BY DEF Shas
<1>3. MainFollowsDev
  BY <1>2, PrefixRefl DEF Init, MainFollowsDev
<1> QED
  BY <1>1, <1>3, TypeInit DEF HInv

\* The invariant gives the types the runs check.
LEMMA TypeHolds == TInv => TypeOK
BY DEF TInv, GitShape, RunShape, RevShape, MerShape, TypeOK, Branches, Shas,
   Lives, States, Redrains

\* What a merge landed no later merge drops, a branch is only deleted once main
\* holds all its commits, and main follows dev: when runs, merges and redrains
\* of a feature do not overlap and one merge at a time is going on.
THEOREM HistoryIsKeptHolds ==
  ASSUME Overlap = FALSE, OneMerger PROVE Spec => HistoryIsKept
<1>1. HInv /\ [Next]_vars => HInv' /\ IsPrefix(dev, dev')
  BY HInvKept
<1>2. ASSUME HInv, [Next]_vars, NEW f \in Features, branch[f] # None, branch'[f] = None
      PROVE  ToSet(branch[f]) \subseteq ToSet(main)
  <2>1. TInv /\ TInv' /\ dev \in Shas
    BY <1>2, TypeKept DEF HInv, TInv, GitShape
  <2>2. ASSUME NEW m \in Mergers, DeleteBranch(m), mof[m] = f
        PROVE  ToSet(branch[f]) \subseteq ToSet(main)
    BY <1>2, <2>2 DEF DeleteBranch, Step, HInv, HeadStays, Landing
  <2>3. ASSUME NEW j \in Jobs, Begin(f, j) PROVE FALSE
    <3>1. branch'[f] = Reserved(f) /\ Reserved(f) \in Shas
      BY <2>1, <2>3, ReservedIs DEF Begin, TInv, GitShape
    <3> QED
      BY <1>2, <3>1, NoneIsApart
  <2>4. ASSUME Commit(f) PROVE FALSE
    <3>1. work[f] \in Jobs /\ tries[work[f]] \in 1..MaxTries /\ branch[f] \in Shas
      BY <2>1, <2>4, MergeAssumption, NoneIsApart DEF Commit, TInv, RunShape, GitShape
    <3>2. [of |-> work[f], try |-> tries[work[f]]] \in Commits
      BY <3>1 DEF Commits
    <3>3. branch'[f] = Append(branch[f], [of |-> work[f], try |-> tries[work[f]]])
      BY <2>1, <2>4 DEF Commit, TInv, GitShape
    <3> QED
      BY <1>2, <3>1, <3>2, <3>3, AppendRef, NoneIsApart
  <2>5. ASSUME NEW m \in Mergers, branch'[f] = Rebased(f) PROVE FALSE
    <3>1. branch[f] \in Shas
      BY <1>2, <2>1, NoneIsApart DEF TInv, GitShape
    <3> QED
      BY <1>2, <2>1, <2>5, <3>1, RebasedIs, NoneIsApart
  <2> QED
    BY <1>2, <2>1, <2>2, <2>3, <2>4, <2>5, BranchMoves
<1>3. HInv => TypeOK /\ MainFollowsDev
  BY TypeHolds DEF HInv
<1>4. HInv' => TypeOK' /\ MainFollowsDev'
  BY <1>3, PTL
<1>5. HInv /\ [Next]_vars =>
        /\ TypeOK' /\ MainFollowsDev' /\ IsPrefix(dev, dev')
        /\ \A f \in Features :
             branch[f] # None /\ branch'[f] = None => ToSet(branch[f]) \subseteq ToSet(main)
  BY <1>1, <1>2, <1>4
<1>6. HInv /\ [Next]_vars => HInv'
  BY <1>1
<1> QED
  BY <1>5, <1>6, HInvInit, PTL DEF Spec, HistoryIsKept

(***************************************************************************)
(* The work of a done task                                                 *)
(***************************************************************************)

\* A task in progress is what a run of its feature works on.
DoingIsWorked ==
  \A t \in Tasks : task[t] = "in_progress" => work[FeatureOf[t]] = t

\* What a run committed is on dev, or on a branch that has its worktree: a
\* missing worktree has the next run start from dev.
WorkIsSafe ==
  \A t \in Tasks : task[t] = "done" /\ drain[FeatureOf[t]] = "none" =>
    \/ \E c \in ToSet(dev) : c.of = t
    \/ wt[FeatureOf[t]] /\ \E c \in ToSet(branch[FeatureOf[t]]) : c.of = t

WInv == HInv /\ DoingIsWorked /\ WorkIsSafe

\* A task in progress always has the run of its feature.
LEMMA DoingKept == ASSUME TInv, DoingIsWorked, [Next]_vars PROVE DoingIsWorked'
<1>0. /\ task \in [Tasks -> Lives] /\ work \in [Features -> Jobs \cup {None}]
      /\ \A t \in Tasks : FeatureOf[t] \in Features
      /\ \A f \in Features : work[f] # None => Home(work[f]) = f
  BY MergeAssumption DEF TInv, RunShape
<1> USE <1>0 DEF DoingIsWorked
<1>1. ASSUME NEW t \in Tasks, StartTask(t) PROVE DoingIsWorked'
  <2>1. task' = [task EXCEPT ![t] = "in_progress"] /\ work[FeatureOf[t]] = None
        /\ work' = [work EXCEPT ![FeatureOf[t]] = t]
    BY <1>1 DEF StartTask, Begin
  <2>2. \A u \in Tasks : u # None
    BY MergeAssumption
  <2> QED
    BY <2>1, <2>2
<1>2. ASSUME NEW f \in Features, StartFix(f) PROVE DoingIsWorked'
  <2>1. task' = task /\ work[f] = None /\ work' = [work EXCEPT ![f] = f]
    BY <1>2 DEF StartFix, Begin
  <2>2. \A u \in Tasks : u # None
    BY MergeAssumption
  <2> QED
    BY <2>1, <2>2
<1>3. ASSUME NEW f \in Features, Commit(f) \/ WorkFails(f) PROVE DoingIsWorked'
  <2>1. work' = [work EXCEPT ![f] = None] /\ work[f] # None
    BY <1>3 DEF Commit, WorkFails
  <2>2. \A t \in Tasks : task'[t] = "in_progress" => task[t] = "in_progress" /\ t # work[f]
    BY <1>3 DEF Commit, WorkFails
  <2> QED
    BY <2>1, <2>2
<1>4. ASSUME NEW f \in Features, RedrainReset(f) PROVE DoingIsWorked'
  BY <1>4 DEF RedrainReset
<1>5. ASSUME NEW m \in Mergers, CloseTasks(m) PROVE DoingIsWorked'
  BY <1>5 DEF CloseTasks
<1>6. ASSUME Crash PROVE DoingIsWorked'
  BY <1>6 DEF Crash
<1>7. ASSUME UNCHANGED <<task, work>> PROVE DoingIsWorked'
  BY <1>7
<1> HIDE DEF DoingIsWorked
<1> QED
  BY <1>1, <1>2, <1>3, <1>4, <1>5, <1>6, <1>7 DEF Next, vars, runVars,
     ReviewStart, ReviewWrite, ReviewFails, Evaluate, MergeSteps, Align,
     TestDev, MoveDev, TestMain, MoveMain, Release, DeleteBranch, RecordMerge,
     MergeRaises, RedrainRelease

\* A task gets done by its commit; whatever a merge closes had none in progress.
LEMMA DoneMoves ==
  ASSUME TInv, Quiet, DoingIsWorked, [Next]_vars, NEW t \in Tasks,
         task[t] # "done", task'[t] = "done"
  PROVE  Commit(FeatureOf[t]) /\ work[FeatureOf[t]] = t
<1>0. /\ task \in [Tasks -> Lives] /\ FeatureOf[t] \in Features
      /\ \A f \in Features : work[f] # None => Home(work[f]) = f
      /\ t # None
  BY MergeAssumption DEF TInv, RunShape
<1>1. ASSUME NEW f \in Features, Commit(f)
      PROVE  Commit(FeatureOf[t]) /\ work[FeatureOf[t]] = t
  <2>1. work[f] = t /\ work[f] # None
    BY <1>0, <1>1 DEF Commit
  <2>2. FeatureOf[t] = f
    BY <1>0, <2>1 DEF Home
  <2> QED
    BY <1>1, <2>1, <2>2
<1>2. ASSUME NEW m \in Mergers, CloseTasks(m) PROVE FALSE
  <2>1. task[t] = "in_progress" /\ FeatureOf[t] = mof[m] /\ mpc[m] = "recorded"
    BY <1>0, <1>2 DEF CloseTasks
  <2> QED
    BY <1>0, <2>1 DEF Quiet, DoingIsWorked
<1>3. ASSUME NEW u \in Tasks, StartTask(u) PROVE FALSE
  BY <1>0, <1>3 DEF StartTask
<1>4. ASSUME NEW f \in Features, WorkFails(f) \/ RedrainReset(f) PROVE FALSE
  BY <1>0, <1>4 DEF WorkFails, RedrainReset
<1>5. ASSUME Crash PROVE FALSE
  BY <1>0, <1>5 DEF Crash
<1>6. ASSUME task' = task PROVE FALSE
  BY <1>6
<1> QED
  BY <1>1, <1>2, <1>3, <1>4, <1>5, <1>6 DEF Next, vars, runVars, StartFix,
     ReviewStart, ReviewWrite, ReviewFails, Evaluate, MergeSteps, Align,
     TestDev, MoveDev, TestMain, MoveMain, Release, DeleteBranch, RecordMerge,
     MergeRaises, RedrainRelease

\* A worktree goes with a merge that has landed its branch, or with a redrain.
LEMMA WorktreeMoves ==
  ASSUME TInv, [Next]_vars, NEW f \in Features, wt[f], ~wt'[f]
  PROVE  \/ \E m \in Mergers : Release(m) /\ mof[m] = f
         \/ RedrainRelease(f)
<1> DEFINE Goal == \/ \E m \in Mergers : Release(m) /\ mof[m] = f
                   \/ RedrainRelease(f)
<1>0. wt \in [Features -> BOOLEAN]
  BY DEF TInv, GitShape
<1>1. ASSUME NEW g \in Features, NEW j \in Jobs, Begin(g, j) PROVE FALSE
  BY <1>0, <1>1 DEF Begin
<1>2. ASSUME NEW t \in Tasks, StartTask(t) PROVE FALSE
  <2>1. t \in Jobs /\ FeatureOf[t] \in Features
    BY MergeAssumption DEF Jobs
  <2> QED
    BY <1>1, <1>2, <2>1 DEF StartTask
<1>3. ASSUME NEW g \in Features, StartFix(g) PROVE FALSE
  <2>1. g \in Jobs
    BY DEF Jobs
  <2> QED
    BY <1>1, <1>3, <2>1 DEF StartFix
<1>4. ASSUME NEW m \in Mergers, Release(m) PROVE Goal
  <2>1. mof[m] = f
    BY <1>0, <1>4 DEF Release
  <2> QED
    BY <1>4, <2>1
<1>5. ASSUME NEW g \in Features, RedrainRelease(g) PROVE Goal
  <2>1. g = f
    BY <1>0, <1>5 DEF RedrainRelease
  <2> QED
    BY <1>5, <2>1
<1>6. ASSUME wt' = wt PROVE FALSE
  BY <1>6
<1> HIDE DEF Goal
<1>7. Goal
  BY <1>2, <1>3, <1>4, <1>5, <1>6 DEF Next, vars, gitVars, Commit, WorkFails,
     ReviewStart, ReviewWrite, ReviewFails, Evaluate, MergeSteps, Align,
     TestDev, MoveDev, TestMain, MoveMain, DeleteBranch, RecordMerge,
     CloseTasks, MergeRaises, RedrainReset, Crash
<1> QED
  BY <1>7 DEF Goal

\* A redrain that ends has given its tasks back.
LEMMA RedrainMoves ==
  ASSUME TInv, [Next]_vars, NEW f \in Features, drain[f] # "none",
         drain'[f] = "none", NEW t \in Tasks, FeatureOf[t] = f
  PROVE  task'[t] # "done"
<1>0. drain \in [Features -> Redrains]
  BY DEF TInv, RunShape
<1>1. ASSUME NEW g \in Features, RedrainReset(g) PROVE task'[t] # "done"
  <2>1. g = f
    BY <1>0, <1>1 DEF RedrainReset
  <2> QED
    BY <1>1, <2>1 DEF RedrainReset
<1>2. ASSUME NEW g \in Features, RedrainRelease(g) PROVE FALSE
  BY <1>0, <1>2 DEF RedrainRelease
<1>3. ASSUME Crash PROVE FALSE
  BY <1>0, <1>3 DEF Crash
<1>4. ASSUME drain' = drain PROVE FALSE
  BY <1>4
<1> QED
  BY <1>1, <1>2, <1>3, <1>4 DEF Next, vars, runVars, StartTask, StartFix, Begin,
     Commit, WorkFails, ReviewStart, ReviewWrite, ReviewFails, Evaluate,
     MergeSteps, Align, TestDev, MoveDev, TestMain, MoveMain, Release,
     DeleteBranch, RecordMerge, CloseTasks, MergeRaises

\* What a finished task committed stays on its branch or on dev.
LEMMA SafeKept ==
  ASSUME Overlap = FALSE, OneMerger, WInv, [Next]_vars PROVE WorkIsSafe'
<1>0. /\ TInv /\ TInv' /\ HInv /\ IsPrefix(dev, dev') /\ dev \in Shas /\ dev' \in Shas
      /\ Quiet /\ DoingIsWorked
  BY TypeKept, HInvKept DEF WInv, HInv, TInv, GitShape
<1>1. ToSet(dev) \subseteq ToSet(dev')
  BY <1>0, PrefixSet
<1> SUFFICES ASSUME NEW t \in Tasks, task'[t] = "done",
                    drain'[FeatureOf[t]] = "none"
             PROVE  \/ \E c \in ToSet(dev') : c.of = t
                    \/ wt'[FeatureOf[t]]
                       /\ \E c \in ToSet(branch'[FeatureOf[t]]) : c.of = t
  BY DEF WorkIsSafe
<1> DEFINE f == FeatureOf[t]
<1>2. f \in Features
  BY MergeAssumption
<1>3. drain[f] = "none"
  BY <1>0, <1>2, RedrainMoves
<1>4. CASE task[t] # "done"
  <2>1. Commit(f) /\ work[f] = t
    BY <1>0, <1>4, DoneMoves
  <2> DEFINE c == [of |-> t, try |-> tries[t]]
  <2>2. branch[f] \in Shas /\ branch[f] # None /\ wt[f]
    BY <1>0, <1>2, <2>1, NoneIsApart DEF Commit, TInv, GitShape
  <2>3. c \in Commits
    BY <1>0, <1>2, <2>1, MergeAssumption DEF Commit, TInv, RunShape, Commits, Jobs
  <2>4. branch'[f] = Append(branch[f], c) /\ wt'[f]
    BY <1>0, <1>2, <2>1, <2>2 DEF Commit, TInv, GitShape
  <2>5. c \in ToSet(branch'[f]) /\ c.of = t
    BY <2>2, <2>3, <2>4, AppendRef
  <2> QED
    BY <2>4, <2>5
<1>5. CASE task[t] = "done" /\ \E c \in ToSet(dev) : c.of = t
  BY <1>1, <1>5
<1>6. CASE task[t] = "done" /\ wt[f] /\ \E c \in ToSet(branch[f]) : c.of = t
  <2>1. PICK c \in ToSet(branch[f]) : c.of = t
    BY <1>6
  <2>2. branch[f] \in Shas /\ branch[f] # None
    BY <1>0, <1>2, <1>6, NoneIsApart DEF TInv, GitShape
  <2>3. c \in ToSet(branch'[f]) \/ (\E m \in Mergers : DeleteBranch(m) /\ mof[m] = f)
    <3>1. ASSUME NEW j \in Jobs, Begin(f, j) PROVE c \in ToSet(branch'[f])
      <4>1. branch'[f] = Reserved(f)
        BY <1>0, <1>2, <3>1 DEF Begin, TInv, GitShape
      <4> QED
        BY <1>0, <1>2, <1>6, <2>1, <4>1, ReservedIs DEF TInv
    <3>2. ASSUME Commit(f) PROVE c \in ToSet(branch'[f])
      <4>1. work[f] \in Jobs /\ tries[work[f]] \in 1..MaxTries
        BY <1>0, <1>2, <3>2, MergeAssumption DEF Commit, TInv, RunShape
      <4>2. [of |-> work[f], try |-> tries[work[f]]] \in Commits
        BY <4>1 DEF Commits
      <4>3. branch'[f] = Append(branch[f], [of |-> work[f], try |-> tries[work[f]]])
        BY <1>0, <1>2, <3>2 DEF Commit, TInv, GitShape
      <4> QED
        BY <2>1, <2>2, <4>2, <4>3, AppendRef
    <3>3. ASSUME branch'[f] = Rebased(f) PROVE c \in ToSet(branch'[f])
      BY <1>0, <2>1, <2>2, <3>3, RebasedIs
    <3>4. ASSUME branch'[f] = branch[f] PROVE c \in ToSet(branch'[f])
      BY <2>1, <3>4
    <3> QED
      BY <1>0, <1>2, <3>1, <3>2, <3>3, <3>4, BranchMoves
  <2>4. ASSUME NEW m \in Mergers, DeleteBranch(m), mof[m] = f PROVE FALSE
    BY <1>6, <2>4 DEF DeleteBranch
  <2>5. CASE wt'[f]
    BY <2>1, <2>3, <2>4, <2>5
  <2>6. CASE ~wt'[f]
    <3>1. ASSUME RedrainRelease(f) PROVE FALSE
      BY <1>0, <1>2, <3>1 DEF RedrainRelease, TInv, RunShape
    <3>2. ASSUME NEW m \in Mergers, Release(m), mof[m] = f
          PROVE  branch[f] = dev
      BY <1>0, <3>2 DEF Release, Step, HInv, HeadStays, Landing
    <3>3. branch[f] = dev
      BY <1>0, <1>2, <1>6, <2>6, <3>1, <3>2, WorktreeMoves
    <3> QED
      BY <1>1, <2>1, <3>3
  <2> QED
    BY <2>5, <2>6
<1> QED
  BY <1>3, <1>4, <1>5, <1>6 DEF WInv, WorkIsSafe

\* A done task's work is on dev or on the branch of its feature, when runs,
\* merges and redrains of a feature do not overlap and one merge at a time is
\* going on.
THEOREM DoneWorkIsKeptHolds ==
  ASSUME Overlap = FALSE, OneMerger PROVE Spec => []DoneWorkIsKept
<1>1. Init => WInv
  BY HInvInit DEF Init, WInv, DoingIsWorked, WorkIsSafe
<1>2. WInv /\ [Next]_vars => WInv'
  BY HInvKept, DoingKept, SafeKept DEF WInv, HInv
<1>3. WInv => DoneWorkIsKept
  <2> SUFFICES ASSUME WInv, NEW t \in Tasks, task[t] = "done",
                      drain[FeatureOf[t]] = "none"
               PROVE  \E c \in ToSet(dev) \cup
                        (IF branch[FeatureOf[t]] = None THEN {}
                         ELSE ToSet(branch[FeatureOf[t]])) : c.of = t
    BY DEF DoneWorkIsKept
  <2>1. FeatureOf[t] \in Features
    BY MergeAssumption
  <2>2. wt[FeatureOf[t]] => branch[FeatureOf[t]] # None
    BY <2>1 DEF WInv, HInv, TInv, GitShape
  <2> QED
    BY <2>2 DEF WInv, WorkIsSafe
<1> QED
  BY <1>1, <1>2, <1>3, PTL DEF Spec
=============================================================================
