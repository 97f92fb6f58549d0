---------------------------- MODULE UpgradeProofs ----------------------------
(***************************************************************************)
(* The update cycle for any number of editions, runs, snapshots, failures  *)
(* and reboots, when gestures come from one place.  The service that is    *)
(* left reads the base it is left with, what a verdict says is what the    *)
(* disk shows, and no write is destroyed: these rest on where the last     *)
(* run, the only one that may be at work, has left the link, the service   *)
(* and the base at each of its steps.  The last section: a rollback leads  *)
(* to a snapshot its edition reads, which rests on the order of the runs.  *)
(***************************************************************************)
EXTENDS Upgrade, FiniteSetTheorems, SequenceTheorems, TLAPS

(***************************************************************************)
(* What the steps rely on                                                  *)
(***************************************************************************)
\* One place asks for gestures: nothing is launched between a preflight and its
\* launch.
OneClient == \A c, d \in Clients : c = d

\* What a run and an accepted plan carry.
Modes   == {"apply", "rollback"}
Homes   == Wheels \cup {Origin}
Marks   == {"none", "posed", "left"}
Codes   == {None, 0, 1, 2}
Saved   == SUBSET (1..MaxWrites)
RunRecs == [mode : Modes, depot : Nat, wheel : Homes, aim : Nat, from : Nat, snap : Nat,
            pc : Pcs, home : BOOLEAN, to : Nat, maps : Marks, restored : BOOLEAN,
            told : BOOLEAN, rc : Codes, impact : Impacts, seen : Saved]
AskRecs == [mode : Modes, depot : Nat, wheel : Homes, aim : Nat, to : Nat]

\* Where everything is.
Disk ==
  /\ venvs \subseteq 0..Len(run) /\ link \in venvs /\ proc \in venvs \cup {None}
  /\ tools \in 0..Len(run) /\ db \in Base /\ aside \subseteq Base /\ writes \in 0..MaxWrites
Shots ==
  /\ taken \in Nat /\ DOMAIN snaps \subseteq 1..taken /\ \A s \in DOMAIN snaps : snaps[s] \in Base
  /\ Cardinality(DOMAIN snaps) <= Keep
Area ==
  /\ staged \in Nat /\ DOMAIN depots \subseteq 1..staged
  /\ \A d \in DOMAIN depots : depots[d] \in Wheels

\* What a run of the journal keeps to, the i-th.
Entry(i, q) ==
  /\ q.rc # None <=> q.pc = "done"
  /\ q.from \in 0..(i - 1) /\ q.snap \in 0..taken /\ q.aim \in 0..taken
  /\ q.mode = "apply" => q.to = i
Journal ==
  /\ run \in Seq(RunRecs) /\ Len(run) <= MaxRuns
  /\ \A i \in Runs : Entry(i, run[i])

\* A plan is accepted while nothing runs, and only the last run may be at work.
Alone == \A i \in Runs : Active(i) => i = Len(run)
Planned(p) ==
  /\ \A i \in Runs : ~Active(i)
  /\ p.aim \in 0..taken
  /\ p.mode = "rollback" => p.to \in venvs /\ SchemaOf(p.to) <= SchemaOf(link)
Asks ==
  /\ ask \in [Clients -> AskRecs \cup {None}]
  /\ \A c \in Clients : ask[c] # None => Planned(ask[c])

\* Where the link, the service and the base are while the last run is at work.
Before  == {"begin", "probe", "stop"}
Stopped == {"snapshot", "swap", "aside", "copy"}
Moved   == {"maps", "verify"}
Back    == {"remaps", "health"}

Places(n, q) ==
  /\ q.impact = "none" /\ q.told
  /\ q.mode = "rollback" => q.to \in venvs
  /\ q.pc = "begin" => n \notin venvs
  /\ q.pc # "begin" => q.from \in venvs /\ (q.mode = "apply" => n \in venvs)
  /\ q.pc \in {"probe", "stop", "snapshot", "swap"} => link = q.from
  /\ q.pc \in Before \cup {"snapshot", "swap"} \cup Moved => ~q.home
  /\ q.pc \in Back => q.home
  /\ q.pc \in Moved => link = q.to
  /\ q.pc \in {"aside", "copy"} =>
       IF q.home THEN link = q.from ELSE q.mode = "rollback" /\ link = q.to
  /\ q.pc \in Back => link = q.from
  /\ q.pc \in Stopped => proc = None
  /\ q.pc \in Moved \cup Back => proc = link
  /\ q.mode = "rollback" => SchemaOf(q.to) <= SchemaOf(IF q.pc = "begin" THEN link ELSE q.from)

\* The snapshot a restore copies, and what is there while it copies.
Copied(q) == IF q.mode = "rollback" /\ ~q.home THEN q.aim ELSE q.snap
Copying(q) ==
  q.pc = "copy" => /\ db = NoBase
                   /\ Copied(q) \in DOMAIN snaps /\ snaps[Copied(q)].schema <= SchemaOf(link)

\* What the base and the snapshots hold of what the run saw.
Holds(q) ==
  /\ q.pc \in {"probe", "stop", "snapshot", "swap"} => q.seen \subseteq db.data
  /\ q.pc \notin Before \cup {"snapshot"} /\ q.snap \in DOMAIN snaps => q.seen \subseteq snaps[q.snap].data
  /\ q.pc \in Moved /\ q.mode = "apply" => q.seen \subseteq db.data
  /\ q.pc \in Moved /\ q.mode = "rollback" /\ q.aim \in DOMAIN snaps => snaps[q.aim].data \subseteq db.data
  /\ q.pc \in Back /\ q.restored => q.seen \subseteq db.data

\* Which of its editions reads the base, as long as no run was cut or lost.
Readable(n, q) ==
  /\ q.pc \in Before => proc = link
  /\ q.pc \in Before \cup Back => db.schema <= SchemaOf(link)
  /\ q.pc \in {"snapshot", "swap"} => db.schema <= SchemaOf(q.from)
  /\ q.pc \in Moved \cup {"aside"} /\ q.mode = "apply" =>
       db.schema <= SchemaOf(q.from) \/ db.schema <= SchemaOf(n)
  /\ q.pc \in Moved /\ q.mode = "rollback" => db.schema <= SchemaOf(q.to)
  /\ q.pc = "aside" /\ q.mode = "rollback" => db.schema <= SchemaOf(q.from)

\* Whose maps are posed, as long as no verdict said they were left.
NoneLeft == \A i \in Runs : run[i].maps # "left"
Mapped(q) ==
  /\ q.pc \in Before \cup {"snapshot", "swap", "verify", "health"} => tools = link
  /\ q.pc \in {"aside", "copy"} => tools = IF q.home THEN q.to ELSE q.from

\* The run that is at work.
Work(n, q) ==
  /\ Places(n, q) /\ Copying(q) /\ Holds(q)
  /\ Clean => Readable(n, q) /\ (NoneLeft => Mapped(q))
AtWork == \A n \in Runs : Active(n) => Work(n, run[n])

\* What is left when none is.
AtRest ==
  Settled /\ Clean =>
    /\ proc = link /\ db.schema <= SchemaOf(link)
    /\ NoneLeft => tools = link

\* What the verdict of a run says.
Verdict(q) ==
  /\ q.impact \in {"none", "undone"} => link = q.from /\ q.seen \subseteq db.data
  /\ q.impact = "done" => link = q.to
  /\ q.impact = "done" /\ q.mode = "apply" => q.seen \subseteq db.data
  /\ q.impact = "done" /\ q.mode = "rollback" /\ q.aim \in DOMAIN snaps =>
       snaps[q.aim].data \subseteq db.data
Told == Len(run) > 0 /\ Ended(Len(run)) => Verdict(run[Len(run)])

NoWriteLost == 1..writes \subseteq db.data \cup UNION {b.data : b \in aside}

UInv == /\ Disk /\ Shots /\ Area /\ Journal
        /\ Alone /\ Asks /\ AtWork /\ AtRest /\ Told /\ NoWriteLost

(***************************************************************************)
(* Sets of numbers                                                         *)
(***************************************************************************)
\* A finite set of naturals that is not empty has a greatest member: the parts
\* above its members are well founded by strict inclusion.
LEMMA Greatest ==
  ASSUME NEW S \in SUBSET Nat, IsFiniteSet(S), S # {}
  PROVE  \E m \in S : \A k \in S : k <= m
<1> DEFINE Above(k) == {t \in S : t > k}
           Parts == {Above(k) : k \in S}
<1>1. Parts \subseteq FiniteSubsetsOf(Nat)
  <2> SUFFICES ASSUME NEW k \in S PROVE Above(k) \in FiniteSubsetsOf(Nat)
    OBVIOUS
  <2>1. Above(k) \in SUBSET S /\ Above(k) \subseteq Nat
    OBVIOUS
  <2>2. IsFiniteSet(Above(k))
    BY <2>1, FS_Subset
  <2> QED
    BY <2>1, <2>2 DEF FiniteSubsetsOf
<1>2. IsWellFoundedOn(StrictSubsetOrdering(Nat), FiniteSubsetsOf(Nat))
  BY FS_StrictSubsetOrderingWellFounded
<1>3. Parts # {}
  OBVIOUS
<1>4. \A k \in S : Above(k) \in Parts
  OBVIOUS
<1>5. \A B \in Parts : \E k \in S : B = Above(k)
  OBVIOUS
<1> HIDE DEF Parts
<1>6. PICK B \in Parts : \A C \in Parts : <<C, B>> \notin StrictSubsetOrdering(Nat)
  BY <1>1, <1>2, <1>3, WFMin
<1>7. PICK m \in S : B = Above(m)
  BY <1>5, <1>6
<1>8. ASSUME NEW k \in S, ~(k <= m) PROVE FALSE
  <2>0. k \in Nat /\ m \in Nat /\ m < k /\ \A t \in S : t \in Nat
    BY <1>8
  <2>1. Above(k) \subseteq Above(m) /\ k \in Above(m) /\ k \notin Above(k)
    <3>1. \A t \in S : t > k => t > m
      BY <2>0
    <3>2. k > m /\ ~(k > k)
      BY <2>0
    <3> QED
      BY <3>1, <3>2
  <2>2. Above(k) \subseteq Nat /\ Above(m) \subseteq Nat
    OBVIOUS
  <2>3. <<Above(k), Above(m)>> \in StrictSubsetOrdering(Nat)
    BY <2>1, <2>2 DEF StrictSubsetOrdering
  <2> QED
    BY <1>4, <1>6, <1>7, <2>3
<1> QED
  BY <1>8

\* And a least one.
LEMMA Least ==
  ASSUME NEW S \in SUBSET Nat, IsFiniteSet(S), S # {}
  PROVE  \E m \in S : \A k \in S : m <= k
<1>1. PICK g \in S : \A k \in S : k <= g
  BY Greatest
<1> DEFINE T == {k \in 0..g : g - k \in S}
<1>2. T \in SUBSET Nat /\ T # {} /\ \A k \in T : k <= g
  <2>1. g \in Nat /\ 0 \in T
    BY <1>1
  <2> QED
    BY <2>1
<1>3. IsFiniteSet(T)
  BY <1>1, <1>2, FS_BoundedSetOfNaturals
<1>4. PICK m \in T : \A k \in T : k <= m
  BY <1>2, <1>3, Greatest
<1>5. g - m \in S
  BY <1>4
<1>6. ASSUME NEW k \in S PROVE g - m <= k
  <2>1. k \in Nat /\ g \in Nat /\ k <= g /\ m \in 0..g
    BY <1>1, <1>4
  <2>2. g - k \in T
    BY <2>1
  <2> QED
    BY <1>4, <2>1, <2>2
<1> QED
  BY <1>5, <1>6

\* Max is one of the numbers it is given.
LEMMA MaxIsMember ==
  ASSUME NEW S \in SUBSET Nat, IsFiniteSet(S), S # {}
  PROVE  Max(S) \in S
<1>1. \E m \in S : \A k \in S : m >= k
  <2>1. PICK m \in S : \A k \in S : k <= m
    BY Greatest
  <2> QED
    BY <2>1
<1> QED
  BY <1>1 DEF Max

\* The retention keeps no more than its bound, and only what there was.
LEMMA NewestIsBounded ==
  ASSUME NEW S \in SUBSET Nat, IsFiniteSet(S), NEW n \in Nat
  PROVE  /\ Newest(n, S) \subseteq S
         /\ IsFiniteSet(Newest(n, S)) /\ Cardinality(Newest(n, S)) <= n
<1> DEFINE T == Newest(n, S)
<1>1. T \in SUBSET S /\ \A s \in T : s \in S /\ Cardinality({t \in S : t > s}) < n
  BY DEF Newest
<1> HIDE DEF T
<1>2. IsFiniteSet(T) /\ Cardinality(T) \in Nat
  BY <1>1, FS_Subset, FS_CardinalityType
<1>3. ASSUME T # {} PROVE Cardinality(T) <= n
  <2>1. PICK m \in T : \A k \in T : m <= k
    BY <1>1, <1>2, <1>3, Least
  <2> DEFINE U == {t \in S : t > m}
  <2>2. U \in SUBSET S /\ m \notin U /\ T \ {m} \subseteq U
    BY <1>1, <2>1
  <2>3. Cardinality(U) < n
    BY <1>1, <2>1
  <2> HIDE DEF U
  <2>4. IsFiniteSet(U) /\ Cardinality(U) \in Nat
    BY <2>2, FS_Subset, FS_CardinalityType
  <2>5. T \ {m} \in SUBSET U
    BY <2>2
  <2>6. Cardinality(T \ {m}) <= Cardinality(U)
    BY <2>4, <2>5, FS_Subset
  <2>7. Cardinality(T \ {m}) = Cardinality(T) - 1
    BY <1>2, <2>1, FS_RemoveElement
  <2> QED
    BY <1>2, <2>3, <2>4, <2>6, <2>7
<1>4. T = {} => Cardinality(T) <= n
  BY FS_EmptySet
<1> QED
  BY <1>1, <1>2, <1>3, <1>4 DEF T

(***************************************************************************)
(* Journals, editions and snapshots                                        *)
(***************************************************************************)
\* The fields of a run that no step changes.
SamePlan(q, r) == /\ r.mode = q.mode /\ r.depot = q.depot /\ r.wheel = q.wheel
                  /\ r.aim = q.aim /\ r.to = q.to

\* What a record of the journal is made of.
LEMMA RunFields ==
  ASSUME NEW q \in RunRecs
  PROVE  /\ q.mode \in Modes /\ q.depot \in Nat /\ q.wheel \in Homes /\ q.aim \in Nat
         /\ q.from \in Nat /\ q.snap \in Nat /\ q.pc \in Pcs /\ q.home \in BOOLEAN /\ q.to \in Nat
         /\ q.maps \in Marks /\ q.restored \in BOOLEAN /\ q.told \in BOOLEAN /\ q.rc \in Codes
         /\ q.impact \in Impacts /\ q.seen \in Saved
BY DEF RunRecs

\* The journal after one run moved.
LEMMA Written ==
  ASSUME run \in Seq(RunRecs), NEW n \in Runs, NEW r \in RunRecs,
         run' = [run EXCEPT ![n] = r]
  PROVE  /\ run' \in Seq(RunRecs) /\ Len(run') = Len(run) /\ Runs' = Runs
         /\ run'[n] = r /\ \A j \in Runs \ {n} : run'[j] = run[j]
<1>1. n \in 1..Len(run)
  BY DEF Runs
<1>2. /\ run' \in Seq(RunRecs) /\ Len(run') = Len(run)
      /\ \A j \in 1..Len(run) : run'[j] = IF j = n THEN r ELSE run[j]
  BY <1>1, ExceptSeq
<1> QED
  BY <1>1, <1>2 DEF Runs

\* A run of the journal is a record.
LEMMA RunIsRecord ==
  ASSUME run \in Seq(RunRecs)
  PROVE  /\ Len(run) \in Nat /\ \A i \in Runs : run[i] \in RunRecs /\ i \in Nat /\ i >= 1 /\ i <= Len(run)
BY LenProperties DEF Runs

\* The schema an edition reads is a number, one a base may have.
LEMMA SchemaType ==
  ASSUME UpgradeAssumption, run \in Seq(RunRecs)
  PROVE  \A v \in 0..Len(run) : /\ SchemaOf(v) \in Nat \ {0}
                                /\ SchemaOf(v) \in {0} \cup {Reads[e] : e \in Wheels \cup {Origin}}
<1> SUFFICES ASSUME NEW v \in 0..Len(run)
             PROVE  /\ SchemaOf(v) \in Nat \ {0}
                    /\ SchemaOf(v) \in {0} \cup {Reads[e] : e \in Wheels \cup {Origin}}
  OBVIOUS
<1>1. Edition(v) \in Homes
  <2>1. v # 0 => run[v].wheel \in Homes
    BY RunIsRecord, RunFields DEF Runs
  <2> QED
    BY <2>1 DEF Edition, Homes
<1> QED
  BY <1>1 DEF SchemaOf, UpgradeAssumption, Homes

\* An edition is never changed.
LEMMA EditionsStay ==
  ASSUME run \in Seq(RunRecs), Len(run') >= Len(run), \A i \in Runs : run'[i].wheel = run[i].wheel
  PROVE  \A v \in 0..Len(run) : SchemaOf(v)' = SchemaOf(v)
<1> SUFFICES ASSUME NEW v \in 0..Len(run) PROVE SchemaOf(v)' = SchemaOf(v)
  OBVIOUS
<1>1. v = 0 \/ v \in Runs
  BY RunIsRecord DEF Runs
<1>2. Edition(v)' = Edition(v)
  BY <1>1 DEF Edition
<1> QED
  BY <1>2 DEF SchemaOf

\* What a base is.
LEMMA BaseFields ==
  ASSUME UpgradeAssumption, NEW b \in Base
  PROVE  b.schema \in Nat /\ b.data \in Saved
<1>1. /\ b.schema \in {0} \cup {Reads[e] : e \in Wheels \cup {Origin}}
      /\ b.data \in Saved
  BY DEF Base, Saved
<1> QED
  BY <1>1 DEF UpgradeAssumption

\* A base that a service opens keeps what it holds, and is not older than it.
LEMMA OpenedBase ==
  ASSUME UpgradeAssumption, run \in Seq(RunRecs), NEW v \in 0..Len(run), NEW b \in Base
  PROVE  /\ Opened(b, v) \in Base /\ Opened(b, v).data = b.data
         /\ Opened(b, v).schema = IF b.schema < SchemaOf(v) THEN SchemaOf(v) ELSE b.schema
BY SchemaType DEF Opened, Base

\* No base is one too.
LEMMA NoBaseIsBase == NoBase \in Base /\ NoBase.data = {} /\ NoBase.schema = 0
BY DEF NoBase, Base

\* The snapshots that were there are kept as they are, or purged.
OldShots == /\ taken' \in Nat /\ taken <= taken'
            /\ \A s \in 0..taken : s \in DOMAIN snaps' => s \in DOMAIN snaps /\ snaps'[s] = snaps[s]

\* A snapshot that is taken is a copy of the base, and the retention keeps to its
\* bound.
LEMMA CreateTakes ==
  ASSUME UpgradeAssumption, Shots, db \in Base, Create
  PROVE  /\ Shots' /\ OldShots /\ taken' = taken + 1
         /\ taken + 1 \in DOMAIN snaps' => snaps'[taken + 1] = db
<1> DEFINE D == DOMAIN snaps \cup {taken + 1}
           S == Newest(Keep, D)
<1>1. D \in SUBSET Nat /\ IsFiniteSet(D) /\ Keep \in Nat /\ D \subseteq 1..(taken + 1)
  <2>1. taken \in Nat /\ DOMAIN snaps \subseteq 1..taken /\ Keep \in Nat
    BY DEF Shots, UpgradeAssumption
  <2>2. D \in SUBSET (1..(taken + 1))
    BY <2>1
  <2>3. IsFiniteSet(1..(taken + 1))
    BY <2>1, FS_Interval
  <2>4. IsFiniteSet(D)
    BY <2>2, <2>3, FS_Subset
  <2> QED
    BY <2>1, <2>2, <2>4
<1>2. S \subseteq D /\ Cardinality(S) <= Keep
  BY <1>1, NewestIsBounded
<1>3. /\ taken' = taken + 1
      /\ snaps' = [s \in S |-> IF s = taken + 1 THEN db ELSE snaps[s]]
  BY DEF Create
<1>4. taken \in Nat /\ DOMAIN snaps \subseteq 1..taken /\ \A s \in DOMAIN snaps : snaps[s] \in Base
  BY DEF Shots
<1>5. ASSUME NEW s \in S
      PROVE  /\ s = taken + 1 => snaps'[s] = db
             /\ s # taken + 1 => s \in DOMAIN snaps /\ snaps'[s] = snaps[s]
  BY <1>2, <1>3
<1>6. DOMAIN snaps' = S
  BY <1>3
<1> HIDE DEF S
<1>7. Shots'
  <2>1. \A s \in S : snaps'[s] \in Base
    BY <1>4, <1>5
  <2> QED
    BY <1>1, <1>2, <1>3, <1>4, <1>6, <2>1 DEF Shots
<1>8. OldShots
  BY <1>3, <1>4, <1>5, <1>6 DEF OldShots
<1> QED
  BY <1>3, <1>5, <1>6, <1>7, <1>8

\* And while none is taken.
LEMMA ShotsStay == ASSUME Shots, UNCHANGED shots PROVE Shots' /\ OldShots
BY DEF Shots, OldShots, shots

(***************************************************************************)
(* A step of the run that is at work                                       *)
(***************************************************************************)
\* It is the last one, it is where its invariant says, and no plan is accepted.
LEMMA Turn ==
  ASSUME UInv, NEW n \in Runs, Active(n)
  PROVE  /\ n = Len(run) /\ n \in Nat \ {0} /\ run[n] \in RunRecs /\ Entry(n, run[n])
         /\ Work(n, run[n]) /\ \A c \in Clients : ask[c] = None
<1>1. run \in Seq(RunRecs) /\ Entry(n, run[n])
  BY DEF UInv, Journal
<1>2. n = Len(run) /\ Work(n, run[n])
  BY DEF UInv, Alone, AtWork
<1>3. \A c \in Clients : ask[c] = None
  BY DEF UInv, Asks, Planned
<1> QED
  BY <1>1, <1>2, <1>3, RunIsRecord

\* What a verdict counts for when no run was cut or lost: the run neither ended on
\* an exception nor kept an older edition on data it could not put back.
Sound(n, r) == r.told /\ ~(r.impact = "forward" /\ r.mode = "apply" /\ SchemaOf(n) < SchemaOf(r.from))

\* What is left when it ends.
Left == /\ proc = link /\ db.schema <= SchemaOf(link)
        /\ NoneLeft => tools = link

\* A step of that run keeps the invariant when it leaves the link, the service and
\* the base where they are due.
LEMMA Worked ==
  ASSUME UpgradeAssumption, UInv, NEW n \in Runs, Active(n), NEW r \in RunRecs,
         run' = [run EXCEPT ![n] = r], SamePlan(run[n], r), r.pc \notin {"unborn", "cut"},
         Entry(n, r)', Disk', Shots', OldShots, NoWriteLost', UNCHANGED <<area, ask>>,
         r.pc # "done" => Places(n, r)' /\ Copying(r)' /\ Holds(r)',
         r.pc # "done" /\ Clean => Readable(n, r)' /\ (NoneLeft' => Mapped(r)'),
         r.pc = "done" => Verdict(r)',
         r.pc = "done" /\ Clean /\ Sound(n, r) => Left'
  PROVE  UInv'
<1>1. /\ n = Len(run) /\ n \in Nat \ {0} /\ run[n] \in RunRecs /\ Entry(n, run[n])
      /\ Work(n, run[n]) /\ \A c \in Clients : ask[c] = None
  BY Turn
<1>2. run \in Seq(RunRecs) /\ Len(run) <= MaxRuns /\ \A i \in Runs : Entry(i, run[i])
  BY DEF UInv, Journal
<1>3. /\ run' \in Seq(RunRecs) /\ Len(run') = Len(run) /\ Runs' = Runs
      /\ run'[n] = r /\ \A j \in Runs \ {n} : run'[j] = run[j]
  BY <1>2, Written
<1>4. \A v \in 0..Len(run) : SchemaOf(v)' = SchemaOf(v)
  <2>1. \A i \in Runs : run'[i].wheel = run[i].wheel
    BY <1>3 DEF SamePlan
  <2>2. Len(run') >= Len(run)
    BY <1>1, <1>3
  <2> QED
    BY <1>2, <2>1, <2>2, EditionsStay
<1>5. /\ Ended(n)' <=> r.pc = "done"
      /\ Active(n)' <=> r.pc # "done"
      /\ \A j \in Runs \ {n} : ~Active(j) /\ ~Active(j)'
  <2>1. r.rc # None <=> r.pc = "done"
    BY DEF Entry
  <2>2. \A j \in Runs \ {n} : ~Active(j)
    BY <1>1 DEF UInv, Alone
  <2> QED
    BY <1>3, <2>1, <2>2 DEF Active, Ended
<1>6. Journal'
  <2>1. taken \in Nat /\ taken' \in Nat /\ taken <= taken'
    BY DEF UInv, Shots, OldShots
  <2>2. ASSUME NEW j \in Runs \ {n} PROVE Entry(j, run[j])'
    <3>1. Entry(j, run[j]) /\ run[j] \in RunRecs
      BY <1>2, RunIsRecord
    <3> QED
      BY SMTT(40), <1>3, <2>1, <3>1 DEF Entry
  <2>3. \A j \in Runs : Entry(j, run[j])'
    BY <1>3, <2>2
  <2> QED
    BY <1>2, <1>3, <2>3 DEF Journal
<1>7. Area'
  BY DEF UInv, Area, area
<1>8. Alone'
  BY <1>1, <1>3, <1>5 DEF Alone
<1>9. Asks'
  BY <1>1 DEF UInv, Asks
<1>10. Clean' => Clean /\ (r.pc = "done" => Sound(n, r))
  <2>1. SUFFICES ASSUME Clean' PROVE Clean /\ (r.pc = "done" => Sound(n, r))
    OBVIOUS
  <2>2. ASSUME NEW j \in Runs \ {n}
        PROVE  /\ run[j].pc # "cut" /\ run[j].told
               /\ ~(run[j].impact = "forward" /\ Downgrade(j))
    <3>1. j \in 0..Len(run) /\ run[j].from \in 0..Len(run)
      BY <1>1, <1>2, RunIsRecord DEF Entry
    <3>2. Downgrade(j)' <=> Downgrade(j)
      BY <1>3, <1>4, <3>1 DEF Downgrade
    <3>3. /\ run'[j].pc # "cut" /\ run'[j].told
          /\ ~(run'[j].impact = "forward" /\ Downgrade(j)')
      BY <1>3, <2>1 DEF Clean
    <3> QED
      BY <1>3, <3>2, <3>3
  <2>3. /\ run[n].pc # "cut" /\ run[n].told
        /\ ~(run[n].impact = "forward" /\ Downgrade(n))
    BY <1>1 DEF Work, Places, Active
  <2>4. Sound(n, r)
    <3>1. n \in 0..Len(run) /\ r.from \in 0..Len(run)
      BY <1>1 DEF Entry
    <3>2. /\ run'[n].told /\ ~(run'[n].impact = "forward" /\ Downgrade(n)')
      BY <1>3, <2>1 DEF Clean
    <3> QED
      BY <1>3, <1>4, <3>1, <3>2 DEF Sound, Downgrade
  <2> QED
    BY <2>2, <2>3, <2>4 DEF Clean
<1>11. AtWork'
  <2>1. SUFFICES ASSUME NEW m \in Runs', Active(m)' PROVE Work(m, run[m])'
    BY DEF AtWork
  <2>2. m = n /\ r.pc # "done"
    BY <1>3, <1>5, <2>1
  <2>3. Work(n, r)'
    BY <1>10, <2>2 DEF Work
  <2> QED
    BY <1>3, <2>2, <2>3
<1>12. AtRest'
  <2>1. SUFFICES ASSUME Settled', Clean' PROVE Left'
    BY DEF AtRest, Left
  <2>2. r.pc = "done"
    BY <1>3, <1>5, <2>1 DEF Settled
  <2> QED
    BY <1>10, <2>1, <2>2
<1>13. Told'
  <2>1. Len(run') = n
    BY <1>1, <1>3
  <2>2. r.rc # None <=> r.pc = "done"
    BY DEF Entry
  <2> QED
    BY <1>3, <2>1, <2>2 DEF Told, Ended
<1> QED
  BY <1>6, <1>7, <1>8, <1>9, <1>11, <1>12, <1>13 DEF UInv

\* A run that is at none of these is at work.
LEMMA Busy ==
  ASSUME UInv, NEW n \in Runs, run[n].pc \notin {"unborn", "cut", "done"}
  PROVE  Active(n)
BY DEF UInv, Journal, Entry, Active, Ended

\* Where the run stands, for the steps below.
LEMMA Standing ==
  ASSUME UpgradeAssumption, UInv, NEW n \in Runs, run[n].pc \notin {"unborn", "cut", "done"}
  PROVE  /\ Active(n) /\ n = Len(run) /\ n \in Nat \ {0} /\ run \in Seq(RunRecs)
         /\ run[n] \in RunRecs /\ run[n].mode \in Modes /\ Entry(n, run[n])
         /\ Places(n, run[n]) /\ Copying(run[n]) /\ Holds(run[n])
         /\ Clean => Readable(n, run[n]) /\ (NoneLeft => Mapped(run[n]))
         /\ Disk /\ Shots /\ NoWriteLost /\ None \notin Nat
         /\ \A v \in 0..Len(run) : SchemaOf(v) \in Nat \ {0}
<1>1. Active(n)
  BY Busy
<1>2. run \in Seq(RunRecs)
  BY DEF UInv, Journal
<1> QED
  BY <1>1, <1>2, Turn, SchemaType, RunFields DEF UInv, Work, UpgradeAssumption

\* Nothing an edition reads changes with the run.
LEMMA EditionsWork ==
  ASSUME run \in Seq(RunRecs), NEW n \in Runs, NEW r \in RunRecs,
         run' = [run EXCEPT ![n] = r], r.wheel = run[n].wheel
  PROVE  /\ Len(run') = Len(run)
         /\ \A v \in 0..Len(run) : SchemaOf(v)' = SchemaOf(v)
<1>1. Len(run') = Len(run) /\ \A i \in Runs : run'[i].wheel = run[i].wheel
  BY Written
<1>2. Len(run') >= Len(run)
  BY <1>1, RunIsRecord
<1> QED
  BY <1>1, <1>2, EditionsStay

\* No mark is left by a step that leaves none.
LEMMA MarksStay ==
  ASSUME run \in Seq(RunRecs), NEW n \in Runs, NEW r \in RunRecs,
         run' = [run EXCEPT ![n] = r], r.maps = run[n].maps
  PROVE  NoneLeft' = NoneLeft
<1>1. Runs' = Runs /\ \A i \in Runs : run'[i].maps = run[i].maps
  BY Written
<1> QED
  BY <1>1 DEF NoneLeft

\* The run that is at work, before a step of it and after.
Steps(n, q, r) == /\ n \in Runs /\ q = run[n] /\ run' = [run EXCEPT ![n] = r]
                  /\ q.pc \notin {"unborn", "cut", "done"}

\* What a step that moves nothing leaves as it is.
LEMMA Untouched ==
  ASSUME Disk, Shots, NoWriteLost, Len(run') = Len(run), UNCHANGED <<disk, shots, life, tools>>
  PROVE  Disk' /\ Shots' /\ OldShots /\ NoWriteLost'
<1>1. Disk' /\ NoWriteLost'
  BY DEF Disk, disk, life, NoWriteLost
<1> QED
  BY <1>1, ShotsStay

\* A run that goes on or ends is still well formed.
LEMMA EntryStays ==
  ASSUME Shots, OldShots, NEW n \in Nat \ {0}, NEW q, NEW r, Entry(n, q), SamePlan(q, r),
         r.rc # None <=> r.pc = "done", r.from \in 0..(n - 1), r.snap \in 0..taken'
  PROVE  Entry(n, r)'
<1>1. taken \in Nat /\ taken' \in Nat /\ taken <= taken'
  BY DEF Shots, OldShots
<1>2. r.aim \in 0..taken'
  BY <1>1 DEF Entry, SamePlan
<1> QED
  BY <1>2 DEF Entry, SamePlan

\* The probe succeeds: nothing moves, but the run.
LEMMA GoesOn ==
  ASSUME UpgradeAssumption, UInv, NEW n, NEW q \in RunRecs, NEW r \in RunRecs,
         Steps(n, q, r), q.pc = "probe", r = [q EXCEPT !.pc = "stop"],
         UNCHANGED <<disk, shots, area, life, tools, ask>>
  PROVE  UInv'
<1>1. /\ Active(n) /\ n = Len(run) /\ n \in Nat \ {0} /\ run \in Seq(RunRecs)
      /\ q.mode \in Modes /\ Entry(n, q) /\ Places(n, q) /\ Copying(q) /\ Holds(q)
      /\ Clean => Readable(n, q) /\ (NoneLeft => Mapped(q))
      /\ Disk /\ Shots /\ NoWriteLost
  BY Standing DEF Steps
<1>2. /\ SamePlan(q, r) /\ r.from = q.from /\ r.snap = q.snap /\ r.home = q.home /\ r.maps = q.maps
      /\ r.restored = q.restored /\ r.told = q.told /\ r.seen = q.seen /\ r.impact = q.impact
      /\ r.pc = "stop" /\ r.rc = q.rc
  BY DEF RunRecs, SamePlan
<1>3. /\ Len(run') = Len(run) /\ \A v \in 0..Len(run) : SchemaOf(v)' = SchemaOf(v)
      /\ NoneLeft' = NoneLeft
  <2>1. r.wheel = run[n].wheel /\ r.maps = run[n].maps
    BY <1>2 DEF SamePlan, Steps
  <2> QED
    BY <1>1, <2>1, EditionsWork, MarksStay DEF Steps
<1>4. Disk' /\ NoWriteLost' /\ Shots' /\ OldShots /\ Entry(n, r)'
  <2>1. Disk' /\ NoWriteLost' /\ Shots' /\ OldShots
    BY <1>1, <1>3, Untouched
  <2>2. r.from \in 0..(n - 1) /\ r.snap \in 0..taken' /\ (r.rc # None <=> r.pc = "done")
    BY <1>1, <1>2 DEF Entry, shots
  <2> QED
    BY <1>1, <1>2, <2>1, <2>2, EntryStays
<1>5. q.from \in 0..Len(run) /\ link \in 0..Len(run) /\ (q.mode = "rollback" => q.to \in 0..Len(run))
  BY <1>1 DEF Entry, Places, Disk
<1>6. Places(n, r)' /\ Copying(r)' /\ Holds(r)'
  <2>1. Places(n, r)'
    BY <1>1, <1>2, <1>3, <1>5 DEF Places, SamePlan, disk, Before, Stopped, Moved, Back
  <2>2. Copying(r)' /\ Holds(r)'
    BY <1>1, <1>2 DEF Copying, Holds, SamePlan, disk, shots, Before, Moved, Back
  <2> QED
    BY <2>1, <2>2
<1>7. Clean => Readable(n, r)' /\ (NoneLeft' => Mapped(r)')
  BY <1>1, <1>2, <1>3, <1>5 DEF Readable, SamePlan, Mapped, disk, life, Before, Moved, Back
<1> QED
  BY <1>1, <1>2, <1>3, <1>4, <1>6, <1>7, Worked DEF Steps

\* The probe fails: nothing was touched.
LEMMA GivesUp ==
  ASSUME UpgradeAssumption, UInv, NEW n, NEW q \in RunRecs, NEW r \in RunRecs,
         Steps(n, q, r), q.pc = "probe",
         r = [q EXCEPT !.pc = "done", !.rc = 1, !.impact = "none"],
         UNCHANGED <<disk, shots, area, life, tools, ask>>
  PROVE  UInv'
<1>1. /\ Active(n) /\ n = Len(run) /\ n \in Nat \ {0} /\ run \in Seq(RunRecs)
      /\ Entry(n, q) /\ Places(n, q) /\ Holds(q)
      /\ Clean => Readable(n, q) /\ (NoneLeft => Mapped(q))
      /\ Disk /\ Shots /\ NoWriteLost /\ None \notin Nat
  BY Standing DEF Steps
<1>2. /\ SamePlan(q, r) /\ r.from = q.from /\ r.snap = q.snap /\ r.maps = q.maps
      /\ r.seen = q.seen /\ r.impact = "none" /\ r.pc = "done" /\ r.rc = 1
  BY DEF RunRecs, SamePlan
<1>3. /\ Len(run') = Len(run) /\ \A v \in 0..Len(run) : SchemaOf(v)' = SchemaOf(v)
      /\ NoneLeft' = NoneLeft
  <2>1. r.wheel = run[n].wheel /\ r.maps = run[n].maps
    BY <1>2 DEF SamePlan, Steps
  <2> QED
    BY <1>1, <2>1, EditionsWork, MarksStay DEF Steps
<1>4. Disk' /\ NoWriteLost' /\ Shots' /\ OldShots /\ Entry(n, r)'
  <2>1. Disk' /\ NoWriteLost' /\ Shots' /\ OldShots
    BY <1>1, <1>3, Untouched
  <2>2. r.from \in 0..(n - 1) /\ r.snap \in 0..taken' /\ (r.rc # None <=> r.pc = "done")
    BY <1>1, <1>2 DEF Entry, shots
  <2> QED
    BY <1>1, <1>2, <2>1, <2>2, EntryStays
<1>5. Verdict(r)'
  BY <1>1, <1>2 DEF Verdict, Places, Holds, disk
<1>6. Clean => Left'
  <2>1. link \in 0..Len(run)
    BY <1>1 DEF Disk
  <2> QED
    BY <1>1, <1>3, <2>1 DEF Left, Readable, Mapped, disk, life, Before
<1> QED
  BY <1>1, <1>2, <1>4, <1>5, <1>6, Worked DEF Steps

\* The first step is taken: the run notes what runs and what it sees; an apply has
\* its venv.
LEMMA Begins ==
  ASSUME UpgradeAssumption, UInv, NEW n, NEW q \in RunRecs, NEW r \in RunRecs,
         Steps(n, q, r), q.pc = "begin",
         r = [q EXCEPT !.pc = "probe", !.from = link, !.seen = db.data],
         \/ q.mode = "apply" /\ venvs' = venvs \cup {n}
         \/ q.mode = "rollback" /\ venvs' = venvs,
         UNCHANGED <<link, db, aside, shots, area, life, tools, ask>>
  PROVE  UInv'
<1>1. /\ Active(n) /\ n = Len(run) /\ n \in Nat \ {0} /\ run \in Seq(RunRecs)
      /\ q.mode \in Modes /\ Entry(n, q) /\ Places(n, q) /\ Copying(q) /\ Holds(q)
      /\ Clean => Readable(n, q) /\ (NoneLeft => Mapped(q))
      /\ Disk /\ Shots /\ NoWriteLost
  BY Standing DEF Steps
<1>2. /\ SamePlan(q, r) /\ r.from = link /\ r.snap = q.snap /\ r.home = q.home /\ r.maps = q.maps
      /\ r.restored = q.restored /\ r.told = q.told /\ r.seen = db.data /\ r.impact = q.impact
      /\ r.pc = "probe" /\ r.rc = q.rc
  BY DEF RunRecs, SamePlan
<1>3. /\ Len(run') = Len(run) /\ \A v \in 0..Len(run) : SchemaOf(v)' = SchemaOf(v)
      /\ NoneLeft' = NoneLeft
  <2>1. r.wheel = run[n].wheel /\ r.maps = run[n].maps
    BY <1>2 DEF SamePlan, Steps
  <2> QED
    BY <1>1, <2>1, EditionsWork, MarksStay DEF Steps
<1>4. link \in venvs /\ link \in 0..(n - 1) /\ venvs \subseteq 0..Len(run)
      /\ (q.mode = "rollback" => q.to \in venvs)
  BY <1>1 DEF Places, Disk
<1>5. Disk'
  <2>1. venvs' \subseteq 0..Len(run') /\ link' \in venvs' /\ proc' \in venvs' \cup {None}
    BY <1>1, <1>3, <1>4 DEF Disk, life
  <2> QED
    BY <1>1, <1>3, <2>1 DEF Disk, life
<1>6. NoWriteLost' /\ Shots' /\ OldShots /\ Entry(n, r)'
  <2>1. NoWriteLost' /\ Shots' /\ OldShots
    BY <1>1, ShotsStay DEF NoWriteLost, life
  <2>2. r.from \in 0..(n - 1) /\ r.snap \in 0..taken' /\ (r.rc # None <=> r.pc = "done")
    BY <1>1, <1>2, <1>4 DEF Entry, shots
  <2> QED
    BY <1>1, <1>2, <2>1, <2>2, EntryStays
<1>7. Places(n, r)' /\ Copying(r)' /\ Holds(r)'
  <2>1. Places(n, r)'
    <3>1. r.mode = "rollback" => SchemaOf(r.to)' <= SchemaOf(r.from)'
      BY <1>1, <1>2, <1>3, <1>4 DEF Places, SamePlan
    <3> QED
      BY <1>1, <1>2, <1>3, <1>4, <3>1 DEF Places, SamePlan, Modes, Before, Stopped, Moved, Back
  <2>2. Copying(r)' /\ Holds(r)'
    BY <1>2 DEF Copying, Holds, Before, Moved, Back
  <2> QED
    BY <2>1, <2>2
<1>8. Clean => Readable(n, r)' /\ (NoneLeft' => Mapped(r)')
  BY <1>1, <1>2, <1>3, <1>4 DEF Readable, Mapped, SamePlan, life, Before, Moved, Back
<1> QED
  BY <1>1, <1>2, <1>5, <1>6, <1>7, <1>8, Worked DEF Steps

\* It is not: nothing was touched.
LEMMA Refused ==
  ASSUME UpgradeAssumption, UInv, NEW n, NEW q \in RunRecs, NEW r \in RunRecs,
         Steps(n, q, r), q.pc = "begin",
         r = [q EXCEPT !.pc = "done", !.from = link, !.seen = db.data, !.rc = 1],
         UNCHANGED <<disk, shots, area, life, tools, ask>>
  PROVE  UInv'
<1>1. /\ Active(n) /\ n = Len(run) /\ n \in Nat \ {0} /\ run \in Seq(RunRecs)
      /\ Entry(n, q) /\ Places(n, q)
      /\ Clean => Readable(n, q) /\ (NoneLeft => Mapped(q))
      /\ Disk /\ Shots /\ NoWriteLost /\ None \notin Nat
  BY Standing DEF Steps
<1>2. /\ SamePlan(q, r) /\ r.from = link /\ r.snap = q.snap /\ r.maps = q.maps
      /\ r.seen = db.data /\ r.impact = q.impact /\ r.pc = "done" /\ r.rc = 1
  BY DEF RunRecs, SamePlan
<1>3. /\ Len(run') = Len(run) /\ \A v \in 0..Len(run) : SchemaOf(v)' = SchemaOf(v)
      /\ NoneLeft' = NoneLeft
  <2>1. r.wheel = run[n].wheel /\ r.maps = run[n].maps
    BY <1>2 DEF SamePlan, Steps
  <2> QED
    BY <1>1, <2>1, EditionsWork, MarksStay DEF Steps
<1>4. link \in 0..(n - 1)
  BY <1>1 DEF Places, Disk
<1>5. Disk' /\ NoWriteLost' /\ Shots' /\ OldShots /\ Entry(n, r)'
  <2>1. Disk' /\ NoWriteLost' /\ Shots' /\ OldShots
    BY <1>1, <1>3, Untouched
  <2>2. r.from \in 0..(n - 1) /\ r.snap \in 0..taken' /\ (r.rc # None <=> r.pc = "done")
    BY <1>1, <1>2, <1>4 DEF Entry, shots
  <2> QED
    BY <1>1, <1>2, <2>1, <2>2, EntryStays
<1>6. Verdict(r)'
  BY <1>1, <1>2 DEF Verdict, Places, disk
<1>7. Clean => Left'
  BY <1>1, <1>3, <1>4 DEF Left, Readable, Mapped, disk, life, Before
<1> QED
  BY <1>1, <1>2, <1>5, <1>6, <1>7, Worked DEF Steps

\* The service is stopped.
LEMMA Stops ==
  ASSUME UpgradeAssumption, UInv, NEW n, NEW q \in RunRecs, NEW r \in RunRecs,
         Steps(n, q, r), q.pc = "stop", r = [q EXCEPT !.pc = "snapshot"],
         proc' = None, UNCHANGED <<disk, shots, area, writes, tools, ask>>
  PROVE  UInv'
<1>1. /\ Active(n) /\ n = Len(run) /\ n \in Nat \ {0} /\ run \in Seq(RunRecs)
      /\ q.mode \in Modes /\ Entry(n, q) /\ Places(n, q) /\ Copying(q) /\ Holds(q)
      /\ Clean => Readable(n, q) /\ (NoneLeft => Mapped(q))
      /\ Disk /\ Shots /\ NoWriteLost
  BY Standing DEF Steps
<1>2. /\ SamePlan(q, r) /\ r.from = q.from /\ r.snap = q.snap /\ r.home = q.home /\ r.maps = q.maps
      /\ r.restored = q.restored /\ r.told = q.told /\ r.seen = q.seen /\ r.impact = q.impact
      /\ r.pc = "snapshot" /\ r.rc = q.rc
  BY DEF RunRecs, SamePlan
<1>3. /\ Len(run') = Len(run) /\ \A v \in 0..Len(run) : SchemaOf(v)' = SchemaOf(v)
      /\ NoneLeft' = NoneLeft
  <2>1. r.wheel = run[n].wheel /\ r.maps = run[n].maps
    BY <1>2 DEF SamePlan, Steps
  <2> QED
    BY <1>1, <2>1, EditionsWork, MarksStay DEF Steps
<1>4. Disk' /\ NoWriteLost' /\ Shots' /\ OldShots /\ Entry(n, r)'
  <2>1. Disk' /\ NoWriteLost' /\ Shots' /\ OldShots
    BY <1>1, <1>3, ShotsStay DEF Disk, disk, NoWriteLost
  <2>2. r.from \in 0..(n - 1) /\ r.snap \in 0..taken' /\ (r.rc # None <=> r.pc = "done")
    BY <1>1, <1>2 DEF Entry, shots
  <2> QED
    BY <1>1, <1>2, <2>1, <2>2, EntryStays
<1>5. q.from \in 0..Len(run) /\ link \in 0..Len(run) /\ (q.mode = "rollback" => q.to \in 0..Len(run))
  BY <1>1 DEF Entry, Places, Disk
<1>6. Places(n, r)' /\ Copying(r)' /\ Holds(r)'
  <2>1. Places(n, r)'
    BY <1>1, <1>2, <1>3, <1>5 DEF Places, SamePlan, disk, Before, Stopped, Moved, Back
  <2>2. Copying(r)' /\ Holds(r)'
    BY <1>1, <1>2 DEF Copying, Holds, SamePlan, disk, shots, Before, Moved, Back
  <2> QED
    BY <2>1, <2>2
<1>7. Clean => Readable(n, r)' /\ (NoneLeft' => Mapped(r)')
  BY <1>1, <1>2, <1>3, <1>5 DEF Readable, Mapped, Places, SamePlan, disk, Before, Moved, Back
<1> QED
  BY <1>1, <1>2, <1>3, <1>4, <1>6, <1>7, Worked DEF Steps

\* The snapshot is taken: it holds what the run saw.
LEMMA SnapshotTaken ==
  ASSUME UpgradeAssumption, UInv, NEW n, NEW q \in RunRecs, NEW r \in RunRecs,
         Steps(n, q, r), q.pc = "snapshot",
         Create, r = [q EXCEPT !.pc = "swap", !.snap = taken + 1],
         UNCHANGED <<disk, area, life, tools, ask>>
  PROVE  UInv'
<1>1. /\ Active(n) /\ n = Len(run) /\ n \in Nat \ {0} /\ run \in Seq(RunRecs)
      /\ q.mode \in Modes /\ Entry(n, q) /\ Places(n, q) /\ Copying(q) /\ Holds(q)
      /\ Clean => Readable(n, q) /\ (NoneLeft => Mapped(q))
      /\ Disk /\ Shots /\ NoWriteLost
  BY Standing DEF Steps
<1>2. /\ SamePlan(q, r) /\ r.from = q.from /\ r.snap = taken + 1 /\ r.home = q.home /\ r.maps = q.maps
      /\ r.restored = q.restored /\ r.told = q.told /\ r.seen = q.seen /\ r.impact = q.impact
      /\ r.pc = "swap" /\ r.rc = q.rc
  BY DEF RunRecs, SamePlan
<1>3. /\ Len(run') = Len(run) /\ \A v \in 0..Len(run) : SchemaOf(v)' = SchemaOf(v)
      /\ NoneLeft' = NoneLeft
  <2>1. r.wheel = run[n].wheel /\ r.maps = run[n].maps
    BY <1>2 DEF SamePlan, Steps
  <2> QED
    BY <1>1, <2>1, EditionsWork, MarksStay DEF Steps
<1>4. /\ Shots' /\ OldShots /\ taken' = taken + 1
      /\ taken + 1 \in DOMAIN snaps' => snaps'[taken + 1] = db
  <2>1. db \in Base
    BY <1>1 DEF Disk
  <2> QED
    BY <1>1, <2>1, CreateTakes
<1>5. Disk' /\ NoWriteLost' /\ Entry(n, r)'
  <2>1. Disk' /\ NoWriteLost'
    BY <1>1, <1>3 DEF Disk, NoWriteLost, disk, life
  <2>2. r.from \in 0..(n - 1) /\ (r.rc # None <=> r.pc = "done")
    BY <1>1, <1>2 DEF Entry
  <2>3. r.snap \in 0..taken'
    BY <1>1, <1>2, <1>4 DEF Shots
  <2> QED
    BY <1>1, <1>2, <1>4, <2>1, <2>2, <2>3, EntryStays
<1>6. q.from \in 0..Len(run) /\ link \in 0..Len(run) /\ (q.mode = "rollback" => q.to \in 0..Len(run))
  BY <1>1 DEF Entry, Places, Disk
<1>7. Places(n, r)' /\ Copying(r)' /\ Holds(r)'
  <2>1. Places(n, r)'
    BY <1>1, <1>2, <1>3, <1>6 DEF Places, SamePlan, disk, life, Before, Stopped, Moved, Back
  <2>2. Copying(r)' /\ Holds(r)'
    BY <1>1, <1>2, <1>4 DEF Copying, Holds, disk, Before, Moved, Back
  <2> QED
    BY <2>1, <2>2
<1>8. Clean => Readable(n, r)' /\ (NoneLeft' => Mapped(r)')
  BY <1>1, <1>2, <1>3, <1>6 DEF Readable, Mapped, SamePlan, disk, Before, Moved, Back
<1> QED
  BY <1>1, <1>2, <1>4, <1>5, <1>7, <1>8, Worked DEF Steps

\* The service of the link opens the base that is there.
Reopens == proc' = link /\ db' = Opened(db, link)

\* What it then reads, and what it loses: nothing.
LEMMA Reopened ==
  ASSUME UpgradeAssumption, Disk, NoWriteLost, run \in Seq(RunRecs), Len(run') = Len(run),
         \A v \in 0..Len(run) : SchemaOf(v)' = SchemaOf(v),
         Reopens, UNCHANGED <<link, venvs, aside, writes, tools>>
  PROVE  /\ Disk' /\ NoWriteLost' /\ db'.data = db.data
         /\ db.schema <= SchemaOf(link) => db'.schema <= SchemaOf(link)'
<1>1. db \in Base /\ link \in 0..Len(run) /\ link \in venvs
  BY DEF Disk
<1>2. db.schema \in Nat /\ SchemaOf(link) \in Nat
  BY <1>1, BaseFields, SchemaType
<1>3. /\ db' \in Base /\ db'.data = db.data
      /\ db'.schema = IF db.schema < SchemaOf(link) THEN SchemaOf(link) ELSE db.schema
  BY <1>1, OpenedBase DEF Reopens
<1>4. SchemaOf(link)' = SchemaOf(link)
  BY <1>1
<1>5. Disk'
  BY <1>3 DEF Disk, Reopens
<1>6. NoWriteLost'
  BY <1>3 DEF NoWriteLost
<1> QED
  BY <1>2, <1>3, <1>4, <1>5, <1>6

\* The snapshot or the swap of a rollback fails: the service comes back as it was.
LEMMA ComesBack ==
  ASSUME UpgradeAssumption, UInv, NEW n, NEW q \in RunRecs, NEW r \in RunRecs,
         Steps(n, q, r), q.pc \in {"snapshot", "swap"},
         r = [q EXCEPT !.pc = "done", !.rc = 1, !.impact = "none"],
         Reopens, UNCHANGED <<link, venvs, aside, shots, area, writes, tools, ask>>
  PROVE  UInv'
<1>1. /\ Active(n) /\ n = Len(run) /\ n \in Nat \ {0} /\ run \in Seq(RunRecs)
      /\ Entry(n, q) /\ Places(n, q) /\ Holds(q)
      /\ Clean => Readable(n, q) /\ (NoneLeft => Mapped(q))
      /\ Disk /\ Shots /\ NoWriteLost /\ None \notin Nat
  BY Standing DEF Steps
<1>2. /\ SamePlan(q, r) /\ r.from = q.from /\ r.snap = q.snap /\ r.maps = q.maps
      /\ r.seen = q.seen /\ r.impact = "none" /\ r.pc = "done" /\ r.rc = 1
  BY DEF RunRecs, SamePlan
<1>3. /\ Len(run') = Len(run) /\ \A v \in 0..Len(run) : SchemaOf(v)' = SchemaOf(v)
      /\ NoneLeft' = NoneLeft
  <2>1. r.wheel = run[n].wheel /\ r.maps = run[n].maps
    BY <1>2 DEF SamePlan, Steps
  <2> QED
    BY <1>1, <2>1, EditionsWork, MarksStay DEF Steps
<1>4. /\ Disk' /\ NoWriteLost' /\ db'.data = db.data
      /\ db.schema <= SchemaOf(link) => db'.schema <= SchemaOf(link)'
  BY <1>1, <1>3, Reopened
<1>5. Shots' /\ OldShots /\ Entry(n, r)'
  <2>1. Shots' /\ OldShots
    BY <1>1, ShotsStay
  <2>2. r.from \in 0..(n - 1) /\ r.snap \in 0..taken' /\ (r.rc # None <=> r.pc = "done")
    BY <1>1, <1>2 DEF Entry, shots
  <2> QED
    BY <1>1, <1>2, <2>1, <2>2, EntryStays
<1>6. Verdict(r)'
  BY <1>1, <1>2, <1>4 DEF Verdict, Places, Holds
<1>7. Clean => Left'
  BY <1>1, <1>3, <1>4 DEF Left, Places, Readable, Mapped, Before, Reopens
<1> QED
  BY <1>1, <1>2, <1>4, <1>5, <1>6, <1>7, Worked DEF Steps

\* An exception nobody caught: the verdict says nothing of the disk.
LEMMA IsLost ==
  ASSUME UpgradeAssumption, UInv, NEW n, NEW q \in RunRecs, NEW r \in RunRecs,
         Steps(n, q, r),
         r = [q EXCEPT !.pc = "done", !.rc = 2, !.impact = "unknown", !.told = FALSE],
         proc' \in {proc, None}, UNCHANGED <<disk, shots, area, writes, tools, ask>>
  PROVE  UInv'
<1>1. /\ Active(n) /\ n = Len(run) /\ n \in Nat \ {0} /\ run \in Seq(RunRecs)
      /\ Entry(n, q) /\ Disk /\ Shots /\ NoWriteLost /\ None \notin Nat
  BY Standing DEF Steps
<1>2. /\ SamePlan(q, r) /\ r.from = q.from /\ r.snap = q.snap
      /\ r.impact = "unknown" /\ ~r.told /\ r.pc = "done" /\ r.rc = 2
  BY DEF RunRecs, SamePlan
<1>3. Len(run') = Len(run)
  BY <1>1, <1>2, EditionsWork DEF SamePlan, Steps
<1>4. Disk' /\ NoWriteLost' /\ Shots' /\ OldShots /\ Entry(n, r)'
  <2>1. Disk' /\ NoWriteLost' /\ Shots' /\ OldShots
    BY <1>1, <1>3, ShotsStay DEF Disk, disk, NoWriteLost
  <2>2. r.from \in 0..(n - 1) /\ r.snap \in 0..taken' /\ (r.rc # None <=> r.pc = "done")
    BY <1>1, <1>2 DEF Entry, shots
  <2> QED
    BY <1>1, <1>2, <2>1, <2>2, EntryStays
<1>5. Verdict(r)' /\ ~Sound(n, r)
  BY <1>2 DEF Verdict, Sound
<1> QED
  BY <1>1, <1>2, <1>4, <1>5, Worked DEF Steps

\* The service that is started on a base, at a link that may have moved.
LEMMA Serves ==
  ASSUME UpgradeAssumption, Disk, run \in Seq(RunRecs), Len(run') = Len(run),
         \A v \in 0..Len(run) : SchemaOf(v)' = SchemaOf(v),
         NEW w \in venvs, NEW b \in Base, link' = w, proc' = w, db' = Opened(b, w),
         UNCHANGED <<venvs, aside, writes, tools>>
  PROVE  /\ Disk' /\ db'.data = b.data
         /\ b.schema \in Nat /\ SchemaOf(w) \in Nat /\ db'.schema \in Nat
         /\ db'.schema = b.schema \/ db'.schema = SchemaOf(w)
         /\ b.schema <= SchemaOf(w) => db'.schema <= SchemaOf(w)
<1>1. w \in 0..Len(run)
  BY DEF Disk
<1>2. b.schema \in Nat /\ SchemaOf(w) \in Nat
  BY <1>1, BaseFields, SchemaType
<1>3. /\ db' \in Base /\ db'.data = b.data
      /\ db'.schema = IF b.schema < SchemaOf(w) THEN SchemaOf(w) ELSE b.schema
  BY <1>1, OpenedBase
<1>4. Disk'
  BY <1>3 DEF Disk
<1> QED
  BY <1>2, <1>3, <1>4

\* An apply moves the link, and the new service opens the base.
LEMMA SwappedForward ==
  ASSUME UpgradeAssumption, UInv, NEW n, NEW q \in RunRecs, NEW r \in RunRecs,
         Steps(n, q, r), q.pc = "swap", q.mode = "apply", r = [q EXCEPT !.pc = "maps"],
         link' = n, Start(n, db),
         UNCHANGED <<venvs, aside, shots, area, writes, tools, ask>>
  PROVE  UInv'
<1>1. /\ Active(n) /\ n = Len(run) /\ n \in Nat \ {0} /\ run \in Seq(RunRecs)
      /\ Entry(n, q) /\ Places(n, q) /\ Holds(q)
      /\ Clean => Readable(n, q) /\ (NoneLeft => Mapped(q))
      /\ Disk /\ Shots /\ NoWriteLost
  BY Standing DEF Steps
<1>2. /\ SamePlan(q, r) /\ r.from = q.from /\ r.snap = q.snap /\ r.home = q.home /\ r.maps = q.maps
      /\ r.restored = q.restored /\ r.told = q.told /\ r.seen = q.seen /\ r.impact = q.impact
      /\ r.pc = "maps" /\ r.rc = q.rc
  BY DEF RunRecs, SamePlan
<1>3. /\ Len(run') = Len(run) /\ \A v \in 0..Len(run) : SchemaOf(v)' = SchemaOf(v)
      /\ NoneLeft' = NoneLeft
  <2>1. r.wheel = run[n].wheel /\ r.maps = run[n].maps
    BY <1>2 DEF SamePlan, Steps
  <2> QED
    BY <1>1, <2>1, EditionsWork, MarksStay DEF Steps
<1>4. n \in venvs /\ q.to = n /\ db \in Base /\ proc' = n /\ db' = Opened(db, n)
  BY <1>1 DEF Places, Entry, Disk, Start
<1>5. /\ Disk' /\ db'.data = db.data
      /\ db'.schema = db.schema \/ db'.schema = SchemaOf(n)
      /\ SchemaOf(n) \in Nat
  BY <1>1, <1>3, <1>4, Serves
<1>6. NoWriteLost' /\ Shots' /\ OldShots /\ Entry(n, r)'
  <2>1. NoWriteLost' /\ Shots' /\ OldShots
    BY <1>1, <1>5, ShotsStay DEF NoWriteLost
  <2>2. r.from \in 0..(n - 1) /\ r.snap \in 0..taken' /\ (r.rc # None <=> r.pc = "done")
    BY <1>1, <1>2 DEF Entry, shots
  <2> QED
    BY <1>1, <1>2, <2>1, <2>2, EntryStays
<1>7. q.from \in 0..Len(run) /\ n \in 0..Len(run)
  BY <1>1 DEF Entry
<1>8. Places(n, r)' /\ Copying(r)' /\ Holds(r)'
  <2>1. Places(n, r)'
    BY <1>1, <1>2, <1>4 DEF Places, SamePlan, Before, Stopped, Moved, Back
  <2>2. Copying(r)' /\ Holds(r)'
    BY <1>1, <1>2, <1>5 DEF Copying, Holds, SamePlan, shots, Before, Moved, Back
  <2> QED
    BY <2>1, <2>2
<1>9. Clean => Readable(n, r)' /\ (NoneLeft' => Mapped(r)')
  <2>1. r.mode = "apply"
    BY <1>2 DEF SamePlan
  <2>2. Clean => db'.schema <= SchemaOf(r.from)' \/ db'.schema <= SchemaOf(n)'
    BY <1>1, <1>2, <1>3, <1>5, <1>7 DEF Readable
  <2> QED
    BY <1>2, <2>1, <2>2 DEF Readable, Mapped, Before, Moved, Back
<1> QED
  BY <1>1, <1>2, <1>5, <1>6, <1>8, <1>9, Worked DEF Steps

\* A rollback moves the link first; the base waits, with the service stopped.
LEMMA SwappedBack ==
  ASSUME UpgradeAssumption, UInv, NEW n, NEW q \in RunRecs, NEW r \in RunRecs,
         Steps(n, q, r), q.pc = "swap", q.mode = "rollback", r = [q EXCEPT !.pc = "aside"],
         link' = q.to, UNCHANGED <<proc, db, venvs, aside, shots, area, writes, tools, ask>>
  PROVE  UInv'
<1>1. /\ Active(n) /\ n = Len(run) /\ n \in Nat \ {0} /\ run \in Seq(RunRecs)
      /\ Entry(n, q) /\ Places(n, q) /\ Holds(q)
      /\ Clean => Readable(n, q) /\ (NoneLeft => Mapped(q))
      /\ Disk /\ Shots /\ NoWriteLost
  BY Standing DEF Steps
<1>2. /\ SamePlan(q, r) /\ r.from = q.from /\ r.snap = q.snap /\ r.home = q.home /\ r.maps = q.maps
      /\ r.restored = q.restored /\ r.told = q.told /\ r.seen = q.seen /\ r.impact = q.impact
      /\ r.pc = "aside" /\ r.rc = q.rc
  BY DEF RunRecs, SamePlan
<1>3. /\ Len(run') = Len(run) /\ \A v \in 0..Len(run) : SchemaOf(v)' = SchemaOf(v)
      /\ NoneLeft' = NoneLeft
  <2>1. r.wheel = run[n].wheel /\ r.maps = run[n].maps
    BY <1>2 DEF SamePlan, Steps
  <2> QED
    BY <1>1, <2>1, EditionsWork, MarksStay DEF Steps
<1>4. q.to \in venvs /\ q.to \in 0..Len(run) /\ q.from \in 0..Len(run) /\ link = q.from
  BY <1>1 DEF Places, Entry, Disk
<1>5. Disk' /\ NoWriteLost' /\ Shots' /\ OldShots /\ Entry(n, r)'
  <2>1. Disk' /\ NoWriteLost' /\ Shots' /\ OldShots
    BY <1>1, <1>3, <1>4, ShotsStay DEF Disk, NoWriteLost
  <2>2. r.from \in 0..(n - 1) /\ r.snap \in 0..taken' /\ (r.rc # None <=> r.pc = "done")
    BY <1>1, <1>2 DEF Entry, shots
  <2> QED
    BY <1>1, <1>2, <2>1, <2>2, EntryStays
<1>6. Places(n, r)' /\ Copying(r)' /\ Holds(r)'
  <2>1. Places(n, r)'
    BY <1>1, <1>2, <1>3, <1>4 DEF Places, SamePlan, Before, Stopped, Moved, Back
  <2>2. Copying(r)' /\ Holds(r)'
    BY <1>1, <1>2 DEF Copying, Holds, shots, Before, Moved, Back
  <2> QED
    BY <2>1, <2>2
<1>7. Clean => Readable(n, r)' /\ (NoneLeft' => Mapped(r)')
  <2>1. Clean => db'.schema <= SchemaOf(r.from)'
    BY <1>1, <1>2, <1>3, <1>4 DEF Readable
  <2>2. r.mode = "rollback" /\ ~r.home
    BY <1>1, <1>2 DEF Places, SamePlan
  <2>3. Clean /\ NoneLeft' => tools' = r.from
    BY <1>1, <1>2, <1>3, <1>4 DEF Mapped
  <2> QED
    BY <1>2, <2>1, <2>2, <2>3 DEF Readable, Mapped, Before, Moved, Back
<1> QED
  BY <1>1, <1>2, <1>5, <1>6, <1>7, Worked DEF Steps

\* What a restore replaces is moved aside.
LEMMA MovedAside ==
  ASSUME UpgradeAssumption, UInv, NEW n, NEW q \in RunRecs, NEW r \in RunRecs,
         Steps(n, q, r), q.pc = "aside", r = [q EXCEPT !.pc = "copy"],
         Restorable(n), aside' = aside \cup ({db} \ {NoBase}), db' = NoBase,
         UNCHANGED <<link, venvs, shots, area, life, tools, ask>>
  PROVE  UInv'
<1>1. /\ Active(n) /\ n = Len(run) /\ n \in Nat \ {0} /\ run \in Seq(RunRecs)
      /\ Entry(n, q) /\ Places(n, q) /\ Holds(q)
      /\ Clean => Readable(n, q) /\ (NoneLeft => Mapped(q))
      /\ Disk /\ Shots /\ NoWriteLost
  BY Standing DEF Steps
<1>2. /\ SamePlan(q, r) /\ r.from = q.from /\ r.snap = q.snap /\ r.home = q.home /\ r.maps = q.maps
      /\ r.restored = q.restored /\ r.told = q.told /\ r.seen = q.seen /\ r.impact = q.impact
      /\ r.pc = "copy" /\ r.rc = q.rc
  BY DEF RunRecs, SamePlan
<1>3. /\ Len(run') = Len(run) /\ \A v \in 0..Len(run) : SchemaOf(v)' = SchemaOf(v)
      /\ NoneLeft' = NoneLeft
  <2>1. r.wheel = run[n].wheel /\ r.maps = run[n].maps
    BY <1>2 DEF SamePlan, Steps
  <2> QED
    BY <1>1, <2>1, EditionsWork, MarksStay DEF Steps
<1>4. link \in 0..Len(run) /\ q.from \in 0..Len(run) /\ (q.mode = "rollback" => q.to \in 0..Len(run))
  BY <1>1 DEF Places, Entry, Disk
<1>5. Disk' /\ NoWriteLost'
  <2>1. aside' \subseteq Base /\ db' \in Base
    BY <1>1, NoBaseIsBase DEF Disk
  <2>2. NoWriteLost'
    <3>1. db.data \subseteq UNION {b.data : b \in aside'}
      <4>1. CASE db = NoBase
        BY <4>1, NoBaseIsBase
      <4>2. CASE db # NoBase
        BY <4>2
      <4> QED
        BY <4>1, <4>2
    <3>2. UNION {b.data : b \in aside} \subseteq UNION {b.data : b \in aside'}
      OBVIOUS
    <3> QED
      BY <1>1, <3>1, <3>2 DEF NoWriteLost, life
  <2> QED
    BY <1>1, <1>3, <2>1, <2>2 DEF Disk, life
<1>6. Shots' /\ OldShots /\ Entry(n, r)'
  <2>1. Shots' /\ OldShots
    BY <1>1, ShotsStay
  <2>2. r.from \in 0..(n - 1) /\ r.snap \in 0..taken' /\ (r.rc # None <=> r.pc = "done")
    BY <1>1, <1>2 DEF Entry, shots
  <2> QED
    BY <1>1, <1>2, <2>1, <2>2, EntryStays
<1>7. Places(n, r)' /\ Copying(r)' /\ Holds(r)'
  <2>1. Places(n, r)'
    BY <1>1, <1>2, <1>3, <1>4 DEF Places, SamePlan, life, Before, Stopped, Moved, Back
  <2>2. Copied(r) \in DOMAIN snaps /\ snaps[Copied(r)].schema <= SchemaOf(link)
    BY <1>2 DEF Restorable, Source, Copied, SamePlan, Steps
  <2>3. Copying(r)'
    BY <1>3, <1>4, <2>2 DEF Copying, Copied, shots
  <2>4. Holds(r)'
    BY <1>1, <1>2 DEF Holds, shots, Before, Moved, Back
  <2> QED
    BY <2>1, <2>3, <2>4
<1>8. Clean => Readable(n, r)' /\ (NoneLeft' => Mapped(r)')
  BY <1>1, <1>2, <1>3 DEF Readable, Mapped, SamePlan, Before, Moved, Back
<1> QED
  BY <1>1, <1>2, <1>5, <1>6, <1>7, <1>8, Worked DEF Steps

\* The snapshot is copied and the service of the link opens it.
LEMMA CopiedBack ==
  ASSUME UpgradeAssumption, UInv, NEW n, NEW q \in RunRecs, NEW r \in RunRecs,
         Steps(n, q, r), q.pc = "copy",
         r = [q EXCEPT !.pc = IF q.home THEN "remaps" ELSE "maps"],
         Start(link, snaps[Copied(q)]),
         UNCHANGED <<link, venvs, aside, shots, area, writes, tools, ask>>
  PROVE  UInv'
<1>1. /\ Active(n) /\ n = Len(run) /\ n \in Nat \ {0} /\ run \in Seq(RunRecs)
      /\ Entry(n, q) /\ Places(n, q) /\ Copying(q) /\ Holds(q)
      /\ Clean => (NoneLeft => Mapped(q))
      /\ Disk /\ Shots /\ NoWriteLost
  BY Standing DEF Steps
<1>2. /\ SamePlan(q, r) /\ r.from = q.from /\ r.snap = q.snap /\ r.home = q.home /\ r.maps = q.maps
      /\ r.restored = q.restored /\ r.told = q.told /\ r.seen = q.seen /\ r.impact = q.impact
      /\ r.pc = (IF q.home THEN "remaps" ELSE "maps") /\ r.rc = q.rc
  BY DEF RunRecs, SamePlan
<1>3. /\ Len(run') = Len(run) /\ \A v \in 0..Len(run) : SchemaOf(v)' = SchemaOf(v)
      /\ NoneLeft' = NoneLeft
  <2>1. r.wheel = run[n].wheel /\ r.maps = run[n].maps
    BY <1>2 DEF SamePlan, Steps
  <2> QED
    BY <1>1, <2>1, EditionsWork, MarksStay DEF Steps
<1>4. PICK b : b = snaps[Copied(q)]
  OBVIOUS
<1>5. /\ b \in Base /\ link \in venvs /\ proc' = link /\ db' = Opened(b, link)
      /\ Copied(q) \in DOMAIN snaps /\ b.schema <= SchemaOf(link) /\ db = NoBase
  BY <1>1, <1>4 DEF Copying, Shots, Disk, Start
<1>6. Disk' /\ db'.data = b.data /\ db'.schema <= SchemaOf(link)
  BY <1>1, <1>3, <1>5, Serves
<1>7. NoWriteLost'
  BY <1>1, <1>5, NoBaseIsBase DEF NoWriteLost
<1>8. Shots' /\ OldShots /\ Entry(n, r)'
  <2>1. Shots' /\ OldShots
    BY <1>1, ShotsStay
  <2>2. r.from \in 0..(n - 1) /\ r.snap \in 0..taken' /\ (r.rc # None <=> r.pc = "done")
    BY <1>1, <1>2 DEF Entry, shots
  <2> QED
    BY <1>1, <1>2, <2>1, <2>2, EntryStays
<1>9. link \in 0..Len(run) /\ q.from \in 0..Len(run) /\ (q.mode = "rollback" => q.to \in 0..Len(run))
  BY <1>1 DEF Places, Entry, Disk
<1>10. db'.schema <= SchemaOf(link)' /\ q.mode \in Modes
  BY <1>3, <1>6, <1>9, RunFields
<1>11. CASE q.home
  <2>1. r.pc = "remaps" /\ r.home /\ link = q.from
    BY <1>1, <1>2, <1>11 DEF Places
  <2>2. Places(n, r)'
    BY <1>1, <1>2, <1>3, <1>5, <1>9, <2>1 DEF Places, SamePlan, Before, Stopped, Moved, Back
  <2>3. Copying(r)' /\ Holds(r)'
    <3>1. q.seen \subseteq db'.data
      BY <1>1, <1>4, <1>5, <1>6, <1>11 DEF Holds, Copied, Before
    <3> QED
      BY <1>1, <1>2, <2>1, <3>1 DEF Copying, Holds, shots, Before, Moved, Back
  <2>4. Clean => Readable(n, r)' /\ (NoneLeft' => Mapped(r)')
    BY <1>10, <2>1 DEF Readable, Mapped, Before, Moved, Back
  <2> QED
    BY <1>1, <1>2, <1>6, <1>7, <1>8, <2>1, <2>2, <2>3, <2>4, Worked DEF Steps
<1>12. CASE ~q.home
  <2>1. r.pc = "maps" /\ ~r.home /\ q.mode = "rollback" /\ link = q.to
    BY <1>1, <1>2, <1>12 DEF Places
  <2>2. Places(n, r)'
    BY <1>1, <1>2, <1>3, <1>5, <1>9, <2>1 DEF Places, SamePlan, Before, Stopped, Moved, Back
  <2>3. Copying(r)' /\ Holds(r)'
    <3>1. snaps[q.aim].data \subseteq db'.data
      BY <1>4, <1>6, <1>12, <2>1 DEF Copied
    <3> QED
      BY <1>1, <1>2, <2>1, <3>1 DEF Copying, Holds, SamePlan, shots, Before, Moved, Back
  <2>4. Clean => Readable(n, r)' /\ (NoneLeft' => Mapped(r)')
    BY <1>2, <1>10, <2>1 DEF Readable, Mapped, SamePlan, Before, Moved, Back
  <2> QED
    BY <1>1, <1>2, <1>6, <1>7, <1>8, <2>1, <2>2, <2>3, <2>4, Worked DEF Steps
<1> QED
  BY <1>11, <1>12

\* An apply that cannot put the data back goes on with the new edition.
LEMMA FailsForward ==
  ASSUME UpgradeAssumption, UInv, NEW n, NEW q \in RunRecs, NEW r \in RunRecs,
         Steps(n, q, r), q.pc \in {"aside", "copy"}, q.mode = "apply",
         r = [q EXCEPT !.pc = "done", !.rc = 2, !.impact = "forward"],
         link' = n, Start(n, db), UNCHANGED <<venvs, aside, shots, area, writes, tools, ask>>
  PROVE  UInv'
<1>1. /\ Active(n) /\ n = Len(run) /\ n \in Nat \ {0} /\ run \in Seq(RunRecs)
      /\ Entry(n, q) /\ Places(n, q) /\ Copying(q)
      /\ Clean => Readable(n, q) /\ (NoneLeft => Mapped(q))
      /\ Disk /\ Shots /\ NoWriteLost /\ None \notin Nat
  BY Standing DEF Steps
<1>2. /\ SamePlan(q, r) /\ r.from = q.from /\ r.snap = q.snap /\ r.maps = q.maps
      /\ r.impact = "forward" /\ r.pc = "done" /\ r.rc = 2
  BY DEF RunRecs, SamePlan
<1>3. /\ Len(run') = Len(run) /\ \A v \in 0..Len(run) : SchemaOf(v)' = SchemaOf(v)
      /\ NoneLeft' = NoneLeft
  <2>1. r.wheel = run[n].wheel /\ r.maps = run[n].maps
    BY <1>2 DEF SamePlan, Steps
  <2> QED
    BY <1>1, <2>1, EditionsWork, MarksStay DEF Steps
<1>4. n \in venvs /\ q.to = n /\ q.home /\ db \in Base /\ proc' = n /\ db' = Opened(db, n)
  BY <1>1 DEF Places, Entry, Disk, Start
<1>5. /\ Disk' /\ db'.data = db.data /\ db.schema \in Nat /\ SchemaOf(n) \in Nat
      /\ db.schema <= SchemaOf(n) => db'.schema <= SchemaOf(n)
  BY <1>1, <1>3, <1>4, Serves
<1>6. NoWriteLost' /\ Shots' /\ OldShots /\ Entry(n, r)'
  <2>1. NoWriteLost' /\ Shots' /\ OldShots
    BY <1>1, <1>5, ShotsStay DEF NoWriteLost
  <2>2. r.from \in 0..(n - 1) /\ r.snap \in 0..taken' /\ (r.rc # None <=> r.pc = "done")
    BY SMTT(30), <1>1, <1>2 DEF Entry, shots
  <2> QED
    BY <1>1, <1>2, <2>1, <2>2, EntryStays
<1>7. Verdict(r)'
  BY <1>2 DEF Verdict
<1>8. ASSUME Clean, Sound(n, r) PROVE Left'
  <2>1. SchemaOf(q.from) <= SchemaOf(n)
    <3>1. SchemaOf(n) \in Nat /\ SchemaOf(q.from) \in Nat
      BY SMTT(30), <1>1, SchemaType DEF Entry
    <3>2. ~(SchemaOf(n) < SchemaOf(q.from))
      BY <1>2, <1>8 DEF Sound, SamePlan
    <3> QED
      BY <3>1, <3>2
  <2>2. db.schema <= SchemaOf(n)
    <3>1. CASE q.pc = "copy"
      BY <1>1, <1>5, <3>1, NoBaseIsBase DEF Copying
    <3>2. CASE q.pc = "aside"
      <4>1. db.schema <= SchemaOf(q.from) \/ db.schema <= SchemaOf(n)
        BY <1>1, <1>8, <3>2 DEF Readable
      <4>2. SchemaOf(q.from) \in Nat
        BY <1>1, SchemaType DEF Entry
      <4> QED
        BY <1>5, <2>1, <4>1, <4>2
    <3> QED
      BY <3>1, <3>2
  <2>3. proc' = link' /\ db'.schema <= SchemaOf(link)'
    BY <1>1, <1>3, <1>4, <1>5, <2>2
  <2>4. NoneLeft => tools' = link'
    BY <1>1, <1>4, <1>8 DEF Mapped
  <2> QED
    BY <1>3, <2>3, <2>4 DEF Left
<1> QED
  BY <1>1, <1>2, <1>5, <1>6, <1>7, <1>8, Worked DEF Steps

\* A rollback that cannot put the data back goes home as before.
LEMMA FailsAsBefore ==
  ASSUME UpgradeAssumption, UInv, NEW n, NEW q \in RunRecs, NEW r \in RunRecs,
         Steps(n, q, r), q.pc \in {"aside", "copy"}, q.mode = "rollback", ~q.home,
         r = [q EXCEPT !.pc = "done", !.rc = 1, !.impact = "asBefore"],
         link' = q.from, Start(q.from, db),
         UNCHANGED <<venvs, aside, shots, area, writes, tools, ask>>
  PROVE  UInv'
<1>1. /\ Active(n) /\ n = Len(run) /\ n \in Nat \ {0} /\ run \in Seq(RunRecs)
      /\ Entry(n, q) /\ Places(n, q) /\ Copying(q)
      /\ Clean => Readable(n, q) /\ (NoneLeft => Mapped(q))
      /\ Disk /\ Shots /\ NoWriteLost /\ None \notin Nat
  BY Standing DEF Steps
<1>2. /\ SamePlan(q, r) /\ r.from = q.from /\ r.snap = q.snap /\ r.maps = q.maps
      /\ r.impact = "asBefore" /\ r.pc = "done" /\ r.rc = 1
  BY DEF RunRecs, SamePlan
<1>3. /\ Len(run') = Len(run) /\ \A v \in 0..Len(run) : SchemaOf(v)' = SchemaOf(v)
      /\ NoneLeft' = NoneLeft
  <2>1. r.wheel = run[n].wheel /\ r.maps = run[n].maps
    BY <1>2 DEF SamePlan, Steps
  <2> QED
    BY <1>1, <2>1, EditionsWork, MarksStay DEF Steps
<1>4. PICK w : w = q.from
  OBVIOUS
<1>5. /\ w \in venvs /\ w \in 0..Len(run) /\ db \in Base
      /\ link' = w /\ proc' = w /\ db' = Opened(db, w)
  BY <1>1, <1>4 DEF Places, Entry, Disk, Start
<1>6. /\ Disk' /\ db'.data = db.data /\ SchemaOf(w) \in Nat
      /\ db.schema <= SchemaOf(w) => db'.schema <= SchemaOf(w)
  BY <1>1, <1>3, <1>5, Serves
<1>7. NoWriteLost' /\ Shots' /\ OldShots /\ Entry(n, r)'
  <2>1. NoWriteLost' /\ Shots' /\ OldShots
    BY <1>1, <1>6, ShotsStay DEF NoWriteLost
  <2>2. r.from \in 0..(n - 1) /\ r.snap \in 0..taken' /\ (r.rc # None <=> r.pc = "done")
    BY <1>1, <1>2 DEF Entry, shots
  <2> QED
    BY <1>1, <1>2, <2>1, <2>2, EntryStays
<1>8. Verdict(r)'
  BY <1>2 DEF Verdict
<1>9. ASSUME Clean PROVE Left'
  <2>1. db.schema <= SchemaOf(w)
    <3>1. CASE q.pc = "copy"
      BY <1>1, <1>6, <3>1, NoBaseIsBase DEF Copying
    <3>2. CASE q.pc = "aside"
      BY <1>1, <1>4, <1>9, <3>2 DEF Readable
    <3> QED
      BY <3>1, <3>2
  <2>2. NoneLeft => tools' = link'
    BY <1>1, <1>4, <1>5, <1>9 DEF Mapped
  <2> QED
    BY <1>3, <1>5, <1>6, <2>1, <2>2 DEF Left
<1> QED
  BY <1>1, <1>2, <1>6, <1>7, <1>8, <1>9, Worked DEF Steps

\* The data of the way home cannot be put back: the service starts on what is
\* there, and the verdict will say so.
LEMMA FailsAtHome ==
  ASSUME UpgradeAssumption, UInv, NEW n, NEW q \in RunRecs, NEW r \in RunRecs,
         Steps(n, q, r), q.pc \in {"aside", "copy"}, q.mode = "rollback", q.home,
         r = [q EXCEPT !.pc = "remaps", !.restored = FALSE],
         Reopens, UNCHANGED <<link, venvs, aside, shots, area, writes, tools, ask>>
  PROVE  UInv'
<1>1. /\ Active(n) /\ n = Len(run) /\ n \in Nat \ {0} /\ run \in Seq(RunRecs)
      /\ Entry(n, q) /\ Places(n, q) /\ Copying(q) /\ Holds(q)
      /\ Clean => Readable(n, q)
      /\ Disk /\ Shots /\ NoWriteLost
  BY Standing DEF Steps
<1>2. /\ SamePlan(q, r) /\ r.from = q.from /\ r.snap = q.snap /\ r.home = q.home /\ r.maps = q.maps
      /\ ~r.restored /\ r.told = q.told /\ r.seen = q.seen /\ r.impact = q.impact
      /\ r.pc = "remaps" /\ r.rc = q.rc
  BY DEF RunRecs, SamePlan
<1>3. /\ Len(run') = Len(run) /\ \A v \in 0..Len(run) : SchemaOf(v)' = SchemaOf(v)
  BY <1>1, <1>2, EditionsWork DEF SamePlan, Steps
<1>4. /\ Disk' /\ NoWriteLost' /\ db'.data = db.data
      /\ db.schema <= SchemaOf(link) => db'.schema <= SchemaOf(link)'
  BY <1>1, <1>3, Reopened
<1>5. Shots' /\ OldShots /\ Entry(n, r)'
  <2>1. Shots' /\ OldShots
    BY <1>1, ShotsStay
  <2>2. r.from \in 0..(n - 1) /\ r.snap \in 0..taken' /\ (r.rc # None <=> r.pc = "done")
    BY <1>1, <1>2 DEF Entry, shots
  <2> QED
    BY <1>1, <1>2, <2>1, <2>2, EntryStays
<1>6. link = q.from /\ link \in 0..Len(run) /\ q.to \in 0..Len(run)
  BY <1>1 DEF Places, Disk
<1>7. Places(n, r)' /\ Copying(r)' /\ Holds(r)'
  <2>1. Places(n, r)'
    BY <1>1, <1>2, <1>3, <1>6 DEF Places, SamePlan, Reopens, Before, Stopped, Moved, Back
  <2>2. Copying(r)' /\ Holds(r)'
    BY <1>1, <1>2 DEF Copying, Holds, shots, Before, Moved, Back
  <2> QED
    BY <2>1, <2>2
<1>8. ASSUME Clean PROVE Readable(n, r)' /\ (NoneLeft' => Mapped(r)')
  <2>1. SchemaOf(link) \in Nat
    BY <1>1, <1>6, SchemaType
  <2>2. db.schema <= SchemaOf(link)
    <3>1. CASE q.pc = "copy"
      BY <1>1, <2>1, <3>1, NoBaseIsBase DEF Copying
    <3>2. CASE q.pc = "aside"
      BY <1>1, <1>6, <1>8, <3>2 DEF Readable
    <3> QED
      BY <3>1, <3>2
  <2> QED
    BY <1>2, <1>4, <2>2 DEF Readable, Mapped, Before, Moved, Back
<1> QED
  BY <1>1, <1>2, <1>4, <1>5, <1>7, <1>8, Worked DEF Steps

\* The maps of the link's edition are posed, or the run says they are left.
Marked(q, r, next, mark) ==
  /\ r = [q EXCEPT !.pc = next, !.maps = mark]
  /\ next = IF q.pc = "maps" THEN "verify" ELSE "health"
  /\ tools' = link \/ (tools' = tools /\ mark = "left")

\* The maps are posed, or left to a verdict that says so.
LEMMA MapsPosed ==
  ASSUME UpgradeAssumption, UInv, NEW n, NEW q \in RunRecs, NEW r \in RunRecs,
         Steps(n, q, r), q.pc \in {"maps", "remaps"}, NEW next, NEW mark,
         Marked(q, r, next, mark),
         UNCHANGED <<disk, shots, area, life, ask>>
  PROVE  UInv'
<1>1. /\ Active(n) /\ n = Len(run) /\ n \in Nat \ {0} /\ run \in Seq(RunRecs)
      /\ Entry(n, q) /\ Places(n, q) /\ Holds(q)
      /\ Clean => Readable(n, q)
      /\ Disk /\ Shots /\ NoWriteLost
  BY Standing DEF Steps
<1>2. /\ SamePlan(q, r) /\ r.from = q.from /\ r.snap = q.snap /\ r.home = q.home
      /\ r.restored = q.restored /\ r.told = q.told /\ r.seen = q.seen /\ r.impact = q.impact
      /\ r.rc = q.rc /\ r.pc = next /\ r.maps = mark
  BY DEF RunRecs, SamePlan, Marked
<1>3. Len(run') = Len(run) /\ \A v \in 0..Len(run) : SchemaOf(v)' = SchemaOf(v)
  BY <1>1, <1>2, EditionsWork DEF SamePlan, Steps
<1>4. NoneLeft' => tools' = link
  <2>1. n \in Runs /\ run' = [run EXCEPT ![n] = r]
    BY DEF Steps
  <2>2. Runs' = Runs /\ run'[n] = r
    BY <1>1, <2>1, Written
  <2>3. r.maps = "left" => ~NoneLeft'
    BY <2>1, <2>2 DEF NoneLeft
  <2> QED
    BY <1>2, <2>3 DEF Marked
<1>5. Disk' /\ NoWriteLost' /\ Shots' /\ OldShots /\ Entry(n, r)'
  <2>1. link \in 0..Len(run)
    BY <1>1 DEF Disk
  <2>2. Disk' /\ NoWriteLost' /\ Shots' /\ OldShots
    BY <1>1, <1>2, <1>3, <2>1, ShotsStay DEF Disk, NoWriteLost, disk, life, Marked
  <2>3. r.from \in 0..(n - 1) /\ r.snap \in 0..taken' /\ (r.rc # None <=> r.pc = "done")
    BY <1>1, <1>2 DEF Entry, shots, Marked
  <2> QED
    BY <1>1, <1>2, <2>2, <2>3, EntryStays
<1>6. q.from \in 0..Len(run) /\ link \in 0..Len(run) /\ (q.mode = "rollback" => q.to \in 0..Len(run))
  BY <1>1 DEF Entry, Places, Disk
<1>7. Places(n, r)' /\ Copying(r)' /\ Holds(r)'
  <2>1. Places(n, r)'
    BY <1>1, <1>2, <1>3, <1>6 DEF Places, SamePlan, disk, life, Before, Stopped, Moved, Back, Marked
  <2>2. Copying(r)' /\ Holds(r)'
    BY <1>1, <1>2 DEF Copying, Holds, SamePlan, disk, shots, Before, Moved, Back, Marked
  <2> QED
    BY <2>1, <2>2
<1>8. n \in 0..Len(run)
  BY <1>1
<1>9. Clean => Readable(n, r)'
  BY <1>1, <1>2, <1>3, <1>6, <1>8 DEF Readable, SamePlan, disk, Before, Moved, Back, Marked
<1>10. NoneLeft' => Mapped(r)'
  BY <1>2, <1>4 DEF Mapped, disk, Before, Marked
<1>11. /\ n \in Runs /\ run' = [run EXCEPT ![n] = r] /\ SamePlan(run[n], r)
       /\ r.pc # "done" /\ r.pc \notin {"unborn", "cut"}
  BY <1>2 DEF Steps, Marked
<1> QED
  BY <1>1, <1>5, <1>7, <1>9, <1>10, <1>11, Worked

\* The live verification accepts: the venvs that are purged serve nobody.
LEMMA IsAccepted ==
  ASSUME UpgradeAssumption, UInv, NEW n, NEW q \in RunRecs, NEW r \in RunRecs,
         Steps(n, q, r), q.pc = "verify", Servable, proc = q.to,
         r = [q EXCEPT !.pc = "done", !.rc = 0, !.impact = "done"],
         venvs' = (IF q.mode = "apply" THEN venvs \cap {0, n, q.from} ELSE venvs),
         UNCHANGED <<link, db, aside, shots, area, life, tools, ask>>
  PROVE  UInv'
<1>1. /\ Active(n) /\ n = Len(run) /\ n \in Nat \ {0} /\ run \in Seq(RunRecs)
      /\ Entry(n, q) /\ Places(n, q) /\ Holds(q)
      /\ Clean => (NoneLeft => Mapped(q))
      /\ Disk /\ Shots /\ NoWriteLost /\ None \notin Nat
  BY Standing DEF Steps
<1>2. /\ SamePlan(q, r) /\ r.from = q.from /\ r.snap = q.snap /\ r.maps = q.maps
      /\ r.seen = q.seen /\ r.impact = "done" /\ r.pc = "done" /\ r.rc = 0
  BY DEF RunRecs, SamePlan
<1>3. /\ Len(run') = Len(run) /\ \A v \in 0..Len(run) : SchemaOf(v)' = SchemaOf(v)
      /\ NoneLeft' = NoneLeft
  <2>1. r.wheel = run[n].wheel /\ r.maps = run[n].maps
    BY <1>2 DEF SamePlan, Steps
  <2> QED
    BY <1>1, <2>1, EditionsWork, MarksStay DEF Steps
<1>4. link = q.to /\ proc = link /\ link \in venvs /\ link \in 0..Len(run)
  BY <1>1 DEF Places, Moved, Disk
<1>5. Disk'
  <2>1. venvs' \subseteq venvs /\ link \in venvs'
    BY <1>1, <1>4 DEF Entry
  <2> QED
    BY <1>1, <1>3, <1>4, <2>1 DEF Disk, life
<1>6. NoWriteLost' /\ Shots' /\ OldShots /\ Entry(n, r)'
  <2>1. NoWriteLost' /\ Shots' /\ OldShots
    BY <1>1, ShotsStay DEF NoWriteLost, life
  <2>2. r.from \in 0..(n - 1) /\ r.snap \in 0..taken' /\ (r.rc # None <=> r.pc = "done")
    BY <1>1, <1>2 DEF Entry, shots
  <2> QED
    BY <1>1, <1>2, <2>1, <2>2, EntryStays
<1>7. Verdict(r)'
  BY <1>1, <1>2, <1>4 DEF Verdict, Holds, SamePlan, shots, Moved
<1>8. Clean => Left'
  <2>1. db.schema <= SchemaOf(link)
    BY <1>4 DEF Servable
  <2> QED
    BY <1>1, <1>3, <1>4, <2>1 DEF Left, Mapped, life
<1> QED
  BY <1>1, <1>2, <1>5, <1>6, <1>7, <1>8, Worked DEF Steps

\* It refuses: the service is stopped and the link goes back.
LEMMA IsUndone ==
  ASSUME UpgradeAssumption, UInv, NEW n, NEW q \in RunRecs, NEW r \in RunRecs,
         Steps(n, q, r), q.pc = "verify", r = [q EXCEPT !.pc = "aside", !.home = TRUE],
         proc' = None, link' = q.from,
         UNCHANGED <<venvs, db, aside, shots, area, writes, tools, ask>>
  PROVE  UInv'
<1>1. /\ Active(n) /\ n = Len(run) /\ n \in Nat \ {0} /\ run \in Seq(RunRecs)
      /\ q.mode \in Modes /\ Entry(n, q) /\ Places(n, q) /\ Holds(q)
      /\ Clean => Readable(n, q) /\ (NoneLeft => Mapped(q))
      /\ Disk /\ Shots /\ NoWriteLost
  BY Standing DEF Steps
<1>2. /\ SamePlan(q, r) /\ r.from = q.from /\ r.snap = q.snap /\ r.home /\ r.maps = q.maps
      /\ r.restored = q.restored /\ r.told = q.told /\ r.seen = q.seen /\ r.impact = q.impact
      /\ r.pc = "aside" /\ r.rc = q.rc
  BY DEF RunRecs, SamePlan
<1>3. /\ Len(run') = Len(run) /\ \A v \in 0..Len(run) : SchemaOf(v)' = SchemaOf(v)
      /\ NoneLeft' = NoneLeft
  <2>1. r.wheel = run[n].wheel /\ r.maps = run[n].maps
    BY <1>2 DEF SamePlan, Steps
  <2> QED
    BY <1>1, <2>1, EditionsWork, MarksStay DEF Steps
<1>4. /\ q.from \in venvs /\ q.from \in 0..Len(run) /\ n \in 0..Len(run) /\ link = q.to
      /\ q.mode = "rollback" => q.to \in 0..Len(run)
  BY <1>1 DEF Places, Entry, Disk, Moved
<1>5. Disk' /\ NoWriteLost' /\ Shots' /\ OldShots /\ Entry(n, r)'
  <2>1. Disk' /\ NoWriteLost' /\ Shots' /\ OldShots
    BY <1>1, <1>3, <1>4, ShotsStay DEF Disk, NoWriteLost
  <2>2. r.from \in 0..(n - 1) /\ r.snap \in 0..taken' /\ (r.rc # None <=> r.pc = "done")
    BY <1>1, <1>2 DEF Entry, shots
  <2> QED
    BY <1>1, <1>2, <2>1, <2>2, EntryStays
<1>6. Places(n, r)' /\ Copying(r)' /\ Holds(r)'
  <2>1. Places(n, r)'
    BY <1>1, <1>2, <1>3, <1>4 DEF Places, SamePlan, Before, Stopped, Moved, Back
  <2>2. Copying(r)' /\ Holds(r)'
    BY <1>1, <1>2 DEF Copying, Holds, shots, Before, Moved, Back
  <2> QED
    BY <2>1, <2>2
<1>7. ASSUME Clean PROVE Readable(n, r)' /\ (NoneLeft' => Mapped(r)')
  <2>1. q.mode = "apply" => db'.schema <= SchemaOf(r.from)' \/ db'.schema <= SchemaOf(n)'
    BY <1>1, <1>2, <1>3, <1>4, <1>7 DEF Readable, Moved
  <2>2. q.mode = "rollback" => db'.schema <= SchemaOf(r.from)'
    <3>1. SUFFICES ASSUME q.mode = "rollback" PROVE db.schema <= SchemaOf(q.from)
      BY <1>2, <1>3, <1>4
    <3>2. db.schema <= SchemaOf(q.to) /\ SchemaOf(q.to) <= SchemaOf(q.from)
      BY <1>1, <1>7, <3>1 DEF Readable, Places, Moved
    <3>3. db.schema \in Nat /\ SchemaOf(q.to) \in Nat /\ SchemaOf(q.from) \in Nat
      BY <1>1, <1>4, <3>1, SchemaType, BaseFields DEF Disk
    <3> QED
      BY <3>2, <3>3
  <2>3. NoneLeft' => tools' = r.to
    BY <1>1, <1>2, <1>3, <1>4, <1>7 DEF Mapped, SamePlan
  <2> QED
    BY <1>2, <2>1, <2>2, <2>3 DEF Readable, Mapped, SamePlan, Before, Moved, Back
<1> QED
  BY <1>1, <1>2, <1>5, <1>6, <1>7, Worked DEF Steps

\* The way back is over.
LEMMA IsBack ==
  ASSUME UpgradeAssumption, UInv, NEW n, NEW q \in RunRecs, NEW r \in RunRecs,
         Steps(n, q, r), q.pc = "health", NEW rc \in {1, 2},
         r = [q EXCEPT !.pc = "done", !.rc = rc,
                       !.impact = IF q.restored THEN "undone" ELSE "dataLost"],
         UNCHANGED <<disk, shots, area, life, tools, ask>>
  PROVE  UInv'
<1>1. /\ Active(n) /\ n = Len(run) /\ n \in Nat \ {0} /\ run \in Seq(RunRecs)
      /\ Entry(n, q) /\ Places(n, q) /\ Holds(q)
      /\ Clean => Readable(n, q) /\ (NoneLeft => Mapped(q))
      /\ Disk /\ Shots /\ NoWriteLost /\ None \notin Nat
  BY Standing DEF Steps
<1>2. /\ SamePlan(q, r) /\ r.from = q.from /\ r.snap = q.snap /\ r.maps = q.maps
      /\ r.seen = q.seen /\ r.impact = (IF q.restored THEN "undone" ELSE "dataLost")
      /\ r.pc = "done" /\ r.rc = rc
  BY DEF RunRecs, SamePlan
<1>3. /\ Len(run') = Len(run) /\ \A v \in 0..Len(run) : SchemaOf(v)' = SchemaOf(v)
      /\ NoneLeft' = NoneLeft
  <2>1. r.wheel = run[n].wheel /\ r.maps = run[n].maps
    BY <1>2 DEF SamePlan, Steps
  <2> QED
    BY <1>1, <2>1, EditionsWork, MarksStay DEF Steps
<1>4. Disk' /\ NoWriteLost' /\ Shots' /\ OldShots /\ Entry(n, r)'
  <2>1. Disk' /\ NoWriteLost' /\ Shots' /\ OldShots
    BY <1>1, <1>3, Untouched
  <2>2. r.from \in 0..(n - 1) /\ r.snap \in 0..taken' /\ (r.rc # None <=> r.pc = "done")
    BY <1>1, <1>2 DEF Entry, shots
  <2> QED
    BY <1>1, <1>2, <2>1, <2>2, EntryStays
<1>5. Verdict(r)'
  BY <1>1, <1>2 DEF Verdict, Places, Holds, Back, disk
<1>6. Clean => Left'
  <2>1. link \in 0..Len(run)
    BY <1>1 DEF Disk
  <2> QED
    BY <1>1, <1>3, <2>1 DEF Left, Places, Readable, Mapped, disk, life, Back
<1> QED
  BY <1>1, <1>2, <1>4, <1>5, <1>6, Worked DEF Steps

(***************************************************************************)
(* The steps of the applicator                                             *)
(***************************************************************************)
\* The three ways to write the journal, and what they write.
Goes(n, q, p) == \E r \in RunRecs : Steps(n, q, r) /\ r = [q EXCEPT !.pc = p]
Ends(n, q, rc, impact) ==
  \E r \in RunRecs : Steps(n, q, r) /\ r = [q EXCEPT !.pc = "done", !.rc = rc, !.impact = impact]
Loses(n, q) ==
  \E r \in RunRecs : /\ Steps(n, q, r)
                     /\ r = [q EXCEPT !.pc = "done", !.rc = 2, !.impact = "unknown", !.told = FALSE]

\* The run goes on.
LEMMA Going ==
  ASSUME run \in Seq(RunRecs), NEW n \in Runs, NEW q, q = run[n],
         q.pc \notin {"unborn", "cut", "done"}, NEW p \in Pcs, Goto(n, p)
  PROVE  Goes(n, q, p)
<1>1. q \in RunRecs /\ run \in [1..Len(run) -> RunRecs]
  BY RunIsRecord, LenProperties
<1>2. [q EXCEPT !.pc = p] \in RunRecs
  BY <1>1 DEF RunRecs
<1>3. run' = [run EXCEPT ![n] = [q EXCEPT !.pc = p]]
  BY <1>1 DEF Goto
<1> QED
  BY <1>2, <1>3 DEF Steps, Goes

\* A verdict.
LEMMA Ending ==
  ASSUME run \in Seq(RunRecs), NEW n \in Runs, NEW q, q = run[n],
         q.pc \notin {"unborn", "cut", "done"},
         NEW rc \in Codes, NEW impact \in Impacts, Result(n, rc, impact)
  PROVE  Ends(n, q, rc, impact)
<1>1. q \in RunRecs /\ run \in [1..Len(run) -> RunRecs] /\ n \in 1..Len(run)
  BY RunIsRecord, LenProperties DEF Runs
<1>2. [q EXCEPT !.pc = "done", !.rc = rc, !.impact = impact] \in RunRecs
  BY <1>1 DEF RunRecs, Pcs
<1>3. run' = [run EXCEPT ![n] = [q EXCEPT !.pc = "done", !.rc = rc, !.impact = impact]]
  BY <1>1 DEF Result, RunRecs
<1> QED
  BY <1>2, <1>3 DEF Steps, Ends

\* A verdict without any detail.
LEMMA Losing ==
  ASSUME run \in Seq(RunRecs), NEW n \in Runs, NEW q, q = run[n],
         q.pc \notin {"unborn", "cut", "done"}, Lost(n)
  PROVE  Loses(n, q)
<1>1. q \in RunRecs /\ run \in [1..Len(run) -> RunRecs] /\ n \in 1..Len(run)
  BY RunIsRecord, LenProperties DEF Runs
<1>2. [q EXCEPT !.pc = "done", !.rc = 2, !.impact = "unknown", !.told = FALSE] \in RunRecs
  BY ZenonT(60), <1>1 DEF RunRecs, Pcs, Codes, Impacts
<1>3. run' = [run EXCEPT ![n] = [q EXCEPT !.pc = "done", !.rc = 2, !.impact = "unknown", !.told = FALSE]]
  BY <1>1 DEF Lost, RunRecs
<1> QED
  BY <1>2, <1>3 DEF Steps, Loses

\* The steps of both gestures.
LEMMA SharedKeeps ==
  ASSUME UpgradeAssumption, UInv, NEW n \in Runs, Shared(n)
  PROVE  UInv'
<1>1. run \in Seq(RunRecs)
  BY DEF UInv, Journal
<1>2. PICK q \in RunRecs : q = run[n]
  BY <1>1, RunIsRecord
<1>3. n \in 1..Len(run) /\ run \in [1..Len(run) -> RunRecs]
  BY <1>1, LenProperties DEF Runs
<1>4. q.mode \in Modes /\ q.home \in BOOLEAN
  BY RunFields
<1>5. /\ {"stop", "snapshot", "swap", "aside", "copy", "maps", "remaps", "verify", "health"} \subseteq Pcs
      /\ {1, 2, 0} \subseteq Codes
      /\ {"none", "forward", "asBefore", "done", "undone", "dataLost"} \subseteq Impacts
  BY DEF Pcs, Codes, Impacts
<1>6. ASSUME Probe(n) PROVE UInv'
  <2>1. q.pc = "probe" /\ UNCHANGED <<disk, shots, area, life, tools, ask>>
    BY <1>2, <1>6 DEF Probe, At
  <2>2. CASE Goto(n, "stop")
    <3>1. PICK r \in RunRecs : Steps(n, q, r) /\ r = [q EXCEPT !.pc = "stop"]
      <4>1. q.pc \notin {"unborn", "cut", "done"}
        BY <2>1
      <4>2. Goes(n, q, "stop")
        BY <1>1, <1>2, <1>5, <2>2, <4>1, Going
      <4> QED
        BY <4>2 DEF Goes
    <3> QED
      BY <2>1, <3>1, GoesOn
  <2>3. CASE Result(n, 1, "none")
    <3>1. PICK r \in RunRecs : Steps(n, q, r) /\ r = [q EXCEPT !.pc = "done", !.rc = 1, !.impact = "none"]
      <4>1. q.pc \notin {"unborn", "cut", "done"}
        BY <2>1
      <4>2. Ends(n, q, 1, "none")
        BY <1>1, <1>2, <1>5, <2>3, <4>1, Ending
      <4> QED
        BY <4>2 DEF Ends
    <3> QED
      BY <2>1, <3>1, GivesUp
  <2> QED
    BY <1>6, <2>2, <2>3 DEF Probe
<1>7. ASSUME Stop(n) PROVE UInv'
  <2>1. q.pc = "stop" /\ proc' = None /\ UNCHANGED <<disk, shots, area, writes, tools, ask>>
    BY <1>2, <1>7 DEF Stop, At, StopService
  <2>2. PICK r \in RunRecs : Steps(n, q, r) /\ r = [q EXCEPT !.pc = "snapshot"]
    <3>1. q.pc \notin {"unborn", "cut", "done"}
      BY <2>1
    <3>2. Goto(n, "snapshot")
      BY <1>7 DEF Stop
    <3>3. Goes(n, q, "snapshot")
      BY <1>1, <1>2, <1>5, <3>1, <3>2, Going
    <3> QED
      BY <3>3 DEF Goes
  <2> QED
    BY <2>1, <2>2, Stops
<1>8. ASSUME TakeSnapshot(n) PROVE UInv'
  <2>1. q.pc = "snapshot" /\ UNCHANGED <<link, venvs, aside, area, writes, tools, ask>>
    BY <1>2, <1>8 DEF TakeSnapshot, At
  <2>2. ASSUME Create, run' = [run EXCEPT ![n].pc = "swap", ![n].snap = taken + 1], UNCHANGED <<proc, db>>
        PROVE  UInv'
    <3>1. PICK s : s = taken + 1
      OBVIOUS
    <3>2. s \in Nat
      BY <3>1 DEF UInv, Shots
    <3>3. [q EXCEPT !.pc = "swap", !.snap = s] \in RunRecs
      BY <3>2 DEF RunRecs, Pcs
    <3>4. run' = [run EXCEPT ![n] = [q EXCEPT !.pc = "swap", !.snap = s]]
      BY <1>2, <1>3, <2>2, <3>1 DEF RunRecs
    <3>5. PICK r \in RunRecs : Steps(n, q, r) /\ r = [q EXCEPT !.pc = "swap", !.snap = taken + 1]
      BY <1>2, <2>1, <3>1, <3>3, <3>4 DEF Steps
    <3>6. UNCHANGED <<disk, area, life, tools, ask>>
      BY <2>1, <2>2 DEF disk, life
    <3> QED
      BY <2>1, <2>2, <3>5, <3>6, SnapshotTaken
  <2>3. ASSUME Start(link, db), Result(n, 1, "none"), UNCHANGED shots
        PROVE  UInv'
    <3>1. PICK r \in RunRecs : Steps(n, q, r) /\ r = [q EXCEPT !.pc = "done", !.rc = 1, !.impact = "none"]
      <4>1. q.pc \notin {"unborn", "cut", "done"}
        BY <2>1
      <4>2. Ends(n, q, 1, "none")
        BY <1>1, <1>2, <1>5, <2>3, <4>1, Ending
      <4> QED
        BY <4>2 DEF Ends
    <3> QED
      BY <2>1, <2>3, <3>1, ComesBack DEF Start, Reopens
  <2> QED
    BY <1>8, <2>2, <2>3 DEF TakeSnapshot
<1>9. ASSUME MoveAside(n) PROVE UInv'
  <2>1. /\ q.pc = "aside" /\ Restorable(n) /\ aside' = aside \cup ({db} \ {NoBase}) /\ db' = NoBase
        /\ UNCHANGED <<link, venvs, shots, area, life, tools, ask>>
    BY <1>2, <1>9 DEF MoveAside, At
  <2>2. PICK r \in RunRecs : Steps(n, q, r) /\ r = [q EXCEPT !.pc = "copy"]
    <3>1. q.pc \notin {"unborn", "cut", "done"}
      BY <2>1
    <3>2. Goto(n, "copy")
      BY <1>9 DEF MoveAside
    <3>3. Goes(n, q, "copy")
      BY <1>1, <1>2, <1>5, <3>1, <3>2, Going
    <3> QED
      BY <3>3 DEF Goes
  <2> QED
    BY <2>1, <2>2, MovedAside
<1>10. ASSUME CopyBack(n) PROVE UInv'
  <2>1. /\ q.pc = "copy" /\ Start(link, snaps[Source(n)])
        /\ UNCHANGED <<link, venvs, aside, shots, area, writes, tools, ask>>
    BY <1>2, <1>10 DEF CopyBack, At
  <2>2. Source(n) = Copied(q)
    BY <1>2 DEF Source, Copied
  <2>3. PICK p : p = IF q.home THEN "remaps" ELSE "maps"
    OBVIOUS
  <2>4. p \in Pcs /\ Goto(n, p)
    BY <1>2, <1>5, <1>10, <2>3 DEF CopyBack
  <2>5. PICK r \in RunRecs : Steps(n, q, r) /\ r = [q EXCEPT !.pc = p]
    <3>1. q.pc \notin {"unborn", "cut", "done"}
      BY <2>1
    <3>2. Goes(n, q, p)
      BY <1>1, <1>2, <2>4, <3>1, Going
    <3> QED
      BY <3>2 DEF Goes
  <2> QED
    BY <2>1, <2>2, <2>3, <2>5, CopiedBack
<1>11. ASSUME RestoreFails(n) PROVE UInv'
  <2>1. q.pc \in {"aside", "copy"} /\ UNCHANGED <<venvs, aside, shots, area, writes, tools, ask>>
    BY <1>2, <1>11 DEF RestoreFails, At
  <2>2. ASSUME q.mode = "apply", link' = n, Start(n, db), Result(n, 2, "forward") PROVE UInv'
    <3>1. PICK r \in RunRecs : Steps(n, q, r) /\ r = [q EXCEPT !.pc = "done", !.rc = 2, !.impact = "forward"]
      <4>1. q.pc \notin {"unborn", "cut", "done"}
        BY <2>1
      <4>2. Ends(n, q, 2, "forward")
        BY <1>1, <1>2, <1>5, <2>2, <4>1, Ending
      <4> QED
        BY <4>2 DEF Ends
    <3> QED
      BY <2>1, <2>2, <3>1, FailsForward
  <2>3. ASSUME q.mode = "rollback", ~q.home, link' = q.from, Start(q.from, db), Result(n, 1, "asBefore")
        PROVE  UInv'
    <3>1. PICK r \in RunRecs : Steps(n, q, r) /\ r = [q EXCEPT !.pc = "done", !.rc = 1, !.impact = "asBefore"]
      <4>1. q.pc \notin {"unborn", "cut", "done"}
        BY <2>1
      <4>2. Ends(n, q, 1, "asBefore")
        BY <1>1, <1>2, <1>5, <2>3, <4>1, Ending
      <4> QED
        BY <4>2 DEF Ends
    <3> QED
      BY <2>1, <2>3, <3>1, FailsAsBefore
  <2>4. ASSUME q.mode = "rollback", q.home, link' = link, Start(link, db),
               run' = [run EXCEPT ![n].pc = "remaps", ![n].restored = FALSE]
        PROVE  UInv'
    <3>1. [q EXCEPT !.pc = "remaps", !.restored = FALSE] \in RunRecs
      BY DEF RunRecs, Pcs
    <3>2. run' = [run EXCEPT ![n] = [q EXCEPT !.pc = "remaps", !.restored = FALSE]]
      BY <1>2, <1>3, <2>4 DEF RunRecs
    <3>3. PICK r \in RunRecs : Steps(n, q, r) /\ r = [q EXCEPT !.pc = "remaps", !.restored = FALSE]
      BY <1>2, <2>1, <3>1, <3>2 DEF Steps
    <3> QED
      BY <2>1, <2>4, <3>3, FailsAtHome DEF Start, Reopens
  <2> QED
    BY <1>2, <1>11, <2>2, <2>3, <2>4 DEF RestoreFails
<1>12. ASSUME Maps(n) PROVE UInv'
  <2>1. q.pc \in {"maps", "remaps"} /\ UNCHANGED <<disk, shots, area, life, ask>>
    BY <1>2, <1>12 DEF Maps, At
  <2>2. PICK next \in Pcs : next = IF q.pc = "maps" THEN "verify" ELSE "health"
    BY <1>5
  <2>3. PICK mark \in Marks : /\ tools' = link \/ (tools' = tools /\ mark = "left")
                              /\ run' = [run EXCEPT ![n].pc = next, ![n].maps = mark]
    BY <1>2, <1>12, <2>2 DEF Maps, At, Marks
  <2>4. [q EXCEPT !.pc = next, !.maps = mark] \in RunRecs
    BY DEF RunRecs
  <2>5. run' = [run EXCEPT ![n] = [q EXCEPT !.pc = next, !.maps = mark]]
    BY <1>2, <1>3, <2>3 DEF RunRecs
  <2>6. PICK r \in RunRecs : Steps(n, q, r) /\ r = [q EXCEPT !.pc = next, !.maps = mark]
    BY <1>2, <2>1, <2>4, <2>5 DEF Steps
  <2>7. Marked(q, r, next, mark)
    BY <2>2, <2>3, <2>6 DEF Marked
  <2> QED
    BY <2>1, <2>6, <2>7, MapsPosed
<1>13. ASSUME Accept(n) PROVE UInv'
  <2>1. /\ q.pc = "verify" /\ Servable /\ proc = q.to
        /\ venvs' = (IF q.mode = "apply" THEN venvs \cap {0, n, q.from} ELSE venvs)
        /\ UNCHANGED <<link, db, aside, shots, area, life, tools, ask>>
    BY <1>2, <1>13 DEF Accept, At, Live
  <2>2. PICK r \in RunRecs : Steps(n, q, r) /\ r = [q EXCEPT !.pc = "done", !.rc = 0, !.impact = "done"]
    <3>1. q.pc \notin {"unborn", "cut", "done"}
      BY <2>1
    <3>2. Result(n, 0, "done")
      BY <1>13 DEF Accept
    <3>3. Ends(n, q, 0, "done")
      BY <1>1, <1>2, <1>5, <3>1, <3>2, Ending
    <3> QED
      BY <3>3 DEF Ends
  <2> QED
    BY <2>1, <2>2, IsAccepted
<1>14. ASSUME Undo(n) PROVE UInv'
  <2>1. q.pc = "verify" /\ proc' = None /\ UNCHANGED <<venvs, db, aside, shots, area, writes, tools, ask>>
    BY <1>2, <1>14 DEF Undo, At, StopService
  <2>2. ASSUME link' = q.from, run' = [run EXCEPT ![n].pc = "aside", ![n].home = TRUE] PROVE UInv'
    <3>1. [q EXCEPT !.pc = "aside", !.home = TRUE] \in RunRecs
      BY DEF RunRecs, Pcs
    <3>2. run' = [run EXCEPT ![n] = [q EXCEPT !.pc = "aside", !.home = TRUE]]
      BY <1>2, <1>3, <2>2 DEF RunRecs
    <3>3. PICK r \in RunRecs : Steps(n, q, r) /\ r = [q EXCEPT !.pc = "aside", !.home = TRUE]
      BY <1>2, <2>1, <3>1, <3>2 DEF Steps
    <3> QED
      BY <2>1, <2>2, <3>3, IsUndone
  <2>3. ASSUME Lost(n), UNCHANGED link PROVE UInv'
    <3>1. PICK r \in RunRecs :
            /\ Steps(n, q, r)
            /\ r = [q EXCEPT !.pc = "done", !.rc = 2, !.impact = "unknown", !.told = FALSE]
      <4>1. q.pc \notin {"unborn", "cut", "done"}
        BY <2>1
      <4>2. Loses(n, q)
        BY <1>1, <1>2, <2>3, <4>1, Losing
      <4> QED
        BY <4>2 DEF Loses
    <3> QED
      BY <2>1, <2>3, <3>1, IsLost DEF disk
  <2> QED
    BY <1>2, <1>14, <2>2, <2>3 DEF Undo
<1>15. ASSUME Health(n) PROVE UInv'
  <2>1. q.pc = "health" /\ UNCHANGED <<disk, shots, area, life, tools, ask>>
    BY <1>2, <1>15 DEF Health, At
  <2>2. PICK impact \in Impacts : impact = IF q.restored THEN "undone" ELSE "dataLost"
    BY <1>5
  <2>3. PICK rc \in {1, 2} : Result(n, rc, impact)
    BY <1>2, <1>15, <2>2 DEF Health
  <2>4. PICK r \in RunRecs : Steps(n, q, r) /\ r = [q EXCEPT !.pc = "done", !.rc = rc, !.impact = impact]
    <3>1. q.pc \notin {"unborn", "cut", "done"}
      BY <2>1
    <3>2. Ends(n, q, rc, impact)
      BY <1>1, <1>2, <1>5, <2>3, <3>1, Ending
    <3> QED
      BY <3>2 DEF Ends
  <2> QED
    BY <2>1, <2>2, <2>4, IsBack
<1> QED
  BY <1>6, <1>7, <1>8, <1>9, <1>10, <1>11, <1>12, <1>13, <1>14, <1>15 DEF Shared

\* The first step of an apply: the new venv, or none.
LEMMA BuildKeeps ==
  ASSUME UpgradeAssumption, UInv, NEW n \in Runs, run[n].mode = "apply", Build(n)
  PROVE  UInv'
<1>1. run \in Seq(RunRecs) /\ db \in Base
  BY DEF UInv, Journal, Disk
<1>2. PICK q \in RunRecs : q = run[n]
  BY <1>1, RunIsRecord
<1>3. n \in 1..Len(run) /\ run \in [1..Len(run) -> RunRecs]
  BY <1>1, LenProperties DEF Runs
<1>4. /\ q.pc = "begin" /\ q.mode = "apply"
      /\ UNCHANGED <<link, db, aside, shots, area, life, tools, ask>>
  BY <1>2 DEF Build, At
<1>5. PICK l : l = link
  OBVIOUS
<1>6. PICK d : d = db.data
  OBVIOUS
<1>7. l \in Nat /\ d \in Saved
  BY <1>1, <1>5, <1>6, BaseFields DEF UInv, Disk
<1>8. ASSUME venvs' = venvs \cup {n},
             run' = [run EXCEPT ![n].pc = "probe", ![n].from = link, ![n].seen = db.data]
      PROVE  UInv'
  <2>1. [q EXCEPT !.pc = "probe", !.from = l, !.seen = d] \in RunRecs
    BY <1>7 DEF RunRecs, Pcs
  <2>2. run' = [run EXCEPT ![n] = [q EXCEPT !.pc = "probe", !.from = l, !.seen = d]]
    BY <1>2, <1>3, <1>5, <1>6, <1>8 DEF RunRecs
  <2>3. PICK r \in RunRecs : Steps(n, q, r) /\ r = [q EXCEPT !.pc = "probe", !.from = link, !.seen = db.data]
    BY <1>2, <1>4, <1>5, <1>6, <2>1, <2>2 DEF Steps
  <2> QED
    BY <1>4, <1>8, <2>3, Begins
<1>9. ASSUME venvs' = venvs,
             run' = [run EXCEPT ![n].pc = "done", ![n].from = link, ![n].seen = db.data, ![n].rc = 1]
      PROVE  UInv'
  <2>1. [q EXCEPT !.pc = "done", !.from = l, !.seen = d, !.rc = 1] \in RunRecs
    BY <1>7 DEF RunRecs, Pcs, Codes
  <2>2. run' = [run EXCEPT ![n] = [q EXCEPT !.pc = "done", !.from = l, !.seen = d, !.rc = 1]]
    BY <1>2, <1>3, <1>5, <1>6, <1>9 DEF RunRecs
  <2>3. PICK r \in RunRecs : /\ Steps(n, q, r)
                             /\ r = [q EXCEPT !.pc = "done", !.from = link, !.seen = db.data, !.rc = 1]
    BY <1>2, <1>4, <1>5, <1>6, <2>1, <2>2 DEF Steps
  <2>4. UNCHANGED <<disk, shots, area, life, tools, ask>>
    BY <1>4, <1>9 DEF disk
  <2> QED
    BY <1>4, <2>3, <2>4, Refused
<1> QED
  BY <1>8, <1>9 DEF Build

\* The first step of a rollback: its target is safe, or refused.
LEMMA AimKeeps ==
  ASSUME UpgradeAssumption, UInv, NEW n \in Runs, run[n].mode = "rollback", Aim(n)
  PROVE  UInv'
<1>1. run \in Seq(RunRecs) /\ db \in Base
  BY DEF UInv, Journal, Disk
<1>2. PICK q \in RunRecs : q = run[n]
  BY <1>1, RunIsRecord
<1>3. n \in 1..Len(run) /\ run \in [1..Len(run) -> RunRecs]
  BY <1>1, LenProperties DEF Runs
<1>4. /\ q.pc = "begin" /\ q.mode = "rollback"
      /\ UNCHANGED <<disk, shots, area, life, tools, ask>>
  BY <1>2 DEF Aim, At
<1>5. PICK l : l = link
  OBVIOUS
<1>6. PICK d : d = db.data
  OBVIOUS
<1>7. l \in Nat /\ d \in Saved /\ q.rc = None
  <2>1. l \in Nat /\ d \in Saved
    BY <1>1, <1>5, <1>6, BaseFields DEF UInv, Disk
  <2>2. Entry(n, q)
    BY <1>2 DEF UInv, Journal
  <2> QED
    BY <1>4, <2>1, <2>2 DEF Entry
<1>8. PICK refused \in BOOLEAN :
        run' = [run EXCEPT ![n].from = link, ![n].seen = db.data,
                           ![n].pc = IF refused THEN "done" ELSE "probe",
                           ![n].rc = IF refused THEN 1 ELSE None]
  <2>1. (Cardinality({s \in DOMAIN snaps : s > run[n].aim}) >= Keep - 1) \in BOOLEAN
    OBVIOUS
  <2> QED
    BY <2>1 DEF Aim
<1>9. CASE ~refused
  <2>1. [q EXCEPT !.pc = "probe", !.from = l, !.seen = d] \in RunRecs
    BY <1>7 DEF RunRecs, Pcs
  <2>2. run' = [run EXCEPT ![n].from = l, ![n].seen = d, ![n].pc = "probe", ![n].rc = None]
    BY <1>5, <1>6, <1>8, <1>9
  <2>3. run' = [run EXCEPT ![n] = [q EXCEPT !.pc = "probe", !.from = l, !.seen = d]]
    BY <1>2, <1>3, <1>7, <2>2 DEF RunRecs
  <2>4. PICK r \in RunRecs : Steps(n, q, r) /\ r = [q EXCEPT !.pc = "probe", !.from = link, !.seen = db.data]
    BY <1>2, <1>4, <1>5, <1>6, <2>1, <2>3 DEF Steps
  <2>5. venvs' = venvs /\ UNCHANGED <<link, db, aside, shots, area, life, tools, ask>>
    BY <1>4 DEF disk
  <2> QED
    BY <1>4, <2>4, <2>5, Begins
<1>10. CASE refused
  <2>1. [q EXCEPT !.pc = "done", !.from = l, !.seen = d, !.rc = 1] \in RunRecs
    BY <1>7 DEF RunRecs, Pcs, Codes
  <2>2. run' = [run EXCEPT ![n].from = l, ![n].seen = d, ![n].pc = "done", ![n].rc = 1]
    BY <1>5, <1>6, <1>8, <1>10
  <2>3. run' = [run EXCEPT ![n] = [q EXCEPT !.pc = "done", !.from = l, !.seen = d, !.rc = 1]]
    BY <1>2, <1>3, <2>2 DEF RunRecs
  <2>4. PICK r \in RunRecs : /\ Steps(n, q, r)
                             /\ r = [q EXCEPT !.pc = "done", !.from = link, !.seen = db.data, !.rc = 1]
    BY <1>2, <1>4, <1>5, <1>6, <2>1, <2>3 DEF Steps
  <2> QED
    BY <1>4, <2>4, Refused
<1> QED
  BY <1>9, <1>10

\* The swap of an apply.
LEMMA ForwardKeeps ==
  ASSUME UpgradeAssumption, UInv, NEW n \in Runs, run[n].mode = "apply", SwapForward(n)
  PROVE  UInv'
<1>1. run \in Seq(RunRecs)
  BY DEF UInv, Journal
<1>2. PICK q \in RunRecs : q = run[n]
  BY <1>1, RunIsRecord
<1>3. /\ q.pc = "swap" /\ q.mode = "apply" /\ q.pc \notin {"unborn", "cut", "done"} /\ "maps" \in Pcs
      /\ UNCHANGED <<venvs, aside, shots, area, writes, tools, ask>>
  BY <1>2 DEF SwapForward, At, Pcs
<1>4. ASSUME link' = n, Start(n, db), Goto(n, "maps") PROVE UInv'
  <2>1. Goes(n, q, "maps")
    BY <1>1, <1>2, <1>3, <1>4, Going
  <2>2. PICK r \in RunRecs : Steps(n, q, r) /\ r = [q EXCEPT !.pc = "maps"]
    BY <2>1 DEF Goes
  <2> QED
    BY <1>3, <1>4, <2>2, SwappedForward
<1>5. ASSUME Lost(n), UNCHANGED <<link, proc, db>> PROVE UInv'
  <2>1. Loses(n, q)
    BY <1>1, <1>2, <1>3, <1>5, Losing
  <2>2. PICK r \in RunRecs :
          /\ Steps(n, q, r)
          /\ r = [q EXCEPT !.pc = "done", !.rc = 2, !.impact = "unknown", !.told = FALSE]
    BY <2>1 DEF Loses
  <2>3. proc' \in {proc, None} /\ UNCHANGED <<disk, shots, area, writes, tools, ask>>
    BY <1>3, <1>5 DEF disk
  <2> QED
    BY <2>2, <2>3, IsLost
<1> QED
  BY <1>4, <1>5 DEF SwapForward

\* The swap of a rollback.
LEMMA BackwardKeeps ==
  ASSUME UpgradeAssumption, UInv, NEW n \in Runs, run[n].mode = "rollback", SwapBack(n)
  PROVE  UInv'
<1>1. run \in Seq(RunRecs)
  BY DEF UInv, Journal
<1>2. PICK q \in RunRecs : q = run[n]
  BY <1>1, RunIsRecord
<1>3. /\ q.pc = "swap" /\ q.mode = "rollback" /\ q.pc \notin {"unborn", "cut", "done"}
      /\ "aside" \in Pcs /\ 1 \in Codes /\ "none" \in Impacts
      /\ UNCHANGED <<venvs, aside, shots, area, writes, tools, ask>>
  BY <1>2 DEF SwapBack, At, Pcs, Codes, Impacts
<1>4. ASSUME link' = run[n].to, Goto(n, "aside"), UNCHANGED <<proc, db>> PROVE UInv'
  <2>1. Goes(n, q, "aside")
    BY <1>1, <1>2, <1>3, <1>4, Going
  <2>2. PICK r \in RunRecs : Steps(n, q, r) /\ r = [q EXCEPT !.pc = "aside"]
    BY <2>1 DEF Goes
  <2>3. link' = q.to /\ UNCHANGED <<proc, db, venvs, aside, shots, area, writes, tools, ask>>
    BY <1>2, <1>3, <1>4
  <2> QED
    BY <1>3, <2>2, <2>3, SwappedBack
<1>5. ASSUME Start(link, db), Result(n, 1, "none"), UNCHANGED link PROVE UInv'
  <2>1. Ends(n, q, 1, "none")
    BY <1>1, <1>2, <1>3, <1>5, Ending
  <2>2. PICK r \in RunRecs : Steps(n, q, r) /\ r = [q EXCEPT !.pc = "done", !.rc = 1, !.impact = "none"]
    BY <2>1 DEF Ends
  <2>3. Reopens /\ UNCHANGED <<link, venvs, aside, shots, area, writes, tools, ask>>
    BY <1>3, <1>5 DEF Start, Reopens
  <2> QED
    BY <1>3, <2>2, <2>3, ComesBack
<1> QED
  BY <1>4, <1>5 DEF SwapBack

\* Whatever the applicator does.
LEMMA ApplicatorKeeps ==
  ASSUME UpgradeAssumption, UInv, NEW n, Applicator(n)
  PROVE  UInv'
BY SharedKeeps, BuildKeeps, AimKeeps, ForwardKeeps, BackwardKeeps DEF Applicator, Apply, Rollback

(***************************************************************************)
(* The other steps                                                         *)
(***************************************************************************)
\* A step that leaves the journal alone keeps what is said of it.
LEMMA JournalStays ==
  ASSUME Journal, Shots, OldShots, UNCHANGED run
  PROVE  /\ Journal' /\ Runs' = Runs /\ (Alone => Alone') /\ NoneLeft' = NoneLeft
         /\ Settled' = Settled /\ Clean' = Clean
         /\ \A v : SchemaOf(v)' = SchemaOf(v)
         /\ \A i : Active(i)' = Active(i) /\ Ended(i)' = Ended(i)
<1>1. Runs' = Runs /\ \A i : Active(i)' = Active(i) /\ Ended(i)' = Ended(i)
  BY DEF Runs, Active, Ended
<1>2. \A v : SchemaOf(v)' = SchemaOf(v)
  BY DEF SchemaOf, Edition
<1>3. Journal'
  <2>1. taken \in Nat /\ taken' \in Nat /\ taken <= taken'
    BY DEF Shots, OldShots
  <2>2. ASSUME NEW i \in Runs PROVE Entry(i, run[i])'
    BY <2>1 DEF Journal, Entry
  <2> QED
    BY <1>1, <2>2 DEF Journal
<1>4. NoneLeft' = NoneLeft /\ Settled' = Settled /\ (Alone => Alone')
  BY <1>1 DEF NoneLeft, Settled, Alone
<1>5. Clean' = Clean
  BY <1>1, <1>2 DEF Clean, Downgrade
<1> QED
  BY <1>1, <1>2, <1>3, <1>4, <1>5

\* A user writes: the base grows.
LEMMA WriteKeeps ==
  ASSUME UpgradeAssumption, UInv, Write
  PROVE  UInv'
<1>1. /\ proc # None /\ writes < MaxWrites /\ writes' = writes + 1
      /\ UNCHANGED <<link, venvs, aside, shots, area, proc, tools, ask, run>>
      /\ db' = [db EXCEPT !.data = @ \cup {writes + 1}]
  BY DEF Write, Servable
<1>2. /\ Disk /\ Shots /\ Area /\ Journal /\ Alone /\ Asks /\ AtWork /\ AtRest /\ Told /\ NoWriteLost
  BY DEF UInv
<1>3. Shots' /\ OldShots
  BY <1>1, <1>2, ShotsStay
<1>4. /\ Journal' /\ Runs' = Runs /\ Alone' /\ NoneLeft' = NoneLeft
      /\ Settled' = Settled /\ Clean' = Clean
      /\ \A v : SchemaOf(v)' = SchemaOf(v)
      /\ \A i : Active(i)' = Active(i) /\ Ended(i)' = Ended(i)
  BY <1>1, <1>2, <1>3, JournalStays
<1>5. writes \in Nat /\ MaxWrites \in Nat /\ writes' \in 1..MaxWrites /\ writes' \in 0..MaxWrites
  BY <1>1, <1>2 DEF Disk, UpgradeAssumption
<1>6. db' \in Base /\ db'.data = db.data \cup {writes'} /\ db'.schema = db.schema
  BY <1>1, <1>2, <1>5 DEF Disk, Base
<1>7. Disk' /\ Area'
  BY <1>1, <1>2, <1>5, <1>6 DEF Disk, Area, area
<1>8. NoWriteLost'
  <2>1. 1..writes' = 1..writes \cup {writes'}
    BY <1>1, <1>5
  <2> QED
    BY <1>1, <1>2, <1>6, <2>1 DEF NoWriteLost
<1>9. Asks'
  <2>1. \A p : Planned(p)' <=> Planned(p)
    BY <1>1, <1>4 DEF Planned, shots
  <2> QED
    BY <1>1, <1>2, <2>1 DEF Asks
<1>10. AtWork'
  <2>1. SUFFICES ASSUME NEW n \in Runs, Active(n) PROVE Work(n, run[n])'
    BY <1>4 DEF AtWork
  <2>2. PICK q : q = run[n]
    OBVIOUS
  <2>3. Work(n, q)
    BY <1>2, <2>1, <2>2 DEF AtWork
  <2>4. q.pc # "copy"
    BY <1>1, <2>3 DEF Work, Places, Stopped
  <2>5. Places(n, q)' /\ Copying(q)' /\ Holds(q)'
    <3>1. Places(n, q)'
      BY <1>1, <1>4, <2>3 DEF Work, Places
    <3>2. Holds(q)'
      BY <1>1, <1>6, <2>3 DEF Work, Holds, shots
    <3> QED
      BY <2>4, <3>1, <3>2 DEF Copying
  <2>6. Clean => Readable(n, q)' /\ (NoneLeft => Mapped(q)')
    <3>1. Readable(n, q) => Readable(n, q)'
      BY <1>1, <1>4, <1>6 DEF Readable
    <3>2. Mapped(q) => Mapped(q)'
      BY <1>1 DEF Mapped
    <3> QED
      BY <2>3, <3>1, <3>2 DEF Work
  <2>7. Work(n, q)'
    BY <1>4, <2>5, <2>6 DEF Work
  <2> QED
    BY <1>1, <2>2, <2>7
<1>11. AtRest'
  BY <1>1, <1>2, <1>4, <1>6 DEF AtRest
<1>12. Told'
  <2>1. ASSUME NEW q PROVE Verdict(q) => Verdict(q)'
    BY <1>1, <1>6 DEF Verdict, shots
  <2> QED
    BY <1>1, <1>2, <1>4, <2>1 DEF Told
<1> QED
  BY <1>3, <1>4, <1>7, <1>8, <1>9, <1>10, <1>11, <1>12 DEF UInv

\* Someone takes a snapshot by hand: never of a base that is being replaced.
LEMMA ManualKeeps ==
  ASSUME UpgradeAssumption, UInv, Manual
  PROVE  UInv'
<1>1. Create /\ db # NoBase /\ UNCHANGED <<disk, area, life, tools, ask, run>>
  BY DEF Manual
<1>2. /\ Disk /\ Shots /\ Area /\ Journal /\ Alone /\ Asks /\ AtWork /\ AtRest /\ Told /\ NoWriteLost
  BY DEF UInv
<1>3. Shots' /\ OldShots /\ taken' = taken + 1
  <2>1. db \in Base
    BY <1>2 DEF Disk
  <2> QED
    BY <1>1, <1>2, <2>1, CreateTakes
<1>4. /\ Journal' /\ Runs' = Runs /\ Alone' /\ NoneLeft' = NoneLeft
      /\ Settled' = Settled /\ Clean' = Clean
      /\ \A v : SchemaOf(v)' = SchemaOf(v)
      /\ \A i : Active(i)' = Active(i) /\ Ended(i)' = Ended(i)
  BY <1>1, <1>2, <1>3, JournalStays
<1>5. Disk' /\ Area' /\ NoWriteLost'
  BY <1>1, <1>2 DEF Disk, Area, NoWriteLost, disk, area, life
<1>6. Asks'
  <2>1. taken \in Nat
    BY <1>2 DEF Shots
  <2>2. \A p : Planned(p) => Planned(p)'
    BY <1>1, <1>3, <1>4, <2>1 DEF Planned, disk
  <2> QED
    BY <1>1, <1>2, <2>2 DEF Asks
<1>7. AtWork'
  <2>1. SUFFICES ASSUME NEW n \in Runs, Active(n) PROVE Work(n, run[n])'
    BY <1>4 DEF AtWork
  <2>2. PICK q : q = run[n]
    OBVIOUS
  <2>3. Work(n, q) /\ Entry(n, q)
    BY <1>2, <2>1, <2>2 DEF AtWork, Journal
  <2>4. q.pc # "copy"
    BY <1>1, <2>3 DEF Work, Copying
  <2>5. Places(n, q)' /\ Copying(q)' /\ Holds(q)'
    <3>1. Places(n, q)'
      BY <1>1, <1>4, <2>3 DEF Work, Places, disk, life
    <3>2. Holds(q)'
      BY <1>1, <1>3, <2>3 DEF Work, Holds, Entry, OldShots, disk
    <3> QED
      BY <2>4, <3>1, <3>2 DEF Copying
  <2>6. Clean => Readable(n, q)' /\ (NoneLeft => Mapped(q)')
    <3>1. Readable(n, q) => Readable(n, q)'
      BY <1>1, <1>4 DEF Readable, disk, life
    <3>2. Mapped(q) => Mapped(q)'
      BY <1>1 DEF Mapped, disk
    <3> QED
      BY <2>3, <3>1, <3>2 DEF Work
  <2>7. Work(n, q)'
    BY <1>4, <2>5, <2>6 DEF Work
  <2> QED
    BY <1>1, <2>2, <2>7
<1>8. AtRest'
  BY <1>1, <1>2, <1>4 DEF AtRest, disk, life
<1>9. Told'
  <2>1. SUFFICES ASSUME Len(run) > 0, Ended(Len(run)) PROVE Verdict(run[Len(run)])'
    BY <1>1, <1>4 DEF Told
  <2>2. PICK q : q = run[Len(run)]
    OBVIOUS
  <2>3. Len(run) \in Runs
    BY <1>2, <2>1, RunIsRecord DEF Journal, Runs
  <2>4. Verdict(q) /\ q.aim \in 0..taken
    BY <1>2, <2>1, <2>2, <2>3 DEF Told, Journal, Entry
  <2>5. Verdict(q)'
    BY <1>1, <1>3, <2>4 DEF Verdict, OldShots, disk
  <2> QED
    BY <1>1, <2>2, <2>5
<1> QED
  BY <1>3, <1>4, <1>5, <1>6, <1>7, <1>8, <1>9 DEF UInv

\* A step that touches neither the disk, the snapshots nor the journal.
LEMMA RestStays ==
  ASSUME UInv, UNCHANGED <<disk, shots, life, tools, run>>
  PROVE  /\ Disk' /\ Shots' /\ Journal' /\ Alone' /\ AtWork' /\ AtRest' /\ Told' /\ NoWriteLost'
         /\ \A p : Planned(p)' <=> Planned(p)
<1>1. /\ Disk /\ Shots /\ Journal /\ Alone /\ AtWork /\ AtRest /\ Told /\ NoWriteLost
  BY DEF UInv
<1>2. Shots' /\ OldShots
  BY <1>1, ShotsStay
<1>3. /\ Journal' /\ Runs' = Runs /\ Alone' /\ NoneLeft' = NoneLeft
      /\ Settled' = Settled /\ Clean' = Clean
      /\ \A v : SchemaOf(v)' = SchemaOf(v)
      /\ \A i : Active(i)' = Active(i) /\ Ended(i)' = Ended(i)
  BY <1>1, <1>2, JournalStays
<1>4. Disk' /\ NoWriteLost'
  BY <1>1 DEF Disk, NoWriteLost, disk, life
<1>5. ASSUME NEW n, NEW q, Work(n, q) PROVE Work(n, q)'
  <2>1. Places(n, q)'
    BY <1>3, <1>5 DEF Work, Places, disk, life
  <2>2. Copying(q)'
    BY <1>3, <1>5 DEF Work, Copying, disk, shots
  <2>3. Holds(q)'
    BY <1>5 DEF Work, Holds, disk, shots
  <2>4. Clean => Readable(n, q)' /\ (NoneLeft => Mapped(q)')
    <3>1. Readable(n, q) => Readable(n, q)'
      BY <1>3 DEF Readable, disk, life
    <3>2. Mapped(q) => Mapped(q)'
      BY DEF Mapped, disk
    <3> QED
      BY <1>5, <3>1, <3>2 DEF Work
  <2> QED
    BY <1>3, <2>1, <2>2, <2>3, <2>4 DEF Work
<1>6. AtWork'
  <2>1. SUFFICES ASSUME NEW n \in Runs, Active(n) PROVE Work(n, run[n])'
    BY <1>3 DEF AtWork
  <2>2. PICK q : q = run[n]
    OBVIOUS
  <2>3. Work(n, q)
    BY <1>1, <2>1, <2>2 DEF AtWork
  <2>4. Work(n, q)'
    BY <1>5, <2>3
  <2> QED
    BY <2>2, <2>4
<1>7. AtRest'
  BY <1>1, <1>3 DEF AtRest, disk, life
<1>8. Told'
  <2>1. ASSUME NEW q PROVE Verdict(q) => Verdict(q)'
    BY DEF Verdict, disk, shots
  <2> QED
    BY <1>1, <1>3, <2>1 DEF Told
<1>9. \A p : Planned(p)' <=> Planned(p)
  BY <1>3 DEF Planned, disk, shots
<1> QED
  BY <1>2, <1>3, <1>4, <1>6, <1>7, <1>8, <1>9

\* A wheel is staged, others are pruned.
LEMMA StageKeeps ==
  ASSUME UpgradeAssumption, UInv, Stage
  PROVE  UInv'
<1>1. UNCHANGED <<disk, shots, life, tools, ask, run>> /\ staged' = staged + 1
  BY DEF Stage
<1>2. PICK w \in Wheels :
        depots' = [d \in Kept(DOMAIN depots \cup {staged + 1}) |-> IF d = staged + 1 THEN w ELSE depots[d]]
  BY DEF Stage
<1>3. Asks'
  BY <1>1, RestStays DEF UInv, Asks
<1>4. Area'
  <2> DEFINE K == Kept(DOMAIN depots \cup {staged + 1})
  <2>1. K \subseteq DOMAIN depots \cup {staged + 1}
    BY DEF Kept, Newest
  <2> HIDE DEF K
  <2>2. /\ staged \in Nat /\ DOMAIN depots \subseteq 1..staged
        /\ \A d \in DOMAIN depots : depots[d] \in Wheels
    BY DEF UInv, Area
  <2>3. depots' = [d \in K |-> IF d = staged + 1 THEN w ELSE depots[d]]
    BY <1>2 DEF K
  <2>4. K \subseteq 1..(staged + 1)
    BY <2>1, <2>2
  <2>5. \A d \in K : depots'[d] \in Wheels
    BY <2>1, <2>2, <2>3
  <2> QED
    BY <1>1, <2>2, <2>3, <2>4, <2>5 DEF Area
<1> QED
  BY <1>1, <1>3, <1>4, RestStays DEF UInv

\* The newest run that lived decides: if one is at work, nothing else is accepted.
LEMMA NothingInFlight ==
  ASSUME UInv, ~UpdateInFlight
  PROVE  \A i \in Runs : ~Active(i)
<1>1. SUFFICES ASSUME NEW i \in Runs, Active(i) PROVE FALSE
  OBVIOUS
<1> DEFINE lived == {j \in Runs : ~Ended(j) /\ run[j].pc # "unborn"}
<1>2. i = Len(run) /\ i \in lived /\ run[i].pc # "cut"
  BY <1>1 DEF UInv, Alone, Active
<1>3. i \in Nat /\ \A j \in lived : j \in Nat /\ j <= i
  BY <1>2, RunIsRecord DEF UInv, Journal
<1>4. Max(lived) = i
  <2>1. \A x \in lived : (\A y \in lived : x >= y) => x = i
    BY <1>2, <1>3
  <2>2. \A y \in lived : i >= y
    BY <1>3
  <2> HIDE DEF lived
  <2> QED
    BY <1>2, <2>1, <2>2 DEF Max
<1> QED
  BY <1>2, <1>4 DEF UpdateInFlight

\* The venv a snapshot is resolved to is on disk.
LEMMA VenvIsThere ==
  ASSUME Disk, run \in Seq(RunRecs), NEW s, VenvFor(s) # None
  PROVE  VenvFor(s) \in venvs
<1> DEFINE fit == {v \in Candidates : SchemaOf(v) = snaps[s].schema}
           paired == {run[i].from : i \in Takers(s)} \cap fit
<1>1. fit \subseteq venvs /\ paired \subseteq venvs
  BY DEF Candidates
<1>2. venvs \subseteq 0..Len(run) /\ Len(run) \in Nat
  BY RunIsRecord DEF Disk
<1>3. VenvFor(s) = IF paired # {} THEN Max(paired) ELSE IF fit # {} THEN Max(fit) ELSE None
  BY DEF VenvFor
<1> HIDE DEF fit, paired
<1>4. ASSUME NEW S \in SUBSET venvs, S # {} PROVE Max(S) \in S
  <2>1. S \in SUBSET Nat /\ \A v \in S : v <= Len(run)
    BY <1>2
  <2>2. IsFiniteSet(S)
    BY <1>2, <2>1, FS_BoundedSetOfNaturals
  <2> QED
    BY <1>4, <2>1, <2>2, MaxIsMember
<1> QED
  BY <1>1, <1>3, <1>4

\* A gesture is accepted.
LEMMA PreflightKeeps ==
  ASSUME UpgradeAssumption, UInv, NEW c \in Clients, PreflightApply(c) \/ PreflightRollback(c)
  PROVE  UInv'
<1>1. /\ UNCHANGED <<disk, shots, area, life, tools, run>> /\ ~UpdateInFlight
  BY DEF PreflightApply, PreflightRollback
<1>2. \A i \in Runs : ~Active(i)
  BY <1>1, NothingInFlight
<1>3. /\ ask \in [Clients -> AskRecs \cup {None}] /\ \A d \in Clients : ask[d] # None => Planned(ask[d])
      /\ Disk /\ Shots /\ Area /\ run \in Seq(RunRecs)
  BY DEF UInv, Asks, Journal
<1>4. PICK p \in AskRecs : ask' = [ask EXCEPT ![c] = p] /\ Planned(p)
  <2>1. CASE PreflightApply(c)
    <3>1. PICK d \in DOMAIN depots :
            ask' = [ask EXCEPT ![c] = [mode |-> "apply", depot |-> d, wheel |-> depots[d], aim |-> 0, to |-> 0]]
      BY <2>1 DEF PreflightApply
    <3>2. d \in Nat /\ depots[d] \in Homes
      BY <1>3, <3>1 DEF Area, Homes
    <3> DEFINE p == [mode |-> "apply", depot |-> d, wheel |-> depots[d], aim |-> 0, to |-> 0]
    <3>3. p \in AskRecs /\ p.mode = "apply" /\ p.aim = 0
      BY <3>2 DEF AskRecs, Modes
    <3> HIDE DEF p
    <3>4. Planned(p)
      BY <1>2, <1>3, <3>3 DEF Planned, Shots
    <3> QED
      BY <3>1, <3>3, <3>4 DEF p
  <2>2. CASE PreflightRollback(c)
    <3>1. PICK s \in DOMAIN snaps :
            /\ Usable(s)
            /\ ask' = [ask EXCEPT ![c] = [mode |-> "rollback", depot |-> 0, wheel |-> Origin,
                                          aim |-> s, to |-> VenvFor(s)]]
      BY <2>2 DEF PreflightRollback
    <3>2. PICK v : v = VenvFor(s)
      OBVIOUS
    <3>3. v \in venvs /\ SchemaOf(v) <= SchemaOf(link)
      <4>1. VenvFor(s) # None /\ SchemaOf(VenvFor(s)) <= SchemaOf(link)
        BY <3>1 DEF Usable
      <4> QED
        BY <1>3, <3>2, <4>1, VenvIsThere
    <3>4. v \in Nat /\ s \in 0..taken /\ s \in Nat
      BY <1>3, <3>1, <3>3 DEF Disk, Shots
    <3> DEFINE p == [mode |-> "rollback", depot |-> 0, wheel |-> Origin, aim |-> s, to |-> v]
    <3>5. p \in AskRecs /\ p.mode = "rollback" /\ p.aim = s /\ p.to = v
      BY <3>4 DEF AskRecs, Modes, Homes
    <3>6. ask' = [ask EXCEPT ![c] = p]
      BY <3>1, <3>2
    <3> HIDE DEF p
    <3>7. Planned(p)
      BY <1>2, <3>3, <3>4, <3>5 DEF Planned
    <3> QED
      BY <3>5, <3>6, <3>7
  <2> QED
    BY <2>1, <2>2
<1>5. UNCHANGED <<disk, shots, life, tools, run>>
  BY <1>1
<1>6. Asks'
  <2>1. Planned(p)' /\ \A d \in Clients : ask[d] # None => Planned(ask[d])
    BY <1>3, <1>4, <1>5, RestStays
  <2>2. ask' \in [Clients -> AskRecs \cup {None}]
    BY <1>3, <1>4
  <2>3. ASSUME NEW d \in Clients, ask'[d] # None PROVE Planned(ask[d])'
    <3>1. CASE d = c
      BY <1>3, <1>4, <2>1, <3>1
    <3>2. CASE d # c
      <4>1. PICK o : o = ask[d]
        OBVIOUS
      <4>2. ask'[d] = o
        BY <1>3, <1>4, <3>2, <4>1
      <4>3. Planned(o)'
        BY <1>5, <2>1, <2>3, <4>1, <4>2, RestStays
      <4> QED
        BY <4>2, <4>3
    <3> QED
      BY <3>1, <3>2
  <2> QED
    BY <2>2, <2>3 DEF Asks
<1>7. Area'
  BY <1>1, <1>3 DEF Area, area
<1> QED
  BY <1>5, <1>6, <1>7, RestStays DEF UInv

\* A gesture is launched: the run begins, or is never born.
LEMMA SpawnKeeps ==
  ASSUME UpgradeAssumption, OneClient, UInv, NEW c \in Clients, Spawn(c)
  PROVE  UInv'
<1>1. /\ ask[c] # None /\ Len(run) < MaxRuns /\ ask' = [ask EXCEPT ![c] = None]
      /\ UNCHANGED <<disk, shots, area, life, tools>>
  BY DEF Spawn
<1>2. /\ Disk /\ Shots /\ Area /\ Journal /\ Asks /\ AtRest /\ NoWriteLost
  BY DEF UInv
<1>3. PICK p \in AskRecs : p = ask[c]
  BY <1>1, <1>2 DEF Asks
<1>4. Planned(p) /\ \A i \in Runs : ~Active(i)
  BY <1>1, <1>2, <1>3 DEF Asks, Planned
<1>5. run \in Seq(RunRecs) /\ Len(run) \in Nat /\ MaxRuns \in Nat
  BY <1>2, RunIsRecord DEF Journal, UpgradeAssumption
<1>6. PICK n : n = Len(run) + 1
  OBVIOUS
<1>7. n \in Nat \ {0} /\ n <= MaxRuns
  BY <1>1, <1>5, <1>6
<1>8. PICK r \in RunRecs :
        /\ run' = Append(run, r)
        /\ r.mode = p.mode /\ r.aim = p.aim /\ r.wheel = p.wheel /\ r.from = 0 /\ r.snap = 0
        /\ r.pc \in {"begin", "unborn"} /\ ~r.home /\ r.to = (IF p.mode = "apply" THEN n ELSE p.to)
        /\ r.maps = "none" /\ r.told /\ r.rc = None /\ r.impact = "none"
  <2>1. PICK born \in {"begin", "unborn"} :
          run' = Append(run,
            [mode |-> p.mode, depot |-> p.depot, wheel |-> p.wheel,
             aim |-> p.aim, from |-> 0, snap |-> 0, pc |-> born, home |-> FALSE,
             to |-> IF p.mode = "apply" THEN Len(run) + 1 ELSE p.to,
             maps |-> "none", restored |-> TRUE, told |-> TRUE, rc |-> None,
             impact |-> "none", seen |-> {}])
    BY <1>3 DEF Spawn
  <2>2. PICK to : to = IF p.mode = "apply" THEN n ELSE p.to
    OBVIOUS
  <2>3. /\ p.mode \in Modes /\ p.depot \in Nat /\ p.wheel \in Homes /\ p.aim \in Nat /\ to \in Nat
        /\ {} \in Saved
    BY <1>7, <2>2 DEF AskRecs, Saved
  <2> DEFINE r == [mode |-> p.mode, depot |-> p.depot, wheel |-> p.wheel,
                   aim |-> p.aim, from |-> 0, snap |-> 0, pc |-> born, home |-> FALSE, to |-> to,
                   maps |-> "none", restored |-> TRUE, told |-> TRUE, rc |-> None,
                   impact |-> "none", seen |-> {}]
  <2>4. born \in Pcs /\ "none" \in Marks /\ None \in Codes /\ "none" \in Impacts
    BY DEF Pcs, Marks, Codes, Impacts
  <2>5. r \in RunRecs
    BY <2>3, <2>4 DEF RunRecs
  <2>6. run' = Append(run, r)
    BY <1>6, <2>1, <2>2
  <2>7. /\ r.mode = p.mode /\ r.aim = p.aim /\ r.wheel = p.wheel /\ r.from = 0 /\ r.snap = 0
        /\ r.pc \in {"begin", "unborn"} /\ ~r.home /\ r.to = to
        /\ r.maps = "none" /\ r.told /\ r.rc = None /\ r.impact = "none"
    OBVIOUS
  <2> HIDE DEF r
  <2> QED
    BY <2>2, <2>5, <2>6, <2>7
<1>9. /\ run' \in Seq(RunRecs) /\ Len(run') = n /\ run'[n] = r /\ \A i \in Runs : run'[i] = run[i]
      /\ Runs' = Runs \cup {n} /\ n \notin Runs
  <2>1. /\ run' \in Seq(RunRecs) /\ Len(run') = Len(run) + 1 /\ run'[Len(run) + 1] = r
        /\ \A i \in 1..Len(run) : run'[i] = run[i]
    BY <1>5, <1>8, AppendProperties
  <2> QED
    BY <1>5, <1>6, <2>1 DEF Runs
<1>10. \A v \in 0..Len(run) : SchemaOf(v)' = SchemaOf(v)
  <2>1. Len(run') >= Len(run)
    BY <1>5, <1>6, <1>9
  <2> QED
    BY <1>5, <1>9, <2>1, EditionsStay
<1>11. /\ \A i \in Runs : ~Active(i)'
       /\ Active(n)' <=> r.pc = "begin"
       /\ ~Ended(n)'
  <2>1. run'[n] = r /\ r.rc = None /\ r.pc \in {"begin", "unborn"}
    BY <1>8, <1>9
  <2>2. ASSUME NEW i \in Runs PROVE ~Active(i)'
    <3>1. run'[i] = run[i] /\ ~Active(i)
      BY <1>4, <1>9
    <3> QED
      BY <3>1 DEF Active, Ended
  <2>3. (Active(n)' <=> r.pc = "begin") /\ ~Ended(n)'
    BY <2>1 DEF Active, Ended
  <2> QED
    BY <2>2, <2>3
<1>12. link \in 0..Len(run) /\ (r.mode = "rollback" => r.to \in venvs /\ r.to \in 0..Len(run))
  BY <1>2, <1>4, <1>8 DEF Disk, Planned
<1>13. Disk' /\ Shots' /\ OldShots /\ Area' /\ NoWriteLost'
  <2>1. Disk'
    BY <1>1, <1>2, <1>5, <1>6, <1>9 DEF Disk, disk, life
  <2> QED
    BY <1>1, <1>2, <2>1, ShotsStay DEF Area, NoWriteLost, disk, life, area
<1>14. Journal'
  <2>1. taken' = taken /\ taken \in Nat
    BY <1>1, <1>2 DEF shots, Shots
  <2>2. Entry(n, r)'
    BY <1>4, <1>7, <1>8, <2>1 DEF Entry, Planned
  <2>3. ASSUME NEW i \in Runs PROVE Entry(i, run[i])'
    BY <1>2, <1>9, <2>1 DEF Journal, Entry
  <2> QED
    BY <1>7, <1>9, <2>2, <2>3 DEF Journal
<1>15. Alone'
  BY <1>9, <1>11 DEF Alone
<1>16. Asks'
  <2>1. \A d \in Clients : ask'[d] = None
    BY <1>1, <1>2 DEF Asks, OneClient
  <2>2. ask' \in [Clients -> AskRecs \cup {None}]
    BY <1>1, <1>2 DEF Asks
  <2> QED
    BY <2>1, <2>2 DEF Asks
<1>17. Clean' => Clean
  <2>1. SUFFICES ASSUME Clean', NEW i \in Runs
                 PROVE  /\ run[i].pc # "cut" /\ run[i].told
                        /\ ~(run[i].impact = "forward" /\ Downgrade(i))
    BY DEF Clean
  <2>2. i \in 0..Len(run) /\ run[i].from \in 0..Len(run)
    BY <1>2, <1>5, RunIsRecord DEF Journal, Entry
  <2>3. Downgrade(i)' <=> Downgrade(i)
    BY <1>9, <1>10, <2>2 DEF Downgrade
  <2>4. /\ run'[i].pc # "cut" /\ run'[i].told
        /\ ~(run'[i].impact = "forward" /\ Downgrade(i)')
    BY <1>9, <2>1 DEF Clean
  <2> QED
    BY <1>9, <2>3, <2>4
<1>18. NoneLeft' => NoneLeft
  BY <1>9 DEF NoneLeft
<1>19. Clean' => /\ proc = link /\ db.schema <= SchemaOf(link)
                 /\ NoneLeft' => tools = link
  BY <1>2, <1>4, <1>17, <1>18 DEF AtRest, Settled
<1>20. AtWork'
  <2>1. SUFFICES ASSUME r.pc = "begin" PROVE Work(n, r)'
    BY <1>8, <1>9, <1>11 DEF AtWork
  <2>2. n \notin venvs
    BY <1>2, <1>5, <1>6 DEF Disk
  <2>3. Places(n, r)'
    <3>1. r.mode = "rollback" => SchemaOf(r.to)' <= SchemaOf(link)'
      BY <1>1, <1>4, <1>8, <1>10, <1>12 DEF Planned, disk
    <3> QED
      BY <1>1, <1>8, <1>12, <2>1, <2>2, <3>1 DEF Places, disk, Before, Stopped, Moved, Back
  <2>4. Copying(r)' /\ Holds(r)'
    BY <2>1 DEF Copying, Holds, Before, Moved, Back
  <2>5. Clean' => Readable(n, r)' /\ (NoneLeft' => Mapped(r)')
    BY <1>1, <1>10, <1>12, <1>19, <2>1 DEF Readable, Mapped, disk, life, Before, Moved, Back
  <2> QED
    BY <2>3, <2>4, <2>5 DEF Work
<1>21. AtRest'
  BY <1>1, <1>10, <1>12, <1>19 DEF AtRest, disk, life
<1>22. Told'
  BY <1>9, <1>11 DEF Told
<1> QED
  BY <1>13, <1>14, <1>15, <1>16, <1>20, <1>21, <1>22 DEF UInv

\* The machine restarts: the run at work is cut, and the service of the link opens
\* whatever is there.
LEMMA RebootKeeps ==
  ASSUME UpgradeAssumption, UInv, Reboot
  PROVE  UInv'
<1>1. /\ run' = [i \in Runs |-> IF Active(i) THEN [run[i] EXCEPT !.pc = "cut"] ELSE run[i]]
      /\ ask' = [c \in Clients |-> None] /\ proc' = link /\ db' = Opened(db, link)
      /\ UNCHANGED <<link, venvs, aside, shots, area, writes, tools>>
  BY DEF Reboot
<1>2. PICK n \in Runs : Active(n)
  BY DEF Reboot
<1>3. /\ n = Len(run) /\ n \in Nat \ {0} /\ run[n] \in RunRecs /\ Entry(n, run[n])
      /\ \A i \in Runs \ {n} : ~Active(i)
      /\ Disk /\ Shots /\ Area /\ Journal /\ NoWriteLost /\ run \in Seq(RunRecs)
  BY <1>2, Turn DEF UInv, Alone, Journal
<1>4. PICK r \in RunRecs : r = [run[n] EXCEPT !.pc = "cut"]
  BY <1>3 DEF RunRecs, Pcs
<1>5. SamePlan(run[n], r) /\ r.pc = "cut" /\ r.rc = run[n].rc /\ r.from = run[n].from /\ r.snap = run[n].snap
  BY <1>3, <1>4 DEF RunRecs, SamePlan
<1>6. run' = [run EXCEPT ![n] = r]
  <2>1. run \in [1..Len(run) -> RunRecs] /\ Runs = 1..Len(run)
    BY <1>3, LenProperties DEF Runs
  <2>2. \A i \in Runs : run'[i] = IF i = n THEN r ELSE run[i]
    BY <1>1, <1>2, <1>3, <1>4
  <2>3. run' = [i \in Runs |-> IF i = n THEN r ELSE run[i]]
    BY <1>1, <1>2, <1>3, <1>4
  <2> QED
    BY <2>1, <2>3
<1>7. /\ run' \in Seq(RunRecs) /\ Len(run') = Len(run) /\ Runs' = Runs
      /\ run'[n] = r /\ \A j \in Runs \ {n} : run'[j] = run[j]
  BY <1>3, <1>6, Written
<1>8. \A v \in 0..Len(run) : SchemaOf(v)' = SchemaOf(v)
  BY <1>3, <1>5, <1>6, EditionsWork DEF SamePlan
<1>9. \A j \in Runs : ~Active(j)'
  BY <1>3, <1>5, <1>7 DEF Active, Ended
<1>10. ~Ended(n)' /\ ~Clean'
  <2>1. run[n].rc = None
    BY <1>2 DEF Active, Ended
  <2> QED
    BY <1>5, <1>7, <2>1 DEF Ended, Clean
<1>11. Disk' /\ NoWriteLost'
  BY <1>1, <1>3, <1>7, <1>8, Reopened DEF Reopens
<1>12. Shots' /\ OldShots /\ Area'
  BY <1>1, <1>3, ShotsStay DEF Area, area
<1>13. Journal'
  <2>1. taken' = taken
    BY <1>1 DEF shots
  <2>2. Entry(n, r)'
    <3>1. run[n].rc = None
      BY <1>2 DEF Active, Ended
    <3> QED
      BY <1>3, <1>5, <2>1, <3>1 DEF Entry, SamePlan
  <2>3. ASSUME NEW j \in Runs \ {n} PROVE Entry(j, run[j])'
    BY <1>3, <1>7, <2>1 DEF Journal, Entry
  <2>4. \A j \in Runs : Entry(j, run[j])'
    BY <1>7, <2>2, <2>3
  <2> QED
    BY <1>3, <1>7, <2>4 DEF Journal
<1>14. Alone' /\ AtWork'
  BY <1>7, <1>9 DEF Alone, AtWork
<1>15. Asks'
  BY <1>1 DEF Asks
<1>16. AtRest' /\ Told'
  BY <1>3, <1>7, <1>10 DEF AtRest, Told
<1> QED
  BY <1>11, <1>12, <1>13, <1>14, <1>15, <1>16 DEF UInv

(***************************************************************************)
(* The invariant, and what follows                                         *)
(***************************************************************************)
\* What the update cycle starts from.
LEMMA UpgradeInit ==
  ASSUME UpgradeAssumption, Init
  PROVE  UInv
<1>1. run = <<>> /\ Len(run) = 0 /\ Runs = {} /\ run \in Seq(RunRecs)
  BY DEF Init, Runs
<1>2. SchemaOf(0) = Reads[Origin] /\ db.schema = Reads[Origin] /\ db.schema \in Nat
  BY DEF SchemaOf, Edition, Init, UpgradeAssumption
<1>3. Disk
  <2>1. db \in Base
    BY DEF Init, Base
  <2> QED
    BY <1>1, <2>1 DEF Disk, Init, UpgradeAssumption
<1>4. Shots
  <2>1. DOMAIN snaps = {} /\ Cardinality({}) = 0 /\ taken = 0
    BY FS_EmptySet DEF Init
  <2> QED
    BY <2>1 DEF Shots, UpgradeAssumption
<1>5. Area
  BY DEF Init, Area
<1>6. Journal /\ Alone /\ AtWork /\ Told
  BY <1>1 DEF Journal, Alone, AtWork, Told, UpgradeAssumption
<1>7. Asks
  BY DEF Init, Asks
<1>8. AtRest
  BY <1>2 DEF Init, AtRest
<1>9. NoWriteLost
  BY DEF Init, NoWriteLost
<1> QED
  BY <1>3, <1>4, <1>5, <1>6, <1>7, <1>8, <1>9 DEF UInv

\* A step that changes nothing.
LEMMA StutterKeeps ==
  ASSUME UInv, UNCHANGED vars
  PROVE  UInv'
<1>1. UNCHANGED <<disk, shots, life, tools, run>> /\ UNCHANGED <<area, ask>>
  BY DEF vars, disk, shots, life, area
<1>2. Area'
  BY <1>1 DEF UInv, Area, area
<1>3. Asks'
  BY <1>1, RestStays DEF UInv, Asks
<1> QED
  BY <1>1, <1>2, <1>3, RestStays DEF UInv

\* Every step keeps it.
LEMMA UpgradeStep ==
  ASSUME UpgradeAssumption, OneClient, UInv, [Next]_vars
  PROVE  UInv'
<1>1. ASSUME NEW c \in Clients, Gesture(c) PROVE UInv'
  BY <1>1, PreflightKeeps, SpawnKeeps DEF Gesture
<1>2. ASSUME NEW n, Applicator(n) PROVE UInv'
  BY <1>2, ApplicatorKeeps
<1> QED
  BY <1>1, <1>2, WriteKeeps, ManualKeeps, StageKeeps, RebootKeeps, StutterKeeps DEF Next

\* The update cycle keeps it, however many editions, runs, failures and reboots.
THEOREM UpgradeInvariant ==
  ASSUME OneClient
  PROVE  Spec => []UInv
<1>1. Init => UInv
  BY UpgradeAssumption, UpgradeInit
<1>2. UInv /\ [Next]_vars => UInv'
  BY UpgradeAssumption, UpgradeStep
<1> QED
  BY <1>1, <1>2, PTL DEF Spec

\* Once every gesture has its verdict, the service runs the venv of the link and
\* reads the base, and the host tooling is of that edition unless a verdict said it
\* was left.
THEOREM ServesWhenSettledHolds ==
  ASSUME OneClient
  PROVE  Spec => []ServesWhenSettled
<1>1. UInv => ServesWhenSettled
  <2>1. SUFFICES ASSUME UInv, Settled, Clean
                 PROVE  /\ proc = link /\ Servable
                        /\ (\A i \in Runs : run[i].maps # "left") => tools = link
    BY DEF ServesWhenSettled
  <2>2. link # None
    BY <2>1, UpgradeAssumption DEF UInv, Disk, UpgradeAssumption
  <2> QED
    BY <2>1, <2>2 DEF UInv, AtRest, NoneLeft, Servable
<1> QED
  BY <1>1, UpgradeInvariant, PTL

\* What the last verdict says is what the disk shows.
THEOREM VerdictIsTrueHolds ==
  ASSUME OneClient
  PROVE  Spec => []VerdictIsTrue
<1>1. UInv => VerdictIsTrue
  BY DEF UInv, Told, Verdict, VerdictIsTrue
<1> QED
  BY <1>1, UpgradeInvariant, PTL

\* The shape of the disk and of the journals.
LEMMA ShapeOfUpgrade ==
  ASSUME UInv
  PROVE  TypeOK
<1>1. Disk /\ Shots /\ Area /\ Journal
  BY DEF UInv
<1>2. ASSUME NEW i \in Runs
      PROVE  /\ run[i].pc \in Pcs /\ run[i].impact \in Impacts
             /\ run[i].rc \in {None, 0, 1, 2} /\ (Ended(i) <=> run[i].pc = "done")
             /\ run[i].from \in 0..(i - 1) /\ run[i].snap \in 0..taken
  <2>1. run[i] \in RunRecs /\ Entry(i, run[i])
    BY <1>1, RunIsRecord DEF Journal
  <2> QED
    BY <2>1, RunFields DEF Entry, Ended, Codes
<1> QED
  BY <1>1, <1>2 DEF TypeOK, Disk, Shots, Area, Journal

\* A wheel that a run without a verdict names is not pruned.
LEMMA WheelsAreKept ==
  ASSUME UInv, [Next]_vars, NEW i \in Runs, ~Ended(i), run[i].depot \in DOMAIN depots
  PROVE  run[i].depot \in DOMAIN depots'
<1>1. CASE Stage
  <2>1. run[i].depot \in InUse
    BY DEF InUse
  <2>2. run[i].depot \in Kept(DOMAIN depots \cup {staged + 1})
    BY <2>1 DEF Kept
  <2> QED
    BY <1>1, <2>2 DEF Stage
<1>2. CASE UNCHANGED area
  BY <1>2 DEF area
<1>3. Stage \/ UNCHANGED area
  <2>1. ASSUME NEW n, Shared(n) PROVE UNCHANGED area
    BY <2>1 DEF Shared, Probe, Stop, TakeSnapshot, MoveAside, CopyBack, RestoreFails, Maps,
                Accept, Undo, Health
  <2>2. ASSUME NEW n, Applicator(n) PROVE UNCHANGED area
    <3>1. Build(n) \/ SwapForward(n) \/ Aim(n) \/ SwapBack(n) => UNCHANGED area
      BY DEF Build, SwapForward, Aim, SwapBack
    <3> QED
      BY <2>1, <2>2, <3>1 DEF Applicator, Apply, Rollback
  <2>3. ASSUME NEW c \in Clients, Gesture(c) PROVE UNCHANGED area
    BY <2>3 DEF Gesture, PreflightApply, PreflightRollback, Spawn
  <2>4. Write \/ Manual \/ Reboot => UNCHANGED area
    BY DEF Write, Manual, Reboot
  <2>5. UNCHANGED vars => UNCHANGED area
    BY DEF vars
  <2> QED
    BY <2>2, <2>3, <2>4, <2>5 DEF Next
<1> QED
  BY <1>1, <1>2, <1>3

\* No write is destroyed and no wheel in use is pruned, whatever fails and wherever
\* the machine stops; and the retention of snapshots keeps to its bound.
THEOREM NothingIsLostHolds ==
  ASSUME OneClient
  PROVE  Spec => NothingIsLost
<1>1. UInv /\ [Next]_vars =>
        [ /\ TypeOK'
          /\ (1..writes \subseteq db.data \cup UNION {b.data : b \in aside})'
          /\ \A i \in Runs : ~Ended(i) /\ run[i].depot \in DOMAIN depots /\ run'[i].rc = None
               => run[i].depot \in DOMAIN depots' ]_vars
  <2>1. SUFFICES ASSUME UInv, [Next]_vars
                 PROVE  /\ TypeOK'
                        /\ (1..writes \subseteq db.data \cup UNION {b.data : b \in aside})'
                        /\ \A i \in Runs : ~Ended(i) /\ run[i].depot \in DOMAIN depots /\ run'[i].rc = None
                             => run[i].depot \in DOMAIN depots'
    OBVIOUS
  <2>2. UInv'
    BY <2>1, UpgradeAssumption, UpgradeStep
  <2>3. TypeOK'
    BY <2>2, ShapeOfUpgrade, PTL
  <2>4. (1..writes \subseteq db.data \cup UNION {b.data : b \in aside})'
    BY <2>2 DEF UInv, NoWriteLost
  <2> QED
    BY <2>1, <2>3, <2>4, WheelsAreKept
<1>2. UInv /\ [Next]_vars => UInv'
  BY UpgradeAssumption, UpgradeStep
<1> QED
  BY <1>1, <1>2, UpgradeInvariant, PTL DEF Spec, NothingIsLost

(***************************************************************************)
(* The way back                                                            *)
(***************************************************************************)
\* A snapshot leads back to the venv it is paired with: it was taken of a base
\* that venv reads exactly, and the venv is not purged while only rollbacks
\* follow.  A rollback does not return because its target is at most one snapshot
\* behind the one of the run before it, and snapshots are numbered as runs are.

\* Before a run has its snapshot, and after.
Early == {"unborn", "begin", "probe", "stop", "snapshot"}
Late  == {"swap", "maps", "verify", "aside", "copy", "remaps", "health"}

\* A base that is served was opened by the edition that serves it.
Opens == proc # None => SchemaOf(proc) <= db.schema

\* The snapshots kept are the last ones.
Window == DOMAIN snaps = {s \in 1..taken : taken - s < Keep}

\* The snapshots of the runs are numbered in their order.
Sealed(q) == /\ q.pc \in Early => q.snap = 0
             /\ q.pc \in Late => q.snap # 0
             /\ q.rc = 0 => q.snap # 0 /\ q.told /\ q.impact = "done"
Numbered ==
  \A j \in Runs : /\ Sealed(run[j])
                  /\ \A i \in Runs : i < j /\ run[j].snap # 0 => run[i].snap < run[j].snap

\* A run starts from where the one that succeeded before it led.
Follows(l, q, p) == /\ q.pc = "begin" => l = p.to
                    /\ q.pc \notin {"begin", "unborn", "cut"} => q.from = p.to
Chained == \A k \in Runs : k > 1 /\ run[k - 1].rc = 0 => Follows(link, run[k], run[k - 1])

\* The base that is snapshot is of the schema its edition reads.
Match(q) ==
  /\ q.pc \in {"snapshot", "swap"} => db.schema = SchemaOf(q.from)
  /\ q.pc \in Late /\ q.snap \in DOMAIN snaps => snaps[q.snap].schema = SchemaOf(q.from)
  /\ q.pc \in Moved /\ q.mode = "apply" => SchemaOf(q.from) <= db.schema
Matching == Clean => \A n \in Runs : Active(n) => Match(run[n])

\* An apply that succeeded, while only rollbacks follow.
LastApply(j) == /\ run[j].mode = "apply" /\ run[j].rc = 0
                /\ \A k \in Runs : k > j => run[k].mode = "rollback"
Pair(j, q) == /\ q.from \in venvs /\ SchemaOf(q.from) <= SchemaOf(j)
              /\ q.snap \in DOMAIN snaps => snaps[q.snap].schema = SchemaOf(q.from)
Pairs == Clean => \A j \in Runs : LastApply(j) => Pair(j, run[j])

\* A target of the n-th run that a verdict names is an apply's, and its venv is
\* the one the apply replaced.
Fits(n, a, t) == \A j \in Takers(a) :
                   j < n => /\ run[j].mode = "apply"
                            /\ Clean /\ LastApply(j) => t = run[j].from
Planning == \A c \in Clients : ask[c] # None /\ ask[c].mode = "rollback"
                                 => Fits(Len(run) + 1, ask[c].aim, ask[c].to)
Aims(n, q) == /\ Fits(n, q.aim, q.to)
              /\ n > 1 /\ q.pc # "begin" => run[n - 1].snap <= q.aim + 1
Aiming == \A n \in Runs : Active(n) /\ run[n].mode = "rollback" => Aims(n, run[n])

WInv == Opens /\ Window /\ Numbered /\ Chained /\ Matching /\ Pairs /\ Planning /\ Aiming

\* The window of the retention moves by one with each snapshot.
LEMMA WindowMoves ==
  ASSUME UpgradeAssumption, Shots, Window, Create
  PROVE  Window'
<1> DEFINE D == DOMAIN snaps \cup {taken + 1}
<1>1. taken \in Nat /\ Keep \in Nat \ {0} /\ DOMAIN snaps = {s \in 1..taken : taken - s < Keep}
  BY DEF Shots, Window, UpgradeAssumption
<1>2. D = {s \in 1..(taken + 1) : taken - s < Keep}
  BY <1>1
<1>3. taken' = taken + 1 /\ DOMAIN snaps' = Newest(Keep, D)
  BY DEF Create
<1> HIDE DEF D
<1>4. ASSUME NEW s \in D PROVE Cardinality({t \in D : t > s}) = (taken + 1) - s
  <2> DEFINE U == {t \in D : t > s}
  <2>1. s \in 1..(taken + 1) /\ taken - s < Keep
    BY <1>2
  <2>2. U = (s + 1)..(taken + 1)
    <3>1. \A t \in D : t > s => t \in (s + 1)..(taken + 1)
      BY <1>1, <1>2, <2>1
    <3>2. \A t \in (s + 1)..(taken + 1) : t \in D /\ t > s
      BY <1>1, <1>2, <2>1
    <3> QED
      BY <3>1, <3>2
  <2>3. Cardinality((s + 1)..(taken + 1)) = IF s + 1 > taken + 1 THEN 0 ELSE (taken + 1) - (s + 1) + 1
    BY <1>1, <2>1, FS_Interval
  <2> HIDE DEF U
  <2>4. Cardinality(U) = (taken + 1) - s
    BY <1>1, <2>1, <2>2, <2>3
  <2> QED
    BY <2>4 DEF U
<1>5. Newest(Keep, D) = {s \in 1..(taken + 1) : (taken + 1) - s < Keep}
  <2>1. Newest(Keep, D) = {s \in D : (taken + 1) - s < Keep}
    BY <1>4 DEF Newest
  <2> QED
    BY <1>1, <1>2, <2>1
<1> DEFINE Last(t) == {s \in 1..t : t - s < Keep}
<1>6. Newest(Keep, D) = Last(taken + 1)
  BY <1>5
<1> HIDE DEF Last
<1>7. DOMAIN snaps' = Last(taken')
  BY <1>3, <1>6
<1> QED
  BY <1>7 DEF Last, Window

\* What a step of the run at work may change.
Served == \/ proc' = None
          \/ proc' = proc /\ db'.schema = db.schema
          \/ \E v \in 0..Len(run), b \in Base : Start(v, b)
Shift(n, q, r) ==
  /\ SamePlan(q, r) /\ r.pc \notin {"unborn", "begin", "cut"} /\ r.told \in {q.told, FALSE}
  /\ r.from = IF q.pc = "begin" THEN link ELSE q.from
  /\ \/ /\ Create /\ db' = db
        /\ q.pc = "snapshot" /\ r.pc = "swap" /\ r.snap = taken + 1
     \/ UNCHANGED shots /\ r.snap = q.snap /\ (r.pc \in Late => q.pc \in Late) /\ r.pc # "swap"
  /\ r.pc \in Early => q.pc \in Early
  /\ r.pc = "snapshot" => q.pc = "stop" /\ db' = db
  /\ r.pc \in Moved /\ q.mode = "apply" => q.pc \in {"swap"} \cup Moved /\ db.schema <= db'.schema
  /\ r.rc = 0 => q.pc = "verify" /\ r.told = q.told /\ r.impact = "done" /\ UNCHANGED <<link, db>>
  /\ \/ venvs \subseteq venvs'
     \/ r.rc = 0 /\ q.mode = "apply" /\ venvs' = venvs \cap {0, n, q.from}
  /\ q.pc = "begin" /\ q.mode = "rollback" /\ r.pc # "done" =>
       Cardinality({s \in DOMAIN snaps : s > q.aim}) < Keep - 1
  /\ Served
Shifts(n) == \E q, r \in RunRecs : Steps(n, q, r) /\ Shift(n, q, r)

\* What moves and what stays in a record.
Moves(q, r, p) == /\ SamePlan(q, r) /\ r.from = q.from /\ r.snap = q.snap /\ r.pc = p

\* A step that only goes on.
LEMMA GoesFields ==
  ASSUME NEW q \in RunRecs, NEW p, NEW r, r = [q EXCEPT !.pc = p]
  PROVE  Moves(q, r, p) /\ r.told = q.told /\ r.rc = q.rc
BY DEF RunRecs, SamePlan, Moves

\* A verdict that is lost.
LEMMA LosesFields ==
  ASSUME NEW q \in RunRecs, NEW r,
         r = [q EXCEPT !.pc = "done", !.rc = 2, !.impact = "unknown", !.told = FALSE]
  PROVE  Moves(q, r, "done") /\ r.told = FALSE /\ r.rc = 2
BY DEF RunRecs, SamePlan, Moves

\* A step that takes no snapshot and does not succeed.
LEMMA Quietly ==
  ASSUME NEW n, NEW q \in RunRecs, NEW r \in RunRecs, NEW p, Moves(q, r, p), r.told \in {q.told, FALSE},
         q.pc # "begin", UNCHANGED shots, venvs \subseteq venvs', r.rc # 0, Served,
         p \notin {"unborn", "begin", "cut", "swap"},
         p \in Late => q.pc \in Late, p \in Early => q.pc \in Early,
         p = "snapshot" => q.pc = "stop" /\ db' = db,
         p \in Moved /\ q.mode = "apply" => q.pc \in {"swap"} \cup Moved /\ db.schema <= db'.schema
  PROVE  Shift(n, q, r)
BY DEF Moves, Shift

\* A verdict that is not a success.
LEMMA QuietEnd ==
  ASSUME NEW n, NEW q \in RunRecs, NEW r \in RunRecs, Moves(q, r, "done"), r.told = q.told \/ r.told = FALSE,
         q.pc # "begin", UNCHANGED shots, venvs' = venvs, r.rc = 1 \/ r.rc = 2, Served
  PROVE  Shift(n, q, r)
<1>1. r.told \in {q.told, FALSE}
  BY Zenon
<1>2. r.rc # 0
  BY SMT
<1> QED
  BY <1>1, <1>2 DEF Moves, Shift, Early, Late, Moved

\* The steps of both gestures.
LEMMA SharedShifts ==
  ASSUME UpgradeAssumption, UInv, NEW n \in Runs, Shared(n)
  PROVE  Shifts(n)
<1>1. run \in Seq(RunRecs) /\ db \in Base /\ link \in 0..Len(run) /\ db.schema \in Nat
  BY BaseFields DEF UInv, Journal, Disk
<1>2. PICK q \in RunRecs : q = run[n]
  BY <1>1, RunIsRecord
<1>3. n \in 1..Len(run) /\ run \in [1..Len(run) -> RunRecs]
  BY <1>1, LenProperties DEF Runs
<1>4. /\ {"stop", "snapshot", "swap", "aside", "copy", "maps", "remaps", "verify", "health"} \subseteq Pcs
      /\ {1, 2, 0} \subseteq Codes
      /\ {"none", "forward", "asBefore", "done", "undone", "dataLost"} \subseteq Impacts
  BY DEF Pcs, Codes, Impacts
<1>5. /\ q.pc \notin {"unborn", "cut", "done"} => Entry(n, q) /\ Places(n, q) /\ Copying(q)
      /\ None # 0
  BY <1>2, Standing DEF UpgradeAssumption
<1>6. ASSUME NEW r \in RunRecs, Steps(n, q, r), Shift(n, q, r) PROVE Shifts(n)
  BY <1>6 DEF Shifts
<1>7. q.pc \notin {"unborn", "cut", "done"} => q.rc # 0
  BY <1>5 DEF Entry
<1>8. ASSUME Probe(n) PROVE Shifts(n)
  <2>1. q.pc = "probe" /\ UNCHANGED <<disk, shots, area, life, tools, ask>>
    BY <1>2, <1>8 DEF Probe, At
  <2>2. Served /\ venvs' = venvs /\ UNCHANGED shots
    BY <2>1 DEF Served, life, disk
  <2>3. CASE Goto(n, "stop")
    <3>1. Goes(n, q, "stop")
      BY <1>1, <1>2, <1>4, <2>1, <2>3, Going
    <3>2. PICK r \in RunRecs : Steps(n, q, r) /\ r = [q EXCEPT !.pc = "stop"]
      BY <3>1 DEF Goes
    <3>3. Moves(q, r, "stop") /\ r.told = q.told /\ r.rc = q.rc
      BY <3>2, GoesFields
    <3>4. Shift(n, q, r)
      BY <1>7, <2>1, <2>2, <3>3, Quietly DEF Early, Late, Moved
    <3> QED
      BY <1>6, <3>2, <3>4
  <2>4. CASE Result(n, 1, "none")
    <3>1. Ends(n, q, 1, "none")
      BY <1>1, <1>2, <1>4, <2>1, <2>4, Ending
    <3>2. PICK r \in RunRecs : Steps(n, q, r) /\ r = [q EXCEPT !.pc = "done", !.rc = 1, !.impact = "none"]
      BY <3>1 DEF Ends
    <3>3. Moves(q, r, "done") /\ r.told = q.told /\ r.rc = 1
      BY <3>2 DEF RunRecs, SamePlan, Moves
    <3>4. Shift(n, q, r)
      BY <2>1, <2>2, <3>3, QuietEnd
    <3> QED
      BY <1>6, <3>2, <3>4
  <2> QED
    BY <1>8, <2>3, <2>4 DEF Probe
<1>9. ASSUME Stop(n) PROVE Shifts(n)
  <2>1. q.pc = "stop" /\ proc' = None /\ UNCHANGED <<disk, shots, area, writes, tools, ask>>
    BY <1>2, <1>9 DEF Stop, At, StopService
  <2>2. Served /\ venvs' = venvs /\ db' = db /\ UNCHANGED shots
    BY <2>1 DEF Served, disk
  <2>3. Goes(n, q, "snapshot")
    BY <1>1, <1>2, <1>4, <1>9, <2>1, Going DEF Stop
  <2>4. PICK r \in RunRecs : Steps(n, q, r) /\ r = [q EXCEPT !.pc = "snapshot"]
    BY <2>3 DEF Goes
  <2>5. Moves(q, r, "snapshot") /\ r.told = q.told /\ r.rc = q.rc
    BY <2>4, GoesFields
  <2>6. Shift(n, q, r)
    BY <1>7, <2>1, <2>2, <2>5, Quietly DEF Early, Late, Moved
  <2> QED
    BY <1>6, <2>4, <2>6
<1>10. ASSUME TakeSnapshot(n) PROVE Shifts(n)
  <2>1. q.pc = "snapshot" /\ UNCHANGED <<link, venvs, aside, area, writes, tools, ask>>
    BY <1>2, <1>10 DEF TakeSnapshot, At
  <2>2. ASSUME Create, run' = [run EXCEPT ![n].pc = "swap", ![n].snap = taken + 1], UNCHANGED <<proc, db>>
        PROVE  Shifts(n)
    <3>1. PICK s : s = taken + 1
      OBVIOUS
    <3>2. s \in Nat
      BY <3>1 DEF UInv, Shots
    <3>3. [q EXCEPT !.pc = "swap", !.snap = s] \in RunRecs
      BY <3>2 DEF RunRecs, Pcs
    <3>4. run' = [run EXCEPT ![n] = [q EXCEPT !.pc = "swap", !.snap = s]]
      BY <1>2, <1>3, <2>2, <3>1 DEF RunRecs
    <3>5. PICK r \in RunRecs : Steps(n, q, r) /\ r = [q EXCEPT !.pc = "swap", !.snap = s]
      BY <1>2, <2>1, <3>3, <3>4 DEF Steps
    <3>6. /\ SamePlan(q, r) /\ r.from = q.from /\ r.pc = "swap" /\ r.snap = taken + 1 /\ r.told = q.told
          /\ r.rc = q.rc
      BY <3>1, <3>5 DEF RunRecs, SamePlan
    <3>7. Served
      BY <2>2 DEF Served
    <3>8. Shift(n, q, r)
      BY <1>7, <2>1, <2>2, <3>6, <3>7 DEF Shift, Early, Late, Moved
    <3> QED
      BY <1>6, <3>5, <3>8
  <2>3. ASSUME Start(link, db), Result(n, 1, "none"), UNCHANGED shots
        PROVE  Shifts(n)
    <3>1. Ends(n, q, 1, "none")
      BY <1>1, <1>2, <1>4, <2>1, <2>3, Ending
    <3>2. PICK r \in RunRecs : Steps(n, q, r) /\ r = [q EXCEPT !.pc = "done", !.rc = 1, !.impact = "none"]
      BY <3>1 DEF Ends
    <3>3. Moves(q, r, "done") /\ r.told = q.told /\ r.rc = 1
      BY <3>2 DEF RunRecs, SamePlan, Moves
    <3>4. Served
      BY <1>1, <2>3 DEF Served
    <3>5. Shift(n, q, r)
      BY <2>1, <2>3, <3>3, <3>4, QuietEnd
    <3> QED
      BY <1>6, <3>2, <3>5
  <2> QED
    BY <1>10, <2>2, <2>3 DEF TakeSnapshot
<1>11. ASSUME MoveAside(n) PROVE Shifts(n)
  <2>1. q.pc = "aside" /\ UNCHANGED <<link, venvs, shots, area, life, tools, ask>>
    BY <1>2, <1>11 DEF MoveAside, At
  <2>2. proc' = None
    BY <1>5, <2>1 DEF Places, Stopped, life
  <2>3. Goes(n, q, "copy")
    BY <1>1, <1>2, <1>4, <1>11, <2>1, Going DEF MoveAside
  <2>4. PICK r \in RunRecs : Steps(n, q, r) /\ r = [q EXCEPT !.pc = "copy"]
    BY <2>3 DEF Goes
  <2>5. Moves(q, r, "copy") /\ r.told = q.told /\ r.rc = q.rc
    BY <2>4, GoesFields
  <2>6. Served
    BY <2>2 DEF Served
  <2>7. Shift(n, q, r)
    BY <1>7, <2>1, <2>5, <2>6, Quietly DEF Early, Late, Moved
  <2> QED
    BY <1>6, <2>4, <2>7
<1>12. ASSUME CopyBack(n) PROVE Shifts(n)
  <2>1. /\ q.pc = "copy" /\ Source(n) \in DOMAIN snaps /\ Start(link, snaps[Source(n)])
        /\ UNCHANGED <<link, venvs, aside, shots, area, writes, tools, ask>>
    BY <1>2, <1>12 DEF CopyBack, At
  <2>2. PICK p : p = IF q.home THEN "remaps" ELSE "maps"
    OBVIOUS
  <2>3. p \in Pcs /\ Goto(n, p)
    BY <1>2, <1>4, <1>12, <2>2 DEF CopyBack
  <2>4. Goes(n, q, p)
    BY <1>1, <1>2, <2>1, <2>3, Going
  <2>5. PICK r \in RunRecs : Steps(n, q, r) /\ r = [q EXCEPT !.pc = p]
    BY <2>4 DEF Goes
  <2>6. Moves(q, r, p) /\ r.told = q.told /\ r.rc = q.rc
    BY <2>5, GoesFields
  <2>7. Served
    <3>1. snaps[Source(n)] \in Base
      BY <2>1 DEF UInv, Shots
    <3> QED
      BY <1>1, <2>1, <3>1 DEF Served
  <2>8. p \in {"maps", "remaps"} /\ (p = "maps" => q.mode # "apply")
    <3>1. ~q.home => q.mode = "rollback"
      BY <1>5, <2>1 DEF Places
    <3> QED
      BY <2>2, <3>1
  <2>9. Shift(n, q, r)
    BY <1>7, <2>1, <2>6, <2>7, <2>8, Quietly DEF Early, Late, Moved
  <2> QED
    BY <1>6, <2>5, <2>9
<1>13. ASSUME RestoreFails(n) PROVE Shifts(n)
  <2>1. q.pc \in {"aside", "copy"} /\ UNCHANGED <<venvs, aside, shots, area, writes, tools, ask>>
    BY <1>2, <1>13 DEF RestoreFails, At
  <2>2. ASSUME NEW rc \in {1, 2}, NEW impact \in Impacts, NEW v \in 0..Len(run), Start(v, db), Result(n, rc, impact)
        PROVE  Shifts(n)
    <3>1. Ends(n, q, rc, impact)
      BY <1>1, <1>2, <1>4, <2>1, <2>2, Ending
    <3>2. PICK r \in RunRecs : Steps(n, q, r) /\ r = [q EXCEPT !.pc = "done", !.rc = rc, !.impact = impact]
      BY <3>1 DEF Ends
    <3>3. Moves(q, r, "done") /\ r.told = q.told /\ r.rc = rc
      BY <3>2 DEF RunRecs, SamePlan, Moves
    <3>4. Served
      BY <1>1, <2>2 DEF Served
    <3>5. Shift(n, q, r)
      BY <2>1, <2>2, <3>3, <3>4, QuietEnd
    <3> QED
      BY <1>6, <3>2, <3>5
  <2>3. ASSUME Start(link, db), run' = [run EXCEPT ![n].pc = "remaps", ![n].restored = FALSE]
        PROVE  Shifts(n)
    <3>1. [q EXCEPT !.pc = "remaps", !.restored = FALSE] \in RunRecs
      BY DEF RunRecs, Pcs
    <3>2. run' = [run EXCEPT ![n] = [q EXCEPT !.pc = "remaps", !.restored = FALSE]]
      BY <1>2, <1>3, <2>3 DEF RunRecs
    <3>3. PICK r \in RunRecs : Steps(n, q, r) /\ r = [q EXCEPT !.pc = "remaps", !.restored = FALSE]
      BY <1>2, <2>1, <3>1, <3>2 DEF Steps
    <3>4. Moves(q, r, "remaps") /\ r.told = q.told /\ r.rc = q.rc
      BY <3>3 DEF RunRecs, SamePlan, Moves
    <3>5. Served
      BY <1>1, <2>3 DEF Served
    <3>6. Shift(n, q, r)
      BY <1>7, <2>1, <3>4, <3>5, Quietly DEF Early, Late, Moved
    <3> QED
      BY <1>6, <3>3, <3>6
  <2>4. n \in 0..Len(run) /\ q.from \in 0..Len(run)
    BY <1>1, <1>3, <1>5, <2>1, RunIsRecord DEF Entry
  <2>5. "forward" \in Impacts /\ "asBefore" \in Impacts
    BY <1>4
  <2> QED
    BY <1>2, <1>13, <2>2, <2>3, <2>4, <2>5 DEF RestoreFails
<1>14. ASSUME Maps(n) PROVE Shifts(n)
  <2>1. q.pc \in {"maps", "remaps"} /\ UNCHANGED <<disk, shots, area, life, ask>>
    BY <1>2, <1>14 DEF Maps, At
  <2>2. PICK next \in Pcs : next = IF q.pc = "maps" THEN "verify" ELSE "health"
    BY <1>4
  <2>3. PICK mark \in Marks : run' = [run EXCEPT ![n].pc = next, ![n].maps = mark]
    BY <1>2, <1>14, <2>2 DEF Maps, At, Marks
  <2>4. [q EXCEPT !.pc = next, !.maps = mark] \in RunRecs
    BY DEF RunRecs
  <2>5. run' = [run EXCEPT ![n] = [q EXCEPT !.pc = next, !.maps = mark]]
    BY <1>2, <1>3, <2>3 DEF RunRecs
  <2>6. PICK r \in RunRecs : Steps(n, q, r) /\ r = [q EXCEPT !.pc = next, !.maps = mark]
    BY <1>2, <2>1, <2>4, <2>5 DEF Steps
  <2>7. Moves(q, r, next) /\ r.told = q.told /\ r.rc = q.rc
    BY <2>6 DEF RunRecs, SamePlan, Moves
  <2>8. Served /\ venvs' = venvs /\ db' = db /\ UNCHANGED shots
    BY <2>1 DEF Served, life, disk
  <2>9. next \in {"verify", "health"} /\ (next = "verify" => q.pc = "maps")
    BY <2>2
  <2>10. next \in Moved /\ q.mode = "apply" => q.pc \in {"swap"} \cup Moved /\ db.schema <= db'.schema
    BY <1>1, <2>8, <2>9 DEF Moved
  <2>11. q.pc # "begin" /\ r.rc # 0 /\ next \notin {"unborn", "begin", "cut", "swap", "snapshot"}
         /\ next \notin Early /\ q.pc \in Late /\ venvs \subseteq venvs'
    BY <1>7, <2>1, <2>7, <2>8, <2>9 DEF Early, Late
  <2>12. Shift(n, q, r)
    BY <2>7, <2>8, <2>10, <2>11, Quietly
  <2> QED
    BY <1>6, <2>6, <2>12
<1>15. ASSUME Accept(n) PROVE Shifts(n)
  <2>1. /\ q.pc = "verify"
        /\ venvs' = (IF q.mode = "apply" THEN venvs \cap {0, n, q.from} ELSE venvs)
        /\ UNCHANGED <<link, db, aside, shots, area, life, tools, ask>>
    BY <1>2, <1>15 DEF Accept, At
  <2>2. Ends(n, q, 0, "done")
    BY <1>1, <1>2, <1>4, <1>15, <2>1, Ending DEF Accept
  <2>3. PICK r \in RunRecs : Steps(n, q, r) /\ r = [q EXCEPT !.pc = "done", !.rc = 0, !.impact = "done"]
    BY <2>2 DEF Ends
  <2>4. Moves(q, r, "done") /\ r.told = q.told /\ r.rc = 0 /\ r.impact = "done"
    BY <2>3 DEF RunRecs, SamePlan, Moves
  <2>5. Served
    BY <2>1 DEF Served, life
  <2>6. Shift(n, q, r)
    BY <2>1, <2>4, <2>5 DEF Shift, Moves, Early, Late, Moved
  <2> QED
    BY <1>6, <2>3, <2>6
<1>16. ASSUME Undo(n) PROVE Shifts(n)
  <2>1. q.pc = "verify" /\ proc' = None /\ UNCHANGED <<venvs, db, aside, shots, area, writes, tools, ask>>
    BY <1>2, <1>16 DEF Undo, At, StopService
  <2>2. Served
    BY <2>1 DEF Served
  <2>3. ASSUME run' = [run EXCEPT ![n].pc = "aside", ![n].home = TRUE] PROVE Shifts(n)
    <3>1. [q EXCEPT !.pc = "aside", !.home = TRUE] \in RunRecs
      BY DEF RunRecs, Pcs
    <3>2. run' = [run EXCEPT ![n] = [q EXCEPT !.pc = "aside", !.home = TRUE]]
      BY <1>2, <1>3, <2>3 DEF RunRecs
    <3>3. PICK r \in RunRecs : Steps(n, q, r) /\ r = [q EXCEPT !.pc = "aside", !.home = TRUE]
      BY <1>2, <2>1, <3>1, <3>2 DEF Steps
    <3>4. Moves(q, r, "aside") /\ r.told = q.told /\ r.rc = q.rc
      BY <3>3 DEF RunRecs, SamePlan, Moves
    <3>5. Shift(n, q, r)
      BY <1>7, <2>1, <2>2, <3>4, Quietly DEF Early, Late, Moved
    <3> QED
      BY <1>6, <3>3, <3>5
  <2>4. ASSUME Lost(n) PROVE Shifts(n)
    <3>1. Loses(n, q)
      BY <1>1, <1>2, <2>1, <2>4, Losing
    <3>2. PICK r \in RunRecs :
            /\ Steps(n, q, r)
            /\ r = [q EXCEPT !.pc = "done", !.rc = 2, !.impact = "unknown", !.told = FALSE]
      BY <3>1 DEF Loses
    <3>3. Moves(q, r, "done") /\ r.told = FALSE /\ r.rc = 2
      BY <3>2, LosesFields
    <3>4. Shift(n, q, r)
      BY <2>1, <2>2, <3>3, QuietEnd
    <3> QED
      BY <1>6, <3>2, <3>4
  <2> QED
    BY <1>16, <2>3, <2>4 DEF Undo
<1>17. ASSUME Health(n) PROVE Shifts(n)
  <2>1. q.pc = "health" /\ UNCHANGED <<disk, shots, area, life, tools, ask>>
    BY <1>2, <1>17 DEF Health, At
  <2>2. PICK impact \in Impacts : impact = IF q.restored THEN "undone" ELSE "dataLost"
    BY <1>4
  <2>3. PICK rc \in {1, 2} : Result(n, rc, impact)
    BY <1>2, <1>17, <2>2 DEF Health
  <2>4. Ends(n, q, rc, impact)
    BY <1>1, <1>2, <1>4, <2>1, <2>3, Ending
  <2>5. PICK r \in RunRecs : Steps(n, q, r) /\ r = [q EXCEPT !.pc = "done", !.rc = rc, !.impact = impact]
    BY <2>4 DEF Ends
  <2>6. Moves(q, r, "done") /\ r.told = q.told /\ r.rc = rc
    BY <2>5 DEF RunRecs, SamePlan, Moves
  <2>7. Served /\ venvs' = venvs /\ UNCHANGED shots
    BY <2>1 DEF Served, life, disk
  <2>8. Shift(n, q, r)
    BY <2>1, <2>6, <2>7, QuietEnd
  <2> QED
    BY <1>6, <2>5, <2>8
<1> QED
  BY <1>8, <1>9, <1>10, <1>11, <1>12, <1>13, <1>14, <1>15, <1>16, <1>17 DEF Shared

\* The first step of an apply.
LEMMA BuildShifts ==
  ASSUME UpgradeAssumption, UInv, NEW n \in Runs, run[n].mode = "apply", Build(n)
  PROVE  Shifts(n)
<1>1. run \in Seq(RunRecs) /\ db \in Base /\ None # 0
  BY DEF UInv, Journal, Disk, UpgradeAssumption
<1>2. PICK q \in RunRecs : q = run[n]
  BY <1>1, RunIsRecord
<1>3. n \in 1..Len(run) /\ run \in [1..Len(run) -> RunRecs]
  BY <1>1, LenProperties DEF Runs
<1>4. /\ q.pc = "begin" /\ q.mode = "apply"
      /\ UNCHANGED <<link, db, aside, shots, area, life, tools, ask>>
  BY <1>2 DEF Build, At
<1>5. PICK l : l = link
  OBVIOUS
<1>6. PICK d : d = db.data
  OBVIOUS
<1>7. l \in Nat /\ d \in Saved
  BY <1>1, <1>5, <1>6, BaseFields DEF UInv, Disk
<1>8. Served /\ q.rc # 0
  <2>1. Entry(n, q)
    BY <1>2 DEF UInv, Journal
  <2> QED
    BY <1>1, <1>4, <2>1 DEF Served, life, Entry
<1>9. ASSUME venvs' = venvs \cup {n},
             run' = [run EXCEPT ![n].pc = "probe", ![n].from = link, ![n].seen = db.data]
      PROVE  Shifts(n)
  <2>1. [q EXCEPT !.pc = "probe", !.from = l, !.seen = d] \in RunRecs
    BY <1>7 DEF RunRecs, Pcs
  <2>2. run' = [run EXCEPT ![n] = [q EXCEPT !.pc = "probe", !.from = l, !.seen = d]]
    BY <1>2, <1>3, <1>5, <1>6, <1>9 DEF RunRecs
  <2>3. PICK r \in RunRecs : Steps(n, q, r) /\ r = [q EXCEPT !.pc = "probe", !.from = l, !.seen = d]
    BY <1>2, <1>4, <2>1, <2>2 DEF Steps
  <2>4. /\ SamePlan(q, r) /\ r.from = l /\ r.pc = "probe" /\ r.snap = q.snap /\ r.told = q.told
        /\ r.rc = q.rc
    BY <2>3 DEF RunRecs, SamePlan
  <2>5. Shift(n, q, r)
    BY <1>4, <1>5, <1>8, <1>9, <2>4 DEF Shift, Early, Late, Moved
  <2> QED
    BY <2>3, <2>5 DEF Shifts
<1>10. ASSUME venvs' = venvs,
              run' = [run EXCEPT ![n].pc = "done", ![n].from = link, ![n].seen = db.data, ![n].rc = 1]
       PROVE  Shifts(n)
  <2>1. [q EXCEPT !.pc = "done", !.from = l, !.seen = d, !.rc = 1] \in RunRecs
    BY <1>7 DEF RunRecs, Pcs, Codes
  <2>2. run' = [run EXCEPT ![n] = [q EXCEPT !.pc = "done", !.from = l, !.seen = d, !.rc = 1]]
    BY <1>2, <1>3, <1>5, <1>6, <1>10 DEF RunRecs
  <2>3. PICK r \in RunRecs : /\ Steps(n, q, r)
                             /\ r = [q EXCEPT !.pc = "done", !.from = l, !.seen = d, !.rc = 1]
    BY <1>2, <1>4, <2>1, <2>2 DEF Steps
  <2>4. /\ SamePlan(q, r) /\ r.from = l /\ r.pc = "done" /\ r.snap = q.snap /\ r.told = q.told
        /\ r.rc = 1
    BY <2>3 DEF RunRecs, SamePlan
  <2>5. Shift(n, q, r)
    BY <1>4, <1>5, <1>8, <1>10, <2>4 DEF Shift, Early, Late, Moved
  <2> QED
    BY <2>3, <2>5 DEF Shifts
<1> QED
  BY <1>9, <1>10 DEF Build

\* The first step of a rollback.
LEMMA AimShifts ==
  ASSUME UpgradeAssumption, UInv, NEW n \in Runs, run[n].mode = "rollback", Aim(n)
  PROVE  Shifts(n)
<1>1. run \in Seq(RunRecs) /\ db \in Base /\ None # 0 /\ Keep \in Nat \ {0}
  BY DEF UInv, Journal, Disk, UpgradeAssumption
<1>2. PICK q \in RunRecs : q = run[n]
  BY <1>1, RunIsRecord
<1>3. n \in 1..Len(run) /\ run \in [1..Len(run) -> RunRecs]
  BY <1>1, LenProperties DEF Runs
<1>4. /\ q.pc = "begin" /\ q.mode = "rollback"
      /\ UNCHANGED <<disk, shots, area, life, tools, ask>>
  BY <1>2 DEF Aim, At
<1>5. PICK l : l = link
  OBVIOUS
<1>6. PICK d : d = db.data
  OBVIOUS
<1>7. l \in Nat /\ d \in Saved /\ q.rc = None
  <2>1. l \in Nat /\ d \in Saved
    BY <1>1, <1>5, <1>6, BaseFields DEF UInv, Disk
  <2>2. Entry(n, q)
    BY <1>2 DEF UInv, Journal
  <2> QED
    BY <1>4, <2>1, <2>2 DEF Entry
<1> DEFINE later == {s \in DOMAIN snaps : s > q.aim}
<1>8. Cardinality(later) \in Nat
  <2>1. DOMAIN snaps \subseteq 1..taken /\ taken \in Nat
    BY DEF UInv, Shots
  <2>2. IsFiniteSet(1..taken)
    BY <2>1, FS_Interval
  <2>3. later \subseteq 1..taken
    BY <2>1
  <2> QED
    BY <2>2, <2>3, FS_Subset, FS_CardinalityType
<1> HIDE DEF later
<1>9. PICK refused \in BOOLEAN :
        /\ refused <=> Cardinality(later) >= Keep - 1
        /\ run' = [run EXCEPT ![n].from = link, ![n].seen = db.data,
                              ![n].pc = IF refused THEN "done" ELSE "probe",
                              ![n].rc = IF refused THEN 1 ELSE None]
  <2>1. (Cardinality(later) >= Keep - 1) \in BOOLEAN
    OBVIOUS
  <2> QED
    BY <1>2, <2>1 DEF Aim, later
<1>10. Served /\ venvs' = venvs
  BY <1>4 DEF Served, disk, life
<1>11. CASE ~refused
  <2>1. [q EXCEPT !.pc = "probe", !.from = l, !.seen = d] \in RunRecs
    BY <1>7 DEF RunRecs, Pcs
  <2>2. run' = [run EXCEPT ![n].from = l, ![n].seen = d, ![n].pc = "probe", ![n].rc = None]
    BY <1>5, <1>6, <1>9, <1>11
  <2>3. run' = [run EXCEPT ![n] = [q EXCEPT !.pc = "probe", !.from = l, !.seen = d]]
    BY <1>2, <1>3, <1>7, <2>2 DEF RunRecs
  <2>4. PICK r \in RunRecs : Steps(n, q, r) /\ r = [q EXCEPT !.pc = "probe", !.from = l, !.seen = d]
    BY <1>2, <1>4, <2>1, <2>3 DEF Steps
  <2>5. /\ SamePlan(q, r) /\ r.from = l /\ r.pc = "probe" /\ r.snap = q.snap /\ r.told = q.told
        /\ r.rc = q.rc
    BY <2>4 DEF RunRecs, SamePlan
  <2>6. Cardinality(later) < Keep - 1
    BY <1>1, <1>8, <1>9, <1>11
  <2>7. Shift(n, q, r)
    BY <1>1, <1>4, <1>5, <1>7, <1>10, <2>5, <2>6 DEF Shift, Early, Late, Moved, later
  <2> QED
    BY <2>4, <2>7 DEF Shifts
<1>12. CASE refused
  <2>1. [q EXCEPT !.pc = "done", !.from = l, !.seen = d, !.rc = 1] \in RunRecs
    BY <1>7 DEF RunRecs, Pcs, Codes
  <2>2. run' = [run EXCEPT ![n].from = l, ![n].seen = d, ![n].pc = "done", ![n].rc = 1]
    BY <1>5, <1>6, <1>9, <1>12
  <2>3. run' = [run EXCEPT ![n] = [q EXCEPT !.pc = "done", !.from = l, !.seen = d, !.rc = 1]]
    BY <1>2, <1>3, <2>2 DEF RunRecs
  <2>4. PICK r \in RunRecs : /\ Steps(n, q, r)
                             /\ r = [q EXCEPT !.pc = "done", !.from = l, !.seen = d, !.rc = 1]
    BY <1>2, <1>4, <2>1, <2>3 DEF Steps
  <2>5. /\ SamePlan(q, r) /\ r.from = l /\ r.pc = "done" /\ r.snap = q.snap /\ r.told = q.told
        /\ r.rc = 1
    BY <2>4 DEF RunRecs, SamePlan
  <2>6. Shift(n, q, r)
    BY <1>4, <1>5, <1>10, <2>5 DEF Shift, Early, Late, Moved
  <2> QED
    BY <2>4, <2>6 DEF Shifts
<1> QED
  BY <1>11, <1>12

\* The swap, forward or back.
LEMMA SwapShifts ==
  ASSUME UpgradeAssumption, UInv, NEW n \in Runs,
         (run[n].mode = "apply" /\ SwapForward(n)) \/ (run[n].mode = "rollback" /\ SwapBack(n))
  PROVE  Shifts(n)
<1>1. run \in Seq(RunRecs) /\ db \in Base /\ link \in 0..Len(run) /\ None # 0 /\ n \in 0..Len(run)
  BY RunIsRecord DEF UInv, Journal, Disk, UpgradeAssumption
<1>2. PICK q \in RunRecs : q = run[n]
  BY <1>1, RunIsRecord
<1>3. /\ q.pc = "swap" /\ q.pc \notin {"unborn", "cut", "done"}
      /\ UNCHANGED <<venvs, shots>>
  BY <1>2 DEF SwapForward, SwapBack, At
<1>4. {"maps", "aside"} \subseteq Pcs /\ 1 \in Codes /\ "none" \in Impacts /\ q.rc # 0
  <2>1. Entry(n, q)
    BY <1>2 DEF UInv, Journal
  <2> QED
    BY <1>1, <1>3, <2>1 DEF Pcs, Codes, Impacts, Entry
<1>5. ASSUME q.mode = "apply", Start(n, db), Goto(n, "maps") PROVE Shifts(n)
  <2>1. Goes(n, q, "maps")
    BY <1>1, <1>2, <1>3, <1>4, <1>5, Going
  <2>2. PICK r \in RunRecs : Steps(n, q, r) /\ r = [q EXCEPT !.pc = "maps"]
    BY <2>1 DEF Goes
  <2>3. Moves(q, r, "maps") /\ r.told = q.told /\ r.rc = q.rc
    BY <2>2, GoesFields
  <2>4. db.schema <= db'.schema
    <3>1. /\ Opened(db, n).schema = IF db.schema < SchemaOf(n) THEN SchemaOf(n) ELSE db.schema
          /\ db.schema \in Nat
      BY <1>1, OpenedBase, BaseFields
    <3>2. SchemaOf(n) \in Nat
      BY <1>1, SchemaType
    <3> QED
      BY <1>5, <3>1, <3>2 DEF Start
  <2>5. Served
    BY <1>1, <1>5 DEF Served
  <2>6. Shift(n, q, r)
    BY <1>3, <1>4, <2>3, <2>4, <2>5, Quietly DEF Early, Late, Moved
  <2> QED
    BY <2>2, <2>6 DEF Shifts
<1>6. ASSUME Lost(n), UNCHANGED <<proc, db>> PROVE Shifts(n)
  <2>1. Loses(n, q)
    BY <1>1, <1>2, <1>3, <1>6, Losing
  <2>2. PICK r \in RunRecs :
          /\ Steps(n, q, r)
          /\ r = [q EXCEPT !.pc = "done", !.rc = 2, !.impact = "unknown", !.told = FALSE]
    BY <2>1 DEF Loses
  <2>3. Moves(q, r, "done") /\ r.told = FALSE /\ r.rc = 2
    BY <2>2, LosesFields
  <2>4. Served
    BY <1>6 DEF Served
  <2>5. Shift(n, q, r)
    BY <1>3, <2>3, <2>4, QuietEnd
  <2> QED
    BY <2>2, <2>5 DEF Shifts
<1>7. ASSUME q.mode = "rollback", Goto(n, "aside"), UNCHANGED <<proc, db>> PROVE Shifts(n)
  <2>1. Goes(n, q, "aside")
    BY <1>1, <1>2, <1>3, <1>4, <1>7, Going
  <2>2. PICK r \in RunRecs : Steps(n, q, r) /\ r = [q EXCEPT !.pc = "aside"]
    BY <2>1 DEF Goes
  <2>3. Moves(q, r, "aside") /\ r.told = q.told /\ r.rc = q.rc
    BY <2>2, GoesFields
  <2>4. Served
    BY <1>7 DEF Served
  <2>5. Shift(n, q, r)
    BY <1>3, <1>4, <2>3, <2>4, Quietly DEF Early, Late, Moved
  <2> QED
    BY <2>2, <2>5 DEF Shifts
<1>8. ASSUME Start(link, db), Result(n, 1, "none") PROVE Shifts(n)
  <2>1. Ends(n, q, 1, "none")
    BY <1>1, <1>2, <1>3, <1>4, <1>8, Ending
  <2>2. PICK r \in RunRecs : Steps(n, q, r) /\ r = [q EXCEPT !.pc = "done", !.rc = 1, !.impact = "none"]
    BY <2>1 DEF Ends
  <2>3. Moves(q, r, "done") /\ r.told = q.told /\ r.rc = 1
    BY <2>2 DEF RunRecs, SamePlan, Moves
  <2>4. Served
    BY <1>1, <1>8 DEF Served
  <2>5. Shift(n, q, r)
    BY <1>3, <2>3, <2>4, QuietEnd
  <2> QED
    BY <2>2, <2>5 DEF Shifts
<1> QED
  BY <1>2, <1>5, <1>6, <1>7, <1>8 DEF SwapForward, SwapBack

\* Whatever the applicator does.
LEMMA ApplicatorShifts ==
  ASSUME UpgradeAssumption, UInv, NEW n, Applicator(n)
  PROVE  Shifts(n)
BY SharedShifts, BuildShifts, AimShifts, SwapShifts DEF Applicator, Apply, Rollback

\* It accepts no plan.
LEMMA ApplicatorAsks ==
  ASSUME NEW n, Applicator(n)
  PROVE  UNCHANGED ask
<1>1. Shared(n) => UNCHANGED ask
  BY DEF Shared, Probe, Stop, TakeSnapshot, MoveAside, CopyBack, RestoreFails, Maps, Accept, Undo, Health
<1>2. Build(n) \/ SwapForward(n) \/ Aim(n) \/ SwapBack(n) => UNCHANGED ask
  BY DEF Build, SwapForward, Aim, SwapBack
<1> QED
  BY <1>1, <1>2 DEF Applicator, Apply, Rollback

(***************************************************************************)
(* What a step keeps of the way back                                       *)
(***************************************************************************)
\* A service that comes up opens the base.
LEMMA OpensStays ==
  ASSUME UpgradeAssumption, UInv, Opens, Served, \A v \in 0..Len(run) : SchemaOf(v)' = SchemaOf(v)
  PROVE  Opens'
<1>1. /\ run \in Seq(RunRecs) /\ (proc # None => proc \in 0..Len(run)) /\ db \in Base
      /\ \A v \in 0..Len(run) : SchemaOf(v) \in Nat
  BY SchemaType DEF UInv, Journal, Disk
<1>2. ASSUME proc' = proc, db'.schema = db.schema, proc # None PROVE SchemaOf(proc)' <= db'.schema
  <2>1. PICK v \in 0..Len(run) : v = proc
    BY <1>1, <1>2
  <2>2. SchemaOf(v)' = SchemaOf(v)
    OBVIOUS
  <2>3. SchemaOf(v) <= db.schema
    BY <1>2, <2>1 DEF Opens
  <2>4. SchemaOf(proc)' = SchemaOf(v)'
    BY <1>2, <2>1
  <2> QED
    BY <1>2, <2>2, <2>3, <2>4
<1>3. ASSUME NEW v \in 0..Len(run), NEW b \in Base, Start(v, b) PROVE SchemaOf(proc)' <= db'.schema
  <2>1. proc' = v /\ db' = Opened(b, v)
    BY <1>3 DEF Start
  <2>2. Opened(b, v).schema = IF b.schema < SchemaOf(v) THEN SchemaOf(v) ELSE b.schema
    BY <1>1, OpenedBase
  <2>3. b.schema \in Nat /\ SchemaOf(v) \in Nat /\ SchemaOf(v)' = SchemaOf(v)
    BY <1>1, BaseFields
  <2>4. SchemaOf(proc)' = SchemaOf(v)'
    BY <2>1
  <2> QED
    BY <2>1, <2>2, <2>3, <2>4
<1> QED
  BY <1>2, <1>3 DEF Served, Opens

\* A snapshot is taken, or none is.
LEMMA WindowStays ==
  ASSUME UpgradeAssumption, UInv, Window, Create \/ UNCHANGED shots
  PROVE  /\ Window' /\ OldShots
         /\ Create /\ taken + 1 \in DOMAIN snaps' => snaps'[taken + 1] = db
<1>1. Shots /\ db \in Base
  BY DEF UInv, Disk
<1>2. CASE Create
  BY <1>1, <1>2, WindowMoves, CreateTakes
<1>3. CASE UNCHANGED shots /\ ~Create
  <2>1. OldShots
    BY <1>1, <1>3, ShotsStay
  <2>2. Window'
    BY <1>3 DEF Window, shots
  <2> QED
    BY <1>3, <2>1, <2>2
<1> QED
  BY <1>2, <1>3

\* A pair is kept with its venv.
LEMMA PairStays ==
  ASSUME NEW j \in 0..Len(run), NEW q, Pair(j, q), OldShots, q.snap \in 0..taken,
         q.from \in 0..Len(run), q.from \in venvs',
         \A v \in 0..Len(run) : SchemaOf(v)' = SchemaOf(v)
  PROVE  Pair(j, q)'
BY DEF Pair, OldShots

\* A plan that fits goes on fitting: the runs before it do not change.
LEMMA FitsStays ==
  ASSUME NEW n \in Nat, NEW a, NEW t, Fits(n, a, t), Clean' => Clean, Runs \subseteq Runs',
         \A k \in Runs : run'[k].mode = run[k].mode,
         \A j \in Runs' : j < n => j \in Runs /\ run'[j] = run[j]
  PROVE  Fits(n, a, t)'
<1>1. SUFFICES ASSUME NEW j \in Takers(a)', j < n
               PROVE  /\ run'[j].mode = "apply"
                      /\ Clean' /\ LastApply(j)' => t = run'[j].from
  BY DEF Fits
<1>2. j \in Runs' /\ Ended(j)' /\ run'[j].told /\ run'[j].snap = a
  BY DEF Takers
<1>3. j \in Runs /\ run'[j] = run[j]
  BY <1>1, <1>2
<1>4. j \in Takers(a)
  BY <1>2, <1>3 DEF Takers, Ended
<1>5. LastApply(j)' => LastApply(j)
  BY <1>3 DEF LastApply
<1> QED
  BY <1>1, <1>3, <1>4, <1>5 DEF Fits

\* A target that is not refused is at most one snapshot behind the last.
LEMMA AimIsClose ==
  ASSUME UpgradeAssumption, UInv, Window, Keep <= 3, NEW a \in 0..taken,
         Cardinality({s \in DOMAIN snaps : s > a}) < Keep - 1
  PROVE  taken <= a + 1
<1> DEFINE later == {s \in DOMAIN snaps : s > a}
<1>1. taken \in Nat /\ Keep \in Nat \ {0} /\ DOMAIN snaps = {s \in 1..taken : taken - s < Keep}
  BY DEF UInv, Shots, Window, UpgradeAssumption
<1>2. IsFiniteSet(later) /\ Cardinality(later) \in Nat
  <2>1. IsFiniteSet(1..taken)
    BY <1>1, FS_Interval
  <2>2. later \in SUBSET (1..taken)
    BY <1>1
  <2> HIDE DEF later
  <2> QED
    BY <2>1, <2>2, FS_Subset, FS_CardinalityType
<1>3. SUFFICES ASSUME a + 1 < taken PROVE FALSE
  BY <1>1
<1>4. Keep = 2 \/ Keep = 3
  BY <1>1, <1>2
<1>5. PICK lo \in Nat : lo = IF Keep = 2 THEN taken ELSE taken - 1
  BY <1>1, <1>3
<1>6. lo..taken \in SUBSET later /\ lo <= taken
  BY <1>1, <1>3, <1>4, <1>5
<1>7. Cardinality(later) < Keep - 1
  OBVIOUS
<1> HIDE DEF later
<1>8. Cardinality(lo..taken) = (taken - lo) + 1
  BY <1>1, <1>6, FS_Interval
<1>9. Cardinality(lo..taken) <= Cardinality(later)
  BY <1>2, <1>6, FS_Subset
<1> QED
  BY <1>1, <1>2, <1>4, <1>5, <1>7, <1>8, <1>9

\* A run that goes on from where it is clears nothing.
LEMMA CleanStays ==
  ASSUME UpgradeAssumption, UInv, NEW n \in Runs, NEW q \in RunRecs, NEW r \in RunRecs,
         Steps(n, q, r), SamePlan(q, r)
  PROVE  Clean' => Clean
<1>1. /\ Active(n) /\ run \in Seq(RunRecs) /\ q = run[n] /\ Places(n, q) /\ q.pc # "cut"
      /\ run' = [run EXCEPT ![n] = r] /\ r.wheel = q.wheel /\ Len(run) \in Nat
      /\ \A i \in Runs : run[i].from \in 0..Len(run) /\ i \in 0..Len(run)
  <2>1. /\ Active(n) /\ run \in Seq(RunRecs) /\ Places(n, run[n]) /\ q = run[n]
    BY Standing DEF Steps
  <2>2. ASSUME NEW i \in Runs PROVE run[i].from \in 0..Len(run) /\ i \in 0..Len(run)
    BY <2>1, RunIsRecord DEF UInv, Journal, Entry
  <2> QED
    BY <2>1, <2>2, RunIsRecord DEF Steps, SamePlan
<1>2. Runs' = Runs /\ \A j \in Runs \ {n} : run'[j] = run[j]
  BY <1>1, Written
<1>3. \A v \in 0..Len(run) : SchemaOf(v)' = SchemaOf(v)
  BY <1>1, EditionsWork
<1>4. SUFFICES ASSUME Clean', NEW i \in Runs
               PROVE  /\ run[i].pc # "cut" /\ run[i].told
                      /\ ~(run[i].impact = "forward" /\ Downgrade(i))
  BY DEF Clean
<1>5. CASE i = n
  BY <1>1, <1>5 DEF Places
<1>6. CASE i # n
  <2>1. run'[i] = run[i] /\ (Downgrade(i)' <=> Downgrade(i))
    BY <1>1, <1>2, <1>3, <1>6 DEF Downgrade
  <2>2. /\ run'[i].pc # "cut" /\ run'[i].told
        /\ ~(run'[i].impact = "forward" /\ Downgrade(i)')
    BY <1>2, <1>4 DEF Clean
  <2> QED
    BY <2>1, <2>2
<1> QED
  BY <1>5, <1>6

\* A step of the run at work.
LEMMA WayWork ==
  ASSUME UpgradeAssumption, Keep <= 3, UInv, UInv', WInv, NEW n \in Nat, UNCHANGED ask, Shifts(n)
  PROVE  WInv'
<1>1. PICK q \in RunRecs, r \in RunRecs : Steps(n, q, r) /\ Shift(n, q, r)
  BY DEF Shifts
<1>2. /\ Active(n) /\ n = Len(run) /\ n \in Nat \ {0} /\ n \in Runs /\ run \in Seq(RunRecs)
      /\ q = run[n] /\ q.mode \in Modes /\ Entry(n, q) /\ Places(n, q)
      /\ q.pc \notin {"unborn", "cut", "done"} /\ run' = [run EXCEPT ![n] = r]
      /\ Clean => Readable(n, q)
      /\ Disk /\ Shots /\ None \notin Nat
      /\ \A v \in 0..Len(run) : SchemaOf(v) \in Nat \ {0}
  BY <1>1, Standing DEF Steps
<1>3. /\ SamePlan(q, r) /\ r.pc \notin {"unborn", "begin", "cut"}
      /\ r.from = IF q.pc = "begin" THEN link ELSE q.from
  BY <1>1 DEF Shift
<1>4. /\ Len(run') = Len(run) /\ Runs' = Runs
      /\ run'[n] = r /\ \A j \in Runs \ {n} : run'[j] = run[j]
  <2>1. n \in Runs /\ r \in RunRecs /\ run \in Seq(RunRecs) /\ run' = [run EXCEPT ![n] = r]
    BY <1>2
  <2> QED
    BY <2>1, Written
<1>5. \A v \in 0..Len(run) : SchemaOf(v)' = SchemaOf(v)
  BY <1>2, <1>3, EditionsWork DEF SamePlan
<1>6. Clean' => Clean
  BY <1>1, <1>2, <1>3, CleanStays
<1>7. \A j \in Runs : j \in Nat /\ j >= 1 /\ j <= n /\ run[j] \in RunRecs /\ Entry(j, run[j])
  BY <1>2, RunIsRecord DEF UInv, Journal
<1>8. \A j \in Runs \ {n} : j < n /\ ~Active(j) /\ ~Active(j)'
  <2>1. Alone /\ Alone'
    BY DEF UInv
  <2> QED
    BY <1>2, <1>4, <1>7, <2>1 DEF Alone
<1>9. r.from \in 0..(n - 1) /\ r.from \in 0..Len(run) /\ (r.rc # None <=> r.pc = "done")
  <2>1. Entry(n, r)'
    BY <1>2, <1>4 DEF UInv, Journal
  <2> QED
    BY <1>2, <2>1 DEF Entry
<1>10. /\ Opens /\ Window /\ Numbered /\ Chained /\ Matching /\ Pairs /\ Planning /\ Aiming
  BY DEF WInv
<1>11. Opens'
  BY <1>1, <1>5, <1>10, OpensStays DEF Shift
<1>12. /\ Window' /\ OldShots
       /\ Create /\ taken + 1 \in DOMAIN snaps' => snaps'[taken + 1] = db
  BY <1>1, <1>10, WindowStays DEF Shift
<1>13. taken \in Nat /\ q.snap \in 0..taken /\ (r.snap = q.snap \/ r.snap = taken + 1)
  BY <1>1, <1>2 DEF Shots, Entry, Shift
<1>14. Sealed(q) /\ (n > 1 => n - 1 \in Runs)
  BY <1>2, <1>10 DEF Numbered, Runs
<1>15. Numbered'
  <2>1. Sealed(r)'
    <3>1. r.pc \in Early => r.snap = 0
      BY <1>1, <1>14 DEF Shift, Sealed, Early
    <3>2. r.pc \in Late => r.snap # 0
      BY <1>1, <1>13, <1>14 DEF Shift, Sealed
    <3>3. r.rc = 0 => r.snap # 0 /\ r.told /\ r.impact = "done"
      BY <1>1, <1>2, <1>14 DEF Shift, Sealed, Places, Late
    <3> QED
      BY <3>1, <3>2, <3>3 DEF Sealed
  <2>2. ASSUME NEW i \in Runs, i < n, r.snap # 0 PROVE run[i].snap < r.snap
    <3>1. q.snap # 0 => run[i].snap < q.snap
      BY <1>2, <1>10, <2>2 DEF Numbered
    <3>2. run[i].snap \in 0..taken
      BY <1>7 DEF Entry
    <3> QED
      BY <1>13, <2>2, <3>1, <3>2
  <2>3. ASSUME NEW j \in Runs', NEW i \in Runs' , i < j, run'[j].snap # 0 PROVE run'[i].snap < run'[j].snap
    <3>1. i # n
      BY <1>2, <1>4, <1>7, <2>3
    <3>2. run'[i] = run[i]
      BY <1>4, <2>3, <3>1
    <3>3. CASE j = n
      BY <1>4, <2>2, <2>3, <3>2, <3>3
    <3>4. CASE j # n
      BY <1>4, <1>10, <2>3, <3>2, <3>4 DEF Numbered
    <3> QED
      BY <3>3, <3>4
  <2>4. ASSUME NEW j \in Runs' PROVE Sealed(run[j])'
    <3>1. CASE j = n
      BY <1>4, <2>1, <3>1
    <3>2. CASE j # n
      BY <1>4, <1>10, <2>4, <3>2 DEF Numbered, Sealed
    <3> QED
      BY <3>1, <3>2
  <2> QED
    BY <2>3, <2>4 DEF Numbered
<1>16. Chained'
  <2>1. SUFFICES ASSUME NEW k \in Runs, k > 1, run'[k - 1].rc = 0
                 PROVE  Follows(link', run'[k], run'[k - 1])
    BY <1>4 DEF Chained
  <2>2. k - 1 \in Runs /\ run'[k - 1] = run[k - 1]
    <3>1. k - 1 \in Runs /\ k - 1 # n
      BY <1>2, <1>7, <2>1 DEF Runs
    <3> QED
      BY <1>4, <3>1
  <2>3. Follows(link, run[k], run[k - 1])
    BY <1>10, <2>1, <2>2 DEF Chained
  <2>4. CASE k = n
    BY <1>2, <1>3, <1>4, <2>2, <2>3, <2>4 DEF Follows
  <2>5. CASE k # n
    <3>1. run[k].pc # "begin" /\ run'[k] = run[k]
      BY <1>4, <1>7, <1>8, <2>5 DEF Active, Ended, Entry
    <3> QED
      BY <2>2, <2>3, <3>1 DEF Follows
  <2> QED
    BY <2>4, <2>5
<1>17. ASSUME Clean PROVE Match(q) /\ Readable(n, q)
  BY <1>2, <1>10, <1>17 DEF Matching
<1>18. db.schema \in Nat /\ db'.schema \in Nat
  BY BaseFields DEF UInv, Disk
<1>19. ASSUME Clean, r.pc \in {"snapshot", "swap"} PROVE db' = db /\ q.pc # "begin" /\ db.schema = SchemaOf(q.from)
  <2>1. CASE r.pc = "snapshot"
    <3>1. q.pc = "stop" /\ db' = db
      BY <1>1, <2>1 DEF Shift
    <3>2. proc = link /\ link = q.from /\ db.schema <= SchemaOf(link) /\ link # None
      BY <1>2, <1>17, <1>19, <3>1 DEF Readable, Places, Before, Disk
    <3>3. SchemaOf(link) <= db.schema
      BY <1>10, <3>2 DEF Opens
    <3>4. q.from \in 0..Len(run)
      BY SMTT(30), <1>2 DEF Entry
    <3> QED
      BY <1>2, <1>18, <3>1, <3>2, <3>3, <3>4
  <2>2. CASE r.pc = "swap"
    <3>1. q.pc = "snapshot" /\ db' = db
      BY <1>1, <2>2 DEF Shift
    <3> QED
      BY <1>17, <1>19, <3>1 DEF Match
  <2> QED
    BY <1>19, <2>1, <2>2
<1>20. ASSUME Clean, r.pc # "done" PROVE Match(r)'
  <2>1. SchemaOf(r.from)' = SchemaOf(r.from)
    BY <1>5, <1>9
  <2>2. r.pc \in {"snapshot", "swap"} => db'.schema = SchemaOf(r.from)
    BY <1>3, <1>19, <1>20
  <2>3. ASSUME r.pc \in Late, r.snap \in DOMAIN snaps' PROVE snaps'[r.snap].schema = SchemaOf(r.from)
    <3>1. CASE r.pc = "swap"
      <4>1. Create /\ r.snap = taken + 1
        BY <1>1, <3>1 DEF Shift
      <4> QED
        BY <1>3, <1>12, <1>19, <1>20, <2>3, <3>1, <4>1
    <3>2. CASE r.pc # "swap"
      <4>1. UNCHANGED shots /\ r.snap = q.snap /\ q.pc \in Late
        BY <1>1, <2>3, <3>2 DEF Shift
      <4>2. snaps' = snaps /\ q.pc # "begin"
        BY <4>1 DEF shots, Late
      <4> QED
        BY <1>3, <1>17, <1>20, <2>3, <4>1, <4>2 DEF Match
    <3> QED
      BY <3>1, <3>2
  <2>4. ASSUME r.pc \in Moved, r.mode = "apply" PROVE SchemaOf(r.from) <= db'.schema
    <3>1. q.mode = "apply"
      BY <1>3, <2>4 DEF SamePlan
    <3>2. q.pc \in {"swap"} \cup Moved /\ db.schema <= db'.schema
      BY <1>1, <2>4, <3>1 DEF Shift
    <3>3. SchemaOf(q.from) <= db.schema /\ r.from = q.from
      <4>1. q.from \in 0..Len(run)
        BY SMTT(30), <1>2 DEF Entry
      <4> QED
        BY SMTT(30), <1>2, <1>3, <1>17, <1>18, <1>20, <3>1, <3>2, <4>1 DEF Match, Moved
    <3>4. SchemaOf(r.from) \in Nat
      BY <1>2, <1>9
    <3> QED
      BY <1>18, <3>2, <3>3, <3>4
  <2> QED
    BY <2>1, <2>2, <2>3, <2>4 DEF Match
<1>21. Matching'
  <2>1. SUFFICES ASSUME Clean', NEW m \in Runs, Active(m)' PROVE Match(run[m])'
    BY <1>4 DEF Matching
  <2>2. m = n
    BY <1>8, <2>1
  <2>3. r.pc # "done"
    BY <1>4, <1>9, <2>1, <2>2 DEF Active, Ended
  <2>4. Match(r)'
    BY <1>6, <1>20, <2>1, <2>3
  <2> QED
    BY <1>4, <2>2, <2>4
<1>22. ASSUME Clean', Clean, r.rc = 0, r.mode = "apply" PROVE Pair(n, r)'
  <2>1. q.pc = "verify" /\ UNCHANGED <<link, db>> /\ r.from = q.from /\ q.mode = "apply"
    BY <1>1, <1>3, <1>22 DEF Shift, SamePlan
  <2>2. UNCHANGED shots /\ r.snap = q.snap
    BY <1>1, <2>1 DEF Shift
  <2>3. q.from \in venvs /\ link = n
    BY <1>2, <2>1 DEF Places, Entry, Moved
  <2>4. r.from \in venvs'
    BY <1>1, <2>1, <2>3 DEF Shift
  <2>5. SchemaOf(q.from) <= db.schema /\ (q.snap \in DOMAIN snaps => snaps[q.snap].schema = SchemaOf(q.from))
    BY <1>17, <1>22, <2>1 DEF Match, Moved, Late
  <2>6. db'.schema <= SchemaOf(link)'
    <3>1. Settled'
      BY SMTT(30), <1>2, <1>4, <1>8, <1>22 DEF Settled, Active, Ended
    <3> QED
      BY <1>22, <3>1 DEF UInv, AtRest
  <2>7. /\ n \in 0..Len(run) /\ SchemaOf(link)' = SchemaOf(n)' /\ SchemaOf(n)' = SchemaOf(n)
        /\ SchemaOf(r.from)' = SchemaOf(r.from) /\ SchemaOf(r.from) \in Nat /\ SchemaOf(n) \in Nat
    <3>1. n \in 0..Len(run) /\ link' = n
      BY <1>2, <2>1, <2>3
    <3> QED
      BY <1>2, <1>5, <1>9, <3>1
  <2>8. SchemaOf(r.from)' <= SchemaOf(n)'
    BY <1>18, <2>1, <2>5, <2>6, <2>7
  <2>9. r.snap \in DOMAIN snaps' => snaps'[r.snap].schema = SchemaOf(r.from)'
    BY <2>1, <2>2, <2>5, <2>7 DEF shots
  <2> QED
    BY <2>4, <2>8, <2>9 DEF Pair
<1>23. Pairs'
  <2>1. SUFFICES ASSUME Clean', NEW j \in Runs, LastApply(j)' PROVE Pair(j, run[j])'
    BY <1>4 DEF Pairs
  <2>2. run'[j].mode = "apply" /\ run'[j].rc = 0 /\ \A k \in Runs : k > j => run'[k].mode = "rollback"
    BY <1>4, <2>1 DEF LastApply
  <2>3. CASE j = n
    <3>1. Pair(n, r)'
      BY <1>4, <1>6, <1>22, <2>1, <2>2, <2>3
    <3> QED
      BY <1>4, <2>3, <3>1
  <2>4. CASE j # n
    <3>1. PICK o : o = run[j] /\ o = run'[j]
      BY <1>4, <2>4
    <3>2. LastApply(j)
      <4>1. \A k \in Runs : run'[k].mode = run[k].mode
        BY <1>2, <1>3, <1>4 DEF SamePlan
      <4> QED
        BY <2>2, <3>1, <4>1 DEF LastApply
    <3>3. Pair(j, o)
      BY <1>6, <1>10, <2>1, <3>1, <3>2 DEF Pairs
    <3>4. venvs \subseteq venvs'
      <4>1. r.mode = "rollback" /\ r.mode = q.mode
        BY <1>2, <1>3, <1>4, <1>8, <2>2, <2>4 DEF SamePlan
      <4> QED
        BY <1>1, <4>1 DEF Shift
    <3>5. j \in 0..Len(run) /\ o.snap \in 0..taken /\ o.from \in 0..Len(run) /\ o.from \in venvs'
      <4>1. j \in 0..Len(run)
        BY <1>2, <1>7
      <4>2. Entry(j, run[j])
        BY <1>7
      <4>3. run[j].from \in 0..Len(run) /\ run[j].snap \in 0..taken
        BY <4>1, <4>2 DEF Entry
      <4>4. o = run[j]
        BY <3>1
      <4>5. o.from \in 0..Len(run) /\ o.snap \in 0..taken
        BY <4>3, <4>4
      <4> QED
        BY <3>3, <3>4, <4>1, <4>5 DEF Pair
    <3>6. Pair(j, o)'
      BY <1>5, <1>12, <3>3, <3>5, PairStays
    <3> QED
      BY <3>1, <3>6
  <2> QED
    BY <2>3, <2>4
<1>24. Planning'
  <2>1. \A c \in Clients : ask'[c] = None
    BY <1>2, Turn
  <2> QED
    BY <2>1 DEF Planning
<1>25. Aiming'
  <2>1. SUFFICES ASSUME Active(n)', r.mode = "rollback" PROVE Aims(n, r)'
    <3>1. \A m \in Runs : Active(m)' => m = n
      BY <1>8
    <3> QED
      BY <1>4, <2>1, <3>1 DEF Aiming
  <2>2. q.mode = "rollback" /\ r.aim = q.aim /\ r.to = q.to
    BY <1>3, <2>1 DEF SamePlan
  <2>3. Aims(n, q)
    BY <1>2, <1>10, <2>2 DEF Aiming
  <2>4. Fits(n, r.aim, r.to)'
    <3>1. Fits(n, r.aim, r.to)
      BY <2>2, <2>3 DEF Aims
    <3>2. \A k \in Runs : run'[k].mode = run[k].mode
      BY <1>2, <1>3, <1>4 DEF SamePlan
    <3>3. \A j \in Runs' : j < n => j \in Runs /\ run'[j] = run[j]
      BY <1>2, <1>4
    <3> QED
      BY <1>4, <1>6, <3>1, <3>2, <3>3, FitsStays
  <2>5. ASSUME n > 1 PROVE run[n - 1].snap <= r.aim + 1
    <3>1. CASE q.pc # "begin"
      BY <2>2, <2>3, <2>5, <3>1 DEF Aims
    <3>2. CASE q.pc = "begin"
      <4>1. r.pc # "done"
        BY <1>4, <1>9, <2>1 DEF Active, Ended
      <4>2. Cardinality({s \in DOMAIN snaps : s > q.aim}) < Keep - 1 /\ q.aim \in 0..taken
        BY <1>1, <1>2, <2>2, <3>2, <4>1 DEF Shift, Entry
      <4>3. taken <= q.aim + 1
        BY <1>10, <4>2, AimIsClose
      <4>4. run[n - 1].snap \in 0..taken
        BY <1>7, <1>14, <2>5 DEF Entry
      <4>5. r.aim \in Nat /\ taken <= r.aim + 1
        BY <1>13, <2>2, <4>2, <4>3
      <4> QED
        BY <1>13, <4>4, <4>5
    <3> QED
      BY <3>1, <3>2
  <2>6. n > 1 => run'[n - 1] = run[n - 1]
    BY <1>2, <1>4, <1>14
  <2> QED
    BY <2>4, <2>5, <2>6 DEF Aims
<1> QED
  BY <1>11, <1>12, <1>15, <1>16, <1>21, <1>23, <1>24, <1>25 DEF WInv

\* A snapshot leads back to the venv the last apply replaced, and to no other.
LEMMA LeadsBack ==
  ASSUME UInv, WInv, Clean, NEW s \in DOMAIN snaps, NEW j \in Takers(s), LastApply(j)
  PROVE  Takers(s) = {j} /\ VenvFor(s) = run[j].from
<1>1. /\ run \in Seq(RunRecs) /\ DOMAIN snaps \subseteq 1..taken /\ taken \in Nat
      /\ Numbered /\ Pairs
  BY DEF UInv, Journal, Shots, WInv
<1>2. j \in Runs /\ Ended(j) /\ run[j].told /\ run[j].snap = s /\ s # 0
  BY <1>1 DEF Takers
<1>3. \A i \in Runs : i \in Nat /\ run[i].from \in Nat
  BY <1>1, RunIsRecord, RunFields
<1>4. Takers(s) = {j}
  <2>1. SUFFICES ASSUME NEW i \in Takers(s), i # j PROVE FALSE
    OBVIOUS
  <2>2. i \in Runs /\ run[i].snap = s
    BY <2>1 DEF Takers
  <2>3. ~(i < j) /\ ~(j < i)
    <3>1. s \in Nat
      BY <1>1
    <3> QED
      BY <1>1, <1>2, <2>2, <3>1 DEF Numbered
  <2> QED
    BY <1>2, <1>3, <2>1, <2>2, <2>3
<1>5. PICK v \in Nat : v = run[j].from
  BY <1>2, <1>3
<1>6. Pair(j, run[j])
  BY <1>1, <1>2 DEF Pairs
<1>7. v \in venvs /\ SchemaOf(v) = snaps[s].schema
  BY <1>2, <1>5, <1>6 DEF Pair
<1>8. v \in Candidates
  BY <1>2, <1>5, <1>7 DEF Candidates, NamedVenvs
<1> DEFINE fit == {u \in Candidates : SchemaOf(u) = snaps[s].schema}
           paired == {run[i].from : i \in Takers(s)} \cap fit
<1>9. paired = {v}
  <2>1. v \in fit
    BY <1>7, <1>8
  <2> HIDE DEF fit
  <2> QED
    BY <1>4, <1>5, <2>1
<1>10. VenvFor(s) = IF paired # {} THEN Max(paired) ELSE IF fit # {} THEN Max(fit) ELSE None
  BY DEF VenvFor
<1>11. Max({v}) = v
  <2>1. {v} \in SUBSET Nat /\ {v} # {}
    OBVIOUS
  <2>2. IsFiniteSet({v})
    BY FS_Singleton
  <2>3. Max({v}) \in {v}
    BY <2>1, <2>2, MaxIsMember
  <2> QED
    BY <2>3
<1> HIDE DEF fit, paired
<1> QED
  BY <1>4, <1>5, <1>9, <1>10, <1>11

\* What a preflight accepts fits.
LEMMA PlanFits ==
  ASSUME UInv, WInv, NEW s \in DOMAIN snaps, Usable(s), NEW n
  PROVE  Fits(n, s, VenvFor(s))
<1>1. SUFFICES ASSUME NEW j \in Takers(s)
               PROVE  /\ run[j].mode = "apply"
                      /\ Clean /\ LastApply(j) => VenvFor(s) = run[j].from
  BY DEF Fits
<1>2. run[j].mode = "apply"
  <2>1. run[j].mode \in Modes
    BY RunIsRecord, RunFields DEF UInv, Journal, Takers
  <2>2. run[j].mode # "rollback"
    BY DEF Usable, IsSafety
  <2> QED
    BY <2>1, <2>2 DEF Modes
<1> QED
  BY <1>2, LeadsBack

\* What is said of plans and runs speaks of the journal only.
LEMMA FitsSame ==
  ASSUME UNCHANGED run
  PROVE  \A n, a, t : Fits(n, a, t)' <=> Fits(n, a, t)
BY DEF Fits, Takers, Runs, Ended, LastApply, Clean, Downgrade, SchemaOf, Edition

\* A step that leaves the journal, the link, the venvs and the service alone.
LEMMA WayIdle ==
  ASSUME UpgradeAssumption, UInv, WInv, UNCHANGED <<run, link, venvs, proc>>, db'.schema = db.schema,
         Create \/ UNCHANGED shots, Planning'
  PROVE  WInv'
<1>1. /\ Opens /\ Window /\ Numbered /\ Chained /\ Matching /\ Pairs /\ Aiming
  BY DEF WInv
<1>2. Journal /\ Shots /\ run \in Seq(RunRecs) /\ taken \in Nat
  BY DEF UInv, Journal, Shots
<1>3. Window' /\ OldShots
  BY <1>1, WindowStays
<1>4. /\ Runs' = Runs /\ Clean' = Clean
      /\ \A v : SchemaOf(v)' = SchemaOf(v)
      /\ \A i : Active(i)' = Active(i) /\ Ended(i)' = Ended(i)
  BY <1>2, <1>3, JournalStays
<1>5. \A i \in Runs : i \in 0..Len(run) /\ run[i].snap \in 0..taken /\ run[i].from \in 0..Len(run)
  BY <1>2, RunIsRecord DEF Journal, Entry
<1>6. Opens'
  BY <1>1, <1>4 DEF Opens
<1>7. Numbered'
  BY <1>1, <1>4 DEF Numbered, Sealed
<1>8. Chained'
  BY <1>1, <1>4 DEF Chained, Follows
<1>9. Matching'
  <2>1. SUFFICES ASSUME Clean, NEW n \in Runs, Active(n) PROVE Match(run[n])'
    BY <1>4 DEF Matching
  <2>2. PICK q : q = run[n]
    OBVIOUS
  <2>3. Match(q) /\ q.snap \in 0..taken
    BY <1>1, <1>5, <2>1, <2>2 DEF Matching
  <2>4. Match(q)'
    BY <1>3, <1>4, <2>3 DEF Match, OldShots
  <2> QED
    BY <2>2, <2>4
<1>10. Pairs'
  <2>1. SUFFICES ASSUME Clean, NEW j \in Runs, LastApply(j) PROVE Pair(j, run[j])'
    BY <1>4 DEF Pairs, LastApply
  <2>2. PICK q : q = run[j]
    OBVIOUS
  <2>3. Pair(j, q)
    BY <1>1, <2>1, <2>2 DEF Pairs
  <2>4. j \in 0..Len(run) /\ q.snap \in 0..taken /\ q.from \in 0..Len(run) /\ q.from \in venvs'
    BY <1>5, <2>2, <2>3 DEF Pair
  <2>5. Pair(j, q)'
    BY <1>3, <1>4, <2>3, <2>4, PairStays
  <2> QED
    BY <2>2, <2>5
<1>11. Aiming'
  <2>1. SUFFICES ASSUME NEW n \in Runs, Active(n), run[n].mode = "rollback" PROVE Aims(n, run[n])'
    BY <1>4 DEF Aiming
  <2>2. PICK q : q = run[n]
    OBVIOUS
  <2>3. Aims(n, q)
    BY <1>1, <2>1, <2>2 DEF Aiming
  <2>4. Aims(n, q)'
    BY <2>3, FitsSame DEF Aims
  <2> QED
    BY <2>2, <2>4
<1> QED
  BY <1>3, <1>6, <1>7, <1>8, <1>9, <1>10, <1>11 DEF WInv

\* A write, a snapshot by hand, a wheel that is staged, or nothing.
LEMMA WayRest ==
  ASSUME UpgradeAssumption, UInv, WInv, Write \/ Manual \/ Stage \/ UNCHANGED vars
  PROVE  WInv'
<1>1. UNCHANGED <<run, link, venvs, proc, ask>> /\ (Create \/ UNCHANGED shots)
  BY DEF Write, Manual, Stage, vars, disk, life, shots
<1>2. db'.schema = db.schema
  <2>1. db \in Base
    BY DEF UInv, Disk
  <2>2. CASE Write
    BY <2>1, <2>2 DEF Write, Base
  <2>3. Manual \/ Stage \/ UNCHANGED vars => db' = db
    BY DEF Manual, Stage, vars, disk
  <2> QED
    BY <2>2, <2>3
<1>3. Planning'
  BY <1>1, FitsSame DEF WInv, Planning
<1> QED
  BY <1>1, <1>2, <1>3, WayIdle

\* A gesture is accepted.
LEMMA WayPreflight ==
  ASSUME UpgradeAssumption, UInv, WInv, NEW c \in Clients, PreflightApply(c) \/ PreflightRollback(c)
  PROVE  WInv'
<1>1. UNCHANGED <<disk, shots, area, life, tools, run>>
  BY DEF PreflightApply, PreflightRollback
<1>2. Planning /\ ask \in [Clients -> AskRecs \cup {None}]
  BY DEF WInv, UInv, Asks
<1>3. PICK p : /\ ask' = [ask EXCEPT ![c] = p]
               /\ p.mode = "rollback" => Fits(Len(run) + 1, p.aim, p.to)
  <2>1. CASE PreflightApply(c)
    <3>1. PICK d \in DOMAIN depots :
            ask' = [ask EXCEPT ![c] = [mode |-> "apply", depot |-> d, wheel |-> depots[d], aim |-> 0, to |-> 0]]
      BY <2>1 DEF PreflightApply
    <3> DEFINE p == [mode |-> "apply", depot |-> d, wheel |-> depots[d], aim |-> 0, to |-> 0]
    <3>2. ask' = [ask EXCEPT ![c] = p] /\ p.mode # "rollback"
      BY <3>1
    <3> HIDE DEF p
    <3> QED
      BY <3>2
  <2>2. CASE PreflightRollback(c)
    <3>1. PICK s \in DOMAIN snaps :
            /\ Usable(s)
            /\ ask' = [ask EXCEPT ![c] = [mode |-> "rollback", depot |-> 0, wheel |-> Origin,
                                          aim |-> s, to |-> VenvFor(s)]]
      BY <2>2 DEF PreflightRollback
    <3>2. PICK v : v = VenvFor(s)
      OBVIOUS
    <3>3. Fits(Len(run) + 1, s, v)
      BY <3>1, <3>2, PlanFits
    <3> DEFINE p == [mode |-> "rollback", depot |-> 0, wheel |-> Origin, aim |-> s, to |-> v]
    <3>4. ask' = [ask EXCEPT ![c] = p]
      BY <3>1, <3>2
    <3>5. p.aim = s /\ p.to = v
      OBVIOUS
    <3> HIDE DEF p
    <3> QED
      BY <3>3, <3>4, <3>5
  <2> QED
    BY <2>1, <2>2
<1>4. Planning'
  <2>1. SUFFICES ASSUME NEW d \in Clients, ask'[d] # None, ask'[d].mode = "rollback"
                 PROVE  Fits(Len(run) + 1, ask'[d].aim, ask'[d].to)
    BY <1>1, FitsSame DEF Planning
  <2>2. CASE d = c
    BY <1>2, <1>3, <2>1, <2>2
  <2>3. CASE d # c
    BY <1>2, <1>3, <2>1, <2>3 DEF Planning
  <2> QED
    BY <2>2, <2>3
<1> QED
  BY <1>1, <1>4, WayIdle DEF disk, life

\* A gesture is launched: it starts from where the last one led.
LEMMA WaySpawn ==
  ASSUME UpgradeAssumption, OneClient, UInv, WInv, NEW c \in Clients, Spawn(c)
  PROVE  WInv'
<1>1. /\ ask[c] # None /\ ask' = [ask EXCEPT ![c] = None]
      /\ UNCHANGED <<disk, shots, life, tools>>
  BY DEF Spawn
<1>2. /\ Disk /\ Shots /\ Journal /\ Asks /\ run \in Seq(RunRecs) /\ Len(run) \in Nat
      /\ Opens /\ Window /\ Numbered /\ Chained /\ Matching /\ Pairs /\ Planning
  BY RunIsRecord DEF UInv, Journal, WInv
<1>3. PICK p \in AskRecs : p = ask[c]
  BY <1>1, <1>2 DEF Asks
<1>4. /\ \A i \in Runs : ~Active(i)
      /\ p.mode = "rollback" => Fits(Len(run) + 1, p.aim, p.to)
  BY <1>1, <1>2, <1>3 DEF Asks, Planned, Planning
<1>5. PICK n \in Nat : n = Len(run) + 1
  BY <1>2
<1>6. PICK r \in RunRecs :
        /\ run' = Append(run, r)
        /\ r.mode = p.mode /\ r.aim = p.aim /\ r.snap = 0 /\ r.rc = None
        /\ r.pc \in {"begin", "unborn"} /\ (p.mode = "rollback" => r.to = p.to)
  <2>1. PICK born \in {"begin", "unborn"} :
          run' = Append(run,
            [mode |-> p.mode, depot |-> p.depot, wheel |-> p.wheel,
             aim |-> p.aim, from |-> 0, snap |-> 0, pc |-> born, home |-> FALSE,
             to |-> IF p.mode = "apply" THEN Len(run) + 1 ELSE p.to,
             maps |-> "none", restored |-> TRUE, told |-> TRUE, rc |-> None,
             impact |-> "none", seen |-> {}])
    BY <1>3 DEF Spawn
  <2>2. PICK to : to = IF p.mode = "apply" THEN n ELSE p.to
    OBVIOUS
  <2>3. /\ p.mode \in Modes /\ p.depot \in Nat /\ p.wheel \in Homes /\ p.aim \in Nat /\ to \in Nat
        /\ {} \in Saved
    BY <1>5, <2>2 DEF AskRecs, Saved
  <2> DEFINE r == [mode |-> p.mode, depot |-> p.depot, wheel |-> p.wheel,
                   aim |-> p.aim, from |-> 0, snap |-> 0, pc |-> born, home |-> FALSE, to |-> to,
                   maps |-> "none", restored |-> TRUE, told |-> TRUE, rc |-> None,
                   impact |-> "none", seen |-> {}]
  <2>4. born \in Pcs /\ "none" \in Marks /\ None \in Codes /\ "none" \in Impacts
    BY DEF Pcs, Marks, Codes, Impacts
  <2>5. r \in RunRecs
    BY <2>3, <2>4 DEF RunRecs
  <2>6. run' = Append(run, r)
    BY <1>5, <2>1, <2>2
  <2>7. /\ r.mode = p.mode /\ r.aim = p.aim /\ r.snap = 0 /\ r.rc = None
        /\ r.pc \in {"begin", "unborn"} /\ r.to = to
    OBVIOUS
  <2>8. p.mode = "rollback" => to = p.to
    BY <2>2
  <2> HIDE DEF r
  <2> QED
    BY <2>5, <2>6, <2>7, <2>8
<1>7. /\ run' \in Seq(RunRecs) /\ Len(run') = n /\ run'[n] = r /\ \A i \in Runs : run'[i] = run[i]
      /\ Runs' = Runs \cup {n} /\ n \notin Runs /\ n # 0
  <2>1. /\ run' \in Seq(RunRecs) /\ Len(run') = Len(run) + 1 /\ run'[Len(run) + 1] = r
        /\ \A i \in 1..Len(run) : run'[i] = run[i]
    BY <1>2, <1>6, AppendProperties
  <2> QED
    BY <1>2, <1>5, <2>1 DEF Runs
<1>8. \A v \in 0..Len(run) : SchemaOf(v)' = SchemaOf(v)
  <2>1. Len(run') >= Len(run)
    BY <1>2, <1>5, <1>7
  <2> QED
    BY <1>2, <1>7, <2>1, EditionsStay
<1>9. \A i \in Runs : /\ i \in 0..Len(run) /\ i \in Nat /\ i >= 1 /\ i < n
                      /\ run[i].snap \in 0..taken /\ run[i].from \in 0..Len(run) /\ Entry(i, run[i])
  <2>1. SUFFICES ASSUME NEW i \in Runs
                 PROVE  /\ i \in 0..Len(run) /\ i \in Nat /\ i >= 1 /\ i < n
                        /\ run[i].snap \in 0..taken /\ run[i].from \in 0..Len(run) /\ Entry(i, run[i])
    OBVIOUS
  <2>2. Entry(i, run[i]) /\ i \in Nat /\ i >= 1 /\ i <= Len(run)
    BY <1>2, RunIsRecord DEF Journal
  <2> QED
    BY <1>2, <1>5, <2>2 DEF Entry
<1>10. None \notin Nat /\ \A i \in Runs : Active(i)' <=> Active(i)
  BY <1>7 DEF Active, Ended, UpgradeAssumption
<1>11. Clean' => Clean
  <2>1. SUFFICES ASSUME Clean', NEW i \in Runs
                 PROVE  /\ run[i].pc # "cut" /\ run[i].told
                        /\ ~(run[i].impact = "forward" /\ Downgrade(i))
    BY DEF Clean
  <2>2. Downgrade(i)' <=> Downgrade(i)
    BY <1>7, <1>8, <1>9 DEF Downgrade
  <2>3. /\ run'[i].pc # "cut" /\ run'[i].told
        /\ ~(run'[i].impact = "forward" /\ Downgrade(i)')
    BY <1>7, <2>1 DEF Clean
  <2> QED
    BY <1>7, <2>2, <2>3
<1>12. Opens' /\ Window' /\ OldShots
  <2>1. Served /\ UNCHANGED shots
    BY <1>1 DEF Served, disk, life
  <2> QED
    BY <1>2, <1>8, <2>1, OpensStays, WindowStays
<1>13. Numbered'
  <2>1. Sealed(r)
    BY <1>6, <1>10 DEF Sealed, Early, Late
  <2>2. ASSUME NEW j \in Runs', NEW i \in Runs', i < j, run'[j].snap # 0 PROVE run'[i].snap < run'[j].snap
    <3>1. j # n
      BY <1>6, <1>7, <2>2
    <3>2. j \in Runs /\ i \in Runs
      BY <1>5, <1>7, <1>9, <2>2, <3>1
    <3> QED
      BY <1>2, <1>7, <2>2, <3>2 DEF Numbered
  <2>3. ASSUME NEW j \in Runs' PROVE Sealed(run[j])'
    <3>1. CASE j = n
      BY <1>7, <2>1, <3>1 DEF Sealed
    <3>2. CASE j # n
      BY <1>2, <1>7, <2>3, <3>2 DEF Numbered, Sealed
    <3> QED
      BY <3>1, <3>2
  <2> QED
    BY <2>2, <2>3 DEF Numbered
<1>14. Chained'
  <2>1. SUFFICES ASSUME NEW k \in Runs', k > 1, run'[k - 1].rc = 0
                 PROVE  Follows(link', run'[k], run'[k - 1])
    BY DEF Chained
  <2>2. link' = link
    BY <1>1 DEF disk
  <2>3. k - 1 \in Runs /\ run'[k - 1] = run[k - 1]
    <3>1. k \in Nat /\ k <= n
      BY <1>5, <1>7, <1>9
    <3>2. k - 1 \in Runs
      BY <1>2, <1>5, <2>1, <3>1 DEF Runs
    <3> QED
      BY <1>7, <3>2
  <2>4. CASE k = n
    <3>1. n - 1 = Len(run) /\ run[Len(run)].rc = 0
      BY <1>2, <1>5, <2>1, <2>3, <2>4
    <3>2. Ended(Len(run)) /\ run[Len(run)].impact = "done" /\ Len(run) > 0
      BY <1>2, <1>10, <2>3, <2>4, <3>1 DEF Ended, Numbered, Sealed, Runs
    <3>3. link = run[Len(run)].to
      BY <3>2 DEF UInv, Told, Verdict
    <3> QED
      BY <1>6, <1>7, <2>2, <2>3, <2>4, <3>1, <3>3 DEF Follows
  <2>5. CASE k # n
    <3>1. k \in Runs /\ run'[k] = run[k]
      BY <1>7, <2>5
    <3> QED
      BY <1>2, <2>1, <2>2, <2>3, <3>1 DEF Chained
  <2> QED
    BY <2>4, <2>5
<1>15. Matching'
  <2>1. SUFFICES ASSUME NEW m \in Runs', Active(m)' PROVE Match(run[m])'
    BY DEF Matching
  <2>2. m = n
    BY <1>4, <1>7, <1>10, <2>1
  <2>3. r.pc = "begin"
    BY <1>6, <1>7, <2>1, <2>2 DEF Active
  <2>4. Match(r)'
    BY <2>3 DEF Match, Late, Moved
  <2> QED
    BY <1>7, <2>2, <2>4
<1>16. Pairs'
  <2>1. SUFFICES ASSUME Clean', NEW j \in Runs', LastApply(j)' PROVE Pair(j, run[j])'
    BY DEF Pairs
  <2>2. j \in Runs /\ run'[j] = run[j]
    <3>1. run'[j].rc = 0 /\ None # 0
      BY <1>10, <2>1 DEF LastApply
    <3>2. run'[n].rc = None
      BY <1>6, <1>7
    <3>3. j # n
      BY <3>1, <3>2
    <3> QED
      BY <1>7, <2>1, <3>3
  <2>3. PICK o : o = run[j]
    OBVIOUS
  <2>4. LastApply(j)
    BY <1>7, <2>1, <2>2 DEF LastApply
  <2>5. Pair(j, o)
    BY <1>2, <1>11, <2>1, <2>2, <2>3, <2>4 DEF Pairs
  <2>6. j \in 0..Len(run) /\ o.snap \in 0..taken /\ o.from \in 0..Len(run)
    BY <1>9, <2>2, <2>3
  <2>7. o.from \in venvs'
    BY <1>1, <2>5 DEF Pair, disk
  <2>8. Pair(j, o)'
    BY <1>8, <1>12, <2>5, <2>6, <2>7, PairStays
  <2> QED
    BY <2>2, <2>3, <2>8
<1>17. Planning'
  <2>1. \A d \in Clients : ask'[d] = None
    BY <1>1, <1>2 DEF Asks, OneClient
  <2> QED
    BY <2>1 DEF Planning
<1>18. Aiming'
  <2>1. SUFFICES ASSUME Active(n)', r.mode = "rollback" PROVE Aims(n, r)'
    <3>1. \A m \in Runs' : Active(m)' => m = n
      BY <1>4, <1>7, <1>10
    <3> QED
      BY <1>7, <2>1, <3>1 DEF Aiming
  <2>2. r.pc = "begin"
    BY <1>6, <1>7, <2>1 DEF Active
  <2>3. Fits(n, r.aim, r.to)
    BY <1>4, <1>5, <1>6, <2>1
  <2>4. Fits(n, r.aim, r.to)'
    <3>1. /\ \A k \in Runs : run'[k].mode = run[k].mode
          /\ \A j \in Runs' : j < n => j \in Runs /\ run'[j] = run[j]
      BY <1>5, <1>7
    <3> QED
      BY <1>7, <1>11, <2>3, <3>1, FitsStays
  <2> QED
    BY <2>2, <2>4 DEF Aims
<1> QED
  BY <1>12, <1>13, <1>14, <1>15, <1>16, <1>17, <1>18 DEF WInv

\* The machine restarts: the run at work is cut, and nothing is promised.
LEMMA WayReboot ==
  ASSUME UpgradeAssumption, UInv, WInv, Reboot
  PROVE  WInv'
<1>1. /\ run' = [i \in Runs |-> IF Active(i) THEN [run[i] EXCEPT !.pc = "cut"] ELSE run[i]]
      /\ ask' = [c \in Clients |-> None] /\ proc' = link /\ db' = Opened(db, link)
      /\ UNCHANGED <<link, venvs, aside, shots, area, writes, tools>>
  BY DEF Reboot
<1>2. PICK n \in Runs : Active(n)
  BY DEF Reboot
<1>3. /\ n = Len(run) /\ n \in Nat \ {0} /\ run[n] \in RunRecs /\ Entry(n, run[n])
      /\ \A i \in Runs \ {n} : ~Active(i)
      /\ Disk /\ run \in Seq(RunRecs) /\ \A i \in Runs : Entry(i, run[i])
  BY <1>2, Turn DEF UInv, Alone, Journal
<1>4. PICK r \in RunRecs : r = [run[n] EXCEPT !.pc = "cut"]
  BY <1>3 DEF RunRecs, Pcs
<1>5. /\ SamePlan(run[n], r) /\ r.pc = "cut" /\ r.rc = run[n].rc /\ r.snap = run[n].snap
  BY <1>3, <1>4 DEF RunRecs, SamePlan
<1>6. run' = [run EXCEPT ![n] = r]
  <2>1. run \in [1..Len(run) -> RunRecs] /\ Runs = 1..Len(run)
    BY <1>3, LenProperties DEF Runs
  <2>2. run' = [i \in Runs |-> IF i = n THEN r ELSE run[i]]
    BY <1>1, <1>2, <1>3, <1>4
  <2> QED
    BY <2>1, <2>2
<1>7. /\ Len(run') = Len(run) /\ Runs' = Runs
      /\ run'[n] = r /\ \A j \in Runs \ {n} : run'[j] = run[j]
  BY <1>3, <1>6, Written
<1>8. \A v \in 0..Len(run) : SchemaOf(v)' = SchemaOf(v)
  BY <1>3, <1>5, <1>6, EditionsWork DEF SamePlan
<1>9. \A j \in Runs : ~Active(j)'
  BY <1>3, <1>5, <1>7 DEF Active, Ended
<1>10. ~Clean'
  BY <1>5, <1>7 DEF Clean
<1>11. r.rc # 0
  BY <1>2, <1>5 DEF Active, Ended, UpgradeAssumption
<1>12. Opens /\ Window /\ Numbered /\ Chained
  BY DEF WInv
<1>13. Opens' /\ Window'
  <2>1. Served /\ UNCHANGED shots
    <3>1. link \in 0..Len(run) /\ db \in Base
      BY <1>3 DEF Disk
    <3> QED
      BY <1>1, <3>1 DEF Served, Start
  <2> QED
    BY <1>8, <1>12, <2>1, OpensStays, WindowStays
<1>14. \A j \in Runs : run'[j].snap = run[j].snap
  BY <1>5, <1>7
<1>15. Numbered'
  <2>1. Sealed(r)
    BY <1>5, <1>11 DEF Sealed, Early, Late
  <2>2. ASSUME NEW j \in Runs PROVE Sealed(run'[j])
    BY <1>7, <1>12, <2>1 DEF Numbered
  <2>3. \A j \in Runs : Sealed(run[j])'
    BY <2>2 DEF Sealed
  <2> QED
    BY <1>7, <1>12, <1>14, <2>3 DEF Numbered
<1>16. Chained'
  <2>1. SUFFICES ASSUME NEW k \in Runs, k > 1, run'[k - 1].rc = 0
                 PROVE  Follows(link', run'[k], run'[k - 1])
    BY <1>7 DEF Chained
  <2>2. k - 1 \in Runs
    BY <1>3, <2>1 DEF Runs
  <2>3. k - 1 # n /\ run'[k - 1] = run[k - 1]
    BY <1>7, <1>11, <2>1, <2>2
  <2>4. CASE k = n
    BY <1>5, <1>7, <2>4 DEF Follows
  <2>5. CASE k # n
    <3>1. run'[k] = run[k] /\ link' = link
      BY <1>1, <1>7, <2>5
    <3> QED
      BY <1>12, <2>1, <2>3, <3>1 DEF Chained
  <2> QED
    BY <2>4, <2>5
<1>17. Matching' /\ Pairs' /\ Aiming'
  BY <1>7, <1>9, <1>10 DEF Matching, Pairs, Aiming
<1>18. Planning'
  BY <1>1 DEF Planning
<1> QED
  BY <1>13, <1>15, <1>16, <1>17, <1>18 DEF WInv

\* What the way back starts from.
LEMMA WayInit ==
  ASSUME UpgradeAssumption, Init
  PROVE  WInv
<1>1. run = <<>> /\ Len(run) = 0 /\ Runs = {}
  BY DEF Init, Runs
<1>2. Opens
  BY DEF Opens, Init, SchemaOf, Edition, UpgradeAssumption
<1>3. Window
  BY DEF Window, Init
<1>4. Numbered /\ Chained /\ Matching /\ Pairs /\ Aiming
  BY <1>1 DEF Numbered, Chained, Matching, Pairs, Aiming
<1>5. Planning
  BY DEF Planning, Init
<1> QED
  BY <1>2, <1>3, <1>4, <1>5 DEF WInv

\* Every step keeps it.
LEMMA WayStep ==
  ASSUME UpgradeAssumption, OneClient, Keep <= 3, UInv, UInv', WInv, [Next]_vars
  PROVE  WInv'
<1>1. ASSUME NEW c \in Clients, Gesture(c) PROVE WInv'
  BY <1>1, WayPreflight, WaySpawn DEF Gesture
<1>2. ASSUME NEW n \in 1..MaxRuns, Applicator(n) PROVE WInv'
  <2>1. Shifts(n) /\ UNCHANGED ask /\ n \in Nat
    BY <1>2, ApplicatorShifts, ApplicatorAsks
  <2> QED
    BY <2>1, WayWork
<1> QED
  BY <1>1, <1>2, WayRest, WayReboot DEF Next

\* After an apply that succeeded the way back exists, and a rollback replayed after a
\* rollback does not retrace it.
LEMMA WayIsBack ==
  ASSUME UpgradeAssumption, UInv, WInv
  PROVE  WayBack
<1>1. /\ run \in Seq(RunRecs) /\ Len(run) \in Nat
      /\ Numbered /\ Chained /\ Pairs /\ Aiming
  BY RunIsRecord DEF UInv, Journal, WInv
<1>2. \A i \in Runs : /\ i \in Nat /\ i >= 1 /\ i <= Len(run) /\ run[i] \in RunRecs /\ Entry(i, run[i])
                      /\ Sealed(run[i])
  BY <1>1, RunIsRecord DEF UInv, Journal, Numbered
<1>3. None # 0 /\ None \notin Nat
  BY DEF UpgradeAssumption
<1>4. ASSUME NEW n \in Nat, n = Len(run), n > 0, Ended(n), Clean, run[n].rc = 0, run[n].mode = "apply",
             run[n].snap \in DOMAIN snaps
      PROVE  Usable(run[n].snap) /\ VenvFor(run[n].snap) = run[n].from /\ run[n].from \in venvs
  <2>1. n \in Runs /\ run[n].told /\ run[n].impact = "done"
    BY <1>1, <1>2, <1>4 DEF Runs, Sealed
  <2>2. LastApply(n)
    BY <1>2, <1>4 DEF LastApply
  <2>3. PICK s \in DOMAIN snaps : s = run[n].snap
    BY <1>4
  <2>4. n \in Takers(s)
    BY <1>4, <2>1, <2>3 DEF Takers
  <2>5. Takers(s) = {n} /\ VenvFor(s) = run[n].from
    <3>1. WInv
      OBVIOUS
    <3> QED
      BY <1>4, <2>2, <2>4, LeadsBack
  <2>6. Pair(n, run[n])
    BY <1>1, <1>4, <2>1, <2>2 DEF Pairs
  <2>7. link = n
    BY <1>2, <1>4, <2>1 DEF UInv, Told, Verdict, Entry
  <2>8. run[n].from \in Nat /\ run[n].from # n
    BY <1>2, <1>4, <2>1 DEF Entry
  <2>9. ~IsSafety(s)
    BY <1>4, <2>5 DEF IsSafety
  <2>10. Usable(s)
    <3>1. PICK v : v = VenvFor(s) /\ v = run[n].from
      BY <2>5
    <3>2. v \notin {None, link}
      BY <1>3, <2>7, <2>8, <3>1
    <3>3. SchemaOf(v) <= SchemaOf(link)
      BY <2>6, <2>7, <3>1 DEF Pair
    <3> QED
      BY <2>9, <3>1, <3>2, <3>3 DEF Usable
  <2> QED
    BY <2>3, <2>5, <2>6, <2>10 DEF Pair
<1>5. ASSUME NEW i \in Runs \ {1}, run[i].mode = "rollback", run[i].pc = "aside",
             Takers(run[i].aim) # {}, run[i - 1].mode = "rollback",
             \A j \in 1..(i - 1) : run[j].rc = 0
      PROVE  run[i].to # run[i - 1].from
  <2>1. Active(i) /\ i = Len(run) /\ Places(i, run[i])
    <3>1. run[i].pc \notin {"unborn", "cut", "done"}
      BY <1>5
    <3> QED
      BY <1>5, <3>1, Standing
  <2>2. Aims(i, run[i]) /\ i > 1
    BY <1>1, <1>2, <1>5, <2>1 DEF Aiming
  <2>3. PICK j \in Takers(run[i].aim) : j \in Runs
    BY <1>5 DEF Takers
  <2>4. Ended(j) /\ run[j].snap = run[i].aim /\ j # i
    BY <2>1, <2>3 DEF Takers, Active
  <2>5. j < i /\ j \in Nat /\ j >= 1 /\ i \in Nat
    BY <1>2, <2>1, <2>3, <2>4
  <2>6. run[j].mode = "apply"
    BY <2>2, <2>3, <2>5 DEF Aims, Fits
  <2>7. j # i - 1
    BY <1>5, <2>6
  <2>8. i - 1 \in Runs /\ i - 2 \in Runs /\ i - 2 \in Nat /\ i - 2 >= j
    BY <1>1, <2>1, <2>5, <2>7 DEF Runs
  <2>9. run[i - 1].rc = 0 /\ run[i - 2].rc = 0 /\ run[j].rc = 0
    BY <1>5, <2>5, <2>8
  <2>10. /\ run[i - 1].snap \in Nat \ {0} /\ run[i - 2].snap \in Nat \ {0}
         /\ run[i - 2].snap < run[i - 1].snap
    <3>1. run[i - 1].snap \in Nat /\ run[i - 2].snap \in Nat
      BY <1>2, <2>8, RunFields
    <3>2. run[i - 1].snap # 0 /\ run[i - 2].snap # 0
      BY <1>2, <2>8, <2>9 DEF Sealed
    <3>3. i - 2 < i - 1
      BY <2>5
    <3> QED
      BY <1>1, <2>8, <3>1, <3>2, <3>3 DEF Numbered
  <2>11. run[j].snap \in Nat /\ run[i - 1].snap <= run[j].snap + 1
    <3>1. run[j].snap \in Nat
      BY <1>2, <2>3, RunFields
    <3> QED
      BY <1>5, <2>2, <2>4, <3>1 DEF Aims
  <2>12. j = i - 2
    <3>1. SUFFICES ASSUME j < i - 2 PROVE FALSE
      BY <2>5, <2>8
    <3>2. run[j].snap < run[i - 2].snap
      BY <1>1, <2>3, <2>8, <2>10, <3>1 DEF Numbered
    <3> QED
      BY <2>10, <2>11, <3>2
  <2>13. Clean
    <3>1. SUFFICES ASSUME NEW k \in Runs
                   PROVE  /\ run[k].pc # "cut" /\ run[k].told
                          /\ ~(run[k].impact = "forward" /\ Downgrade(k))
      BY DEF Clean
    <3>2. CASE k = i
      BY <1>5, <2>1, <3>2 DEF Places
    <3>3. CASE k # i
      <4>1. k \in 1..(i - 1)
        BY <1>2, <2>1, <3>1, <3>3
      <4>2. run[k].rc = 0
        BY <1>5, <4>1
      <4> QED
        BY <1>2, <1>3, <3>1, <4>2 DEF Sealed, Entry
    <3> QED
      BY <3>2, <3>3
  <2>14. LastApply(j)
    <3>1. ASSUME NEW k \in Runs, k > j PROVE run[k].mode = "rollback"
      <4>1. k = i - 1 \/ k = i
        BY <1>2, <2>1, <2>5, <2>12, <3>1
      <4> QED
        BY <1>5, <4>1
    <3> QED
      BY <2>6, <2>9, <3>1 DEF LastApply
  <2>15. run[i].to = run[j].from
    BY <2>2, <2>3, <2>5, <2>13, <2>14 DEF Aims, Fits
  <2>16. run[i - 1].from = j
    <3>1. run[i - 1].pc = "done"
      BY <1>2, <1>3, <2>8, <2>9 DEF Entry
    <3>2. i - 1 > 1 /\ (i - 1) - 1 = i - 2
      BY <2>5, <2>12
    <3>3. Follows(link, run[i - 1], run[i - 2])
      BY <1>1, <2>8, <2>9, <3>2 DEF Chained
    <3>4. run[i - 2].to = i - 2
      BY <1>2, <2>6, <2>8, <2>12 DEF Entry
    <3> QED
      BY <2>12, <3>1, <3>3, <3>4 DEF Follows
  <2>17. run[j].from \in 0..(j - 1)
    BY <1>2, <2>3 DEF Entry
  <2> QED
    BY <2>5, <2>15, <2>16, <2>17
<1> QED
  BY <1>1, <1>4, <1>5 DEF WayBack

\* After an apply that succeeded a rollback may be aimed at its snapshot and goes to
\* the venv that ran before it; a rollback replayed after a rollback does not
\* return to the version the first one left.  The second needs the retention the
\* code has: with more snapshots kept, a third target would not be refused.
THEOREM WayBackHolds ==
  ASSUME OneClient, Keep <= 3
  PROVE  Spec => []WayBack
<1>1. Init => WInv
  BY UpgradeAssumption, WayInit
<1>2. UInv /\ UInv' /\ WInv /\ [Next]_vars => WInv'
  BY UpgradeAssumption, WayStep
<1>3. UInv /\ WInv => WayBack
  BY UpgradeAssumption, WayIsBack
<1> QED
  BY <1>1, <1>2, <1>3, UpgradeInvariant, PTL DEF Spec
=============================================================================
