---------------------------- MODULE MirrorProofs ----------------------------
(***************************************************************************)
(* What a synchronisation and a merge may lose, whatever was compared and  *)
(* whatever moved between a test and its move, for any number of commits   *)
(* and of synchronisations.                                                *)
(***************************************************************************)
EXTENDS Mirror, TLAPS

\* What the steps rely on: both sides have every branch, a synchronisation is
\* somewhere and compared each branch, a merge is somewhere.
Tests == [into : SUBSET Nat, from : SUBSET Nat]
Syncs == [pc : {"idle", "dev", "main", "end"},
          state : [Branches -> {"none", "synced", "local_ahead", "remote_ahead", "diverged"}],
          quiet : BOOLEAN, done : SUBSET Branches, test : Tests]
Merges == [pc : {"idle", "land", "follow", "main", "push"}, test : Tests]
Shape ==
  /\ local \in [Branches -> SUBSET Nat]
  /\ remote \in [Branches -> SUBSET Nat]
  /\ track \in [Branches -> SUBSET Nat]
  /\ sync \in Syncs
  /\ merge \in Merges
  /\ commits \in Nat

\* Both sides and the synchronisation are well formed at first.
LEMMA InitShape == Init => Shape
BY DEF Init, Shape, Syncs, Merges, Tests, Idle, Rest, NoTest, Branches

\* A comparison has one of five answers.
LEMMA StateIsOne ==
  ASSUME NEW here, NEW there
  PROVE  State(here, there) \in {"none", "synced", "local_ahead", "remote_ahead", "diverged"}
BY DEF State

\* A fetch leaves a history for every branch.
LEMMA FetchedIsTracked == Shape => Fetched \in [Branches -> SUBSET Nat]
BY DEF Shape, Fetched

\* The forms in which the steps leave a synchronisation.
LEMMA SyncMoves ==
  ASSUME Shape
  PROVE  /\ Idle \in Syncs /\ Stirred \in Syncs
         /\ [sync EXCEPT !.pc = Goto] \in Syncs
         /\ \A b \in Branches :
              /\ [sync EXCEPT !.pc = Goto, !.done = @ \cup {b}, !.test = NoTest] \in Syncs
              /\ [sync EXCEPT !.test = [into |-> local[b], from |-> track[b]]] \in Syncs
<1>0. sync \in Syncs /\ NoTest \in Tests
  BY DEF Shape, NoTest, Tests
<1>1. Idle \in Syncs
  BY <1>0 DEF Idle, Syncs
<1>2. Stirred \in Syncs
  BY <1>0 DEF Stirred, Syncs
<1>3. Goto \in {"main", "end"}
  BY DEF Goto
<1>4. [sync EXCEPT !.pc = Goto] \in Syncs
  BY <1>0, <1>3 DEF Syncs
<1>5. ASSUME NEW b \in Branches
      PROVE  [sync EXCEPT !.pc = Goto, !.done = @ \cup {b}, !.test = NoTest] \in Syncs
  BY <1>0, <1>3 DEF Syncs
<1>6. ASSUME NEW b \in Branches
      PROVE  [sync EXCEPT !.test = [into |-> local[b], from |-> track[b]]] \in Syncs
  <2>1. [into |-> local[b], from |-> track[b]] \in Tests
    BY DEF Shape, Tests
  <2> QED BY <1>0, <2>1 DEF Syncs
<1> QED BY <1>1, <1>2, <1>4, <1>5, <1>6

\* A merge at rest, between its two fast-forwards and before its push.
LEMMA MergeRests ==
  /\ Rest \in Merges /\ Rest.pc = "idle" /\ Rest.test = NoTest /\ NoTest.into = {}
  /\ \A p \in {"follow", "push"} :
       [Rest EXCEPT !.pc = p] \in Merges /\ [Rest EXCEPT !.pc = p].pc = p
BY DEF Rest, NoTest, Merges, Tests

\* Every action keeps the shape.
LEMMA ShapeKept == Shape /\ [Next]_vars => Shape'
<1> SUFFICES ASSUME Shape, [Next]_vars PROVE Shape'
  OBVIOUS
<1> USE DEF Shape
<1>0. "dev" \in Branches /\ "main" \in Branches
  BY DEF Branches
<1>1. CASE Stray
  <2>1. local["dev"] \cup {commits + 1} \in SUBSET Nat
    BY <1>0
  <2> QED BY <1>1, <2>1, SyncMoves DEF Stray
<1>2. CASE LandTest
  <2>1. local["dev"] \in SUBSET Nat /\ local["dev"] \cup {commits + 1} \in SUBSET Nat
    BY <1>0
  <2>2. merge' \in Merges
    BY <1>2, <2>1 DEF LandTest, Merges, Tests
  <2> QED BY <1>2, <2>2 DEF LandTest
<1>3. CASE LandMove
  <2>1. merge.test.from \in SUBSET Nat
    BY DEF Merges, Tests
  <2> QED BY <1>3, <2>1, SyncMoves, MergeRests DEF LandMove
<1>4. CASE FollowTest
  <2>1. local["dev"] \in SUBSET Nat /\ local["main"] \in SUBSET Nat
    BY <1>0
  <2>2. [pc |-> "main", test |-> [into |-> local["main"], from |-> local["dev"]]] \in Merges
    BY <2>1 DEF Merges, Tests
  <2>3. merge' \in Merges
    BY <1>4, <2>2, MergeRests DEF FollowTest
  <2> QED BY <1>4, <2>3 DEF FollowTest
<1>5. CASE FollowMove
  <2>1. merge' \in Merges /\ local' \in [Branches -> SUBSET Nat] /\ sync' \in Syncs
    BY <1>0, <1>5, SyncMoves, MergeRests DEF FollowMove
  <2> QED BY <1>5, <2>1 DEF FollowMove
<1>6. CASE Writeback
  <2>1. Accepted \in [Branches -> SUBSET Nat]
    BY DEF Accepted
  <2>2. remote' \in [Branches -> SUBSET Nat] /\ track' \in [Branches -> SUBSET Nat]
    BY <1>6, <2>1 DEF Writeback
  <2> QED BY <1>6, <2>2, SyncMoves, MergeRests DEF Writeback
<1>7. CASE Compare
  <2>1. CASE UNCHANGED <<track, sync>>
    BY <1>7, <2>1 DEF Compare
  <2>2. CASE /\ track' = Fetched
             /\ sync' = [Idle EXCEPT !.pc = "dev",
                                     !.state = [b \in Branches |-> State(local[b], Fetched[b])]]
    <3>1. [b \in Branches |-> State(local[b], Fetched[b])]
            \in [Branches -> {"none", "synced", "local_ahead", "remote_ahead", "diverged"}]
      BY StateIsOne
    <3>2. sync' \in Syncs
      BY <2>2, <3>1, SyncMoves DEF Syncs
    <3> QED BY <1>7, <2>2, <3>2, FetchedIsTracked DEF Compare
  <2> QED BY <1>7, <2>1, <2>2 DEF Compare
<1>8. CASE Look
  BY <1>8, FetchedIsTracked DEF Look
<1>9. CASE Report
  BY <1>9, SyncMoves DEF Report
<1>10. ASSUME NEW b \in Branches, Upstream(b) PROVE Shape'
  <2>1. PICK more \in {{}} \cup {remote[c] : c \in Branches} :
          remote' = [remote EXCEPT ![b] = @ \cup more \cup {commits + 1}]
    BY <1>10 DEF Upstream
  <2>2. more \subseteq Nat /\ commits + 1 \in Nat
    BY <2>1
  <2> QED BY <1>10, <2>1, <2>2, SyncMoves DEF Upstream
<1>11. ASSUME NEW b \in Branches, Keep(b) PROVE Shape'
  BY <1>11, SyncMoves DEF Keep, Skip
<1>12. ASSUME NEW b \in Branches, AskAncestor(b) PROVE Shape'
  <2>1. sync' \in Syncs
    BY <1>12, SyncMoves DEF AskAncestor, Skip, Asks
  <2> QED BY <1>12, <2>1 DEF AskAncestor
<1>13. ASSUME NEW b \in Branches, FastForward(b) PROVE Shape'
  <2>1. local' \in [Branches -> SUBSET Nat] /\ sync' \in Syncs
    BY <1>13, SyncMoves DEF FastForward, Did
  <2> QED BY <1>13, <2>1 DEF FastForward
<1>14. ASSUME NEW b \in Branches, Push(b) PROVE Shape'
  <2>1. remote' \in [Branches -> SUBSET Nat] /\ track' \in [Branches -> SUBSET Nat]
    BY <1>14 DEF Push
  <2>2. sync' \in Syncs
    <3>1. Skip(b) \/ Did(b)
      BY <1>14 DEF Push
    <3> QED BY <3>1, SyncMoves DEF Skip, Did
  <2> QED BY <1>14, <2>1, <2>2 DEF Push
<1>15. CASE UNCHANGED vars
  BY <1>15 DEF vars
<1> HIDE DEF Shape
<1> QED BY <1>1, <1>2, <1>3, <1>4, <1>5, <1>6, <1>7, <1>8, <1>9, <1>10, <1>11,
          <1>12, <1>13, <1>14, <1>15 DEF Next

(***************************************************************************)
(* What the tests remember                                                 *)
(***************************************************************************)
\* What is tracked was fetched or pushed, and the remote only grows.
TrackIsBehind == \A b \in Branches : track[b] \subseteq remote[b]

\* What was found an ancestor still is one of what the branch will be moved to:
\* what is tracked only grows, and a feature's branch stays.
TestsHold ==
  /\ sync.test # NoTest =>
       /\ sync.pc \in Branches /\ sync.state[sync.pc] = "remote_ahead"
       /\ sync.test.into # {} /\ sync.test.into \subseteq track[sync.pc]
  /\ merge.pc # "idle" => kind = "project"
  /\ merge.pc = "land" => merge.test.into # {}
  /\ merge.pc \in {"land", "main"} => merge.test.into \subseteq merge.test.from

\* What a fetch leaves: the remote itself, as nothing tracked is ahead of it.
LEMMA FetchedIsRemote ==
  ASSUME Shape, TrackIsBehind
  PROVE  Fetched = remote
BY DEF Fetched, Shape, TrackIsBehind

\* The fields of a synchronisation that moves on.
LEMMA MovesOn ==
  ASSUME sync \in Syncs
  PROVE  /\ Idle.pc = "idle" /\ Idle.test = NoTest
         /\ Stirred.quiet = FALSE /\ Stirred.pc = sync.pc /\ Stirred.test = sync.test
         /\ Stirred.state = sync.state
         /\ LET n == [sync EXCEPT !.pc = Goto]
            IN  n.quiet = sync.quiet /\ n.done = sync.done /\ n.test = sync.test
         /\ \A b \in Branches :
              /\ LET n == [sync EXCEPT !.pc = Goto, !.done = @ \cup {b}, !.test = NoTest]
                 IN  n.quiet = sync.quiet /\ n.done = sync.done \cup {b} /\ n.test = NoTest
              /\ LET n == [sync EXCEPT !.test = [into |-> local[b], from |-> track[b]]]
                 IN  /\ n.quiet = sync.quiet /\ n.done = sync.done /\ n.pc = sync.pc
                     /\ n.state = sync.state
                     /\ n.test = [into |-> local[b], from |-> track[b]]
<1> USE DEF Syncs
<1>1. /\ Idle.pc = "idle" /\ Idle.test = NoTest
      /\ Stirred.quiet = FALSE /\ Stirred.pc = sync.pc /\ Stirred.test = sync.test
      /\ Stirred.state = sync.state
  BY DEF Idle, Stirred
<1>2. LET n == [sync EXCEPT !.pc = Goto]
      IN  n.quiet = sync.quiet /\ n.done = sync.done /\ n.test = sync.test
  OBVIOUS
<1>3. ASSUME NEW b \in Branches
      PROVE  /\ LET n == [sync EXCEPT !.pc = Goto, !.done = @ \cup {b}, !.test = NoTest]
                IN  n.quiet = sync.quiet /\ n.done = sync.done \cup {b} /\ n.test = NoTest
             /\ LET n == [sync EXCEPT !.test = [into |-> local[b], from |-> track[b]]]
                IN  /\ n.quiet = sync.quiet /\ n.done = sync.done /\ n.pc = sync.pc
                    /\ n.state = sync.state
                    /\ n.test = [into |-> local[b], from |-> track[b]]
  OBVIOUS
<1> QED BY <1>1, <1>2, <1>3

\* Every step keeps what is tracked behind the remote, and neither ever shrinks.
LEMMA BehindKept ==
  Shape /\ TrackIsBehind /\ [Next]_vars =>
    /\ TrackIsBehind'
    /\ \A b \in Branches : track[b] \subseteq track'[b] /\ remote[b] \subseteq remote'[b]
<1> DEFINE Grows == \A b \in Branches :
                      track[b] \subseteq track'[b] /\ remote[b] \subseteq remote'[b]
<1> SUFFICES ASSUME Shape, TrackIsBehind, [Next]_vars PROVE TrackIsBehind' /\ Grows
  OBVIOUS
<1> USE DEF Shape, TrackIsBehind
<1>1. CASE UNCHANGED <<remote, track>>
  BY <1>1
<1>2. CASE Compare \/ Look
  BY <1>2, FetchedIsRemote DEF Compare, Look
<1>3. CASE Writeback
  <2>1. CASE /\ remote' = Accepted
             /\ track' = [b \in Branches |-> IF Accepted[b] = local[b] THEN local[b] ELSE track[b]]
    BY <2>1 DEF Accepted
  <2> QED BY <1>1, <1>3, <2>1 DEF Writeback
<1>4. ASSUME NEW b \in Branches, Upstream(b) PROVE TrackIsBehind' /\ Grows
  BY <1>4 DEF Upstream
<1>5. ASSUME NEW b \in Branches, Push(b) PROVE TrackIsBehind' /\ Grows
  BY <1>5 DEF Push
<1>6. \/ Stray \/ LandTest \/ LandMove \/ FollowTest \/ FollowMove \/ Report
      \/ UNCHANGED vars
      => UNCHANGED <<remote, track>>
  BY DEF Stray, LandTest, LandMove, FollowTest, FollowMove, Report, vars
<1>7. \A b \in Branches : Keep(b) \/ AskAncestor(b) \/ FastForward(b) => UNCHANGED <<remote, track>>
  BY DEF Keep, AskAncestor, FastForward
<1> HIDE DEF Shape, TrackIsBehind, Grows
<1> QED BY <1>1, <1>2, <1>3, <1>4, <1>5, <1>6, <1>7 DEF Next

\* And every step keeps what the tests remember.
LEMMA TestsKept == Shape /\ TrackIsBehind /\ TestsHold /\ [Next]_vars => TestsHold'
<1> SUFFICES ASSUME Shape, TrackIsBehind, TestsHold, [Next]_vars PROVE TestsHold'
  OBVIOUS
<1> DEFINE Sync  == sync.test # NoTest =>
                      /\ sync.pc \in Branches /\ sync.state[sync.pc] = "remote_ahead"
                      /\ sync.test.into # {} /\ sync.test.into \subseteq track[sync.pc]
           Merge == /\ merge.pc # "idle" => kind = "project"
                    /\ merge.pc = "land" => merge.test.into # {}
                    /\ merge.pc \in {"land", "main"} => merge.test.into \subseteq merge.test.from
<1>0. /\ sync \in Syncs /\ merge \in Merges /\ Sync /\ Merge
      /\ \A b \in Branches : track[b] \subseteq track'[b]
  BY BehindKept DEF Shape, TestsHold
<1>1. (sync' = sync \/ sync' = Stirred) => Sync'
  BY <1>0, MovesOn
<1>2. sync'.test = NoTest => Sync'
  OBVIOUS
<1>3. (merge' = merge /\ kind' = kind) => Merge'
  BY <1>0
<1>4. Sync' /\ Merge' => TestsHold'
  BY DEF TestsHold
<1>5. CASE Stray \/ \E b \in Branches : Upstream(b)
  BY <1>1, <1>3, <1>4, <1>5 DEF Stray, Upstream
<1>6. CASE LandTest
  <2>1. merge'.pc = "land" /\ merge'.test.into = local["dev"] /\ local["dev"] # {}
        /\ merge'.test.from = local["dev"] \cup {commits + 1} /\ kind' = "project"
    BY <1>6 DEF LandTest
  <2>2. Merge'
    BY <2>1
  <2> QED BY <1>1, <1>4, <1>6, <2>2 DEF LandTest
<1>7. CASE LandMove \/ Writeback
  <2>1. merge'.pc \in {"follow", "idle"} /\ kind' = kind /\ merge.pc # "idle"
    BY <1>7, MergeRests DEF LandMove, Writeback
  <2>2. Merge'
    BY <1>0, <2>1
  <2> QED BY <1>1, <1>4, <1>7, <2>2 DEF LandMove, Writeback
<1>8. CASE FollowTest
  <2>1. merge'.pc = "idle" \/ (/\ merge'.pc = "main" /\ local["main"] \subseteq local["dev"]
                               /\ merge'.test = [into |-> local["main"], from |-> local["dev"]])
    BY <1>8, MergeRests DEF FollowTest
  <2>2. kind' = kind /\ merge.pc # "idle" /\ sync' = sync
    BY <1>8 DEF FollowTest
  <2>3. Merge'
    BY <1>0, <2>1, <2>2
  <2> QED BY <1>1, <1>4, <2>2, <2>3
<1>9. CASE FollowMove
  <2>1. merge'.pc \in {"push", "idle"} /\ kind' = kind /\ merge.pc # "idle"
    BY <1>9, MergeRests DEF FollowMove
  <2>2. Merge'
    BY <1>0, <2>1
  <2> QED BY <1>1, <1>4, <1>9, <2>2 DEF FollowMove
<1>10. CASE Compare
  <2>1. sync' = sync \/ sync'.test = NoTest
    BY <1>10, MovesOn DEF Compare, Idle
  <2> QED BY <1>1, <1>2, <1>3, <1>4, <1>10, <2>1 DEF Compare
<1>11. CASE Look \/ UNCHANGED vars
  BY <1>1, <1>3, <1>4, <1>11 DEF Look, vars
<1>12. CASE Report
  BY <1>0, <1>2, <1>3, <1>4, <1>12, MovesOn DEF Report
<1>13. ASSUME NEW b \in Branches, Keep(b) \/ Push(b) PROVE TestsHold'
  <2>1. sync.pc = b /\ sync.state[b] # "remote_ahead"
    BY <1>13 DEF Keep, Push
  <2>2. sync.test = NoTest
    BY <1>0, <2>1
  <2>3. sync'.test = NoTest
    BY <1>0, <1>13, <2>2, MovesOn DEF Keep, Push, Skip, Did
  <2> QED BY <1>2, <1>3, <1>4, <1>13, <2>3 DEF Keep, Push
<1>14. ASSUME NEW b \in Branches, AskAncestor(b) PROVE TestsHold'
  <2>1. sync.pc = b /\ sync.state[b] = "remote_ahead" /\ sync.test = NoTest /\ track' = track
        /\ merge' = merge /\ kind' = kind
    BY <1>14 DEF AskAncestor, Ahead
  <2>2. CASE Skip(b) \/ sync' = Idle
    BY <1>0, <1>2, <1>3, <1>4, <2>1, <2>2, MovesOn DEF Skip
  <2>3. CASE Asks(b) /\ local[b] # {} /\ local[b] \subseteq track[b]
    <3>1. /\ sync'.pc = b /\ sync'.state[b] = "remote_ahead"
          /\ sync'.test.into = local[b]
      BY <1>0, <2>1, <2>3, MovesOn DEF Asks
    <3>2. Sync'
      BY <2>1, <2>3, <3>1
    <3> QED BY <1>3, <1>4, <2>1, <3>2
  <2> QED BY <1>14, <2>2, <2>3 DEF AskAncestor
<1>15. ASSUME NEW b \in Branches, FastForward(b) PROVE TestsHold'
  <2>1. sync'.test = NoTest /\ merge' = merge /\ kind' = kind
    BY <1>0, <1>15, MovesOn DEF FastForward, Did
  <2> QED BY <1>2, <1>3, <1>4, <2>1
<1> QED BY <1>5, <1>6, <1>7, <1>8, <1>9, <1>10, <1>11, <1>12, <1>13, <1>14, <1>15 DEF Next

(***************************************************************************)
(* What a step may lose                                                    *)
(***************************************************************************)
\* A branch found diverged is where a synchronisation stands and leaves it alone.
LEMMA DivergedStays ==
  ASSUME Shape, TestsHold, [Next]_vars, NEW b \in Branches,
         sync.pc = b, sync.state[b] = "diverged", sync'.pc # b
  PROVE  local' = local /\ remote' = remote
<1>0. sync \in Syncs /\ Stirred.pc = sync.pc /\ sync.test = NoTest
  BY MovesOn DEF Shape, TestsHold
<1>1. sync' # sync /\ sync' # Stirred
  BY <1>0
<1>2. ~(\/ Stray \/ LandTest \/ LandMove \/ FollowTest \/ FollowMove \/ Writeback
        \/ Compare \/ Look \/ Report \/ UNCHANGED vars)
  BY <1>1 DEF Stray, LandTest, LandMove, FollowTest, FollowMove, Writeback, Compare, Look,
              Report, Branches, vars
<1>3. \A c \in Branches : ~Upstream(c) /\ ~AskAncestor(c) /\ ~FastForward(c) /\ ~Push(c)
  BY <1>0, <1>1 DEF Upstream, AskAncestor, Ahead, FastForward, Push
<1> QED BY <1>2, <1>3 DEF Next, Keep

\* Only a commit of somebody else reaches a tool's upstream.
LEMMA UpstreamIsTheirs ==
  ASSUME TestsHold, [Next]_vars, kind = "tool", commits' = commits, commits \in Nat
  PROVE  remote' = remote
<1>1. ~Writeback
  BY DEF Writeback, TestsHold
<1>2. \A b \in Branches : ~Upstream(b)
  BY DEF Upstream
<1>3. \A b \in Branches : Push(b) => remote' = remote
  BY DEF Push
<1> QED BY <1>1, <1>2, <1>3 DEF Next, Stray, LandTest, LandMove, FollowTest, FollowMove,
          Compare, Look, Report, Keep, AskAncestor, FastForward, vars

\* Only where two movers cross does a local branch lose a commit, and dev then
\* keeps what it held at the test of the one that moves it.
LEMMA LocalKeeps ==
  ASSUME Shape, TestsHold, [Next]_vars
  PROVE  /\ \A b \in Branches : local[b] \subseteq local'[b] \/ Crossed(b)
         /\ \/ local["dev"] \subseteq local'["dev"]
            \/ \E f \in {sync, merge} : f.test.into # {} /\ f.test.into \subseteq local'["dev"]
<1> DEFINE Keeps == /\ \A b \in Branches : local[b] \subseteq local'[b] \/ Crossed(b)
                    /\ \/ local["dev"] \subseteq local'["dev"]
                       \/ \E f \in {sync, merge} :
                            f.test.into # {} /\ f.test.into \subseteq local'["dev"]
<1> SUFFICES Keeps
  OBVIOUS
<1>0. local \in [Branches -> SUBSET Nat] /\ "dev" \in Branches /\ "main" \in Branches
  BY DEF Shape, Branches
<1>1. (\A b \in Branches : local[b] \subseteq local'[b]) => Keeps
  BY <1>0
<1>2. CASE local' = local
  BY <1>1, <1>2
<1>3. CASE Stray
  <2>1. \A b \in Branches : local[b] \subseteq local'[b]
    BY <1>0, <1>3 DEF Stray
  <2> QED BY <1>1, <2>1
<1>4. CASE LandMove
  <2>1. /\ local' = [local EXCEPT !["dev"] = merge.test.from] /\ merge.pc = "land"
        /\ merge.test.into # {} /\ merge.test.into \subseteq merge.test.from
    BY <1>4 DEF LandMove, TestsHold
  <2>2. local'["dev"] = merge.test.from /\ \A b \in Branches : b # "dev" => local'[b] = local[b]
    BY <1>0, <2>1
  <2>3. local["dev"] \subseteq local'["dev"] \/ Crossed("dev")
    BY <2>1, <2>2 DEF Crossed
  <2> QED BY <2>1, <2>2, <2>3
<1>5. CASE FollowMove
  <2>1. CASE local' = [local EXCEPT !["main"] = local["dev"]]
    <3>1. merge.pc = "main" /\ merge.test.into \subseteq merge.test.from
      BY <1>5 DEF FollowMove, TestsHold
    <3>2. local'["main"] = local["dev"] /\ \A b \in Branches : b # "main" => local'[b] = local[b]
      BY <1>0, <2>1
    <3>3. local["main"] \subseteq local'["main"] \/ Crossed("main")
      BY <3>1, <3>2 DEF Crossed
    <3>4. local["dev"] \subseteq local'["dev"]
      BY <1>0, <3>2
    <3> QED BY <3>2, <3>3, <3>4
  <2> QED BY <1>2, <1>5, <2>1 DEF FollowMove
<1>6. ASSUME NEW b \in Branches, FastForward(b) PROVE Keeps
  <2>1. /\ sync.pc = b /\ local' = [local EXCEPT ![b] = track[b]]
        /\ sync.test.into # {} /\ sync.test.into \subseteq track[b]
    BY <1>6 DEF FastForward, TestsHold
  <2>2. local'[b] = track[b] /\ \A c \in Branches : c # b => local'[c] = local[c]
    BY <1>0, <2>1
  <2>3. local[b] \subseteq local'[b] \/ Crossed(b)
    BY <2>1, <2>2 DEF Crossed
  <2>4. \/ local["dev"] \subseteq local'["dev"]
        \/ sync.test.into # {} /\ sync.test.into \subseteq local'["dev"]
    BY <1>0, <2>1, <2>2
  <2> QED BY <2>2, <2>3, <2>4
<1>7. LandTest \/ FollowTest \/ Writeback \/ Compare \/ Look \/ Report \/ UNCHANGED vars
      => local' = local
  BY DEF LandTest, FollowTest, Writeback, Compare, Look, Report, vars
<1>8. \A b \in Branches : Upstream(b) \/ Keep(b) \/ AskAncestor(b) \/ Push(b) => local' = local
  BY DEF Upstream, Keep, AskAncestor, Push
<1> HIDE DEF Keeps
<1> QED BY <1>2, <1>3, <1>4, <1>5, <1>6, <1>7, <1>8 DEF Next

(***************************************************************************)
(* What a synchronisation leaves equal                                     *)
(***************************************************************************)
\* While nobody else moves, a synchronisation works on the remote as it is, and
\* what it acted on is equal on both sides.
WorksOnWhatIs ==
  sync.quiet /\ sync.pc # "idle" =>
    track = remote /\ \A b \in sync.done : local[b] = remote[b]

MirrorInv == Shape /\ TrackIsBehind /\ TestsHold /\ WorksOnWhatIs

\* What a synchronisation left alone works on.
LEMMA WorksKept == MirrorInv /\ [Next]_vars => WorksOnWhatIs'
<1> SUFFICES ASSUME MirrorInv, [Next]_vars PROVE WorksOnWhatIs'
  OBVIOUS
<1> USE DEF MirrorInv, Shape, WorksOnWhatIs
<1>1. CASE sync' = Stirred
  BY <1>1, MovesOn
<1>2. CASE sync' = Idle
  BY <1>2, MovesOn
<1>3. CASE UNCHANGED <<local, remote, track, sync>>
  BY <1>3
<1>4. CASE Compare
  <2>1. CASE /\ track' = Fetched
             /\ sync' = [Idle EXCEPT !.pc = "dev",
                                     !.state = [b \in Branches |-> State(local[b], Fetched[b])]]
    <3>1. sync'.done = {} /\ track' = remote /\ remote' = remote
      BY <1>4, <2>1, FetchedIsRemote DEF Compare, Idle
    <3> QED BY <3>1
  <2> QED BY <1>3, <1>4, <2>1 DEF Compare
<1>5. CASE Look
  BY <1>5, FetchedIsRemote DEF Look
<1>6. ASSUME NEW b \in Branches, sync.pc = b, UNCHANGED <<local, remote, track>>, Skip(b)
      PROVE  WorksOnWhatIs'
  BY <1>6, MovesOn DEF Skip, Branches
<1>7. ASSUME NEW b \in Branches, AskAncestor(b) PROVE WorksOnWhatIs'
  <2>1. CASE Asks(b)
    <3>1. sync'.quiet = sync.quiet /\ sync'.done = sync.done /\ sync.pc # "idle"
      BY <1>7, <2>1, MovesOn DEF AskAncestor, Ahead, Asks, Branches
    <3> QED BY <1>7, <3>1 DEF AskAncestor
  <2> QED BY <1>2, <1>6, <1>7, <2>1 DEF AskAncestor, Ahead
<1>8. ASSUME NEW b \in Branches, FastForward(b) PROVE WorksOnWhatIs'
  <2>1. sync'.quiet = sync.quiet /\ sync'.done = sync.done \cup {b} /\ sync.pc # "idle"
    BY <1>8, MovesOn DEF FastForward, Did, Branches
  <2>2. sync.done \subseteq Branches
    BY DEF Syncs
  <2> QED BY <1>8, <2>1, <2>2 DEF FastForward
<1>9. ASSUME NEW b \in Branches, Push(b) PROVE WorksOnWhatIs'
  <2>1. CASE /\ remote' = [remote EXCEPT ![b] = local[b]] /\ track' = [track EXCEPT ![b] = local[b]]
             /\ Did(b) /\ sync.pc = b /\ local' = local
    <3>1. sync'.quiet = sync.quiet /\ sync'.done = sync.done \cup {b} /\ sync.pc # "idle"
      BY <2>1, MovesOn DEF Did, Branches
    <3>2. sync.done \subseteq Branches
      BY DEF Syncs
    <3> QED BY <2>1, <3>1, <3>2
  <2> QED BY <1>6, <1>9, <2>1 DEF Push
<1>10. \A b \in Branches : Keep(b) => sync.pc = b /\ UNCHANGED <<local, remote, track>> /\ Skip(b)
  BY DEF Keep
<1>11. Stray \/ LandMove \/ (\E b \in Branches : Upstream(b)) => sync' = Stirred
  BY DEF Stray, LandMove, Upstream
<1>12. FollowMove \/ Writeback => sync' = Stirred \/ UNCHANGED <<local, remote, track, sync>>
  BY DEF FollowMove, Writeback
<1>13. Report => sync' = Idle
  BY DEF Report
<1>14. LandTest \/ FollowTest \/ UNCHANGED vars => UNCHANGED <<local, remote, track, sync>>
  BY DEF LandTest, FollowTest, vars
<1> QED BY <1>1, <1>2, <1>3, <1>4, <1>5, <1>6, <1>7, <1>8, <1>9, <1>10, <1>11, <1>12, <1>13,
          <1>14 DEF Next

\* The invariant holds at first, and every step keeps it.
LEMMA MirrorInvInit == Init => MirrorInv
<1> SUFFICES ASSUME Init PROVE TrackIsBehind /\ TestsHold /\ WorksOnWhatIs
  BY InitShape DEF MirrorInv
<1>1. sync.test = NoTest /\ merge.pc = "idle"
  BY DEF Init, Idle, Rest
<1> QED BY <1>1 DEF Init, Idle, TrackIsBehind, TestsHold, WorksOnWhatIs, Branches

\* Every step keeps the four parts.
LEMMA MirrorInvKept == MirrorInv /\ [Next]_vars => MirrorInv'
BY ShapeKept, BehindKept, TestsKept, WorksKept DEF MirrorInv

\* It says what a step may lose.
LEMMA StepDropsNothing == MirrorInv /\ [Next]_vars => NothingIsDropped
<1> SUFFICES ASSUME MirrorInv, [Next]_vars PROVE NothingIsDropped
  OBVIOUS
<1>0. Shape /\ TrackIsBehind /\ TestsHold /\ commits \in Nat
  BY DEF MirrorInv, Shape
<1>1. \A b \in Branches : remote[b] \subseteq remote'[b]
  BY <1>0, BehindKept
<1>2. kind = "tool" /\ commits' = commits => remote' = remote
  BY <1>0, UpstreamIsTheirs
<1>3. \A b \in Branches : sync.pc = b /\ sync.state[b] = "diverged" /\ sync'.pc # b
        => local'[b] = local[b] /\ remote'[b] = remote[b]
  BY <1>0, DivergedStays
<1>4. /\ \A b \in Branches : local[b] \subseteq local'[b] \/ Crossed(b)
      /\ \/ local["dev"] \subseteq local'["dev"]
         \/ \E f \in {sync, merge} : f.test.into # {} /\ f.test.into \subseteq local'["dev"]
  BY <1>0, LocalKeeps
<1> QED BY <1>1, <1>2, <1>3, <1>4 DEF NothingIsDropped

\* It says what a synchronisation leaves.
LEMMA MirrorConverges == MirrorInv => SyncConverges
BY DEF MirrorInv, WorksOnWhatIs, SyncConverges

\* In every behaviour, with the test and the move of merge_ff two steps and any
\* number of commits and synchronisations: the remote loses no commit, a tool's
\* upstream is never written, what was found diverged is not moved, and a local
\* branch loses a commit only where two movers of it cross; dev then still holds
\* what it held when the one that moves it asked.
THEOREM MirrorDropsNothing == Spec => [][NothingIsDropped]_vars
<1>1. Spec => []MirrorInv
  BY MirrorInvInit, MirrorInvKept, PTL DEF Spec
<1> QED BY <1>1, StepDropsNothing, PTL DEF Spec

\* In every behaviour, a synchronisation during which nobody else moved leaves the
\* branches it acted on equal on both sides.
THEOREM MirrorEndsEqual == Spec => []SyncConverges
BY MirrorInvInit, MirrorInvKept, MirrorConverges, PTL DEF Spec
=============================================================================
