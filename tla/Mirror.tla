-------------------------------- MODULE Mirror --------------------------------
(***************************************************************************)
(* The synchronisation of a project's bare repository with its mirror, and *)
(* of an adopted tool with its upstream: fetch, compare, then act on each  *)
(* branch, while merges advance the local branches and others push to the  *)
(* remote.  The tip of a branch is its history, a set of commits; an       *)
(* absent branch is the empty one.  merge_ff tests an ancestor and then    *)
(* forces the branch by name: the test and the move are two steps, of a    *)
(* merge as of a synchronisation, and anything happens in between.         *)
(***************************************************************************)
EXTENDS Naturals

CONSTANTS Kinds, MaxCommits, MaxSyncs

Branches == {"dev", "main"}
MirrorAssumption == Kinds \subseteq {"project", "tool"} /\ MaxCommits \in Nat /\ MaxSyncs \in Nat

VARIABLES
  kind,      \* a project, that owns its history, or a tool, that follows
  local,     \* refs/heads of the bare repository
  remote,    \* the branches of the remote
  track,     \* refs/remotes
  out,       \* branches checked out in a worktree
  sync,      \* a synchronisation: where it is, what it compared, what moved since
  merge,     \* the merge of a feature, from its first fast-forward to its push
  commits,   \* commits made so far
  syncs      \* synchronisations begun so far

vars == <<kind, local, remote, track, out, sync, merge, commits, syncs>>

\* The two tips merge_ff asked about before it moves a branch.
NoTest == [into |-> {}, from |-> {}]
Idle == [pc |-> "idle", state |-> [b \in Branches |-> "none"], quiet |-> TRUE, done |-> {},
         test |-> NoTest]
Rest == [pc |-> "idle", test |-> NoTest]
Stirred == [sync EXCEPT !.quiet = FALSE]

\* _branch_sync_state, on the branches that exist somewhere.
State(here, there) ==
  IF here = there THEN IF here = {} THEN "none" ELSE "synced"
  ELSE IF there \subseteq here THEN "local_ahead"
  ELSE IF here \subseteq there THEN "remote_ahead" ELSE "diverged"

(***************************************************************************)
(* Everybody else                                                          *)
(***************************************************************************)
\* Somebody pushes to the remote: a commit of theirs, or the other branch merged.
Upstream(b) ==
  /\ commits < MaxCommits /\ commits' = commits + 1
  /\ \E more \in {{}} \cup {remote[c] : c \in Branches} :
       remote' = [remote EXCEPT ![b] = @ \cup more \cup {commits + 1}]
  /\ sync' = Stirred
  /\ UNCHANGED <<kind, local, track, out, merge, syncs>>

\* Somebody commits on a tool, where nobody should.
Stray ==
  /\ kind = "tool" /\ commits < MaxCommits /\ "dev" \notin out /\ local["dev"] # {}
  /\ commits' = commits + 1
  /\ local' = [local EXCEPT !["dev"] = @ \cup {commits + 1}]
  /\ sync' = Stirred
  /\ UNCHANGED <<kind, remote, track, out, merge, syncs>>

\* run_merge, once the feature's branch is rebased: merge_ff asks whether dev is
\* an ancestor of it, then forces dev to it.
LandTest ==
  /\ kind = "project" /\ merge.pc = "idle"
  /\ commits < MaxCommits /\ "dev" \notin out /\ local["dev"] # {}
  /\ commits' = commits + 1
  /\ merge' = [pc |-> "land",
               test |-> [into |-> local["dev"], from |-> local["dev"] \cup {commits + 1}]]
  /\ UNCHANGED <<kind, local, remote, track, out, sync, syncs>>

LandMove ==
  /\ merge.pc = "land"
  /\ local' = [local EXCEPT !["dev"] = merge.test.from]
  /\ merge' = [Rest EXCEPT !.pc = "follow"]
  /\ sync' = Stirred
  /\ UNCHANGED <<kind, remote, track, out, commits, syncs>>

\* main follows dev the same way; git refuses to force a branch of a worktree.
FollowTest ==
  /\ merge.pc = "follow"
  /\ merge' = IF local["main"] \subseteq local["dev"]
              THEN [pc |-> "main", test |-> [into |-> local["main"], from |-> local["dev"]]]
              ELSE Rest
  /\ UNCHANGED <<kind, local, remote, track, out, sync, commits, syncs>>

FollowMove ==
  /\ merge.pc = "main"
  /\ IF "main" \in out THEN merge' = Rest /\ UNCHANGED <<local, sync>>
     ELSE /\ local' = [local EXCEPT !["main"] = local["dev"]]
          /\ merge' = [Rest EXCEPT !.pc = "push"]
          /\ sync' = Stirred
  /\ UNCHANGED <<kind, remote, track, out, commits, syncs>>

\* The writeback pushes every branch the remote accepts, if it answers.
Accepted == [b \in Branches |-> IF remote[b] \subseteq local[b] THEN local[b] ELSE remote[b]]
Writeback ==
  /\ merge.pc = "push" /\ merge' = Rest
  /\ \/ /\ remote' = Accepted
        /\ track' = [b \in Branches |-> IF Accepted[b] = local[b] THEN local[b] ELSE track[b]]
        /\ sync' = Stirred
     \/ UNCHANGED <<remote, track, sync>>
  /\ UNCHANGED <<kind, local, out, commits, syncs>>

(***************************************************************************)
(* reconcile and sync_tracking                                             *)
(***************************************************************************)
\* git fetch: a tracking ref whose branch is gone stays.
Fetched == [b \in Branches |-> IF remote[b] = {} THEN track[b] ELSE remote[b]]

\* remote_divergence: fetch, then compare; an unreachable remote ends it.
Compare ==
  /\ sync.pc = "idle" /\ syncs < MaxSyncs /\ syncs' = syncs + 1
  /\ \/ /\ track' = Fetched
        /\ sync' = [Idle EXCEPT !.pc = "dev",
                                !.state = [b \in Branches |-> State(local[b], Fetched[b])]]
     \/ UNCHANGED <<track, sync>>
  /\ UNCHANGED <<kind, local, remote, out, merge, commits>>

\* GET /git/sync fetches too, at any moment.
Look == /\ sync.pc # "idle" /\ track # remote
        /\ track' = Fetched
        /\ UNCHANGED <<kind, local, remote, out, sync, merge, commits, syncs>>

Goto == IF sync.pc = "dev" THEN "main" ELSE "end"
Skip(b) == sync' = [sync EXCEPT !.pc = Goto]
Did(b)  == sync' = [sync EXCEPT !.pc = Goto, !.done = @ \cup {b}, !.test = NoTest]

Keep(b) == /\ sync.pc = b /\ sync.state[b] \in {"none", "synced", "diverged"}
           /\ Skip(b)
           /\ UNCHANGED <<kind, local, remote, track, out, merge, commits, syncs>>

Ahead(b) == sync.pc = b /\ sync.state[b] = "remote_ahead" /\ sync.test = NoTest
Asks(b)  == sync' = [sync EXCEPT !.test = [into |-> local[b], from |-> track[b]]]

\* Mutant of AskAncestor: the branch is moved without asking for an ancestor.
AskAncestorMutant(b) ==
  /\ Ahead(b) /\ Asks(b)
  /\ UNCHANGED <<kind, local, remote, track, out, merge, commits, syncs>>

\* remote_ahead: never a branch of a worktree; merge_ff asks again for an
\* ancestor, and its refusal (or a branch absent here) ends the whole request.
AskAncestor(b) ==
  /\ Ahead(b)
  /\ \/ b \in out /\ Skip(b)
     \/ /\ b \notin out /\ local[b] # {} /\ local[b] \subseteq track[b]
        /\ Asks(b)
     \/ /\ b \notin out /\ (local[b] = {} \/ ~(local[b] \subseteq track[b]))
        /\ sync' = Idle
  /\ UNCHANGED <<kind, local, remote, track, out, merge, commits, syncs>>

\* branch -f: the branch goes to what is tracked by now, wherever it is by now.
FastForward(b) ==
  /\ sync.pc = b /\ sync.test # NoTest
  /\ local' = [local EXCEPT ![b] = track[b]] /\ Did(b)
  /\ UNCHANGED <<kind, remote, track, out, merge, commits, syncs>>

\* local_ahead: a project pushes what the branch is by now, and the remote
\* refuses what is not a fast-forward; a tool pushes nothing.
Push(b) ==
  /\ sync.pc = b /\ sync.state[b] = "local_ahead"
  /\ \/ /\ kind = "project" /\ remote[b] \subseteq local[b]
        /\ remote' = [remote EXCEPT ![b] = local[b]] /\ track' = [track EXCEPT ![b] = local[b]]
        /\ Did(b)
     \/ Skip(b) /\ UNCHANGED <<remote, track>>
  /\ UNCHANGED <<kind, local, out, merge, commits, syncs>>

Report == /\ sync.pc = "end" /\ sync' = Idle
          /\ UNCHANGED <<kind, local, remote, track, out, merge, commits, syncs>>

\* A mirror just wired may lack a branch; an adopted tool may have only one.
Init ==
  /\ kind \in Kinds /\ commits = 1 /\ syncs = 0 /\ sync = Idle /\ merge = Rest
  /\ out \in {{}, {"main"}}
  /\ local \in {[b \in Branches |-> {1}], [b \in Branches |-> IF b = "dev" THEN {} ELSE {1}]}
  /\ remote \in {[b \in Branches |-> {1}], [b \in Branches |-> IF b = "dev" THEN {} ELSE {1}]}
  /\ track = [b \in Branches |-> {}]

Next ==
  \/ Stray \/ LandTest \/ LandMove \/ FollowTest \/ FollowMove \/ Writeback
  \/ Compare \/ Look \/ Report
  \/ \E b \in Branches : Upstream(b) \/ Keep(b) \/ AskAncestor(b) \/ FastForward(b) \/ Push(b)

Spec == Init /\ [][Next]_vars

(***************************************************************************)
(* Properties                                                              *)
(***************************************************************************)
Histories == [Branches -> SUBSET (1..MaxCommits)]
TypeOK == /\ kind \in Kinds /\ out \subseteq Branches
          /\ local \in Histories /\ remote \in Histories /\ track \in Histories
          /\ commits \in 1..MaxCommits /\ sync.pc \in Branches \cup {"idle", "end"}

\* Two movers of a branch cross: one of them stands between its test and its
\* move, and the branch, or the dev that main follows, is not what it tested.
Crossed(b) ==
  \/ sync.pc = b /\ sync.test.into \notin {{}, local[b]}
  \/ b = "dev" /\ merge.pc = "land" /\ merge.test.into # local["dev"]
  \/ /\ b = "main" /\ merge.pc = "main"
     /\ merge.test # [into |-> local["main"], from |-> local["dev"]]

\* Whatever was compared and whatever moved since: the remote never loses a
\* commit, a tool's upstream is never written, and a branch that was found
\* diverged is not moved.  A local branch loses one only where two movers cross,
\* and then dev keeps what it held at the test: merge_ff has no compare-and-swap,
\* so what reached dev in between is lost.
NothingIsDropped ==
  /\ \A b \in Branches : remote[b] \subseteq remote'[b]
  /\ kind = "tool" /\ commits' = commits => remote' = remote
  /\ \A b \in Branches : sync.pc = b /\ sync.state[b] = "diverged" /\ sync'.pc # b
       => local'[b] = local[b] /\ remote'[b] = remote[b]
  /\ \A b \in Branches : local[b] \subseteq local'[b] \/ Crossed(b)
  /\ \/ local["dev"] \subseteq local'["dev"]
     \/ \E f \in {sync, merge} : f.test.into # {} /\ f.test.into \subseteq local'["dev"]

\* A synchronisation that acted while nobody else moved leaves the branches it
\* acted on equal on both sides.
SyncConverges ==
  sync.pc = "end" /\ sync.quiet => \A b \in sync.done : local[b] = remote[b]
=============================================================================
