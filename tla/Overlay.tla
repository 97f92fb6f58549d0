-------------------------------- MODULE Overlay --------------------------------
(***************************************************************************)
(* The scaffold laid again over a project (reseed) while its features are  *)
(* in flight: a commit made without the worktree of the branch, by the     *)
(* command line and under the lock of the repository, beside the commits   *)
(* the daemon makes in that worktree (an upload, a worker that ended),     *)
(* which take no lock.                                                     *)
(***************************************************************************)
EXTENDS Naturals, FiniteSets

CONSTANTS
  Shells,      \* command lines that reseed
  MaxWrites    \* commits and scaffolds in all

OverlayAssumption == {"upload", "worker"} \cap Shells = {} /\ MaxWrites \in Nat \ {0}

\* The files the scaffold owns, those of the uploads and of the worker.
Paths == {"owned", "work"}
Committers == {"upload", "worker"}
Procs == Shells \cup Committers
Branches == {"dev", "feature"}   \* the feature has a worktree, dev has none

VARIABLES
  tip,      \* branch -> its tree and the commits it has
  wt,       \* the worktree of the feature: its index, its files
  bundle,   \* what the scaffold holds today
  proc,     \* each process: where it is, its branch, what it carries
  writes,   \* commits and scaffolds so far, each its number; the other files hold 0 or 1
  laid,     \* branch -> the scaffold last laid on it
  raced,    \* a commit of the worktree crossed a scaffold being laid
  cut       \* some process was cut

vars == <<tip, wt, bundle, proc, writes, laid, raced, cut>>

Tree == [Paths -> 0..MaxWrites]
Blank == [p \in Paths |-> 0]
Idle == [pc |-> "idle", branch |-> "feature", carries |-> 0, parent |-> {}, tree |-> Blank]

At(p, pc) == proc[p].pc = pc
To(p, pc) == proc' = [proc EXCEPT ![p].pc = pc]
Done(p) == proc' = [proc EXCEPT ![p] = Idle]
Locked == \E s \in Shells : At(s, "laid") \/ At(s, "move")

\* The windows in which one may miss the other.
Half(p) == IF p \in Shells THEN At(p, "laid") /\ proc[p].branch = "feature" ELSE At(p, "staged")
Crosses(others) == raced' = (raced \/ \E q \in others : Half(q))

\* A new edition brings another scaffold.
NewScaffold ==
  /\ writes < MaxWrites
  /\ bundle' = writes + 1 /\ writes' = writes + 1
  /\ UNCHANGED <<tip, wt, proc, laid, raced, cut>>

(***************************************************************************)
(* reseed_project, overlay_commit                                          *)
(***************************************************************************)
Reseed(s, b) ==
  /\ At(s, "idle")
  /\ proc' = [proc EXCEPT ![s] = [Idle EXCEPT !.pc = "lock", !.branch = b, !.carries = bundle]]
  /\ UNCHANGED <<tip, wt, bundle, writes, laid, raced, cut>>

Overlaid(tree, version) == [tree EXCEPT !["owned"] = version]

\* Under the lock: the tree of the branch with the files over it; no commit
\* when it is the same tree.
BuildTree(s) ==
  /\ At(s, "lock") /\ ~Locked
  /\ LET b == proc[s].branch
         tree == Overlaid(tip[b].tree, proc[s].carries)
     IN IF tree = tip[b].tree
          THEN Done(s) /\ laid' = [laid EXCEPT ![b] = proc[s].carries]
          ELSE /\ proc' = [proc EXCEPT ![s].pc = "move", ![s].parent = tip[b].has, ![s].tree = tree]
               /\ UNCHANGED laid
  /\ UNCHANGED <<tip, wt, bundle, writes, raced, cut>>

\* Whether update-ref finds the branch where the tree was built from.
UnmovedMutant(s) == TRUE
Unmoved(s) == tip[proc[s].branch].has = proc[s].parent

MoveBranch(s) ==
  /\ At(s, "move") /\ writes < MaxWrites
  /\ LET b == proc[s].branch
     IN IF Unmoved(s)
          THEN /\ tip' = [tip EXCEPT ![b] = [tree |-> proc[s].tree, has |-> proc[s].parent \cup {writes + 1}]]
               /\ laid' = [laid EXCEPT ![b] = proc[s].carries] /\ writes' = writes + 1
               /\ To(s, "laid") /\ IF b = "feature" THEN Crosses(Committers) ELSE UNCHANGED raced
          ELSE Done(s) /\ UNCHANGED <<tip, laid, writes, raced>>
  /\ UNCHANGED <<wt, bundle, cut>>

\* _worktree_for_branch: a branch is out in one worktree at most.
CheckedOut(b) == b = "feature"

\* The worktree where the branch is out is told of those files, and of no other.
Resync(s) ==
  /\ At(s, "laid")
  /\ wt' = IF CheckedOut(proc[s].branch)
             THEN [index |-> Overlaid(wt.index, proc[s].carries), files |-> Overlaid(wt.files, proc[s].carries)]
             ELSE wt
  /\ Done(s)
  /\ UNCHANGED <<tip, bundle, writes, laid, raced, cut>>

(***************************************************************************)
(* ingest_upload, the end of a worker: commit_worktree                     *)
(***************************************************************************)
\* A file is written in the worktree: an upload's, where a feature is active,
\* which its commit follows, or those of the worker as it goes.
Written == wt' = [wt EXCEPT !.files["work"] = 1 - @] /\ UNCHANGED <<tip, bundle, writes, laid, raced, cut>>
Upload == At("upload", "idle") /\ Written /\ To("upload", "written")
Work == At("worker", "idle") /\ Written /\ (UNCHANGED proc \/ To("worker", "written"))

\* add -A takes all the files, those another process is writing too ...
Stage(p) ==
  /\ At(p, "written")
  /\ wt' = [wt EXCEPT !.index = wt.files]
  /\ To(p, "staged") /\ Crosses(Shells)
  /\ UNCHANGED <<tip, bundle, writes, laid, cut>>

\* ... and commit the index, wherever the branch is now; nothing if it is the same.
Commit(p) ==
  /\ At(p, "staged") /\ writes < MaxWrites
  /\ IF wt.index = tip["feature"].tree
       THEN UNCHANGED <<tip, writes>>
       ELSE /\ tip' = [tip EXCEPT !["feature"] = [tree |-> wt.index, has |-> @.has \cup {writes + 1}]]
            /\ writes' = writes + 1
  /\ Done(p) /\ Crosses(Shells)
  /\ UNCHANGED <<wt, bundle, laid, cut>>

Cut(p) ==
  /\ ~At(p, "idle") /\ Done(p)
  /\ cut' = (cut \/ At(p, "laid"))
  /\ UNCHANGED <<tip, wt, bundle, writes, laid, raced>>

Init ==
  /\ tip = [b \in Branches |-> [tree |-> Blank, has |-> {}]]
  /\ wt = [index |-> Blank, files |-> Blank] /\ bundle = 0
  /\ proc = [p \in Procs |-> Idle] /\ writes = 0 /\ laid = [b \in Branches |-> 0]
  /\ raced = FALSE /\ cut = FALSE

Next ==
  \/ NewScaffold
  \/ \E s \in Shells : \/ \E b \in Branches : Reseed(s, b)
                       \/ BuildTree(s) \/ MoveBranch(s) \/ Resync(s)
  \/ Upload \/ Work \/ \E p \in Committers : Stage(p) \/ Commit(p)
  \/ \E p \in Procs : Cut(p)

Spec == Init /\ [][Next]_vars

-----------------------------------------------------------------------------
TypeOK == \A b \in Branches : tip[b].tree \in Tree /\ wt.files \in Tree /\ wt.index \in Tree

Settled == \A s \in Shells : ~At(s, "laid")

\* Laying the scaffold loses no commit and touches no other file, in the
\* branch or under the hand of the worker; once it is laid the worktree holds
\* it, and no later commit takes it away unless the two crossed or the
\* command was cut between the branch and the worktree (overlay_commit).
OverlayStep ==
  /\ TypeOK'
  /\ \A b \in Branches : tip[b].has \subseteq tip'[b].has
  /\ bundle' = bundle /\ laid' # laid =>
       wt'.files = wt.files /\ \A b \in Branches : tip'[b].tree["work"] = tip[b].tree["work"]
  /\ \A s \in Shells : proc'[s] # proc[s] => wt'.files["work"] = wt.files["work"]
  /\ Settled' /\ ~cut' /\ ~raced' => wt'.files["owned"] = laid'["feature"]
  /\ ~cut' /\ ~raced' => \A b \in Branches : tip'[b].tree["owned"] = laid'[b]
=============================================================================
