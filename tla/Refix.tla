-------------------------------- MODULE Refix -------------------------------
(***************************************************************************)
(* The correction loop of a red gate: dispatch_refix (evaluate the gate,   *)
(* count the passes spent, spend one, finalize again), finalize_feature    *)
(* (Tier-0 toolchain in the worktree, then the reviewer) and the two       *)
(* verdict files the gate reads, each bound to a head.                     *)
(*                                                                         *)
(* A head, or the state of the worktree's files, is the number of its      *)
(* content.  Which contents pass the toolchain and which a reviewer finds  *)
(* clean is fixed at the start.  One feature, whose tasks are done and     *)
(* whose diff holds source; the rendering tiers, rebases and merges are    *)
(* left out (GateDecision and Merge have them).                            *)
(***************************************************************************)
EXTENDS GateDecision, Integers, FiniteSets

CONSTANTS
  Requests,      \* refix, gate and drain requests
  MaxFixPasses,  \* MAX_FIX_PASSES
  MaxContents,   \* bound on the contents workers produce
  Faults,        \* subset of {"crash", "fail"}
  None

ASSUME RefixAssumption ==
  /\ IsFiniteSet(Requests) /\ Requests # {}
  /\ MaxFixPasses \in Nat /\ MaxContents \in Nat \ {0}
  /\ Faults \subseteq {"crash", "fail"}
  /\ None \notin Nat

VARIABLES
  sound,    \* contents that pass the toolchain
  clean,    \* contents in which a reviewer finds no red
  last,     \* the last content produced
  tree,     \* the content of the worktree's files
  head,     \* the content at the head of the branch
  tool,     \* toolchain verdict: head it is bound to and result, or None
  review,   \* review verdict: head it is bound to and colour, or None
  fixes,    \* dispatch_jobs of kind 'fix'
  pc, sha   \* where each request stands, the head it holds

codeVars == <<sound, clean, last, tree, head>>
vars     == <<codeVars, tool, review, fixes, pc, sha>>
Contents == 1..MaxContents

(***************************************************************************)
(* The gate                                                                *)
(***************************************************************************)

\* toolchain.status: absent or stale counts as failed.
ToolOk(t) == t # None /\ t.sha = head /\ t.ok

ReviewState == IF review = None THEN "absent"
               ELSE IF review.sha = head THEN "fresh" ELSE "stale"

\* evaluate_gate in preview, on a diff that holds source and no rendering.
Preview ==
  [red0 |-> FALSE, native |-> IF ToolOk(tool) THEN "ok" ELSE "failed",
   code |-> TRUE, t1 |-> ReviewState,
   red1 |-> review # None /\ review.red, t1Override |-> FALSE,
   ui |-> FALSE, t15 |-> "absent", unrendered |-> FALSE,
   t15Override |-> FALSE, go |-> FALSE]

(***************************************************************************)
(* dispatch_refix                                                          *)
(***************************************************************************)

Step(r, from, to) == pc[r] = from /\ pc' = [pc EXCEPT ![r] = to]

\* Mutant of Refix: one pass too many.
RefixMutant(r) ==
  /\ Step(r, "idle", "spend")
  /\ ~GateGreen(Preview) /\ Refixable(Preview) /\ fixes <= MaxFixPasses
  /\ UNCHANGED <<codeVars, tool, review, fixes, sha>>

\* A gate that is green, or red for want of a review, or a bound that is
\* reached is refused and changes nothing.
Refix(r) ==
  /\ Step(r, "idle", "spend")
  /\ ~GateGreen(Preview) /\ Refixable(Preview) /\ fixes < MaxFixPasses
  /\ UNCHANGED <<codeVars, tool, review, fixes, sha>>

\* dispatch_fix: record_start, and the worker starts on the worktree as it is.
RecordFix(r) ==
  /\ Step(r, "spend", "fix")
  /\ fixes' = fixes + 1
  /\ UNCHANGED <<codeVars, tool, review, sha>>

WorkerEdits(r) ==
  /\ pc[r] = "fix" /\ last < MaxContents
  /\ last' = last + 1 /\ tree' = last + 1
  /\ UNCHANGED <<sound, clean, head, tool, review, fixes, pc, sha>>

\* commit_worktree takes all the worktree holds; refix goes on to finalize.
WorkerCommits(r) ==
  /\ Step(r, "fix", "head")
  /\ head' = tree
  /\ UNCHANGED <<sound, clean, last, tree, tool, review, fixes, sha>>

\* A failed worker leaves its edits in the worktree.
WorkerFails(r) ==
  /\ "fail" \in Faults
  /\ Step(r, "fix", "idle")
  /\ UNCHANGED <<codeVars, tool, review, fixes, sha>>

(***************************************************************************)
(* finalize_feature                                                        *)
(***************************************************************************)

\* At the end of a drain.
Finalize(r) ==
  /\ Step(r, "idle", "head")
  /\ UNCHANGED <<codeVars, tool, review, fixes, sha>>

ReadHead(r) ==
  /\ Step(r, "head", "tool")
  /\ sha' = [sha EXCEPT ![r] = head]
  /\ UNCHANGED <<codeVars, tool, review, fixes>>

\* The toolchain runs on the files of the worktree, its verdict is bound to
\* the head that was read.
RunToolchain(r) ==
  /\ Step(r, "tool", "review")
  /\ tool' = [sha |-> sha[r], ok |-> tree \in sound]
  /\ UNCHANGED <<codeVars, review, fixes, sha>>

\* dispatch_reviewer reads the head and its diff; a fresh verdict stands.
StartReview(r) ==
  /\ pc[r] = "review"
  /\ IF ReviewState = "fresh"
     THEN pc' = [pc EXCEPT ![r] = "idle"] /\ UNCHANGED sha
     ELSE pc' = [pc EXCEPT ![r] = "judge"] /\ sha' = [sha EXCEPT ![r] = head]
  /\ UNCHANGED <<codeVars, tool, review, fixes>>

\* Mutant of WriteReview: the verdict is bound to the head at its writing.
WriteReviewMutant(r) ==
  /\ Step(r, "judge", "idle")
  /\ review' = [sha |-> head, red |-> sha[r] \notin clean]
  /\ UNCHANGED <<codeVars, tool, fixes, sha>>

WriteReview(r) ==
  /\ Step(r, "judge", "idle")
  /\ review' = [sha |-> sha[r], red |-> sha[r] \notin clean]
  /\ UNCHANGED <<codeVars, tool, fixes, sha>>

\* A reviewer that fails writes no verdict.
ReviewFails(r) ==
  /\ "fail" \in Faults
  /\ Step(r, "judge", "idle")
  /\ UNCHANGED <<codeVars, tool, review, fixes, sha>>

\* The daemon stops; the boot finalises the jobs (Dispatch).
Crash ==
  /\ "crash" \in Faults
  /\ pc' = [r \in Requests |-> "idle"]
  /\ UNCHANGED <<codeVars, tool, review, fixes, sha>>

(***************************************************************************)
(* The specification                                                       *)
(***************************************************************************)

\* The tasks are done and nothing was finalized yet.
Init ==
  /\ sound \in SUBSET Contents /\ clean \in SUBSET Contents
  /\ last = 1 /\ tree = 1 /\ head = 1
  /\ tool = None /\ review = None /\ fixes = 0
  /\ pc = [r \in Requests |-> "idle"] /\ sha = [r \in Requests |-> None]

Next ==
  \/ \E r \in Requests :
       \/ Refix(r) \/ RecordFix(r)
       \/ WorkerEdits(r) \/ WorkerCommits(r) \/ WorkerFails(r)
       \/ Finalize(r) \/ ReadHead(r) \/ RunToolchain(r)
       \/ StartReview(r) \/ WriteReview(r) \/ ReviewFails(r)
  \/ Crash

Spec == Init /\ [][Next]_vars

(***************************************************************************)
(* Properties                                                              *)
(***************************************************************************)

\* The shape of the state.
TypeOK ==
  /\ sound \subseteq Contents /\ clean \subseteq Contents
  /\ last \in Contents /\ tree \in 1..last /\ head \in 1..last
  /\ tool = None \/ tool \in [sha : Contents, ok : BOOLEAN]
  /\ review = None \/ review \in [sha : Contents, red : BOOLEAN]
  /\ fixes \in Nat
  /\ pc \in [Requests ->
       {"idle", "spend", "fix", "head", "tool", "review", "judge"}]
  /\ sha \in [Requests -> Contents \cup {None}]
  /\ \A r \in Requests : pc[r] \in {"tool", "judge"} => sha[r] \in Contents

\* Whatever overlaps, fails or crashes, a green gate stands on a review that
\* found the head's own content clean.
GreenIsReviewed == GateGreen(Preview) => head \in clean

\* A green gate's toolchain ran on the content of the head.
GreenIsSound == GateGreen(Preview) => head \in sound

\* A feature gets MAX_FIX_PASSES correction passes (refix.py:9), and one more
\* for each further request that counted the passes before the last was recorded.
PassesAreBounded == TypeOK /\ fixes <= MaxFixPasses + Cardinality(Requests) - 1
=============================================================================
