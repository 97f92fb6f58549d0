--------------------------------- MODULE Tiers ---------------------------------
(***************************************************************************)
(* The two deterministic tiers of the gate on one feature: the toolchain   *)
(* run over the groups its diff triggers (Tier-0), and the rendering proved *)
(* on a preview of its worktree (Tier-1.5).  Both read the branch, then a   *)
(* worktree that a worker may write meanwhile, and leave a verdict that     *)
(* names the commit; the merge gate trusts it as long as it names the head. *)
(***************************************************************************)
EXTENDS Naturals, Sequences

CONSTANTS
  Trees,      \* what a commit may hold
  Runners,    \* who runs a tier: the loop, a route, a command
  Loops,      \* the loop, which proves the rendering after the toolchain
  MaxCommits, MaxRuns   \* bounds of a behaviour

TiersAssumption ==
  /\ Loops \subseteq Runners /\ {MaxCommits, MaxRuns} \subseteq Nat \ {0}
  /\ \A t \in Trees : t.steps \in Seq({t.steps[i] : i \in DOMAIN t.steps})

VARIABLES
  head,     \* the branch: its number, its tree
  wt,       \* the tree of the worktree
  native,   \* the verdict of the toolchain
  render,   \* the verdict of the rendering
  preview,  \* what the preview of the feature serves: a tree, or nothing
  proc,     \* each runner: where it is, what it read, what it found
  lost,     \* a preview was left to nobody
  runs      \* tiers run so far

vars == <<head, wt, native, render, preview, proc, lost, runs>>

\* "true": each time it looked, the runner saw the very tree of the branch.
NoVerdict == [sha |-> 0, ok |-> FALSE, true |-> FALSE]
NoContract == [markers |-> {}, after |-> {}]
Idle == [pc |-> "idle", sha |-> 0, diff |-> {}, groups |-> <<>>, steps |-> <<>>,
         seen |-> {}, contract |-> NoContract, ok |-> TRUE, true |-> TRUE]
Down == {}

At(r, pc) == proc[r].pc = pc
Busy == {r \in Runners : ~At(r, "idle")}
Faithful == wt = head.tree
Set(r, new) == proc' = [proc EXCEPT ![r] = new]

(***************************************************************************)
(* Which groups a diff triggers: from its files alone                      *)
(***************************************************************************)
NodeSuffixes == {"ts", "tsx"}
DocSuffixes == {"md", "mdx"}
UISuffixes == {"tsx", "mdx", "vue"}
StyleSuffixes == {"css"}
Inert == DocSuffixes \cup {"svg", "lock"}

touches_front(files) == \E f \in files : f.web
touches_node_backend(files) == \E f \in files : f.suffix \in NodeSuffixes /\ ~f.web
touches_py(files) == \E f \in files : f.suffix = "py"
is_tier0_source(f) == f.suffix \notin Inert
covered_by_known_route(f) == f.web \/ f.suffix \in NodeSuffixes \/ f.suffix = "py"
touches_undeclared_source(files) == \E f \in files : is_tier0_source(f) /\ ~covered_by_known_route(f)

When(touched, group) == IF touched THEN <<group>> ELSE <<>>
Triggers(files) ==
  When(touches_front(files), "front") \o When(touches_node_backend(files), "backend-node")
  \o When(touches_py(files), "backend") \o When(touches_undeclared_source(files), "declared")

\* has_visual_change: style, a page by its place, elsewhere the markup it adds.
Visual(files) ==
  \E f \in files : \/ f.suffix \in StyleSuffixes
                   \/ f.suffix \in UISuffixes /\ (f.rendered \/ f.markup)

(***************************************************************************)
(* What a worktree can run for a group; no step: nothing covers it         *)
(***************************************************************************)
NodeDir(g, t) == IF "root" \in t.gates THEN "root" ELSE IF g = "front" THEN "web" ELSE "server"

\* A manifest that cannot be read to the last step declares nothing.
Declared(t) == IF t.manifest = "sound" THEN t.steps ELSE <<>>

Steps(g, t, bare) ==
  CASE g = "declared" -> Declared(t)
    [] g = "backend" -> IF "pyproject" \in t.gates
                          THEN <<<<"ruff", "root">>, <<"mypy", "root">>, <<"pytest", "root">>>> ELSE <<>>
    [] OTHER -> LET d == NodeDir(g, t) IN
         IF d \notin t.gates THEN <<>>
         ELSE (IF bare THEN <<<<"npm-ci", d>>>> ELSE <<>>) \o <<<<"npm-run-gate", d>>>>

UncoveredMutant(steps) == FALSE
Uncovered(steps) == steps = <<>>

(***************************************************************************)
(* Tier-0                                                                  *)
(***************************************************************************)
Begin(r, pc) ==
  /\ At(r, "idle") /\ runs < MaxRuns /\ runs' = runs + 1
  /\ proc' = [proc EXCEPT ![r] = [Idle EXCEPT !.pc = pc, !.sha = head.sha]]
  /\ UNCHANGED <<head, wt, native, render, preview, lost>>

Toolchain(r) == Begin(r, "diff")

Diff(r) ==
  /\ At(r, "diff")
  /\ Set(r, [proc[r] EXCEPT !.pc = "step", !.diff = IF r \in Loops THEN head.tree.files ELSE {},
                            !.groups = Triggers(head.tree.files)])
  /\ UNCHANGED <<head, wt, native, render, preview, lost, runs>>

\* The next group; one that nothing covers is a red step of its own.
Group(r, bare) ==
  /\ At(r, "step") /\ proc[r].steps = <<>> /\ proc[r].groups # <<>>
  /\ LET steps == Steps(Head(proc[r].groups), wt, bare)
     IN Set(r, [proc[r] EXCEPT !.pc = IF Uncovered(steps) THEN "native" ELSE "step", !.steps = steps,
                               !.groups = Tail(@), !.ok = ~Uncovered(steps), !.true = @ /\ Faithful])
  /\ UNCHANGED <<head, wt, native, render, preview, lost, runs>>

\* A step is red by its exit, its timeout, its absence; the first red ends
\* the run, and what an earlier group played is not played again.
Play(r, red) ==
  /\ At(r, "step") /\ proc[r].steps # <<>>
  /\ LET s == Head(proc[r].steps)
         ok == s \in proc[r].seen \/ (s \in wt.green /\ ~red)
     IN Set(r, [proc[r] EXCEPT !.pc = IF ok THEN "step" ELSE "native", !.steps = Tail(@), !.ok = ok,
                               !.seen = @ \cup {s}, !.true = @ /\ (s \in proc[r].seen \/ Faithful)])
  /\ UNCHANGED <<head, wt, native, render, preview, lost, runs>>

Fresh(v, sha) == v.sha = sha

\* The loop proves the rendering next, when the diff shows and nothing fresh does.
Native(r) ==
  /\ At(r, "native") \/ (At(r, "step") /\ proc[r].steps = <<>> /\ proc[r].groups = <<>>)
  /\ native' = [sha |-> proc[r].sha, ok |-> proc[r].ok, true |-> proc[r].true]
  /\ IF r \in Loops /\ Visual(proc[r].diff) /\ ~Fresh(render, proc[r].sha)
       THEN Set(r, [Idle EXCEPT !.pc = "deploy", !.sha = proc[r].sha]) ELSE Set(r, Idle)
  /\ UNCHANGED <<head, wt, render, preview, lost, runs>>

(***************************************************************************)
(* Tier-1.5                                                                *)
(***************************************************************************)
Verify(r) == r \notin Loops /\ Begin(r, "deploy")

\* A command may be given addresses of its own: what they serve is theirs.
Manifest(r, ok) ==
  /\ r \notin Loops /\ At(r, "idle") /\ runs < MaxRuns /\ runs' = runs + 1
  /\ render' = [sha |-> head.sha, ok |-> ok, true |-> FALSE]
  /\ UNCHANGED <<head, wt, native, preview, proc, lost>>

\* One preview per feature: who deploys second replaces what the first serves.
Deploy(r) ==
  /\ At(r, "deploy")
  /\ preview' = {wt}
  /\ Set(r, [proc[r] EXCEPT !.pc = "contract", !.true = @ /\ Faithful])
  /\ UNCHANGED <<head, wt, native, render, lost, runs>>

\* No compose, a build that fails: no verdict; containers that cannot be
\* inspected are left where they are.
NoDeploy(r, opaque) ==
  /\ At(r, "deploy") /\ Set(r, Idle)
  /\ IF opaque THEN preview' = {wt} /\ lost' = TRUE ELSE UNCHANGED <<preview, lost>>
  /\ UNCHANGED <<head, wt, native, render, runs>>

\* read_verify_contract: absent or illegible, it asks for nothing.
Contract(t) == IF t.legible THEN [markers |-> t.markers, after |-> t.after] ELSE NoContract

ReadContract(r) ==
  /\ At(r, "contract")
  /\ Set(r, [proc[r] EXCEPT !.pc = "probe", !.contract = Contract(wt), !.true = @ /\ Faithful])
  /\ UNCHANGED <<head, wt, native, render, preview, lost, runs>>

\* The runner's word on a tree: what must show at rest, what the clicks alone bring.
Shows(c, t) ==
  /\ c.markers \subseteq t.rest
  /\ c.after # {} => t.clicks /\ c.after \subseteq t.clicked /\ c.after \cap t.rest = {}

\* No runner, no browser, a timeout, nobody at the address: not proved.
Probe(r, broken) ==
  /\ At(r, "probe")
  /\ Set(r, [proc[r] EXCEPT !.pc = "authority", !.ok = ~broken /\ \E t \in preview : Shows(proc[r].contract, t),
                            !.true = @ /\ preview = {head.tree}])
  /\ UNCHANGED <<head, wt, native, render, preview, lost, runs>>

\* check_served_authority; nobody at the address: nothing leaks.
Authority(r) ==
  /\ At(r, "authority")
  /\ Set(r, [proc[r] EXCEPT !.pc = "render", !.ok = @ /\ \A t \in preview : ~t.leaks,
                            !.true = @ /\ preview = {head.tree}])
  /\ UNCHANGED <<head, wt, native, render, preview, lost, runs>>

Render(r) ==
  /\ At(r, "render")
  /\ render' = [sha |-> proc[r].sha, ok |-> proc[r].ok, true |-> proc[r].true]
  /\ Set(r, [Idle EXCEPT !.pc = "teardown"])
  /\ UNCHANGED <<head, wt, native, preview, lost, runs>>

Teardown(r) ==
  /\ At(r, "teardown")
  /\ preview' = Down /\ Set(r, Idle)
  /\ UNCHANGED <<head, wt, native, render, lost, runs>>

Cut(r) ==
  /\ ~At(r, "idle") /\ Set(r, Idle) /\ lost' = (lost \/ preview # Down)
  /\ UNCHANGED <<head, wt, native, render, preview, runs>>

(***************************************************************************)
(* The worker, and what the gate reads                                     *)
(***************************************************************************)
Write(t) ==
  /\ Faithful /\ t # wt /\ head.sha < MaxCommits /\ wt' = t
  /\ UNCHANGED <<head, native, render, preview, proc, lost, runs>>

Commit ==
  /\ ~Faithful /\ head' = [sha |-> head.sha + 1, tree |-> wt]
  /\ UNCHANGED <<wt, native, render, preview, proc, lost, runs>>

NativeStatus ==
  IF Triggers(head.tree.files) = <<>> THEN "n/a"
  ELSE IF Fresh(native, head.sha) /\ native.ok THEN "green" ELSE "red"

Init ==
  /\ wt \in Trees /\ head = [sha |-> 1, tree |-> wt]
  /\ native = NoVerdict /\ render = NoVerdict /\ preview = Down
  /\ proc = [r \in Runners |-> Idle] /\ lost = FALSE /\ runs = 0

Next ==
  \/ Commit
  \/ \E t \in Trees : Write(t)
  \/ \E r \in Runners :
       \/ \E b \in BOOLEAN : \/ Group(r, b) \/ Play(r, b) \/ Manifest(r, b)
                             \/ NoDeploy(r, b) \/ Probe(r, b)
       \/ Toolchain(r) \/ Diff(r) \/ Native(r) \/ Verify(r) \/ Deploy(r) \/ ReadContract(r)
       \/ Authority(r) \/ Render(r) \/ Teardown(r) \/ Cut(r)

Spec == Init /\ [][Next]_vars

-----------------------------------------------------------------------------
TypeOK == head.sha \in 1..MaxCommits /\ {head.tree, wt} \cup preview \subseteq Trees

\* What proves a file: the unit of its place, or else what the project declares.
Proved(f, t) ==
  /\ f.web => \E d \in {"root", "web"} \cap t.gates : <<"npm-run-gate", d>> \in t.green
  /\ f.suffix \in NodeSuffixes /\ ~f.web => \E d \in {"root", "server"} \cap t.gates : <<"npm-run-gate", d>> \in t.green
  /\ f.suffix = "py" => "pyproject" \in t.gates /\ {<<s, "root">> : s \in {"ruff", "mypy", "pytest"}} \subseteq t.green
  /\ ~covered_by_known_route(f) =>
       t.manifest = "sound" /\ t.steps # <<>> /\ \A i \in DOMAIN t.steps : t.steps[i] \in t.green

\* The gate is not held back by Tier-0 only when every source file of the head
\* is proved by what the head holds (applicable_triggers, run_toolchain: never a
\* silent drop), and a green rendering of the head shows what its contract
\* declares, the marks of a gesture after it alone, and leaks no authority
\* (autoverify_feature); at rest no preview is left up.
TiersAreEarned ==
  /\ TypeOK
  /\ NativeStatus = "n/a" \/ (NativeStatus = "green" /\ native.true)
       => \A f \in head.tree.files : is_tier0_source(f) => Proved(f, head.tree)
  /\ Fresh(render, head.sha) /\ render.ok /\ render.true
       => Shows(Contract(head.tree), head.tree) /\ ~head.tree.leaks
  /\ Busy = {} /\ ~lost => preview = Down
=============================================================================
