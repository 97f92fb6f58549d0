# forgemaster in TLA+

forgemaster drives headless coding agents: it cuts a project into features and
tasks, dispatches a worker (`claude -p`) on each task in a worktree of its
feature, judges the result with deterministic and reviewing tiers, and merges a
feature to `dev` and `main` under a human's GO. Around that core it provisions
projects and tools, previews and deploys their branches, keeps terminals open,
and updates itself. This directory holds a model of those parts, the TLC runs
that check it and the theorems TLAPS proves about it. Paths below are relative
to `src/forgemaster/` unless they say otherwise.

Contents: 1 inventory, 2 modules, 3 runs, 4 proofs, 5 what the models leave out,
6 plan.

## 1. Inventory

### How the parts work together

    project (row, bare repository, mirror)   scaffold, uploads
        |                                        |
    roadmap (features, tasks, two DAGs)          |      human: abort, GO, refix,
        |                                        |      redrain, interview, terminal,
        v                                        |      deploy, update
    orchestrator: run_project / run_feature  <---+-----------+
        |  discovers ready features, bounded pool, one report per run
        v
    dispatch: worker.dispatch_next -> worktree + port -> job row -> claude -p
        |                                                    |
        |   abort (signals, sentinel)   boot reconciliation  |  log
        v                                                    v
    finalize_feature: toolchain (Tier 0) -> review (Tier 1) -> rendering (Tier 1.5)
        |  verdict files bound to the head's sha, alert gate_red
        v
    gate: evaluate_gate -> (red: refix pass -> finalize again) -> run_merge under GO
        |
        v
    git: rebase, ff feature -> dev -> main, release, delete branch, close -> mirror

    below all of it: the database, the secrets, the tools, the installation itself
    (migrations, wiring, install_tools / repose_maps, channel -> apply / rollback)

Everything meets in one SQLite file (one connection per thread, WAL, a commit
after nearly every statement), in git refs and worktrees, and in small files
(verdicts, logs, the abort sentinel, the secrets, the update channel's cache).
There is hardly a lock above these: the routes run in a thread pool, a CLI
process works on the same database, and only worktree creation and the reseed
take a file lock. The hard behaviours are what follows from this: reads that are
stale when used, two writers of one row, several writes of which one fails, a
crash between two of them.

### Components

| component | source | state | operations | what makes it correct | here |
|---|---|---|---|---|---|
| dispatch | `dispatch/worker.py`, `jobs.py`, `core/run.py` | tasks.status, dispatch_jobs, worktree, log | dispatch_next, dispatch_fix, _run_worker, record_start/pid/finish | done means committed; a job is finalised once; a claim is given back; what is closed is reopened by a late run at most | Dispatch |
| abort | `dispatch/abort.py` | sentinel, job and task rows | request_abort, clear_abort | what it lists ends; a drain does not restart what it killed | Dispatch, Orchestrator |
| boot reconciliation | `dispatch/reconcile.py` | job and task rows | mark_job_orphan, reconcile_orphans | no zombie after a boot; a survivor is spared | Dispatch |
| orchestrator | `dispatch/orchestrator.py` | local sets of a drain, pool | run_project, run_feature, finalize_feature | ends; drains dry; never works on blocked features; silent about nothing | Orchestrator, Refix, Tiers |
| alerts | `db/alerts.py` | alerts (one open row per feature and kind) | emit, resolve, ack | every block has one; none on a merged feature; gate_red says what the gate says | Orchestrator (without ack) |
| socle interview | `interview.py` | the socle's tasks, design document | run_interview, reconcile_socle | no work before the socle is merged | Orchestrator (its gate) |
| gate | `gate/merge.py`, `review.py` | verdict files | evaluate_gate, compose_merge_decision | every tier holds on the merged head; overrides reach their own tier only | GateDecision, Gate |
| deterministic tiers | `gate/toolchain.py`, `verify.py`, `deploy/runners/render_check.js` of the repository | verdict files, a preview | run_toolchain, autoverify_feature | nothing of the head is silently unproved; a rendering shows what its contract declares | Tiers |
| correction loop | `dispatch/refix.py` | fix jobs, verdicts, worktree | dispatch_refix | bounded; a green gate speaks of the head's content | Refix |
| reviewer | `dispatch/reviewer.py` | review verdict | dispatch_reviewer | the verdict is bound to what was read | Refix, Merge |
| merge run | `gate/merge.py`, `git/internal.py` | dev, main, feature branches, feature and task rows, merge_outcomes | run_merge | only cleared commits land; dev only grows; main follows; closed means landed | Merge |
| redrain | `dispatch/redrain.py` | worktree, tasks, feature | redrain_feature | nothing of an earlier drain survives as proof | Merge |
| worktrees, ports, runtime | `dispatch/worktree.py`, `ports.py`, `runtime/engine.py` | worktrees, port_reservations, deployments, containers | reserve, release, deploy, stop, restart, status, preview, teardown | never one port twice; a port is held as long as what uses it; a status is what the containers are | Runtime, Merge |
| roadmap | `roadmap/resolver.py`, `model.py`, `check.py` | features, tasks, dependencies | add, set_deps, resolve_next, classify, check_roadmap | an operational roadmap drains; a validated edit closes no cycle | Roadmap, Dispatch, Orchestrator |
| store | `db/store.py`, `schema.py` | the database file | create_schema, migrations | cut anywhere, whoever migrates beside, it ends whole | Migration |
| mirror | `git/internal.py`, `toolsync.py` | remote refs | reconcile, sync_tracking, merge_ff | the remote loses no commit, a branch one only where two movers cross; left alone it converges | Mirror |
| projects | `projects/registry.py`, `git/internal.py` | row, bare repository, deployments | create_project on both paths, set mirror | a row has its repository | Project |
| scaffold | `provision/`, `git/internal.py` | branches, worktree | reseed, upload | it loses no commit and no edit, and it stays | Overlay |
| terminal | `terminal/registry.py`, `pty.py` | sessions, epochs, scrollback | attach, relay, detach, reap | one shell per key, its output arrives, what is left is released | Terminal |
| update | `update.py`, `apply_update.py`, `restore.py`, `snapshot.py` | link, venvs, base, snapshots, wheels, journal | stage, apply, rollback, restore, retention | after any stop some version runs on a base it reads; the journal is true | Upgrade |
| channel, proposals | `update_channel.py`, `update_proposals.py`, `db/proposals.py` | cache file, proposal rows | refresh, note, defer, decline, accept | only consented bytes are applied; offers go forward | Channel |
| secrets and catalog | `secrets/`, `mcp/local.py`, `onboarding.py`, `provision/mcp.py` | key, encrypted file, env file, the server's secret | put, install, wire, link, inject | what was stored opens; a dispatch's token is one the server accepts | Wiring |
| host tooling | `tools.py` | distributions, links | install_tools, repose_maps, check_tools, preflight_tools | no false green; what resolved still resolves | Tools |
| history, woaw | `gate/history.py`, `gate/woaw.py` | journal, advisory verdict | record, prune | never blocks | not modelled |
| daemon | `daemon/` | none of its own | HTTP, WS | boot order | boot in Dispatch |
| transcript, authority, facets, maps, catalog client, authentication, host checks, CLI, web | `dispatch/stream.py`, `cost.py`, `projects/authority.py`, `provision/`, `codemap/`, `frontmap/`, `cli.py`, `src/web/` | files, or none | templating, encoding, reads | no protocol state | not modelled |

`PROJECT.json` has the list with its sources and notes, and under `hazards` what
can go wrong in each at the line where it would, with the properties that watch
it.

## 2. Modules

Each component has a module; `MC*` modules hold instances for TLC, `*Proofs`
modules the theorems. Mutants (`XMutant`) stand before the definition they
change; they are forms a plausible mistake would give it and no part of the
specifications. A module that only `MC*` modules instantiate names its
assumptions in an operator (`XAssumption`) that the instance assumes.

### Dispatch, TaskBoard

*Dispatch* is `worker.py`, `jobs.py`, `abort.py`, `reconcile.py` and the
streaming part of `core/run.py`, one action for each statement between two
commits. A run is one call of `dispatch_next` or `dispatch_fix`; its `pc` is where
its thread stands:

| action | code |
|---|---|
| Resolve, ReserveFails, Claim, Anchor, RecordStart | resolve_next, worktree.reserve, `UPDATE tasks … in_progress`, record_start |
| SetupRaises, PreflightFails, Spawn, RecordPid | the part before and after the guard's `try`, Popen, on_spawn |
| ChildWrites, ChildExits, Timeout, Parse | the worker and its stream, DISPATCH_TIMEOUT, parse_headless_result |
| RecordFinish, CommitWorktree, TaskDone, OnFailure | record_finish, on_success (commit, then the guarded close), on_failure |
| Raise, Reraise, and the marker steps | the guard: `except BaseException`, mark_job_orphan, re-raise |
| the Abort steps, Stop, Boot steps | request_abort (sentinel, list, TERM, KILL, marking), process stop, reconcile_orphans |

`mark_job_orphan` is two steps, the read of row and log (`view`) and the guarded
updates, and is shared by its three callers (`Markers`). `log` keeps of the
streamed transcript what the parsers tell apart: nothing conclusive, the
interruption marker, a result event, a rejection. `committed` says whose work is
on the branch. *TaskBoard* is what the resolver relies on: a task is taken from
`todo`, then closed or given back, and stays closed; `BoardSpec` instantiates it
with `status <- task`.

Nothing in dispatch_next, dispatch_fix or `worktree.reserve` excludes a second call
on a feature: `reserve` hands the same worktree to whoever asks. Who calls is
therefore the environment's, in one operator (`Calls`): the runs of `Loop` are those
of one caller that waits for its report before it calls again on that feature
(run_project's `in_flight`, run_feature's sequence), all others come at any time,
also between another run's resolution and its claim. `MaxRuns` bounds how many are
started.

### GateDecision, Gate

*GateDecision* is `compose_merge_decision` with `evaluate_gate`'s arguments and
the freshness tests of the three verdict kinds, as operators over one record of
inputs (GO, overrides, tier verdicts, what the diff touches). *Gate* gives the
inputs a life: a new head ages every verdict, toolchain, review and rendering
write new ones, a human asks with any overrides.

### Tiers

The two deterministic tiers on one feature. A commit's tree is its files (place
and suffix), the gates and declared steps that would prove them, which of those
pass, and a rendering contract with what the page shows at rest and after a
gesture. A runner (the loop, the route, the command) reads the branch, then the
worktree group by group while a worker may write it; the verdict names the head
read first. The ghost `true` says whether every look saw the head's tree: the
tiers are judged on the verdicts for which it holds, Refix_dirty shows the other
case. One step of a tier is atomic on the worktree, and whether its dependencies
are installed is an input.

### Refix

`dispatch_refix` and the finalisation it shares with drains, over a worktree and
a branch. Content is a number (`MaxContents` of them), of which a set is clean to
the reviewer and a set passes the toolchain; a head is the content committed. The
worker edits the worktree and then commits or fails, which leaves its edits; the
toolchain runs on the worktree's content and names the head read before; the
reviewer holds the head it read until it writes. Requests overlap as the routes'
thread pool lets them.

### Merge

`run_merge` from the evaluated gate to the closed feature, with every git command
and every write a step: gate, realignment, test and move of dev, test and move of
main, release, deletion of the branch, outcome, closing. `merge_ff` is two steps,
because the code tests ancestry and then runs `branch -f`. A ref is the sequence
of its commits: `is_ancestor` is a prefix test, and the sequence stands for the
sha. Runs of workers, corrections, reviews and redrain (release, then reset) are
the actions that change a branch meanwhile; `Overlap` says whether they may.
`cleared` is the history of what a green review, or an override of a red one,
covered.

### Orchestrator

The drains of one project. A drain's local sets are `kept` (failed,
needs_interview, held_for_socle, rate_limited, interrupted: a feature is in one of
them at most), its futures are `run`, its place in the loop `pc`:

| action | code |
|---|---|
| Begin | reconcile_socle, the socle's status, clear_abort; run_feature's early return |
| Check, Assign, AssignOne | abort_requested; a pass of run_project; a pass of run_feature |
| Refuse, StartRun, FinishRun | _dispatch_one around dispatch_next, as a thread of the pool |
| Collect, CollectRaises, Raise | the loop over `done_set`, with the alerts; the exception of a future |
| Join, Finalize, End | the pool's exit and clear_abort; finalize_feature; dispositions and resolve |
| Interview, CloseSocle, AddTask, Merge, Refix, Abort, Kill | the other actors |

A run is two steps and a merge or a correction is one, since Dispatch, Merge and
Refix have their insides. Which of the ready features a pass submits is left open
where the code takes the priority's order, so the results hold for every order.
`last` and `cut` are history variables.

### Runtime

Worktrees, deployments and previews over one port registry. A request is one call
(`reserve`, `release`, `up`, `down`, `restart`, `status`, `preview`) whose `pc` says
between which read, write or compose command it stands; `Pick` and `Insert` are
the two halves of `ports.reserve`, with the unique constraints and the bounded
retry. Containers die (`Die`), `up` may exit 0 having built nothing, the daemon
stops (`Crash`). `alone` says that nobody else touched the service since the
request began, which is what a status can be judged by.

### Mirror

`reconcile` and `sync_tracking`: fetch, compare every branch, then push or
fast-forward each in turn, on what was compared, while features land, main
follows and others push. `merge_ff` (`git/internal.py:461–466`) asks whether one tip
is an ancestor of the other and then runs `branch -f`: two steps wherever it is
called, LandTest and LandMove or FollowTest and FollowMove in a merge, AskAncestor
and FastForward in a synchronisation, and the move goes to what its source is by
then. Between them others move the same branch. A tip is its history, a set of
commits, so ancestry is inclusion.

### Terminal

One registry key. A session holds a shell, a window of its output under an
absolute offset, and an event; a connection attaches (taking the place of the one
there by raising the epoch), relays with a pump and a receiver, and on leaving
detaches or closes. A step is what one task of the event loop runs between two
awaits. `Age` is the clock, `Reap` the reaper.

### Channel

Refreshers read the cache, fetch an announcement, verify it under the keys of the
edition that runs, write the one shared file through one shared temporary name,
and the poll notes a proposal, which the user defers, declines or accepts by the
sha he was shown. Editions are numbers in the published line; two of them share a
version, so an announcement can be replaced under the same name.

### Upgrade

The update cycle with a reboot possible between any two steps. A gesture is
accepted by the preflight (`Ask`), which leaves a plan; the applicator, outside
the service, goes through `begin`, `probe`, `stop`, `snapshot`, `swap` (apply) or
`aside`, `copy` (rollback), `maps`, `verify` and its automatic return
(`remaps`, `health`); `run[i]` is its journal (`impact`, `rc`, the snapshot and
the venvs it names). Snapshots and wheels are purged by the retention where the
code does it. `seen` is the data of the base at the stop.

### Migration

`create_schema` as it is opened by any process: tables, columns one `ALTER` at a
time, the three rebuilds (whose CHECKs a version guard decides on), the stamp.
Every statement commits by itself, so a stop, possible at any of them and whoever
else migrates, leaves a prefix, and a second opener reads in between. `narrowed` is
the history of the one thing a stop can spoil: a process that read the guard of v15
before another one widened the table writes its own over it, and is stopped before
its v16, with nobody left behind it to widen it again.

### Roadmap, Wiring, Project, Overlay, Tools

*Roadmap*: both graphs, `add` which takes any dependency, `set_deps` which
refuses unknown names and cycles, the classification of a row (a
cycle is a row every set closed under its dependencies comes back to), what a drain discovers, `check_roadmap`. *Wiring*: the key file
(`O_EXCL`, then the write), the encrypted store (read, modify, replace), the env
file and what the daemon has loaded of it, the credential of a project and the
secret of the co-installed server. *Project*: the two births of a project, row and
repository in opposite orders, `clone` cut or refused, deployments and mirror.
*Overlay*: `overlay_commit` (tree built from the tip, compare-and-swap of the ref,
resynchronisation of the worktree) beside commits that take no lock. *Tools*:
pip's unpacking and recording, links, network tools, the edition that changes
beneath, `check_tools` reading what pip recorded.

### Composition

The modules of the core share the roadmap's rows but are composed through what
one promises the other, to keep each within reach: Dispatch promises the task
board (`TaskBoard`), and the other modules treat a run as a claim and then a close
or a give-back; GateDecision is extended by Gate and Merge, which use its operators
for the decision; the outcome of a run in Orchestrator ranges over what Dispatch's
RecordFinish and Raise can end in.

*MCDaemon* and *Store* (with *MCStore* for its instance) put machines that share no
state in one run. They are
sums, not compositions: the constant-like variable `part` is chosen in the initial
state, only that machine steps, and the variables of the others stay at one value.
The state spaces add up. A property of such a run speaks of its own part and is
the module's, named there. *MCDaemon*: gate, channel, terminal, mirror, runtime.
*Store*: refix, merge with redrains, migration, roadmap, wiring, project,
overlay, tools, tiers.

## 3. Runs

Twelve runs; all pass but the four that show a disagreement between the code and
what it says of itself. Bounds are constants or definitions of the MC modules, so
that the cases they were chosen for are visible there.

| run | question | bounds, and why they suffice |
|---|---|---|
| Dispatch_crash | Do jobs stay final and true, does a closed task rest on work and reopen by a late run only, does the boot clear what it cannot probe and spare the living, under every fault but the abort and with calls that overlap? | one task; a daemon run, a CLI run (the only two hosts) and a fix, of which two are started, at any time: the second is the retry after a crash or the call beside the first |
| Dispatch_feature | When one drain makes the calls, is every claim held and ended, is the board implemented, does an abort settle what it lists? | two tasks in a chain, two runs and a fix of which two are started, one abort, failing spawns: the races are pairwise between one marker and one run |
| Refix_dirty | Does green speak of the head's toolchain? Violated | one request, failing workers |
| Merge_serial | Is finished work kept, does history only grow, does main follow, is only what landed closed? | two features with a task each and a correction each, crashes, conflicts, failing runs, redrains; two features are what a realignment needs. Overrides are in Store's merge |
| Merge_toctou | Does only cleared work land while workers run? Violated | as Merge_serial, without faults; runs and merges of a feature overlap |
| Orchestrator_socle | Is nothing worked on too early, does the badge tell the truth? | a socle and two features, the second wanting the first; two drains, of the project or of one feature |
| Orchestrator_drain | Does a drain drain, end, tell what it did not, and leave alone what was killed? | one drain at a time, two features, a chain of two tasks: the case of a pass that submits nothing while work is about to become ready; rate limits, interruptions, git failures, exceptions, an abort |
| Daemon, gate | Is a merge allowed exactly when every tier holds, does a new head stop it? | complete: the record has finitely many values |
| Daemon, channel | Is only what was consented applied, do offers go forward? | three editions of which two share a version, a rotation of keys, the poll and the CLI, two rounds |
| Daemon, terminal | Is there one reachable shell, does output arrive, is what is left released? | two connections, two shells, a window of one output that slides over the second |
| Daemon, mirror | Where can a commit be dropped, and which, does a quiet synchronisation converge? | four commits (both sides ahead, and one more during), a merge and two synchronisations crossing, project and tool, a branch that is missing on either side or checked out |
| Daemon, runtime | Are ports held once and as long as needed, is a status what the containers are? | two features, a deployed branch, two requests at a time, three operations; two worktree ports (one per feature, so that a leak exhausts them), three deployment ports of which one is taken by somebody else |
| Upgrade | Is nothing lost, does the service come back on a base it reads, is the verdict true, does the way back go back? | editions w0 and w1 read schema 1, w2 reads 2; three gestures (apply, apply or rollback, and one more on what they left), one failure at any of ten places, reboots, two snapshots kept (one less than the code, so that three gestures already purge) and one wheel, one write |
| Upgrade_forward | Does a rollback without a named snapshot always go back? Violated | three gestures that succeed, one edition, the three snapshots of `KEEP_SNAPSHOTS`; two applies and a rollback are what it takes |
| Store, refix | How far may passes exceed the bound, is green reviewed? | two requests with crashes, failures and three contents: two suffice for a stale verdict, the third lets the head move on |
| Store, merge | Does anything of an earlier drain clear a later one? | one feature, two tasks run twice, crashes, overrides: the second run is the one that could be cleared by the first's verdict |
| Store, tiers | Is anything of a green head unproved? | three trees: a web and Go feature with declared steps and a gesture; one a root unit covers twice whose gesture proves nothing; one with a malformed declaration and a leaking service. Two commits, two runs of a tier, loop and route |
| Store, migration | Is a settled base whole, wherever two migrations are cut? | bases of versions 0, 1, 7, 14, 15, 18, 19, 21 and 22 (before and after each rebuild, and too new), two openers, three openings |
| Store, roadmap | Does an operational roadmap drain, does an edit close a cycle? | two features with two tasks and one: cycles of one and two, in either graph, and a dependency on what does not exist |
| Store, wiring | Does what was stored open, is the token accepted? | the daemon and one command, three secrets: install, wire, and one again |
| Store, project | Has a row its repository, is a project at rest whole? | a route and a command, forges with dev and main, master, or nothing |
| Store, overlay | Does a scaffold lose work, does it stay? | two reseeds, an upload, a worker, three writes |
| Store, tools | Is there a false green, does what resolved still resolve? | one map, one network tool, an install and an update, two editions, initial distributions of every provenance |
| Migrate_v7 | Is a migrated base what a new one is? Violated | one opening of a base of every version |

Daemon visits 331,259 distinct states, Store 1,522,541, Dispatch_crash 1,585,981,
Dispatch_feature 394,247, Upgrade 870,766,
Orchestrator_drain 452,280, Orchestrator_socle 152,430, Merge_serial 813,168.

**Sums.** OffersAreHonest, ShellIsHeld, SessionLives, SyncIsSound and
DeploymentsAreSound (Daemon), and MigrationIsSafe, RoadmapIsSound, WiringHolds,
ProjectIsSound, ScaffoldIsLaid, ToolsAreHonest and TiersAreEarned (Store) are one
statement per part: the type invariant of the part and the properties its module
states (ConsentIsInformed, OffersGoForward; NothingIsDropped, SyncConverges;
PortsAreKept, StatusIsHonest; and the `…Step` operators).

**What is kept on a condition.** The runs state the conditions under which the
code keeps a property; several are conditions the code does not enforce. The
table says which, with the change of a constant under which TLC finds the property
broken:

| property | kept while | broken by | to see it |
|---|---|---|---|
| BoardSpec, last part: a closed task stays closed | one drain makes the calls of dispatch_next | two drains: one resolved the task before the other closed it. ReopenedByALateRun says what holds then | Dispatch_feature with `Loop = {x1}` |
| InProgressIsHeld | commits succeed | a commit that raises after record_finish | Dispatch_feature with `"commit"` among `Faults` |
| GreenIsSound | one request runs at a time and no worker fails | edits a failed fix leaves in the worktree | Refix_dirty |
| HistoryIsKept | there is one merge at a time | two merges of sibling features between the test and the move of dev | Merge_serial with `Overlap = TRUE` and `Mergers = {m1, m2}` |
| LandedIsCleared | no run overlaps a merge | a commit during the merge | Merge_toctou |
| DoneWorkIsKept | no run overlaps a merge | a task that runs during the merge is closed as landed | Merge_serial with `Overlap = TRUE` |
| NoSilentBlock | there is one drain at a time, and no task is added to a green feature | one added and running at the merge leaves its alert on a merged feature | Orchestrator_drain with `Later = {tb2}` |
| KilledStaysDown | there is one drain of the project | two drains and one sentinel | Orchestrator_drain with `Drains = {d1, d2}` |
| DependenciesFirst | no task is added later to a feature that another one wants | a drain of one feature starts a merged feature again while a drain of the project submits the feature that wants it | Orchestrator_socle with a task of a wanted feature in `Later` |
| ServesWhenSettled, VerdictIsTrue, NothingIsLost | one client asks for gestures at a time | two that both pass the preflight before either launches: two applicators on one link and one base | Upgrade with a second member of `Clients` |
| WayBack, second part | no more than three snapshots are kept, as KEEP_SNAPSHOTS has it | with four, the snapshot of an apply outlives two rollbacks and the second returns to what the first left | Upgrade with `Keep = 4`, `MaxRuns = 5`, no faults, one stage |
| OffersAreHonest | no note falls between a decision's check and its update | a re-publication there: the answer covers bytes it was not given for | Daemon with `Overlap = TRUE` |
| WiringHolds | secrets are written by one process at a time | two read-modify-writes of the store file | Store with `Overlap <- TRUE` in `Wi` |
| ProjectIsSound | a seeding and an adoption of one slug do not overlap | the adopter that loses the row removes the winner's repository | Store with `Mixed <- TRUE` in `Pr` |
| MigrationIsSafe | it exempts one column of bases before the rename | the v8 rebuild forgets `projects.interview_session_ids` | Migrate_v7 |
| | and one CHECK where `narrowed` | the stop described under Migration | Store with `narrow` of `Whole` at `{}` in MigrationStep |
| SyncIsSound (NothingIsDropped) | a local branch may lose commits where two movers cross (`Crossed`) | merge_ff has no compare-and-swap: what reached `dev` between a test and its move is gone, what `dev` held at the test is not | Daemon without `Crossed(b)` |
| ScaffoldIsLaid | nothing crosses the ref's move and the worktree's, and nothing is cut there | a commit in between takes the scaffold back out | `raced` and `cut` in Overlay |

NoSilentBlock also exempts a drain a rate limit or an abort cut short (`cut`): the
reports of the runs still going are joined and never collected, so their blocks
have no alert. PassesAreBounded says precisely what concurrency costs: refix counts
the passes before it records its own, so each overlapping request may add one.
DoneWorkIsKept exempts a feature whose redrain was cut between the release of its
worktree and the reset of its tasks: they stay done, and the next run recreates
the branch from dev without their commits. WayBack says of two
rollbacks in a row only that the second does not return to what the first left, and
exempts histories in which a gesture failed: an apply that fails after its snapshot
leaves one that a later rollback takes for a way back (four gestures show it). That
the target of a rollback need not lie back at all is Upgrade_forward. With three
snapshots or fewer the second part is proved, for any number of gestures.
ServesWhenSettled and
ServiceReturns except a run whose verdict was lost (a reboot, an exception out of the applicator)
and a downgrade that could neither be verified nor undone (`Clean`).

**Other disagreements**, met while modelling and without a run of their own:

- `gate/verify.py:178–192` says an empty list of markers "reste fail-closed en aval
  via `build_verdict`". build_verdict asks for one target at least and for all to be
  ok, and the render check answers ok when there is nothing to look for: a missing or
  broken `verify-markers.json` gives a green Tier 1.5. Two verifications of one
  feature share its preview: the first to end tears it down, and a leaked authority
  is then not seen, since check_served_authority passes what it cannot reach.
- A preview whose `ps` fails stays up with its port released; a pool without a
  free port escapes from deploy and leaves the row at `building`; a redeploy whose
  build failed is recorded running when the old containers still are; restart does
  not probe.
- `terminal/registry.py:205` says of the reaper "Ne touche JAMAIS une session attachée".
  serve_project_terminal detaches on any disconnect whose pump has not answered
  `replaced` yet (`terminal/pty.py:141`): a replaced client whose socket closes before
  its pump runs marks as left the session the newer client is attached to, and the
  reaper closes it after the TTL.
- The update's preflight looks for a dispatch in progress, minutes before the stop.
  `update.py:219-229` wants, instead of a window of a second, "un refus qui LIT
  L'ÉTAT": it is read in the preflight, and the launch writes the run's directory
  later without reading again, so two requests, or a request and the command, that
  race through both launch two applicators. After a
  reboot between snapshot and swap, a rollback to a venv that was never verified is
  accepted. An OSError at the swap leaves the service stopped with rc 2. A restore
  that fails midway is told as "comme avant le geste" while the base is aside.
- A refresher that started earlier overwrites a newer success of the channel's cache.
- `dispatch/worktree.py:2` calls a worktree "**le mutex** d'une feature (1 worker à la
  fois)". reserve gives an existing worktree to any caller and neither dispatch_next nor
  dispatch_fix looks whether a run of the feature is under way: two calls that overlap
  put two workers in one worktree. A drain keeps to one by its `in_flight`; two drains,
  a drain and the command line, or a drain and a fix do not.
- `merge_ff` (`git/internal.py:461–466`) forces the branch without saying from what: a
  feature that lands between the test and the move of a synchronisation is taken back
  off `dev`, and so is what a synchronisation brings between those of a merge.
- A stale version guard re-narrows jobs.status after another process stamped 21
  (`db/schema.py:378–394`), and a stop before that process reaches its own v16 leaves
  it so: the base says 21 and refuses `interrupted`; two concurrent ALTERs raise a
  duplicate column; the rebuilds of v15 and v16 drop
  `ix_jobs_task`, which comes back only with the next version.
- A feature row that is merged or active escapes set_deps' validation.
- A stop between the creation and the write of the secrets' key leaves an empty key
  for good.
- A seeding cut after its INSERT leaves a row without a repository; a cut adoption
  leaves a directory that refuses a retry and that a later seeding takes as its own;
  a project created with a source and a mirror never gets the remote; merge_writeback
  pushes to `origin` although `docs/schema-contract.md:13` gives an adopted tool no
  destination.
- A reseed cut between the ref and the worktree is never resynchronised (the second
  one is a no-op), and the worker's next commit takes the scaffold back out.
- A pip that outlives the timeout of `repose_maps` goes on installing beside the next.

**Fairness.** Dispatch_feature: weak fairness of each run's thread (a thread that is
not blocked by others), of a worker's end or its timeout together (the code kills
it at DISPATCH_TIMEOUT), of the markers and the abort's steps, and of a boot that
has begun; none of faults, aborts or crashes. Orchestrator_drain: weak fairness of
each drain's loop and of each thread of its pool, which ends by the same timeout;
none of merges, interviews, aborts or new drains. Daemon: weak fairness of each
connection's tasks and of the end of a closed shell's reader (the event loop
schedules what is ready), of the clock and of the reaper's loop; none of what a
client or a shell does. Upgrade: weak fairness of each applicator, a process of its
own; none of reboots, failures or gestures.

**Deadlock** is checked in Refix_dirty, Orchestrator_socle and Orchestrator_drain.
Elsewhere the systems may stop because what is used up is bounded: each run of
Dispatch is one call, a connection is used once, and commits, rounds, gestures,
openings, requests and tries are counted.

## 4. Proofs

TLAPS proves the theorems below for every value of the constants, under the
assumptions named in the modules (`DispatchAssumption`, `RefixAssumption`,
`OrchestratorAssumption`, `UpgradeAssumption` and the others: functions have their
domains, bounds are naturals, the null value is none of the others; a roadmap has
finitely many features, and a task depends on tasks of its own feature, since
`depends_on` holds slugs, `roadmap/model.py:126`). A condition
that a theorem adds is given with it: one of "kept while" above, or a fault the run
of that property leaves out as well.

| theorem | property | condition |
|---|---|---|
| DispatchProofs: TypeCorrect, DoneTasksHaveWork, DoneJobsAreProved, RunningJobsAreKept, FinalJobsFrozen | TypeOK, DoneHasWork, DoneIsProved, RunningHasKeeper, FinalJobsAreFrozen | |
| LateRunsReopen | ReopenedByALateRun | |
| ClaimsAreHeld | InProgressIsHeld | no crash, no failed commit or write |
| BoardImplemented | BoardSpec | one drain makes the calls of dispatch_next (fixes come any time) |
| BootsSettle, AbortsSettle | BootSettles; the safety half of AbortReleases | |
| DaemonProofs: GateTypeCorrect, AllowIsAuthority, NewHeadStops, RefixIsForRed, TierNamed | TypeOK, AllowIsCumulative, NewHeadHolds and two more | |
| StoreProofs: RefixTypeCorrect, GreenReviewed, PassesBounded | TypeOK, GreenIsReviewed, PassesAreBounded | |
| TiersAreEarnedHolds, MigrationHolds, RoadmapIsSoundHolds | TiersAreEarned, MigrationIsSafe, RoadmapIsSound | |
| LandedIsClearedHolds | LandedIsCleared, with redrains and overrides | no run overlaps a merge |
| InstallProofs: ProjectIsBornSound, ScaffoldLaidHolds, ToolsAreHonestHolds | ProjectIsSound, ScaffoldIsLaid, ToolsAreHonest | as "kept while" has it |
| WiringIsHeld | WiringHolds | secrets are written by one process at a time |
| OrchestratorProofs: SocleFirstHolds | SocleFirst | the socle's tasks are interviews, as they are seeded |
| DependenciesFirstHolds | DependenciesFirst | the same, and no task is added later to a feature another one wants |
| GateAlertHolds | GateAlert | |
| KilledStaysDownHolds | KilledStaysDown | one drain |
| NoSilentBlockHolds | NoSilentBlock | one drain, no task is added, the socle's tasks are interviews |
| MergeProofs: LandedIsClearedHolds | LandedIsCleared | no run overlaps a merge |
| HistoryIsKeptHolds, DoneWorkIsKeptHolds | HistoryIsKept, DoneWorkIsKept | the same, and one merge at a time |
| MirrorProofs: MirrorDropsNothing, MirrorEndsEqual | NothingIsDropped, SyncConverges | |
| DaemonProofs: DeploymentsAreSoundHolds, ShellIsHeldHolds, SyncIsSoundHolds | the same, of MCDaemon's sum | |
| OffersAreHonestHolds | OffersAreHonest | no note falls inside a decision |
| UpgradeProofs: ServesWhenSettledHolds, VerdictIsTrueHolds, NothingIsLostHolds | the same | one client at a time |
| WayBackHolds | WayBack | the same, and three snapshots kept at most (`KEEP_SNAPSHOTS`) |

The arguments, and why an invariant had to be strengthened:

- **DispatchProofs.** That a job's verdict is what its log says depends on what a
  marker read some steps before its update. `IInv` adds what a program counter says
  of the job row (NoJobYet), that a view in use still agrees with the log
  (ViewIsLogged: a terminal log does not change), that a parsed result is in the log
  (ParsedIsLogged) and that a run about to close its task has committed
  (CommitPrecedesClose). One lemma per conjunct, one step per action; what the
  finalising writers share is one lemma each (FinishWrites, OrphanWrites,
  KillWrites). LateRunsReopen adds that a closed task was closed by a run that has
  ended well (ClosedByARun) and that a run about to fail or to claim is not that one,
  for all that an abort, a boot or an exception gives back is a task in progress
  (CommittedIsDone); ClaimsAreHeld, that a claimed task has a holder on its way
  (ClaimIsHeld) which no correction can be (FixesDoNotClaim). BoardImplemented maps
  each step of the run, the abort and the boot to a step of TaskBoard or a stutter,
  from OnBoard: whoever is about to give back or close holds a task in progress, which
  needs that two runs of one drain do not overlap on a feature (OneRunPerFeature). The
  boot's and the abort's theorems follow one job from the list to its marking
  (BootHasZombies, BootProbed, AbortHasTargets, and PidIsLate: a process whose pid
  is recorded is not spawned again).
- **DaemonProofs, gate.** The decision is a function of the input, so the argument is by
  cases over the tiers; GreenIsNoBlocker connects the chain of blockers with the
  colour.
- **StoreProofs, refix.** A verdict says of the content it names what a reviewer finds
  there, however the requests overlap, because a reviewer writes the head it was
  started on. A request that has counted but not recorded adds at most one pass, so
  passes plus the requests counted stay within MAX_FIX_PASSES plus the requests less
  one (PassesAreCounted, over the cardinality of the set of counted requests).
- **OrchestratorProofs.** SocleFirst: a drain that found the gate open is right for
  ever (SocleStaysMerged: no worker is ever started on the socle), one that found it
  closed is a drain of the project or of the socle, and nothing of a work feature is
  submitted before the socle is merged. DependenciesFirst: a wanted feature that is
  merged stays so because it is full, every one of its tasks done, and a full
  feature is never taken up (FixedIsFull, WorkIsTaken, WorkIsOwned). GateAlert:
  the alert of the current verdict (AlertTells) under every writer of alerts, none of
  which writes a red gate's but Settle. KilledStaysDown: what was cut has answered or
  is kept out (CutIsDown), which needs that an idle drain has nothing in flight.
  NoSilentBlock: what is true when a drain leaves its loop is what was true of every
  feature all along. A collected report is a success, or was kept out with its alert
  standing or its feature merged (ReportIsKept); what is kept out is not run again
  (KeptIsNotRun), so that its report is still the last (AnswerIsLast); a success is
  followed by no verdict and no merge while the drain goes on (OkIsOpen), since only
  the end of a drain judges and only what was judged merges (ClosedIsIdle), and by a
  pass that would submit what is ready (LoopEnds: a drain goes to `join` because of an
  abort, a rate limit, or because nothing is left to submit). At the end, a feature
  whose alert would be resolved was listed as drained, when all its tasks were done,
  and with no task added they still are (DrainedIsFull). That the socle comes first is
  needed once more: a success outside it is no longer held by it (WorkFollowsSocle).
- **MergeProofs.** Refs are sequences of commits, and a rebase is dev followed by
  the commits dev does not hold, a recursive function of the branch. What it holds
  is proved in the module for every sequence (AheadDefined), by an induction
  that the provers accept because it is over a set of numbers: LeastNatural, from the
  well-foundedness of strict inclusion of finite sets, and SetInduction.
  LandedIsCleared: a stored verdict covers what its head added to dev when it was
  given, and a merge that is under way covers what it is about to land (VerdictCovers,
  MergeCovers), because nothing else writes a branch that is being merged (Quiet).
  HistoryIsKept: the head a merge holds stays the branch's (HeadStays) and what the
  stages have moved is where their order says (Landing). DoneWorkIsKept: a finished
  task's commits are on dev or on a branch that will not be recreated (WorkIsSafe).
- **MirrorProofs.** `MirrorInv`: what was found an ancestor still is one of what
  the branch will be moved to, since what is tracked only grows and a feature's branch
  stays (TestsHold). So a move drops a commit only if its branch, or the `dev` that main
  follows, is no longer what was tested (`Crossed`), and whoever moves `dev` leaves
  there what he tested. What is known of the remote is behind it (TrackIsBehind), and pushes
  lose nothing because the remote refuses. SyncConverges: while
  nobody else has moved what a synchronisation works on is what it compared
  (WorksOnWhatIs).
- **DaemonProofs** proves the sum the run checks: a lemma says what a step of one
  part leaves of the others. DeploymentsAreSound: what a request holds is in the
  registry, in the row or on disk according to its `pc` (Programs, PortsHeld, OnDisk,
  OwnPort), and what it saw of the containers is still so if nobody else touched the
  service (Seen). ShellIsHeld: only the session of the registry has a shell (Shut), a
  connection that serves has that session at its epoch (Attached). OffersAreHonest:
  all that a cache, a temporary file or a refresher carries was signed (Remembered),
  and an answer is about the bytes of its row (Answered, CheckedIsCurrent).
- **UpgradeProofs.** `UInv` says what is on the disk at every step of the run at work
  (Work), from its place in the procedure: before the swap the old venv, base and
  link; between, which copies are complete; after, what a return would put back. At
  rest (AtRest) the service, the link and the base agree. Every past run is described
  by its journal entry (Entry), every accepted plan was made on what is still there
  (Asks), one run at most is at work (Alone), every write made is in the base or set
  aside (NoWriteLost) and the last verdict is the disk's (Told). It is proved once
  per step of the procedure; Worked says what a step of the run at work leaves alone.
  Alone is where the condition enters, and the only place. The greatest and the least
  member of a set of numbers, which snapshots and runs are chosen by, have lemmas of
  their own (Greatest, Least).
  WayBack needs the history as well. Snapshots are numbered in the order of
  the runs that took them (Numbered); a base that is about to be copied is of the
  schema its edition reads (Matching), and the venv an apply replaced is not purged
  while only rollbacks follow (Pairs): that is its first part. For the second, a run
  starts where the successful one before it led (Chained), what a verdict names as a
  target is the snapshot of an apply (Fits), and a rollback is refused a target that
  its own safety snapshot would purge; the snapshots kept are the last ones (Window),
  so with three of them the target is at most one behind the snapshot of the run
  before (Aims). That run being a rollback, the target is the snapshot of the apply
  before it, whose venv is the one this apply replaced, and the first rollback left
  another: the one this apply installed.
- **StoreProofs, roadmap.** Of the rows that are not done, one waits for none of the
  others, or they would hold a cycle: strict inclusion of finite sets is well founded
  (Minimal), and to be on a cycle is to be in every set closed under dependencies
  that holds the row's own (OffCycle), so no path has to be followed. An edit is
  accepted only if its row is off every cycle, and then any cycle was there before.
- **StoreProofs, tiers.** A tier looks at one group at a time: `Tiered` says of a
  runner which steps it has played and, while nothing crossed it (`true`), that they
  passed on the tree of the head (Within, HeadAndTail and EndToEnd are about the
  sequences of steps). A verdict then carries what the last look knew.
- **StoreProofs, migration.** What a process at work has made sure of is what the
  statements it is past have committed (Reached), whoever migrates beside it. A CHECK
  that one narrows again is owed by it (Owes), and if it is stopped there, either
  somebody behind it still widens the table or `narrowed` records it; so a base of this
  version, at rest, is whole but for that. **Merge** is MergeProofs' theorem, with the redrains, carried over by the
  equality of the two instances' helpers (SameHelpers).
- **InstallProofs.** Wiring: every reference handed out opens one secret and one only
  (Kept), and the two ends hold the one the reference opens but while a process that
  will write the other is at work (Wired). Project: of several creators at most one is
  past the step that decides, the INSERT of one path and the `mkdir` of the other
  (Births), and what it left so far is given by its place (Stage). Overlay: the tree a
  reseed carries is the scaffold over what the tip still is, if its commits are still
  those the tree was built from (Carried), which the compare-and-swap asks again.
  Tools: what an installation that is alone has posed and exposed (Posed), and the one
  link that it owes while it replaces it (Owed).

Not proved, only model-checked: the four liveness properties (AbortReleases,
Terminates, SessionLives, ServiceReturns), since liveness under fairness is out of
the prover's reach. Every invariant and every action property of a passing run has a
theorem. Induction over data is proved where what recurs is a function and the
induction can be put as a set of numbers; the library's induction theorems cannot be
used.

What a condition leaves out is not proved either way. NoSilentBlockHolds is about one
drain at a time and a roadmap that does not grow under it, as its run is; where tasks
are added the property is broken in one way (the table above), and whether it is in
others is not known.

## 5. What the models leave out

- Not modelled: the verdict history and the advisory judge (never block), the
  transcript's streaming and its cost, a project's authority, bundles and facets,
  authentication, the catalog client, the code and design indexes, host checks, the
  command line and the web interface. They keep no state another part relies on, or
  only read, template and encode.
- Dispatch: prompts, cost accounting, the spin detector's heuristics, facets and
  tool checks beyond "the preflight fails". Cancelled tasks and features;
  acknowledging an alert; the resolution of alerts by redrain.
- Merge: the mirror push (Mirror has it), the toolchain and rendering tiers (clean
  there; GateDecision and Tiers have them), empty diffs, merges of a feature whose
  branch holds foreign commits. Histories are linear.
- Orchestrator: several projects (nothing is shared but the database), the order of
  priorities, the reservation and commit inside reconcile_socle (one step), overrides
  at the merge.
- Mirror: merge_writeback's order of remotes; two merges at a time (Merge has them).
- Runtime: compose files, logs, names. Realignment of worktrees is in Merge.
- Upgrade: the download of a wheel, the wording of journal and progress; uncommitted
  work, the systemd unit, a dispatch in progress and live shells, which refuse or
  inform at the preflight only; the flag that opens a base of an unknown schema.
- Channel: a signature is a key and whether it verifies. Wiring: the BWS backend,
  the probes, JWT's encoding.
- Terminal: resizing, and what login and flow sessions run.
- Tiers: the browser, selectors and timeouts of the render check.
- Writes of one SQL statement are atomic and `sqlite3.Error` on the alert writes,
  which the code swallows, is left out.

## 6. Plan

Written first, because everything else relies on it: dispatch (Dispatch with
TaskBoard), then what decides about its results (GateDecision, Gate, Refix, Merge),
then what drives them (Orchestrator), then what they stand on (Runtime, Mirror,
Tiers, Terminal, Roadmap, Migration) and what installs and renews it (Project,
Overlay, Wiring, Tools, Channel, Upgrade). The proofs followed the same order. Next:

1. **Orchestrator**: NoSilentBlock when tasks are added meanwhile. The one violation
   known is a merge over a task that runs; with that merge excluded the invariant would
   have to say which additions a pass has still to see.
2. **Dispatch**: the condition of ClaimsAreHeld split by fault, so that a crash is
   covered by "until the next boot".
3. **Upgrade**: two clients. Only Alone is lost, and all else rests on it; what remains
   true when two applicators run would be properties of their own.
