------------------------------ MODULE Dispatch ------------------------------
(***************************************************************************)
(* The dispatch core of forgemaster: a run (one call of dispatch_next or   *)
(* dispatch_fix) claims a READY task, journals a job, spawns a headless    *)
(* worker, waits for it, finalises the job and closes or releases the      *)
(* task.  Three other actors write the same rows: a human abort, the       *)
(* daemon's boot reconciliation, and the finalisation guard that a run     *)
(* enters when an exception escapes.  They all go through                  *)
(* reconcile.mark_job_orphan, whose read and writes are separate steps.    *)
(*                                                                         *)
(* Every SQL statement between two commits is one step.  Outside this      *)
(* module: worktree and port reservation, git history (Merge), and the run *)
(* loop that calls dispatch_next (Orchestrator).                           *)
(***************************************************************************)
EXTENDS Naturals, FiniteSets

CONSTANTS
  Tasks,        \* the tasks of one project
  Features,     \* its features
  FeatureOf,    \* feature of each task
  DepsOf,       \* intra-feature dependencies of each task
  Interactive,  \* tasks whose mode is 'interactive'
  Runs,         \* dispatch invocations, each used once (bounds the model)
  FixRuns,      \* those that are dispatch_fix calls, the others dispatch_next
  CliRuns,      \* those hosted by a CLI process, the others by the daemon
  Faults,       \* the faults of the environment this instance admits
  MaxRuns,      \* bound on the number of runs that are started
  MaxAborts,    \* bound on the number of human aborts
  Loop,         \* those of one caller that waits, the others come any time
  None          \* no run, no task

FaultKinds == {"abort", "sigterm", "crash", "survive", "setup", "spawn",
               "raise", "commit", "write"}

ASSUME DispatchAssumption ==
  /\ FeatureOf \in [Tasks -> Features]
  /\ DepsOf \in [Tasks -> SUBSET Tasks]
  /\ Interactive \subseteq Tasks
  /\ FixRuns \subseteq Runs
  /\ CliRuns \subseteq Runs
  /\ Faults \subseteq FaultKinds
  /\ MaxRuns \in Nat /\ MaxAborts \in Nat
  /\ Loop \subseteq Runs
  /\ None \notin Tasks
  /\ None \notin Runs
  /\ "abort" \notin Runs
  /\ "boot" \notin Runs

VARIABLES
  task,       \* tasks.status
  job,        \* dispatch_jobs.status of each run, "none" before record_start
  pid,        \* whether dispatch_jobs.pid is set
  blamed,     \* jobs whose error is 'aborted by human'
  pc,         \* where the thread of each run stands
  runTask,    \* the task a run claimed, or the anchor of a fix
  parsed,     \* the run's parsed result, "none" before parse_headless_result
  child,      \* the worker process of each run
  log,        \* what the streamed log of each run says
  committed,  \* tasks whose work was committed on the feature branch
  pending,    \* jobs each marker still has to pass to mark_job_orphan
  view,       \* what a marker read in the mark_job_orphan it is executing
  stage,      \* where request_abort stands
  aborts,     \* how many aborts were requested
  targets,    \* the jobs request_abort listed
  groups,     \* those that had a pid when listed: the groups it can signal
  sentinel,   \* whether home/abort/<project> exists
  daemonUp,   \* whether the daemon process runs
  bootPids    \* the jobs that had a pid when the boot listed them

dbVars    == <<task, job, pid, blamed>>
runVars   == <<pc, runTask, parsed>>
procVars  == <<child, log>>
markVars  == <<pending, view>>
abortVars == <<stage, aborts, targets, groups, sentinel>>
hostVars  == <<daemonUp, bootPids>>
vars == <<dbVars, runVars, procVars, committed, markVars, abortVars, hostVars>>

TaskStatus  == {"todo", "in_progress", "done", "blocked", "cancelled"}
FinalStatus == {"done", "failed", "killed", "rate_limited", "interrupted"}
JobStatus   == {"none", "running"} \cup FinalStatus
ParsedState == {"none", "done", "failed", "rate_limited", "interrupted"}
Pc == {"idle", "resolved", "claimed", "anchored", "recorded", "spawned",
       "waiting", "parsed", "finished", "committed", "raised", "ended",
       "dropped", "crashed"}

\* What the log holds: no verdict yet, a clean or failed result event, a
\* rejected rate_limit event with its result, the interruption marker alone,
\* or the marker followed by a result event.
TerminalLogs == {"ok", "error", "rejected", "markerresult"}
Logs         == TerminalLogs \cup {"partial", "marker"}
Children     == {"none", "alive", "exit0", "exit1"}
Stages       == {"idle", "touched", "listed", "termed", "marking"}

\* A marker is an actor that calls mark_job_orphan: a run for its own job,
\* request_abort and the boot reconciliation for a list of jobs.
Markers == Runs \cup {"abort", "boot"}
NoView  == [run |-> None, log |-> "partial", step |-> "none"]
Views   == {NoView} \cup [run: Runs, log: Logs, step: {"read", "reset"}]

(***************************************************************************)
(* Reading                                                                 *)
(***************************************************************************)

Settled(t) == task[t] \in {"done", "cancelled"}
Ready(t)   == task[t] = "todo" /\ \A d \in DepsOf[t] : Settled(d)

HostUp(r) == r \in CliRuns \/ (daemonUp /\ pending["boot"] = {})
Active(r) == pc[r] \notin {"idle", "ended", "dropped", "crashed"}

\* Mutants of Verdict: a status the schema does not know; a result event that
\* reports an error taken for a success.
VerdictMutantStatus(l, rc0) == IF l = "ok" /\ rc0 THEN "done" ELSE "error"
VerdictMutantGreen(l, rc0) ==
  CASE l = "rejected"                   -> "rate_limited"
    [] l \in {"marker", "markerresult"} -> "interrupted"
    [] rc0                              -> "done"
    [] OTHER                            -> "failed"

\* The classification order of parse_headless_result: the rate-limit
\* rejection, then the interruption marker, then the exit code, then the
\* result event.
Verdict(l, rc0) ==
  CASE l = "rejected"                   -> "rate_limited"
    [] l \in {"marker", "markerresult"} -> "interrupted"
    [] l = "ok" /\ rc0                  -> "done"
    [] OTHER                            -> "failed"

Goto(r, from, to) == pc[r] = from /\ pc' = [pc EXCEPT ![r] = to]

(***************************************************************************)
(* A run of dispatch_next or dispatch_fix                                  *)
(***************************************************************************)

\* The resolver's answer: a READY task; an interactive one is refused.
Resolve(r, t) ==
  /\ r \notin FixRuns
  /\ HostUp(r)
  /\ Ready(t) /\ t \notin Interactive
  /\ Goto(r, "idle", "resolved")
  /\ runTask' = [runTask EXCEPT ![r] = t]
  /\ UNCHANGED <<dbVars, parsed, procVars, committed, markVars, abortVars,
                 hostVars>>

\* Who calls.  A drain starts a call when none of its own is under way on the
\* feature: run_project reserves it in in_flight before the submit, run_feature
\* calls in sequence, and whoever reads their report before asking for a fix
\* waits as they do.  dispatch_next and dispatch_fix exclude nobody, nor does
\* the worktree, which reserve hands to whoever asks.
InFlight(f) == \E r \in Loop : Active(r) /\ FeatureOf[runTask[r]] = f
Calls(r, t) ==
  /\ Cardinality({s \in Runs : pc[s] # "idle"}) < MaxRuns
  /\ r \in Loop => ~InFlight(FeatureOf[t])

\* worktree.reserve refuses (rebase conflict, port pool exhausted).
ReserveFails(r) ==
  /\ pc[r] \in {"resolved", "anchored"}
  /\ pc' = [pc EXCEPT ![r] = "ended"]
  /\ UNCHANGED <<dbVars, runTask, parsed, procVars, committed, markVars,
                 abortVars, hostVars>>

\* The claim carries no guard on the status it overwrites.
Claim(r) ==
  /\ Goto(r, "resolved", "claimed")
  /\ task' = [task EXCEPT ![runTask[r]] = "in_progress"]
  /\ UNCHANGED <<job, pid, blamed, runTask, parsed, procVars, committed,
                 markVars, abortVars, hostVars>>

\* A fix anchors on a done task of the feature if there is one.
Anchor(r, t) ==
  /\ r \in FixRuns
  /\ HostUp(r)
  /\ \A u \in Tasks : FeatureOf[u] = FeatureOf[t] /\ task[u] = "done"
                        => task[t] = "done"
  /\ Goto(r, "idle", "anchored")
  /\ runTask' = [runTask EXCEPT ![r] = t]
  /\ UNCHANGED <<dbVars, parsed, procVars, committed, markVars, abortVars,
                 hostVars>>

RecordStart(r) ==
  /\ pc[r] \in {"claimed", "anchored"}
  /\ pc' = [pc EXCEPT ![r] = "recorded"]
  /\ job' = [job EXCEPT ![r] = "running"]
  /\ UNCHANGED <<task, pid, blamed, runTask, parsed, procVars, committed,
                 markVars, abortVars, hostVars>>

\* inject_mcp_config and tools_env run before the finalisation guard.
SetupRaises(r) ==
  /\ "setup" \in Faults
  /\ Goto(r, "recorded", "dropped")
  /\ UNCHANGED <<dbVars, runTask, parsed, procVars, committed, markVars,
                 abortVars, hostVars>>

PreflightFails(r) ==
  /\ Goto(r, "recorded", "parsed")
  /\ parsed' = [parsed EXCEPT ![r] = "failed"]
  /\ UNCHANGED <<dbVars, runTask, procVars, committed, markVars, abortVars,
                 hostVars>>

Spawn(r) ==
  /\ Goto(r, "recorded", "spawned")
  /\ child' = [child EXCEPT ![r] = "alive"]
  /\ UNCHANGED <<dbVars, runTask, parsed, log, committed, markVars,
                 abortVars, hostVars>>

RecordPid(r) ==
  /\ Goto(r, "spawned", "waiting")
  /\ pid' = [pid EXCEPT ![r] = @ \/ job[r] = "running"]
  /\ UNCHANGED <<task, job, blamed, runTask, parsed, procVars, committed,
                 markVars, abortVars, hostVars>>

Parse(r) ==
  /\ child[r] \in {"exit0", "exit1"}
  /\ Goto(r, "waiting", "parsed")
  /\ parsed' = [parsed EXCEPT ![r] = Verdict(log[r], child[r] = "exit0")]
  /\ UNCHANGED <<dbVars, runTask, procVars, committed, markVars, abortVars,
                 hostVars>>

\* DISPATCH_TIMEOUT or the spin guard: the worker is killed and reaped.
Timeout(r) ==
  /\ child[r] = "alive"
  /\ Goto(r, "waiting", "parsed")
  /\ child' = [child EXCEPT ![r] = "exit1"]
  /\ parsed' = [parsed EXCEPT ![r] = "failed"]
  /\ UNCHANGED <<dbVars, runTask, log, committed, markVars, abortVars,
                 hostVars>>

\* record_finish: the sentinel turns an interruption into a human abort; the
\* row is written only while it is running.
HumanAbort(r) == parsed[r] = "interrupted" /\ sentinel
\* Mutant of RecordFinish: the WHERE status = 'running' is forgotten.
RecordFinishMutant(r) ==
  /\ Goto(r, "parsed", "finished")
  /\ job' = [job EXCEPT ![r] =
               IF HumanAbort(r) THEN "killed" ELSE parsed[r]]
  /\ blamed' = IF HumanAbort(r) THEN blamed \cup {r} ELSE blamed
  /\ UNCHANGED <<task, pid, runTask, parsed, procVars, committed, markVars,
                 abortVars, hostVars>>

RecordFinish(r) ==
  /\ Goto(r, "parsed", "finished")
  /\ IF job[r] = "running"
     THEN /\ job' = [job EXCEPT ![r] =
                       IF HumanAbort(r) THEN "killed" ELSE parsed[r]]
          /\ blamed' = IF HumanAbort(r) THEN blamed \cup {r} ELSE blamed
     ELSE UNCHANGED <<job, blamed>>
  /\ UNCHANGED <<task, pid, runTask, parsed, procVars, committed, markVars,
                 abortVars, hostVars>>

\* on_success, first half: the forge commits the worker's work.
CommitWorktree(r) ==
  /\ parsed[r] = "done"
  /\ pc[r] = "finished"
  /\ pc' = [pc EXCEPT ![r] = IF r \in FixRuns THEN "ended" ELSE "committed"]
  /\ committed' = IF r \in FixRuns THEN committed
                                   ELSE committed \cup {runTask[r]}
  /\ UNCHANGED <<dbVars, runTask, parsed, procVars, markVars, abortVars,
                 hostVars>>

\* Mutant of TaskDone: the closing write loses its guard.
TaskDoneMutant(r) ==
  /\ Goto(r, "committed", "ended")
  /\ task' = [task EXCEPT ![runTask[r]] = "done"]
  /\ UNCHANGED <<job, pid, blamed, runTask, parsed, procVars, committed,
                 markVars, abortVars, hostVars>>

\* on_success, second half: guarded by the status it leaves.
TaskDone(r) ==
  /\ Goto(r, "committed", "ended")
  /\ task' = [task EXCEPT ![runTask[r]] =
                IF @ = "in_progress" THEN "done" ELSE @]
  /\ UNCHANGED <<job, pid, blamed, runTask, parsed, procVars, committed,
                 markVars, abortVars, hostVars>>

\* on_failure: not guarded; a fix has no on_failure.
OnFailure(r) ==
  /\ parsed[r] # "done"
  /\ Goto(r, "finished", "ended")
  /\ task' = IF r \in FixRuns THEN task
                              ELSE [task EXCEPT ![runTask[r]] = "todo"]
  /\ UNCHANGED <<job, pid, blamed, runTask, parsed, procVars, committed,
                 markVars, abortVars, hostVars>>

\* Mutant of Raise: the guard re-raises without marking the job.
RaiseMutant(r) ==
  /\ \/ pc[r] = "recorded" /\ "spawn" \in Faults
     \/ pc[r] \in {"spawned", "waiting", "parsed"} /\ "raise" \in Faults
     \/ pc[r] = "finished" /\ parsed[r] = "done" /\ "commit" \in Faults
     \/ pc[r] = "finished" /\ parsed[r] # "done" /\ "write" \in Faults
     \/ pc[r] = "committed" /\ "write" \in Faults
  /\ pc' = [pc EXCEPT ![r] = "raised"]
  /\ UNCHANGED <<dbVars, runTask, parsed, procVars, committed, markVars,
                 abortVars, hostVars>>

\* An exception inside the finalisation guard: the spawn itself; the pid
\* write, a Ctrl-C or the write of record_finish, the worker possibly alive;
\* the decision doc or the commit of the worktree; the task's last write.
Raise(r) ==
  /\ \/ pc[r] = "recorded" /\ "spawn" \in Faults
     \/ pc[r] \in {"spawned", "waiting", "parsed"} /\ "raise" \in Faults
     \/ pc[r] = "finished" /\ parsed[r] = "done" /\ "commit" \in Faults
     \/ pc[r] = "finished" /\ parsed[r] # "done" /\ "write" \in Faults
     \/ pc[r] = "committed" /\ "write" \in Faults
  /\ pc' = [pc EXCEPT ![r] = "raised"]
  /\ pending' = [pending EXCEPT ![r] = {r}]
  /\ UNCHANGED <<dbVars, runTask, parsed, procVars, committed, view,
                 abortVars, hostVars>>

Reraise(r) ==
  /\ pending[r] = {}
  /\ Goto(r, "raised", "ended")
  /\ UNCHANGED <<dbVars, runTask, parsed, procVars, committed, markVars,
                 abortVars, hostVars>>

(***************************************************************************)
(* The worker process                                                      *)
(***************************************************************************)

\* The log is fed by the run's own pump thread.
ChildWrites(r) ==
  /\ child[r] = "alive" /\ pc[r] = "waiting" /\ log[r] = "partial"
  /\ \E l \in {"ok", "error", "rejected"} : log' = [log EXCEPT ![r] = l]
  /\ UNCHANGED <<dbVars, runVars, child, committed, markVars, abortVars,
                 hostVars>>

ChildExits(r) ==
  /\ child[r] = "alive"
  /\ \E c \in {"exit0", "exit1"} :
       /\ c = "exit0" => log[r] # "partial"
       /\ child' = [child EXCEPT ![r] = c]
  /\ UNCHANGED <<dbVars, runVars, log, committed, markVars, abortVars,
                 hostVars>>

\* What a worker stopped by a signal leaves in a log that had no verdict.
LastWords(r) == IF log[r] = "partial" /\ pc[r] = "waiting"
                THEN {"partial", "marker", "markerresult"} ELSE {log[r]}

\* A SIGTERM nobody in the forge sent: teardown, OOM, end of session.
Sigterm(r) ==
  /\ "sigterm" \in Faults
  /\ child[r] = "alive"
  /\ child' = [child EXCEPT ![r] = "exit1"]
  /\ \E l \in LastWords(r) : log' = [log EXCEPT ![r] = l]
  /\ UNCHANGED <<dbVars, runVars, committed, markVars, abortVars, hostVars>>

(***************************************************************************)
(* reconcile.mark_job_orphan, by any marker                                *)
(***************************************************************************)

MarkerUp(m) == m = "boot" => daemonUp

\* Mutant of OrphanRead: the boot does not probe the recorded process.
OrphanReadMutant(m, r) ==
  /\ MarkerUp(m)
  /\ r \in pending[m] /\ view[m].step = "none"
  /\ job[r] = "running"
  /\ view' = [view EXCEPT ![m] =
                [run |-> r, log |-> log[r], step |-> "read"]]
  /\ UNCHANGED <<dbVars, runVars, procVars, committed, pending, abortVars,
                 hostVars>>

\* The SELECT on a running row and the reading of its log; a job that is
\* already final is skipped.
OrphanRead(m, r) ==
  /\ MarkerUp(m)
  /\ r \in pending[m] /\ view[m].step = "none"
  /\ m = "boot" => ~(r \in bootPids /\ child[r] = "alive")
  /\ IF job[r] = "running"
     THEN /\ view' = [view EXCEPT ![m] =
                        [run |-> r, log |-> log[r], step |-> "read"]]
          /\ UNCHANGED pending
     ELSE /\ pending' = [pending EXCEPT ![m] = @ \ {r}]
          /\ UNCHANGED view
  /\ UNCHANGED <<dbVars, runVars, procVars, committed, abortVars, hostVars>>

\* Mutant of ReleaseTask: the WHERE status = 'in_progress' is forgotten.
ReleaseTaskMutant(t) == [task EXCEPT ![t] = "todo"]
ReleaseTask(t) == [task EXCEPT ![t] = IF @ = "in_progress" THEN "todo" ELSE @]

\* Mutant of OrphanKill: the task is not given back.
OrphanKillMutant(m) ==
  LET r == view[m].run IN
  /\ MarkerUp(m)
  /\ view[m].step = "read" /\ view[m].log \notin TerminalLogs
  /\ job' = [job EXCEPT ![r] = IF @ = "running" THEN "killed" ELSE @]
  /\ blamed' = IF m = "abort" THEN blamed \cup {r} ELSE blamed
  /\ pending' = [pending EXCEPT ![m] = @ \ {r}]
  /\ view' = [view EXCEPT ![m] = NoView]
  /\ UNCHANGED <<task, pid, runVars, procVars, committed, abortVars, hostVars>>

\* No verdict was read: one transaction kills the job and releases the task.
\* request_abort then labels the job, whatever its row says by now.
OrphanKill(m) ==
  LET r == view[m].run IN
  /\ MarkerUp(m)
  /\ view[m].step = "read" /\ view[m].log \notin TerminalLogs
  /\ job' = [job EXCEPT ![r] = IF @ = "running" THEN "killed" ELSE @]
  /\ task' = ReleaseTask(runTask[r])
  /\ blamed' = IF m = "abort" THEN blamed \cup {r} ELSE blamed
  /\ pending' = [pending EXCEPT ![m] = @ \ {r}]
  /\ view' = [view EXCEPT ![m] = NoView]
  /\ UNCHANGED <<pid, runVars, procVars, committed, abortVars, hostVars>>

\* A verdict was read: record_finish commits it, the task follows.
OrphanFinish(m) ==
  LET r == view[m].run IN
  /\ MarkerUp(m)
  /\ view[m].step = "read" /\ view[m].log \in TerminalLogs
  /\ job' = [job EXCEPT ![r] =
               IF @ = "running" THEN Verdict(view[m].log, TRUE) ELSE @]
  /\ view' = [view EXCEPT ![m].step = "reset"]
  /\ UNCHANGED <<task, pid, blamed, runVars, procVars, committed, pending,
                 abortVars, hostVars>>

\* Mutant of OrphanReset: a job finalised from its log also closes the task.
OrphanResetMutant(m) ==
  LET r == view[m].run IN
  /\ MarkerUp(m)
  /\ view[m].step = "reset"
  /\ task' = [task EXCEPT ![runTask[r]] =
                IF job[r] = "done" /\ @ = "in_progress" THEN "done" ELSE @]
  /\ pending' = [pending EXCEPT ![m] = @ \ {r}]
  /\ view' = [view EXCEPT ![m] = NoView]
  /\ UNCHANGED <<job, pid, blamed, runVars, procVars, committed, abortVars,
                 hostVars>>

OrphanReset(m) ==
  LET r == view[m].run IN
  /\ MarkerUp(m)
  /\ view[m].step = "reset"
  /\ task' = ReleaseTask(runTask[r])
  /\ pending' = [pending EXCEPT ![m] = @ \ {r}]
  /\ view' = [view EXCEPT ![m] = NoView]
  /\ UNCHANGED <<job, pid, blamed, runVars, procVars, committed, abortVars,
                 hostVars>>

(***************************************************************************)
(* abort.request_abort, for the project or for one feature                 *)
(***************************************************************************)

AbortTouch ==
  /\ "abort" \in Faults
  /\ stage = "idle" /\ stage' = "touched"
  /\ aborts < MaxAborts /\ aborts' = aborts + 1
  /\ sentinel' = TRUE
  /\ UNCHANGED <<dbVars, runVars, procVars, committed, markVars, targets,
                 groups, hostVars>>

AbortList ==
  /\ stage = "touched" /\ stage' = "listed"
  /\ \E fs \in {Features} \cup {{f} : f \in Features} :
       targets' = {r \in Runs : /\ job[r] = "running"
                                /\ FeatureOf[runTask[r]] \in fs}
  /\ groups' = {r \in targets' : pid[r]}
  /\ UNCHANGED <<dbVars, runVars, procVars, committed, markVars, aborts, sentinel,
                 hostVars>>

Reachable(r) == r \in groups /\ child[r] = "alive"

\* SIGTERM: some workers stop in the grace period, with their last words.
AbortTerm ==
  /\ stage = "listed" /\ stage' = "termed"
  /\ \E S \in SUBSET {r \in Runs : Reachable(r)} :
       /\ child' = [r \in Runs |-> IF r \in S THEN "exit1" ELSE child[r]]
       /\ \E w \in {"partial", "marker", "markerresult"} :
            log' = [r \in Runs |-> IF r \in S /\ w \in LastWords(r)
                                   THEN w ELSE log[r]]
  /\ UNCHANGED <<dbVars, runVars, committed, markVars, aborts, targets,
                 groups, sentinel, hostVars>>

\* Mutant of AbortKill: only the jobs with a process group are marked.
AbortKillMutant ==
  /\ stage = "termed" /\ stage' = "marking"
  /\ child' = [r \in Runs |-> IF Reachable(r) THEN "exit1" ELSE child[r]]
  /\ pending' = [pending EXCEPT !["abort"] = groups]
  /\ UNCHANGED <<dbVars, runVars, log, committed, view, aborts, targets,
                 groups, sentinel, hostVars>>

\* SIGKILL for the survivors, then mark_job_orphan for every listed job.
AbortKill ==
  /\ stage = "termed" /\ stage' = "marking"
  /\ child' = [r \in Runs |-> IF Reachable(r) THEN "exit1" ELSE child[r]]
  /\ pending' = [pending EXCEPT !["abort"] = targets]
  /\ UNCHANGED <<dbVars, runVars, log, committed, view, aborts, targets,
                 groups, sentinel, hostVars>>

AbortReturns ==
  /\ stage = "marking" /\ pending["abort"] = {}
  /\ stage' = "idle" /\ targets' = {} /\ groups' = {}
  /\ UNCHANGED <<dbVars, runVars, procVars, committed, markVars, aborts, sentinel,
                 hostVars>>

\* clear_abort, by a run loop at its start or at its exit.
ClearAbort ==
  /\ sentinel /\ sentinel' = FALSE
  /\ UNCHANGED <<dbVars, runVars, procVars, committed, markVars, stage,
                 aborts, targets, groups, hostVars>>

(***************************************************************************)
(* Processes that stop, and the daemon's boot                              *)
(***************************************************************************)

\* The threads of the runs in S stop where they are.  Their workers stop with
\* them (the service manager empties the control group), or outlive them.
Stop(S) ==
  /\ pc' = [r \in Runs |-> IF r \in S /\ Active(r) THEN "crashed" ELSE pc[r]]
  /\ \E live \in SUBSET {r \in S : child[r] = "alive"} :
       /\ live # {} => "survive" \in Faults
       /\ child' = [r \in Runs |->
                      IF r \in S \ live /\ child[r] = "alive"
                      THEN "exit1" ELSE child[r]]

DaemonRuns == Runs \ CliRuns

DaemonCrash ==
  /\ "crash" \in Faults
  /\ daemonUp /\ daemonUp' = FALSE
  /\ Stop(DaemonRuns)
  /\ pending' = [m \in Markers |->
                   IF m \in DaemonRuns \cup {"boot"} THEN {} ELSE pending[m]]
  /\ view' = [m \in Markers |->
                IF m \in DaemonRuns \cup {"boot"} THEN NoView ELSE view[m]]
  /\ bootPids' = {}
  /\ UNCHANGED <<dbVars, runTask, parsed, log, committed, abortVars>>

CliCrash(r) ==
  /\ "crash" \in Faults
  /\ r \in CliRuns /\ Active(r)
  /\ Stop({r})
  /\ pending' = [pending EXCEPT ![r] = {}]
  /\ view' = [view EXCEPT ![r] = NoView]
  /\ UNCHANGED <<dbVars, runTask, parsed, log, committed, abortVars, hostVars>>

\* The lifespan lists the running jobs before any request is served.
Boot ==
  /\ ~daemonUp /\ daemonUp' = TRUE
  /\ pending' = [pending EXCEPT !["boot"] = {r \in Runs : job[r] = "running"}]
  /\ bootPids' = {r \in Runs : job[r] = "running" /\ pid[r]}
  /\ UNCHANGED <<dbVars, runVars, procVars, committed, view, abortVars>>

\* A listed job whose recorded process answers the probe is preserved.
BootSpares(r) ==
  /\ MarkerUp("boot")
  /\ r \in pending["boot"] /\ view["boot"].step = "none"
  /\ r \in bootPids /\ child[r] = "alive"
  /\ pending' = [pending EXCEPT !["boot"] = @ \ {r}]
  /\ UNCHANGED <<dbVars, runVars, procVars, committed, view, abortVars,
                 hostVars>>

(***************************************************************************)
(* The specification                                                       *)
(***************************************************************************)

Init ==
  /\ task = [t \in Tasks |-> "todo"]
  /\ job = [r \in Runs |-> "none"]
  /\ pid = [r \in Runs |-> FALSE]
  /\ blamed = {}
  /\ pc = [r \in Runs |-> "idle"]
  /\ runTask = [r \in Runs |-> None]
  /\ parsed = [r \in Runs |-> "none"]
  /\ child = [r \in Runs |-> "none"]
  /\ log = [r \in Runs |-> "partial"]
  /\ committed = {}
  /\ pending = [m \in Markers |-> {}]
  /\ view = [m \in Markers |-> NoView]
  /\ stage = "idle"
  /\ aborts = 0
  /\ targets = {}
  /\ groups = {}
  /\ sentinel = FALSE
  /\ daemonUp = TRUE
  /\ bootPids = {}

\* The steps a run's thread takes on its own once it is started.
Thread(r) ==
  \/ Claim(r) \/ RecordStart(r) \/ Spawn(r) \/ RecordPid(r) \/ Parse(r)
  \/ RecordFinish(r) \/ CommitWorktree(r) \/ TaskDone(r) \/ OnFailure(r)
  \/ Reraise(r)

Mark(m) ==
  \/ \E r \in Runs : OrphanRead(m, r)
  \/ OrphanKill(m) \/ OrphanFinish(m) \/ OrphanReset(m)

Aborter == AbortList \/ AbortTerm \/ AbortKill \/ AbortReturns
Booting == Boot \/ \E r \in Runs : BootSpares(r)

Trouble(r) ==
  \/ ReserveFails(r) \/ PreflightFails(r) \/ SetupRaises(r) \/ Raise(r)
  \/ Sigterm(r) \/ CliCrash(r)

Next ==
  \/ \E r \in Runs, t \in Tasks : Calls(r, t) /\ (Resolve(r, t) \/ Anchor(r, t))
  \/ \E r \in Runs : Thread(r) \/ Timeout(r) \/ ChildWrites(r) \/ ChildExits(r)
  \/ \E r \in Runs : Trouble(r)
  \/ \E m \in Markers : Mark(m)
  \/ AbortTouch \/ Aborter \/ ClearAbort
  \/ DaemonCrash \/ Booting

Spec == Init /\ [][Next]_vars

\* Threads, markers, an abort that was started and a boot all make progress;
\* a worker is stopped by the timeout if by nothing else.  Nothing forces a
\* caller to dispatch, a human to abort or a fault to happen.
Fairness ==
  /\ \A r \in Runs : WF_vars(Thread(r)) /\ WF_vars(Timeout(r) \/ ChildExits(r))
  /\ \A m \in Markers : WF_vars(Mark(m))
  /\ WF_vars(Aborter) /\ WF_vars(Booting)

FairSpec == Spec /\ Fairness

(***************************************************************************)
(* Properties                                                              *)
(***************************************************************************)

\* The type invariant: the statuses are those the schema's CHECKs sanction,
\* and the marks refer to runs.
TypeOK ==
  /\ task \in [Tasks -> TaskStatus]
  /\ job \in [Runs -> JobStatus]
  /\ pid \in [Runs -> BOOLEAN]
  /\ blamed \subseteq Runs
  /\ pc \in [Runs -> Pc]
  /\ runTask \in [Runs -> Tasks \cup {None}]
  /\ \A r \in Runs : pc[r] # "idle" => runTask[r] \in Tasks
  /\ parsed \in [Runs -> ParsedState]
  /\ child \in [Runs -> Children]
  /\ log \in [Runs -> Logs]
  /\ committed \subseteq Tasks
  /\ pending \in [Markers -> SUBSET Runs]
  /\ view \in [Markers -> Views]
  /\ stage \in Stages /\ aborts \in Nat
  /\ targets \subseteq Runs /\ groups \subseteq Runs
  /\ sentinel \in BOOLEAN
  /\ daemonUp \in BOOLEAN
  /\ bootPids \subseteq Runs

\* A job is finalised once: whichever of the run's thread, the abort and the
\* boot comes first, the later ones find the row no longer running
\* (the WHERE status = 'running' of record_finish and mark_job_orphan).
FinalJobsAreFrozen ==
  [][\A r \in Runs : job[r] \in FinalStatus => job'[r] = job[r]]_vars

\* A task is only closed over work the forge committed (on_success commits
\* before it closes), whatever the other writers of its row did meanwhile.
DoneHasWork == \A t \in Tasks : task[t] = "done" => t \in committed

\* A closed task is reopened by a late run only: one that resolved it before
\* another run closed it, and that now claims it or reports its own failure
\* (the two writes of tasks.status that have no guard).  What an abort, a boot
\* or an exception gives back is never a closed task, however late they come.
ReopenedByALateRun ==
  [][\A t \in Tasks : task[t] = "done" /\ task'[t] # "done" =>
       \E r, s \in Runs \ FixRuns :
         /\ runTask[s] = t /\ pc[s] = "ended" /\ parsed[s] = "done"
         /\ runTask[r] = t /\ pc'[r] # pc[r]
         /\ \/ pc[r] = "resolved"
            \/ pc[r] = "finished" /\ parsed[r] # "done"]_vars

\* No false green: a job recorded 'done' has a clean result in its log, even
\* when a marker finalised it from the log without knowing the exit code.
DoneIsProved == \A r \in Runs : job[r] = "done" => log[r] = "ok"

\* No zombie under a live process: a running job is kept by a thread that is
\* still going to finalise it, or by a marker that holds it, or its process
\* crashed and the next boot finds it.
RunningHasKeeper ==
  \A r \in Runs : job[r] = "running" =>
    \/ pc[r] \in {"recorded", "spawned", "waiting", "parsed", "crashed"}
    \/ pc[r] = "raised" /\ r \in pending[r]
    \/ pc[r] = "dropped" /\ "setup" \in Faults

\* A boot leaves running only the jobs of the previous daemon whose process was
\* recorded (and answered its probe): one that stopped between record_start and
\* record_pid, where no probe is possible, is finalised.
BootClearsZombies ==
  daemonUp /\ pending["boot"] = {} =>
    \A r \in DaemonRuns : pc[r] = "crashed" /\ job[r] = "running" => r \in bootPids

\* The boot never finalises a job whose recorded process is alive: the worker
\* of a CLI dispatch that runs across a daemon restart keeps its result.
BootSparesTheLiving ==
  [][\A r \in bootPids :
       /\ view["boot"].run = r /\ view["boot"].step = "read"
       /\ job[r] = "running" /\ job'[r] # "running"
       /\ view'["boot"].step # "read"
       => child[r] # "alive"]_vars

\* What a boot finalises: what it cannot probe, and never what answers its probe.
BootSettles == []BootClearsZombies /\ BootSparesTheLiving

\* When request_abort returns, every job it listed is final and every process
\* group it could signal is dead.
AbortSettles ==
  [][stage = "marking" /\ stage' = "idle" =>
       /\ \A r \in targets : job[r] # "running"
       /\ \A r \in groups : child[r] # "alive"]_vars

\* A claimed task is never stranded: while it is in_progress, a run that
\* claimed it is still on its way, or a marker is about to release it, or its
\* job is still running and so in reach of an abort or a boot.
InProgressIsHeld ==
  \A t \in Tasks : task[t] = "in_progress" =>
    \E r \in Runs \ FixRuns :
      /\ runTask[r] = t
      /\ Active(r) \/ job[r] = "running" \/ \E m \in Markers : view[m].run = r

\* Every claim ends: the task is closed or returned to the resolver.
ClaimIsReleased ==
  \A t \in Tasks : task[t] = "in_progress" ~> task[t] # "in_progress"

\* An abort leaves nothing it listed running, and no claim outlives its run,
\* aborted or not.
AbortReleases == AbortSettles /\ ClaimIsReleased

\* What the resolver relies on: the life of a task as TaskBoard states it.
Board == INSTANCE TaskBoard WITH status <- task
BoardSpec == Board!Spec
=============================================================================
