--------------------------- MODULE DispatchProofs ---------------------------
(***************************************************************************)
(* Theorems of Dispatch, for every set of tasks, features, runs and        *)
(* faults.  The four invariants a reader cares about (TypeOK, DoneHasWork, *)
(* DoneIsProved, RunningHasKeeper) are not inductive: they need what the   *)
(* rows say about the program counters, the logs and the views that        *)
(* mark_job_orphan holds between its read and its writes.  IInv adds that. *)
(*                                                                         *)
(* The second half stands on IInv: who may reopen a closed task, whoever   *)
(* dispatches beside; the refinement of TaskBoard and the claim that is    *)
(* never stranded, each under the condition it needs (one drain calls      *)
(* dispatch_next, no fault that breaks it); and what a boot and an abort   *)
(* settle, under none.                                                     *)
(***************************************************************************)
EXTENDS Dispatch, TLAPS

(***************************************************************************)
(* The inductive invariant                                                 *)
(***************************************************************************)

\* Before record_start a run has no job; nothing else creates one.
NoJobYet ==
  \A r \in Runs :
    pc[r] \in {"idle", "resolved", "claimed", "anchored"} => job[r] = "none"

\* The view of an executing mark_job_orphan is of a job, a verdict it read is
\* still what the log says, and once it finalised the job the job is final.
ViewIsLogged ==
  \A m \in Markers : view[m].step # "none" =>
    /\ view[m].log \in TerminalLogs => log[view[m].run] = view[m].log
    /\ job[view[m].run] # "none"
    /\ view[m].step = "reset" => job[view[m].run] \in FinalStatus

\* A run that is about to record a result has one, and a success is in its log.
ParsedIsLogged ==
  \A r \in Runs : /\ pc[r] = "parsed" => parsed[r] # "none"
                  /\ parsed[r] = "done" => log[r] = "ok"

\* Between the commit and the closing of the task, the work is there.
CommitPrecedesClose ==
  \A r \in Runs : pc[r] = "committed" => runTask[r] \in committed

IInv ==
  /\ TypeOK
  /\ NoJobYet
  /\ ViewIsLogged
  /\ ParsedIsLogged
  /\ CommitPrecedesClose
  /\ DoneHasWork
  /\ DoneIsProved
  /\ RunningHasKeeper

\* Before anything is dispatched the invariant holds: no job, no view, no work.
LEMMA InitIInv == Init => IInv
<1> SUFFICES ASSUME Init PROVE IInv
  OBVIOUS
<1> USE DispatchAssumption DEF Init
<1>1. TypeOK
  BY DEF TypeOK, TaskStatus, JobStatus, FinalStatus, Pc, ParsedState, Children,
         Logs, TerminalLogs, Views, NoView, Stages
<1>2. ViewIsLogged
  BY DEF ViewIsLogged, NoView
<1> QED
  BY <1>1, <1>2 DEF IInv, NoJobYet, ParsedIsLogged, CommitPrecedesClose,
                    DoneHasWork, DoneIsProved, RunningHasKeeper

\* No handler writes a status outside the schema's CHECKs, and a run that left
\* its idle state has a task.
LEMMA TypeStep == TypeOK /\ [Next]_vars => TypeOK'
<1> SUFFICES ASSUME TypeOK, [Next]_vars PROVE TypeOK'
  OBVIOUS
<1> USE DispatchAssumption
    DEF TypeOK, TaskStatus, JobStatus, FinalStatus, Pc, ParsedState, Children,
        Logs, TerminalLogs, Views, NoView, Stages, Markers, dbVars, runVars,
        procVars, markVars, abortVars, hostVars
<1>1. ASSUME NEW r \in Runs, NEW t \in Tasks, Resolve(r, t) PROVE TypeOK'
  BY <1>1 DEF Resolve, Goto
<1>2. ASSUME NEW r \in Runs, NEW t \in Tasks, Anchor(r, t) PROVE TypeOK'
  BY <1>2 DEF Anchor, Goto
<1>3. ASSUME NEW r \in Runs, ReserveFails(r) PROVE TypeOK'
  BY <1>3 DEF ReserveFails
<1>4. ASSUME NEW r \in Runs, Claim(r) PROVE TypeOK'
  BY <1>4 DEF Claim, Goto
<1>5. ASSUME NEW r \in Runs, RecordStart(r) PROVE TypeOK'
  BY <1>5 DEF RecordStart, Goto
<1>6. ASSUME NEW r \in Runs, SetupRaises(r) PROVE TypeOK'
  BY <1>6 DEF SetupRaises, Goto
<1>7. ASSUME NEW r \in Runs, PreflightFails(r) PROVE TypeOK'
  BY <1>7 DEF PreflightFails, Goto
<1>8. ASSUME NEW r \in Runs, Spawn(r) PROVE TypeOK'
  BY <1>8 DEF Spawn, Goto
<1>9. ASSUME NEW r \in Runs, RecordPid(r) PROVE TypeOK'
  BY <1>9 DEF RecordPid, Goto
<1>10. ASSUME NEW r \in Runs, Parse(r) PROVE TypeOK'
  BY <1>10 DEF Parse, Goto, Verdict
<1>11. ASSUME NEW r \in Runs, Timeout(r) PROVE TypeOK'
  BY <1>11 DEF Timeout, Goto
<1>12. ASSUME NEW r \in Runs, RecordFinish(r) PROVE TypeOK'
  <2>1. \A q \in Runs : pc'[q] # "idle" => pc[q] # "idle"
    BY <1>12 DEF RecordFinish, Goto
  <2>2. job' \in [Runs -> JobStatus]
    BY <1>12 DEF RecordFinish, HumanAbort
  <2>3. blamed' \subseteq Runs
    BY <1>12 DEF RecordFinish
  <2>4. pc' \in [Runs -> Pc]
    BY <1>12 DEF RecordFinish, Goto
  <2> QED
    BY <1>12, <2>1, <2>2, <2>3, <2>4 DEF RecordFinish
<1>13. ASSUME NEW r \in Runs, CommitWorktree(r) PROVE TypeOK'
  BY <1>13 DEF CommitWorktree
<1>14. ASSUME NEW r \in Runs, TaskDone(r) PROVE TypeOK'
  BY <1>14 DEF TaskDone, Goto
<1>15. ASSUME NEW r \in Runs, OnFailure(r) PROVE TypeOK'
  BY <1>15 DEF OnFailure, Goto
<1>16. ASSUME NEW r \in Runs, Raise(r) PROVE TypeOK'
  BY <1>16 DEF Raise
<1>17. ASSUME NEW r \in Runs, Reraise(r) PROVE TypeOK'
  BY <1>17 DEF Reraise, Goto
<1>18. ASSUME NEW r \in Runs, ChildWrites(r) PROVE TypeOK'
  BY <1>18 DEF ChildWrites
<1>19. ASSUME NEW r \in Runs, ChildExits(r) PROVE TypeOK'
  BY <1>19 DEF ChildExits
<1>20. ASSUME NEW r \in Runs, Sigterm(r) PROVE TypeOK'
  BY <1>20 DEF Sigterm, LastWords
<1>21. ASSUME NEW m \in Markers, NEW r \in Runs, OrphanRead(m, r) PROVE TypeOK'
  BY <1>21 DEF OrphanRead
<1>22. ASSUME NEW m \in Markers, OrphanKill(m) PROVE TypeOK'
  <2>1. task' \in [Tasks -> TaskStatus]
    BY <1>22 DEF OrphanKill, ReleaseTask
  <2>2. job' \in [Runs -> JobStatus]
    BY <1>22 DEF OrphanKill
  <2>3. blamed' \subseteq Runs
    BY <1>22 DEF OrphanKill
  <2>4. view' \in [Markers -> Views]
    BY <1>22 DEF OrphanKill, NoView
  <2>5. pending' \in [Markers -> SUBSET Runs]
    BY <1>22 DEF OrphanKill
  <2> QED
    BY <1>22, <2>1, <2>2, <2>3, <2>4, <2>5 DEF OrphanKill
<1>23. ASSUME NEW m \in Markers, OrphanFinish(m) PROVE TypeOK'
  <2>1. job' \in [Runs -> JobStatus]
    BY <1>23 DEF OrphanFinish, Verdict
  <2>2. view[m].run \in Runs
    BY <1>23 DEF OrphanFinish
  <2>3. view' \in [Markers -> Views]
    BY SMTT(30), <1>23 DEF OrphanFinish
  <2> QED
    BY <1>23, <2>1, <2>2, <2>3 DEF OrphanFinish
<1>24. ASSUME NEW m \in Markers, OrphanReset(m) PROVE TypeOK'
  BY <1>24 DEF OrphanReset, ReleaseTask, NoView
<1>25. ASSUME AbortTouch PROVE TypeOK'
  BY <1>25 DEF AbortTouch
<1>26. ASSUME AbortList PROVE TypeOK'
  BY <1>26 DEF AbortList
<1>27. ASSUME AbortTerm PROVE TypeOK'
  BY <1>27 DEF AbortTerm, LastWords, Reachable
<1>28. ASSUME AbortKill PROVE TypeOK'
  BY <1>28 DEF AbortKill, Reachable
<1>29. ASSUME AbortReturns PROVE TypeOK'
  BY <1>29 DEF AbortReturns
<1>30. ASSUME ClearAbort PROVE TypeOK'
  BY <1>30 DEF ClearAbort
<1>31. ASSUME DaemonCrash PROVE TypeOK'
  <2>1. \A q \in Runs : pc'[q] # "idle" => pc[q] # "idle"
    BY <1>31 DEF DaemonCrash, Stop, Active
  <2>2. pc' \in [Runs -> Pc]
    BY <1>31 DEF DaemonCrash, Stop
  <2>3. child' \in [Runs -> Children]
    BY <1>31 DEF DaemonCrash, Stop
  <2>4. pending' \in [Markers -> SUBSET Runs]
    BY <1>31 DEF DaemonCrash
  <2>5. view' \in [Markers -> Views]
    BY <1>31 DEF DaemonCrash, NoView
  <2> QED
    BY <1>31, <2>1, <2>2, <2>3, <2>4, <2>5 DEF DaemonCrash
<1>32. ASSUME NEW r \in Runs, CliCrash(r) PROVE TypeOK'
  BY <1>32 DEF CliCrash, Stop, NoView, Active
<1>33. ASSUME Boot PROVE TypeOK'
  BY <1>33 DEF Boot
<1>34. ASSUME NEW r \in Runs, BootSpares(r) PROVE TypeOK'
  BY <1>34 DEF BootSpares
<1>35. CASE UNCHANGED vars
  BY <1>35 DEF vars
<1> QED
  BY <1>1, <1>2, <1>3, <1>4, <1>5, <1>6, <1>7, <1>8, <1>9, <1>10, <1>11,
      <1>12, <1>13, <1>14, <1>15, <1>16, <1>17, <1>18, <1>19, <1>20, <1>21,
      <1>22, <1>23, <1>24, <1>25, <1>26, <1>27, <1>28, <1>29, <1>30, <1>31,
      <1>32, <1>33, <1>34, <1>35 DEF Next, Thread, Trouble, Mark, Aborter,
      Booting

\* A marker that is inside mark_job_orphan works on a run it listed.
LEMMA ViewHasRun ==
  ASSUME TypeOK, NEW m \in Markers, view[m].step # "none"
  PROVE  view[m].run \in Runs /\ view[m].log \in Logs
  BY DEF TypeOK, Views, NoView

(***************************************************************************)
(* What the writers of a job's row may do                                  *)
(***************************************************************************)

\* What record_finish writes: only its own row, only while it is running.
LEMMA FinishWrites ==
  ASSUME job \in [Runs -> JobStatus], NEW r \in Runs, RecordFinish(r),
         NEW q \in Runs
  PROVE  /\ job[q] # "running" => job'[q] = job[q]
         /\ job'[q] # job[q] => q = r /\ job'[q] \in {"killed", parsed[r]}
  BY DEF RecordFinish

\* What mark_job_orphan writes when it read a verdict: record_finish under its
\* guard, with the status the log implies.
LEMMA OrphanWrites ==
  ASSUME job \in [Runs -> JobStatus], NEW m \in Markers, OrphanFinish(m),
         NEW q \in Runs
  PROVE  /\ job[q] # "running" => job'[q] = job[q]
         /\ job'[q] # job[q] =>
              q = view[m].run /\ job'[q] = Verdict(view[m].log, TRUE)
  BY DEF OrphanFinish
\* What mark_job_orphan writes when it read no verdict: 'killed', guarded.
LEMMA KillWrites ==
  ASSUME job \in [Runs -> JobStatus], NEW m \in Markers, OrphanKill(m),
         NEW q \in Runs
  PROVE  /\ job[q] # "running" => job'[q] = job[q]
         /\ job'[q] # job[q] => q = view[m].run /\ job'[q] = "killed"
  BY DEF OrphanKill

\* A job exists only after record_start, a closing run has committed, and a
\* running job has a thread or a marker that finalises it.
LEMMA ControlStep ==
  IInv /\ TypeOK' /\ [Next]_vars =>
    NoJobYet' /\ CommitPrecedesClose' /\ RunningHasKeeper'
<1> SUFFICES ASSUME IInv, TypeOK', [Next]_vars
      PROVE  NoJobYet' /\ CommitPrecedesClose' /\ RunningHasKeeper'
  OBVIOUS
<1> USE DispatchAssumption DEF IInv, TypeOK, TaskStatus, JobStatus,
      FinalStatus, Pc, ParsedState, Children, Logs, TerminalLogs, Views,
      NoView, Markers, NoJobYet, CommitPrecedesClose, RunningHasKeeper,
      dbVars, runVars, procVars, markVars, abortVars, hostVars
<1>1. ASSUME NEW r \in Runs, NEW t \in Tasks, Resolve(r, t)
      PROVE  NoJobYet' /\ CommitPrecedesClose' /\ RunningHasKeeper'
  BY <1>1 DEF Resolve, Goto
<1>2. ASSUME NEW r \in Runs, NEW t \in Tasks, Anchor(r, t)
      PROVE  NoJobYet' /\ CommitPrecedesClose' /\ RunningHasKeeper'
  BY <1>2 DEF Anchor, Goto
<1>3. ASSUME NEW r \in Runs, ReserveFails(r)
      PROVE  NoJobYet' /\ CommitPrecedesClose' /\ RunningHasKeeper'
  BY <1>3 DEF ReserveFails
<1>4. ASSUME NEW r \in Runs, Claim(r)
      PROVE  NoJobYet' /\ CommitPrecedesClose' /\ RunningHasKeeper'
  BY <1>4 DEF Claim, Goto
<1>5. ASSUME NEW r \in Runs, RecordStart(r)
      PROVE  NoJobYet' /\ CommitPrecedesClose' /\ RunningHasKeeper'
  BY <1>5 DEF RecordStart, Goto
<1>6. ASSUME NEW r \in Runs, SetupRaises(r)
      PROVE  NoJobYet' /\ CommitPrecedesClose' /\ RunningHasKeeper'
  BY <1>6 DEF SetupRaises, Goto
<1>7. ASSUME NEW r \in Runs, PreflightFails(r)
      PROVE  NoJobYet' /\ CommitPrecedesClose' /\ RunningHasKeeper'
  BY <1>7 DEF PreflightFails, Goto
<1>8. ASSUME NEW r \in Runs, Spawn(r)
      PROVE  NoJobYet' /\ CommitPrecedesClose' /\ RunningHasKeeper'
  BY <1>8 DEF Spawn, Goto
<1>9. ASSUME NEW r \in Runs, RecordPid(r)
      PROVE  NoJobYet' /\ CommitPrecedesClose' /\ RunningHasKeeper'
  BY <1>9 DEF RecordPid, Goto
<1>10. ASSUME NEW r \in Runs, Parse(r)
      PROVE  NoJobYet' /\ CommitPrecedesClose' /\ RunningHasKeeper'
  BY <1>10 DEF Parse, Goto, Verdict
<1>11. ASSUME NEW r \in Runs, Timeout(r)
      PROVE  NoJobYet' /\ CommitPrecedesClose' /\ RunningHasKeeper'
  BY <1>11 DEF Timeout, Goto
<1>12. ASSUME NEW r \in Runs, RecordFinish(r)
      PROVE  NoJobYet' /\ CommitPrecedesClose' /\ RunningHasKeeper'
  BY <1>12 DEF RecordFinish, Goto, HumanAbort
<1>13. ASSUME NEW r \in Runs, CommitWorktree(r)
      PROVE  NoJobYet' /\ CommitPrecedesClose' /\ RunningHasKeeper'
  BY <1>13 DEF CommitWorktree
<1>14. ASSUME NEW r \in Runs, TaskDone(r)
      PROVE  NoJobYet' /\ CommitPrecedesClose' /\ RunningHasKeeper'
  BY <1>14 DEF TaskDone, Goto
<1>15. ASSUME NEW r \in Runs, OnFailure(r)
      PROVE  NoJobYet' /\ CommitPrecedesClose' /\ RunningHasKeeper'
  BY <1>15 DEF OnFailure, Goto
<1>16. ASSUME NEW r \in Runs, Raise(r)
      PROVE  NoJobYet' /\ CommitPrecedesClose' /\ RunningHasKeeper'
  BY <1>16 DEF Raise
<1>17. ASSUME NEW r \in Runs, Reraise(r)
      PROVE  NoJobYet' /\ CommitPrecedesClose' /\ RunningHasKeeper'
  BY <1>17 DEF Reraise, Goto
<1>18. ASSUME NEW m \in Markers, NEW r \in Runs, OrphanRead(m, r)
      PROVE  NoJobYet' /\ CommitPrecedesClose' /\ RunningHasKeeper'
  BY <1>18 DEF OrphanRead
<1>19. ASSUME NEW m \in Markers, OrphanKill(m)
      PROVE  NoJobYet' /\ CommitPrecedesClose' /\ RunningHasKeeper'
  BY SMTT(30), <1>19 DEF OrphanKill, ReleaseTask, NoView
<1>20. ASSUME NEW m \in Markers, OrphanFinish(m)
      PROVE  NoJobYet' /\ CommitPrecedesClose' /\ RunningHasKeeper'
  BY <1>20 DEF OrphanFinish, Verdict
<1>21. ASSUME NEW m \in Markers, OrphanReset(m)
      PROVE  NoJobYet' /\ CommitPrecedesClose' /\ RunningHasKeeper'
  <2>1. pending' = [pending EXCEPT ![m] = @ \ {view[m].run}]
    BY <1>21 DEF OrphanReset
  <2>2. job[view[m].run] # "running"
    BY <1>21 DEF OrphanReset, ViewIsLogged
  <2> QED
    BY <1>21, <2>1, <2>2 DEF OrphanReset
<1>22. ASSUME AbortKill
      PROVE  NoJobYet' /\ CommitPrecedesClose' /\ RunningHasKeeper'
  BY <1>22 DEF AbortKill, Reachable
<1>23. ASSUME DaemonCrash
      PROVE  NoJobYet' /\ CommitPrecedesClose' /\ RunningHasKeeper'
  BY <1>23 DEF DaemonCrash, Stop, DaemonRuns, NoView, Active
<1>24. ASSUME NEW r \in Runs, CliCrash(r)
      PROVE  NoJobYet' /\ CommitPrecedesClose' /\ RunningHasKeeper'
  BY <1>24 DEF CliCrash, Stop, NoView, Active
<1>25. ASSUME Boot
      PROVE  NoJobYet' /\ CommitPrecedesClose' /\ RunningHasKeeper'
  BY <1>25 DEF Boot
<1>26. ASSUME NEW r \in Runs, BootSpares(r)
      PROVE  NoJobYet' /\ CommitPrecedesClose' /\ RunningHasKeeper'
  BY <1>26 DEF BootSpares
<1>27. CASE UNCHANGED <<pc, job, pending, runTask, committed>>
  BY <1>27
<1> QED   BY <1>1, <1>2, <1>3, <1>4, <1>5, <1>6, <1>7, <1>8, <1>9, <1>10,
     <1>11, <1>12, <1>13, <1>14, <1>15, <1>16, <1>17, <1>18, <1>19, <1>20,
     <1>21, <1>22, <1>23, <1>24, <1>25, <1>26, <1>27
  DEF Next, Thread, Trouble, Mark, Aborter, Booting, vars, ChildWrites,
      ChildExits, Sigterm, AbortTouch, AbortList, AbortTerm, AbortReturns,
      ClearAbort

\* The log a marker read stays what it read, and the job it finalised stays
\* final until it has released the task (the gap inside mark_job_orphan).
LEMMA ViewStep == IInv /\ TypeOK' /\ [Next]_vars => ViewIsLogged'
<1> SUFFICES ASSUME IInv, TypeOK', [Next]_vars PROVE ViewIsLogged'
  OBVIOUS
<1> USE DispatchAssumption DEF IInv, TypeOK, TaskStatus, JobStatus,
      FinalStatus, Pc, ParsedState, Children, Logs, TerminalLogs, Views,
      NoView, Markers, ViewIsLogged, dbVars, runVars, procVars, markVars,
      abortVars, hostVars
<1>1. ASSUME NEW r \in Runs, RecordStart(r) PROVE ViewIsLogged'
  <2>1. job[r] = "none"
    BY <1>1 DEF RecordStart, NoJobYet
  <2>2. \A m \in Markers : view[m].step # "none" => view[m].run # r
    BY <2>1
  <2>3. \A q \in Runs : q # r => job'[q] = job[q]
    BY <1>1 DEF RecordStart
  <2>4. \A m \in Markers : view[m].step # "none" =>
          job'[view[m].run] = job[view[m].run]
    BY <2>2, <2>3, ViewHasRun
  <2> QED
    BY <1>1, <2>4 DEF RecordStart
<1>2. ASSUME NEW r \in Runs, RecordFinish(r) PROVE ViewIsLogged'
  <2>1. parsed[r] # "none"
    BY <1>2 DEF RecordFinish, Goto, ParsedIsLogged
  <2>2. \A m \in Markers : view[m].step # "none" =>
          job'[view[m].run] # "none"
    BY <1>2, <2>1, FinishWrites, ViewHasRun DEF ViewIsLogged
  <2>3. \A m \in Markers : view[m].step = "reset" =>
          job'[view[m].run] = job[view[m].run]
    BY <1>2, FinishWrites, ViewHasRun DEF ViewIsLogged
  <2> QED
    BY <1>2, <2>2, <2>3 DEF RecordFinish
<1>3. ASSUME NEW r \in Runs, ChildWrites(r) PROVE ViewIsLogged'
  BY <1>3 DEF ChildWrites
<1>4. ASSUME NEW r \in Runs, Sigterm(r) PROVE ViewIsLogged'
  BY <1>4 DEF Sigterm, LastWords
<1>5. ASSUME NEW m \in Markers, NEW r \in Runs, OrphanRead(m, r)
      PROVE  ViewIsLogged'
  <2>1. CASE job[r] = "running"
    <3>1. \A n \in Markers : view'[n] =
            IF n = m THEN [run |-> r, log |-> log[r], step |-> "read"]
                     ELSE view[n]
      BY <1>5, <2>1 DEF OrphanRead
    <3> QED
      BY SMTT(40), <1>5, <2>1, <3>1 DEF OrphanRead
  <2>2. CASE job[r] # "running"
    BY <1>5, <2>2 DEF OrphanRead
  <2> QED
    BY <2>1, <2>2
<1>6. ASSUME NEW m \in Markers, OrphanKill(m) PROVE ViewIsLogged'
  BY SMTT(60), <1>6 DEF OrphanKill, ReleaseTask, NoView
<1>7. ASSUME NEW m \in Markers, OrphanFinish(m) PROVE ViewIsLogged'
  BY SMTT(30), <1>7 DEF OrphanFinish, Verdict
<1>8. ASSUME NEW m \in Markers, OrphanReset(m) PROVE ViewIsLogged'
  BY <1>8 DEF OrphanReset, ReleaseTask, NoView
<1>9. ASSUME AbortTerm PROVE ViewIsLogged'
  BY <1>9 DEF AbortTerm, LastWords, Reachable
<1>10. ASSUME DaemonCrash PROVE ViewIsLogged'
  BY <1>10 DEF DaemonCrash, Stop, DaemonRuns, NoView, Active
<1>11. ASSUME NEW r \in Runs, CliCrash(r) PROVE ViewIsLogged'
  BY <1>11 DEF CliCrash, Stop, NoView, Active
<1>12. CASE UNCHANGED <<view, log, job>>
  BY <1>12
<1> QED   BY <1>1, <1>2, <1>3, <1>4, <1>5, <1>6, <1>7, <1>8, <1>9, <1>10,
     <1>11, <1>12
  DEF Next, Thread, Trouble, Mark, Aborter, Booting, vars, Resolve, Anchor,
      ReserveFails, Claim, SetupRaises, PreflightFails, Spawn, RecordPid,
      Parse, Timeout, CommitWorktree, TaskDone, OnFailure, Raise, Reraise,
      ChildExits, AbortTouch, AbortList, AbortKill, AbortReturns, ClearAbort,
      Boot, BootSpares, Goto

\* A parsed success stays in the log: nothing overwrites a result event.
LEMMA ParsedStep == IInv /\ TypeOK' /\ [Next]_vars => ParsedIsLogged'
<1> SUFFICES ASSUME IInv, TypeOK', [Next]_vars PROVE ParsedIsLogged'
  OBVIOUS
<1> USE DispatchAssumption DEF IInv, TypeOK, TaskStatus, JobStatus,
      FinalStatus, Pc, ParsedState, Children, Logs, TerminalLogs, Views,
      NoView, Markers, ParsedIsLogged, dbVars, runVars, procVars, markVars,
      abortVars, hostVars
<1>1. ASSUME NEW r \in Runs, NEW t \in Tasks, Resolve(r, t)
      PROVE  ParsedIsLogged'
  BY <1>1 DEF Resolve, Goto
<1>2. ASSUME NEW r \in Runs, NEW t \in Tasks, Anchor(r, t)
      PROVE  ParsedIsLogged'
  BY <1>2 DEF Anchor, Goto
<1>3. ASSUME NEW r \in Runs, ReserveFails(r) PROVE ParsedIsLogged'
  BY <1>3 DEF ReserveFails
<1>4. ASSUME NEW r \in Runs, Claim(r) PROVE ParsedIsLogged'
  BY <1>4 DEF Claim, Goto
<1>5. ASSUME NEW r \in Runs, RecordStart(r) PROVE ParsedIsLogged'
  BY <1>5 DEF RecordStart, Goto
<1>6. ASSUME NEW r \in Runs, SetupRaises(r) PROVE ParsedIsLogged'
  BY <1>6 DEF SetupRaises, Goto
<1>7. ASSUME NEW r \in Runs, PreflightFails(r) PROVE ParsedIsLogged'
  BY <1>7 DEF PreflightFails, Goto
<1>8. ASSUME NEW r \in Runs, Spawn(r) PROVE ParsedIsLogged'
  BY <1>8 DEF Spawn, Goto
<1>9. ASSUME NEW r \in Runs, RecordPid(r) PROVE ParsedIsLogged'
  BY <1>9 DEF RecordPid, Goto
<1>10. ASSUME NEW r \in Runs, Parse(r) PROVE ParsedIsLogged'
  BY <1>10 DEF Parse, Goto, Verdict
<1>11. ASSUME NEW r \in Runs, Timeout(r) PROVE ParsedIsLogged'
  BY <1>11 DEF Timeout, Goto
<1>12. ASSUME NEW r \in Runs, RecordFinish(r) PROVE ParsedIsLogged'
  BY <1>12 DEF RecordFinish, Goto, HumanAbort
<1>13. ASSUME NEW r \in Runs, CommitWorktree(r) PROVE ParsedIsLogged'
  BY <1>13 DEF CommitWorktree
<1>14. ASSUME NEW r \in Runs, TaskDone(r) PROVE ParsedIsLogged'
  BY <1>14 DEF TaskDone, Goto
<1>15. ASSUME NEW r \in Runs, OnFailure(r) PROVE ParsedIsLogged'
  BY <1>15 DEF OnFailure, Goto
<1>16. ASSUME NEW r \in Runs, Raise(r) PROVE ParsedIsLogged'
  BY <1>16 DEF Raise
<1>17. ASSUME NEW r \in Runs, Reraise(r) PROVE ParsedIsLogged'
  BY <1>17 DEF Reraise, Goto
<1>18. ASSUME NEW r \in Runs, ChildWrites(r) PROVE ParsedIsLogged'
  BY <1>18 DEF ChildWrites
<1>19. ASSUME NEW r \in Runs, Sigterm(r) PROVE ParsedIsLogged'
  BY <1>19 DEF Sigterm, LastWords
<1>20. ASSUME AbortTerm PROVE ParsedIsLogged'
  BY <1>20 DEF AbortTerm, LastWords, Reachable
<1>21. ASSUME DaemonCrash PROVE ParsedIsLogged'
  BY <1>21 DEF DaemonCrash, Stop, DaemonRuns, NoView, Active
<1>22. ASSUME NEW r \in Runs, CliCrash(r) PROVE ParsedIsLogged'
  BY <1>22 DEF CliCrash, Stop, NoView, Active
<1>23. CASE UNCHANGED <<pc, parsed, log>>
  BY <1>23
<1> QED   BY <1>1, <1>2, <1>3, <1>4, <1>5, <1>6, <1>7, <1>8, <1>9, <1>10,
     <1>11, <1>12, <1>13, <1>14, <1>15, <1>16, <1>17, <1>18, <1>19, <1>20,
     <1>21, <1>22, <1>23
  DEF Next, Thread, Trouble, Mark, Aborter, Booting, vars, ChildExits,
      OrphanRead, OrphanKill, OrphanFinish, OrphanReset, AbortTouch,
      AbortList, AbortKill, AbortReturns, ClearAbort, Boot, BootSpares

\* No write of a task's status closes it over uncommitted work.
LEMMA WorkStep == IInv /\ TypeOK' /\ [Next]_vars => DoneHasWork'
<1> SUFFICES ASSUME IInv, TypeOK', [Next]_vars PROVE DoneHasWork'
  OBVIOUS
<1> USE DispatchAssumption DEF IInv, TypeOK, TaskStatus, JobStatus,
      FinalStatus, Pc, ParsedState, Children, Logs, TerminalLogs, Views,
      NoView, Markers, DoneHasWork, dbVars, runVars, procVars, markVars,
      abortVars, hostVars
<1>1. ASSUME NEW r \in Runs, Claim(r) PROVE DoneHasWork'
  BY <1>1 DEF Claim, Goto
<1>2. ASSUME NEW r \in Runs, CommitWorktree(r) PROVE DoneHasWork'
  BY <1>2 DEF CommitWorktree
<1>3. ASSUME NEW r \in Runs, TaskDone(r) PROVE DoneHasWork'
  <2>1. runTask[r] \in committed
    BY <1>3 DEF TaskDone, Goto, CommitPrecedesClose
  <2>2. \A t \in Tasks :
          task'[t] = "done" => t = runTask[r] \/ task[t] = "done"
    BY <1>3 DEF TaskDone
  <2> QED
    BY <1>3, <2>1, <2>2 DEF TaskDone
<1>4. ASSUME NEW r \in Runs, OnFailure(r) PROVE DoneHasWork'
  BY <1>4 DEF OnFailure, Goto
<1>5. ASSUME NEW m \in Markers, OrphanKill(m) PROVE DoneHasWork'
  BY SMTT(30), <1>5 DEF OrphanKill, ReleaseTask, NoView
<1>6. ASSUME NEW m \in Markers, OrphanReset(m) PROVE DoneHasWork'
  BY <1>6 DEF OrphanReset, ReleaseTask, NoView
<1>7. CASE UNCHANGED <<task, committed>>
  BY <1>7
<1> QED   BY <1>1, <1>2, <1>3, <1>4, <1>5, <1>6, <1>7
  DEF Next, Thread, Trouble, Mark, Aborter, Booting, vars, Resolve, Anchor,
      ReserveFails, RecordStart, SetupRaises, PreflightFails, Spawn,
      RecordPid, Parse, Timeout, RecordFinish, Raise, Reraise, ChildWrites,
      ChildExits, Sigterm, OrphanRead, OrphanFinish, AbortTouch, AbortList,
      AbortTerm, AbortKill, AbortReturns, ClearAbort, DaemonCrash, CliCrash,
      Boot, BootSpares, Goto

\* Neither record_finish nor mark_job_orphan turns a log without a clean result
\* into a done job.
LEMMA ProofStep == IInv /\ TypeOK' /\ [Next]_vars => DoneIsProved'
<1> SUFFICES ASSUME IInv, TypeOK', [Next]_vars PROVE DoneIsProved'
  OBVIOUS
<1> USE DispatchAssumption DEF IInv, TypeOK, TaskStatus, JobStatus,
      FinalStatus, Pc, ParsedState, Children, Logs, TerminalLogs, Views,
      NoView, Markers, DoneIsProved, dbVars, runVars, procVars, markVars,
      abortVars, hostVars
<1>1. ASSUME NEW r \in Runs, RecordStart(r) PROVE DoneIsProved'
  BY <1>1 DEF RecordStart, Goto
<1>2. ASSUME NEW r \in Runs, RecordFinish(r) PROVE DoneIsProved'
  <2>1. \A q \in Runs :
          job'[q] = "done" => job[q] = "done" \/ parsed[q] = "done"
    BY <1>2, FinishWrites
  <2> QED
    BY <1>2, <2>1 DEF RecordFinish, ParsedIsLogged
<1>3. ASSUME NEW r \in Runs, ChildWrites(r) PROVE DoneIsProved'
  BY <1>3 DEF ChildWrites
<1>4. ASSUME NEW r \in Runs, Sigterm(r) PROVE DoneIsProved'
  BY <1>4 DEF Sigterm, LastWords
<1>5. ASSUME NEW m \in Markers, OrphanKill(m) PROVE DoneIsProved'
  BY <1>5 DEF OrphanKill, ReleaseTask, NoView
<1>6. ASSUME NEW m \in Markers, OrphanFinish(m) PROVE DoneIsProved'
  <2>1. Verdict(view[m].log, TRUE) = "done" => view[m].log = "ok"
    BY DEF Verdict
  <2>2. view[m].run \in Runs /\ log[view[m].run] = view[m].log
    BY <1>6, ViewHasRun DEF OrphanFinish, ViewIsLogged
  <2>3. ASSUME NEW q \in Runs, job'[q] = "done", job[q] # "done"
        PROVE  q = view[m].run /\ Verdict(view[m].log, TRUE) = "done"
    <3>1. job'[q] # job[q]
      BY <2>3
    <3>2. q = view[m].run /\ job'[q] = Verdict(view[m].log, TRUE)
      BY <1>6, <3>1, OrphanWrites
    <3> QED
      BY <2>3, <3>2
  <2> QED
    BY <1>6, <2>1, <2>2, <2>3 DEF OrphanFinish
<1>7. ASSUME AbortTerm PROVE DoneIsProved'
  BY <1>7 DEF AbortTerm, LastWords, Reachable
<1>8. CASE UNCHANGED <<job, log>>
  BY <1>8
<1> QED   BY <1>1, <1>2, <1>3, <1>4, <1>5, <1>6, <1>7, <1>8
  DEF Next, Thread, Trouble, Mark, Aborter, Booting, vars, Resolve, Anchor,
      ReserveFails, Claim, SetupRaises, PreflightFails, Spawn, RecordPid,
      Parse, Timeout, CommitWorktree, TaskDone, OnFailure, Raise, Reraise,
      ChildExits, OrphanRead, OrphanReset, AbortTouch, AbortList, AbortKill,
      AbortReturns, ClearAbort, DaemonCrash, CliCrash, Boot, BootSpares, Goto

\* The invariant is inductive.
LEMMA StepIInv == IInv /\ [Next]_vars => IInv'
<1> SUFFICES ASSUME IInv, [Next]_vars PROVE IInv'
  OBVIOUS
<1>1. TypeOK'
  BY TypeStep DEF IInv
<1> QED
  BY <1>1, ControlStep, ViewStep, ParsedStep, WorkStep, ProofStep DEF IInv

\* The inductive invariant holds in every reachable state.
LEMMA AlwaysIInv == Spec => []IInv
  BY InitIInv, StepIInv, PTL DEF Spec

(***************************************************************************)
(* Theorems                                                                *)
(***************************************************************************)

\* The rows keep the statuses the schema sanctions, and the marks of abort and
\* boot refer to jobs that exist.
THEOREM TypeCorrect == Spec => []TypeOK
<1>1. IInv => TypeOK
  BY DEF IInv
<1> QED
  BY <1>1, AlwaysIInv, PTL

\* However runs, aborts, crashes and boots interleave, no task is done whose
\* work the forge did not commit (dispatch_next commits, then closes).
THEOREM DoneTasksHaveWork == Spec => []DoneHasWork
<1>1. IInv => DoneHasWork
  BY DEF IInv
<1> QED
  BY <1>1, AlwaysIInv, PTL

\* No false green: a job is recorded done only over a clean result event
\* (parse_headless_result, and _terminal_result for the markers).
THEOREM DoneJobsAreProved == Spec => []DoneIsProved
<1>1. IInv => DoneIsProved
  BY DEF IInv
<1> QED
  BY <1>1, AlwaysIInv, PTL

\* Every running job has somebody that finalises it, apart from the jobs whose
\* preparation raised before the finalisation guard of _run_worker.
THEOREM RunningJobsAreKept == Spec => []RunningHasKeeper
<1>1. IInv => RunningHasKeeper
  BY DEF IInv
<1> QED
  BY <1>1, AlwaysIInv, PTL

\* A finalised job is never rewritten, whoever comes late: record_finish, the
\* abort or the boot (their WHERE status = 'running').
THEOREM FinalJobsFrozen == Spec => FinalJobsAreFrozen
<1> DEFINE Frozen == \A r \in Runs : job[r] \in FinalStatus => job'[r] = job[r]
<1>1. IInv /\ [Next]_vars => Frozen
  <2> SUFFICES ASSUME IInv, [Next]_vars PROVE Frozen
    OBVIOUS
  <2>0. job \in [Runs -> JobStatus] /\ "running" \notin FinalStatus
    BY DEF IInv, TypeOK, FinalStatus
  <2> USE DEF dbVars, runVars, procVars, markVars, abortVars, hostVars
  <2>1. ASSUME NEW r \in Runs, RecordStart(r) PROVE Frozen
    BY <2>0, <2>1 DEF RecordStart, IInv, NoJobYet, FinalStatus
  <2>2. ASSUME NEW r \in Runs, RecordFinish(r) PROVE Frozen
    BY <2>0, <2>2, FinishWrites
  <2>3. ASSUME NEW m \in Markers, OrphanKill(m) PROVE Frozen
    BY <2>0, <2>3, KillWrites
  <2>4. ASSUME NEW m \in Markers, OrphanFinish(m) PROVE Frozen
    BY <2>0, <2>4, OrphanWrites
  <2>5. CASE UNCHANGED job
    BY <2>5
  <2> QED
    BY <2>1, <2>2, <2>3, <2>4, <2>5
    DEF Next, Thread, Trouble, Mark, Aborter, Booting, vars, Resolve, Anchor,
        ReserveFails, Claim, SetupRaises, PreflightFails, Spawn, RecordPid,
        Parse, Timeout, CommitWorktree, TaskDone, OnFailure, Raise, Reraise,
        ChildWrites, ChildExits, Sigterm, OrphanRead, OrphanReset, AbortTouch,
        AbortList, AbortTerm, AbortKill, AbortReturns, ClearAbort,
        DaemonCrash, CliCrash, Boot, BootSpares
<1> QED
  BY <1>1, AlwaysIInv, PTL DEF Spec, FinalJobsAreFrozen

(***************************************************************************)
(* Who calls dispatch_next, and who writes tasks.status                    *)
(***************************************************************************)

\* What the drain's in_flight set buys when nobody else dispatches: one call of
\* dispatch_next under way per feature.
OneRunPerFeature ==
  \A r, s \in Runs \ FixRuns :
    Active(r) /\ Active(s) /\ FeatureOf[runTask[r]] = FeatureOf[runTask[s]]
      => r = s

\* The run was active and has its task; if it is at 'resolved' it was there.
Kept(r) == /\ Active(r) /\ runTask'[r] = runTask[r]
           /\ pc'[r] = "resolved" => pc[r] = "resolved"

\* A thread that is running keeps the task it took, and only the resolver's
\* answer or the anchor of a fix starts one.
LEMMA RunStep ==
  ASSUME IInv, [Next]_vars, NEW r \in Runs, Active(r)'
  PROVE  \/ Kept(r)
         \/ \E t \in Tasks : Calls(r, t) /\ (Resolve(r, t) \/ Anchor(r, t))
<1> USE DispatchAssumption DEF IInv, TypeOK, Pc, Active, Kept, dbVars,
      runVars, procVars, markVars, abortVars, hostVars
<1>1. ASSUME NEW q \in Runs, NEW t \in Tasks, Resolve(q, t) \/ Anchor(q, t),
             q # r
      PROVE  Kept(r)
  <2>1. pc'[r] = pc[r] /\ runTask'[r] = runTask[r]
    BY <1>1 DEF Resolve, Anchor, Goto
  <2> QED
    BY <2>1
<1>2. ASSUME NEW q \in Runs, Thread(q) PROVE Kept(r)
  BY <1>2 DEF Thread, Claim, RecordStart, Spawn, RecordPid, Parse,
     RecordFinish, CommitWorktree, TaskDone, OnFailure, Reraise, Goto
<1>3. ASSUME NEW q \in Runs, Timeout(q) \/ ReserveFails(q)
                \/ PreflightFails(q) \/ SetupRaises(q) \/ Raise(q)
      PROVE  Kept(r)
  BY <1>3 DEF Timeout, ReserveFails, PreflightFails, SetupRaises, Raise, Goto
<1>4. ASSUME DaemonCrash \/ \E q \in Runs : CliCrash(q)
      PROVE  Kept(r)
  BY <1>4 DEF DaemonCrash, CliCrash, Stop
<1>5. ASSUME UNCHANGED <<pc, runTask>> PROVE Kept(r)
  BY <1>5
<1> HIDE DispatchAssumption DEF IInv, TypeOK, Pc, Active, Kept
<1> SUFFICES ASSUME ~\E t \in Tasks :
                          Calls(r, t) /\ (Resolve(r, t) \/ Anchor(r, t))
             PROVE  Kept(r)
  OBVIOUS
<1> QED
  BY <1>1, <1>2, <1>3, <1>4, <1>5
  DEF Next, Trouble, Mark, Aborter, Booting, vars, ChildWrites, ChildExits,
      Sigterm, OrphanRead, OrphanKill, OrphanFinish, OrphanReset, AbortTouch,
      AbortList, AbortTerm, AbortKill, AbortReturns, ClearAbort, Boot,
      BootSpares

\* The drain keeps it: what it starts finds no other call of its own there.
LEMMA SoloStep ==
  ASSUME Runs \ FixRuns \subseteq Loop, IInv, OneRunPerFeature, [Next]_vars
  PROVE  OneRunPerFeature'
<1> DEFINE Starts(p) == \E t \in Tasks :
                          Calls(p, t) /\ (Resolve(p, t) \/ Anchor(p, t))
<1> SUFFICES ASSUME NEW r \in Runs \ FixRuns, NEW s \in Runs \ FixRuns,
                    Active(r)', Active(s)',
                    FeatureOf[runTask'[r]] = FeatureOf[runTask'[s]]
             PROVE  r = s
  BY DEF OneRunPerFeature
<1>1. ASSUME NEW p \in Runs \ FixRuns, NEW q \in Runs \ FixRuns, Starts(p),
             Active(q)', FeatureOf[runTask'[p]] = FeatureOf[runTask'[q]]
      PROVE  p = q
  <2> SUFFICES ASSUME p # q PROVE FALSE
    OBVIOUS
  <2>1. PICK t \in Tasks : Calls(p, t) /\ Resolve(p, t)
    BY <1>1 DEF Anchor
  <2>2. Active(q) /\ runTask'[q] = runTask[q] /\ runTask'[p] = t
    BY <1>1, <2>1 DEF Resolve, Goto, Active, IInv, TypeOK
  <2>3. ~InFlight(FeatureOf[t])
    BY <2>1 DEF Calls
  <2> QED
    BY <1>1, <2>2, <2>3 DEF InFlight
<1>2. CASE Starts(r)
  BY <1>1, <1>2
<1>3. CASE Starts(s)
  BY <1>1, <1>3
<1>4. CASE /\ Active(r) /\ runTask'[r] = runTask[r]
           /\ Active(s) /\ runTask'[s] = runTask[s]
  BY <1>4 DEF OneRunPerFeature
<1> QED
  BY <1>2, <1>3, <1>4, RunStep DEF Kept

\* Only dispatch_next claims, and only it closes: a fix ends with its commit.
FixesDoNotClaim ==
  \A r \in Runs : pc[r] \in {"resolved", "claimed", "committed"} => r \notin FixRuns

\* A fix goes from its anchor to record_start: it never meets the claim.
LEMMA FixStep == ASSUME IInv, FixesDoNotClaim, [Next]_vars PROVE FixesDoNotClaim'
<1> USE DEF FixesDoNotClaim, dbVars, runVars, procVars, markVars, abortVars,
      hostVars
<1>0. pc \in [Runs -> Pc]
  BY DEF IInv, TypeOK
<1>1. ASSUME NEW q \in Runs, NEW t \in Tasks, Resolve(q, t) \/ Anchor(q, t)
      PROVE  FixesDoNotClaim'
  BY <1>0, <1>1 DEF Resolve, Anchor, Goto
<1>2. ASSUME NEW q \in Runs, Thread(q) PROVE FixesDoNotClaim'
  BY <1>0, <1>2 DEF Thread, Claim, RecordStart, Spawn, RecordPid, Parse,
     RecordFinish, CommitWorktree, TaskDone, OnFailure, Reraise, Goto
<1>3. ASSUME NEW q \in Runs, Timeout(q) \/ ReserveFails(q)
                \/ PreflightFails(q) \/ SetupRaises(q) \/ Raise(q)
      PROVE  FixesDoNotClaim'
  BY <1>0, <1>3 DEF Timeout, ReserveFails, PreflightFails, SetupRaises, Raise,
     Goto
<1>4. ASSUME DaemonCrash \/ \E q \in Runs : CliCrash(q) PROVE FixesDoNotClaim'
  BY <1>0, <1>4 DEF DaemonCrash, CliCrash, Stop
<1>5. ASSUME UNCHANGED pc PROVE FixesDoNotClaim'
  BY <1>5
<1> QED
  BY <1>1, <1>2, <1>3, <1>4, <1>5
  DEF Next, Trouble, Mark, Aborter, Booting, vars, ChildWrites, ChildExits,
      Sigterm, OrphanRead, OrphanKill, OrphanFinish, OrphanReset, AbortTouch,
      AbortList, AbortTerm, AbortKill, AbortReturns, ClearAbort, Boot,
      BootSpares

(***************************************************************************)
(* The life of a task                                                      *)
(***************************************************************************)

\* What the rows say about the board: the statuses a dispatch writes, a task
\* that was just resolved is still free, and no run works on a closed one.
OnBoard ==
  /\ \A t \in Tasks : task[t] \in {"todo", "in_progress", "done"}
  /\ \A r \in Runs : pc[r] = "resolved" => task[runTask[r]] = "todo"
  /\ \A r \in Runs \ FixRuns : Active(r) => task[runTask[r]] # "done"

\* The job a marker holds belongs to a run that took a task.
LEMMA ViewHasTask ==
  ASSUME IInv, NEW m \in Markers, view[m].step # "none"
  PROVE  runTask[view[m].run] \in Tasks
<1>1. view[m].run \in Runs /\ job[view[m].run] # "none"
  BY ViewHasRun DEF IInv, ViewIsLogged
<1> QED
  BY <1>1 DEF IInv, NoJobYet, TypeOK

\* Who writes tasks.status: the claim takes it, the two ends of on_success and
\* on_failure close it or give it back, mark_job_orphan gives it back.
LEMMA TaskWriters ==
  ASSUME [Next]_vars
  PROVE  \/ UNCHANGED task
         \/ \E r \in Runs : Claim(r) \/ TaskDone(r) \/ OnFailure(r)
         \/ \E m \in Markers : OrphanKill(m) \/ OrphanReset(m)
  BY DEF Next, Thread, Trouble, Mark, Aborter, Booting, vars, Resolve, Anchor,
      ReserveFails, RecordStart, SetupRaises, PreflightFails, Spawn,
      RecordPid, Parse, Timeout, RecordFinish, CommitWorktree, Raise, Reraise,
      ChildWrites, ChildExits, Sigterm, OrphanRead, OrphanFinish, AbortTouch,
      AbortList, AbortTerm, AbortKill, AbortReturns, ClearAbort, DaemonCrash,
      CliCrash, Boot, BootSpares, Goto, dbVars, runVars, procVars, markVars,
      abortVars, hostVars

\* A release is one move of the board, or none.
LEMMA ReleaseMoves ==
  ASSUME NEW t \in Tasks, task \in [Tasks -> TaskStatus],
         task' = ReleaseTask(t)
  PROVE  UNCHANGED task \/ Board!GiveBack(t)
<1>1. CASE task[t] = "in_progress"
  BY <1>1 DEF ReleaseTask, Board!GiveBack, Board!Move
<1>2. CASE task[t] # "in_progress"
  BY <1>2 DEF ReleaseTask
<1> QED
  BY <1>1, <1>2

\* Every step moves the board as TaskBoard allows, and says who moves it.
LEMMA BoardStep ==
  ASSUME IInv, OnBoard, [Next]_vars
  PROVE  \/ UNCHANGED task
         \/ \E r \in Runs : Claim(r) /\ Board!Take(runTask[r])
         \/ \E r \in Runs : TaskDone(r) /\ Board!Close(runTask[r])
         \/ \E t \in Tasks : Board!GiveBack(t)
<1> DEFINE Goal == \/ UNCHANGED task
                   \/ \E r \in Runs : Claim(r) /\ Board!Take(runTask[r])
                   \/ \E r \in Runs : TaskDone(r) /\ Board!Close(runTask[r])
                   \/ \E t \in Tasks : Board!GiveBack(t)
<1>0. task \in [Tasks -> TaskStatus]
  BY DEF IInv, TypeOK
<1>1. ASSUME NEW r \in Runs, Claim(r) PROVE Goal
  <2>1. runTask[r] \in Tasks
    BY <1>1 DEF Claim, Goto, IInv, TypeOK
  <2>2. task[runTask[r]] = "todo"
    BY <1>1 DEF Claim, Goto, OnBoard
  <2>3. Board!Take(runTask[r])
    BY <1>1, <2>1, <2>2 DEF Claim, Board!Take, Board!Move
  <2> QED
    BY <1>1, <2>3
<1>2. ASSUME NEW r \in Runs, TaskDone(r) PROVE Goal
  <2>1. runTask[r] \in Tasks
    BY <1>2 DEF TaskDone, Goto, IInv, TypeOK
  <2>2. CASE task[runTask[r]] = "in_progress"
    <3>1. Board!Close(runTask[r])
      BY <1>2, <2>1, <2>2 DEF TaskDone, Board!Close, Board!Move
    <3> QED
      BY <1>2, <3>1
  <2>3. CASE task[runTask[r]] # "in_progress"
    BY <1>0, <1>2, <2>3 DEF TaskDone
  <2> QED
    BY <2>2, <2>3
<1>3. ASSUME NEW r \in Runs, OnFailure(r) PROVE Goal
  <2>1. CASE r \in FixRuns
    BY <1>3, <2>1 DEF OnFailure
  <2>2. CASE r \notin FixRuns
    <3>1. runTask[r] \in Tasks /\ Active(r)
      BY <1>3 DEF OnFailure, Goto, IInv, TypeOK, Active
    <3>2. task[runTask[r]] = "todo" \/ task[runTask[r]] = "in_progress"
      BY <2>2, <3>1 DEF OnBoard
    <3>3. task' = [task EXCEPT ![runTask[r]] = "todo"]
      BY <1>3, <2>2 DEF OnFailure
    <3>4. CASE task[runTask[r]] = "in_progress"
      BY <3>1, <3>3, <3>4 DEF Board!GiveBack, Board!Move
    <3>5. CASE task[runTask[r]] = "todo"
      BY <1>0, <3>1, <3>3, <3>5
    <3> QED
      BY <3>2, <3>4, <3>5
  <2> QED
    BY <2>1, <2>2
<1>4. ASSUME NEW m \in Markers, OrphanKill(m) \/ OrphanReset(m) PROVE Goal
  <2>1. view[m].step # "none" /\ task' = ReleaseTask(runTask[view[m].run])
    BY <1>4 DEF OrphanKill, OrphanReset
  <2> QED
    BY <1>0, <2>1, ViewHasTask, ReleaseMoves
<1> QED
  BY <1>1, <1>2, <1>3, <1>4, TaskWriters

\* The board's facts are kept while one run at a time holds a feature: nobody
\* else claims or closes the task of a run.
LEMMA OnBoardStep ==
  ASSUME IInv, FixesDoNotClaim, OneRunPerFeature, OnBoard, [Next]_vars
  PROVE  OnBoard'
<1>0. task \in [Tasks -> TaskStatus]
  BY DEF IInv, TypeOK
<1>1. \A t \in Tasks : task'[t] \in {"todo", "in_progress", "done"}
  BY <1>0, BoardStep
  DEF OnBoard, Board!Take, Board!Close, Board!GiveBack, Board!Move
<1>2. ASSUME NEW r \in Runs, pc'[r] = "resolved"
      PROVE  task'[runTask'[r]] = "todo"
  <2>1. CASE \E t \in Tasks : Resolve(r, t) \/ Anchor(r, t)
    <3>1. PICK t \in Tasks : Resolve(r, t) \/ Anchor(r, t)
      BY <2>1
    <3>2. Resolve(r, t)
      BY <1>2, <3>1 DEF Anchor, Goto, IInv, TypeOK
    <3> QED
      BY <3>2 DEF Resolve, Ready, IInv, TypeOK, dbVars
  <2>2. CASE ~\E t \in Tasks : Resolve(r, t) \/ Anchor(r, t)
    <3>1. Active(r)'
      BY <1>2 DEF Active
    <3>2. Active(r) /\ runTask'[r] = runTask[r] /\ pc[r] = "resolved"
      BY <1>2, <2>2, <3>1, RunStep DEF Kept
    <3>3. task[runTask[r]] = "todo" /\ runTask[r] \in Tasks
      BY <3>2 DEF OnBoard, IInv, TypeOK
    <3>4. ASSUME NEW s \in Runs, Claim(s) PROVE runTask[s] # runTask[r]
      <4>1. Active(s) /\ s \notin FixRuns /\ r \notin FixRuns
        BY <3>2, <3>4 DEF Claim, Goto, Active, FixesDoNotClaim
      <4>2. s # r
        BY <1>2, <3>4 DEF Claim, Goto, IInv, TypeOK
      <4> QED
        BY <3>2, <4>1, <4>2 DEF OneRunPerFeature
    <3>5. task'[runTask[r]] = "todo"
      BY <1>0, <3>3, <3>4, BoardStep
      DEF Board!Take, Board!Close, Board!GiveBack, Board!Move
    <3> QED
      BY <3>2, <3>5
  <2> QED
    BY <2>1, <2>2
<1>3. ASSUME NEW r \in Runs \ FixRuns, Active(r)'
      PROVE  task'[runTask'[r]] # "done"
  <2>1. CASE \E t \in Tasks : Resolve(r, t) \/ Anchor(r, t)
    <3>1. PICK t \in Tasks : Resolve(r, t)
      BY <1>3, <2>1 DEF Anchor
    <3> QED
      BY <3>1 DEF Resolve, Ready, IInv, TypeOK, dbVars
  <2>2. CASE ~\E t \in Tasks : Resolve(r, t) \/ Anchor(r, t)
    <3>1. Active(r) /\ runTask'[r] = runTask[r]
      BY <1>3, <2>2, RunStep DEF Kept
    <3>2. task[runTask[r]] # "done" /\ runTask[r] \in Tasks
      BY <1>3, <3>1 DEF OnBoard, Active, IInv, TypeOK
    <3>3. ASSUME NEW s \in Runs, TaskDone(s) PROVE runTask[s] # runTask[r]
      <4>1. Active(s) /\ s \notin FixRuns
        BY <3>3 DEF TaskDone, Goto, Active, FixesDoNotClaim
      <4>2. s # r
        BY <1>3, <3>3 DEF TaskDone, Goto, Active, IInv, TypeOK
      <4> QED
        BY <3>1, <4>1, <4>2 DEF OneRunPerFeature
    <3>4. task'[runTask[r]] # "done"
      BY <1>0, <3>2, <3>3, BoardStep
      DEF Board!Take, Board!Close, Board!GiveBack, Board!Move
    <3> QED
      BY <3>1, <3>4
  <2> QED
    BY <2>1, <2>2
<1> QED
  BY <1>1, <1>2, <1>3 DEF OnBoard

\* While one drain makes every call of dispatch_next, the table implements what
\* the resolver relies on: a task is taken from todo only, then closed or given
\* back, and a closed task stays closed, whatever faults occur and however many
\* fix passes run beside.
THEOREM BoardImplemented ==
  ASSUME Runs \ FixRuns \subseteq Loop PROVE Spec => BoardSpec
<1> DEFINE Inv == IInv /\ FixesDoNotClaim /\ OneRunPerFeature /\ OnBoard
<1>1. Init => Inv /\ Board!Init
  BY InitIInv DEF Init, FixesDoNotClaim, OneRunPerFeature, OnBoard, Active,
     Board!Init
<1>2. Inv /\ [Next]_vars => Inv'
  BY StepIInv, FixStep, SoloStep, OnBoardStep
<1>3. Inv /\ [Next]_vars => [Board!Next]_task
  <2> SUFFICES ASSUME Inv, [Next]_vars, task' # task PROVE Board!Next
    OBVIOUS
  <2>1. \A r \in Runs : Claim(r) \/ TaskDone(r) => runTask[r] \in Tasks
    BY DEF Claim, TaskDone, Goto, IInv, TypeOK
  <2> QED
    BY <2>1, BoardStep DEF Board!Next
<1> QED
  BY <1>1, <1>2, <1>3, PTL DEF Spec, BoardSpec, Board!Spec

(***************************************************************************)
(* A closed task, and who reopens it                                       *)
(***************************************************************************)

\* Between the commit and the closing, the run has reported a success.
CommittedIsDone == \A r \in Runs : pc[r] = "committed" => parsed[r] = "done"

\* Who closed a task has ended, and its verdict is still there.
ClosedByARun ==
  \A t \in Tasks : task[t] = "done" =>
    \E s \in Runs \ FixRuns :
      runTask[s] = t /\ pc[s] = "ended" /\ parsed[s] = "done"

\* A run that has ended keeps what it took and what it reported, and one that is
\* about to close has just committed or has already reported.
LEMMA EndedStays ==
  ASSUME IInv, CommittedIsDone, [Next]_vars
  PROVE  /\ CommittedIsDone'
         /\ \A r \in Runs : pc[r] = "ended" =>
              UNCHANGED <<pc[r], runTask[r], parsed[r]>>
<1> DEFINE Goal == /\ CommittedIsDone'
                   /\ \A r \in Runs : pc[r] = "ended" =>
                        UNCHANGED <<pc[r], runTask[r], parsed[r]>>
<1> USE DEF IInv, TypeOK, Pc, CommittedIsDone, dbVars, runVars, procVars,
      markVars, abortVars, hostVars
<1>1. ASSUME NEW q \in Runs, NEW t \in Tasks, Resolve(q, t) \/ Anchor(q, t)
      PROVE  Goal
  BY <1>1 DEF Resolve, Anchor, Goto
<1>2. ASSUME NEW q \in Runs, Claim(q) \/ RecordStart(q) \/ Spawn(q)
                \/ RecordPid(q) \/ RecordFinish(q) \/ TaskDone(q)
                \/ OnFailure(q) \/ Reraise(q)
      PROVE  Goal
  BY <1>2 DEF Claim, RecordStart, Spawn, RecordPid, RecordFinish, TaskDone,
     OnFailure, Reraise, Goto
<1>3. ASSUME NEW q \in Runs, Parse(q) \/ CommitWorktree(q) PROVE Goal
  BY <1>3 DEF Parse, CommitWorktree, Goto
<1>4. ASSUME NEW q \in Runs, Timeout(q) \/ ReserveFails(q)
                \/ PreflightFails(q) \/ SetupRaises(q) \/ Raise(q)
      PROVE  Goal
  BY <1>4 DEF Timeout, ReserveFails, PreflightFails, SetupRaises, Raise, Goto
<1>5. ASSUME DaemonCrash \/ \E q \in Runs : CliCrash(q) PROVE Goal
  BY <1>5 DEF DaemonCrash, CliCrash, Stop, Active
<1>6. ASSUME UNCHANGED <<pc, runTask, parsed>> PROVE Goal
  BY <1>6
<1> HIDE DEF Goal
<1>7. Goal
  BY <1>1, <1>2, <1>3, <1>4, <1>5, <1>6
  DEF Next, Thread, Trouble, Mark, Aborter, Booting, vars, ChildWrites,
      ChildExits, Sigterm, OrphanRead, OrphanKill, OrphanFinish, OrphanReset,
      AbortTouch, AbortList, AbortTerm, AbortKill, AbortReturns, ClearAbort,
      Boot, BootSpares
<1> QED
  BY <1>7 DEF Goal

\* A task is closed by a run that commits, reports and ends in that step.
LEMMA ClosedStep ==
  ASSUME IInv, FixesDoNotClaim, CommittedIsDone, ClosedByARun, [Next]_vars
  PROVE  ClosedByARun'
<1> SUFFICES ASSUME NEW t \in Tasks, task'[t] = "done"
             PROVE  \E s \in Runs \ FixRuns :
                      /\ runTask'[s] = t /\ pc'[s] = "ended"
                      /\ parsed'[s] = "done"
  BY DEF ClosedByARun
<1>0. task \in [Tasks -> TaskStatus] /\ pc \in [Runs -> Pc]
  BY DEF IInv, TypeOK
<1>1. CASE task[t] = "done"
  BY <1>1, EndedStays DEF ClosedByARun
<1>2. CASE task[t] # "done"
  <2>1. PICK s \in Runs : TaskDone(s) /\ runTask[s] = t
    BY <1>0, <1>2, TaskWriters
    DEF Claim, TaskDone, OnFailure, OrphanKill, OrphanReset, ReleaseTask
  <2>2. s \notin FixRuns /\ parsed[s] = "done"
    BY <2>1 DEF TaskDone, Goto, FixesDoNotClaim, CommittedIsDone
  <2>3. pc'[s] = "ended" /\ runTask'[s] = t /\ parsed'[s] = "done"
    BY <1>0, <2>1, <2>2 DEF TaskDone, Goto
  <2> QED
    BY <2>2, <2>3
<1> QED
  BY <1>1, <1>2

\* A closed task is reopened only by a run that had resolved it before another
\* one closed it: its claim, or its own failure.  The releases of an abort, of
\* a boot and of an exception never touch it.
THEOREM LateRunsReopen == Spec => ReopenedByALateRun
<1> DEFINE Inv == IInv /\ FixesDoNotClaim /\ CommittedIsDone /\ ClosedByARun
           Late(t) ==
             \E r, s \in Runs \ FixRuns :
               /\ runTask[s] = t /\ pc[s] = "ended" /\ parsed[s] = "done"
               /\ runTask[r] = t /\ pc'[r] # pc[r]
               /\ \/ pc[r] = "resolved"
                  \/ pc[r] = "finished" /\ parsed[r] # "done"
           Step == \A t \in Tasks :
                     task[t] = "done" /\ task'[t] # "done" => Late(t)
<1>1. Init => Inv
  BY InitIInv DEF Init, FixesDoNotClaim, CommittedIsDone, ClosedByARun
<1>2. Inv /\ [Next]_vars => Inv'
  BY StepIInv, FixStep, EndedStays, ClosedStep
<1>3. Inv /\ [Next]_vars => Step
  <2> SUFFICES ASSUME Inv, [Next]_vars, NEW t \in Tasks,
                      task[t] = "done", task'[t] # "done"
               PROVE  Late(t)
    OBVIOUS
  <2>0. task \in [Tasks -> TaskStatus] /\ pc \in [Runs -> Pc]
    BY DEF IInv, TypeOK
  <2>1. PICK s \in Runs \ FixRuns :
          runTask[s] = t /\ pc[s] = "ended" /\ parsed[s] = "done"
    BY DEF ClosedByARun
  <2>2. PICK r \in Runs : runTask[r] = t /\ (Claim(r) \/ OnFailure(r))
    BY <2>0, TaskWriters
    DEF Claim, TaskDone, OnFailure, OrphanKill, OrphanReset, ReleaseTask
  <2>3. r \notin FixRuns
    BY <2>2 DEF Claim, OnFailure, Goto, FixesDoNotClaim
  <2>4. /\ pc'[r] # pc[r]
        /\ pc[r] = "resolved" \/ (pc[r] = "finished" /\ parsed[r] # "done")
    BY <2>0, <2>2 DEF Claim, OnFailure, Goto
  <2> QED
    BY <2>1, <2>2, <2>3, <2>4
<1> QED
  BY <1>1, <1>2, <1>3, PTL DEF Spec, ReopenedByALateRun

(***************************************************************************)
(* A claim is never stranded                                               *)
(***************************************************************************)

\* What keeps a claim: the thread is before record_start or after
\* record_finish, the job runs, or a marker has finalised it and not yet
\* released the task.
Holds(r, t) ==
  /\ runTask[r] = t
  /\ \/ pc[r] \in {"claimed", "finished", "committed"}
     \/ job[r] = "running"
     \/ \E m \in Markers : view[m].step = "reset" /\ view[m].run = r

ClaimIsHeld ==
  \A t \in Tasks : task[t] = "in_progress" => \E r \in Runs \ FixRuns : Holds(r, t)

\* What holds a claim hands it on, or the step that lets go of it takes the
\* task out of in_progress.
LEMMA HoldStep ==
  ASSUME "crash" \notin Faults, "commit" \notin Faults, "write" \notin Faults,
         IInv, [Next]_vars, NEW r \in Runs \ FixRuns, NEW t \in Tasks,
         Holds(r, t)
  PROVE  Holds(r, t)' \/ task'[t] # "in_progress"
<1> DEFINE Goal == Holds(r, t)' \/ task'[t] # "in_progress"
<1> USE DEF dbVars, runVars, procVars, markVars, abortVars, hostVars, Holds
<1>0. /\ task \in [Tasks -> TaskStatus] /\ job \in [Runs -> JobStatus]
      /\ pc \in [Runs -> Pc] /\ runTask \in [Runs -> Tasks \cup {None}]
      /\ view \in [Markers -> Views]
      /\ pc[r] \notin {"idle", "resolved", "anchored"}
  BY ViewHasRun DEF IInv, TypeOK, NoJobYet, ViewIsLogged
<1>1. ASSUME NEW q \in Runs, NEW u \in Tasks, Resolve(q, u) \/ Anchor(q, u)
      PROVE  Goal
  BY <1>0, <1>1 DEF Resolve, Anchor, Goto
<1>2. ASSUME NEW q \in Runs, Claim(q) PROVE Goal
  BY <1>0, <1>2 DEF Claim, Goto
<1>3. ASSUME NEW q \in Runs, RecordStart(q) PROVE Goal
  BY <1>0, <1>3 DEF RecordStart
<1>4. ASSUME NEW q \in Runs, Spawn(q) \/ RecordPid(q) \/ Parse(q) \/ Reraise(q)
      PROVE  Goal
  BY <1>0, <1>4 DEF Spawn, RecordPid, Parse, Reraise, Goto
<1>5. ASSUME NEW q \in Runs, RecordFinish(q) PROVE Goal
  BY <1>0, <1>5 DEF RecordFinish, Goto
<1>6. ASSUME NEW q \in Runs, CommitWorktree(q) PROVE Goal
  BY <1>0, <1>6 DEF CommitWorktree
<1>7. ASSUME NEW q \in Runs, TaskDone(q) PROVE Goal
  BY <1>0, <1>7 DEF TaskDone, Goto
<1>8. ASSUME NEW q \in Runs, OnFailure(q) PROVE Goal
  BY <1>0, <1>8 DEF OnFailure, Goto
<1>9. ASSUME NEW q \in Runs, Timeout(q) \/ ReserveFails(q)
                \/ PreflightFails(q) \/ SetupRaises(q)
      PROVE  Goal
  BY <1>0, <1>9 DEF Timeout, ReserveFails, PreflightFails, SetupRaises, Goto
<1>10. ASSUME NEW q \in Runs, Raise(q) PROVE Goal
  BY <1>0, <1>10 DEF Raise
<1>11. ASSUME NEW m \in Markers, NEW q \in Runs, OrphanRead(m, q) PROVE Goal
  BY <1>0, <1>11 DEF OrphanRead
<1>12. ASSUME NEW m \in Markers, OrphanKill(m) PROVE Goal
  <2>1. CASE view[m].run = r
    BY <1>0, <1>12, <2>1 DEF OrphanKill, ReleaseTask
  <2>2. CASE view[m].run # r
    BY <1>0, <1>12, <2>2 DEF OrphanKill
  <2> QED
    BY <2>1, <2>2
<1>13. ASSUME NEW m \in Markers, OrphanFinish(m) PROVE Goal
  <2>0. view'[m].step = "reset" /\ \A n \in Markers : view'[n].run = view[n].run
    BY <1>0, <1>13 DEF OrphanFinish, Views, NoView
  <2>1. CASE view[m].run = r
    BY <1>0, <1>13, <2>0, <2>1 DEF OrphanFinish
  <2>2. CASE view[m].run # r
    BY <1>0, <1>13, <2>2 DEF OrphanFinish
  <2> QED
    BY <2>1, <2>2
<1>14. ASSUME NEW m \in Markers, OrphanReset(m) PROVE Goal
  <2>1. CASE view[m].run = r
    BY <1>0, <1>14, <2>1 DEF OrphanReset, ReleaseTask
  <2>2. CASE view[m].run # r
    BY <1>0, <1>14, <2>2 DEF OrphanReset
  <2> QED
    BY <2>1, <2>2
<1>15. ASSUME UNCHANGED <<pc, runTask, job, view>> PROVE Goal
  BY <1>15
<1>16. ~DaemonCrash /\ \A q \in Runs : ~CliCrash(q)
  BY DEF DaemonCrash, CliCrash
<1> HIDE DEF Goal, Holds
<1>17. Goal
  BY <1>1, <1>2, <1>3, <1>4, <1>5, <1>6, <1>7, <1>8, <1>9, <1>10, <1>11,
     <1>12, <1>13, <1>14, <1>15, <1>16
  DEF Next, Thread, Trouble, Mark, Aborter, Booting, vars, ChildWrites,
      ChildExits, Sigterm, AbortTouch, AbortList, AbortTerm, AbortKill,
      AbortReturns, ClearAbort, Boot, BootSpares
<1> QED
  BY <1>17 DEF Goal

\* A claim is held from the moment it is written.
LEMMA ClaimHeldStep ==
  ASSUME "crash" \notin Faults, "commit" \notin Faults, "write" \notin Faults,
         IInv, FixesDoNotClaim, ClaimIsHeld, [Next]_vars
  PROVE  ClaimIsHeld'
<1> SUFFICES ASSUME NEW t \in Tasks, task'[t] = "in_progress"
             PROVE  \E r \in Runs \ FixRuns : Holds(r, t)'
  BY DEF ClaimIsHeld
<1>1. CASE task[t] = "in_progress"
  BY <1>1, HoldStep DEF ClaimIsHeld
<1>2. CASE task[t] # "in_progress"
  <2>0. task \in [Tasks -> TaskStatus] /\ pc \in [Runs -> Pc]
    BY DEF IInv, TypeOK
  <2>1. PICK r \in Runs : Claim(r) /\ runTask[r] = t
    BY <1>2, <2>0, TaskWriters
    DEF Claim, TaskDone, OnFailure, OrphanKill, OrphanReset, ReleaseTask
  <2>2. r \notin FixRuns /\ pc'[r] = "claimed" /\ runTask'[r] = t
    BY <2>0, <2>1 DEF Claim, Goto, FixesDoNotClaim
  <2> QED
    BY <2>2 DEF Holds
<1> QED
  BY <1>1, <1>2

\* A claimed task is never stranded, unless a process dies or the write that
\* ends on_success or on_failure raises.
THEOREM ClaimsAreHeld ==
  ASSUME "crash" \notin Faults, "commit" \notin Faults, "write" \notin Faults
  PROVE  Spec => []InProgressIsHeld
<1> DEFINE Inv == IInv /\ FixesDoNotClaim /\ ClaimIsHeld
<1>1. Init => Inv
  BY InitIInv DEF Init, FixesDoNotClaim, ClaimIsHeld
<1>2. Inv /\ [Next]_vars => Inv'
  BY StepIInv, FixStep, ClaimHeldStep
<1>3. Inv => InProgressIsHeld
  BY DEF InProgressIsHeld, ClaimIsHeld, Holds, Active
<1> QED
  BY <1>1, <1>2, <1>3, PTL DEF Spec

(***************************************************************************)
(* What a boot and an abort settle                                         *)
(***************************************************************************)

\* record_pid comes after the spawn: a recorded process is never spawned again.
PidIsLate ==
  \A r \in Runs : pid[r] =>
    pc[r] \notin {"idle", "resolved", "claimed", "anchored", "recorded", "spawned"}

\* Once the daemon is up, a zombie of the previous one is still to be passed to
\* mark_job_orphan, or its process was recorded.
BootHasZombies ==
  daemonUp => \A r \in DaemonRuns :
    pc[r] = "crashed" /\ job[r] = "running" => r \in pending["boot"] \cup bootPids

\* The boot probes before it reads, and nobody respawns what it probed.
BootProbed ==
  /\ \A r \in bootPids : pid[r]
  /\ ~daemonUp => view["boot"].step = "none"
  /\ view["boot"].step = "read" /\ view["boot"].run \in bootPids
       => child[view["boot"].run] # "alive"

\* An abort lists jobs that started, and once it has sent SIGKILL it still has
\* every running one of them to mark.
AbortHasTargets ==
  /\ \A r \in targets : job[r] # "none"
  /\ \A r \in groups : pid[r]
  /\ stage = "marking" =>
       /\ \A r \in targets : job[r] = "running" => r \in pending["abort"]
       /\ \A r \in groups : child[r] # "alive"

MarksInv == IInv /\ PidIsLate /\ BootHasZombies /\ BootProbed /\ AbortHasTargets

\* record_pid is written by the run's own thread, once it waits.
LEMMA PidStep == ASSUME IInv, PidIsLate, [Next]_vars PROVE PidIsLate'
<1> USE DEF PidIsLate, dbVars, runVars, procVars, markVars, abortVars, hostVars
<1>0. pc \in [Runs -> Pc] /\ pid \in [Runs -> BOOLEAN]
  BY DEF IInv, TypeOK
<1>1. ASSUME NEW q \in Runs, NEW t \in Tasks, Resolve(q, t) \/ Anchor(q, t)
      PROVE  PidIsLate'
  BY <1>0, <1>1 DEF Resolve, Anchor, Goto
<1>2. ASSUME NEW q \in Runs, Thread(q) PROVE PidIsLate'
  BY <1>0, <1>2 DEF Thread, Claim, RecordStart, Spawn, RecordPid, Parse,
     RecordFinish, CommitWorktree, TaskDone, OnFailure, Reraise, Goto
<1>3. ASSUME NEW q \in Runs, Timeout(q) \/ ReserveFails(q)
                \/ PreflightFails(q) \/ SetupRaises(q) \/ Raise(q)
      PROVE  PidIsLate'
  BY <1>0, <1>3 DEF Timeout, ReserveFails, PreflightFails, SetupRaises, Raise,
     Goto
<1>4. ASSUME DaemonCrash \/ \E q \in Runs : CliCrash(q) PROVE PidIsLate'
  BY <1>0, <1>4 DEF DaemonCrash, CliCrash, Stop, Active
<1>5. ASSUME UNCHANGED <<pc, pid>> PROVE PidIsLate'
  BY <1>5
<1> HIDE DEF PidIsLate
<1> QED
  BY <1>1, <1>2, <1>3, <1>4, <1>5
  DEF Next, Trouble, Mark, Aborter, Booting, vars, ChildWrites, ChildExits,
      Sigterm, OrphanRead, OrphanKill, OrphanFinish, OrphanReset, AbortTouch,
      AbortList, AbortTerm, AbortKill, AbortReturns, ClearAbort, Boot,
      BootSpares

\* The job was probed alive, by the boot that is running.
Spared(r) == r \in bootPids /\ UNCHANGED bootPids

\* A job leaves a marker's list only when it is final, or spared by the boot;
\* a crash empties the lists of the threads that stopped with it.
LEMMA PendingStep ==
  ASSUME IInv, [Next]_vars, NEW m \in {"abort", "boot"}, NEW r \in pending[m],
         r \notin pending'[m]
  PROVE  \/ job'[r] # "running"
         \/ m = "boot" /\ (DaemonCrash \/ Boot \/ Spared(r))
         \/ m = "abort" /\ AbortKill
<1> DEFINE Goal == \/ job'[r] # "running"
                   \/ m = "boot" /\ (DaemonCrash \/ Boot \/ Spared(r))
                   \/ m = "abort" /\ AbortKill
<1> USE DispatchAssumption DEF dbVars, runVars, procVars, markVars, abortVars,
      hostVars
<1>0. /\ job \in [Runs -> JobStatus] /\ pending \in [Markers -> SUBSET Runs]
      /\ m \in Markers /\ m \notin Runs /\ r \in Runs
  BY DEF IInv, TypeOK, Markers
<1>1. ASSUME NEW q \in Runs, Raise(q) \/ CliCrash(q) PROVE FALSE
  BY <1>0, <1>1 DEF Raise, CliCrash
<1>2. ASSUME NEW n \in Markers, NEW q \in Runs, OrphanRead(n, q) PROVE Goal
  BY <1>0, <1>2 DEF OrphanRead
<1>3. ASSUME NEW n \in Markers, OrphanKill(n) PROVE Goal
  <2>1. n = m /\ view[n].run = r
    BY <1>0, <1>3 DEF OrphanKill
  <2>2. job'[r] # "running"
    BY <1>0, <1>3, <2>1 DEF OrphanKill
  <2> QED
    BY <2>2
<1>4. ASSUME NEW n \in Markers, OrphanReset(n) PROVE Goal
  <2>1. n = m /\ view[n].run = r
    BY <1>0, <1>4 DEF OrphanReset
  <2>2. job[r] \in FinalStatus /\ job' = job
    BY <1>4, <2>1 DEF OrphanReset, IInv, ViewIsLogged
  <2> QED
    BY <2>2 DEF FinalStatus
<1>5. ASSUME NEW q \in Runs, BootSpares(q) PROVE Goal
  BY <1>0, <1>5 DEF BootSpares, Spared
<1>6. ASSUME AbortKill PROVE Goal
  BY <1>0, <1>6 DEF AbortKill
<1>7. ASSUME Boot PROVE Goal
  BY <1>0, <1>7 DEF Boot
<1>8. ASSUME DaemonCrash PROVE Goal
  BY <1>0, <1>8 DEF DaemonCrash, DaemonRuns
<1> HIDE DEF Goal
<1>9. ASSUME UNCHANGED pending PROVE FALSE
  BY <1>9
<1>10. \/ \E q \in Runs : Raise(q) \/ CliCrash(q) \/ BootSpares(q)
       \/ \E n \in Markers : (\E q \in Runs : OrphanRead(n, q))
                                \/ OrphanKill(n) \/ OrphanReset(n)
       \/ AbortKill \/ Boot \/ DaemonCrash
  BY <1>9
  DEF Next, Thread, Trouble, Mark, Aborter, Booting, vars, Resolve, Anchor,
      ReserveFails, Claim, RecordStart, SetupRaises, PreflightFails, Spawn,
      RecordPid, Parse, Timeout, RecordFinish, CommitWorktree, TaskDone,
      OnFailure, Reraise, ChildWrites, ChildExits, Sigterm, OrphanFinish,
      AbortTouch, AbortList, AbortTerm, AbortReturns, ClearAbort
<1>11. Goal
  BY <1>1, <1>2, <1>3, <1>4, <1>5, <1>6, <1>7, <1>8, <1>10
<1> QED
  BY <1>11 DEF Goal

\* A job starts once, from no job; a final one never runs again.
LEMMA JobStep ==
  ASSUME IInv, [Next]_vars, NEW r \in Runs, job'[r] = "running"
  PROVE  job[r] = "running" \/ RecordStart(r)
<1> USE DEF dbVars, runVars, procVars, markVars, abortVars, hostVars
<1>0. job \in [Runs -> JobStatus] /\ parsed[r] # "running"
  BY DEF IInv, TypeOK, ParsedState
<1>1. ASSUME NEW q \in Runs, RecordStart(q), q # r PROVE job[r] = "running"
  BY <1>0, <1>1 DEF RecordStart
<1>2. ASSUME NEW q \in Runs, RecordFinish(q) PROVE job[r] = "running"
  BY <1>0, <1>2, FinishWrites
<1>3. ASSUME NEW m \in Markers, OrphanKill(m) PROVE job[r] = "running"
  BY <1>0, <1>3, KillWrites
<1>4. ASSUME NEW m \in Markers, OrphanFinish(m) PROVE job[r] = "running"
  BY <1>0, <1>4, OrphanWrites
<1>5. ASSUME UNCHANGED job PROVE job[r] = "running"
  BY <1>5
<1> SUFFICES ASSUME ~RecordStart(r) PROVE job[r] = "running"
  OBVIOUS
<1> QED
  BY <1>1, <1>2, <1>3, <1>4, <1>5
  DEF Next, Thread, Trouble, Mark, Aborter, Booting, vars, Resolve, Anchor,
      ReserveFails, Claim, SetupRaises, PreflightFails, Spawn, RecordPid,
      Parse, Timeout, CommitWorktree, TaskDone, OnFailure, Raise, Reraise,
      ChildWrites, ChildExits, Sigterm, OrphanRead, OrphanReset, AbortTouch,
      AbortList, AbortTerm, AbortKill, AbortReturns, ClearAbort,
      DaemonCrash, CliCrash, Boot, BootSpares

\* A job that exists does not disappear, and neither does its pid.
LEMMA RowsStay ==
  ASSUME IInv, [Next]_vars, NEW r \in Runs
  PROVE  (job[r] # "none" => job'[r] # "none") /\ (pid[r] => pid'[r])
<1> USE DEF dbVars, runVars, procVars, markVars, abortVars, hostVars
<1>0. job \in [Runs -> JobStatus] /\ pid \in [Runs -> BOOLEAN]
  BY DEF IInv, TypeOK
<1>1. pid[r] => pid'[r]
  <2>1. ASSUME NEW q \in Runs, RecordPid(q) PROVE pid[r] => pid'[r]
    BY <1>0, <2>1 DEF RecordPid
  <2> QED
    BY ZenonT(60), <2>1
    DEF Next, Thread, Trouble, Mark, Aborter, Booting, vars, Resolve, Anchor,
        ReserveFails, Claim, RecordStart, SetupRaises, PreflightFails, Spawn,
        Parse, Timeout, RecordFinish, CommitWorktree, TaskDone, OnFailure,
        Raise, Reraise, ChildWrites, ChildExits, Sigterm, OrphanRead,
        OrphanKill, OrphanFinish, OrphanReset, AbortTouch, AbortList,
        AbortTerm, AbortKill, AbortReturns, ClearAbort, DaemonCrash, CliCrash,
        Boot, BootSpares
<1>2. ASSUME job[r] # "none" PROVE job'[r] # "none"
  <2>1. ASSUME NEW q \in Runs, RecordStart(q) PROVE job'[r] # "none"
    BY <1>0, <1>2, <2>1 DEF RecordStart
  <2>2. ASSUME NEW q \in Runs, RecordFinish(q) PROVE job'[r] # "none"
    <3>1. parsed[q] # "none"
      BY <2>2 DEF RecordFinish, Goto, IInv, ParsedIsLogged
    <3> QED
      BY <1>0, <1>2, <2>2, <3>1, FinishWrites
  <2>3. ASSUME NEW m \in Markers, OrphanKill(m) PROVE job'[r] # "none"
    BY <1>0, <1>2, <2>3, KillWrites
  <2>4. ASSUME NEW m \in Markers, OrphanFinish(m) PROVE job'[r] # "none"
    BY <1>0, <1>2, <2>4, OrphanWrites DEF Verdict
  <2>5. ASSUME UNCHANGED job PROVE job'[r] # "none"
    BY <1>2, <2>5
  <2> QED
    BY <2>1, <2>2, <2>3, <2>4, <2>5
    DEF Next, Thread, Trouble, Mark, Aborter, Booting, vars, Resolve, Anchor,
        ReserveFails, Claim, SetupRaises, PreflightFails, Spawn, RecordPid,
        Parse, Timeout, CommitWorktree, TaskDone, OnFailure, Raise, Reraise,
        ChildWrites, ChildExits, Sigterm, OrphanRead, OrphanReset, AbortTouch,
        AbortList, AbortTerm, AbortKill, AbortReturns, ClearAbort,
        DaemonCrash, CliCrash, Boot, BootSpares
<1> QED
  BY <1>1, <1>2

\* A worker is started once, before its pid is recorded.
LEMMA ChildStep ==
  ASSUME IInv, PidIsLate, [Next]_vars, NEW r \in Runs, pid[r], child'[r] = "alive"
  PROVE  child[r] = "alive"
<1> USE DEF dbVars, runVars, procVars, markVars, abortVars, hostVars
<1>0. child \in [Runs -> Children] /\ pc[r] # "recorded"
  BY DEF IInv, TypeOK, PidIsLate
<1>1. ASSUME NEW q \in Runs, Spawn(q) PROVE child[r] = "alive"
  BY <1>0, <1>1 DEF Spawn, Goto
<1>2. ASSUME NEW q \in Runs, Timeout(q) \/ ChildExits(q) \/ Sigterm(q)
      PROVE  child[r] = "alive"
  BY <1>0, <1>2 DEF Timeout, ChildExits, Sigterm
<1>3. ASSUME AbortTerm \/ AbortKill PROVE child[r] = "alive"
  BY <1>0, <1>3 DEF AbortTerm, AbortKill
<1>4. ASSUME DaemonCrash \/ \E q \in Runs : CliCrash(q) PROVE child[r] = "alive"
  BY <1>0, <1>4 DEF DaemonCrash, CliCrash, Stop
<1>5. ASSUME UNCHANGED child PROVE child[r] = "alive"
  BY <1>5
<1> QED
  BY <1>1, <1>2, <1>3, <1>4, <1>5
  DEF Next, Thread, Trouble, Mark, Aborter, Booting, vars, Resolve, Anchor,
      ReserveFails, Claim, RecordStart, SetupRaises, PreflightFails, RecordPid,
      Parse, RecordFinish, CommitWorktree, TaskDone, OnFailure, Raise, Reraise,
      ChildWrites, OrphanRead, OrphanKill, OrphanFinish, OrphanReset,
      AbortTouch, AbortList, AbortReturns, ClearAbort, Boot, BootSpares

\* Who stops and starts the daemon, and who makes a daemon run a crashed one.
LEMMA HostStep ==
  ASSUME IInv, [Next]_vars
  PROVE  \/ DaemonCrash
         \/ Boot
         \/ /\ UNCHANGED hostVars
            /\ \A r \in DaemonRuns : pc'[r] = "crashed" => pc[r] = "crashed"
<1> DEFINE Same == /\ UNCHANGED hostVars
                   /\ \A r \in DaemonRuns : pc'[r] = "crashed" => pc[r] = "crashed"
<1> USE DEF DaemonRuns, dbVars, runVars, procVars, markVars, abortVars, hostVars
<1>0. pc \in [Runs -> Pc]
  BY DEF IInv, TypeOK
<1>1. ASSUME NEW q \in Runs, NEW t \in Tasks, Resolve(q, t) \/ Anchor(q, t)
      PROVE  Same
  BY <1>0, <1>1 DEF Resolve, Anchor, Goto
<1>2. ASSUME NEW q \in Runs, Thread(q) PROVE Same
  BY <1>0, <1>2 DEF Thread, Claim, RecordStart, Spawn, RecordPid, Parse,
     RecordFinish, CommitWorktree, TaskDone, OnFailure, Reraise, Goto
<1>3. ASSUME NEW q \in Runs, Timeout(q) \/ ReserveFails(q)
                \/ PreflightFails(q) \/ SetupRaises(q) \/ Raise(q)
      PROVE  Same
  BY <1>0, <1>3 DEF Timeout, ReserveFails, PreflightFails, SetupRaises, Raise,
     Goto
<1>4. ASSUME NEW q \in Runs, CliCrash(q) PROVE Same
  BY <1>0, <1>4 DEF CliCrash, Stop
<1>5. ASSUME UNCHANGED <<pc, hostVars>> PROVE Same
  BY <1>5
<1> HIDE DEF Same
<1>6. DaemonCrash \/ Boot \/ Same
  BY <1>1, <1>2, <1>3, <1>4, <1>5
  DEF Next, Trouble, Mark, Aborter, Booting, vars, ChildWrites, ChildExits,
      Sigterm, OrphanRead, OrphanKill, OrphanFinish, OrphanReset, AbortTouch,
      AbortList, AbortTerm, AbortKill, AbortReturns, ClearAbort, BootSpares
<1> QED
  BY <1>6 DEF Same

\* Zombies stay in the boot's list until they are final or were spared.
LEMMA ZombieStep ==
  ASSUME IInv, BootHasZombies, [Next]_vars PROVE BootHasZombies'
<1> SUFFICES ASSUME daemonUp', NEW r \in DaemonRuns, pc'[r] = "crashed",
                    job'[r] = "running"
             PROVE  r \in pending'["boot"] \cup bootPids'
  BY DEF BootHasZombies
<1>0. r \in Runs /\ pc \in [Runs -> Pc] /\ pending \in [Markers -> SUBSET Runs]
  BY DEF DaemonRuns, IInv, TypeOK
<1>1. ~DaemonCrash
  BY DEF DaemonCrash
<1>2. CASE Boot
  BY <1>0, <1>2 DEF Boot, dbVars, Markers
<1>3. CASE UNCHANGED hostVars /\ pc[r] = "crashed"
  <2>1. ~RecordStart(r)
    BY <1>0 DEF RecordStart
  <2>2. job[r] = "running"
    BY <1>0, <2>1, JobStep
  <2>3. r \in pending["boot"] \cup bootPids
    BY <1>3, <2>2 DEF BootHasZombies, hostVars
  <2>4. CASE r \in bootPids
    BY <1>3, <2>4 DEF hostVars
  <2>5. CASE r \in pending["boot"] /\ r \notin bootPids /\ ~Boot
    BY <1>1, <2>5, PendingStep DEF Spared
  <2> QED
    BY <1>2, <2>3, <2>4, <2>5
<1> QED
  BY <1>1, <1>2, <1>3, HostStep

\* The boot reads what it probed; nothing else writes its view.
LEMMA BootReads ==
  ASSUME IInv, [Next]_vars
  PROVE  \/ view'["boot"] = view["boot"]
         \/ DaemonCrash
         \/ daemonUp /\ view'["boot"].step # "read"
         \/ \E r \in Runs : OrphanRead("boot", r) /\ view'["boot"].run = r
<1> DEFINE Goal == \/ view'["boot"] = view["boot"]
                   \/ DaemonCrash
                   \/ daemonUp /\ view'["boot"].step # "read"
                   \/ \E r \in Runs : OrphanRead("boot", r) /\ view'["boot"].run = r
<1> USE DispatchAssumption DEF MarkerUp, dbVars, runVars, procVars, markVars, abortVars,
      hostVars
<1>0. view \in [Markers -> Views] /\ "boot" \in Markers
  BY DEF IInv, TypeOK, Markers
<1>1. ASSUME NEW m \in Markers, NEW r \in Runs, OrphanRead(m, r) PROVE Goal
  <2>1. CASE m = "boot" /\ job[r] = "running"
    BY <1>0, <1>1, <2>1 DEF OrphanRead
  <2>2. CASE m # "boot" \/ job[r] # "running"
    BY <1>0, <1>1, <2>2 DEF OrphanRead
  <2> QED
    BY <2>1, <2>2
<1>2. ASSUME NEW m \in Markers, OrphanKill(m) \/ OrphanReset(m) PROVE Goal
  BY <1>0, <1>2 DEF OrphanKill, OrphanReset, NoView
<1>3. ASSUME NEW m \in Markers, OrphanFinish(m) PROVE Goal
  BY <1>0, <1>3 DEF OrphanFinish, Views, NoView
<1>4. ASSUME DaemonCrash PROVE Goal
  BY <1>4
<1>5. ASSUME NEW q \in Runs, CliCrash(q) PROVE Goal
  BY <1>0, <1>5 DEF CliCrash
<1>6. ASSUME UNCHANGED view PROVE Goal
  BY <1>6
<1> HIDE DEF Goal
<1>7. Goal
  BY <1>1, <1>2, <1>3, <1>4, <1>5, <1>6
  DEF Next, Thread, Trouble, Mark, Aborter, Booting, vars, Resolve, Anchor,
      ReserveFails, Claim, RecordStart, SetupRaises, PreflightFails, Spawn,
      RecordPid, Parse, Timeout, RecordFinish, CommitWorktree, TaskDone,
      OnFailure, Raise, Reraise, ChildWrites, ChildExits, Sigterm, AbortTouch,
      AbortList, AbortTerm, AbortKill, AbortReturns, ClearAbort, Boot,
      BootSpares
<1> QED
  BY <1>7 DEF Goal

\* What the boot holds for reading has no live recorded process.
LEMMA ProbeStep ==
  ASSUME IInv, PidIsLate, BootProbed, [Next]_vars PROVE BootProbed'
<1> USE DispatchAssumption DEF hostVars
<1>0. view \in [Markers -> Views] /\ "boot" \in Markers /\ bootPids \subseteq Runs
  BY DEF IInv, TypeOK, Markers
<1>1. CASE DaemonCrash
  <2>1. bootPids' = {} /\ view'["boot"] = NoView
    BY <1>0, <1>1 DEF DaemonCrash
  <2> QED
    BY <2>1 DEF BootProbed, NoView
<1>2. CASE Boot
  <2>1. view'["boot"].step = "none" /\ pid' = pid /\ daemonUp'
    BY <1>2 DEF Boot, BootProbed, dbVars
  <2>2. \A r \in bootPids' : pid[r]
    BY <1>2 DEF Boot
  <2> QED
    BY <2>1, <2>2 DEF BootProbed
<1>3. CASE UNCHANGED hostVars /\ ~DaemonCrash /\ ~Boot
  <2>1. \A r \in bootPids' : pid'[r]
    BY <1>0, <1>3, RowsStay DEF BootProbed
  <2>2. ~daemonUp' => view'["boot"].step = "none"
    BY <1>3, BootReads DEF BootProbed, OrphanRead, MarkerUp
  <2>3. ASSUME view'["boot"].step = "read", view'["boot"].run \in bootPids'
        PROVE  child'[view'["boot"].run] # "alive"
    <3>1. pid[view'["boot"].run] /\ view'["boot"].run \in Runs
      BY <1>0, <1>3, <2>3 DEF BootProbed
    <3>2. CASE view'["boot"] = view["boot"]
      BY <1>3, <2>3, <3>1, <3>2, ChildStep DEF BootProbed
    <3>3. CASE \E r \in Runs : OrphanRead("boot", r) /\ view'["boot"].run = r
      BY <1>3, <2>3, <3>3 DEF OrphanRead, procVars
    <3> QED
      BY <1>3, <2>3, <3>2, <3>3, BootReads
  <2> QED
    BY <2>1, <2>2, <2>3 DEF BootProbed
<1> QED
  BY <1>1, <1>2, <1>3, HostStep

\* Where request_abort goes: it lists running jobs and the groups it can reach,
\* it marks once it has killed, and nobody else writes its marks.
LEMMA AbortMoves ==
  ASSUME [Next]_vars
  PROVE  \/ AbortList
         \/ AbortKill
         \/ AbortReturns
         \/ UNCHANGED <<targets, groups>> /\ (stage' = "marking" => stage = "marking")
  BY ZenonT(60) DEF Next, Thread, Trouble, Mark, Aborter, Booting, vars, Resolve, Anchor,
      ReserveFails, Claim, RecordStart, SetupRaises, PreflightFails, Spawn,
      RecordPid, Parse, Timeout, RecordFinish, CommitWorktree, TaskDone,
      OnFailure, Raise, Reraise, ChildWrites, ChildExits, Sigterm, OrphanRead,
      OrphanKill, OrphanFinish, OrphanReset, AbortTouch, AbortTerm, ClearAbort,
      DaemonCrash, CliCrash, Boot, BootSpares, dbVars, runVars, procVars,
      markVars, abortVars, hostVars

\* Every listed job that still runs is still to be marked.
LEMMA AbortStep ==
  ASSUME IInv, PidIsLate, AbortHasTargets, [Next]_vars PROVE AbortHasTargets'
<1>0. /\ pending \in [Markers -> SUBSET Runs] /\ "abort" \in Markers
      /\ targets \subseteq Runs /\ groups \subseteq Runs
      /\ child \in [Runs -> Children]
  BY DEF IInv, TypeOK, Markers
<1>1. CASE AbortList
  <2>1. job' = job /\ pid' = pid /\ stage' = "listed"
    BY <1>1 DEF AbortList, dbVars
  <2>2. (\A r \in targets' : job[r] = "running") /\ \A r \in groups' : pid[r]
    BY <1>1 DEF AbortList
  <2> QED
    BY <2>1, <2>2 DEF AbortHasTargets
<1>2. CASE AbortKill
  <2>1. /\ job' = job /\ pid' = pid /\ pending'["abort"] = targets
        /\ targets' = targets /\ groups' = groups
    BY <1>0, <1>2 DEF AbortKill, dbVars
  <2>2. \A r \in groups : child'[r] # "alive"
    BY <1>0, <1>2 DEF AbortKill, Reachable
  <2> QED
    BY <2>1, <2>2 DEF AbortHasTargets
<1>3. CASE AbortReturns
  BY <1>3 DEF AbortReturns, AbortHasTargets
<1>4. CASE UNCHANGED <<targets, groups>> /\ (stage' = "marking" => stage = "marking")
  <2>1. (\A r \in targets : job'[r] # "none") /\ \A r \in groups : pid'[r]
    BY <1>0, RowsStay DEF AbortHasTargets
  <2>2. ASSUME stage' = "marking", NEW r \in targets, job'[r] = "running"
        PROVE  r \in pending'["abort"]
    <3>1. ~RecordStart(r)
      BY <1>0 DEF RecordStart, AbortHasTargets, IInv, NoJobYet
    <3>2. r \in pending["abort"]
      BY <1>0, <1>4, <2>2, <3>1, JobStep DEF AbortHasTargets
    <3>3. ~AbortKill
      BY <1>4, <2>2 DEF AbortKill
    <3> QED
      BY <2>2, <3>2, <3>3, PendingStep
  <2>3. ASSUME stage' = "marking", NEW r \in groups PROVE child'[r] # "alive"
    BY <1>0, <1>4, <2>3, ChildStep DEF AbortHasTargets
  <2> QED
    BY <1>4, <2>1, <2>2, <2>3 DEF AbortHasTargets
<1> QED
  BY <1>1, <1>2, <1>3, <1>4, AbortMoves

\* The marks of boot and abort are an invariant of the whole system.
LEMMA AlwaysMarks == Spec => []MarksInv
<1>1. Init => MarksInv
  <2> SUFFICES ASSUME Init PROVE MarksInv
    OBVIOUS
  <2>1. PidIsLate /\ AbortHasTargets
    BY DEF Init, PidIsLate, AbortHasTargets
  <2>2. BootHasZombies
    BY DEF Init, BootHasZombies, DaemonRuns
  <2>3. view["boot"].step = "none" /\ bootPids = {}
    BY DEF Init, Markers, NoView
  <2> QED
    BY InitIInv, <2>1, <2>2, <2>3 DEF MarksInv, BootProbed
<1>2. MarksInv /\ [Next]_vars => MarksInv'
  BY StepIInv, PidStep, ZombieStep, ProbeStep, AbortStep DEF MarksInv
<1> QED
  BY <1>1, <1>2, PTL DEF Spec

\* A boot settles what the previous daemon left: it finalises every job whose
\* process it cannot probe, and never one whose process answers, although its
\* list is read long before the last job on it is marked.
THEOREM BootsSettle == Spec => BootSettles
<1>1. MarksInv => BootClearsZombies
  BY DEF MarksInv, BootClearsZombies, BootHasZombies
<1> DEFINE Spares ==
      \A r \in bootPids :
        /\ view["boot"].run = r /\ view["boot"].step = "read"
        /\ job[r] = "running" /\ job'[r] # "running"
        /\ view'["boot"].step # "read"
        => child[r] # "alive"
<1>2. MarksInv => Spares
  BY DEF MarksInv, BootProbed
<1>3. Spec => []BootClearsZombies
  BY <1>1, AlwaysMarks, PTL
<1>4. Spec => [][Spares]_vars
  BY <1>2, AlwaysMarks, PTL
<1> QED
  BY <1>3, <1>4 DEF BootSettles, BootSparesTheLiving

\* When request_abort returns nothing it listed still runs, whoever else was
\* finalising the same jobs meanwhile, and no worker it could signal lives.
THEOREM AbortsSettle == Spec => AbortSettles
<1> DEFINE Settles == stage = "marking" /\ stage' = "idle" =>
                        /\ \A r \in targets : job[r] # "running"
                        /\ \A r \in groups : child[r] # "alive"
<1>1. MarksInv /\ [Next]_vars => Settles
  <2> SUFFICES ASSUME MarksInv, [Next]_vars, stage = "marking", stage' = "idle"
               PROVE  /\ \A r \in targets : job[r] # "running"
                      /\ \A r \in groups : child[r] # "alive"
    OBVIOUS
  <2>1. pending["abort"] = {}
    BY DEF Next, Thread, Trouble, Mark, Aborter, Booting, vars, Resolve,
      Anchor, ReserveFails, Claim, RecordStart, SetupRaises, PreflightFails,
      Spawn, RecordPid, Parse, Timeout, RecordFinish, CommitWorktree, TaskDone,
      OnFailure, Raise, Reraise, ChildWrites, ChildExits, Sigterm, OrphanRead,
      OrphanKill, OrphanFinish, OrphanReset, AbortTouch, AbortList, AbortTerm,
      AbortKill, AbortReturns, ClearAbort, DaemonCrash, CliCrash, Boot,
      BootSpares, dbVars, runVars, procVars, markVars, abortVars, hostVars
  <2> QED
    BY <2>1 DEF MarksInv, AbortHasTargets
<1> QED
  BY <1>1, AlwaysMarks, PTL DEF Spec, AbortSettles
=============================================================================
