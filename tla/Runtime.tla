------------------------------- MODULE Runtime -------------------------------
(***************************************************************************)
(* The port registry and what holds its ports: the worktree of a feature,  *)
(* the deployment of a branch, the short-lived preview of a feature.       *)
(* Requests run in threads and interleave between their reads, writes and  *)
(* compose commands; the daemon may stop in the middle of any of them.     *)
(*                                                                         *)
(* A purpose is a pair <<kind, name>>.  The engine is external: containers *)
(* die on their own, commands fail, and `up` may exit 0 having built       *)
(* nothing.                                                                *)
(***************************************************************************)
EXTENDS Naturals, FiniteSets, FiniteSetsExt

CONSTANTS
  Requests, Features, DeployBranches,
  WorktreeRange, DeployRange,   \* DEFAULT_RANGE, DEPLOY_RANGE
  Outside,                      \* ports something else on the host listens on
  MaxRaceRetry,                 \* _MAX_RACE_RETRY
  MaxOps

RuntimeAssumption ==
  /\ WorktreeRange \cap DeployRange = {} /\ WorktreeRange \cup DeployRange \subseteq Nat \ {0}
  /\ Outside \subseteq WorktreeRange \cup DeployRange
  /\ MaxRaceRetry \in Nat \ {0} /\ MaxOps \in Nat

Worktrees == {"worktree"} \X Features
Deploys   == {"deploy"} \X DeployBranches
Previews  == {"preview"} \X Features
Purposes  == Worktrees \cup Deploys \cup Previews
Services  == Deploys \cup Previews
RangeOf(p) == IF p \in Worktrees THEN WorktreeRange ELSE DeployRange

VARIABLES
  held,      \* port_reservations: purpose -> port, 0 when there is none
  trees,     \* what is on disk: worktrees, and the extracted trees of deployments
  dep,       \* deployments: branch -> status and port
  cont,      \* the containers of a service: none, up or exited, and their port
  req,       \* each request: what it does, where it is, whether nobody else touched its service since
  ops, cut   \* requests begun so far; was one cut by a stop of the daemon, or refused a port?

vars == <<held, trees, dep, cont, req, ops, cut>>

Idle == [op |-> "none", p |-> <<"none", "none">>, pc |-> "idle", port |-> 0, tries |-> 0, live |-> FALSE, alone |-> TRUE]
At(r, op, pc) == req[r].op = op /\ req[r].pc = pc
Goto(r, pc) == req' = [req EXCEPT ![r].pc = pc]
End(r) == req' = [req EXCEPT ![r] = Idle]
Status(b, s) == dep' = [dep EXCEPT ![b].status = s]
Branch(r) == req[r].p[2]

Taken == {held[p] : p \in Purposes} \ {0}
\* local_probe: something listens.
Listening == Outside \cup {cont[s].port : s \in {t \in Services : cont[t].state = "up"}}
\* A purpose is used by one request at a time where the callers see to it: a
\* feature has one worker, and one merge.
Busy(p) == \E r \in Requests : req[r].p = p

Disturbed(p) == [r \in Requests |-> IF req[r].p = p THEN [req[r] EXCEPT !.alone = FALSE] ELSE req[r]]

Begin(r, op, p) ==
  /\ req[r].pc = "idle" /\ ops < MaxOps /\ ops' = ops + 1
  /\ req' = [Disturbed(p) EXCEPT ![r] = [Idle EXCEPT !.op = op, !.p = p, !.pc = "begin", !.alone = ~Busy(p)]]
  /\ UNCHANGED <<held, trees, dep, cont, cut>>

Ask(r) == \/ \E p \in Worktrees : ~Busy(p) /\ (Begin(r, "reserve", p) \/ Begin(r, "release", p))
          \/ \E p \in Deploys : \E op \in {"up", "down", "restart", "status"} : Begin(r, op, p)
          \/ \E p \in Previews : ~Busy(p) /\ <<"worktree", p[2]>> \in trees /\ Begin(r, "preview", p)

(***************************************************************************)
(* ports.reserve: select, pick the first free port, insert                 *)
(***************************************************************************)
Free(p) == {n \in RangeOf(p) : n \notin Taken /\ n \notin Listening}

\* PortPoolExhausted is no error the engine converts: it ends the request.
Exhausted(r) == End(r) /\ cut' = TRUE

Pick(r) ==
  /\ req[r].pc = "pick"
  /\ \/ /\ held[req[r].p] # 0
        /\ req' = [req EXCEPT ![r].pc = "held", ![r].port = held[req[r].p]] /\ UNCHANGED cut
     \/ /\ held[req[r].p] = 0 /\ req[r].tries < MaxRaceRetry /\ Free(req[r].p) # {}
        /\ req' = [req EXCEPT ![r].pc = "insert", ![r].port = Min(Free(req[r].p))] /\ UNCHANGED cut
     \/ /\ held[req[r].p] = 0 /\ (req[r].tries = MaxRaceRetry \/ Free(req[r].p) = {})
        /\ Exhausted(r)
  /\ UNCHANGED <<held, trees, dep, cont, ops>>


\* Two unique constraints: a collision starts over.
Insert(r) ==
  /\ req[r].pc = "insert"
  /\ \/ /\ held[req[r].p] = 0 /\ req[r].port \notin Taken
        /\ held' = [held EXCEPT ![req[r].p] = req[r].port] /\ Goto(r, "held")
     \/ /\ held[req[r].p] # 0 \/ req[r].port \in Taken
        /\ req' = [req EXCEPT ![r].pc = "pick", ![r].tries = @ + 1] /\ UNCHANGED held
  /\ UNCHANGED <<trees, dep, cont, ops, cut>>

Release(p) == held' = [held EXCEPT ![p] = 0]

(***************************************************************************)
(* worktree.reserve and worktree.release                                   *)
(***************************************************************************)
AddWorktree(r) ==
  /\ At(r, "reserve", "begin")
  /\ trees' = trees \cup {req[r].p} /\ Goto(r, "pick")
  /\ UNCHANGED <<held, dep, cont, ops, cut>>

Activate(r) == /\ At(r, "reserve", "held") /\ End(r)
               /\ UNCHANGED <<held, trees, dep, cont, ops, cut>>

RemoveWorktree(r) ==
  /\ At(r, "release", "begin")
  /\ trees' = trees \ {req[r].p} /\ Goto(r, "release")
  /\ UNCHANGED <<held, dep, cont, ops, cut>>

ReleasePort(r) == /\ At(r, "release", "release") /\ Release(req[r].p) /\ End(r)
                  /\ UNCHANGED <<trees, dep, cont, ops, cut>>

(***************************************************************************)
(* engine.deploy                                                           *)
(***************************************************************************)
Building(r) == /\ At(r, "up", "begin") /\ Status(Branch(r), "building") /\ Goto(r, "archive")
               /\ UNCHANGED <<held, trees, cont, ops, cut>>

\* The tree is extracted anew; no tree, or nothing to compose, is a failure.
Archive(r) ==
  /\ At(r, "up", "archive")
  /\ \/ trees' = trees \cup {req[r].p} /\ Goto(r, "pick") /\ UNCHANGED dep
     \/ /\ trees' \in {trees \ {req[r].p}, trees \cup {req[r].p}}
        /\ Status(Branch(r), "unhealthy") /\ End(r)
  /\ UNCHANGED <<held, cont, ops, cut>>

Up(r) == [state |-> "up", port |-> req[r].port]
\* What `up` may do: create the containers on a port nobody listens on, exit 0
\* without having built anything, or fail.
ComposeUp(r, next, failed) ==
  \/ /\ req[r].port \notin Outside
     /\ \A s \in Services \ {req[r].p} : cont[s] # Up(r)
     /\ cont' = [cont EXCEPT ![req[r].p] = Up(r)] /\ next
  \/ UNCHANGED cont /\ next
  \/ UNCHANGED cont /\ failed

DeployUp(r) ==
  /\ At(r, "up", "held")
  /\ ComposeUp(r, Goto(r, "ps") /\ UNCHANGED dep, Status(Branch(r), "unhealthy") /\ End(r))
  /\ UNCHANGED <<held, trees, ops, cut>>

\* Mutant of Confirm: what `up` returned is believed.
ConfirmMutant(r) ==
  /\ At(r, "up", "ps")
  /\ dep' = [dep EXCEPT ![Branch(r)] = [status |-> "running", port |-> req[r].port]] /\ End(r)
  /\ UNCHANGED <<held, trees, cont, ops, cut>>

\* The real state is asked for before it is written.
Confirm(r) ==
  /\ At(r, "up", "ps")
  /\ \/ /\ cont[req[r].p].state = "up"
        /\ dep' = [dep EXCEPT ![Branch(r)] = [status |-> "running", port |-> req[r].port]]
     \/ Status(Branch(r), "unhealthy")
  /\ End(r)
  /\ UNCHANGED <<held, trees, cont, ops, cut>>

(***************************************************************************)
(* engine.stop, engine.restart, engine.status                              *)
(***************************************************************************)
Mounted(r) == dep[Branch(r)].status # "no_deploy" /\ req[r].p \in trees

Down(r) ==
  /\ At(r, "down", "begin")
  /\ \/ ~Mounted(r) /\ End(r) /\ UNCHANGED cont
     \/ Mounted(r) /\ cont' = [cont EXCEPT ![req[r].p] = [state |-> "none", port |-> 0]] /\ Goto(r, "write")
     \/ Mounted(r) /\ End(r) /\ UNCHANGED cont
  /\ UNCHANGED <<held, trees, dep, ops, cut>>

Stopped(r) == /\ At(r, "down", "write") /\ Status(Branch(r), "stopped") /\ End(r)
              /\ UNCHANGED <<held, trees, cont, ops, cut>>

Restart(r) ==
  /\ At(r, "restart", "begin")
  /\ \/ /\ cont[req[r].p].state # "none"
        /\ cont' = [cont EXCEPT ![req[r].p].state = "up"] /\ Goto(r, "write") /\ UNCHANGED dep
     \/ Status(Branch(r), "unhealthy") /\ End(r) /\ UNCHANGED cont
  /\ UNCHANGED <<held, trees, ops, cut>>

Restarted(r) == /\ At(r, "restart", "write") /\ Status(Branch(r), "running") /\ End(r)
                /\ UNCHANGED <<held, trees, cont, ops, cut>>

Look(r) ==
  /\ At(r, "status", "begin")
  /\ \/ ~Mounted(r) /\ End(r) /\ UNCHANGED dep
     \/ Mounted(r) /\ UNCHANGED dep
        /\ req' = [req EXCEPT ![r].pc = "write", ![r].live = cont[req[r].p].state = "up"]
     \/ Mounted(r) /\ Status(Branch(r), "unhealthy") /\ End(r)
  /\ UNCHANGED <<held, trees, cont, ops, cut>>

Reconcile(r) ==
  /\ At(r, "status", "write")
  /\ Status(Branch(r), IF req[r].live THEN "running" ELSE "stopped") /\ End(r)
  /\ UNCHANGED <<held, trees, cont, ops, cut>>

(***************************************************************************)
(* engine.deploy_preview, used then torn down by its caller                *)
(***************************************************************************)
Preview(r) ==
  /\ At(r, "preview", "begin")
  /\ \/ <<"worktree", req[r].p[2]>> \in trees /\ Goto(r, "pick")
     \/ End(r)
  /\ UNCHANGED <<held, trees, dep, cont, ops, cut>>

PreviewUp(r) ==
  /\ At(r, "preview", "held")
  /\ ComposeUp(r, Goto(r, "ps") /\ UNCHANGED held, Release(req[r].p) /\ End(r))
  /\ UNCHANGED <<trees, dep, ops, cut>>

PreviewCheck(r) ==
  /\ At(r, "preview", "ps")
  /\ \/ cont[req[r].p].state = "up" /\ Goto(r, "use") /\ UNCHANGED held
     \/ Release(req[r].p) /\ End(r)
  /\ UNCHANGED <<trees, dep, cont, ops, cut>>

\* teardown_preview: down as well as it can, and the port is released.
Teardown(r) ==
  /\ At(r, "preview", "use")
  /\ \/ /\ <<"worktree", req[r].p[2]>> \in trees
        /\ cont' = [cont EXCEPT ![req[r].p] = [state |-> "none", port |-> 0]]
     \/ UNCHANGED cont
  /\ Release(req[r].p) /\ End(r)
  /\ UNCHANGED <<trees, dep, ops, cut>>

(***************************************************************************)
(* Containers that die, the daemon that stops                              *)
(***************************************************************************)
Die(s) == /\ cont[s].state = "up" /\ cont' = [cont EXCEPT ![s].state = "exited"] /\ req' = Disturbed(s)
          /\ UNCHANGED <<held, trees, dep, ops, cut>>

Crash == /\ \E r \in Requests : req[r].pc # "idle"
         /\ req' = [r \in Requests |-> Idle] /\ cut' = TRUE
         /\ UNCHANGED <<held, trees, dep, cont, ops>>

\* worktree.audit: a port without its worktree, or the reverse.
Orphans == {p \in Worktrees : (held[p] # 0) # (p \in trees)}

Init ==
  /\ held = [p \in Purposes |-> 0] /\ trees = {} /\ ops = 0 /\ cut = FALSE
  /\ dep = [b \in DeployBranches |-> [status |-> "no_deploy", port |-> 0]]
  /\ cont = [s \in Services |-> [state |-> "none", port |-> 0]]
  /\ req = [r \in Requests |-> Idle]

Step(r) ==
  \/ Pick(r) \/ Insert(r) \/ AddWorktree(r) \/ Activate(r) \/ RemoveWorktree(r) \/ ReleasePort(r)
  \/ Building(r) \/ Archive(r) \/ DeployUp(r) \/ Confirm(r) \/ Down(r) \/ Stopped(r)
  \/ Restart(r) \/ Restarted(r) \/ Look(r) \/ Reconcile(r)
  \/ Preview(r) \/ PreviewUp(r) \/ PreviewCheck(r) \/ Teardown(r)

Next == Crash \/ (\E s \in Services : Die(s)) \/ \E r \in Requests : Ask(r) \/ Step(r)

(***************************************************************************)
(* Properties                                                              *)
(***************************************************************************)
Ports == WorktreeRange \cup DeployRange
TypeOK ==
  /\ held \in [Purposes -> Ports \cup {0}] /\ trees \subseteq Worktrees \cup Deploys
  /\ \A b \in DeployBranches : dep[b].status \in {"no_deploy", "building", "running", "stopped", "unhealthy"}
  /\ \A s \in Services : cont[s].port \in Ports \cup {0}
  /\ \A r \in Requests : req[r].tries \in 0..MaxRaceRetry

Quiet(p) == \A r \in Requests : req[r].p # p

\* A port belongs to one purpose, of its own range; a deployment keeps its port
\* for good, and it is the one its row says; and when nobody was cut or refused
\* a port, what nobody works on holds a port exactly as long as it should: a
\* worktree as long as it is on disk, a preview not at all.
PortsAreKept ==
  /\ \A p, q \in Purposes : held[p] # 0 /\ p # q => held[p] # held[q]
  /\ \A p \in Purposes : held[p] \in RangeOf(p) \cup {0}
  /\ \A b \in DeployBranches : dep[b].port # 0 => held[<<"deploy", b>>] = dep[b].port
  /\ ~cut => /\ \A p \in Orphans : ~Quiet(p)
             /\ \A p \in Previews : Quiet(p) => held[p] = 0

\* What a request writes of a deployment, after it acted or looked and when
\* nobody else touched it since it began, is what the containers are: up on the
\* port of the row, if a confirmed deploy ever wrote one, or not up.
StatusIsHonest == \A r \in Requests :
  req[r].alone /\ req[r].pc \in {"ps", "write"} /\ req[r].p \in Deploys /\ req'[r] = Idle /\ ~cut'
    => LET d == dep'[Branch(r)]
           c == cont'[req[r].p]
       IN /\ d.status = "running" => c.state = "up" /\ d.port \in {0, c.port}
          /\ d.status = "stopped" => c.state # "up"
=============================================================================
