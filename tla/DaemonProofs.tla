------------------------------ MODULE DaemonProofs ------------------------------
(***************************************************************************)
(* What the daemon's machines promise, for every value of their constants: *)
(* ports and deployments, terminal sessions, the synchronisation of a      *)
(* mirror, the update channel and the merge gate, each by an inductive     *)
(* invariant of its own.                                                   *)
(***************************************************************************)
EXTENDS MCDaemon, FiniteSetTheorems, SequenceTheorems, TLAPS

\* Every machine of the daemon moves by its own steps, or not at all.
LEMMA DaemonMoves ==
  ASSUME [DaemonNext]_vars
  PROVE  /\ [Ch!Next]_channel /\ [Te!Next]_terminal /\ [Mi!Next]_mirror /\ [Ru!Next]_runtime
         /\ part' = part
BY DEF DaemonNext, vars

\* A set of naturals that is not empty has a least member: strict inclusion of
\* the intervals below its members is well founded.
LEMMA LeastNatural ==
  ASSUME NEW S \in SUBSET Nat, S # {}
  PROVE  \E m \in S : \A k \in S : m <= k
<1> DEFINE Below == {0..k : k \in S}
<1>1. Below \subseteq FiniteSubsetsOf(Nat)
  <2> SUFFICES ASSUME NEW k \in S PROVE 0..k \in FiniteSubsetsOf(Nat)
    OBVIOUS
  <2>1. k \in Nat /\ 0..k \subseteq Nat
    OBVIOUS
  <2>2. IsFiniteSet(0..k)
    BY <2>1, FS_Interval
  <2> QED
    BY <2>1, <2>2 DEF FiniteSubsetsOf
<1>2. IsWellFoundedOn(StrictSubsetOrdering(Nat), FiniteSubsetsOf(Nat))
  BY FS_StrictSubsetOrderingWellFounded
<1>3. Below # {}
  OBVIOUS
<1> HIDE DEF Below
<1>4. PICK B \in Below : \A C \in Below : <<C, B>> \notin StrictSubsetOrdering(Nat)
  BY <1>1, <1>2, <1>3, WFMin
<1>5. PICK m \in S : B = 0..m
  BY DEF Below
<1>6. ASSUME NEW k \in S, k < m PROVE FALSE
  <2>1. 0..k \in Below /\ k \in Nat /\ m \in Nat
    BY DEF Below
  <2>2. 0..k \subseteq 0..m /\ 0..k # 0..m /\ 0..k \subseteq Nat /\ 0..m \subseteq Nat
    BY <1>6, <2>1
  <2>3. <<0..k, 0..m>> \in StrictSubsetOrdering(Nat)
    BY <2>2 DEF StrictSubsetOrdering
  <2> QED
    BY <1>4, <1>5, <2>1, <2>3
<1> QED
  BY <1>6

(***************************************************************************)
(* Runtime: what its steps rely on                                         *)
(***************************************************************************)
\* The operations a request can be in, its steps, and what it carries.
ROps == {"none", "reserve", "release", "preview", "up", "down", "restart", "status"}
RPcs == {"idle", "begin", "pick", "insert", "held", "release", "archive", "ps", "write", "use"}
RPs  == Ru!Purposes \cup {<<"none", "none">>}
RReqs == [op : ROps, p : RPs, pc : RPcs, port : Nat, tries : 0..MaxRaceRetry,
          live : BOOLEAN, alone : BOOLEAN]

\* Where everything is.
HeldShape == held \in [Ru!Purposes -> Ru!Ports \cup {0}]
Rows == [status : {"no_deploy", "building", "running", "stopped", "unhealthy"}, port : Ru!Ports \cup {0}]
Conts == [state : {"none", "up", "exited"}, port : Ru!Ports \cup {0}]
RShape ==
  /\ req \in [Requests -> RReqs]
  /\ HeldShape
  /\ trees \subseteq Ru!Worktrees \cup Ru!Deploys
  /\ dep \in [DeployBranches -> Rows]
  /\ cont \in [Ru!Services -> Conts]
  /\ cut \in BOOLEAN

\* An operation is on a purpose of its kind, and goes through its own steps.
Sound(op, p, pc) ==
  \/ op = "reserve" /\ p \in Ru!Worktrees /\ pc \in {"begin", "pick", "insert", "held"}
  \/ op = "release" /\ p \in Ru!Worktrees /\ pc \in {"begin", "release"}
  \/ op = "preview" /\ p \in Ru!Previews /\ pc \in {"begin", "pick", "insert", "held", "ps", "use"}
  \/ op = "up" /\ p \in Ru!Deploys /\ pc \in {"begin", "archive", "pick", "insert", "held", "ps"}
  \/ op \in {"down", "restart", "status"} /\ p \in Ru!Deploys /\ pc \in {"begin", "write"}
Programs == \A r \in Requests : req[r] = Ru!Idle \/ Sound(req[r].op, req[r].p, req[r].pc)

\* A worktree and a preview have one request at a time, and a deployment that acts alone has no other.
OneUser ==
  \A r, q \in Requests :
    req[r].op # "none" /\ r # q /\ (req[r].p \notin Ru!Deploys \/ req[r].alone) => req[q].p # req[r].p

\* A port about to be inserted is of its range; one that is used is held.
PortsHeld ==
  \A r \in Requests :
    /\ req[r].pc = "insert" => req[r].port \in Ru!RangeOf(req[r].p) /\ req[r].tries < MaxRaceRetry
    /\ req[r].pc \in {"held", "ps", "use"} => req[r].port # 0 /\ held[req[r].p] = req[r].port

\* A worktree is there while its port is reserved, gone when it is released.
OnDisk ==
  \A r \in Requests :
    /\ req[r].op = "reserve" /\ req[r].pc # "begin" => req[r].p \in trees
    /\ req[r].op = "release" /\ req[r].pc = "release" => req[r].p \notin trees
    /\ req[r].op = "preview" /\ req[r].pc = "begin" /\ ~cut => held[req[r].p] = 0

\* A container has the port its purpose holds.
OwnPort ==
  \A s \in Ru!Deploys : cont[s].state # "none" => cont[s].port = held[s] /\ held[s] # 0

\* What a deployment that acts alone is about to write is what it did.
Seen ==
  \A r \in Requests : req[r].alone /\ req[r].pc = "write" =>
    /\ req[r].op = "down" => cont[req[r].p].state # "up"
    /\ req[r].op = "restart" => cont[req[r].p].state = "up"
    /\ req[r].op = "status" => (req[r].live <=> cont[req[r].p].state = "up")

RInv == RShape /\ Programs /\ OneUser /\ PortsHeld /\ OnDisk /\ OwnPort /\ Seen /\ Ru!PortsAreKept

\* Purposes of different kinds are different, and none is the one of nobody.
LEMMA PurposeKinds ==
  /\ Ru!Worktrees \cap Ru!Deploys = {} /\ Ru!Worktrees \cap Ru!Previews = {}
  /\ Ru!Deploys \cap Ru!Previews = {}
  /\ <<"none", "none">> \notin Ru!Purposes
  /\ Ru!Purposes = Ru!Worktrees \cup Ru!Services /\ Ru!Services = Ru!Deploys \cup Ru!Previews
  /\ \A b \in DeployBranches : <<"deploy", b>> \in Ru!Deploys
  /\ \A p \in Ru!Deploys : p[2] \in DeployBranches /\ p = <<"deploy", p[2]>>
BY DEF Ru!Worktrees, Ru!Deploys, Ru!Previews, Ru!Purposes, Ru!Services

\* The first free port is one of the range.
LEMMA FreeHasMin ==
  ASSUME NEW p, Ru!Free(p) # {}
  PROVE  Ru!Min(Ru!Free(p)) \in Ru!Free(p)
<1>1. Ru!RangeOf(p) \subseteq Nat
  BY Assumptions DEF Ru!RuntimeAssumption, Ru!RangeOf
<1>2. Ru!Free(p) \subseteq Ru!RangeOf(p)
  BY DEF Ru!Free
<1>3. \E m \in Ru!Free(p) : \A k \in Ru!Free(p) : m <= k
  BY <1>1, <1>2, LeastNatural
<1> QED BY <1>3 DEF Ru!Min

\* Ports are positive, and the retries of a reservation are bounded.
LEMMA PortsArePositive ==
  /\ Ru!Ports \subseteq Nat /\ 0 \notin Ru!Ports
  /\ \A p : Ru!RangeOf(p) \subseteq Ru!Ports
  /\ MaxRaceRetry \in Nat \ {0}
BY Assumptions DEF Ru!RuntimeAssumption, Ru!Ports, Ru!RangeOf

\* Where a request is says what it works on.
LEMMA Placed ==
  ASSUME NEW r \in Requests, Programs
  PROVE  /\ req[r].pc # "idle" <=> req[r].op # "none"
         /\ req[r].op = "none" => req[r] = Ru!Idle /\ req[r].p = <<"none", "none">>
         /\ req[r].op # "none" => req[r].p \in Ru!Purposes
         /\ req[r].op \in {"reserve", "release"} <=> req[r].p \in Ru!Worktrees
         /\ req[r].op = "preview" <=> req[r].p \in Ru!Previews
         /\ req[r].op \in {"up", "down", "restart", "status"} <=> req[r].p \in Ru!Deploys
         /\ req[r].pc \in {"pick", "insert", "held"} => req[r].op \in {"reserve", "preview", "up"}
         /\ req[r].pc = "ps" => req[r].op \in {"preview", "up"}
         /\ req[r].pc = "use" => req[r].op = "preview"
         /\ req[r].pc = "write" => req[r].op \in {"down", "restart", "status"}
BY PurposeKinds DEF Programs, Sound, Ru!Idle

\* What a step of request r may do to the requests: it goes on, or it ends.
Moves(r) ==
  /\ \A q \in Requests \ {r} : req'[q] = req[q]
  /\ \/ req'[r] = Ru!Idle
     \/ /\ req'[r].op = req[r].op /\ req'[r].p = req[r].p /\ req'[r].alone = req[r].alone
        /\ req[r].op # "none"

\* A request that rests has the form of a request.
LEMMA IdleIsReq == Ru!Idle \in RReqs
BY PortsArePositive DEF Ru!Idle, RReqs, ROps, RPcs, RPs

\* A request moved on is still a request.
LEMMA FieldMoves ==
  ASSUME NEW q \in RReqs
  PROVE  /\ \A pc \in RPcs : [q EXCEPT !.pc = pc] \in RReqs
         /\ \A pc \in RPcs, n \in Nat : [q EXCEPT !.pc = pc, !.port = n] \in RReqs
         /\ \A pc \in RPcs, n \in 0..MaxRaceRetry : [q EXCEPT !.pc = pc, !.tries = n] \in RReqs
         /\ \A pc \in RPcs, l \in BOOLEAN : [q EXCEPT !.pc = pc, !.live = l] \in RReqs
         /\ \A l \in BOOLEAN : [q EXCEPT !.alone = l] \in RReqs
BY DEF RReqs

\* Writing one field of one request.
LEMMA OneWritten ==
  ASSUME NEW r \in Requests, RShape, NEW new \in RReqs, req' = [req EXCEPT ![r] = new],
         req[r].op # "none", new.op = req[r].op, new.p = req[r].p, new.alone = req[r].alone
  PROVE  req' \in [Requests -> RReqs] /\ Moves(r)
BY DEF RShape, Moves

\* Going on keeps what the request is about.
LEMMA GotoMoves ==
  ASSUME NEW r \in Requests,
         NEW pc \in {"begin", "pick", "insert", "held", "release", "archive", "ps", "write", "use"},
         RShape, req[r].op # "none", Ru!Goto(r, pc)
  PROVE  req' \in [Requests -> RReqs] /\ Moves(r)
<1> DEFINE new == [req[r] EXCEPT !.pc = pc]
<1>1. new \in RReqs
  BY FieldMoves DEF RShape, RPcs
<1>2. new.op = req[r].op /\ new.p = req[r].p /\ new.alone = req[r].alone
  BY DEF RShape, RReqs
<1>3. req' = [req EXCEPT ![r] = new]
  BY DEF Ru!Goto
<1> QED BY <1>1, <1>2, <1>3, OneWritten

\* Ending forgets it.
LEMMA EndMoves ==
  ASSUME NEW r \in Requests, RShape, Ru!End(r)
  PROVE  req' \in [Requests -> RReqs] /\ Moves(r)
BY IdleIsReq DEF RShape, Ru!End, Moves

\* Every step of a request moves that request alone.
LEMMA StepMoves ==
  ASSUME NEW r \in Requests, RShape, Programs, PortsHeld, Ru!Step(r)
  PROVE  req' \in [Requests -> RReqs] /\ Moves(r)
<1> DEFINE Goal == req' \in [Requests -> RReqs] /\ Moves(r)
<1>1. ASSUME Ru!Pick(r) PROVE Goal
  <2>1. req[r].op # "none" /\ req[r].p \in Ru!Purposes
    BY <1>1, Placed DEF Ru!Pick
  <2>2. held[req[r].p] \in Nat
    <3>1. held[req[r].p] \in Ru!Ports \cup {0}
      BY <2>1 DEF RShape, HeldShape
    <3>2. \A n \in Ru!Ports \cup {0} : n \in Nat
      BY PortsArePositive
    <3> HIDE DEF Goal
    <3> QED BY <3>1, <3>2
  <2>3. CASE held[req[r].p] # 0
    <3> DEFINE new == [req[r] EXCEPT !.pc = "held", !.port = held[req[r].p]]
    <3>1. new \in RReqs
      BY <2>2, FieldMoves DEF RShape, RPcs
    <3>2. new.op = req[r].op /\ new.p = req[r].p /\ new.alone = req[r].alone
      BY DEF RShape, RReqs
    <3>3. req' = [req EXCEPT ![r] = new]
      BY <1>1, <2>3 DEF Ru!Pick
    <3> QED BY <2>1, <3>1, <3>2, <3>3, OneWritten
  <2>4. CASE held[req[r].p] = 0 /\ Ru!Exhausted(r)
    BY <2>4, EndMoves DEF Ru!Exhausted
  <2>5. CASE held[req[r].p] = 0 /\ ~Ru!Exhausted(r)
    <3>1. /\ Ru!Free(req[r].p) # {}
          /\ req' = [req EXCEPT ![r].pc = "insert", ![r].port = Ru!Min(Ru!Free(req[r].p))]
      BY <1>1, <2>5 DEF Ru!Pick
    <3>2. Ru!Min(Ru!Free(req[r].p)) \in Nat
      BY <3>1, FreeHasMin, PortsArePositive DEF Ru!Free
    <3> DEFINE new == [req[r] EXCEPT !.pc = "insert", !.port = Ru!Min(Ru!Free(req[r].p))]
    <3>3. new \in RReqs
      BY <3>2, FieldMoves DEF RShape, RPcs
    <3>4. new.op = req[r].op /\ new.p = req[r].p /\ new.alone = req[r].alone
      BY DEF RShape, RReqs
    <3>5. req' = [req EXCEPT ![r] = new]
      BY <3>1
    <3> QED BY <2>1, <3>3, <3>4, <3>5, OneWritten
  <2> QED BY <2>3, <2>4, <2>5
<1>2. ASSUME Ru!Insert(r) PROVE Goal
  <2>1. req[r].op # "none"
    BY <1>2, Placed DEF Ru!Insert
  <2>2. CASE Ru!Goto(r, "held")
    BY <2>1, <2>2, GotoMoves
  <2>3. CASE ~Ru!Goto(r, "held")
    <3>1. req' = [req EXCEPT ![r].pc = "pick", ![r].tries = @ + 1] /\ req[r].pc = "insert"
      BY <1>2, <2>3 DEF Ru!Insert
    <3>2. req[r].tries + 1 \in 0..MaxRaceRetry
      BY <3>1, PortsArePositive DEF RShape, RReqs, PortsHeld
    <3> DEFINE new == [req[r] EXCEPT !.pc = "pick", !.tries = @ + 1]
    <3>3. new \in RReqs
      BY <3>2, FieldMoves DEF RShape, RPcs
    <3>4. new.op = req[r].op /\ new.p = req[r].p /\ new.alone = req[r].alone
      BY DEF RShape, RReqs
    <3>5. req' = [req EXCEPT ![r] = new]
      BY <3>1
    <3> QED BY <2>1, <3>3, <3>4, <3>5, OneWritten
  <2> QED BY <2>2, <2>3
<1>3. ASSUME Ru!AddWorktree(r) \/ Ru!RemoveWorktree(r) \/ Ru!Building(r) \/ Ru!Preview(r) \/ Ru!Archive(r)
      PROVE  Goal
  BY <1>3, Placed, GotoMoves, EndMoves DEF Ru!AddWorktree, Ru!RemoveWorktree, Ru!Building, Ru!Preview, Ru!Archive, Ru!At
<1>4. ASSUME \/ Ru!Activate(r) \/ Ru!ReleasePort(r) \/ Ru!Confirm(r) \/ Ru!Stopped(r) \/ Ru!Restarted(r)
             \/ Ru!Reconcile(r) \/ Ru!Teardown(r)
      PROVE  Goal
  BY <1>4, EndMoves DEF Ru!Activate, Ru!ReleasePort, Ru!Confirm, Ru!Stopped, Ru!Restarted, Ru!Reconcile, Ru!Teardown
<1>5. ASSUME Ru!DeployUp(r) \/ Ru!PreviewUp(r) \/ Ru!PreviewCheck(r) \/ Ru!Down(r) \/ Ru!Restart(r)
      PROVE  Goal
  <2>1. Ru!Goto(r, "ps") \/ Ru!Goto(r, "use") \/ Ru!Goto(r, "write") \/ Ru!End(r)
    BY <1>5 DEF Ru!DeployUp, Ru!PreviewUp, Ru!PreviewCheck, Ru!Down, Ru!Restart, Ru!ComposeUp
  <2>2. req[r].op # "none"
    BY <1>5 DEF Ru!DeployUp, Ru!PreviewUp, Ru!PreviewCheck, Ru!Down, Ru!Restart, Ru!At
  <2> QED BY <2>1, <2>2, GotoMoves, EndMoves
<1>6. ASSUME Ru!Look(r) PROVE Goal
  <2>1. CASE Ru!End(r)
    BY <2>1, EndMoves
  <2>2. CASE req' = [req EXCEPT ![r].pc = "write", ![r].live = cont[req[r].p].state = "up"]
    <3> DEFINE new == [req[r] EXCEPT !.pc = "write", !.live = cont[req[r].p].state = "up"]
    <3>1. (cont[req[r].p].state = "up") \in BOOLEAN
      OBVIOUS
    <3>2. new \in RReqs
      BY <3>1, FieldMoves DEF RShape, RPcs
    <3>3. new.op = req[r].op /\ new.p = req[r].p /\ new.alone = req[r].alone
      BY DEF RShape, RReqs
    <3>4. req' = [req EXCEPT ![r] = new] /\ req[r].op # "none"
      BY <1>6, <2>2 DEF Ru!Look, Ru!At
    <3> QED BY <3>2, <3>3, <3>4, OneWritten
  <2> QED BY <1>6, <2>1, <2>2 DEF Ru!Look
<1> HIDE DEF Goal
<1>7. Goal
  BY <1>1, <1>2, <1>3, <1>4, <1>5, <1>6 DEF Ru!Step
<1> QED BY <1>7 DEF Goal

\* How far a step takes a request: the order of the steps of each operation.
Follows(op, pc, next) ==
  \/ op = "reserve" /\ pc = "begin" /\ next = "pick"
  \/ op = "release" /\ pc = "begin" /\ next = "release"
  \/ op = "up" /\ pc = "begin" /\ next = "archive"
  \/ op = "up" /\ pc = "archive" /\ next = "pick"
  \/ op = "preview" /\ pc = "begin" /\ next = "pick"
  \/ pc = "pick" /\ next \in {"held", "insert"}
  \/ pc = "insert" /\ next \in {"held", "pick"}
  \/ op \in {"up", "preview"} /\ pc = "held" /\ next = "ps"
  \/ op = "preview" /\ pc = "ps" /\ next = "use"
  \/ op \in {"down", "restart", "status"} /\ pc = "begin" /\ next = "write"

\* Going on leaves the program counter where it was sent.
LEMMA GotoPc ==
  ASSUME NEW r \in Requests, RShape, NEW pc, Ru!Goto(r, pc)
  PROVE  req'[r].pc = pc /\ req'[r].port = req[r].port /\ req'[r].tries = req[r].tries
BY DEF RShape, Ru!Goto, RReqs

\* Ending leaves a request at rest.
LEMMA EndIdle ==
  ASSUME NEW r \in Requests, RShape, Ru!End(r)
  PROVE  req'[r] = Ru!Idle
BY DEF RShape, Ru!End

\* A step takes a request along its operation, or ends it.
LEMMA StepFollows ==
  ASSUME NEW r \in Requests, RShape, Ru!Step(r)
  PROVE  req'[r] = Ru!Idle \/ Follows(req[r].op, req[r].pc, req'[r].pc)
<1> DEFINE Goal == req'[r] = Ru!Idle \/ Follows(req[r].op, req[r].pc, req'[r].pc)
<1>1. ASSUME Ru!Pick(r) PROVE Goal
  <2>1. \/ Ru!End(r)
        \/ req' = [req EXCEPT ![r].pc = "held", ![r].port = held[req[r].p]]
        \/ req' = [req EXCEPT ![r].pc = "insert", ![r].port = Ru!Min(Ru!Free(req[r].p))]
    BY <1>1 DEF Ru!Pick, Ru!Exhausted
  <2>2. Ru!End(r) \/ req'[r].pc \in {"held", "insert"}
    BY <2>1 DEF RShape, RReqs
  <2>3. req[r].pc = "pick"
    BY <1>1 DEF Ru!Pick
  <2> QED BY <2>2, <2>3, EndIdle DEF Follows
<1>2. ASSUME Ru!Insert(r) PROVE Goal
  <2>1. \/ Ru!Goto(r, "held")
        \/ req' = [req EXCEPT ![r].pc = "pick", ![r].tries = @ + 1]
    BY <1>2 DEF Ru!Insert
  <2>2. req'[r].pc \in {"held", "pick"}
    BY <2>1, GotoPc DEF RShape, RReqs
  <2>3. req[r].pc = "insert"
    BY <1>2 DEF Ru!Insert
  <2> QED BY <2>2, <2>3 DEF Follows
<1>3. ASSUME Ru!AddWorktree(r) \/ Ru!RemoveWorktree(r) \/ Ru!Building(r) \/ Ru!Preview(r) \/ Ru!Archive(r)
      PROVE  Goal
  BY <1>3, GotoPc, EndIdle
  DEF Ru!AddWorktree, Ru!RemoveWorktree, Ru!Building, Ru!Preview, Ru!Archive, Ru!At, Follows
<1>4. ASSUME \/ Ru!Activate(r) \/ Ru!ReleasePort(r) \/ Ru!Confirm(r) \/ Ru!Stopped(r) \/ Ru!Restarted(r)
             \/ Ru!Reconcile(r) \/ Ru!Teardown(r)
      PROVE  Goal
  BY <1>4, EndIdle
  DEF Ru!Activate, Ru!ReleasePort, Ru!Confirm, Ru!Stopped, Ru!Restarted, Ru!Reconcile, Ru!Teardown
<1>5. ASSUME Ru!DeployUp(r) \/ Ru!PreviewUp(r) \/ Ru!PreviewCheck(r) \/ Ru!Down(r) \/ Ru!Restart(r)
      PROVE  Goal
  BY <1>5, GotoPc, EndIdle
  DEF Ru!DeployUp, Ru!PreviewUp, Ru!PreviewCheck, Ru!Down, Ru!Restart, Ru!ComposeUp, Ru!At, Follows
<1>6. ASSUME Ru!Look(r) PROVE Goal
  <2>1. req[r].op = "status" /\ req[r].pc = "begin"
    BY <1>6 DEF Ru!Look, Ru!At
  <2>2. CASE Ru!End(r)
    BY <2>2, EndIdle
  <2>3. CASE req' = [req EXCEPT ![r].pc = "write", ![r].live = cont[req[r].p].state = "up"]
    <3>1. req'[r].pc = "write"
      BY <2>3 DEF RShape, RReqs
    <3> QED BY <2>1, <3>1 DEF Follows
  <2> QED BY <1>6, <2>2, <2>3 DEF Ru!Look
<1> HIDE DEF Goal
<1>7. Goal
  BY <1>1, <1>2, <1>3, <1>4, <1>5, <1>6 DEF Ru!Step
<1> QED BY <1>7 DEF Goal

\* What a step does to the reservations: it inserts one, or releases its own.
HeldEffect(r) ==
  \/ held' = held
  \/ /\ req[r].pc = "insert" /\ held[req[r].p] = 0 /\ req[r].port \notin Ru!Taken
     /\ held' = [held EXCEPT ![req[r].p] = req[r].port]
     /\ req'[r].pc = "held" /\ req'[r].port = req[r].port
  \/ /\ req[r].op \in {"release", "preview"}
     /\ held' = [held EXCEPT ![req[r].p] = 0]
     /\ req'[r] = Ru!Idle

\* A step writes one holder at most: an insertion of a free port, or a release.
LEMMA StepHeld ==
  ASSUME NEW r \in Requests, RShape, Ru!Step(r)
  PROVE  HeldEffect(r)
<1>1. ASSUME Ru!Insert(r) PROVE HeldEffect(r)
  BY <1>1, GotoPc DEF Ru!Insert, HeldEffect
<1>2. ASSUME Ru!ReleasePort(r) \/ Ru!PreviewUp(r) \/ Ru!PreviewCheck(r) \/ Ru!Teardown(r)
      PROVE  HeldEffect(r)
  BY <1>2, EndIdle
  DEF Ru!ReleasePort, Ru!PreviewUp, Ru!PreviewCheck, Ru!Teardown, Ru!ComposeUp, Ru!Release, Ru!At, HeldEffect
<1>3. ASSUME ~Ru!Insert(r), ~(Ru!ReleasePort(r) \/ Ru!PreviewUp(r) \/ Ru!PreviewCheck(r) \/ Ru!Teardown(r))
      PROVE  held' = held
  BY <1>3
  DEF Ru!Step, Ru!Pick, Ru!AddWorktree, Ru!Activate, Ru!RemoveWorktree, Ru!Building, Ru!Archive, Ru!DeployUp,
      Ru!Confirm, Ru!Down, Ru!Stopped, Ru!Restart, Ru!Restarted, Ru!Look, Ru!Reconcile, Ru!Preview
<1> QED BY <1>1, <1>2, <1>3 DEF HeldEffect

\* What a step does to the disk: a worktree comes or goes with its request, the
\* tree of a deployment is extracted.
TreesEffect(r) ==
  \/ /\ req[r].op = "reserve" /\ req[r].pc = "begin"
     /\ trees' = trees \cup {req[r].p} /\ req'[r].pc = "pick"
  \/ /\ req[r].op = "release" /\ req[r].pc = "begin"
     /\ trees' = trees \ {req[r].p} /\ req'[r].pc = "release"
  \/ req[r].op = "up" /\ trees' \in {trees \ {req[r].p}, trees \cup {req[r].p}}
  \/ trees' = trees /\ ~(req[r].op \in {"reserve", "release"} /\ req[r].pc = "begin")

\* A step has that effect on the disk.
LEMMA StepTrees ==
  ASSUME NEW r \in Requests, RShape, Programs, Ru!Step(r)
  PROVE  TreesEffect(r)
<1>1. ASSUME Ru!AddWorktree(r) \/ Ru!RemoveWorktree(r) \/ Ru!Archive(r) PROVE TreesEffect(r)
  BY <1>1, GotoPc DEF Ru!AddWorktree, Ru!RemoveWorktree, Ru!Archive, Ru!At, TreesEffect
<1>2. ASSUME Ru!Pick(r) \/ Ru!Insert(r) PROVE TreesEffect(r)
  BY <1>2 DEF Ru!Pick, Ru!Insert, TreesEffect
<1>3. ASSUME ~(Ru!AddWorktree(r) \/ Ru!RemoveWorktree(r) \/ Ru!Archive(r)), ~(Ru!Pick(r) \/ Ru!Insert(r))
      PROVE  trees' = trees /\ ~(req[r].op \in {"reserve", "release"} /\ req[r].pc = "begin")
  BY <1>3
  DEF Ru!Step, Ru!At, Ru!Activate, Ru!ReleasePort, Ru!Building, Ru!DeployUp,
      Ru!Confirm, Ru!Down, Ru!Stopped, Ru!Restart, Ru!Restarted, Ru!Look, Ru!Reconcile, Ru!Preview,
      Ru!PreviewUp, Ru!PreviewCheck, Ru!Teardown
<1> QED BY <1>1, <1>2, <1>3 DEF TreesEffect

\* What a step does to the containers: those of its own service only.
Bare == [state |-> "none", port |-> 0]
ContEffect(r) ==
  \/ cont' = cont /\ ~(req[r].op = "down" /\ req'[r].pc = "write") /\ ~(req[r].op = "restart" /\ req'[r].pc = "write")
  \/ /\ req[r].op \in {"up", "preview"} /\ req[r].pc = "held" /\ cont' = [cont EXCEPT ![req[r].p] = Ru!Up(r)]
     /\ req'[r].pc = "ps"
  \/ /\ req[r].op = "preview" /\ cont' = [cont EXCEPT ![req[r].p] = Bare] /\ req'[r] = Ru!Idle
  \/ /\ req[r].op = "down" /\ cont' = [cont EXCEPT ![req[r].p] = Bare] /\ req'[r].pc = "write"
  \/ /\ req[r].op = "restart" /\ cont[req[r].p].state # "none"
     /\ cont' = [cont EXCEPT ![req[r].p].state = "up"] /\ req'[r].pc = "write"

\* A step has that effect on the containers.
LEMMA StepCont ==
  ASSUME NEW r \in Requests, RShape, Programs, Ru!Step(r)
  PROVE  ContEffect(r)
<1> Ru!Idle.pc = "idle"
  BY DEF Ru!Idle
<1>1. ASSUME Ru!DeployUp(r) \/ Ru!PreviewUp(r) PROVE ContEffect(r)
  BY <1>1, GotoPc, EndIdle DEF Ru!DeployUp, Ru!PreviewUp, Ru!ComposeUp, Ru!At, ContEffect
<1>2. ASSUME Ru!Down(r) \/ Ru!Restart(r) \/ Ru!Teardown(r) PROVE ContEffect(r)
  BY <1>2, GotoPc, EndIdle DEF Ru!Down, Ru!Restart, Ru!Teardown, Ru!At, Bare, ContEffect
<1>3. ASSUME ~(Ru!DeployUp(r) \/ Ru!PreviewUp(r)), ~(Ru!Down(r) \/ Ru!Restart(r) \/ Ru!Teardown(r))
      PROVE  /\ cont' = cont /\ ~(req[r].op = "down" /\ req[r].pc = "begin")
             /\ ~(req[r].op = "restart" /\ req[r].pc = "begin")
  BY <1>3, Placed
  DEF Ru!Step, Ru!At, Ru!AddWorktree, Ru!RemoveWorktree, Ru!Archive, Ru!Pick, Ru!Insert, Ru!Activate,
      Ru!ReleasePort, Ru!Building, Ru!Confirm, Ru!Stopped, Ru!Restarted, Ru!Look, Ru!Reconcile, Ru!Preview,
      Ru!PreviewCheck
<1>4. ASSUME cont' = cont, ~(req[r].op = "down" /\ req[r].pc = "begin"), ~(req[r].op = "restart" /\ req[r].pc = "begin")
      PROVE  ContEffect(r)
  <2>1. req'[r] = Ru!Idle \/ Follows(req[r].op, req[r].pc, req'[r].pc)
    BY StepFollows
  <2>2. ~(req[r].op = "down" /\ req'[r].pc = "write") /\ ~(req[r].op = "restart" /\ req'[r].pc = "write")
    BY <2>1, <1>4, Placed DEF Follows
  <2> QED BY <1>4, <2>2 DEF ContEffect
<1> QED BY <1>1, <1>2, <1>3, <1>4

\* What a step does to the port it works with.
PortEffect(r) ==
  /\ req'[r].pc = "insert" =>
       /\ req'[r].port \in Ru!RangeOf(req[r].p) /\ req'[r].tries < MaxRaceRetry
       /\ held' = held
  /\ req'[r].pc = "held" => req'[r].port = held'[req[r].p] /\ req'[r].port # 0
  /\ req'[r].pc \in {"ps", "use"} => req'[r].port = req[r].port /\ req[r].pc \in {"held", "ps"} /\ held' = held

\* A step leaves its request with a port it may use, or with none.
LEMMA StepPort ==
  ASSUME NEW r \in Requests, RShape, Programs, PortsHeld, Ru!Step(r)
  PROVE  PortEffect(r)
<1> Ru!Idle.pc = "idle"
  BY DEF Ru!Idle
<1>1. ASSUME Ru!Pick(r) PROVE PortEffect(r)
  <2>1. CASE held[req[r].p] # 0
    <3>1. req' = [req EXCEPT ![r].pc = "held", ![r].port = held[req[r].p]] /\ held' = held
      BY <1>1, <2>1 DEF Ru!Pick
    <3>2. req'[r].pc = "held" /\ req'[r].port = held[req[r].p]
      BY <3>1 DEF RShape, RReqs
    <3> QED BY <2>1, <3>1, <3>2 DEF PortEffect
  <2>2. CASE held[req[r].p] = 0 /\ Ru!Exhausted(r)
    BY <2>2, EndIdle DEF Ru!Exhausted, PortEffect
  <2>3. CASE held[req[r].p] = 0 /\ ~Ru!Exhausted(r)
    <3>1. /\ Ru!Free(req[r].p) # {} /\ req[r].tries < MaxRaceRetry /\ held' = held
          /\ req' = [req EXCEPT ![r].pc = "insert", ![r].port = Ru!Min(Ru!Free(req[r].p))]
      BY <1>1, <2>3 DEF Ru!Pick
    <3>2. Ru!Min(Ru!Free(req[r].p)) \in Ru!RangeOf(req[r].p)
      BY <3>1, FreeHasMin DEF Ru!Free
    <3>3. /\ req'[r].pc = "insert" /\ req'[r].port = Ru!Min(Ru!Free(req[r].p))
          /\ req'[r].tries = req[r].tries
      BY <3>1 DEF RShape, RReqs
    <3> QED BY <3>1, <3>2, <3>3 DEF PortEffect
  <2> QED BY <2>1, <2>2, <2>3
<1>2. ASSUME Ru!Insert(r) PROVE PortEffect(r)
  <2>0. req[r].pc = "insert" /\ req[r].op # "none" /\ req[r].p \in Ru!Purposes
    BY <1>2, Placed DEF Ru!Insert
  <2>1. CASE Ru!Goto(r, "held") /\ held' = [held EXCEPT ![req[r].p] = req[r].port]
    <3>1. req'[r].pc = "held" /\ req'[r].port = req[r].port
      BY <2>1, GotoPc
    <3>2. held'[req[r].p] = req[r].port
      BY <2>1, <2>0 DEF RShape, HeldShape
    <3>3. req[r].port # 0
      BY <2>0, PortsArePositive DEF PortsHeld
    <3> QED BY <3>1, <3>2, <3>3 DEF PortEffect
  <2>2. CASE req' = [req EXCEPT ![r].pc = "pick", ![r].tries = @ + 1]
    <3>1. req'[r].pc = "pick"
      BY <2>2 DEF RShape, RReqs
    <3> QED BY <3>1 DEF PortEffect
  <2> QED BY <1>2, <2>1, <2>2 DEF Ru!Insert
<1>3. ASSUME Ru!DeployUp(r) \/ Ru!PreviewUp(r) \/ Ru!PreviewCheck(r) PROVE PortEffect(r)
  BY <1>3, GotoPc, EndIdle
  DEF Ru!DeployUp, Ru!PreviewUp, Ru!PreviewCheck, Ru!ComposeUp, Ru!At, PortEffect
<1>4. ASSUME ~Ru!Pick(r), ~Ru!Insert(r), ~(Ru!DeployUp(r) \/ Ru!PreviewUp(r) \/ Ru!PreviewCheck(r))
      PROVE  req[r].pc \notin {"pick", "insert"} /\ ~(req[r].pc \in {"held", "ps"} /\ req'[r] # Ru!Idle)
  BY <1>4, EndIdle
  DEF Ru!Step, Ru!At, Ru!AddWorktree, Ru!RemoveWorktree, Ru!Archive, Ru!Activate,
      Ru!ReleasePort, Ru!Building, Ru!Confirm, Ru!Down, Ru!Stopped, Ru!Restart, Ru!Restarted, Ru!Look,
      Ru!Reconcile, Ru!Preview, Ru!Teardown
<1>5. ASSUME req[r].pc \notin {"pick", "insert"}, ~(req[r].pc \in {"held", "ps"} /\ req'[r] # Ru!Idle)
      PROVE  PortEffect(r)
  BY <1>5, StepFollows DEF Follows, PortEffect
<1> QED BY <1>1, <1>2, <1>3, <1>4, <1>5

\* What a step does to the rows of the deployments.
DepEffect(r) ==
  \/ dep' = dep
  \/ req[r].p \in Ru!Deploys /\ \E s \in {"building", "running", "stopped", "unhealthy"} : Ru!Status(Ru!Branch(r), s)
  \/ /\ req[r].p \in Ru!Deploys /\ req[r].pc = "ps"
     /\ dep' = [dep EXCEPT ![Ru!Branch(r)] = [status |-> "running", port |-> req[r].port]]

\* A step has that effect on the rows.
LEMMA StepDep ==
  ASSUME NEW r \in Requests, RShape, Programs, Ru!Step(r)
  PROVE  DepEffect(r)
<1>1. ASSUME \/ Ru!Building(r) \/ Ru!Archive(r) \/ Ru!DeployUp(r) \/ Ru!Confirm(r)
      PROVE  DepEffect(r)
  BY <1>1, Placed DEF Ru!Building, Ru!Archive, Ru!DeployUp, Ru!Confirm, Ru!ComposeUp, Ru!At, DepEffect
<1>2. ASSUME \/ Ru!Stopped(r) \/ Ru!Restart(r) \/ Ru!Restarted(r) \/ Ru!Look(r) \/ Ru!Reconcile(r)
      PROVE  DepEffect(r)
  BY <1>2, Placed DEF Ru!Stopped, Ru!Restart, Ru!Restarted, Ru!Look, Ru!Reconcile, Ru!At, DepEffect
<1>3. ASSUME ~(Ru!Building(r) \/ Ru!Archive(r) \/ Ru!DeployUp(r) \/ Ru!Confirm(r)),
             ~(Ru!Stopped(r) \/ Ru!Restart(r) \/ Ru!Restarted(r) \/ Ru!Look(r) \/ Ru!Reconcile(r))
      PROVE  dep' = dep
  BY <1>3
  DEF Ru!Step, Ru!AddWorktree, Ru!RemoveWorktree, Ru!Pick, Ru!Insert, Ru!Activate,
      Ru!ReleasePort, Ru!Down, Ru!Preview, Ru!PreviewUp, Ru!PreviewCheck, Ru!Teardown
<1> QED BY <1>1, <1>2, <1>3 DEF DepEffect

\* A refused port and a stop of the daemon are remembered.
LEMMA StepCut ==
  ASSUME NEW r \in Requests, RShape, Ru!Step(r)
  PROVE  cut' = cut \/ (cut' = TRUE /\ req'[r] = Ru!Idle /\ held' = held /\ trees' = trees)
<1>1. ASSUME Ru!Pick(r) PROVE cut' = cut \/ (cut' = TRUE /\ req'[r] = Ru!Idle /\ held' = held /\ trees' = trees)
  BY <1>1, EndIdle DEF Ru!Pick, Ru!Exhausted
<1>2. ASSUME ~Ru!Pick(r) PROVE cut' = cut
  BY <1>2
  DEF Ru!Step, Ru!AddWorktree, Ru!RemoveWorktree, Ru!Archive, Ru!Insert, Ru!Activate,
      Ru!ReleasePort, Ru!Building, Ru!DeployUp, Ru!Confirm, Ru!Down, Ru!Stopped, Ru!Restart, Ru!Restarted,
      Ru!Look, Ru!Reconcile, Ru!Preview, Ru!PreviewUp, Ru!PreviewCheck, Ru!Teardown
<1> QED BY <1>1, <1>2

\* What a status request saw.
LEMMA StepLook ==
  ASSUME NEW r \in Requests, RShape, Programs, Ru!Step(r), req[r].op = "status", req'[r].pc = "write"
  PROVE  (req'[r].live <=> cont[req[r].p].state = "up") /\ cont' = cont
<1>1. Ru!Idle.pc = "idle"
  BY DEF Ru!Idle
<1>2. req[r].pc = "begin"
  BY <1>1, StepFollows, Placed DEF Follows
<1>3. Ru!Look(r)
  BY <1>2 DEF Ru!Step, Ru!At, Ru!Pick, Ru!Insert, Ru!AddWorktree, Ru!RemoveWorktree, Ru!Archive, Ru!Activate,
      Ru!ReleasePort, Ru!Building, Ru!DeployUp, Ru!Confirm, Ru!Down, Ru!Stopped, Ru!Restart, Ru!Restarted,
      Ru!Reconcile, Ru!Preview, Ru!PreviewUp, Ru!PreviewCheck, Ru!Teardown
<1>4. ~Ru!End(r)
  BY <1>1, EndIdle
<1>5. req' = [req EXCEPT ![r].pc = "write", ![r].live = cont[req[r].p].state = "up"] /\ cont' = cont
  BY <1>3, <1>4 DEF Ru!Look
<1>6. req'[r] = [req[r] EXCEPT !.pc = "write", !.live = cont[req[r].p].state = "up"]
  BY <1>5 DEF RShape
<1>7. req[r] \in RReqs
  BY DEF RShape
<1>8. req'[r].live = (cont[req[r].p].state = "up")
  BY <1>6, <1>7 DEF RReqs
<1> QED BY <1>5, <1>8

\* How a request that was not cut ends: a worktree with its port, or without
\* both, a preview without a port.
LEMMA StepEnds ==
  ASSUME NEW r \in Requests, RShape, Programs, Ru!Step(r), req'[r] = Ru!Idle, ~cut'
  PROVE  /\ req[r].op = "reserve" => req[r].pc = "held" /\ held' = held /\ trees' = trees
         /\ req[r].op = "release" => /\ req[r].pc = "release" /\ trees' = trees
                                     /\ held' = [held EXCEPT ![req[r].p] = 0]
         /\ req[r].op = "preview" => \/ held' = [held EXCEPT ![req[r].p] = 0]
                                     \/ req[r].pc = "begin" /\ held' = held
<1> DEFINE Goal == /\ req[r].op = "reserve" => req[r].pc = "held" /\ held' = held /\ trees' = trees
                   /\ req[r].op = "release" => /\ req[r].pc = "release" /\ trees' = trees
                                               /\ held' = [held EXCEPT ![req[r].p] = 0]
                   /\ req[r].op = "preview" => \/ held' = [held EXCEPT ![req[r].p] = 0]
                                               \/ req[r].pc = "begin" /\ held' = held
<1>1. req'[r].pc = "idle"
  BY DEF Ru!Idle
<1>2. ASSUME NEW pc, pc # "idle", Ru!Goto(r, pc) PROVE FALSE
  BY <1>1, <1>2, GotoPc
<1>3. ASSUME Ru!Pick(r) PROVE FALSE
  <2>1. ~Ru!Exhausted(r)
    BY DEF Ru!Exhausted
  <2>2. req[r].pc = "pick" /\ req' \in {[req EXCEPT ![r].pc = "held", ![r].port = held[req[r].p]],
                [req EXCEPT ![r].pc = "insert", ![r].port = Ru!Min(Ru!Free(req[r].p))]}
    BY <1>3, <2>1 DEF Ru!Pick
  <2>3. req'[r].pc \in {"held", "insert"}
    BY <2>2 DEF RShape, RReqs
  <2> QED BY <1>1, <2>3
<1>4. ASSUME Ru!Insert(r) PROVE FALSE
  <2>1. ~Ru!Goto(r, "held")
    BY <1>2
  <2>2. req' = [req EXCEPT ![r].pc = "pick", ![r].tries = @ + 1]
    BY <1>4, <2>1 DEF Ru!Insert
  <2>3. req'[r].pc = "pick"
    BY <2>2 DEF RShape, RReqs
  <2> QED BY <1>1, <2>3
<1>5. ASSUME Ru!AddWorktree(r) \/ Ru!RemoveWorktree(r) PROVE FALSE
  BY <1>5, <1>2 DEF Ru!AddWorktree, Ru!RemoveWorktree
<1>6. ASSUME Ru!Activate(r) \/ Ru!ReleasePort(r) PROVE Goal
  BY <1>6 DEF Ru!Activate, Ru!ReleasePort, Ru!Release, Ru!At
<1>7. ASSUME Ru!Preview(r) \/ Ru!PreviewUp(r) \/ Ru!PreviewCheck(r) \/ Ru!Teardown(r) PROVE Goal
  BY <1>7, <1>2
  DEF Ru!Preview, Ru!PreviewUp, Ru!PreviewCheck, Ru!Teardown, Ru!ComposeUp, Ru!Release, Ru!At
<1>8. ASSUME \/ Ru!Archive(r) \/ Ru!Building(r) \/ Ru!DeployUp(r) \/ Ru!Confirm(r) \/ Ru!Down(r) \/ Ru!Stopped(r)
             \/ Ru!Restart(r) \/ Ru!Restarted(r) \/ Ru!Look(r) \/ Ru!Reconcile(r)
      PROVE  req[r].op \notin {"reserve", "release", "preview"}
  BY <1>8
  DEF Ru!At, Ru!Archive, Ru!Building, Ru!DeployUp, Ru!Confirm, Ru!Down, Ru!Stopped, Ru!Restart, Ru!Restarted,
      Ru!Look, Ru!Reconcile
<1>9. ASSUME req[r].op \notin {"reserve", "release", "preview"} PROVE Goal
  BY <1>9
<1> HIDE DEF Goal
<1>10. Goal
  BY <1>3, <1>4, <1>5, <1>6, <1>7, <1>8, <1>9 DEF Ru!Step
<1> QED BY <1>10 DEF Goal

\* A request that another one does not move: at most it is no longer alone.
Same(q) ==
  \/ req'[q] = req[q]
  \/ /\ req[q].op # "none" /\ req'[q] = [req[q] EXCEPT !.alone = FALSE]
     /\ req'[q].op = req[q].op /\ req'[q].p = req[q].p /\ req'[q].pc = req[q].pc
     /\ req'[q].port = req[q].port /\ req'[q].tries = req[q].tries /\ req'[q].live = req[q].live
     /\ req'[q].alone = FALSE

\* Which purposes an operation is for; a worktree and a preview have one user.
Asked(op, p) ==
  \/ op \in {"reserve", "release"} /\ p \in Ru!Worktrees /\ ~Ru!Busy(p)
  \/ op = "preview" /\ p \in Ru!Previews /\ ~Ru!Busy(p)
  \/ op \in {"up", "down", "restart", "status"} /\ p \in Ru!Deploys

\* Request r begins; whoever works on the same purpose is no longer alone.
Begun(r, op, p) ==
  /\ req[r].pc = "idle" /\ Asked(op, p) /\ p \in Ru!Purposes
  /\ req'[r].op = op /\ req'[r].p = p /\ req'[r].pc = "begin" /\ req'[r].alone = ~Ru!Busy(p)
  /\ req' \in [Requests -> RReqs]
  /\ \A q \in Requests \ {r} : Same(q) /\ (req[q].p = p => ~req'[q].alone)
  /\ UNCHANGED <<held, trees, dep, cont, cut>>

\* A container of service s dies; whoever works on it is no longer alone.
Died(s) ==
  /\ cont[s].state = "up" /\ cont' = [cont EXCEPT ![s].state = "exited"]
  /\ req' \in [Requests -> RReqs]
  /\ \A q \in Requests : Same(q) /\ (req[q].p = s => ~req'[q].alone)
  /\ UNCHANGED <<held, trees, dep, cut>>

\* Being disturbed keeps a request what it is.
LEMMA DisturbedIsReq ==
  ASSUME NEW p \in Ru!Purposes, RShape, Programs
  PROVE  /\ Ru!Disturbed(p) \in [Requests -> RReqs]
         /\ \A q \in Requests :
              /\ Ru!Disturbed(p)[q] = req[q] \/ (req[q].op # "none" /\ Ru!Disturbed(p)[q] = [req[q] EXCEPT !.alone = FALSE])
              /\ req[q].p = p => Ru!Disturbed(p)[q] = [req[q] EXCEPT !.alone = FALSE]
<1>1. ASSUME NEW q \in Requests, req[q].p = p
      PROVE  [req[q] EXCEPT !.alone = FALSE] \in RReqs /\ req[q].op # "none"
  BY <1>1, FieldMoves, Placed, PurposeKinds DEF RShape
<1>2. \A q \in Requests : Ru!Disturbed(p)[q] = IF req[q].p = p THEN [req[q] EXCEPT !.alone = FALSE] ELSE req[q]
  BY DEF Ru!Disturbed
<1>3. ASSUME NEW q \in Requests
      PROVE  (IF req[q].p = p THEN [req[q] EXCEPT !.alone = FALSE] ELSE req[q]) \in RReqs
  BY <1>1 DEF RShape
<1>4. Ru!Disturbed(p) \in [Requests -> RReqs]
  BY <1>3 DEF Ru!Disturbed
<1> QED BY <1>1, <1>2, <1>4

\* What writing the flag leaves of a request.
LEMMA NotAlone ==
  ASSUME NEW q \in RReqs
  PROVE  LET n == [q EXCEPT !.alone = FALSE]
         IN  /\ n.op = q.op /\ n.p = q.p /\ n.pc = q.pc /\ n.port = q.port
             /\ n.tries = q.tries /\ n.live = q.live /\ n.alone = FALSE
BY DEF RReqs

\* A death has that form.
LEMMA DieForm ==
  ASSUME NEW s \in Ru!Services, RShape, Programs, Ru!Die(s)
  PROVE  Died(s)
<1>1. s \in Ru!Purposes
  BY PurposeKinds
<1>2. req' = Ru!Disturbed(s)
  BY DEF Ru!Die
<1>3. ASSUME NEW q \in Requests PROVE Same(q) /\ (req[q].p = s => ~req'[q].alone)
  <2>1. req[q] \in RReqs
    BY DEF RShape
  <2>2. /\ req'[q] = req[q] \/ (req[q].op # "none" /\ req'[q] = [req[q] EXCEPT !.alone = FALSE])
        /\ req[q].p = s => req'[q] = [req[q] EXCEPT !.alone = FALSE]
    BY <1>1, <1>2, DisturbedIsReq
  <2> QED BY <2>1, <2>2, NotAlone DEF Same
<1> QED BY <1>1, <1>2, <1>3, DisturbedIsReq DEF Died, Ru!Die

\* And so has a beginning.
LEMMA BeginForm ==
  ASSUME NEW r \in Requests, NEW op \in ROps, NEW p \in Ru!Purposes, RShape, Programs,
         Asked(op, p), Ru!Begin(r, op, p)
  PROVE  Begun(r, op, p)
<1> DEFINE new == [Ru!Idle EXCEPT !.op = op, !.p = p, !.pc = "begin", !.alone = ~Ru!Busy(p)]
<1>1. /\ new \in RReqs /\ new.op = op /\ new.p = p /\ new.pc = "begin" /\ new.alone = ~Ru!Busy(p)
  <2>1. (~Ru!Busy(p)) \in BOOLEAN /\ p \in RPs /\ "begin" \in RPcs
    BY DEF RPs, RPcs
  <2> QED BY <2>1, IdleIsReq DEF RReqs, Ru!Idle
<1>2. req' = [Ru!Disturbed(p) EXCEPT ![r] = new] /\ Ru!Disturbed(p) \in [Requests -> RReqs]
  BY DisturbedIsReq DEF Ru!Begin
<1> HIDE DEF new
<1>3. req' \in [Requests -> RReqs] /\ req'[r] = new /\ \A q \in Requests \ {r} : req'[q] = Ru!Disturbed(p)[q]
  BY <1>1, <1>2
<1>4. ASSUME NEW q \in Requests \ {r} PROVE Same(q) /\ (req[q].p = p => ~req'[q].alone)
  <2>1. req[q] \in RReqs
    BY DEF RShape
  <2>2. /\ req'[q] = req[q] \/ (req[q].op # "none" /\ req'[q] = [req[q] EXCEPT !.alone = FALSE])
        /\ req[q].p = p => req'[q] = [req[q] EXCEPT !.alone = FALSE]
    BY <1>3, DisturbedIsReq
  <2> QED BY <2>1, <2>2, NotAlone DEF Same
<1>5. req[r].pc = "idle" /\ UNCHANGED <<held, trees, dep, cont, cut>>
  BY DEF Ru!Begin
<1> QED BY <1>1, <1>3, <1>4, <1>5 DEF Begun

\* Asking for something begins it.
LEMMA AskForm ==
  ASSUME NEW r \in Requests, RShape, Programs, Ru!Ask(r)
  PROVE  \E op \in ROps, p \in Ru!Purposes : Begun(r, op, p)
<1>1. \E op \in ROps, p \in Ru!Purposes : Asked(op, p) /\ Ru!Begin(r, op, p)
  BY PurposeKinds DEF Ru!Ask, Asked, ROps
<1> QED BY <1>1, BeginForm

\* The daemon stops: every request is forgotten.
Crashed ==
  /\ \A r \in Requests : req'[r] = Ru!Idle
  /\ req' \in [Requests -> RReqs] /\ cut' = TRUE
  /\ UNCHANGED <<held, trees, dep, cont>>

\* The forms of a step of the runtime.
LEMMA RuntimeForms ==
  ASSUME RShape, Programs, [Ru!Next]_runtime
  PROVE  \/ \E r \in Requests, op \in ROps, p \in Ru!Purposes : Begun(r, op, p)
         \/ \E s \in Ru!Services : Died(s)
         \/ \E r \in Requests : Ru!Step(r)
         \/ Crashed
         \/ UNCHANGED runtime
<1>1. ASSUME Ru!Crash PROVE Crashed
  BY <1>1, IdleIsReq DEF Ru!Crash, Crashed
<1> QED BY <1>1, AskForm, DieForm DEF Ru!Next

\* A request at rest.
LEMMA AtRest ==
  Ru!Idle.op = "none" /\ Ru!Idle.p = <<"none", "none">> /\ Ru!Idle.pc = "idle" /\ Ru!Idle.port = 0
BY DEF Ru!Idle

\* Requests, rows and containers keep their form.
LEMMA RShapeKept ==
  ASSUME RShape, Programs, PortsHeld, [Ru!Next]_runtime
  PROVE  RShape'
<1>1. ASSUME NEW r \in Requests, Ru!Step(r) PROVE RShape'
  <2>1. req' \in [Requests -> RReqs]
    BY <1>1, StepMoves
  <2>2. HeldShape'
    <3>1. ASSUME req[r].pc = "insert" PROVE req[r].port \in Ru!Ports \cup {0} /\ req[r].p \in Ru!Purposes
      BY <3>1, PortsArePositive, Placed DEF PortsHeld
    <3>2. HeldEffect(r)
      BY <1>1, StepHeld
    <3> QED BY <3>1, <3>2 DEF HeldEffect, RShape, HeldShape
  <2>3. (trees \subseteq Ru!Worktrees \cup Ru!Deploys)'
    <3>1. req[r].op \in {"reserve", "release", "up"} => req[r].p \in Ru!Worktrees \cup Ru!Deploys
      BY Placed
    <3>2. TreesEffect(r)
      BY <1>1, StepTrees
    <3>3. trees' \subseteq Ru!Worktrees \cup Ru!Deploys
      BY <3>1, <3>2 DEF TreesEffect, RShape
    <3> QED BY <3>3
  <2>4. dep' \in [DeployBranches -> Rows]
    <3>1. DepEffect(r)
      BY <1>1, StepDep
    <3>2. ASSUME NEW s \in {"building", "running", "stopped", "unhealthy"}, req[r].p \in Ru!Deploys,
                 Ru!Status(Ru!Branch(r), s)
          PROVE  dep' \in [DeployBranches -> Rows]
      <4>1. Ru!Branch(r) \in DeployBranches
        BY <3>2, PurposeKinds DEF Ru!Branch
      <4>2. [dep[Ru!Branch(r)] EXCEPT !.status = s] \in Rows
        BY <4>1 DEF RShape, Rows
      <4> QED BY <3>2, <4>1, <4>2 DEF Ru!Status, RShape
    <3>3. ASSUME req[r].p \in Ru!Deploys, req[r].pc = "ps",
                 dep' = [dep EXCEPT ![Ru!Branch(r)] = [status |-> "running", port |-> req[r].port]]
          PROVE  dep' \in [DeployBranches -> Rows]
      <4>1. req[r].p \in Ru!Purposes
        BY <3>3, PurposeKinds
      <4>2. req[r].port \in Ru!Ports \cup {0}
        BY <3>3, <4>1 DEF PortsHeld, RShape, HeldShape
      <4>3. [status |-> "running", port |-> req[r].port] \in Rows
        BY <4>2 DEF Rows
      <4> QED BY <3>3, <4>3 DEF RShape
    <3>4. CASE dep' = dep
      BY <3>4 DEF RShape
    <3> QED BY <3>1, <3>2, <3>3, <3>4 DEF DepEffect
  <2>5. cont' \in [Ru!Services -> Conts]
    <3>1. ContEffect(r)
      BY <1>1, StepCont
    <3>2. ASSUME req[r].pc = "held", req[r].op \in {"up", "preview"} PROVE Ru!Up(r) \in Conts
      <4>1. req[r].p \in Ru!Purposes
        BY <3>2, Placed
      <4>2. req[r].port \in Ru!Ports \cup {0}
        BY <3>2, <4>1 DEF PortsHeld, RShape, HeldShape
      <4> QED BY <4>2 DEF Ru!Up, Conts
    <3>3. Bare \in Conts
      BY DEF Bare, Conts
    <3>4. ASSUME req[r].op = "restart" PROVE [cont[req[r].p] EXCEPT !.state = "up"] \in Conts
      BY <3>4, Placed, PurposeKinds DEF RShape, Conts
    <3> QED BY <3>1, <3>2, <3>3, <3>4 DEF ContEffect, RShape
  <2>6. cut' \in BOOLEAN
    BY <1>1, StepCut DEF RShape
  <2> QED BY <2>1, <2>2, <2>3, <2>4, <2>5, <2>6 DEF RShape
<1>2. ASSUME NEW r \in Requests, NEW op \in ROps, NEW p \in Ru!Purposes, Begun(r, op, p) PROVE RShape'
  BY <1>2 DEF Begun, RShape, HeldShape
<1>3. ASSUME NEW s \in Ru!Services, Died(s) PROVE RShape'
  <2>1. [cont[s] EXCEPT !.state = "exited"] \in Conts
    BY DEF RShape, Conts
  <2>2. cont' \in [Ru!Services -> Conts]
    BY <1>3, <2>1 DEF Died, RShape
  <2> QED BY <1>3, <2>2 DEF Died, RShape, HeldShape
<1>4. ASSUME Crashed PROVE RShape'
  BY <1>4 DEF Crashed, RShape, HeldShape
<1>5. ASSUME UNCHANGED runtime PROVE RShape'
  BY <1>5 DEF runtime, RShape, HeldShape
<1> QED BY <1>1, <1>2, <1>3, <1>4, <1>5, RuntimeForms

\* Every operation goes through its own steps.
LEMMA ProgramsKept ==
  ASSUME RShape, Programs, PortsHeld, [Ru!Next]_runtime
  PROVE  Programs'
<1> SUFFICES ASSUME NEW q \in Requests
             PROVE  req'[q] = Ru!Idle \/ Sound(req'[q].op, req'[q].p, req'[q].pc)
  BY DEF Programs
<1> DEFINE Goal == req'[q] = Ru!Idle \/ Sound(req'[q].op, req'[q].p, req'[q].pc)
<1>1. ASSUME Same(q) PROVE Goal
  BY <1>1, AtRest DEF Same, Programs
<1>2. ASSUME NEW r \in Requests, Ru!Step(r) PROVE Goal
  <2>1. CASE q # r
    BY <1>1, <1>2, <2>1, StepMoves DEF Moves, Same
  <2>2. CASE q = r
    <3>1. Moves(r) /\ (req'[r] = Ru!Idle \/ Follows(req[r].op, req[r].pc, req'[r].pc))
      BY <1>2, StepMoves, StepFollows
    <3>2. ASSUME Follows(req[r].op, req[r].pc, req'[r].pc), req[r].op # "none"
          PROVE  Sound(req[r].op, req[r].p, req'[r].pc)
      BY <3>2, AtRest DEF Programs, Sound, Follows
    <3> QED BY <2>2, <3>1, <3>2 DEF Moves
  <2> QED BY <2>1, <2>2
<1>3. ASSUME NEW r \in Requests, NEW op \in ROps, NEW p \in Ru!Purposes, Begun(r, op, p) PROVE Goal
  <2>1. CASE q # r
    BY <1>1, <1>3, <2>1 DEF Begun
  <2>2. CASE q = r
    BY <1>3, <2>2 DEF Begun, Asked, Sound
  <2> QED BY <2>1, <2>2
<1>4. ASSUME NEW s \in Ru!Services, Died(s) PROVE Goal
  BY <1>1, <1>4 DEF Died
<1>5. ASSUME Crashed PROVE Goal
  BY <1>5 DEF Crashed
<1>6. ASSUME UNCHANGED runtime PROVE Goal
  BY <1>6, <1>1 DEF runtime, Same
<1> HIDE DEF Goal
<1>7. Goal
  BY <1>2, <1>3, <1>4, <1>5, <1>6, RuntimeForms
<1> QED BY <1>7 DEF Goal

\* A feature has one worker and one merge; a request that is alone is.
LEMMA OneUserKept ==
  ASSUME RShape, Programs, PortsHeld, OneUser, [Ru!Next]_runtime
  PROVE  OneUser'
<1> SUFFICES ASSUME NEW a \in Requests, NEW b \in Requests, a # b, req'[a].op # "none",
                    req'[a].p \notin Ru!Deploys \/ req'[a].alone, req'[b].p = req'[a].p
             PROVE  FALSE
  BY DEF OneUser
<1>0. req'[a].p # <<"none", "none">>
  <2>1. Programs' /\ RShape'
    BY ProgramsKept, RShapeKept
  <2> QED BY <2>1, AtRest, PurposeKinds DEF Programs, Sound
<1>1. ASSUME Same(a), Same(b) PROVE FALSE
  BY <1>1 DEF Same, OneUser
<1>2. ASSUME NEW r \in Requests, Ru!Step(r) PROVE FALSE
  <2>1. Moves(r)
    BY <1>2, StepMoves
  <2>2. req'[b] = Ru!Idle => FALSE
    BY <1>0, AtRest
  <2> QED BY <2>1, <2>2, AtRest DEF Moves, OneUser
<1>3. ASSUME NEW r \in Requests, NEW op \in ROps, NEW p \in Ru!Purposes, Begun(r, op, p) PROVE FALSE
  <2>1. CASE a # r /\ b # r
    BY <1>1, <1>3, <2>1 DEF Begun
  <2>2. CASE a = r
    <3>1. req[b].p = p
      BY <1>3, <2>2 DEF Begun, Same
    <3>2. Ru!Busy(p)
      BY <3>1 DEF Ru!Busy
    <3> QED BY <1>3, <2>2, <3>2, PurposeKinds DEF Begun, Asked
  <2>3. CASE b = r /\ a # r
    <3>1. Same(a) /\ (req[a].p = p => ~req'[a].alone) /\ req'[b].p = p
      BY <1>3, <2>3 DEF Begun
    <3>2. req[a].p = p
      BY <3>1 DEF Same
    <3>3. Ru!Busy(p)
      BY <3>2 DEF Ru!Busy
    <3> QED BY <1>3, <3>1, <3>2, <3>3, PurposeKinds DEF Begun, Asked
  <2> QED BY <2>1, <2>2, <2>3
<1>4. ASSUME NEW s \in Ru!Services, Died(s) PROVE FALSE
  BY <1>1, <1>4 DEF Died
<1>5. ASSUME Crashed PROVE FALSE
  BY <1>5, AtRest DEF Crashed
<1>6. ASSUME UNCHANGED runtime PROVE FALSE
  BY <1>6, <1>1 DEF runtime, Same
<1> QED BY <1>2, <1>3, <1>4, <1>5, <1>6, RuntimeForms

\* Two requests that work on one purpose work on a deployment, and neither is alone.
LEMMA Sharing ==
  ASSUME OneUser, Programs, NEW r \in Requests, NEW q \in Requests, r # q,
         req[q].op # "none", req[r].p = req[q].p
  PROVE  req[q].p \in Ru!Deploys /\ ~req[q].alone /\ req[r].op \notin {"reserve", "release", "preview"}
BY Placed, PurposeKinds DEF OneUser

\* A port that was picked, inserted or found stays the request's.
LEMMA PortsHeldKept ==
  ASSUME RShape, Programs, PortsHeld, OneUser, [Ru!Next]_runtime
  PROVE  PortsHeld'
<1> SUFFICES ASSUME NEW q \in Requests
             PROVE  /\ req'[q].pc = "insert" => req'[q].port \in Ru!RangeOf(req'[q].p) /\ req'[q].tries < MaxRaceRetry
                    /\ req'[q].pc \in {"held", "ps", "use"} => req'[q].port # 0 /\ held'[req'[q].p] = req'[q].port
  BY DEF PortsHeld
<1> DEFINE Goal ==
      /\ req'[q].pc = "insert" => req'[q].port \in Ru!RangeOf(req'[q].p) /\ req'[q].tries < MaxRaceRetry
      /\ req'[q].pc \in {"held", "ps", "use"} => req'[q].port # 0 /\ held'[req'[q].p] = req'[q].port
<1>1. ASSUME Same(q), held' = held PROVE Goal
  BY <1>1 DEF Same, PortsHeld
<1>2. ASSUME NEW r \in Requests, Ru!Step(r) PROVE Goal
  <2>1. CASE q = r
    <3>1. PortEffect(r) /\ Moves(r)
      BY <1>2, StepPort, StepMoves
    <3>2. req'[r] = Ru!Idle => Goal
      BY <2>1, AtRest
    <3> QED BY <2>1, <3>1, <3>2 DEF PortEffect, Moves, PortsHeld
  <2>2. CASE q # r
    <3>1. req'[q] = req[q]
      BY <1>2, <2>2, StepMoves DEF Moves
    <3>2. ASSUME req[q].pc \in {"held", "ps", "use"} PROVE held'[req[q].p] = held[req[q].p]
      <4>1. req[q].op # "none" /\ req[q].p \in Ru!Purposes /\ held[req[q].p] # 0
        BY <3>2, Placed DEF PortsHeld
      <4>2. HeldEffect(r)
        BY <1>2, StepHeld
      <4>3. ASSUME req[r].op \in {"release", "preview"} PROVE req[r].p # req[q].p
        BY <4>1, <4>3, <2>2, Sharing
      <4> QED BY <4>1, <4>2, <4>3 DEF HeldEffect, RShape, HeldShape
    <3> QED BY <3>1, <3>2 DEF PortsHeld
  <2> QED BY <2>1, <2>2
<1>3. ASSUME NEW r \in Requests, NEW op \in ROps, NEW p \in Ru!Purposes, Begun(r, op, p) PROVE Goal
  <2>1. CASE q # r
    BY <1>1, <1>3, <2>1 DEF Begun
  <2>2. CASE q = r
    BY <1>3, <2>2 DEF Begun
  <2> QED BY <2>1, <2>2
<1>4. ASSUME NEW s \in Ru!Services, Died(s) PROVE Goal
  BY <1>1, <1>4 DEF Died
<1>5. ASSUME Crashed PROVE Goal
  BY <1>5, AtRest DEF Crashed
<1>6. ASSUME UNCHANGED runtime PROVE Goal
  BY <1>6, <1>1 DEF runtime, Same
<1> HIDE DEF Goal
<1>7. Goal
  BY <1>2, <1>3, <1>4, <1>5, <1>6, RuntimeForms
<1> QED BY <1>7 DEF Goal

\* What a request of a worktree knows of the disk, and that a preview begins bare.
LEMMA OnDiskKept ==
  ASSUME RShape, Programs, PortsHeld, OneUser, OnDisk, Ru!PortsAreKept, [Ru!Next]_runtime
  PROVE  OnDisk'
<1> SUFFICES ASSUME NEW q \in Requests
             PROVE  /\ req'[q].op = "reserve" /\ req'[q].pc # "begin" => req'[q].p \in trees'
                    /\ req'[q].op = "release" /\ req'[q].pc = "release" => req'[q].p \notin trees'
                    /\ req'[q].op = "preview" /\ req'[q].pc = "begin" /\ ~cut' => held'[req'[q].p] = 0
  BY DEF OnDisk
<1> DEFINE Goal ==
      /\ req'[q].op = "reserve" /\ req'[q].pc # "begin" => req'[q].p \in trees'
      /\ req'[q].op = "release" /\ req'[q].pc = "release" => req'[q].p \notin trees'
      /\ req'[q].op = "preview" /\ req'[q].pc = "begin" /\ ~cut' => held'[req'[q].p] = 0
<1>1. ASSUME Same(q), UNCHANGED <<held, trees, cut>> PROVE Goal
  BY <1>1 DEF Same, OnDisk
<1>2. ASSUME NEW r \in Requests, Ru!Step(r) PROVE Goal
  <2>1. CASE q = r
    <3>1. CASE req'[r] = Ru!Idle
      BY <2>1, <3>1, AtRest
    <3>2. CASE req'[r] # Ru!Idle
      <4>1. /\ req'[r].op = req[r].op /\ req'[r].p = req[r].p
            /\ Follows(req[r].op, req[r].pc, req'[r].pc) /\ TreesEffect(r)
        BY <1>2, <3>2, StepMoves, StepFollows, StepTrees DEF Moves
      <4>2. ASSUME req[r].op = "reserve" PROVE req[r].p \in trees'
        BY <4>1, <4>2 DEF TreesEffect, OnDisk
      <4>3. ASSUME req[r].op = "release", req'[r].pc = "release" PROVE req[r].p \notin trees'
        BY <4>1, <4>3 DEF TreesEffect, Follows
      <4>4. req'[r].pc # "begin"
        BY <4>1 DEF Follows
      <4> QED BY <2>1, <4>1, <4>2, <4>3, <4>4
    <3> QED BY <3>1, <3>2
  <2>2. CASE q # r
    <3>1. req'[q] = req[q]
      BY <1>2, <2>2, StepMoves DEF Moves
    <3>2. ASSUME req[q].op \in {"reserve", "release", "preview"}
          PROVE  req[r].p # req[q].p /\ req[q].p \in Ru!Purposes
      BY <3>2, <2>2, Placed, PurposeKinds DEF OneUser
    <3>3. ASSUME req[r].p # req[q].p, req[q].p \in Ru!Purposes
          PROVE  held'[req[q].p] = held[req[q].p] /\ (req[q].p \in trees' <=> req[q].p \in trees)
      <4>1. HeldEffect(r) /\ TreesEffect(r)
        BY <1>2, StepHeld, StepTrees
      <4>2. held'[req[q].p] = held[req[q].p]
        BY <3>3, <4>1 DEF HeldEffect, RShape, HeldShape
      <4>3. req[q].p \in trees' <=> req[q].p \in trees
        BY <3>3, <4>1 DEF TreesEffect
      <4> QED BY <4>2, <4>3
    <3>4. ~cut' => ~cut
      BY <1>2, StepCut
    <3> QED BY <3>1, <3>2, <3>3, <3>4 DEF OnDisk
  <2> QED BY <2>1, <2>2
<1>3. ASSUME NEW r \in Requests, NEW op \in ROps, NEW p \in Ru!Purposes, Begun(r, op, p) PROVE Goal
  <2>1. CASE q # r
    BY <1>1, <1>3, <2>1 DEF Begun
  <2>2. CASE q = r
    <3>1. op = "preview" => p \in Ru!Previews /\ Ru!Quiet(p)
      BY <1>3, PurposeKinds DEF Begun, Asked, Ru!Busy, Ru!Quiet
    <3> QED BY <1>3, <2>2, <3>1 DEF Begun, Ru!PortsAreKept
  <2> QED BY <2>1, <2>2
<1>4. ASSUME NEW s \in Ru!Services, Died(s) PROVE Goal
  BY <1>1, <1>4 DEF Died
<1>5. ASSUME Crashed PROVE Goal
  BY <1>5, AtRest DEF Crashed
<1>6. ASSUME UNCHANGED runtime PROVE Goal
  BY <1>6, <1>1 DEF runtime, Same
<1> HIDE DEF Goal
<1>7. Goal
  BY <1>2, <1>3, <1>4, <1>5, <1>6, RuntimeForms
<1> QED BY <1>7 DEF Goal

\* The containers of a deployment are on the port it holds.
LEMMA OwnPortKept ==
  ASSUME RShape, Programs, PortsHeld, OneUser, OwnPort, [Ru!Next]_runtime
  PROVE  OwnPort'
<1> SUFFICES ASSUME NEW s \in Ru!Deploys
             PROVE  cont'[s].state # "none" => cont'[s].port = held'[s] /\ held'[s] # 0
  BY DEF OwnPort
<1> DEFINE Goal == cont'[s].state # "none" => cont'[s].port = held'[s] /\ held'[s] # 0
<1>0. s \in Ru!Services /\ s \in Ru!Purposes
  BY PurposeKinds
<1>1. ASSUME UNCHANGED <<held, cont>> PROVE Goal
  BY <1>1 DEF OwnPort
<1>2. ASSUME NEW r \in Requests, Ru!Step(r) PROVE Goal
  <2>1. HeldEffect(r) /\ ContEffect(r)
    BY <1>2, StepHeld, StepCont
  <2>2. ASSUME held[s] # 0 PROVE held'[s] = held[s]
    <3>1. req[r].op \in {"release", "preview"} => req[r].p # s
      BY Placed, PurposeKinds
    <3> QED BY <1>0, <2>1, <2>2, <3>1 DEF HeldEffect, RShape, HeldShape
  <2>3. ASSUME cont'[s].state = "none" \/ (cont[s].state # "none" /\ cont'[s].port = cont[s].port) PROVE Goal
    BY <2>2, <2>3 DEF OwnPort
  <2>4. CASE cont'[s] = cont[s]
    BY <2>3, <2>4
  <2>5. CASE req[r].p = s /\ req[r].pc = "held" /\ cont' = [cont EXCEPT ![req[r].p] = Ru!Up(r)]
    <3>1. cont'[s].port = req[r].port
      BY <1>0, <2>5 DEF Ru!Up, RShape
    <3>2. req[r].port # 0 /\ held[s] = req[r].port
      BY <2>5 DEF PortsHeld
    <3> QED BY <2>2, <3>1, <3>2
  <2>6. CASE req[r].p = s /\ cont' = [cont EXCEPT ![req[r].p] = Bare]
    BY <1>0, <2>3, <2>6 DEF Bare, RShape
  <2>7. CASE req[r].p = s /\ cont[req[r].p].state # "none" /\ cont' = [cont EXCEPT ![req[r].p].state = "up"]
    <3>1. cont'[s].port = cont[s].port
      BY <1>0, <2>7 DEF RShape, Conts
    <3> QED BY <2>3, <2>7, <3>1
  <2>8. CASE req[r].p # s
    BY <1>0, <2>1, <2>4, <2>8 DEF ContEffect, RShape
  <2> QED BY <2>1, <2>4, <2>5, <2>6, <2>7, <2>8 DEF ContEffect
<1>3. ASSUME NEW r \in Requests, NEW op \in ROps, NEW p \in Ru!Purposes, Begun(r, op, p) PROVE Goal
  BY <1>1, <1>3 DEF Begun
<1>4. ASSUME NEW t \in Ru!Services, Died(t) PROVE Goal
  <2>1. cont'[s].port = cont[s].port /\ (cont[s].state = "none" => cont'[s].state = "none")
    BY <1>0, <1>4 DEF Died, RShape, Conts
  <2> QED BY <1>4, <2>1 DEF Died, OwnPort
<1>5. ASSUME Crashed PROVE Goal
  BY <1>5, <1>1 DEF Crashed
<1>6. ASSUME UNCHANGED runtime PROVE Goal
  BY <1>6, <1>1 DEF runtime
<1> HIDE DEF Goal
<1>7. Goal
  BY <1>2, <1>3, <1>4, <1>5, <1>6, RuntimeForms
<1> QED BY <1>7 DEF Goal

\* What a request that is alone did, or saw, still holds when it writes it.
LEMMA SeenKept ==
  ASSUME RShape, Programs, PortsHeld, OneUser, Seen, [Ru!Next]_runtime
  PROVE  Seen'
<1> SUFFICES ASSUME NEW q \in Requests, req'[q].alone, req'[q].pc = "write"
             PROVE  /\ req'[q].op = "down" => cont'[req'[q].p].state # "up"
                    /\ req'[q].op = "restart" => cont'[req'[q].p].state = "up"
                    /\ req'[q].op = "status" => (req'[q].live <=> cont'[req'[q].p].state = "up")
  BY DEF Seen
<1> DEFINE Goal ==
      /\ req'[q].op = "down" => cont'[req'[q].p].state # "up"
      /\ req'[q].op = "restart" => cont'[req'[q].p].state = "up"
      /\ req'[q].op = "status" => (req'[q].live <=> cont'[req'[q].p].state = "up")
<1>1. ASSUME Same(q), cont'[req[q].p] = cont[req[q].p] PROVE Goal
  BY <1>1 DEF Same, Seen
<1>2. ASSUME NEW r \in Requests, Ru!Step(r) PROVE Goal
  <2>1. CASE q = r
    <3>1. req'[r] # Ru!Idle
      BY <2>1, AtRest
    <3>2. req'[r].op = req[r].op /\ req'[r].p = req[r].p /\ ContEffect(r)
      BY <1>2, <3>1, StepMoves, StepCont DEF Moves
    <3>3. req[r].p \in Ru!Services
      <4>1. Follows(req[r].op, req[r].pc, "write")
        BY <1>2, <2>1, <3>1, StepFollows
      <4> QED BY <4>1, Placed, PurposeKinds DEF Follows
    <3>4. ASSUME req[r].op = "down" PROVE cont'[req[r].p].state # "up"
      BY <2>1, <3>2, <3>3, <3>4 DEF ContEffect, Bare, RShape
    <3>5. ASSUME req[r].op = "restart" PROVE cont'[req[r].p].state = "up"
      <4>1. cont' = [cont EXCEPT ![req[r].p].state = "up"]
        BY <2>1, <3>2, <3>5 DEF ContEffect
      <4> QED BY <3>3, <4>1 DEF RShape, Conts
    <3>6. ASSUME req[r].op = "status" PROVE req'[r].live <=> cont'[req[r].p].state = "up"
      BY <1>2, <2>1, <3>6, StepLook
    <3> QED BY <2>1, <3>2, <3>4, <3>5, <3>6
  <2>2. CASE q # r
    <3>1. req'[q] = req[q]
      BY <1>2, <2>2, StepMoves DEF Moves
    <3>2. req[q].op # "none" /\ req[q].p \in Ru!Services
      BY <3>1, Placed, PurposeKinds
    <3>3. req[r].p # req[q].p
      BY <2>2, <3>1, <3>2 DEF OneUser
    <3>4. cont'[req[q].p] = cont[req[q].p]
      BY <1>2, <3>2, <3>3, StepCont DEF ContEffect, RShape
    <3> QED BY <1>1, <3>1, <3>4 DEF Same
  <2> QED BY <2>1, <2>2
<1>3. ASSUME NEW r \in Requests, NEW op \in ROps, NEW p \in Ru!Purposes, Begun(r, op, p) PROVE Goal
  <2>1. CASE q # r
    BY <1>1, <1>3, <2>1 DEF Begun
  <2>2. CASE q = r
    BY <1>3, <2>2 DEF Begun
  <2> QED BY <2>1, <2>2
<1>4. ASSUME NEW s \in Ru!Services, Died(s) PROVE Goal
  <2>1. Same(q) /\ req[q].p # s
    BY <1>4 DEF Died
  <2>2. req[q].p \in Ru!Services
    BY <2>1, Placed, PurposeKinds DEF Same
  <2>3. cont'[req[q].p] = cont[req[q].p]
    BY <1>4, <2>1, <2>2 DEF Died, RShape
  <2> QED BY <1>1, <2>1, <2>3
<1>5. ASSUME Crashed PROVE Goal
  BY <1>5, AtRest DEF Crashed
<1>6. ASSUME UNCHANGED runtime PROVE Goal
  BY <1>6, <1>1 DEF runtime, Same
<1> HIDE DEF Goal
<1>7. Goal
  BY <1>2, <1>3, <1>4, <1>5, <1>6, RuntimeForms
<1> QED BY <1>7 DEF Goal

\* A port has one holder, of its range; the row of a deployment says its port;
\* what nobody works on holds a port exactly as long as it should.
LEMMA PortsAreKeptKept ==
  ASSUME RShape, Programs, PortsHeld, OneUser, OnDisk, Ru!PortsAreKept, [Ru!Next]_runtime
  PROVE  Ru!PortsAreKept'
<1> DEFINE One    == \A p, q \in Ru!Purposes : held[p] # 0 /\ p # q => held[p] # held[q]
           Ranged == \A p \in Ru!Purposes : held[p] \in Ru!RangeOf(p) \cup {0}
           Row    == \A b \in DeployBranches : dep[b].port # 0 => held[<<"deploy", b>>] = dep[b].port
           Trees  == ~cut => \A p \in Ru!Worktrees : (held[p] # 0) # (p \in trees) => ~Ru!Quiet(p)
           Bares  == ~cut => \A p \in Ru!Previews : Ru!Quiet(p) => held[p] = 0
<1>0. Ru!PortsAreKept <=> One /\ Ranged /\ Row /\ Trees /\ Bares
  BY DEF Ru!PortsAreKept, Ru!Orphans
<1>1. ASSUME NEW r \in Requests, Ru!Step(r) PROVE (One /\ Ranged /\ Row /\ Trees /\ Bares)'
  <2>1. HeldEffect(r) /\ TreesEffect(r) /\ DepEffect(r) /\ Moves(r)
    BY <1>1, StepHeld, StepTrees, StepDep, StepMoves
  <2>2. (req[r].pc = "insert" => req[r].p \in Ru!Purposes /\ req[r].port \in Ru!RangeOf(req[r].p) /\ req[r].port # 0)
    BY PortsArePositive, Placed DEF PortsHeld
  <2>3. held \in [Ru!Purposes -> Ru!Ports \cup {0}]
    BY DEF RShape, HeldShape
  <2>4. One'
    <3>1. ASSUME req[r].pc = "insert", req[r].port \notin Ru!Taken,
                 held' = [held EXCEPT ![req[r].p] = req[r].port]
          PROVE  One'
      <4>1. \A p \in Ru!Purposes : held[p] # req[r].port
        BY <2>2, <3>1 DEF Ru!Taken
      <4> QED BY <1>0, <2>2, <2>3, <3>1, <4>1
    <3>2. ASSUME held' = [held EXCEPT ![req[r].p] = 0] PROVE One'
      BY <1>0, <2>3, <3>2
    <3> QED BY <1>0, <2>1, <3>1, <3>2 DEF HeldEffect
  <2>5. Ranged'
    BY <1>0, <2>1, <2>2, <2>3 DEF HeldEffect
  <2>6. Row'
    <3>1. ASSUME NEW s \in Ru!Deploys, held[s] # 0 PROVE held'[s] = held[s]
      <4>1. req[r].op \in {"release", "preview"} => req[r].p # s
        BY Placed, PurposeKinds
      <4>2. s \in Ru!Purposes
        BY PurposeKinds
      <4> QED BY <2>1, <2>3, <3>1, <4>1, <4>2 DEF HeldEffect
    <3>2. ASSUME NEW b \in DeployBranches, dep'[b].port # 0 PROVE held'[<<"deploy", b>>] = dep'[b].port
      <4>1. <<"deploy", b>> \in Ru!Deploys
        BY PurposeKinds
      <4>2. ASSUME dep'[b].port = dep[b].port PROVE held'[<<"deploy", b>>] = dep'[b].port
        BY <1>0, <3>1, <3>2, <4>1, <4>2
      <4>3. ASSUME NEW s, Ru!Status(Ru!Branch(r), s) PROVE dep'[b].port = dep[b].port
        BY <4>3 DEF Ru!Status, RShape, Rows
      <4>4. ASSUME req[r].p \in Ru!Deploys, req[r].pc = "ps",
                   dep' = [dep EXCEPT ![Ru!Branch(r)] = [status |-> "running", port |-> req[r].port]]
            PROVE  held'[<<"deploy", b>>] = dep'[b].port
        <5>1. CASE b # req[r].p[2]
          BY <4>2, <4>4, <5>1 DEF Ru!Branch, RShape
        <5>2. CASE b = req[r].p[2]
          <6>1. dep'[b].port = req[r].port
            BY <4>4, <5>2 DEF Ru!Branch, RShape
          <6>2. req[r].p = <<"deploy", b>>
            BY <4>4, <5>2, PurposeKinds
          <6>3. held[<<"deploy", b>>] = req[r].port /\ req[r].port # 0
            BY <4>4, <6>2 DEF PortsHeld
          <6> QED BY <3>1, <4>1, <6>1, <6>3
        <5> QED BY <5>1, <5>2
      <4> QED BY <2>1, <4>2, <4>3, <4>4 DEF DepEffect
    <3> QED BY <3>2
  <2>7. ASSUME NEW p \in Ru!Purposes, p # req[r].p
        PROVE  held'[p] = held[p] /\ (p \in trees' <=> p \in trees)
    <3>1. held'[p] = held[p]
      BY <2>1, <2>3, <2>7 DEF HeldEffect
    <3>2. p \in trees' <=> p \in trees
      BY <2>1, <2>7 DEF TreesEffect
    <3> QED BY <3>1, <3>2
  <2>8. ~cut' => ~cut
    BY <1>1, StepCut
  <2>9. ASSUME NEW p, Ru!Quiet(p)', p # req[r].p PROVE Ru!Quiet(p)
    BY <2>1, <2>9 DEF Moves, Ru!Quiet
  <2>10. ASSUME NEW p, Ru!Quiet(p)', p = req[r].p, p \in Ru!Purposes PROVE req'[r] = Ru!Idle /\ req[r].op # "none"
    <3>1. req'[r].p # req[r].p
      BY <2>10 DEF Ru!Quiet
    <3> QED BY <2>1, <2>10, <3>1, Placed, PurposeKinds DEF Moves
  <2>11. Trees'
    <3> SUFFICES ASSUME ~cut', NEW p \in Ru!Worktrees, Ru!Quiet(p)'
                 PROVE  held'[p] # 0 <=> p \in trees'
      OBVIOUS
    <3>0. p \in Ru!Purposes
      BY PurposeKinds
    <3>1. CASE p # req[r].p
      BY <1>0, <2>7, <2>8, <2>9, <3>0, <3>1
    <3>2. CASE p = req[r].p
      <4>1. req'[r] = Ru!Idle /\ req[r].op \in {"reserve", "release"}
        BY <2>10, <3>0, <3>2, Placed
      <4>2. CASE req[r].op = "reserve"
        <5>1. req[r].pc = "held" /\ held' = held /\ trees' = trees
          BY <1>1, <4>1, <4>2, StepEnds
        <5> QED BY <3>2, <4>2, <5>1 DEF PortsHeld, OnDisk
      <4>3. CASE req[r].op = "release"
        <5>1. req[r].pc = "release" /\ trees' = trees /\ held' = [held EXCEPT ![req[r].p] = 0]
          BY <1>1, <4>1, <4>3, StepEnds
        <5>2. p \notin trees
          BY <3>2, <4>3, <5>1 DEF OnDisk
        <5> QED BY <2>3, <3>0, <3>2, <5>1, <5>2
      <4> QED BY <4>1, <4>2, <4>3
    <3> QED BY <3>1, <3>2
  <2>12. Bares'
    <3> SUFFICES ASSUME ~cut', NEW p \in Ru!Previews, Ru!Quiet(p)' PROVE held'[p] = 0
      OBVIOUS
    <3>0. p \in Ru!Purposes
      BY PurposeKinds
    <3>1. CASE p # req[r].p
      BY <1>0, <2>7, <2>8, <2>9, <3>0, <3>1
    <3>2. CASE p = req[r].p
      <4>1. req'[r] = Ru!Idle /\ req[r].op = "preview"
        BY <2>10, <3>0, <3>2, Placed
      <4>2. held' = [held EXCEPT ![req[r].p] = 0] \/ (req[r].pc = "begin" /\ held' = held)
        BY <1>1, <4>1, StepEnds
      <4> QED BY <2>3, <2>8, <3>0, <3>2, <4>1, <4>2 DEF OnDisk
    <3> QED BY <3>1, <3>2
  <2> QED BY <2>4, <2>5, <2>6, <2>11, <2>12
<1>2. ASSUME UNCHANGED <<held, trees, dep, cut>>, \A q \in Requests : req[q].p # <<"none", "none">> => req'[q].p = req[q].p
      PROVE  (One /\ Ranged /\ Row /\ Trees /\ Bares)'
  <2>1. ASSUME NEW p \in Ru!Purposes, Ru!Quiet(p)' PROVE Ru!Quiet(p)
    BY <1>2, <2>1, PurposeKinds DEF Ru!Quiet
  <2> QED BY <1>0, <1>2, <2>1, PurposeKinds
<1>3. ASSUME NEW r \in Requests, NEW op \in ROps, NEW p \in Ru!Purposes, Begun(r, op, p)
      PROVE (One /\ Ranged /\ Row /\ Trees /\ Bares)'
  <2>1. req[r].p = <<"none", "none">>
    BY <1>3, Placed DEF Begun
  <2>2. \A q \in Requests : req[q].p # <<"none", "none">> => req'[q].p = req[q].p
    BY <1>3, <2>1 DEF Begun, Same
  <2> QED BY <1>2, <1>3, <2>2 DEF Begun
<1>4. ASSUME NEW s \in Ru!Services, Died(s) PROVE (One /\ Ranged /\ Row /\ Trees /\ Bares)'
  BY <1>2, <1>4 DEF Died, Same
<1>5. ASSUME Crashed PROVE (One /\ Ranged /\ Row /\ Trees /\ Bares)'
  BY <1>0, <1>5 DEF Crashed
<1>6. ASSUME UNCHANGED runtime PROVE (One /\ Ranged /\ Row /\ Trees /\ Bares)'
  BY <1>6, <1>2 DEF runtime
<1>7. (One /\ Ranged /\ Row /\ Trees /\ Bares)'
  BY <1>1, <1>3, <1>4, <1>5, <1>6, RuntimeForms
<1>8. Ru!PortsAreKept' <=> (One /\ Ranged /\ Row /\ Trees /\ Bares)'
  BY DEF Ru!PortsAreKept, Ru!Orphans
<1> QED BY <1>7, <1>8

\* What a request that was alone writes of a deployment is what its containers are.
LEMMA WrittenIsHonest ==
  ASSUME RShape, Programs, PortsHeld, OneUser, OwnPort, Seen, Ru!PortsAreKept, [Ru!Next]_runtime
  PROVE  Ru!StatusIsHonest
<1> SUFFICES ASSUME NEW r \in Requests, req[r].alone, req[r].pc \in {"ps", "write"},
                    req[r].p \in Ru!Deploys, req'[r] = Ru!Idle, ~cut'
             PROVE  LET d == dep'[Ru!Branch(r)]
                        c == cont'[req[r].p]
                    IN  /\ d.status = "running" => c.state = "up" /\ d.port \in {0, c.port}
                        /\ d.status = "stopped" => c.state # "up"
  BY DEF Ru!StatusIsHonest
<1>0. Ru!Branch(r) \in DeployBranches /\ req[r].p = <<"deploy", Ru!Branch(r)>> /\ req[r].p \in Ru!Services
  BY PurposeKinds DEF Ru!Branch
<1>1. Ru!Step(r)
  <2>1. req'[r] # req[r] /\ ~Same(r)
    BY AtRest DEF Same
  <2>2. ASSUME NEW q \in Requests, NEW op \in ROps, NEW p \in Ru!Purposes, Begun(q, op, p) PROVE FALSE
    BY <2>1, <2>2, AtRest DEF Begun
  <2>3. ASSUME NEW s \in Ru!Services, Died(s) PROVE FALSE
    BY <2>1, <2>3 DEF Died
  <2>4. ASSUME NEW q \in Requests, q # r, Ru!Step(q) PROVE FALSE
    BY <2>1, <2>4, StepMoves DEF Moves
  <2>5. ~Crashed /\ ~UNCHANGED runtime
    BY <2>1 DEF Crashed, runtime
  <2> QED BY <2>2, <2>3, <2>4, <2>5, RuntimeForms
<1>2. dep[Ru!Branch(r)].port # 0 => held[req[r].p] = dep[Ru!Branch(r)].port
  BY <1>0 DEF Ru!PortsAreKept
<1>3. cont[req[r].p].state = "up" => cont[req[r].p].port = held[req[r].p]
  BY DEF OwnPort
<1>4. ASSUME req[r].pc = "ps"
      PROVE  /\ cont' = cont
             /\ \/ /\ cont[req[r].p].state = "up"
                   /\ dep' = [dep EXCEPT ![Ru!Branch(r)] = [status |-> "running", port |-> req[r].port]]
                \/ Ru!Status(Ru!Branch(r), "unhealthy")
  <2>1. req[r].op = "up"
    BY <1>4, Placed, PurposeKinds
  <2>2. Ru!Confirm(r)
    BY <1>1, <1>4, <2>1 DEF Ru!Step, Ru!At, Ru!Pick, Ru!Insert, Ru!AddWorktree, Ru!RemoveWorktree, Ru!Archive,
      Ru!Activate, Ru!ReleasePort, Ru!Building, Ru!DeployUp, Ru!Down, Ru!Stopped, Ru!Restart, Ru!Restarted,
      Ru!Look, Ru!Reconcile, Ru!Preview, Ru!PreviewUp, Ru!PreviewCheck, Ru!Teardown
  <2> QED BY <2>2 DEF Ru!Confirm
<1>5. ASSUME req[r].pc = "write"
      PROVE  /\ cont' = cont
             /\ \/ cont[req[r].p].state # "up" /\ Ru!Status(Ru!Branch(r), "stopped")
                \/ cont[req[r].p].state = "up" /\ Ru!Status(Ru!Branch(r), "running")
  <2>1. Ru!Stopped(r) \/ Ru!Restarted(r) \/ Ru!Reconcile(r)
    BY <1>1, <1>5 DEF Ru!Step, Ru!At, Ru!Pick, Ru!Insert, Ru!AddWorktree, Ru!RemoveWorktree, Ru!Archive,
      Ru!Activate, Ru!ReleasePort, Ru!Building, Ru!DeployUp, Ru!Confirm, Ru!Down, Ru!Restart,
      Ru!Look, Ru!Preview, Ru!PreviewUp, Ru!PreviewCheck, Ru!Teardown
  <2>2. ASSUME Ru!Stopped(r) PROVE cont' = cont /\ cont[req[r].p].state # "up" /\ Ru!Status(Ru!Branch(r), "stopped")
    BY <1>5, <2>2 DEF Ru!Stopped, Ru!At, Seen
  <2>3. ASSUME Ru!Restarted(r) PROVE cont' = cont /\ cont[req[r].p].state = "up" /\ Ru!Status(Ru!Branch(r), "running")
    BY <1>5, <2>3 DEF Ru!Restarted, Ru!At, Seen
  <2>4. ASSUME Ru!Reconcile(r)
        PROVE  /\ cont' = cont
               /\ \/ cont[req[r].p].state # "up" /\ Ru!Status(Ru!Branch(r), "stopped")
                  \/ cont[req[r].p].state = "up" /\ Ru!Status(Ru!Branch(r), "running")
    BY <1>5, <2>4 DEF Ru!Reconcile, Ru!At, Seen
  <2> QED BY <2>1, <2>2, <2>3, <2>4
<1>6. ASSUME NEW s, Ru!Status(Ru!Branch(r), s)
      PROVE  dep'[Ru!Branch(r)].status = s /\ dep'[Ru!Branch(r)].port = dep[Ru!Branch(r)].port
  BY <1>0, <1>6 DEF Ru!Status, RShape, Rows
<1>7. CASE req[r].pc = "ps"
  <2>1. held[req[r].p] = req[r].port
    BY <1>7 DEF PortsHeld
  <2>2. ASSUME dep' = [dep EXCEPT ![Ru!Branch(r)] = [status |-> "running", port |-> req[r].port]]
        PROVE  dep'[Ru!Branch(r)] = [status |-> "running", port |-> req[r].port]
    BY <1>0, <2>2 DEF RShape
  <2>3. CASE cont[req[r].p].state = "up" /\ dep' = [dep EXCEPT ![Ru!Branch(r)] = [status |-> "running", port |-> req[r].port]]
    BY <1>3, <1>4, <1>7, <2>1, <2>2, <2>3
  <2>4. CASE Ru!Status(Ru!Branch(r), "unhealthy")
    BY <1>6, <2>4
  <2> QED BY <1>4, <1>7, <2>3, <2>4
<1>8. CASE req[r].pc = "write"
  BY <1>2, <1>3, <1>5, <1>6, <1>8
<1> QED BY <1>7, <1>8


\* The invariant of the runtime is one.
LEMMA RInvKept ==
  ASSUME RInv, [Ru!Next]_runtime
  PROVE  RInv'
BY RShapeKept, ProgramsKept, OneUserKept, PortsHeldKept, OnDiskKept, OwnPortKept, SeenKept, PortsAreKeptKept
DEF RInv

\* The daemon starts with no request, no port and no container.
LEMMA RInvInit == DaemonInit => RInv
<1> SUFFICES ASSUME Ru!Init PROVE RInv
  BY DEF DaemonInit
<1>1. RShape
  <2>1. [status |-> "no_deploy", port |-> 0] \in Rows /\ [state |-> "none", port |-> 0] \in Conts
    BY DEF Rows, Conts
  <2> QED BY <2>1, IdleIsReq DEF Ru!Init, RShape, HeldShape
<1>2. \A r \in Requests : req[r] = Ru!Idle
  BY DEF Ru!Init
<1>3. Programs /\ OneUser /\ PortsHeld /\ OnDisk /\ Seen
  BY <1>2, AtRest DEF Programs, OneUser, PortsHeld, OnDisk, Seen
<1>4. OwnPort
  BY PurposeKinds DEF Ru!Init, OwnPort
<1>5. Ru!PortsAreKept
  <2>1. \A p \in Ru!Purposes : held[p] = 0 /\ p \notin trees
    BY DEF Ru!Init
  <2>2. \A b \in DeployBranches : dep[b].port = 0
    BY DEF Ru!Init
  <2>3. Ru!Worktrees \subseteq Ru!Purposes /\ Ru!Previews \subseteq Ru!Purposes
    BY PurposeKinds
  <2> QED BY <2>1, <2>2, <2>3 DEF Ru!PortsAreKept, Ru!Orphans
<1> QED BY <1>1, <1>3, <1>4, <1>5 DEF RInv

\* Its form gives the types.
LEMMA RShapeTyped == RShape => Ru!TypeOK
<1> SUFFICES ASSUME RShape PROVE Ru!TypeOK
  OBVIOUS
<1>1. \A b \in DeployBranches : dep[b].status \in {"no_deploy", "building", "running", "stopped", "unhealthy"}
  BY DEF RShape, Rows
<1>2. \A s \in Ru!Services : cont[s].port \in Ru!Ports \cup {0}
  BY DEF RShape, Conts
<1>3. \A r \in Requests : req[r].tries \in 0..MaxRaceRetry
  BY DEF RShape, RReqs
<1> QED BY <1>1, <1>2, <1>3 DEF RShape, HeldShape, Ru!TypeOK

\* For any requests, features, branches, ranges and outside listeners, however the
\* threads interleave and wherever the daemon stops: a port has one holder, of its
\* range; a deployment keeps the port of its row; nobody's worktree lacks its port
\* and nobody's preview keeps one; the status written after acting is the real one.
THEOREM DeploymentsAreSoundHolds == DaemonSpec => DeploymentsAreSound
<1>1. DaemonInit => RInv
  BY RInvInit
<1>2. RInv /\ [DaemonNext]_vars => RInv'
  BY RInvKept, DaemonMoves
<1>3. RInv /\ RInv' /\ [DaemonNext]_vars
        => (part = "runtime" => Ru!TypeOK' /\ Ru!PortsAreKept' /\ Ru!StatusIsHonest)
  <2>1. ASSUME RInv, RInv', [DaemonNext]_vars PROVE Ru!TypeOK' /\ Ru!PortsAreKept' /\ Ru!StatusIsHonest
    <3>1. Ru!TypeOK'
      <4>1. RShape'
        BY <2>1 DEF RInv
      <4>2. RShape' => Ru!TypeOK'
        BY RShapeTyped, PTL
      <4> QED BY <4>1, <4>2
    <3>2. Ru!PortsAreKept'
      BY <2>1 DEF RInv
    <3>3. Ru!StatusIsHonest
      BY <2>1, WrittenIsHonest, DaemonMoves DEF RInv
    <3> QED BY <3>1, <3>2, <3>3
  <2> QED BY <2>1
<1> QED BY <1>1, <1>2, <1>3, PTL DEF DaemonSpec, DeploymentsAreSound

(***************************************************************************)
(* Terminal: what its steps rely on                                        *)
(***************************************************************************)
\* What a session and a connection are.
SRecs == [shell : BOOLEAN, eof : BOOLEAN, closed : BOOLEAN, reader : BOOLEAN, event : BOOLEAN,
          total : 0..MaxOut, epoch : Nat, left : {"no", "lately", "long"}]
CPcs  == {"off", "hello", "relay", "leaving", "over"}
Pumps == {"none", "wait", "woken", "replaced", "send", "eof", "broken", "disconnect"}
CRecs == [pc : CPcs, s : Nat, epoch : Nat, cursor : Nat, read : Nat, pump : Pumps,
          recv : {"none", "open", "disconnect"}, peer : BOOLEAN]

\* Where everything is.
TShape == /\ sess \in Seq(SRecs) /\ conn \in [Conns -> CRecs]
          /\ reg \in Te!Sessions \cup {None}

\* A session that is closed has neither shell nor reader.
Shut(S) == \A s \in 1..Len(S) : S[s].closed => ~S[s].shell /\ ~S[s].reader

\* A connection in service is on a session, whose epoch is at least its own, and
\* has read no further than the session; what it was told replaced is.
Att(q, S) ==
  /\ q.pc \in {"hello", "relay", "leaving"} =>
       /\ q.s \in 1..Len(S) /\ q.epoch <= S[q.s].epoch /\ q.cursor <= S[q.s].total
       /\ q.pump = "send" => q.read <= S[q.s].total
       /\ q.pump = "replaced" => q.epoch # S[q.s].epoch
  /\ q.pc = "off" => q.pump \notin {"send", "replaced"}
\* Every connection is so attached.
Attached == \A c \in Conns : Att(conn[c], sess)

TeInv == TShape /\ Shut(sess) /\ Attached /\ Te!ShellIsHeld

\* A session keeps every output and every takeover; a shell that is gone is gone.
Grows(S, T) ==
  /\ Len(S) <= Len(T)
  /\ \A s \in 1..Len(S) : /\ S[s].epoch <= T[s].epoch /\ S[s].total <= T[s].total
                          /\ T[s].shell => S[s].shell

\* A connection that another one's step leaves where it is: at most it is woken.
Kept(q, n) ==
  /\ n.pc = q.pc /\ n.s = q.s /\ n.epoch = q.epoch /\ n.cursor = q.cursor /\ n.read = q.read
  /\ n.pump = q.pump \/ n.pump = "woken"

\* Sequences are functions, and writing one place keeps the length.
LEMMA SessionWritten ==
  ASSUME sess \in Seq(SRecs), NEW s \in Te!Sessions, NEW new \in SRecs, sess' = [sess EXCEPT ![s] = new]
  PROVE  /\ sess' \in Seq(SRecs) /\ Len(sess') = Len(sess)
         /\ sess'[s] = new /\ \A t \in Te!Sessions : t # s => sess'[t] = sess[t]
BY ExceptSeq DEF Te!Sessions

\* A session is a record.
LEMMA SessionIsRecord ==
  ASSUME sess \in Seq(SRecs), NEW s \in Te!Sessions
  PROVE  sess[s] \in SRecs
BY ElementOfSeq DEF Te!Sessions

\* The bounds of a terminal.
LEMMA TerminalBounds == Cap \in Nat \ {0} /\ MaxOut \in Nat /\ MaxShells \in Nat /\ None \notin Nat
BY Assumptions DEF Te!TerminalAssumption

\* Its counters are numbers.
LEMMA SessionFields ==
  ASSUME NEW r \in SRecs
  PROVE  r.epoch \in Nat /\ r.total \in Nat /\ r.total <= MaxOut
BY TerminalBounds DEF SRecs

\* A connection that is kept stays attached to a session that grows.
LEMMA AttKept ==
  ASSUME sess \in Seq(SRecs), NEW T \in Seq(SRecs), Grows(sess, T),
         NEW q \in CRecs, NEW n \in CRecs, Att(q, sess), Kept(q, n)
  PROVE  Att(n, T)
<1>a. n.pc = "off" => n.pump \notin {"send", "replaced"}
  BY DEF Att, Kept
<1> SUFFICES ASSUME n.pc \in {"hello", "relay", "leaving"}
             PROVE  /\ n.s \in 1..Len(T) /\ n.epoch <= T[n.s].epoch /\ n.cursor <= T[n.s].total
                    /\ n.pump = "send" => n.read <= T[n.s].total
                    /\ n.pump = "replaced" => n.epoch # T[n.s].epoch
  BY <1>a DEF Att
<1>0. Len(sess) \in Nat /\ Len(T) \in Nat
  BY LenProperties
<1>1. q.s \in 1..Len(sess) /\ q.s \in 1..Len(T)
  BY <1>0 DEF Att, Kept, Grows, CRecs
<1>2. sess[q.s] \in SRecs /\ T[q.s] \in SRecs
  BY <1>1, ElementOfSeq
<1>3. /\ sess[q.s].epoch \in Nat /\ sess[q.s].total \in Nat /\ T[q.s].epoch \in Nat /\ T[q.s].total \in Nat
      /\ q.epoch \in Nat /\ q.cursor \in Nat /\ q.read \in Nat
  BY <1>2, SessionFields DEF CRecs
<1>4. /\ sess[q.s].epoch <= T[q.s].epoch /\ sess[q.s].total <= T[q.s].total
      /\ q.epoch <= sess[q.s].epoch /\ q.cursor <= sess[q.s].total
      /\ q.pump = "send" => q.read <= sess[q.s].total
      /\ q.pump = "replaced" => q.epoch # sess[q.s].epoch
  BY <1>1 DEF Att, Kept, Grows
<1> QED BY SMTT(30), <1>1, <1>3, <1>4 DEF Kept

\* Waking the pumps of a session keeps every connection.
LEMMA WokenKeeps ==
  ASSUME conn \in [Conns -> CRecs], NEW s
  PROVE  /\ Te!Woken(s) \in [Conns -> CRecs] /\ Te!WokenBy(s) \in [Conns -> CRecs]
         /\ \A c \in Conns : Kept(conn[c], Te!Woken(s)[c]) /\ Kept(conn[c], Te!WokenBy(s)[c])
<1>1. ASSUME NEW c \in Conns
      PROVE  /\ [conn[c] EXCEPT !.pump = "woken"] \in CRecs
             /\ Kept(conn[c], [conn[c] EXCEPT !.pump = "woken"]) /\ Kept(conn[c], conn[c])
  BY DEF CRecs, Pumps, Kept
<1>2. Te!Woken(s) \in [Conns -> CRecs] /\ \A c \in Conns : Kept(conn[c], Te!Woken(s)[c])
  BY <1>1 DEF Te!Woken
<1> QED BY <1>1, <1>2 DEF Te!WokenBy

\* Closing a session ends its shell and its reader, and keeps the rest.
LEMMA ClosedIsShut ==
  ASSUME NEW r \in SRecs, r.closed => ~r.shell /\ ~r.reader
  PROVE  LET n == Te!Closed(r)
         IN  /\ n \in SRecs /\ n.closed /\ ~n.shell /\ ~n.reader
             /\ n.epoch = r.epoch /\ n.total = r.total /\ n.left = r.left
BY DEF Te!Closed, SRecs

(***************************************************************************)
(* A calm step: nobody comes, nobody leaves, nothing is closed             *)
(***************************************************************************)
CalmSessions ==
  /\ sess' \in Seq(SRecs) /\ Len(sess') = Len(sess)
  /\ \A s \in Te!Sessions : /\ sess'[s].epoch = sess[s].epoch /\ sess[s].total <= sess'[s].total
                            /\ sess'[s].shell => sess[s].shell
                            /\ sess'[s].left = "no" => sess[s].left = "no"
                            /\ sess'[s].closed => ~sess'[s].shell /\ ~sess'[s].reader
Calm ==
  /\ reg' = reg /\ CalmSessions
  /\ conn' \in [Conns -> CRecs]
  /\ \A c \in Conns : /\ Te!Serving(c) => Te!Serving(c)' /\ conn'[c].s = conn[c].s /\ conn'[c].epoch = conn[c].epoch
                      /\ Att(conn'[c], sess')

\* A calm step leaves what the registry holds within reach.
LEMMA CalmKeeps ==
  ASSUME TeInv, Calm
  PROVE  TeInv'
<1>1. TShape'
  BY DEF TeInv, TShape, Calm, CalmSessions, Te!Sessions
<1>2. Shut(sess)'
  BY DEF Shut, Calm, CalmSessions, Te!Sessions
<1>3. Attached'
  BY DEF Attached, Calm
<1>4. Te!ShellIsHeld'
  <2>1. ASSUME NEW s \in Te!Sessions', sess'[s].shell PROVE reg' = s
    BY <2>1 DEF TeInv, Te!ShellIsHeld, Calm, CalmSessions, Te!Sessions
  <2>2. ASSUME reg' # None, sess'[reg'].left = "no" PROVE \E c \in Conns : Te!Current(c)' /\ conn'[c].s = reg'
    <3>1. reg \in Te!Sessions /\ reg # None /\ sess[reg].left = "no"
      BY <2>2 DEF TeInv, TShape, Calm, CalmSessions
    <3>2. PICK c \in Conns : Te!Current(c) /\ conn[c].s = reg
      BY <3>1 DEF TeInv, Te!ShellIsHeld
    <3>3. Te!Current(c)' /\ conn'[c].s = reg'
      BY <3>1, <3>2 DEF Calm, CalmSessions, Te!Current
    <3> QED BY <3>3
  <2> QED BY <2>1, <2>2 DEF Te!ShellIsHeld
<1> QED BY <1>1, <1>2, <1>3, <1>4 DEF TeInv

\* Writing a session without closing it is calm.
LEMMA CalmWrite ==
  ASSUME TeInv, NEW s \in Te!Sessions, NEW new \in SRecs, sess' = [sess EXCEPT ![s] = new],
         new.epoch = sess[s].epoch, sess[s].total <= new.total,
         new.left = "no" => sess[s].left = "no",
         new.shell => sess[s].shell, new.closed => ~new.shell /\ ~new.reader
  PROVE  CalmSessions
<1>0. sess \in Seq(SRecs) /\ Shut(sess)
  BY DEF TeInv, TShape
<1>1. /\ sess' \in Seq(SRecs) /\ Len(sess') = Len(sess)
      /\ sess'[s] = new /\ \A t \in Te!Sessions : t # s => sess'[t] = sess[t]
  BY <1>0, SessionWritten
<1>2. \A t \in Te!Sessions : /\ sess[t].epoch \in Nat /\ sess[t].total \in Nat
                             /\ sess[t].closed => ~sess[t].shell /\ ~sess[t].reader
  BY <1>0, SessionIsRecord, SessionFields DEF Shut, Te!Sessions
<1> QED BY <1>1, <1>2 DEF CalmSessions

\* And so is leaving them alone.
LEMMA CalmSame ==
  ASSUME TeInv, sess' = sess
  PROVE  CalmSessions
<1>1. \A t \in Te!Sessions : /\ sess[t].epoch \in Nat /\ sess[t].total \in Nat
                             /\ sess[t].closed => ~sess[t].shell /\ ~sess[t].reader
  BY SessionIsRecord, SessionFields DEF Shut, Te!Sessions, TeInv, TShape
<1> QED BY <1>1 DEF CalmSessions, TeInv, TShape

\* What is calm grows.
LEMMA CalmGrows ==
  ASSUME TeInv, CalmSessions
  PROVE  Grows(sess, sess')
<1>1. \A t \in Te!Sessions : sess[t].epoch \in Nat
  BY SessionIsRecord, SessionFields DEF TeInv, TShape
<1>2. Len(sess) <= Len(sess')
  BY LenProperties DEF TeInv, TShape, CalmSessions
<1> QED BY <1>1, <1>2 DEF CalmSessions, Grows, Te!Sessions

\* A step that at most wakes the pumps is calm when it is on the sessions.
LEMMA CalmOthers ==
  ASSUME TeInv, CalmSessions, reg' = reg,
         conn' \in [Conns -> CRecs], \A c \in Conns : Kept(conn[c], conn'[c])
  PROVE  Calm
<1>1. ASSUME NEW c \in Conns PROVE Att(conn'[c], sess')
  BY CalmGrows, AttKept DEF Attached, CalmSessions, TeInv, TShape
<1>2. ASSUME NEW c \in Conns, Te!Serving(c) PROVE Te!Serving(c)' /\ conn'[c].s = conn[c].s /\ conn'[c].epoch = conn[c].epoch
  BY <1>2 DEF Te!Serving, Kept
<1> QED BY <1>1, <1>2 DEF Calm

\* So is one that moves one connection, which goes on with its session.
LEMMA CalmOne ==
  ASSUME TeInv, CalmSessions, reg' = reg, NEW c \in Conns, NEW new \in CRecs, conn' = [conn EXCEPT ![c] = new],
         new.pc \in {"hello", "relay", "leaving"}, new.s = conn[c].s, new.epoch = conn[c].epoch, Att(new, sess')
  PROVE  Calm
<1>1. ASSUME NEW d \in Conns, d # c
      PROVE  Att(conn'[d], sess') /\ conn'[d] = conn[d]
  <2>1. conn'[d] = conn[d] /\ conn[d] \in CRecs /\ Kept(conn[d], conn'[d])
    BY <1>1 DEF TeInv, TShape, Kept
  <2> QED BY <2>1, CalmGrows, AttKept DEF Attached, CalmSessions, TeInv, TShape
<1>2. conn'[c] = new /\ conn' \in [Conns -> CRecs]
  BY DEF TeInv, TShape
<1>3. ASSUME NEW d \in Conns, Te!Serving(d)
      PROVE  Te!Serving(d)' /\ conn'[d].s = conn[d].s /\ conn'[d].epoch = conn[d].epoch
  BY <1>1, <1>2, <1>3 DEF Te!Serving
<1>4. ASSUME NEW d \in Conns PROVE Att(conn'[d], sess')
  BY <1>1, <1>2
<1> QED BY <1>2, <1>3, <1>4 DEF Calm

\* The steps of a shell are calm.
LEMMA ShellIsCalm ==
  ASSUME TeInv, NEW s \in Te!Sessions, Te!Output(s) \/ Te!Exit(s) \/ Te!Eof(s)
  PROVE  Calm
<1>0. sess \in Seq(SRecs) /\ conn \in [Conns -> CRecs] /\ sess[s] \in SRecs /\ Shut(sess) /\ Attached
  BY SessionIsRecord DEF TeInv, TShape
<1>1. PICK new \in SRecs :
        /\ sess' = [sess EXCEPT ![s] = new]
        /\ new.epoch = sess[s].epoch /\ new.left = sess[s].left /\ sess[s].total <= new.total
        /\ new.shell => sess[s].shell
        /\ new.closed => ~new.shell /\ ~new.reader
  <2>1. CASE Te!Output(s)
    <3> DEFINE new == [sess[s] EXCEPT !.total = @ + 1, !.event = TRUE]
    <3>1. sess[s].total + 1 \in 0..MaxOut /\ sess[s].total <= sess[s].total + 1
      BY <1>0, <2>1, SessionFields, TerminalBounds DEF Te!Output
    <3>2. new \in SRecs /\ new.total = sess[s].total + 1 /\ new.epoch = sess[s].epoch /\ new.left = sess[s].left
          /\ new.shell = sess[s].shell /\ new.closed = sess[s].closed /\ new.reader = sess[s].reader
      BY <1>0, <3>1 DEF SRecs
    <3>3. sess' = [sess EXCEPT ![s] = new]
      BY <2>1 DEF Te!Output
    <3>4. sess[s].closed => ~sess[s].shell /\ ~sess[s].reader
      BY <1>0 DEF Shut, Te!Sessions
    <3> QED BY <3>1, <3>2, <3>3, <3>4
  <2>2. CASE Te!Exit(s)
    <3> DEFINE new == [sess[s] EXCEPT !.shell = FALSE]
    <3>1. new \in SRecs /\ new.total = sess[s].total /\ new.epoch = sess[s].epoch /\ new.left = sess[s].left
          /\ new.shell = FALSE /\ new.closed = sess[s].closed /\ new.reader = sess[s].reader
      BY <1>0 DEF SRecs
    <3>2. sess' = [sess EXCEPT ![s] = new]
      BY <2>2 DEF Te!Exit
    <3>3. sess[s].closed => ~sess[s].shell /\ ~sess[s].reader
      BY <1>0 DEF Shut, Te!Sessions
    <3>4. sess[s].total <= sess[s].total
      BY <1>0, SessionFields
    <3> QED BY <3>1, <3>2, <3>3, <3>4
  <2>3. CASE Te!Eof(s)
    <3> DEFINE new == [sess[s] EXCEPT !.eof = TRUE, !.reader = FALSE, !.event = TRUE]
    <3>1. new \in SRecs /\ new.total = sess[s].total /\ new.epoch = sess[s].epoch /\ new.left = sess[s].left
          /\ new.shell = sess[s].shell /\ new.closed = sess[s].closed /\ new.reader = FALSE
      BY <1>0 DEF SRecs
    <3>2. sess' = [sess EXCEPT ![s] = new]
      BY <2>3 DEF Te!Eof
    <3>3. sess[s].closed => ~sess[s].shell /\ ~sess[s].reader
      BY <1>0 DEF Shut, Te!Sessions
    <3>4. sess[s].total <= sess[s].total
      BY <1>0, SessionFields
    <3> QED BY <3>1, <3>2, <3>3, <3>4
  <2> QED BY <2>1, <2>2, <2>3
<1>2. /\ reg' = reg /\ conn' \in [Conns -> CRecs] /\ \A c \in Conns : Kept(conn[c], conn'[c])
  <2>1. ASSUME conn' = conn PROVE conn' \in [Conns -> CRecs] /\ \A c \in Conns : Kept(conn[c], conn'[c])
    BY <1>0, <2>1 DEF Kept
  <2> QED BY <1>0, <2>1, WokenKeeps DEF Te!Output, Te!Exit, Te!Eof
<1>3. CalmSessions
  BY <1>1, CalmWrite
<1> QED BY <1>2, <1>3, CalmOthers

\* Time that goes by is calm.
LEMMA AgeIsCalm ==
  ASSUME TeInv, Te!Age
  PROVE  Calm
<1>1. PICK s \in Te!Sessions : sess' = [sess EXCEPT ![s].left = "long"]
  BY DEF Te!Age
<1> DEFINE new == [sess[s] EXCEPT !.left = "long"]
<1>2. sess[s] \in SRecs /\ (sess[s].closed => ~sess[s].shell /\ ~sess[s].reader)
  BY SessionIsRecord DEF TeInv, TShape, Shut, Te!Sessions
<1>3. /\ new \in SRecs /\ new.total = sess[s].total /\ new.epoch = sess[s].epoch /\ new.left = "long"
      /\ new.shell = sess[s].shell /\ new.closed = sess[s].closed /\ new.reader = sess[s].reader
  BY <1>2 DEF SRecs
<1>4. sess[s].total <= sess[s].total
  BY <1>2, SessionFields
<1>5. sess' = [sess EXCEPT ![s] = new]
  BY <1>1
<1> HIDE DEF new
<1>6. CalmSessions
  BY <1>2, <1>3, <1>4, <1>5, CalmWrite
<1>7. UNCHANGED <<reg, conn>>
  BY DEF Te!Age
<1> QED BY <1>6, <1>7, CalmOthers DEF Kept, TeInv, TShape

\* What is known of a connection in service.
LEMMA InService ==
  ASSUME TeInv, NEW c \in Conns, Te!Serving(c)
  PROVE  /\ conn[c] \in CRecs /\ conn[c].s \in Te!Sessions /\ conn[c].epoch <= sess[conn[c].s].epoch
         /\ conn[c].cursor <= sess[conn[c].s].total /\ sess[conn[c].s] \in SRecs
         /\ conn[c].pump = "send" => conn[c].read <= sess[conn[c].s].total
         /\ conn[c].pump = "replaced" => conn[c].epoch # sess[conn[c].s].epoch
<1>1. conn[c] \in CRecs /\ conn[c].pc \in {"hello", "relay", "leaving"} /\ Att(conn[c], sess)
  BY DEF TeInv, TShape, Attached, Te!Serving
<1>2. conn[c].s \in Te!Sessions
  BY <1>1 DEF Att, Te!Sessions
<1> QED BY <1>1, <1>2, SessionIsRecord DEF Att, TeInv, TShape

\* The steps of a connection that goes on are calm.
LEMMA ConnIsCalm ==
  ASSUME TeInv, NEW c \in Conns, Te!Relay(c) \/ Te!Gone(c) \/ Te!Receive(c) \/ Te!Leave(c)
  PROVE  Calm
<1>0. Te!Serving(c) /\ reg' = reg /\ sess' = sess /\ conn \in [Conns -> CRecs]
  BY DEF Te!Relay, Te!Gone, Te!Receive, Te!Leave, Te!Serving, TeInv, TShape
<1>1. PICK new \in CRecs :
        /\ conn' = [conn EXCEPT ![c] = new]
        /\ new.pc \in {"hello", "relay", "leaving"} /\ new.s = conn[c].s /\ new.epoch = conn[c].epoch
        /\ new.cursor = conn[c].cursor
        /\ new.pump = conn[c].pump \/ new.pump \notin {"send", "replaced"}
        /\ new.pump = "send" => new.read = conn[c].read
  <2>1. CASE Te!Relay(c)
    <3> DEFINE new == [conn[c] EXCEPT !.pc = "relay", !.pump = Te!Wait(conn[c].s), !.recv = "open"]
    <3>1. Te!Wait(conn[c].s) \in {"wait", "woken"}
      BY DEF Te!Wait
    <3>2. new \in CRecs /\ new.pc = "relay" /\ new.s = conn[c].s /\ new.epoch = conn[c].epoch
          /\ new.cursor = conn[c].cursor /\ new.pump \notin {"send", "replaced"}
      BY ZenonT(60), <1>0, <3>1 DEF CRecs, CPcs, Pumps
    <3>3. conn' = [conn EXCEPT ![c] = new]
      BY <2>1 DEF Te!Relay
    <3> QED BY <3>2, <3>3
  <2>2. CASE Te!Gone(c)
    <3> DEFINE new == [conn[c] EXCEPT !.peer = FALSE]
    <3>1. new \in CRecs /\ new.pc = conn[c].pc /\ new.s = conn[c].s /\ new.epoch = conn[c].epoch
          /\ new.cursor = conn[c].cursor /\ new.pump = conn[c].pump /\ new.read = conn[c].read
      BY <1>0 DEF CRecs
    <3>2. conn' = [conn EXCEPT ![c] = new] /\ conn[c].pc \in {"hello", "relay", "leaving"}
      BY <1>0, <2>2 DEF Te!Gone, Te!Serving
    <3> QED BY <3>1, <3>2
  <2>3. CASE Te!Receive(c)
    <3> DEFINE new == [conn[c] EXCEPT !.recv = "disconnect"]
    <3>1. new \in CRecs /\ new.pc = conn[c].pc /\ new.s = conn[c].s /\ new.epoch = conn[c].epoch
          /\ new.cursor = conn[c].cursor /\ new.pump = conn[c].pump /\ new.read = conn[c].read
      BY <1>0 DEF CRecs
    <3>2. conn' = [conn EXCEPT ![c] = new] /\ conn[c].pc \in {"hello", "relay", "leaving"}
      BY <1>0, <2>3 DEF Te!Receive, Te!Serving
    <3> QED BY <3>1, <3>2
  <2>4. CASE Te!Leave(c)
    <3>1. PICK why \in Te!Reasons(c) :
            conn' = [conn EXCEPT ![c] = [conn[c] EXCEPT !.pc = "leaving", !.pump = why, !.recv = "none", !.read = 0]]
      BY <2>4 DEF Te!Leave
    <3> DEFINE new == [conn[c] EXCEPT !.pc = "leaving", !.pump = why, !.recv = "none", !.read = 0]
    <3>2. why \in {"replaced", "eof", "broken", "disconnect"} /\ why \in {conn[c].pump, conn[c].recv}
      BY DEF Te!Reasons
    <3>3. conn[c].recv # "replaced"
      BY <1>0 DEF CRecs
    <3>4. new \in CRecs /\ new.pc = "leaving" /\ new.s = conn[c].s /\ new.epoch = conn[c].epoch
          /\ new.cursor = conn[c].cursor /\ new.pump = why
      BY ZenonT(60), <1>0, <3>2 DEF CRecs, CPcs, Pumps
    <3>5. new.pump = conn[c].pump \/ new.pump \notin {"send", "replaced"}
      BY <3>2, <3>3, <3>4
    <3> QED BY <3>1, <3>2, <3>4, <3>5
  <2> QED BY <2>1, <2>2, <2>3, <2>4
<1>2. Att(new, sess')
  BY <1>0, <1>1, InService DEF Att, Te!Sessions
<1>3. CalmSessions
  BY <1>0, CalmSame
<1> QED BY <1>0, <1>1, <1>2, <1>3, CalmOne

\* The pump's own steps are calm.
LEMMA PumpIsCalm ==
  ASSUME TeInv, NEW c \in Conns, Te!Pump(c)
  PROVE  Calm
<1> DEFINE s == conn[c].s
           from == IF conn[c].cursor < Te!Low(s) THEN Te!Low(s) ELSE conn[c].cursor
           pump == IF from < sess[s].total THEN "send" ELSE IF sess[s].eof THEN "eof" ELSE "wait"
<1>0. /\ conn[c].pc = "relay" /\ reg' = reg /\ conn \in [Conns -> CRecs] /\ sess \in Seq(SRecs) /\ Te!Serving(c)
      /\ sess[s].closed => ~sess[s].shell /\ ~sess[s].reader
  <2>1. conn[c].pc = "relay" /\ reg' = reg /\ Te!Serving(c)
    BY DEF Te!Pump, Te!Serving
  <2> QED BY <2>1, InService DEF TeInv, TShape, Shut, Te!Sessions
<1>1. conn[c] \in CRecs /\ s \in Te!Sessions /\ sess[s] \in SRecs
  BY <1>0, InService
<1>2. CASE conn[c].epoch # sess[s].epoch
  <2> DEFINE new == [conn[c] EXCEPT !.pump = "replaced"]
  <2>1. /\ new \in CRecs /\ new.pc = "relay" /\ new.s = s /\ new.epoch = conn[c].epoch
        /\ new.cursor = conn[c].cursor /\ new.pump = "replaced"
    BY <1>0, <1>1 DEF CRecs, Pumps
  <2>2. conn' = [conn EXCEPT ![c] = new] /\ sess' = sess
    BY <1>2 DEF Te!Pump
  <2> HIDE DEF new
  <2>3. Att(new, sess')
    BY <1>0, <1>2, <2>1, <2>2, InService DEF Att, Te!Sessions
  <2> QED BY <1>0, <2>1, <2>2, <2>3, CalmSame, CalmOne
<1>3. CASE conn[c].epoch = sess[s].epoch
  <2> DEFINE new == [conn[c] EXCEPT !.read = sess[s].total, !.pump = pump]
             mute == [sess[s] EXCEPT !.event = FALSE]
  <2>1. pump \in {"send", "eof", "wait"}
    OBVIOUS
  <2>2. conn' = [conn EXCEPT ![c] = new] /\ sess' = [sess EXCEPT ![s] = mute]
    BY <1>3 DEF Te!Pump
  <2>3. /\ mute \in SRecs /\ mute.total = sess[s].total /\ mute.epoch = sess[s].epoch /\ mute.left = sess[s].left
        /\ mute.shell = sess[s].shell /\ mute.closed = sess[s].closed /\ mute.reader = sess[s].reader
    BY <1>1 DEF SRecs
  <2>4. sess[s].total \in Nat /\ sess[s].total <= sess[s].total
    BY <1>1, SessionFields
  <2> HIDE DEF pump
  <2>5. /\ new \in CRecs /\ new.pc = "relay" /\ new.s = s /\ new.epoch = conn[c].epoch
        /\ new.cursor = conn[c].cursor /\ new.pump = pump /\ new.read = sess[s].total
    BY <1>0, <1>1, <2>1, <2>4 DEF CRecs, Pumps
  <2> HIDE DEF new, mute
  <2>6. sess'[s] = mute /\ Len(sess') = Len(sess)
    BY <1>0, <1>1, <2>2, <2>3, SessionWritten
  <2>7. CalmSessions
    BY <1>0, <1>1, <2>2, <2>3, <2>4, CalmWrite
  <2>8. Att(new, sess')
    <3>1. conn[c].epoch <= sess[s].epoch /\ conn[c].cursor <= sess[s].total /\ s \in 1..Len(sess)
      BY <1>0, InService DEF Te!Sessions
    <3> QED BY <2>1, <2>3, <2>4, <2>5, <2>6, <3>1 DEF Att
  <2> QED BY <1>0, <2>2, <2>5, <2>7, <2>8, CalmOne
<1> QED BY <1>2, <1>3

\* So is a send that ended.
LEMMA SentIsCalm ==
  ASSUME TeInv, NEW c \in Conns, Te!Sent(c)
  PROVE  Calm
<1> DEFINE s == conn[c].s
           pump == IF sess[s].eof /\ conn[c].read >= sess[s].total THEN "eof" ELSE Te!Wait(s)
<1>0. /\ conn[c].pc = "relay" /\ conn[c].pump = "send" /\ reg' = reg /\ sess' = sess /\ Te!Serving(c)
      /\ conn \in [Conns -> CRecs]
  BY DEF Te!Sent, Te!Serving, TeInv, TShape
<1>1. /\ conn[c] \in CRecs /\ s \in Te!Sessions /\ conn[c].read <= sess[s].total
      /\ conn[c].epoch <= sess[s].epoch /\ conn[c].cursor <= sess[s].total
  BY <1>0, InService
<1>2. CASE conn' = [conn EXCEPT ![c].cursor = conn[c].read, ![c].read = 0, ![c].pump = pump]
  <2> DEFINE new == [conn[c] EXCEPT !.cursor = conn[c].read, !.read = 0, !.pump = pump]
  <2>1. pump \in {"eof", "wait", "woken"}
    BY DEF Te!Wait
  <2>2. conn' = [conn EXCEPT ![c] = new]
    BY <1>2
  <2> HIDE DEF pump
  <2>3. /\ new \in CRecs /\ new.pc = "relay" /\ new.s = s /\ new.epoch = conn[c].epoch
        /\ new.cursor = conn[c].read /\ new.pump = pump
    BY <1>0, <1>1, <2>1 DEF CRecs, Pumps
  <2> HIDE DEF new
  <2>4. Att(new, sess')
    BY <1>0, <1>1, <2>1, <2>3 DEF Att, Te!Sessions
  <2> QED BY <1>0, <2>2, <2>3, <2>4, CalmSame, CalmOne
<1>3. CASE conn' = [conn EXCEPT ![c].pump = "broken"]
  <2> DEFINE new == [conn[c] EXCEPT !.pump = "broken"]
  <2>1. conn' = [conn EXCEPT ![c] = new]
    BY <1>3
  <2>2. /\ new \in CRecs /\ new.pc = "relay" /\ new.s = s /\ new.epoch = conn[c].epoch
        /\ new.cursor = conn[c].cursor /\ new.pump = "broken"
    BY <1>0, <1>1 DEF CRecs, Pumps
  <2> HIDE DEF new
  <2>3. Att(new, sess')
    BY <1>0, <1>1, <2>2 DEF Att, Te!Sessions
  <2> QED BY <1>0, <2>1, <2>2, <2>3, CalmSame, CalmOne
<1> QED BY <1>2, <1>3 DEF Te!Sent

(***************************************************************************)
(* A session that is closed                                                *)
(***************************************************************************)
\* Closing the session s, and taking it from the registry if it is there.
Shuts(s) ==
  /\ sess' \in Seq(SRecs) /\ Len(sess') = Len(sess)
  /\ \A t \in Te!Sessions : t # s => sess'[t] = sess[t]
  /\ sess'[s] = Te!Closed(sess[s])
  /\ reg' = IF reg = s THEN None ELSE reg
  /\ conn' \in [Conns -> CRecs]

\* A closed session is within nobody's reach, and the others are as they were.
LEMMA ShutsKeeps ==
  ASSUME TeInv, NEW s \in Te!Sessions, Shuts(s),
         \A c \in Conns : Kept(conn[c], conn'[c]) \/ (conn'[c].pc = "over" /\ (Te!Serving(c) => conn[c].s = s \/ reg' = None))
  PROVE  TeInv'
<1>0. sess \in Seq(SRecs) /\ conn \in [Conns -> CRecs] /\ Shut(sess) /\ sess[s] \in SRecs
  BY SessionIsRecord DEF TeInv, TShape
<1>1. LET n == Te!Closed(sess[s])
      IN  /\ n \in SRecs /\ n.closed /\ ~n.shell /\ ~n.reader
          /\ n.epoch = sess[s].epoch /\ n.total = sess[s].total /\ n.left = sess[s].left
  <2>1. sess[s].closed => ~sess[s].shell /\ ~sess[s].reader
    BY <1>0 DEF Shut, Te!Sessions
  <2> QED BY <1>0, <2>1, ClosedIsShut
<1>2. \A t \in Te!Sessions : /\ sess'[t].epoch = sess[t].epoch /\ sess'[t].total = sess[t].total
                             /\ sess'[t].shell => sess[t].shell /\ t # s
                             /\ sess'[t].left = sess[t].left
                             /\ sess'[t].closed => ~sess'[t].shell /\ ~sess'[t].reader
  BY <1>0, <1>1 DEF Shuts, Shut, Te!Sessions
<1>3. TShape'
  BY DEF Shuts, TeInv, TShape, Te!Sessions
<1>4. Shut(sess)'
  BY <1>2 DEF Shuts, Shut, Te!Sessions
<1>5. Grows(sess, sess')
  <2>1. \A t \in Te!Sessions : sess[t].epoch \in Nat /\ sess[t].total \in Nat
    BY <1>0, SessionIsRecord, SessionFields
  <2>2. Len(sess) <= Len(sess')
    BY <1>0, LenProperties DEF Shuts
  <2> QED BY <1>2, <2>1, <2>2 DEF Grows, Te!Sessions
<1>6. ASSUME NEW c \in Conns PROVE Att(conn'[c], sess')
  <2>1. CASE Kept(conn[c], conn'[c])
    BY <1>0, <1>5, <2>1, AttKept DEF TeInv, Attached, Shuts
  <2>2. CASE conn'[c].pc = "over"
    BY <2>2 DEF Att
  <2> QED BY <2>1, <2>2
<1>7. Te!ShellIsHeld'
  <2>1. ASSUME NEW t \in Te!Sessions', sess'[t].shell PROVE reg' = t
    <3>1. t \in Te!Sessions /\ sess[t].shell /\ t # s
      BY <1>2, <2>1 DEF Shuts, Te!Sessions
    <3> QED BY <3>1 DEF TeInv, Te!ShellIsHeld, Shuts
  <2>2. ASSUME reg' # None, sess'[reg'].left = "no" PROVE \E c \in Conns : Te!Current(c)' /\ conn'[c].s = reg'
    <3>1. reg' = reg /\ reg # None /\ reg \in Te!Sessions /\ reg # s
      BY <2>2, TerminalBounds DEF TeInv, TShape, Shuts
    <3>2. sess[reg].left = "no" /\ sess'[reg].epoch = sess[reg].epoch
      BY <1>2, <2>2, <3>1
    <3>3. PICK c \in Conns : Te!Current(c) /\ conn[c].s = reg
      BY <3>1, <3>2 DEF TeInv, Te!ShellIsHeld
    <3>4. Kept(conn[c], conn'[c])
      BY <2>2, <3>1, <3>3 DEF Te!Current
    <3>5. Te!Current(c)' /\ conn'[c].s = reg'
      BY <3>1, <3>2, <3>3, <3>4 DEF Kept, Te!Current, Te!Serving
    <3> QED BY <3>5
  <2> QED BY <2>1, <2>2 DEF Te!ShellIsHeld
<1> QED BY <1>3, <1>4, <1>6, <1>7 DEF TeInv, Attached

\* The reaper and the end of the daemon keep what is known.
LEMMA ReapKeeps ==
  ASSUME TeInv, Te!Reap \/ Te!CloseAll
  PROVE  TeInv'
<1>0. reg # None /\ reg \in Te!Sessions /\ sess \in Seq(SRecs) /\ conn \in [Conns -> CRecs] /\ sess[reg] \in SRecs
  BY SessionIsRecord DEF TeInv, TShape, Te!Reap, Te!CloseAll
<1>1. Te!Closed(sess[reg]) \in SRecs
  BY <1>0, ClosedIsShut DEF TeInv, Shut, Te!Sessions
<1>2. sess' = [sess EXCEPT ![reg] = Te!Closed(sess[reg])] /\ reg' = None
  <2>1. CASE Te!Reap
    BY <2>1 DEF Te!Reap
  <2>2. CASE Te!CloseAll
    <3>1. sess' = [s \in 1..Len(sess) |-> IF s = reg THEN Te!Closed(sess[s]) ELSE sess[s]] /\ reg' = None
      BY <2>2 DEF Te!CloseAll, Te!Sessions
    <3>2. DOMAIN sess = 1..Len(sess) /\ sess \in [1..Len(sess) -> SRecs]
      BY <1>0, LenProperties
    <3>3. [sess EXCEPT ![reg] = Te!Closed(sess[reg])]
            = [s \in 1..Len(sess) |-> IF s = reg THEN Te!Closed(sess[s]) ELSE sess[s]]
      BY <3>2
    <3> QED BY <3>1, <3>3
  <2> QED BY <2>1, <2>2
<1>3. /\ conn' \in [Conns -> CRecs]
      /\ \A c \in Conns : Kept(conn[c], conn'[c]) \/ (conn'[c].pc = "over" /\ reg' = None)
  <2>1. CASE Te!Reap
    BY <1>0, <2>1, WokenKeeps DEF Te!Reap
  <2>2. CASE Te!CloseAll
    <3>1. Te!Over \in CRecs /\ Te!Over.pc = "over"
      BY DEF Te!Over, Te!Off, CRecs, CPcs, Pumps
    <3>2. conn' = [c \in Conns |-> IF Te!Serving(c) THEN Te!Over ELSE conn[c]]
      BY <2>2 DEF Te!CloseAll
    <3> QED BY <1>0, <1>2, <3>1, <3>2 DEF Kept
  <2> QED BY <2>1, <2>2
<1>4. Shuts(reg)
  BY <1>0, <1>1, <1>2, <1>3, SessionWritten DEF Shuts
<1> QED BY <1>0, <1>3, <1>4, ShutsKeeps

\* A connection that leaves is over; what it held is held by somebody else, or marked.
LEMMA LeavingKeeps ==
  ASSUME TeInv, NEW c \in Conns, CalmSessions, reg' = reg, conn' = [conn EXCEPT ![c] = Te!Over],
         reg # None /\ sess'[reg].left = "no" => ~(Te!Current(c) /\ conn[c].s = reg)
  PROVE  TeInv'
<1>0. sess \in Seq(SRecs) /\ conn \in [Conns -> CRecs] /\ reg \in Te!Sessions \cup {None}
  BY DEF TeInv, TShape
<1>1. Te!Over \in CRecs /\ Te!Over.pc = "over"
  BY DEF Te!Over, Te!Off, CRecs, CPcs, Pumps
<1>2. conn' \in [Conns -> CRecs] /\ conn'[c].pc = "over" /\ \A d \in Conns : d # c => conn'[d] = conn[d]
  BY <1>0, <1>1
<1>3. ASSUME NEW d \in Conns PROVE Att(conn'[d], sess')
  <2>1. CASE d = c
    BY <1>2, <2>1 DEF Att
  <2>2. CASE d # c
    <3>1. Kept(conn[d], conn'[d])
      BY <1>2, <2>2 DEF Kept
    <3> QED BY <1>0, <1>2, <3>1, CalmGrows, AttKept DEF TeInv, Attached, CalmSessions
  <2> QED BY <2>1, <2>2
<1>4. Te!ShellIsHeld'
  <2>1. ASSUME NEW t \in Te!Sessions', sess'[t].shell PROVE reg' = t
    BY <2>1 DEF TeInv, Te!ShellIsHeld, CalmSessions, Te!Sessions
  <2>2. ASSUME reg' # None, sess'[reg'].left = "no" PROVE \E d \in Conns : Te!Current(d)' /\ conn'[d].s = reg'
    <3>1. reg \in Te!Sessions /\ sess[reg].left = "no" /\ sess'[reg].epoch = sess[reg].epoch
      BY <1>0, <2>2 DEF CalmSessions
    <3>2. PICK d \in Conns : Te!Current(d) /\ conn[d].s = reg
      BY <2>2, <3>1 DEF TeInv, Te!ShellIsHeld
    <3>3. d # c
      BY <2>2, <3>2
    <3>4. Te!Current(d)' /\ conn'[d].s = reg'
      BY <1>2, <3>1, <3>2, <3>3 DEF Te!Current, Te!Serving
    <3> QED BY <3>4
  <2> QED BY <2>1, <2>2 DEF Te!ShellIsHeld
<1>5. TShape' /\ Shut(sess)'
  BY <1>0, <1>2 DEF TShape, Shut, CalmSessions, Te!Sessions
<1> QED BY <1>3, <1>4, <1>5 DEF TeInv, Attached

\* The three ways a connection ends keep what is known.
LEMMA FinishKeeps ==
  ASSUME TeInv, NEW c \in Conns, Te!Finish(c)
  PROVE  TeInv'
<1> DEFINE s == conn[c].s
<1>0. /\ Te!Serving(c) /\ s \in Te!Sessions /\ sess[s] \in SRecs /\ sess \in Seq(SRecs) /\ conn \in [Conns -> CRecs]
      /\ sess[s].closed => ~sess[s].shell /\ ~sess[s].reader
      /\ conn[c].pump = "replaced" => conn[c].epoch # sess[s].epoch
  <2>1. Te!Serving(c)
    BY DEF Te!Finish, Te!Serving
  <2> QED BY <2>1, InService DEF TeInv, TShape, Shut, Te!Sessions
<1>1. CASE conn[c].pump = "replaced" /\ conn' = [conn EXCEPT ![c] = Te!Over] /\ UNCHANGED <<reg, sess>>
  <2>1. ~(Te!Current(c) /\ conn[c].s = reg)
    BY <1>0, <1>1 DEF Te!Current
  <2> QED BY <1>1, <2>1, CalmSame, LeavingKeeps
<1>2. CASE /\ sess' = [sess EXCEPT ![s].left = IF @ = "no" THEN "lately" ELSE @]
           /\ conn' = [conn EXCEPT ![c] = Te!Over] /\ reg' = reg
  <2> DEFINE left == IF sess[s].left = "no" THEN "lately" ELSE sess[s].left
             new == [sess[s] EXCEPT !.left = left]
  <2>1. sess' = [sess EXCEPT ![s] = new]
    BY <1>2
  <2>2. left \in {"lately", "long"} /\ left # "no"
    BY <1>0 DEF SRecs
  <2> HIDE DEF left
  <2>3. /\ new \in SRecs /\ new.total = sess[s].total /\ new.epoch = sess[s].epoch /\ new.left = left
        /\ new.shell = sess[s].shell /\ new.closed = sess[s].closed /\ new.reader = sess[s].reader
    BY <1>0, <2>2 DEF SRecs
  <2> HIDE DEF new
  <2>4. sess[s].total <= sess[s].total
    BY <1>0, SessionFields
  <2>5. CalmSessions
    BY <1>0, <2>1, <2>2, <2>3, <2>4, CalmWrite
  <2>6. sess'[s] = new
    BY <1>0, <2>1, <2>3, SessionWritten
  <2>7. reg # None /\ sess'[reg].left = "no" => ~(Te!Current(c) /\ conn[c].s = reg)
    BY <2>2, <2>3, <2>6
  <2> QED BY <1>2, <2>5, <2>7, LeavingKeeps
<1>3. CASE /\ sess' = [sess EXCEPT ![s] = Te!Closed(@)]
           /\ reg' = Te!Popped(s) /\ conn' = [Te!WokenBy(s) EXCEPT ![c] = Te!Over]
  <2>1. Te!Closed(sess[s]) \in SRecs
    BY <1>0, ClosedIsShut
  <2>2. Te!Over \in CRecs /\ Te!Over.pc = "over"
    BY DEF Te!Over, Te!Off, CRecs, CPcs, Pumps
  <2>3. conn' \in [Conns -> CRecs] /\ conn'[c].pc = "over" /\ \A d \in Conns : d # c => Kept(conn[d], conn'[d])
    BY <1>0, <1>3, <2>2, WokenKeeps
  <2>4. sess' = [sess EXCEPT ![s] = Te!Closed(sess[s])]
    BY <1>3
  <2>5. Shuts(s)
    BY ZenonT(60), <1>0, <1>3, <2>1, <2>3, <2>4, SessionWritten DEF Shuts, Te!Popped
  <2>6. \A d \in Conns : Kept(conn[d], conn'[d]) \/ (conn'[d].pc = "over" /\ (Te!Serving(d) => conn[d].s = s \/ reg' = None))
    BY <2>3
  <2> QED BY <1>0, <2>5, <2>6, ShutsKeeps
<1> QED BY <1>1, <1>2, <1>3 DEF Te!Finish

\* A function on 1..n is a sequence of that length.
LEMMA FunctionIsSeq ==
  ASSUME NEW S, NEW n \in Nat, NEW f \in [1..n -> S]
  PROVE  f \in Seq(S) /\ Len(f) = n
OBVIOUS

\* The base on which a newcomer is put, the session it gets, and the record it becomes.
Dead == reg # None /\ ~Te!Alive(reg)
Fresh == reg = None \/ Dead
Given == IF Fresh THEN Len(sess) + 1 ELSE reg
Before == IF Fresh THEN Te!NewSession ELSE sess[reg]
Taken == [Before EXCEPT !.epoch = @ + 1, !.left = "no", !.event = TRUE]
Others == IF Dead THEN Te!WokenBy(reg) ELSE IF Fresh THEN conn ELSE Te!Woken(reg)
Newcomer(q) == [q EXCEPT !.pc = "hello", !.s = Given, !.epoch = Before.epoch + 1,
                         !.cursor = IF Fresh THEN 0 ELSE Te!Low(reg)]

\* The session a newcomer gets is one more, or the one that runs.
LEMMA GivenIsTyped ==
  ASSUME TeInv
  PROVE  /\ Len(sess) \in Nat /\ Given \in 1..(Len(sess) + 1)
         /\ ~Fresh => Given = reg /\ reg \in Te!Sessions /\ sess[reg] \in SRecs
         /\ Fresh => Given = Len(sess) + 1
         /\ Before \in SRecs /\ (Before.closed => ~Before.shell /\ ~Before.reader)
<1>1. sess \in Seq(SRecs) /\ Len(sess) \in Nat /\ reg \in Te!Sessions \cup {None} /\ Shut(sess)
  BY LenProperties DEF TeInv, TShape
<1>2. CASE Fresh
  <2>1. Te!NewSession \in SRecs /\ Te!NewSession.closed = FALSE
    BY TerminalBounds DEF Te!NewSession, SRecs
  <2> QED BY <1>1, <1>2, <2>1 DEF Given, Before
<1>3. CASE ~Fresh
  <2>1. reg \in Te!Sessions
    BY <1>1, <1>3 DEF Fresh
  <2>2. sess[reg] \in SRecs /\ (sess[reg].closed => ~sess[reg].shell /\ ~sess[reg].reader)
    BY <1>1, <2>1, SessionIsRecord DEF Shut, Te!Sessions
  <2> QED BY <1>1, <1>3, <2>1, <2>2 DEF Given, Before, Te!Sessions
<1> QED BY <1>2, <1>3

\* What it becomes when it is taken.
LEMMA TakenIsTyped ==
  ASSUME TeInv
  PROVE  /\ Taken \in SRecs /\ Taken.epoch = Before.epoch + 1 /\ Taken.total = Before.total
         /\ Taken.shell = Before.shell /\ (Taken.closed => ~Taken.shell /\ ~Taken.reader)
         /\ Before.epoch \in Nat /\ Before.total \in Nat
<1>1. Before \in SRecs /\ (Before.closed => ~Before.shell /\ ~Before.reader)
  BY GivenIsTyped
<1>2. Before.epoch \in Nat /\ Before.total \in Nat
  BY <1>1, SessionFields
<1> DEFINE e == Before.epoch + 1
<1>3. Taken = [Before EXCEPT !.epoch = e, !.left = "no", !.event = TRUE]
  BY <1>1 DEF Taken
<1>4. e \in Nat
  BY <1>2
<1> HIDE DEF e
<1>5. /\ Taken \in SRecs /\ Taken.epoch = e /\ Taken.total = Before.total /\ Taken.shell = Before.shell
      /\ Taken.closed = Before.closed /\ Taken.reader = Before.reader
  BY <1>1, <1>3, <1>4 DEF SRecs
<1> QED BY <1>1, <1>2, <1>5 DEF e

\* The sessions after a newcomer.
LEMMA ConnectSessions ==
  ASSUME TeInv, NEW c \in Conns, Te!Connect(c)
  PROVE  /\ sess' \in Seq(SRecs) /\ Given \in 1..Len(sess') /\ Len(sess) <= Len(sess')
         /\ sess'[Given] = Taken
         /\ \A t \in 1..Len(sess') : t # Given =>
              /\ t \in Te!Sessions
              /\ sess'[t] = IF Dead /\ t = reg THEN Te!Closed(sess[t]) ELSE sess[t]
<1> DEFINE n == IF Fresh THEN Len(sess) + 1 ELSE Len(sess)
           old(t) == IF Dead /\ t = reg THEN Te!Closed(sess[t]) ELSE sess[t]
           f == [t \in 1..n |-> IF t = Given THEN Taken ELSE old(t)]
<1>1. sess' = [t \in Te!Sessions \cup {Given} |-> IF t = Given THEN Taken ELSE old(t)]
  BY DEF Te!Connect, Dead, Fresh, Given, Before, Taken
<1>2. Te!Sessions \cup {Given} = 1..n /\ n \in Nat /\ Given \in 1..n
  BY GivenIsTyped DEF Te!Sessions
<1>3. sess' = f
  BY <1>1, <1>2
<1>4. \A t \in 1..n : t # Given => t \in Te!Sessions
  BY GivenIsTyped DEF Te!Sessions
<1>5. \A t \in Te!Sessions : old(t) \in SRecs
  <2> TAKE t \in Te!Sessions
  <2>1. sess[t] \in SRecs /\ (sess[t].closed => ~sess[t].shell /\ ~sess[t].reader)
    BY SessionIsRecord DEF TeInv, TShape, Shut, Te!Sessions
  <2> QED BY <2>1, ClosedIsShut
<1> HIDE DEF old
<1>6. f \in [1..n -> SRecs]
  BY <1>4, <1>5, TakenIsTyped
<1> HIDE DEF n
<1>7. sess' \in Seq(SRecs) /\ Len(sess') = n
  BY <1>2, <1>3, <1>6, FunctionIsSeq
<1>8. sess'[Given] = Taken /\ \A t \in 1..n : t # Given => sess'[t] = old(t)
  BY <1>2, <1>3
<1>9. Len(sess) <= n
  BY GivenIsTyped DEF n
<1> QED BY <1>2, <1>4, <1>7, <1>8, <1>9 DEF old

\* They have grown, and the newcomer's is the only one with a shell.
LEMMA ConnectGrows ==
  ASSUME TeInv, NEW c \in Conns, Te!Connect(c)
  PROVE  /\ Grows(sess, sess') /\ Shut(sess)'
         /\ \A t \in 1..Len(sess') : sess'[t].shell => t = Given
<1>0. sess \in Seq(SRecs) /\ Len(sess) \in Nat /\ Len(sess') \in Nat
  BY ConnectSessions, LenProperties DEF TeInv, TShape
<1>1. ASSUME NEW t \in Te!Sessions
      PROVE  /\ sess[t] \in SRecs /\ sess[t].epoch \in Nat /\ sess[t].total \in Nat
             /\ sess[t].closed => ~sess[t].shell /\ ~sess[t].reader
  BY <1>0, SessionIsRecord, SessionFields DEF TeInv, Shut, Te!Sessions
<1>2. ASSUME NEW t \in 1..Len(sess'), t # Given
      PROVE  /\ t \in Te!Sessions /\ sess'[t].epoch = sess[t].epoch /\ sess'[t].total = sess[t].total
             /\ ~sess'[t].shell /\ (sess'[t].closed => ~sess'[t].shell /\ ~sess'[t].reader)
  <2>1. t \in Te!Sessions /\ sess'[t] = IF Dead /\ t = reg THEN Te!Closed(sess[t]) ELSE sess[t]
    BY <1>2, ConnectSessions
  <2>2. CASE Dead /\ t = reg
    BY <1>1, <2>1, <2>2, ClosedIsShut
  <2>3. CASE ~(Dead /\ t = reg)
    <3>1. sess'[t] = sess[t]
      BY <2>1, <2>3
    <3>2. ~sess[t].shell
      <4>1. SUFFICES ASSUME sess[t].shell PROVE FALSE
        OBVIOUS
      <4>2. reg = t
        BY <2>1, <4>1 DEF TeInv, Te!ShellIsHeld
      <4>3. ~Fresh
        BY <2>1, <2>3, <4>2, TerminalBounds DEF Fresh, Te!Sessions
      <4> QED BY <1>2, <4>2, <4>3 DEF Given
    <3> QED BY <1>1, <2>1, <3>1, <3>2
  <2> QED BY <2>2, <2>3
<1>3. sess'[Given] = Taken /\ (Taken.closed => ~Taken.shell /\ ~Taken.reader)
  BY ConnectSessions, TakenIsTyped
<1>4. Given \in Te!Sessions => /\ sess[Given].epoch <= Taken.epoch /\ sess[Given].total <= Taken.total
                               /\ Taken.shell => sess[Given].shell
  <2>1. ASSUME Given \in Te!Sessions PROVE Before = sess[Given]
    BY <1>0, <2>1, GivenIsTyped DEF Before, Te!Sessions
  <2> QED BY <2>1, TakenIsTyped
<1>5. Grows(sess, sess')
  <2>1. Len(sess) <= Len(sess')
    BY ConnectSessions
  <2>2. ASSUME NEW t \in 1..Len(sess)
        PROVE  sess[t].epoch <= sess'[t].epoch /\ sess[t].total <= sess'[t].total /\ (sess'[t].shell => sess[t].shell)
    <3>1. t \in 1..Len(sess')
      BY <1>0, <2>1
    <3>2. CASE t = Given
      BY <1>3, <1>4, <3>2 DEF Te!Sessions
    <3>3. CASE t # Given
      BY <1>1, <1>2, <3>1, <3>3 DEF Te!Sessions
    <3> QED BY <3>2, <3>3
  <2> QED BY <2>1, <2>2 DEF Grows
<1> QED BY <1>2, <1>3, <1>5 DEF Shut

\* The connections after a newcomer: it is on its session, the others are kept.
LEMMA ConnectConns ==
  ASSUME TeInv, NEW c \in Conns, Te!Connect(c)
  PROVE  /\ conn' \in [Conns -> CRecs] /\ reg' = Given
         /\ \A d \in Conns : d # c => Kept(conn[d], conn'[d])
         /\ conn'[c].pc = "hello" /\ conn'[c].s = Given /\ conn'[c].epoch = Taken.epoch
         /\ conn'[c].cursor <= Taken.total /\ conn'[c].pump \notin {"send", "replaced"}
<1>1. conn' = [Others EXCEPT ![c] = Newcomer(Others[c])] /\ reg' = Given /\ conn[c].pc = "off"
  BY DEF Te!Connect, Dead, Fresh, Given, Before, Others, Newcomer
<1>2. Others \in [Conns -> CRecs] /\ \A d \in Conns : Kept(conn[d], Others[d])
  BY WokenKeeps DEF Others, Kept, TeInv, TShape
<1>3. Others[c].pump \notin {"send", "replaced"}
  BY <1>1, <1>2 DEF Kept, TeInv, Attached, Att
<1> DEFINE low == IF Fresh THEN 0 ELSE Te!Low(reg)
<1>4. low \in Nat /\ low <= Taken.total
  BY TakenIsTyped, TerminalBounds DEF Te!Low, Before
<1>5. Given \in Nat /\ Before.epoch + 1 \in Nat /\ Taken.epoch = Before.epoch + 1
  BY GivenIsTyped, TakenIsTyped
<1> HIDE DEF low
<1>6. /\ Newcomer(Others[c]) \in CRecs /\ Newcomer(Others[c]).pc = "hello" /\ Newcomer(Others[c]).s = Given
      /\ Newcomer(Others[c]).epoch = Before.epoch + 1 /\ Newcomer(Others[c]).cursor = low
      /\ Newcomer(Others[c]).pump = Others[c].pump
  <2>1. Newcomer(Others[c]) = [Others[c] EXCEPT !.pc = "hello", !.s = Given, !.epoch = Before.epoch + 1, !.cursor = low]
    BY DEF Newcomer, low
  <2> DEFINE e == Before.epoch + 1
  <2>2. Newcomer(Others[c]) = [Others[c] EXCEPT !.pc = "hello", !.s = Given, !.epoch = e, !.cursor = low]
    BY <2>1
  <2>3. e \in Nat /\ Others[c] \in CRecs
    BY <1>2, <1>5
  <2> HIDE DEF e
  <2>4. /\ Newcomer(Others[c]) \in CRecs /\ Newcomer(Others[c]).pc = "hello" /\ Newcomer(Others[c]).s = Given
        /\ Newcomer(Others[c]).epoch = e /\ Newcomer(Others[c]).cursor = low
        /\ Newcomer(Others[c]).pump = Others[c].pump
    BY ZenonT(60), <1>4, <1>5, <2>2, <2>3 DEF CRecs, CPcs
  <2> QED BY <2>4 DEF e
<1>7. conn' \in [Conns -> CRecs] /\ conn'[c] = Newcomer(Others[c]) /\ \A d \in Conns : d # c => conn'[d] = Others[d]
  BY <1>1, <1>2, <1>6
<1> QED BY <1>1, <1>2, <1>3, <1>4, <1>5, <1>6, <1>7

\* A newcomer keeps what is known: it holds the only shell.
LEMMA ConnectKeeps ==
  ASSUME TeInv, NEW c \in Conns, Te!Connect(c)
  PROVE  TeInv'
<1>0. sess \in Seq(SRecs) /\ sess' \in Seq(SRecs) /\ conn \in [Conns -> CRecs] /\ conn' \in [Conns -> CRecs]
  BY ConnectSessions, ConnectConns DEF TeInv, TShape
<1>1. TShape'
  BY <1>0, ConnectSessions, ConnectConns DEF TShape, Te!Sessions
<1>2. ASSUME NEW d \in Conns PROVE Att(conn'[d], sess')
  <2>1. CASE d = c
    <3>1. Taken.epoch \in Nat
      BY TakenIsTyped
    <3> QED BY <2>1, <3>1, ConnectSessions, ConnectConns DEF Att
  <2>2. CASE d # c
    BY <1>0, <2>2, ConnectConns, ConnectGrows, AttKept DEF TeInv, Attached
  <2> QED BY <2>1, <2>2
<1>3. Te!ShellIsHeld'
  <2>1. \A t \in Te!Sessions' : sess'[t].shell => reg' = t
    BY ConnectGrows, ConnectConns DEF Te!Sessions
  <2>2. Te!Current(c)' /\ conn'[c].s = reg'
    BY ConnectSessions, ConnectConns DEF Te!Current, Te!Serving
  <2> QED BY <2>1, <2>2 DEF Te!ShellIsHeld
<1> QED BY <1>1, <1>2, <1>3, ConnectGrows DEF TeInv, Attached

(***************************************************************************)
(* Terminal: the theorem                                                   *)
(***************************************************************************)
\* Nothing is known to be wrong before the first connection.
LEMMA TerminalInit ==
  ASSUME Te!Init
  PROVE  TeInv
<1>1. sess = <<>> /\ Len(sess) = 0 /\ reg = None /\ conn = [c \in Conns |-> Te!Off]
  BY DEF Te!Init
<1>2. Te!Off \in CRecs /\ Te!Off.pc = "off" /\ Te!Off.pump = "none"
  BY DEF Te!Off, CRecs, CPcs, Pumps
<1>3. TShape
  BY <1>1, <1>2 DEF TShape, Te!Sessions
<1>4. Attached
  BY <1>1, <1>2 DEF Attached, Att
<1> QED BY <1>1, <1>3, <1>4 DEF TeInv, Shut, Te!ShellIsHeld, Te!Sessions

\* What is known of the terminal survives every step of it.
LEMMA TerminalKept ==
  ASSUME TeInv, [Te!Next]_terminal
  PROVE  TeInv'
<1>1. CASE UNCHANGED terminal
  <2>1. UNCHANGED <<reg, sess, conn>>
    BY <1>1 DEF terminal
  <2> QED BY <2>1 DEF TeInv, TShape, Shut, Attached, Te!ShellIsHeld, Te!Sessions, Te!Current, Te!Serving
<1>2. ASSUME Te!Age PROVE TeInv'
  BY <1>2, AgeIsCalm, CalmKeeps
<1>3. ASSUME Te!Reap \/ Te!CloseAll PROVE TeInv'
  BY <1>3, ReapKeeps
<1>4. ASSUME NEW s \in Te!Sessions, Te!Output(s) \/ Te!Exit(s) \/ Te!Eof(s) PROVE TeInv'
  BY <1>4, ShellIsCalm, CalmKeeps
<1>5. ASSUME NEW c \in Conns, Te!Connect(c) PROVE TeInv'
  BY <1>5, ConnectKeeps
<1>6. ASSUME NEW c \in Conns, Te!Gone(c) \/ Te!Relay(c) \/ Te!Receive(c) \/ Te!Leave(c) PROVE TeInv'
  BY <1>6, ConnIsCalm, CalmKeeps
<1>7. ASSUME NEW c \in Conns, Te!Pump(c) PROVE TeInv'
  BY <1>7, PumpIsCalm, CalmKeeps
<1>8. ASSUME NEW c \in Conns, Te!Sent(c) PROVE TeInv'
  BY <1>8, SentIsCalm, CalmKeeps
<1>9. ASSUME NEW c \in Conns, Te!Finish(c) PROVE TeInv'
  BY <1>9, FinishKeeps
<1> QED BY <1>1, <1>2, <1>3, <1>4, <1>5, <1>6, <1>7, <1>8, <1>9 DEF Te!Next, Te!Serve

\* It says what the run checks.
LEMMA TerminalIsTyped ==
  ASSUME TeInv
  PROVE  Te!TypeOK /\ Te!ShellIsHeld
<1>1. ASSUME NEW s \in Te!Sessions
      PROVE  /\ sess[s].total \in 0..MaxOut /\ sess[s].left \in {"no", "lately", "long"}
             /\ sess[s].closed => ~sess[s].shell /\ ~sess[s].reader
  <2>1. sess[s] \in SRecs
    BY SessionIsRecord DEF TeInv, TShape
  <2> QED BY <2>1 DEF SRecs, TeInv, Shut, Te!Sessions
<1>2. ASSUME NEW c \in Conns, Te!Serving(c)
      PROVE  /\ conn[c].s \in Te!Sessions /\ conn[c].epoch <= sess[conn[c].s].epoch
             /\ conn[c].cursor <= sess[conn[c].s].total
  BY <1>2, InService
<1> QED BY <1>1, <1>2 DEF Te!TypeOK, TeInv, TShape

\* For any connections, scrollback and outputs: one shell per key, which the registry
\* holds, and a session nobody is attached to is marked as left; a takeover, a
\* departure, the end of the shell, the reaper and the end of the daemon included.
THEOREM ShellIsHeldHolds == DaemonSpec => []ShellIsHeld
<1>1. DaemonInit => TeInv
  BY TerminalInit DEF DaemonInit
<1>2. TeInv /\ [DaemonNext]_vars => TeInv'
  BY TerminalKept, DaemonMoves
<1>3. TeInv => ShellIsHeld
  BY TerminalIsTyped DEF ShellIsHeld
<1> QED BY <1>1, <1>2, <1>3, PTL DEF DaemonSpec

(***************************************************************************)
(* Mirror: the daemon's machine is the one of MirrorProofs                 *)
(***************************************************************************)
MP == INSTANCE MirrorProofs

\* The two instances of Mirror have the same steps and say the same.
LEMMA SameMirror ==
  /\ Mi!Init => MP!Init
  /\ [Mi!Next]_mirror => [MP!Next]_(MP!vars)
  /\ MP!NothingIsDropped => Mi!NothingIsDropped
  /\ MP!SyncConverges => Mi!SyncConverges
<1>1. Mi!Init => MP!Init
  BY DEF Mi!Init, MP!Init, Mi!Idle, MP!Idle, Mi!Rest, MP!Rest, Mi!NoTest, MP!NoTest,
         Mi!Branches, MP!Branches
<1>2. [Mi!Next]_mirror => [MP!Next]_(MP!vars)
  <2>1. Mi!Branches = MP!Branches
    BY DEF Mi!Branches, MP!Branches
  <2>2. Mi!NoTest = MP!NoTest /\ Mi!Idle = MP!Idle /\ Mi!Rest = MP!Rest /\ Mi!Stirred = MP!Stirred
    BY <2>1 DEF Mi!NoTest, MP!NoTest, Mi!Idle, MP!Idle, Mi!Rest, MP!Rest, Mi!Stirred, MP!Stirred
  <2>3. Mi!Fetched = MP!Fetched /\ Mi!Accepted = MP!Accepted /\ Mi!Goto = MP!Goto
    BY <2>1 DEF Mi!Fetched, MP!Fetched, Mi!Accepted, MP!Accepted, Mi!Goto, MP!Goto
  <2>4. \A b : /\ Mi!Skip(b) <=> MP!Skip(b)
               /\ Mi!Did(b) <=> MP!Did(b)
               /\ Mi!Asks(b) <=> MP!Asks(b)
               /\ Mi!Ahead(b) <=> MP!Ahead(b)
    BY <2>2, <2>3 DEF Mi!Skip, MP!Skip, Mi!Did, MP!Did, Mi!Asks, MP!Asks, Mi!Ahead, MP!Ahead
  <2>5. /\ Mi!Stray => MP!Stray
        /\ Mi!LandTest => MP!LandTest
        /\ Mi!Report => MP!Report
    BY <2>2 DEF Mi!Stray, MP!Stray, Mi!LandTest, MP!LandTest, Mi!Report, MP!Report
  <2>6. /\ Mi!LandMove => MP!LandMove
        /\ Mi!FollowTest => MP!FollowTest
        /\ Mi!FollowMove => MP!FollowMove
    BY <2>2 DEF Mi!LandMove, MP!LandMove, Mi!FollowTest, MP!FollowTest,
                Mi!FollowMove, MP!FollowMove
  <2>7. /\ Mi!Writeback => MP!Writeback
        /\ Mi!Look => MP!Look
    BY <2>1, <2>2, <2>3 DEF Mi!Writeback, MP!Writeback, Mi!Look, MP!Look
  <2>8. Mi!Compare => MP!Compare
    BY <2>1, <2>2, <2>3 DEF Mi!Compare, MP!Compare, Mi!State, MP!State
  <2>9. \A b : /\ Mi!Upstream(b) => MP!Upstream(b)
               /\ Mi!Keep(b) => MP!Keep(b)
               /\ Mi!AskAncestor(b) => MP!AskAncestor(b)
               /\ Mi!FastForward(b) => MP!FastForward(b)
               /\ Mi!Push(b) => MP!Push(b)
    <3>1. ASSUME NEW b PROVE Mi!Upstream(b) => MP!Upstream(b)
      BY <2>1, <2>2 DEF Mi!Upstream, MP!Upstream
    <3>2. ASSUME NEW b PROVE (Mi!Keep(b) => MP!Keep(b)) /\ (Mi!Push(b) => MP!Push(b))
      BY <2>4 DEF Mi!Keep, MP!Keep, Mi!Push, MP!Push
    <3>3. ASSUME NEW b PROVE /\ Mi!AskAncestor(b) => MP!AskAncestor(b)
                             /\ Mi!FastForward(b) => MP!FastForward(b)
      BY <2>2, <2>4 DEF Mi!AskAncestor, MP!AskAncestor, Mi!FastForward, MP!FastForward
    <3> QED BY <3>1, <3>2, <3>3
  <2>10. Mi!Next => MP!Next
    BY <2>1, <2>5, <2>6, <2>7, <2>8, <2>9 DEF Mi!Next, MP!Next
  <2>11. UNCHANGED mirror => UNCHANGED MP!vars
    BY DEF mirror, MP!vars
  <2> QED BY <2>10, <2>11
<1>3. MP!NothingIsDropped => Mi!NothingIsDropped
  <2>1. Mi!Branches = MP!Branches /\ \A b : MP!Crossed(b) <=> Mi!Crossed(b)
    BY DEF Mi!Branches, MP!Branches, MP!Crossed, Mi!Crossed
  <2> QED BY <2>1 DEF MP!NothingIsDropped, Mi!NothingIsDropped
<1>4. MP!SyncConverges => Mi!SyncConverges
  BY DEF MP!SyncConverges, Mi!SyncConverges
<1> QED BY <1>1, <1>2, <1>3, <1>4

\* For any number of commits and synchronisations, beside whatever else the daemon
\* does, and with the test and the move of merge_ff two steps: the remote loses no
\* commit, an upstream is never written, what was found diverged is not moved, a local
\* branch loses a commit only where two movers of it cross, dev then keeping what it
\* held at the test, and what a synchronisation acted on while nobody else moved is
\* equal on both sides.
THEOREM SyncIsSoundHolds == DaemonSpec => SyncIsSound
<1>1. DaemonInit => MP!MirrorInv
  BY SameMirror, MP!MirrorInvInit DEF DaemonInit
<1>2. MP!MirrorInv /\ [DaemonNext]_vars => MP!MirrorInv'
  BY SameMirror, DaemonMoves, MP!MirrorInvKept
<1>3. MP!MirrorInv /\ MP!MirrorInv' /\ [DaemonNext]_vars
        => (part = "mirror" => Mi!NothingIsDropped /\ Mi!SyncConverges')
  <2>1. MP!MirrorInv' => Mi!SyncConverges'
    BY SameMirror, MP!MirrorConverges, PTL
  <2> QED BY <2>1, SameMirror, DaemonMoves, MP!StepDropsNothing
<1> QED BY <1>1, <1>2, <1>3, PTL DEF DaemonSpec, SyncIsSound

(***************************************************************************)
(* Channel: what its steps rely on                                         *)
(***************************************************************************)
\* What a state, a row and a user carry.
Numbers == 0..Cardinality(Editions)
Refs == [pc : {"idle", "fetch", "fill", "replace", "note"}, out : Ch!States]
Props == [sha : Numbers, state : Ch!Choices \cup {"absent", "proposed"}]
Users == [pc : {"idle", "shown", "checked"}, version : Ch!Versions, sha : Numbers,
          said : [Ch!Versions -> Numbers]]

\* Where everything is.
ChShape ==
  /\ rounds \in 0..MaxRounds /\ head \in Editions /\ build \in 1..head
  /\ cache \in Ch!States /\ tmp \in Ch!States
  /\ ref \in [Refreshers -> Refs] /\ rows \in [Ch!Versions -> Props] /\ user \in Users

\* A success that is remembered was published, and an attempt that succeeded has one.
Known(s) == s.success \in 0..head /\ (s.attempt = "ok" => s.success # 0)
Remembered == Known(cache) /\ Known(tmp) /\ \A r \in Refreshers : Known(ref[r].out)

\* An answer is about the bytes of its row.
Answered == \A v \in Ch!Versions : rows[v].state \in Ch!Choices => user.said[v] = rows[v].sha

\* A decision that was checked is about the bytes that are there.
CheckedIsCurrent == user.pc = "checked" => rows[user.version].sha = user.sha

ChInv == ChShape /\ Remembered /\ Answered /\ CheckedIsCurrent

\* The instance counts as the library does.
LEMMA SameCount == Ch!Cardinality(Editions) = Cardinality(Editions)
BY DEF Ch!Cardinality, Cardinality

\* The bounds of a channel.
LEMMA ChannelBounds ==
  /\ Tours \subseteq Refreshers /\ Editions = 1..Cardinality(Editions) /\ Cardinality(Editions) \in Nat
  /\ Keys \cap Foreign = {} /\ Trust \in [Editions -> SUBSET Keys] /\ MaxRounds \in Nat
<1>1. Ch!ChannelAssumption
  BY Assumptions
<1>2. Cardinality(Editions) \in Nat
  <2>1. \A a, b \in Int : IsFiniteSet(a..b)
    BY FS_Interval
  <2>2. 1 \in Int /\ 3 \in Int
    OBVIOUS
  <2>3. IsFiniteSet(1..3)
    BY <2>1, <2>2, Zenon
  <2> QED BY <2>3, FS_CardinalityType DEF Editions
<1>3. Trust \in [Editions -> SUBSET Keys]
  BY <1>1 DEF Ch!ChannelAssumption
<1>4. Tours \subseteq Refreshers /\ Editions = 1..Cardinality(Editions)
  BY <1>1, SameCount DEF Ch!ChannelAssumption
<1>5. Keys \cap Foreign = {} /\ MaxRounds \in Nat
  BY <1>1 DEF Ch!ChannelAssumption
<1> QED BY <1>2, <1>3, <1>4, <1>5

\* Editions are numbers, and each has a version.
LEMMA EditionsAreNumbers ==
  /\ Editions \subseteq Numbers /\ Numbers \subseteq Nat /\ 0 \in Numbers /\ 0 \notin Editions
  /\ \A e \in Editions : 0..e \subseteq Numbers /\ 1..e \subseteq Editions /\ Version[e] \in Ch!Versions
BY ChannelBounds DEF Numbers, Ch!Versions

\* The states a refresher starts from.
LEMMA StatesOf ==
  /\ Ch!NoState \in Ch!States /\ Ch!NoRow \in Props
  /\ Ch!Idle \in Refs /\ Ch!Idle.pc = "idle" /\ Ch!Idle.out = Ch!NoState
  /\ Ch!NoState.success = 0 /\ Ch!NoState.attempt = "never"
<1>1. Ch!NoState \in Ch!States /\ Ch!NoState.success = 0 /\ Ch!NoState.attempt = "never"
  BY EditionsAreNumbers, SameCount DEF Ch!NoState, Ch!States, Numbers
<1>2. Ch!NoRow \in Props
  BY EditionsAreNumbers DEF Ch!NoRow, Props
<1>3. Ch!Idle \in Refs /\ Ch!Idle.pc = "idle" /\ Ch!Idle.out = Ch!NoState
  BY <1>1 DEF Ch!Idle, Refs
<1> QED BY <1>1, <1>2, <1>3

\* What a refresher fetched is known: nobody signs what was not published.
LEMMA FetchedIsKnown ==
  ASSUME ChInv, NEW r \in Refreshers, NEW got,
         got \in {Ch!Fetched(r, a, 0) : a \in {"unreachable", "malformed"}}
                   \cup {Ch!Fetched(r, Ch!Outcome(e, Ch!Trusted), e.ann) : e \in Ch!Served}
  PROVE  got \in Ch!States /\ Known(got)
<1>0. /\ ref[r].out \in Ch!States /\ Known(ref[r].out) /\ head \in Editions /\ build \in Editions
      /\ Ch!Trusted \subseteq Keys
  BY ChannelBounds, EditionsAreNumbers DEF ChInv, ChShape, Remembered, Refs, Ch!Trusted
<1>1. CASE \E a \in {"unreachable", "malformed"} : got = Ch!Fetched(r, a, 0)
  BY <1>0, <1>1 DEF Ch!Fetched, Ch!States, Known
<1>2. CASE \E e \in Ch!Served : got = Ch!Fetched(r, Ch!Outcome(e, Ch!Trusted), e.ann)
  <2>1. PICK e \in Ch!Served : got = Ch!Fetched(r, Ch!Outcome(e, Ch!Trusted), e.ann)
    BY <1>2
  <2>2. /\ e.ann \in 0..head /\ e.sigs \subseteq ((Keys \cup Foreign) \X BOOLEAN)
        /\ e.ann = 0 => \A k \in Keys : <<k, TRUE>> \notin e.sigs
    BY <2>1 DEF Ch!Served, Ch!Envelopes
  <2>3. e.ann \in Numbers
    BY <1>0, <2>2, EditionsAreNumbers
  <2>4. CASE Ch!Verified(e, Ch!Trusted)
    <3>1. PICK s \in e.sigs : s[1] \in Ch!Trusted /\ s[2]
      BY <2>4 DEF Ch!Verified
    <3>2. s = <<s[1], TRUE>>
      <4>1. s \in (Keys \cup Foreign) \X BOOLEAN
        BY <2>2, <3>1
      <4>2. PICK k \in Keys \cup Foreign, ok \in BOOLEAN : s = <<k, ok>>
        BY <4>1
      <4> QED BY <3>1, <4>2
    <3>3. e.ann # 0
      BY <1>0, <2>2, <3>1, <3>2
    <3>4. Ch!Outcome(e, Ch!Trusted) = "ok"
      BY <2>4 DEF Ch!Outcome
    <3>5. got = [success |-> e.ann, attempt |-> "ok"]
      BY <2>1, <3>4 DEF Ch!Fetched
    <3>6. got.success = e.ann /\ got.attempt = "ok"
      BY <3>5
    <3>7. got \in Ch!States
      BY SameCount, <2>3, <3>5 DEF Ch!States, Numbers
    <3> QED BY <2>2, <3>3, <3>6, <3>7 DEF Known
  <2>5. CASE ~Ch!Verified(e, Ch!Trusted)
    <3>1. Ch!Outcome(e, Ch!Trusted) \in {"bad-signature", "unknown-key"}
      BY <2>5 DEF Ch!Outcome
    <3>2. /\ got = [success |-> ref[r].out.success, attempt |-> Ch!Outcome(e, Ch!Trusted)]
      BY <2>1, <3>1 DEF Ch!Fetched
    <3> QED BY <1>0, <3>1, <3>2 DEF Ch!States, Known
  <2> QED BY <2>4, <2>5
<1> QED BY <1>1, <1>2

(***************************************************************************)
(* Channel: what each step writes                                          *)
(***************************************************************************)
\* A step of a refresher writes one place of ref, and the file only what it knew.
RefMoves(r) ==
  /\ UNCHANGED <<head, build, user>>
  /\ ref' \in [Refreshers -> Refs] /\ \A q \in Refreshers : q # r => ref'[q] = ref[q]
  /\ cache' \in Ch!States /\ Known(cache') /\ tmp' \in Ch!States /\ Known(tmp')
  /\ Known(ref'[r].out)
  /\ rounds' \in 0..MaxRounds

\* The goings and the returns of a refresher.
LEMMA RefGoes ==
  ASSUME ChInv, NEW r \in Refreshers, NEW n \in Refs, ref' = [ref EXCEPT ![r] = n]
  PROVE  ref' \in [Refreshers -> Refs] /\ ref'[r] = n /\ \A q \in Refreshers : q # r => ref'[q] = ref[q]
BY DEF ChInv, ChShape

\* A place to go to, with what was known.
LEMMA PlaceIsRef ==
  ASSUME ChInv, NEW r \in Refreshers
  PROVE  /\ \A p \in {"idle", "fetch", "fill", "replace", "note"} :
              [ref[r] EXCEPT !.pc = p] \in Refs /\ [ref[r] EXCEPT !.pc = p].out = ref[r].out
         /\ ref[r] \in Refs /\ ref[r].out \in Ch!States /\ Known(ref[r].out)
         /\ Known(cache) /\ cache \in Ch!States /\ Known(tmp) /\ tmp \in Ch!States
         /\ Known(Ch!NoState) /\ rounds \in 0..MaxRounds
<1>1. Known(Ch!NoState)
  BY StatesOf, EditionsAreNumbers DEF Known, ChInv, ChShape
<1> QED BY <1>1 DEF ChInv, ChShape, Remembered, Refs

\* A return is to a note, or to rest.
LEMMA ReturnMoves ==
  ASSUME ChInv, NEW r \in Refreshers, Ch!Return(r)
  PROVE  /\ ref' \in [Refreshers -> Refs] /\ Known(ref'[r].out)
         /\ \A q \in Refreshers : q # r => ref'[q] = ref[q]
<1> DEFINE n == IF r \in Tours THEN [ref[r] EXCEPT !.pc = "note"] ELSE Ch!Idle
<1>1. n \in Refs /\ Known(n.out)
  BY PlaceIsRef, StatesOf
<1>2. ref' = [ref EXCEPT ![r] = n]
  BY DEF Ch!Return
<1> HIDE DEF n
<1> QED BY <1>1, <1>2, RefGoes

\* Each step of a refresher but the note.
LEMMA RoundMoves ==
  ASSUME ChInv, NEW r \in Refreshers, Ch!Begin(r) \/ Ch!Fetch(r) \/ Ch!Fill(r) \/ Ch!Replace(r)
  PROVE  RefMoves(r) /\ rows' = rows
<1>1. CASE Ch!Begin(r)
  <2> DEFINE blind == Ch!Trusted = {}
             n == [pc |-> IF blind THEN "fill" ELSE "fetch",
                   out |-> [success |-> cache.success,
                            attempt |-> IF blind THEN "no-trust-root" ELSE "never"]]
  <2>1. n \in Refs /\ Known(n.out)
    BY PlaceIsRef DEF Refs, Ch!States, Known
  <2>2. ref' = [ref EXCEPT ![r] = n]
    BY <1>1 DEF Ch!Begin
  <2> HIDE DEF n
  <2>3. rounds' \in 0..MaxRounds
    BY <1>1, ChannelBounds DEF Ch!Begin, ChInv, ChShape
  <2>4. UNCHANGED <<head, build, cache, tmp, rows, user>>
    BY <1>1 DEF Ch!Begin
  <2> QED BY <2>1, <2>2, <2>3, <2>4, RefGoes, PlaceIsRef DEF RefMoves
<1>2. CASE Ch!Fetch(r)
  <2>1. PICK got \in {Ch!Fetched(r, a, 0) : a \in {"unreachable", "malformed"}}
                       \cup {Ch!Fetched(r, Ch!Outcome(e, Ch!Trusted), e.ann) : e \in Ch!Served} :
          ref' = [ref EXCEPT ![r].pc = "fill", ![r].out = got]
    BY <1>2 DEF Ch!Fetch
  <2>2. got \in Ch!States /\ Known(got)
    BY <2>1, FetchedIsKnown
  <2> DEFINE n == [ref[r] EXCEPT !.pc = "fill", !.out = got]
  <2>3. n \in Refs /\ n.out = got
    BY <2>2, PlaceIsRef DEF Refs
  <2>4. ref' = [ref EXCEPT ![r] = n]
    BY <2>1
  <2> HIDE DEF n
  <2>5. UNCHANGED <<head, build, cache, tmp, rows, user, rounds>>
    BY <1>2 DEF Ch!Fetch
  <2> QED BY <2>2, <2>3, <2>4, <2>5, RefGoes, PlaceIsRef DEF RefMoves
<1>3. CASE Ch!Fill(r)
  <2>1. UNCHANGED <<head, build, cache, rows, user, rounds>>
    BY <1>3 DEF Ch!Fill
  <2>2. CASE tmp' = ref[r].out /\ Ch!Goto(r, "replace")
    <3>1. ref' = [ref EXCEPT ![r] = [ref[r] EXCEPT !.pc = "replace"]]
      BY <2>2 DEF Ch!Goto
    <3> QED BY <2>1, <2>2, <3>1, RefGoes, PlaceIsRef DEF RefMoves
  <2>3. CASE Ch!Return(r) /\ UNCHANGED tmp
    BY <2>1, <2>3, ReturnMoves, PlaceIsRef DEF RefMoves
  <2> QED BY <1>3, <2>2, <2>3 DEF Ch!Fill
<1>4. CASE Ch!Replace(r)
  <2>1. /\ UNCHANGED <<head, build, rows, user, rounds>> /\ Ch!Return(r)
        /\ cache' \in {cache, tmp} /\ tmp' \in {tmp, Ch!NoState}
    BY <1>4 DEF Ch!Replace
  <2> QED BY <2>1, ReturnMoves, PlaceIsRef, StatesOf DEF RefMoves
<1> QED BY <1>1, <1>2, <1>3, <1>4

\* What a refresher that moves leaves known.
LEMMA RefMovesKeeps ==
  ASSUME ChInv, NEW r \in Refreshers, RefMoves(r)
  PROVE  /\ Remembered' /\ ref' \in [Refreshers -> Refs]
         /\ rounds' \in 0..MaxRounds /\ cache' \in Ch!States /\ tmp' \in Ch!States
<1>1. \A q \in Refreshers : Known(ref[q].out)
  BY DEF ChInv, Remembered
<1> QED BY <1>1 DEF RefMoves, Remembered, Known

\* A note opens the question of the bytes it proposes, which descend from the
\* edition that runs, and never during a decision that was checked.
LEMMA NoteKeeps ==
  ASSUME ChInv, Overlap = FALSE, NEW r \in Refreshers, Ch!Note(r)
  PROVE  ChInv' /\ Ch!OffersGoForward
<1> DEFINE ann == ref[r].out.success
<1>0. /\ UNCHANGED <<head, build, cache, tmp, user, rounds>> /\ ref' = [ref EXCEPT ![r] = Ch!Idle]
      /\ head \in Editions /\ ref[r].out \in Ch!States /\ Known(Ch!NoState)
  BY PlaceIsRef DEF Ch!Note, ChInv, ChShape
<1>1. ref' \in [Refreshers -> Refs] /\ ref'[r] = Ch!Idle /\ \A q \in Refreshers : q # r => ref'[q] = ref[q]
  BY <1>0, RefGoes, StatesOf
<1>2. Remembered'
  BY <1>0, <1>1, StatesOf DEF ChInv, Remembered, Known
<1>3. CASE rows' = rows
  <2>1. ChInv'
    BY <1>0, <1>1, <1>2, <1>3 DEF ChInv, ChShape, Answered, CheckedIsCurrent
  <2> QED BY <1>3, <2>1 DEF Ch!OffersGoForward
<1>4. CASE /\ ann \in Editions /\ Ch!Verdict(ref[r].out, build) = "available"
           /\ Overlap \/ ~Ch!Deciding(Version[ann])
           /\ rows' = [rows EXCEPT ![Version[ann]] = Ch!Recorded(@, ann)]
  <2> DEFINE v == Version[ann]
             row == Ch!Recorded(rows[v], ann)
  <2>1. v \in Ch!Versions /\ ann \in Numbers /\ rows \in [Ch!Versions -> Props] /\ rows[v] \in Props
    BY <1>4, EditionsAreNumbers DEF ChInv, ChShape
  <2>2. row \in Props /\ (row = rows[v] \/ (row.sha = ann /\ row.state = "proposed"))
    BY <2>1 DEF Ch!Recorded, Props
  <2>3. rows' = [rows EXCEPT ![v] = row]
    BY <1>4
  <2> HIDE DEF row
  <2>4. rows' \in [Ch!Versions -> Props] /\ rows'[v] = row /\ \A w \in Ch!Versions : w # v => rows'[w] = rows[w]
    BY <2>1, <2>2, <2>3
  <2> HIDE DEF v
  <2>5. ChShape'
    BY <1>0, <1>1, <2>4 DEF ChInv, ChShape
  <2>6. Answered'
    <3>1. ASSUME NEW w \in Ch!Versions, rows'[w].state \in Ch!Choices PROVE rows'[w] = rows[w]
      BY <2>2, <2>4, <3>1 DEF Ch!Choices
    <3> QED BY <1>0, <3>1 DEF ChInv, Answered
  <2>7. CheckedIsCurrent'
    <3>1. SUFFICES ASSUME user.pc = "checked" PROVE rows'[user.version].sha = user.sha
      BY <1>0 DEF CheckedIsCurrent
    <3>2. user.version # v /\ user.version \in Ch!Versions
      BY <1>4, <3>1 DEF Ch!Deciding, v, ChInv, ChShape, Users
    <3> QED BY <2>4, <3>1, <3>2 DEF ChInv, CheckedIsCurrent
  <2>8. build \in Ch!Lineage(ann)
    <3>1. Ch!Situate(ann, build) = "available"
      BY <1>4 DEF Ch!Verdict
    <3> QED BY <3>1 DEF Ch!Situate
  <2>9. Ch!OffersGoForward
    BY <2>2, <2>4, <2>8 DEF Ch!OffersGoForward
  <2> QED BY <1>2, <2>5, <2>6, <2>7, <2>9 DEF ChInv
<1> QED BY <1>3, <1>4 DEF Ch!Note

\* What the user does keeps what is known.
LEMMA UserKeeps ==
  ASSUME ChInv, Ch!Check \/ Ch!Decide \/ \E v \in Ch!Versions : Ch!Look(v) \/ Ch!Revoke(v)
  PROVE  ChInv' /\ \A v \in Ch!Versions : rows'[v].sha = rows[v].sha
<1>0. /\ UNCHANGED <<head, build, cache, tmp, ref, rounds>> /\ user \in Users /\ rows \in [Ch!Versions -> Props]
  BY DEF Ch!Check, Ch!Decide, Ch!Look, Ch!Revoke, ChInv, ChShape
<1>1. Remembered'
  BY <1>0 DEF ChInv, Remembered, Known
<1>2. CASE \E v \in Ch!Versions : Ch!Look(v)
  <2>1. PICK v \in Ch!Versions : Ch!Look(v)
    BY <1>2
  <2> DEFINE n == [user EXCEPT !.pc = "shown", !.version = v, !.sha = rows[v].sha]
  <2>2. user' = n /\ rows' = rows
    BY <2>1 DEF Ch!Look
  <2>3. rows[v].sha \in Numbers
    BY <1>0 DEF Props
  <2>4. n \in Users /\ n.pc = "shown" /\ n.said = user.said
    BY <1>0, <2>3 DEF Users
  <2> HIDE DEF n
  <2> QED BY <1>0, <1>1, <2>2, <2>4 DEF ChInv, ChShape, Answered, CheckedIsCurrent
<1>3. CASE Ch!Check
  <2> DEFINE p == IF rows[user.version].sha = user.sha THEN "checked" ELSE "idle"
             n == [user EXCEPT !.pc = p]
  <2>1. user' = n /\ rows' = rows
    BY <1>3 DEF Ch!Check
  <2>2. p \in {"checked", "idle"} /\ (p = "checked" => rows[user.version].sha = user.sha)
    OBVIOUS
  <2> HIDE DEF p
  <2>3. n \in Users /\ n.pc = p /\ n.said = user.said /\ n.version = user.version /\ n.sha = user.sha
    BY <1>0, <2>2 DEF Users
  <2> HIDE DEF n
  <2> QED BY <1>0, <1>1, <2>1, <2>2, <2>3 DEF ChInv, ChShape, Answered, CheckedIsCurrent
<1>4. CASE Ch!Decide
  <2> DEFINE v == user.version
  <2>1. PICK c \in Ch!Choices : rows' = [rows EXCEPT ![v].state = c]
    BY <1>4 DEF Ch!Decide
  <2> DEFINE said == [user.said EXCEPT ![v] = user.sha]
             n == [user EXCEPT !.pc = "idle", !.said = said]
             row == [rows[v] EXCEPT !.state = c]
  <2>2. user' = n /\ rows' = [rows EXCEPT ![v] = row] /\ rows[v].sha = user.sha
    BY <1>4, <2>1 DEF Ch!Decide, ChInv, CheckedIsCurrent
  <2>3. v \in Ch!Versions /\ rows[v] \in Props /\ said \in [Ch!Versions -> Numbers]
    BY <1>0 DEF Users
  <2>4. said[v] = user.sha /\ \A w \in Ch!Versions : w # v => said[w] = user.said[w]
    BY <1>0, <2>3 DEF Users
  <2>5. row \in Props /\ row.sha = rows[v].sha
    BY <2>3 DEF Props, Ch!Choices
  <2> HIDE DEF said, row
  <2>6. n \in Users /\ n.pc = "idle" /\ n.said = said
    BY <1>0, <2>3 DEF Users
  <2> HIDE DEF n
  <2>7. rows' \in [Ch!Versions -> Props] /\ rows'[v] = row /\ \A w \in Ch!Versions : w # v => rows'[w] = rows[w]
    BY <1>0, <2>2, <2>3, <2>5
  <2>8. Answered'
    BY <2>2, <2>4, <2>5, <2>6, <2>7 DEF ChInv, Answered
  <2> QED BY <1>0, <1>1, <2>2, <2>5, <2>6, <2>7, <2>8 DEF ChInv, ChShape, CheckedIsCurrent
<1>5. CASE \E v \in Ch!Versions : Ch!Revoke(v)
  <2>1. PICK v \in Ch!Versions : Ch!Revoke(v)
    BY <1>5
  <2> DEFINE row == [rows[v] EXCEPT !.state = "proposed"]
  <2>2. user' = user /\ rows' = [rows EXCEPT ![v] = row] /\ rows[v] \in Props
    BY <1>0, <2>1 DEF Ch!Revoke
  <2>3. row \in Props /\ row.sha = rows[v].sha /\ row.state = "proposed"
    BY <2>2 DEF Props
  <2> HIDE DEF row
  <2>4. rows' \in [Ch!Versions -> Props] /\ rows'[v] = row /\ \A w \in Ch!Versions : w # v => rows'[w] = rows[w]
    BY <1>0, <2>2, <2>3
  <2>5. Answered'
    BY <2>2, <2>3, <2>4 DEF ChInv, Answered, Ch!Choices
  <2>6. \A w \in Ch!Versions : rows'[w].sha = rows[w].sha
    BY <2>3, <2>4
  <2>7. CheckedIsCurrent'
    BY <1>0, <2>2, <2>6 DEF ChInv, CheckedIsCurrent, Users
  <2> QED BY <1>0, <1>1, <2>2, <2>4, <2>5, <2>6, <2>7 DEF ChInv, ChShape
<1> QED BY <1>2, <1>3, <1>4, <1>5

\* So does what happens around the channel.
LEMMA AroundKeeps ==
  ASSUME ChInv, Ch!Publish \/ Ch!Install
  PROVE  ChInv' /\ rows' = rows
<1>0. UNCHANGED <<cache, tmp, rows, user, rounds>> /\ head \in Editions /\ head \in Nat
  BY EditionsAreNumbers DEF Ch!Publish, Ch!Install, ChInv, ChShape
<1>1. CASE Ch!Publish
  <2>1. head' = head + 1 /\ head' \in Editions /\ UNCHANGED <<build, ref>>
    BY <1>1 DEF Ch!Publish
  <2>2. 0..head \subseteq 0..head' /\ 1..head \subseteq 1..head'
    BY <1>0, <2>1
  <2>3. Remembered'
    BY <1>0, <2>1, <2>2 DEF ChInv, Remembered, Known
  <2> QED BY <1>0, <2>1, <2>2, <2>3 DEF ChInv, ChShape, Answered, CheckedIsCurrent
<1>2. CASE Ch!Install
  <2>1. build' \in 1..head /\ head' = head /\ ref' = [r \in Refreshers |-> Ch!Idle]
    BY <1>2 DEF Ch!Install
  <2>2. Known(Ch!NoState)
    BY <1>0, StatesOf DEF Known
  <2>3. Remembered'
    BY <1>0, <2>1, <2>2, StatesOf DEF ChInv, Remembered, Known
  <2> QED BY <1>0, <2>1, <2>3, StatesOf DEF ChInv, ChShape, Answered, CheckedIsCurrent
<1> QED BY <1>1, <1>2

(***************************************************************************)
(* Channel: the theorem                                                    *)
(***************************************************************************)
\* Before the first round nothing is known.
LEMMA ChannelInit ==
  ASSUME Ch!Init
  PROVE  ChInv
<1>1. 1 \in Editions /\ 1 \in 1..1 /\ Version[1] \in Ch!Versions /\ 0 \in Numbers /\ 0 \in 0..1
  BY EditionsAreNumbers DEF Editions
<1>2. user \in Users /\ user.pc = "idle"
  BY <1>1 DEF Ch!Init, Users
<1>3. ChShape
  BY <1>1, <1>2, StatesOf, ChannelBounds DEF Ch!Init, ChShape
<1>4. Remembered
  BY <1>1, StatesOf DEF Ch!Init, Remembered, Known
<1>5. Answered
  BY <1>1 DEF Ch!Init, Answered, Ch!Choices, Ch!NoRow
<1> QED BY <1>2, <1>3, <1>4, <1>5 DEF ChInv, CheckedIsCurrent

\* Every step keeps it, and proposes what descends from the edition that runs.
LEMMA ChannelKept ==
  ASSUME ChInv, Overlap = FALSE, [Ch!Next]_channel
  PROVE  ChInv' /\ Ch!OffersGoForward
<1> DEFINE Goal == ChInv' /\ Ch!OffersGoForward
<1>0. ASSUME \A v \in Ch!Versions : rows'[v].sha = rows[v].sha PROVE Ch!OffersGoForward
  BY <1>0 DEF Ch!OffersGoForward
<1>1. ASSUME UNCHANGED channel PROVE Goal
  <2>1. UNCHANGED <<head, build, cache, tmp, ref, rows, user, rounds>>
    BY <1>1 DEF channel
  <2> QED BY <1>0, <2>1 DEF ChInv, ChShape, Remembered, Known, Answered, CheckedIsCurrent
<1>2. ASSUME Ch!Publish \/ Ch!Install PROVE Goal
  BY <1>0, <1>2, AroundKeeps
<1>3. ASSUME Ch!Check \/ Ch!Decide \/ \E v \in Ch!Versions : Ch!Look(v) \/ Ch!Revoke(v) PROVE Goal
  BY <1>0, <1>3, UserKeeps
<1>4. ASSUME NEW r \in Refreshers, Ch!Note(r) PROVE Goal
  BY <1>4, NoteKeeps
<1>5. ASSUME NEW r \in Refreshers, Ch!Begin(r) \/ Ch!Fetch(r) \/ Ch!Fill(r) \/ Ch!Replace(r) PROVE Goal
  <2>1. RefMoves(r) /\ rows' = rows
    BY <1>5, RoundMoves
  <2>2. UNCHANGED <<head, build, user, rows>>
    BY <2>1 DEF RefMoves
  <2>3. ChInv'
    BY <2>1, <2>2, RefMovesKeeps DEF ChInv, ChShape, Answered, CheckedIsCurrent
  <2> QED BY <1>0, <2>2, <2>3
<1> HIDE DEF Goal
<1>6. Goal
  BY <1>1, <1>2, <1>3, <1>4, <1>5 DEF Ch!Next
<1> QED BY <1>6 DEF Goal

\* It says what the run checks.
LEMMA ChannelSays ==
  ASSUME ChInv
  PROVE  Ch!TypeOK /\ Ch!ConsentIsInformed
<1>1. Ch!TypeOK
  <2>1. \A r \in Refreshers : ref[r].out \in Ch!States
    BY DEF ChInv, ChShape, Refs
  <2>2. \A v \in Ch!Versions : rows[v].state \in Ch!Choices \cup {"absent", "proposed"}
    BY DEF ChInv, ChShape, Props
  <2> QED BY <2>1, <2>2 DEF ChInv, ChShape, Ch!TypeOK
<1>2. Ch!TrustIsSound
  BY DEF ChInv, Remembered, Known, Ch!TrustIsSound
<1> QED BY <1>1, <1>2 DEF ChInv, Answered, Ch!ConsentIsInformed

\* For any refreshers, keys, lineage window and trust, when no note falls between the
\* check of a decision and its update: what nobody signed is never remembered as a
\* success, an answer covers the bytes it was given for, and what is proposed
\* descends from the edition that runs.
THEOREM OffersAreHonestHolds ==
  ASSUME Overlap = FALSE
  PROVE  DaemonSpec => OffersAreHonest
<1>1. DaemonInit => ChInv
  BY ChannelInit DEF DaemonInit
<1>2. ChInv /\ [DaemonNext]_vars => ChInv' /\ Ch!OffersGoForward
  BY ChannelKept, DaemonMoves
<1>3. ChInv' => Ch!TypeOK' /\ Ch!ConsentIsInformed'
  BY ChannelSays, PTL
<1>4. ChInv /\ [DaemonNext]_vars
        => (part = "channel" => Ch!TypeOK' /\ Ch!ConsentIsInformed' /\ Ch!OffersGoForward)
  BY <1>2, <1>3
<1>5. ChInv /\ [DaemonNext]_vars => ChInv'
  BY <1>2
<1> QED BY <1>1, <1>4, <1>5, PTL DEF DaemonSpec, OffersAreHonest

(***************************************************************************)
(* Gate: the chain of authority, along every history of heads              *)
(***************************************************************************)

\* The gate is only asked about inputs evaluate_gate can compose.
THEOREM GateTypeCorrect == Spec => []TypeOK
<1>1. Init => TypeOK
  BY DEF Init, TypeOK
<1>2. TypeOK /\ [Next]_input => TypeOK'
  <2> SUFFICES ASSUME TypeOK, [Next]_input PROVE TypeOK'
    OBVIOUS
  <2> USE DEF TypeOK, Inputs, Verdicts
  <2>1. CASE NewHead
    BY ZenonT(60), <2>1 DEF NewHead, Aged
  <2>2. CASE Toolchain
    BY <2>2 DEF Toolchain
  <2>3. CASE Review
    BY <2>3 DEF Review
  <2>4. CASE Render
    BY <2>4 DEF Render
  <2>5. CASE Ask
    BY <2>5 DEF Ask
  <2>6. CASE UNCHANGED input
    BY <2>6
  <2> QED BY <2>1, <2>2, <2>3, <2>4, <2>5, <2>6 DEF Next
<1> QED BY <1>1, <1>2, PTL DEF Spec

\* Nothing blocks exactly when none of the five conditions does.
LEMMA GreenIsNoBlocker ==
  ASSUME NEW i \in Inputs
  PROVE  GateGreen(i) <=>
           /\ ~i.red0 /\ ~NativeBroken(i) /\ ~ReviewMissing(i)
           /\ ~(ReviewRed(i) /\ ~T1Overridden(i))
           /\ ~(Unrendered(i) /\ ~T15Overridden(i))
BY DEF GateGreen, Blockers

\* compose_merge_decision allows a merge exactly under the conditions it
\* documents, no override reaching the nets or the missing review.
THEOREM AllowIsAuthority == Spec => []AllowIsCumulative
<1>1. TypeOK => AllowIsCumulative
  <2> SUFFICES ASSUME TypeOK PROVE AllowIsCumulative
    OBVIOUS
  <2> USE DEF TypeOK, Inputs, Verdicts
  <2>1. GateGreen(input) <=>
           /\ ~input.red0 /\ ~NativeBroken(input) /\ ~ReviewMissing(input)
           /\ ~(ReviewRed(input) /\ ~T1Overridden(input))
           /\ ~(Unrendered(input) /\ ~T15Overridden(input))
    BY GreenIsNoBlocker
  <2> QED
    BY <2>1 DEF AllowIsCumulative, Allow, NativeBroken, ReviewMissing,
                ReviewRed, Unrendered, T1Overridden, T15Overridden
<1> QED BY <1>1, GateTypeCorrect, PTL

\* A new head that holds code stops the merge, whatever was allowed before and
\* whatever was overridden.
THEOREM NewHeadStops == Spec => NewHeadHolds
<1>1. TypeOK /\ TypeOK' /\ [Next]_input =>
        [NewHead /\ input'.code => ~Allow(input')]_input
  <2> SUFFICES ASSUME TypeOK, TypeOK', NewHead, input'.code
               PROVE  ~Allow(input')
    OBVIOUS
  <2> USE DEF TypeOK, Inputs, Verdicts
  <2>1. input'.t1 # "fresh"
    BY DEF NewHead, Aged
  <2>2. ~GateGreen(input')
    BY <2>1, GreenIsNoBlocker DEF ReviewMissing
  <2> QED BY <2>2 DEF Allow
<1> QED BY <1>1, GateTypeCorrect, PTL DEF Spec, NewHeadHolds

\* A pass is only offered for a red gate, and cures all it can cure.
THEOREM RefixIsForRed == Spec => []RefixCures
<1>1. TypeOK => RefixCures
  <2> SUFFICES ASSUME TypeOK, Refixable(input) PROVE RefixCures
    BY DEF RefixCures
  <2> USE DEF TypeOK, Inputs, Verdicts
  <2>1. ~GateGreen(input)
    BY GreenIsNoBlocker DEF Refixable
  <2> DEFINE cured == [input EXCEPT !.red0 = FALSE, !.native = "ok",
                                    !.red1 = FALSE]
  <2>2. ~cured.red0 /\ ~NativeBroken(cured) /\ ~ReviewRed(cured)
    BY DEF NativeBroken, ReviewRed
  <2>3. Blockers(cured) \subseteq {"t15", "t1missing"}
    BY <2>2 DEF Blockers
  <2> QED BY <2>1, <2>3 DEF RefixCures
<1> QED BY <1>1, GateTypeCorrect, PTL

\* The tier an alert names is the most fundamental one that blocks: tier0 exactly
\* for a net nobody lifts, none exactly for a green gate.
THEOREM TierNamed == Spec => []TierIsFundamental
<1>1. TypeOK => TierIsFundamental
  <2> SUFFICES ASSUME TypeOK PROVE TierIsFundamental
    OBVIOUS
  <2>1. Blockers(input) \cap {"tier0", "native"} # {} <=> input.red0 \/ NativeBroken(input)
    BY DEF Blockers
  <2> QED BY <2>1 DEF TierIsFundamental, GateGreen, BlockerTier
<1> QED BY <1>1, GateTypeCorrect, PTL
=============================================================================
