---------------------------- MODULE InstallProofs ----------------------------
(***************************************************************************)
(* What surrounds a project, for every value of the constants: its secrets *)
(* and the catalog, its birth, its scaffold and the tools beside it.       *)
(***************************************************************************)
EXTENDS Store, FiniteSetTheorems, TLAPS

(***************************************************************************)
(* Wiring: what was stored opens, and the two ends hold one secret         *)
(***************************************************************************)
Before == {"read", "key", "write key", "write"}

\* The steps before a secret is stored, and the shape of a process.
WireType == [pc : Before \cup {"idle", "pip", "secret", "check", "env", "server", "row"},
             op : Wi!Operations \cup {"none"}, secret : Nat, ref : Nat, shell : Nat, data : SUBSET (Nat \X Nat)]

\* Every reference handed out so far opens one secret, and one only.
Kept ==
  /\ stored \in 0..MaxStored /\ key \in {"absent", "empty", "set"} /\ blob \subseteq (1..stored) \X (1..stored)
  /\ \A n \in 1..stored : \E s \in 1..stored : <<n, s>> \in blob
  /\ \A n, s, t \in 1..stored : <<n, s>> \in blob /\ <<n, t>> \in blob => s = t
  /\ stored # 0 => key = "set"

\* What a process in the middle of an operation holds.
Holds(p, w) ==
  /\ w.op = "install" => p # "daemon"
  /\ w.secret \in 0..stored /\ w.ref \in 0..stored /\ w.shell \in 0..stored
  /\ w.pc \in {"pip", "secret"} => w.op = "install" /\ w.shell = env
  /\ w.pc = "check" => w.op = "wire ref"
  /\ w.pc \in Before \cup {"pip", "secret"} => stored < MaxStored
  /\ w.pc \in {"key", "write key", "write"} => w.data = blob
  /\ w.pc = "write key" => key = "empty"
  /\ w.pc = "write" => key = "set"
  /\ w.pc \in Before /\ w.op = "install" => w.secret = Wi!Resolve(env)
  /\ w.pc \in {"env", "server", "row"} => w.ref # 0
  /\ w.pc \in {"env", "server"} => w.secret = Wi!Resolve(w.ref)
  /\ w.pc = "env" /\ w.op = "install" /\ env # 0 => w.secret = Wi!Resolve(env)
  /\ w.pc = "server" => env = w.ref

\* Inductive: one process at a time, the two ends hold the secret the reference
\* opens but while a process that will write the other one is at work.
Wired ==
  /\ Kept
  /\ env \in 0..stored /\ live \in 0..stored /\ cred \in 0..stored
  /\ server \in [code : BOOLEAN, secret : Nat] /\ server.secret \in 0..stored
  /\ wired \in BOOLEAN /\ stale \in BOOLEAN
  /\ wproc \in [Wi!Procs -> WireType]
  /\ \A p, q \in Wi!Procs : wproc[p].pc # "idle" /\ wproc[q].pc # "idle" => p = q
  /\ \A p \in Wi!Procs : wproc[p].pc # "idle" => Holds(p, wproc[p])
  /\ server.secret # 0 /\ ~wired => Wi!Resolve(env) = server.secret
  /\ ~stale => live = 0 \/ Wi!Resolve(live) = Wi!Resolve(env)

\* A reference opens when it was handed out, and then for good.
LEMMA Resolves ==
  Kept => /\ Wi!Resolve(0) = 0
          /\ \A n \in 1..stored : Wi!Resolve(n) \in 1..stored /\ <<n, Wi!Resolve(n)>> \in blob
          /\ \A n \in Nat : n > stored => Wi!Resolve(n) = 0
<1> SUFFICES ASSUME Kept PROVE /\ Wi!Resolve(0) = 0
                               /\ \A n \in 1..stored : Wi!Resolve(n) \in 1..stored /\ <<n, Wi!Resolve(n)>> \in blob
                               /\ \A n \in Nat : n > stored => Wi!Resolve(n) = 0
  OBVIOUS
<1>1. ASSUME NEW n \in Nat, n \notin 1..stored PROVE Wi!Resolve(n) = 0
  <2>1. ~\E e \in blob : e[1] = n
    BY <1>1 DEF Kept
  <2> QED BY <2>1 DEF Wi!Resolve
<1>2. ASSUME NEW n \in 1..stored PROVE Wi!Resolve(n) \in 1..stored /\ <<n, Wi!Resolve(n)>> \in blob
  <2>1. PICK s \in 1..stored : <<n, s>> \in blob
    BY <1>2 DEF Kept
  <2> DEFINE e == CHOOSE e \in blob : e[1] = n
  <2>2. e \in blob /\ e[1] = n
    BY <2>1
  <2>3. key = "set"
    BY <1>2 DEF Kept
  <2>4. \E d \in blob : d[1] = n
    BY <2>1
  <2>5. Wi!Resolve(n) = e[2]
    BY <2>3, <2>4 DEF Wi!Resolve
  <2> HIDE DEF e
  <2>6. e = <<n, e[2]>> /\ e[2] \in 1..stored
    BY <2>2 DEF Kept
  <2> QED BY <2>2, <2>5, <2>6
<1>3. stored \in Nat
  BY DEF Kept
<1> QED BY <1>1, <1>2, <1>3

\* ... and after the step too.
LEMMA ResolvesNext ==
  Kept' => /\ Wi!Resolve(0)' = 0
           /\ \A n \in 1..stored' : Wi!Resolve(n)' \in 1..stored' /\ <<n, Wi!Resolve(n)'>> \in blob'
           /\ \A n \in Nat : n > stored' => Wi!Resolve(n)' = 0
<1> DEFINE R == /\ Wi!Resolve(0) = 0
                /\ \A n \in 1..stored : Wi!Resolve(n) \in 1..stored /\ <<n, Wi!Resolve(n)>> \in blob
                /\ \A n \in Nat : n > stored => Wi!Resolve(n) = 0
<1>1. Kept => R
  BY Resolves
<1>2. Kept' => R'
  BY <1>1, PTL
<1> QED BY <1>2

\* The same references after a step open the same secrets.
LEMMA StillResolves ==
  ASSUME Kept, Kept', blob \subseteq blob', stored <= stored'
  PROVE  \A n \in 0..stored : Wi!Resolve(n)' = Wi!Resolve(n)
<1>1. stored \in Nat /\ stored' \in Nat
  BY DEF Kept
<1>2. Wi!Resolve(0)' = Wi!Resolve(0)
  BY Resolves, ResolvesNext
<1>3. ASSUME NEW n \in 1..stored PROVE Wi!Resolve(n)' = Wi!Resolve(n)
  <2>1. Wi!Resolve(n) \in 1..stored /\ <<n, Wi!Resolve(n)>> \in blob
    BY Resolves
  <2>2. Wi!Resolve(n)' \in 1..stored' /\ <<n, Wi!Resolve(n)'>> \in blob'
    BY <1>1, ResolvesNext
  <2>3. n \in 1..stored' /\ Wi!Resolve(n) \in 1..stored' /\ <<n, Wi!Resolve(n)>> \in blob'
    BY <1>1, <2>1
  <2> QED BY <2>2, <2>3 DEF Kept
<1> QED BY <1>1, <1>2, <1>3

\* The invariant holds before anything is stored.
LEMMA WiredInit == Wi!Init => Wired
<1> SUFFICES ASSUME Wi!Init PROVE Wired
  OBVIOUS
<1>1. MaxStored \in Nat
  BY StoreAssumption DEF StoreAssumption, Wi!WiringAssumption
<1>2. Kept
  BY <1>1 DEF Wi!Init, Kept
<1>3. Wi!Idle \in WireType /\ Wi!Idle.pc = "idle"
  BY DEF Wi!Idle, WireType, Before
<1>4. wproc \in [Wi!Procs -> WireType] /\ \A p \in Wi!Procs : wproc[p].pc = "idle"
  BY <1>3 DEF Wi!Init
<1>5. env = 0 /\ live = 0 /\ cred = 0 /\ stored = 0 /\ server.secret = 0 /\ server \in [code : BOOLEAN, secret : Nat]
      /\ wired \in BOOLEAN /\ stale \in BOOLEAN
  BY DEF Wi!Init
<1> QED BY <1>2, <1>4, <1>5 DEF Wired

\* One process moved while the others were idle.
LEMMA OneProcess ==
  ASSUME NEW p \in Wi!Procs, NEW new \in WireType, wproc \in [Wi!Procs -> WireType],
         wproc' = [wproc EXCEPT ![p] = new], \A q \in Wi!Procs \ {p} : wproc[q].pc = "idle",
         new.pc # "idle" => Holds(p, new)'
  PROVE  /\ wproc' \in [Wi!Procs -> WireType]
         /\ \A q, r \in Wi!Procs : wproc'[q].pc # "idle" /\ wproc'[r].pc # "idle" => q = r
         /\ \A q \in Wi!Procs : wproc'[q].pc # "idle" => Holds(q, wproc[q])'
<1>1. wproc' \in [Wi!Procs -> WireType] /\ wproc'[p] = new /\ \A q \in Wi!Procs \ {p} : wproc'[q].pc = "idle"
  OBVIOUS
<1>2. ASSUME NEW q \in Wi!Procs, wproc'[q].pc # "idle" PROVE q = p /\ Holds(q, wproc[q])'
  <2>1. q = p /\ wproc'[q] = new
    BY <1>1, <1>2
  <2>2. Holds(p, new)'
    BY <1>2, <2>1
  <2> QED BY <2>1, <2>2 DEF Holds
<1> QED BY <1>1, <1>2

\* An operation that only moves on: nothing of what it holds together changed.
LEMMA OnlyMoves ==
  ASSUME Wired, NEW p \in Wi!Procs, NEW new \in WireType, wproc' = [wproc EXCEPT ![p] = new],
         \A q \in Wi!Procs \ {p} : wproc[q].pc = "idle",
         UNCHANGED <<key, blob, env, live, cred, server, stored, wired, stale>>,
         new.pc # "idle" => Holds(p, new)
  PROVE  Wired'
<1>1. Kept' /\ UNCHANGED Wi!Resolve(env) /\ UNCHANGED Wi!Resolve(live)
  BY DEF Wired, Kept, Wi!Resolve
<1>2. new.pc # "idle" => Holds(p, new)'
  BY DEF Holds, Wi!Resolve
<1>3. wproc \in [Wi!Procs -> WireType]
  BY DEF Wired
<1>4. /\ wproc' \in [Wi!Procs -> WireType]
      /\ \A q, r \in Wi!Procs : wproc'[q].pc # "idle" /\ wproc'[r].pc # "idle" => q = r
      /\ \A q \in Wi!Procs : wproc'[q].pc # "idle" => Holds(q, wproc[q])'
  BY <1>2, <1>3, OneProcess
<1> QED BY <1>1, <1>4 DEF Wired

\* Every step keeps the invariant, one step per action.
LEMMA WiredKept ==
  ASSUME Wired, [Wi!Next]_(Wi!vars)
  PROVE  /\ Wired' /\ blob \subseteq blob'
         /\ server.secret # 0 /\ ~wired => server'.secret = server.secret
<1>0. MaxStored \in Nat /\ "daemon" \in Wi!Procs
  BY StoreAssumption DEF StoreAssumption, Wi!WiringAssumption, Wi!Procs
<1>1. ASSUME NEW p \in Wi!Procs, wproc[p].pc # "idle"
      PROVE  wproc[p] \in WireType /\ Holds(p, wproc[p]) /\ \A q \in Wi!Procs \ {p} : wproc[q].pc = "idle"
  BY <1>1 DEF Wired
<1>2. /\ Wi!Idle \in WireType /\ Wi!Idle.pc = "idle" /\ Wi!Idle.secret = 0 /\ Wi!Idle.ref = 0
      /\ Kept /\ stored \in Nat
  <2>1. Kept /\ stored \in Nat
    BY DEF Wired, Kept
  <2>2. Wi!Idle \in WireType /\ Wi!Idle.pc = "idle" /\ Wi!Idle.secret = 0 /\ Wi!Idle.ref = 0
    BY DEF Wi!Idle, WireType, Before
  <2> QED BY <2>1, <2>2
<1>3. wproc \in [Wi!Procs -> WireType]
  BY DEF Wired
<1>4. ASSUME NEW p \in Wi!Procs, wproc[p].pc # "idle", Wi!Done(p),
             UNCHANGED <<key, blob, env, live, cred, server, stored, wired, stale>>
      PROVE  Wired'
  BY <1>1, <1>2, <1>4, OnlyMoves DEF Wi!Done
<1>5. ASSUME NEW p \in Wi!Procs, NEW op \in Wi!Operations, Wi!Start(p, op) PROVE Wired'
  <2>1. PICK at, shell, new :
          /\ at \in {"pip", "check", "read"} /\ shell \in 0..stored
          /\ (at = "pip" <=> op = "install") /\ (p # "daemon" => shell = env) /\ (at = "check" => op = "wire ref")
          /\ new = [Wi!Idle EXCEPT !.pc = at, !.op = op, !.shell = shell]
          /\ wproc' = [wproc EXCEPT ![p] = new]
    <3>1. /\ (CASE op = "install" -> "pip" [] op = "wire ref" -> "check" [] OTHER -> "read") \in {"pip", "check", "read"}
          /\ (IF p = "daemon" THEN live ELSE env) \in 0..stored
      BY DEF Wired
    <3> QED BY <1>5, <3>1 DEF Wi!Start
  <2>2. \A q \in Wi!Procs : wproc[q].pc = "idle"
    BY <1>5 DEF Wi!Start, Wi!Busy, Wi!At
  <2>3. stored < MaxStored /\ (p = "daemon" => op # "install")
        /\ UNCHANGED <<key, blob, env, live, cred, server, stored, wired, stale>>
    BY <1>5 DEF Wi!Start
  <2>4. /\ new \in WireType /\ new.pc = at /\ new.op = op /\ new.shell = shell
        /\ new.secret = 0 /\ new.ref = 0
    <3>1. shell \in Nat
      <4>1. shell \in 0..stored /\ stored \in Nat
        BY <1>2, <2>1 DEF Wired
      <4> QED BY <4>1
    <3> QED BY <1>2, <2>1, <3>1 DEF WireType, Before
  <2>5. Holds(p, new)
    <3>0. 0 \in 0..stored
      BY <1>2
    <3>1. op = "install" => p # "daemon" /\ shell = env
      BY <2>1, <2>3
    <3>2. at = "pip" \/ (at = "check" /\ op = "wire ref") \/ (at = "read" /\ op # "install")
      BY <2>1
    <3> QED BY <2>1, <2>3, <2>4, <3>0, <3>1, <3>2 DEF Holds, Before
  <2> QED BY <2>1, <2>2, <2>3, <2>4, <2>5, OnlyMoves
<1>6. ASSUME NEW p \in Wi!Procs, Wi!InstallServer(p) PROVE Wired'
  <2>1. PICK w, new : w = wproc[p] /\ new = [w EXCEPT !.pc = "secret"]
    OBVIOUS
  <2>2. w.pc = "pip" /\ UNCHANGED <<key, blob, env, live, cred, stored, wired, stale>>
        /\ (\/ server' = [server EXCEPT !.code = TRUE] /\ wproc' = [wproc EXCEPT ![p] = new]
            \/ UNCHANGED server /\ Wi!Done(p))
    BY <1>3, <1>6, <2>1 DEF Wi!InstallServer, Wi!To, Wi!At
  <2>3. w \in WireType /\ Holds(p, w) /\ \A q \in Wi!Procs \ {p} : wproc[q].pc = "idle"
    BY <1>1, <2>1, <2>2
  <2>4. CASE UNCHANGED server /\ Wi!Done(p)
    BY <1>4, <2>1, <2>2, <2>4
  <2>5. CASE server' = [server EXCEPT !.code = TRUE] /\ wproc' = [wproc EXCEPT ![p] = new]
    <3>1. /\ new \in WireType /\ new.pc = "secret" /\ new.op = w.op /\ new.secret = w.secret
          /\ new.ref = w.ref /\ new.shell = w.shell /\ new.data = w.data
      BY <2>1, <2>3 DEF WireType
    <3>2. Holds(p, new)
      BY <2>2, <2>3, <3>1 DEF Holds, Before
    <3>3. Holds(p, new)'
      BY <2>2, <2>5, <3>2 DEF Holds, Wi!Resolve
    <3>4. /\ wproc' \in [Wi!Procs -> WireType]
          /\ \A q, r \in Wi!Procs : wproc'[q].pc # "idle" /\ wproc'[r].pc # "idle" => q = r
          /\ \A q \in Wi!Procs : wproc'[q].pc # "idle" => Holds(q, wproc[q])'
      BY <1>3, <2>3, <2>5, <3>1, <3>3, OneProcess
    <3>5. Kept' /\ UNCHANGED Wi!Resolve(env) /\ UNCHANGED Wi!Resolve(live)
      BY <1>2, <2>2 DEF Kept, Wi!Resolve
    <3>6. server' \in [code : BOOLEAN, secret : Nat] /\ server'.secret = server.secret
      BY <2>5 DEF Wired
    <3> QED BY <2>2, <3>4, <3>5, <3>6 DEF Wired
  <2> QED BY <2>2, <2>4, <2>5
<1>7. ASSUME NEW p \in Wi!Procs, Wi!PickSecret(p) PROVE Wired'
  <2>1. PICK w, s, new : w = wproc[p] /\ s = Wi!Resolve(w.shell) /\ new = [w EXCEPT !.secret = s, !.pc = "read"]
    OBVIOUS
  <2>2. w.pc = "secret" /\ wproc' = [wproc EXCEPT ![p] = new]
        /\ UNCHANGED <<key, blob, env, live, cred, server, stored, wired, stale>>
    BY <1>3, <1>7, <2>1 DEF Wi!PickSecret, Wi!At, Wi!Existing
  <2>3. w \in WireType /\ Holds(p, w) /\ \A q \in Wi!Procs \ {p} : wproc[q].pc = "idle"
    BY <1>1, <2>1, <2>2
  <2>4. w.op = "install" /\ w.shell = env /\ env \in 0..stored
    BY <2>2, <2>3 DEF Holds, Wired
  <2>5. s = Wi!Resolve(env) /\ s \in 0..stored /\ s \in Nat
    <3>1. s = Wi!Resolve(env)
      BY <2>1, <2>4
    <3>2. Wi!Resolve(env) \in 0..stored
      <4>1. CASE env = 0
        BY <1>2, <4>1, Resolves
      <4>2. CASE env \in 1..stored
        <5>1. Wi!Resolve(env) \in 1..stored
          BY <1>2, <4>2, Resolves
        <5> QED BY <1>2, <5>1
      <4> QED BY <1>2, <2>4, <4>1, <4>2
    <3> QED BY <1>2, <3>1, <3>2
  <2>6. /\ new \in WireType /\ new.pc = "read" /\ new.op = w.op /\ new.secret = s
        /\ new.ref = w.ref /\ new.shell = w.shell /\ new.data = w.data
    BY <2>1, <2>3, <2>5 DEF WireType, Before
  <2>7. Holds(p, new)
    BY <2>2, <2>3, <2>4, <2>5, <2>6 DEF Holds, Before
  <2> QED BY <2>2, <2>3, <2>6, <2>7, OnlyMoves
<1>8. ASSUME NEW p \in Wi!Procs, Wi!ReadStore(p) PROVE Wired'
  <2>1. PICK w, new : w = wproc[p] /\ new = [w EXCEPT !.data = blob, !.pc = "key"]
    OBVIOUS
  <2>2. w.pc = "read" /\ UNCHANGED <<key, blob, env, live, cred, server, stored, wired, stale>>
        /\ (Wi!Done(p) \/ wproc' = [wproc EXCEPT ![p] = new])
    BY <1>3, <1>8, <2>1 DEF Wi!ReadStore, Wi!At
  <2>3. w \in WireType /\ Holds(p, w) /\ \A q \in Wi!Procs \ {p} : wproc[q].pc = "idle"
    BY <1>1, <2>1, <2>2
  <2>4. blob \subseteq Nat \X Nat
    BY <1>2 DEF Kept
  <2>5. CASE Wi!Done(p)
    BY <1>4, <2>1, <2>2, <2>5
  <2>6. CASE wproc' = [wproc EXCEPT ![p] = new]
    <3>1. /\ new \in WireType /\ new.pc = "key" /\ new.op = w.op /\ new.secret = w.secret
          /\ new.ref = w.ref /\ new.shell = w.shell /\ new.data = blob
      BY <2>1, <2>3, <2>4 DEF WireType, Before
    <3>2. Holds(p, new)
      BY <2>2, <2>3, <3>1 DEF Holds, Before
    <3> QED BY <2>2, <2>3, <2>6, <3>1, <3>2, OnlyMoves
  <2> QED BY <2>2, <2>5, <2>6
<1>9. ASSUME NEW p \in Wi!Procs, Wi!CreateKey(p) PROVE Wired'
  <2>1. PICK w, at, new : w = wproc[p] /\ at = (IF key = "set" THEN "write" ELSE "write key") /\ new = [w EXCEPT !.pc = at]
    OBVIOUS
  <2>2. w.pc = "key" /\ UNCHANGED <<blob, env, live, cred, server, stored, wired, stale>>
        /\ (\/ key = "absent" /\ key' = "empty" /\ wproc' = [wproc EXCEPT ![p] = new]
            \/ UNCHANGED key /\ Wi!Done(p)
            \/ key = "set" /\ UNCHANGED key /\ wproc' = [wproc EXCEPT ![p] = new])
    <3>1. key \in {"absent", "empty", "set"}
      BY <1>2 DEF Kept
    <3> QED BY <1>3, <1>9, <2>1, <3>1 DEF Wi!CreateKey, Wi!To, Wi!At
  <2>3. w \in WireType /\ Holds(p, w) /\ \A q \in Wi!Procs \ {p} : wproc[q].pc = "idle"
    BY <1>1, <2>1, <2>2
  <2>4. /\ new \in WireType /\ new.pc = at /\ new.op = w.op /\ new.secret = w.secret
        /\ new.ref = w.ref /\ new.shell = w.shell /\ new.data = w.data
    <3>1. at \in {"write", "write key"}
      BY <2>1
    <3> QED BY <2>1, <2>3, <3>1 DEF WireType, Before
  <2>5. CASE UNCHANGED key /\ Wi!Done(p)
    BY <1>4, <2>1, <2>2, <2>5
  <2>6. CASE key = "set" /\ UNCHANGED key /\ wproc' = [wproc EXCEPT ![p] = new]
    <3>1. Holds(p, new)
      BY <2>1, <2>2, <2>3, <2>4, <2>6 DEF Holds, Before
    <3> QED BY <2>2, <2>3, <2>4, <2>6, <3>1, OnlyMoves
  <2>7. CASE key = "absent" /\ key' = "empty" /\ wproc' = [wproc EXCEPT ![p] = new]
    <3>1. stored = 0 /\ stored' = 0 /\ env = 0 /\ live = 0 /\ cred = 0 /\ server.secret = 0
      BY <1>2, <2>2, <2>7 DEF Kept, Wired
    <3>2. Kept'
      BY <1>2, <2>2, <2>7, <3>1 DEF Kept
    <3>3. Wi!Resolve(0) = 0 /\ Wi!Resolve(0)' = 0
      BY <1>2, <3>2, Resolves, ResolvesNext
    <3>4. Wi!Resolve(env)' = 0 /\ Wi!Resolve(env) = 0 /\ Wi!Resolve(live)' = 0 /\ env' = env
      <4>1. env' = 0 /\ live' = 0
        BY <2>2, <3>1
      <4> QED BY <3>1, <3>3, <4>1 DEF Wi!Resolve
    <3>5. Holds(p, new)'
      <4>1. new.pc = "write key" /\ blob' = blob /\ stored' = stored
        BY <2>1, <2>2, <2>4, <2>7
      <4>2. w.data = blob /\ (w.op = "install" => p # "daemon" /\ w.secret = Wi!Resolve(env)) /\ stored < MaxStored
            /\ w.secret \in 0..stored /\ w.ref \in 0..stored /\ w.shell \in 0..stored
        BY <2>2, <2>3 DEF Holds, Before
      <4> QED BY <2>4, <2>7, <3>4, <4>1, <4>2 DEF Holds, Before
    <3>6. /\ wproc' \in [Wi!Procs -> WireType]
          /\ \A q, r \in Wi!Procs : wproc'[q].pc # "idle" /\ wproc'[r].pc # "idle" => q = r
          /\ \A q \in Wi!Procs : wproc'[q].pc # "idle" => Holds(q, wproc[q])'
      BY <1>3, <2>3, <2>4, <2>7, <3>5, OneProcess
    <3> QED BY <2>2, <3>1, <3>2, <3>4, <3>6 DEF Wired
  <2> QED BY <2>2, <2>5, <2>6, <2>7
<1>10. ASSUME NEW p \in Wi!Procs, Wi!WriteKey(p) PROVE Wired'
  <2>1. PICK w, new : w = wproc[p] /\ new = [w EXCEPT !.pc = "write"]
    OBVIOUS
  <2>2. w.pc = "write key" /\ UNCHANGED <<blob, env, live, cred, server, stored, wired, stale>>
        /\ key' = "set" /\ wproc' = [wproc EXCEPT ![p] = new]
    BY <1>3, <1>10, <2>1 DEF Wi!WriteKey, Wi!To, Wi!At
  <2>3. w \in WireType /\ Holds(p, w) /\ \A q \in Wi!Procs \ {p} : wproc[q].pc = "idle"
    BY <1>1, <2>1, <2>2
  <2>4. /\ new \in WireType /\ new.pc = "write" /\ new.op = w.op /\ new.secret = w.secret
        /\ new.ref = w.ref /\ new.shell = w.shell /\ new.data = w.data
    BY <2>1, <2>3 DEF WireType, Before
  <2>5. key = "empty"
    BY <2>2, <2>3 DEF Holds
  <2>6. stored = 0 /\ stored' = 0 /\ env = 0 /\ live = 0 /\ cred = 0 /\ server.secret = 0
    <3>1. stored = 0
      BY <1>2, <2>5 DEF Kept
    <3>2. stored' = stored
      BY <2>2
    <3>3. env \in 0..0 /\ live \in 0..0 /\ cred \in 0..0 /\ server.secret \in 0..0
      BY <3>1 DEF Wired
    <3> QED BY <3>1, <3>2, <3>3
  <2>7. Kept'
    BY <1>2, <2>2, <2>6 DEF Kept
  <2>8. Wi!Resolve(0) = 0 /\ Wi!Resolve(0)' = 0
    BY <1>2, <2>7, Resolves, ResolvesNext
  <2>9. Wi!Resolve(env)' = 0 /\ Wi!Resolve(env) = 0 /\ Wi!Resolve(live)' = 0 /\ env' = env
    <3>1. env' = 0 /\ live' = 0
      BY <2>2, <2>6
    <3> QED BY <2>6, <2>8, <3>1 DEF Wi!Resolve
  <2>10. Holds(p, new)'
    BY <2>2, <2>3, <2>4, <2>6, <2>9 DEF Holds, Before
  <2>11. /\ wproc' \in [Wi!Procs -> WireType]
         /\ \A q, r \in Wi!Procs : wproc'[q].pc # "idle" /\ wproc'[r].pc # "idle" => q = r
         /\ \A q \in Wi!Procs : wproc'[q].pc # "idle" => Holds(q, wproc[q])'
    BY <1>3, <2>2, <2>3, <2>4, <2>10, OneProcess
  <2> QED BY <2>2, <2>6, <2>7, <2>9, <2>11 DEF Wired
<1>11. ASSUME NEW p \in Wi!Procs, Wi!WriteStore(p) PROVE Wired' /\ blob \subseteq blob'
  <2>1. PICK w, n, secret, new :
          /\ w = wproc[p] /\ n = stored + 1 /\ secret = (IF w.secret = 0 THEN n ELSE w.secret)
          /\ new = [w EXCEPT !.ref = n, !.secret = secret, !.pc = IF w.op = "link" THEN "row" ELSE "env"]
    OBVIOUS
  <2>2. w.pc = "write" /\ UNCHANGED <<key, env, live, cred, server, wired, stale>>
        /\ wproc' = [wproc EXCEPT ![p] = new] /\ blob' = w.data \cup {<<n, secret>>} /\ stored' = n
    BY <1>3, <1>11, <2>1 DEF Wi!WriteStore, Wi!At
  <2>3. w \in WireType /\ Holds(p, w) /\ \A q \in Wi!Procs \ {p} : wproc[q].pc = "idle"
    BY <1>1, <2>1, <2>2
  <2>4. key = "set" /\ stored < MaxStored /\ w.data = blob /\ w.secret \in 0..stored /\ w.shell \in 0..stored
        /\ (w.op = "install" => p # "daemon" /\ w.secret = Wi!Resolve(env))
    BY <2>2, <2>3 DEF Holds, Before
  <2>5. n \in 1..n /\ secret \in 1..n /\ n = stored + 1 /\ n \in 0..MaxStored /\ n \in Nat /\ secret \in Nat
        /\ 0..stored \subseteq 0..n /\ 1..stored = 1..n \ {n} /\ stored' = n /\ blob' = blob \cup {<<n, secret>>}
    BY <1>0, <1>2, <2>1, <2>2, <2>4
  <2>6. Kept'
    <3>1. blob' \subseteq (1..n) \X (1..n)
      BY <1>2, <2>5 DEF Kept
    <3>2. ASSUME NEW m \in 1..n PROVE \E s \in 1..n : <<m, s>> \in blob'
      BY <1>2, <2>5 DEF Kept
    <3>3. ASSUME NEW m \in 1..n, NEW s \in 1..n, NEW t \in 1..n, <<m, s>> \in blob', <<m, t>> \in blob' PROVE s = t
      <4>1. CASE m = n
        <5>1. <<m, s>> \notin blob /\ <<m, t>> \notin blob
          BY <1>2, <2>5, <4>1 DEF Kept
        <5> QED BY <2>5, <3>3, <5>1
      <4>2. CASE m # n
        <5>1. <<m, s>> \in blob /\ <<m, t>> \in blob
          BY <2>5, <3>3, <4>2
        <5>2. s \in 1..stored /\ t \in 1..stored /\ m \in 1..stored
          BY <1>2, <5>1 DEF Kept
        <5> QED BY <1>2, <5>1, <5>2 DEF Kept
      <4> QED BY <4>1, <4>2
    <3> QED BY <2>2, <2>4, <2>5, <3>1, <3>2, <3>3 DEF Kept
  <2>7. \A m \in 0..stored : Wi!Resolve(m)' = Wi!Resolve(m)
    <3>1. blob \subseteq blob' /\ stored <= stored'
      BY <1>2, <2>5
    <3> QED BY <1>2, <2>6, <3>1, StillResolves
  <2>8. Wi!Resolve(n)' = secret
    <3>1. n \in 1..stored' /\ secret \in 1..stored' /\ <<n, secret>> \in blob'
      BY <2>5
    <3>2. Wi!Resolve(n)' \in 1..stored' /\ <<n, Wi!Resolve(n)'>> \in blob'
      BY <2>6, <3>1, ResolvesNext
    <3> QED BY <2>6, <3>1, <3>2 DEF Kept
  <2>9. /\ env' = env /\ env \in 0..stored /\ live' = live /\ live \in 0..stored /\ cred' = cred /\ cred \in 0..stored
        /\ server' = server /\ server.secret \in 0..stored
    BY <2>2 DEF Wired
  <2>10. Wi!Resolve(env)' = Wi!Resolve(env) /\ Wi!Resolve(live)' = Wi!Resolve(live)
    BY <2>7, <2>9
  <2>11. new \in WireType /\ new.ref = n /\ new.secret = secret /\ new.op = w.op /\ new.shell = w.shell
         /\ new.pc \in {"row", "env"} /\ (new.op = "install" => new.pc = "env")
    <3>1. PICK at : at = IF w.op = "link" THEN "row" ELSE "env"
      OBVIOUS
    <3>2. at \in {"row", "env"} /\ (w.op = "install" => at = "env")
      BY <3>1
    <3>3. new = [w EXCEPT !.ref = n, !.secret = secret, !.pc = at]
      BY <2>1, <3>1
    <3> QED BY <2>3, <2>5, <3>2, <3>3 DEF WireType, Before
  <2>12. new.op = "install" /\ env' # 0 => secret = Wi!Resolve(env)'
    <3> SUFFICES ASSUME new.op = "install", env # 0 PROVE secret = Wi!Resolve(env)
      BY <2>9, <2>10
    <3>1. w.secret = Wi!Resolve(env) /\ env \in 1..stored
      BY <1>2, <2>4, <2>9, <2>11
    <3>2. Wi!Resolve(env) \in 1..stored
      BY <1>2, <3>1, Resolves
    <3> QED BY <1>2, <2>1, <3>1, <3>2
  <2>13. Holds(p, new)'
    <3>1. new.secret \in 0..stored' /\ new.ref \in 0..stored' /\ new.shell \in 0..stored' /\ new.ref # 0
      BY <1>2, <2>4, <2>5, <2>11
    <3> QED BY <2>4, <2>8, <2>11, <2>12, <3>1 DEF Holds, Before
  <2>14. /\ wproc' \in [Wi!Procs -> WireType]
         /\ \A q, r \in Wi!Procs : wproc'[q].pc # "idle" /\ wproc'[r].pc # "idle" => q = r
         /\ \A q \in Wi!Procs : wproc'[q].pc # "idle" => Holds(q, wproc[q])'
    BY <1>3, <2>2, <2>3, <2>11, <2>13, OneProcess
  <2>15. {env', live', cred', server'.secret} \subseteq 0..stored'
    BY <2>5, <2>9
  <2>16. Wired'
    BY <2>2, <2>6, <2>9, <2>10, <2>14, <2>15 DEF Wired
  <2> QED BY <2>5, <2>16
<1>12. ASSUME NEW p \in Wi!Procs, Wi!CheckRef(p) PROVE Wired'
  <2>1. wproc[p].pc = "check" /\ UNCHANGED <<key, blob, env, live, cred, server, stored, wired, stale>>
    BY <1>12 DEF Wi!CheckRef, Wi!At
  <2>2. PICK w : w = wproc[p] /\ w \in WireType /\ Holds(p, w) /\ \A q \in Wi!Procs \ {p} : wproc[q].pc = "idle"
    BY <1>1, <2>1
  <2>3. CASE Wi!Done(p)
    BY <1>4, <2>1, <2>3
  <2>4. CASE ~Wi!Done(p)
    <3>0. PICK ref \in 1..MaxStored :
            /\ Wi!Resolve(ref) # 0
            /\ wproc' = [wproc EXCEPT ![p].ref = ref, ![p].secret = Wi!Resolve(ref), ![p].pc = "env"]
      BY <1>12, <2>4 DEF Wi!CheckRef
    <3>1. PICK s, new :
            /\ s = Wi!Resolve(ref) /\ s # 0 /\ new = [w EXCEPT !.ref = ref, !.secret = s, !.pc = "env"]
            /\ wproc' = [wproc EXCEPT ![p] = new]
      BY <1>3, <2>2, <3>0
    <3>2. ref \in 1..stored
      BY <1>0, <1>2, <3>1, Resolves
    <3>3. s \in 1..stored
      BY <1>2, <3>1, <3>2, Resolves
    <3>4. /\ new \in WireType /\ new.pc = "env" /\ new.op = w.op /\ new.secret = s /\ new.ref = ref /\ new.shell = w.shell
      <4>1. s \in Nat /\ ref \in Nat
        BY <1>2, <3>2, <3>3
      <4> QED BY <2>2, <3>1, <4>1 DEF WireType, Before
    <3>5. w.op # "install"
      BY <2>1, <2>2 DEF Holds
    <3>6. Holds(p, new)
      <4>1. s \in 0..stored /\ ref \in 0..stored /\ ref # 0
        BY <1>2, <3>2, <3>3
      <4>2. w.shell \in 0..stored /\ (w.op = "install" => p # "daemon")
        BY <2>1, <2>2 DEF Holds
      <4> QED BY <3>1, <3>4, <3>5, <4>1, <4>2 DEF Holds, Before
    <3> QED BY <2>1, <2>2, <3>1, <3>4, <3>6, OnlyMoves
  <2> QED BY <2>3, <2>4
<1>13. ASSUME NEW p \in Wi!Procs, Wi!SetEnv(p) PROVE Wired'
  <2>1. PICK w, at, new : w = wproc[p] /\ new = [w EXCEPT !.pc = "server"]
    OBVIOUS
  <2>2. /\ w.pc = "env" /\ UNCHANGED <<key, blob, cred, server, stored>> /\ env' = w.ref
        /\ live' = IF p = "daemon" THEN w.ref ELSE live
        /\ \/ w.op = "install" /\ wproc' = [wproc EXCEPT ![p] = new] /\ UNCHANGED <<wired, stale>>
           \/ w.op # "install" /\ wproc' = [wproc EXCEPT ![p] = Wi!Idle] /\ wired' = TRUE /\ stale' = (p # "daemon")
    BY <1>3, <1>13, <2>1 DEF Wi!SetEnv, Wi!At, Wi!To, Wi!Done
  <2>3. w \in WireType /\ Holds(p, w) /\ \A q \in Wi!Procs \ {p} : wproc[q].pc = "idle"
    BY <1>1, <2>1, <2>2
  <2>4. w.ref \in 1..stored /\ w.secret = Wi!Resolve(w.ref) /\ w.secret \in 0..stored /\ w.shell \in 0..stored
    BY <1>2, <2>2, <2>3 DEF Holds
  <2>5. Kept' /\ \A n : Wi!Resolve(n)' = Wi!Resolve(n)
    BY <1>2, <2>2 DEF Kept, Wi!Resolve
  <2>6. /\ env \in 0..stored /\ live \in 0..stored /\ cred \in 0..stored /\ server.secret \in 0..stored
        /\ server \in [code : BOOLEAN, secret : Nat] /\ wired \in BOOLEAN /\ stale \in BOOLEAN
    BY DEF Wired
  <2>7. env' \in 0..stored' /\ live' \in 0..stored' /\ cred' \in 0..stored' /\ server'.secret \in 0..stored'
        /\ server' \in [code : BOOLEAN, secret : Nat] /\ wired' \in BOOLEAN /\ stale' \in BOOLEAN
    <3>1. w.ref \in 0..stored /\ stored' = stored
      BY <1>2, <2>2, <2>4
    <3> QED BY <2>2, <2>6, <3>1
  <2>8. Wi!Resolve(env)' = w.secret
    BY <2>2, <2>4, <2>5
  <2>9. CASE w.op = "install" /\ wproc' = [wproc EXCEPT ![p] = new] /\ UNCHANGED <<wired, stale>>
    <3>1. /\ new \in WireType /\ new.pc = "server" /\ new.op = w.op /\ new.secret = w.secret
          /\ new.ref = w.ref /\ new.shell = w.shell /\ new.data = w.data
      BY <2>1, <2>3 DEF WireType
    <3>2. p # "daemon" /\ (env # 0 => w.secret = Wi!Resolve(env))
      BY <2>2, <2>3, <2>9 DEF Holds
    <3>3. Holds(p, new)'
      <4>1. new.secret = Wi!Resolve(new.ref)'
        BY <2>4, <2>5, <3>1
      <4>2. new.secret \in 0..stored' /\ new.ref \in 0..stored' /\ new.shell \in 0..stored' /\ new.ref # 0 /\ env' = new.ref
        BY <1>2, <2>2, <2>4, <3>1
      <4> QED BY <3>1, <3>2, <4>1, <4>2 DEF Holds, Before
    <3>4. /\ wproc' \in [Wi!Procs -> WireType]
          /\ \A q, r \in Wi!Procs : wproc'[q].pc # "idle" /\ wproc'[r].pc # "idle" => q = r
          /\ \A q \in Wi!Procs : wproc'[q].pc # "idle" => Holds(q, wproc[q])'
      BY <1>3, <2>3, <2>9, <3>1, <3>3, OneProcess
    <3>5. Wi!Resolve(0) = 0 /\ \A n \in 1..stored : Wi!Resolve(n) \in 1..stored
      BY <1>2, Resolves
    <3>6. server.secret # 0 /\ ~wired => env # 0 /\ Wi!Resolve(env) = server.secret
      BY <3>5 DEF Wired
    <3>7. server'.secret # 0 /\ ~wired' => Wi!Resolve(env)' = server'.secret
      BY <2>2, <2>8, <2>9, <3>2, <3>6
    <3>8. ~stale' => live' = 0 \/ Wi!Resolve(live)' = Wi!Resolve(env)'
      <4>1. live' = live /\ stale' = stale /\ Wi!Resolve(live)' = Wi!Resolve(live)
        BY <2>2, <2>5, <2>9, <3>2
      <4>2. ~stale => live = 0 \/ Wi!Resolve(live) = Wi!Resolve(env)
        BY DEF Wired
      <4>3. CASE env = 0
        <5>1. live # 0 => Wi!Resolve(live) \in 1..stored
          BY <1>2, <2>6, <3>5
        <5>2. live # 0 => Wi!Resolve(live) # 0
          BY <1>2, <5>1
        <5> QED BY <3>5, <4>1, <4>2, <4>3, <5>2
      <4>4. CASE env # 0
        BY <2>8, <3>2, <4>1, <4>2, <4>4
      <4> QED BY <4>3, <4>4
    <3> QED BY <2>5, <2>7, <3>4, <3>7, <3>8 DEF Wired
  <2>10. CASE w.op # "install" /\ wproc' = [wproc EXCEPT ![p] = Wi!Idle] /\ wired' = TRUE /\ stale' = (p # "daemon")
    <3>1. /\ wproc' \in [Wi!Procs -> WireType]
          /\ \A q, r \in Wi!Procs : wproc'[q].pc # "idle" /\ wproc'[r].pc # "idle" => q = r
          /\ \A q \in Wi!Procs : wproc'[q].pc # "idle" => Holds(q, wproc[q])'
      <4>1. PICK idle : idle = Wi!Idle
        OBVIOUS
      <4> QED BY <1>2, <1>3, <2>3, <2>10, <4>1, OneProcess
    <3>2. ~stale' => Wi!Resolve(live)' = Wi!Resolve(env)'
      <4>1. ~stale' => live' = env'
        BY <2>2, <2>10
      <4> QED BY <2>2, <2>5, <4>1
    <3> QED BY <2>5, <2>7, <2>10, <3>1, <3>2 DEF Wired
  <2> QED BY <2>2, <2>9, <2>10
<1>14. ASSUME NEW p \in Wi!Procs, Wi!WriteServer(p)
       PROVE  Wired' /\ (server.secret # 0 /\ ~wired => server'.secret = server.secret)
  <2>1. PICK w : w = wproc[p]
    OBVIOUS
  <2>2. w.pc = "server" /\ server' = [server EXCEPT !.secret = w.secret] /\ wired' = FALSE
        /\ wproc' = [wproc EXCEPT ![p] = Wi!Idle] /\ UNCHANGED <<key, blob, env, live, cred, stored, stale>>
    BY <1>14, <2>1 DEF Wi!WriteServer, Wi!At, Wi!Done
  <2>3. w \in WireType /\ Holds(p, w) /\ \A q \in Wi!Procs \ {p} : wproc[q].pc = "idle"
    BY <1>1, <2>1, <2>2
  <2>4. env = w.ref /\ w.secret = Wi!Resolve(env) /\ w.secret \in 0..stored /\ w.secret \in Nat
    BY <1>2, <2>2, <2>3 DEF Holds
  <2>5. server' \in [code : BOOLEAN, secret : Nat] /\ server'.secret = w.secret
    BY <2>2, <2>4 DEF Wired
  <2>6. Kept' /\ \A n : Wi!Resolve(n)' = Wi!Resolve(n)
    BY <1>2, <2>2 DEF Kept, Wi!Resolve
  <2>7. Wi!Resolve(env)' = Wi!Resolve(env) /\ Wi!Resolve(live)' = Wi!Resolve(live)
    BY <2>2, <2>6
  <2>8. /\ wproc' \in [Wi!Procs -> WireType]
        /\ \A q, r \in Wi!Procs : wproc'[q].pc # "idle" /\ wproc'[r].pc # "idle" => q = r
        /\ \A q \in Wi!Procs : wproc'[q].pc # "idle" => Holds(q, wproc[q])'
    <3>1. PICK idle : idle = Wi!Idle
      OBVIOUS
    <3> QED BY <1>2, <1>3, <2>2, <2>3, <3>1, OneProcess
  <2>9. Wired'
    BY <2>2, <2>4, <2>5, <2>6, <2>7, <2>8 DEF Wired
  <2>10. server.secret # 0 /\ ~wired => Wi!Resolve(env) = server.secret
    BY DEF Wired
  <2> QED BY <2>4, <2>5, <2>9, <2>10
<1>15. ASSUME NEW p \in Wi!Procs, Wi!LinkRow(p) PROVE Wired'
  <2>1. PICK w : w = wproc[p]
    OBVIOUS
  <2>2. w.pc = "row" /\ cred' = w.ref /\ wproc' = [wproc EXCEPT ![p] = Wi!Idle]
        /\ UNCHANGED <<key, blob, env, live, server, stored, wired, stale>>
    BY <1>15, <2>1 DEF Wi!LinkRow, Wi!At, Wi!Done
  <2>3. Holds(p, w) /\ \A q \in Wi!Procs \ {p} : wproc[q].pc = "idle"
    BY <1>1, <2>1, <2>2
  <2>4. cred' \in 0..stored'
    BY <2>2, <2>3 DEF Holds
  <2>5. Kept' /\ Wi!Resolve(env)' = Wi!Resolve(env) /\ Wi!Resolve(live)' = Wi!Resolve(live)
    BY <1>2, <2>2 DEF Kept, Wi!Resolve
  <2>6. /\ wproc' \in [Wi!Procs -> WireType]
        /\ \A q, r \in Wi!Procs : wproc'[q].pc # "idle" /\ wproc'[r].pc # "idle" => q = r
        /\ \A q \in Wi!Procs : wproc'[q].pc # "idle" => Holds(q, wproc[q])'
    <3>1. PICK idle : idle = Wi!Idle
      OBVIOUS
    <3> QED BY <1>2, <1>3, <2>2, <2>3, <3>1, OneProcess
  <2> QED BY <2>2, <2>4, <2>5, <2>6 DEF Wired
<1>16. ASSUME NEW p \in Wi!Procs, Wi!Cut(p) PROVE Wired'
  <2>1. wproc[p].pc # "idle" /\ wproc' = [wproc EXCEPT ![p] = Wi!Idle] /\ UNCHANGED <<key, blob, env, cred, server, stored, wired>>
        /\ ((live' = env /\ stale' = FALSE) \/ UNCHANGED <<live, stale>>)
    BY <1>16 DEF Wi!Cut, Wi!At, Wi!Done
  <2>2. \A q \in Wi!Procs \ {p} : wproc[q].pc = "idle"
    BY <1>1, <2>1
  <2>3. /\ wproc' \in [Wi!Procs -> WireType]
        /\ \A q, r \in Wi!Procs : wproc'[q].pc # "idle" /\ wproc'[r].pc # "idle" => q = r
        /\ \A q \in Wi!Procs : wproc'[q].pc # "idle" => Holds(q, wproc[q])'
    <3>1. PICK idle : idle = Wi!Idle
      OBVIOUS
    <3> QED BY <1>2, <1>3, <2>1, <2>2, <3>1, OneProcess
  <2>4. Kept' /\ \A n : Wi!Resolve(n)' = Wi!Resolve(n)
    BY <1>2, <2>1 DEF Kept, Wi!Resolve
  <2>5. Wi!Resolve(env)' = Wi!Resolve(env) /\ (live' = live => Wi!Resolve(live)' = Wi!Resolve(live))
        /\ (live' = env => Wi!Resolve(live)' = Wi!Resolve(env))
    BY <2>1, <2>4
  <2>6. UNCHANGED <<env, cred, server, stored, wired>>
    BY <2>1
  <2>7. CASE live' = env /\ stale' = FALSE
    <3>1. live' \in 0..stored' /\ stale' \in BOOLEAN /\ Wi!Resolve(live)' = Wi!Resolve(env)'
      BY <2>5, <2>6, <2>7 DEF Wired
    <3> QED BY <2>3, <2>4, <2>5, <2>6, <3>1 DEF Wired
  <2>8. CASE UNCHANGED <<live, stale>>
    <3>1. live' = live /\ stale' = stale
      BY <2>8
    <3> QED BY <2>3, <2>4, <2>5, <2>6, <3>1 DEF Wired
  <2> QED BY <2>1, <2>7, <2>8
<1>17. ASSUME Wi!Unlink PROVE Wired'
  <2>1. cred' = 0 /\ UNCHANGED <<key, blob, env, live, server, wproc, stored, wired, stale>>
    BY <1>17 DEF Wi!Unlink
  <2>2. Kept' /\ Wi!Resolve(env)' = Wi!Resolve(env) /\ Wi!Resolve(live)' = Wi!Resolve(live)
    BY <1>2, <2>1 DEF Kept, Wi!Resolve
  <2>3. ASSUME NEW p \in Wi!Procs, wproc[p].pc # "idle" PROVE Holds(p, wproc[p])'
    <3>1. Holds(p, wproc[p])
      BY <1>1, <2>3
    <3> QED BY <2>1, <3>1 DEF Holds, Wi!Resolve
  <2> QED BY <1>2, <2>1, <2>2, <2>3 DEF Wired
<1>18. ASSUME Wi!Restart PROVE Wired'
  <2>1. live' = env /\ stale' = FALSE /\ UNCHANGED <<key, blob, env, cred, server, wproc, stored, wired>>
    BY <1>18 DEF Wi!Restart
  <2>2. Kept' /\ Wi!Resolve(env)' = Wi!Resolve(env) /\ Wi!Resolve(live)' = Wi!Resolve(env)
    BY <1>2, <2>1 DEF Kept, Wi!Resolve
  <2>3. ASSUME NEW p \in Wi!Procs, wproc[p].pc # "idle" PROVE Holds(p, wproc[p])'
    <3>1. Holds(p, wproc[p])
      BY <1>1, <2>3
    <3> QED BY <2>1, <3>1 DEF Holds, Wi!Resolve
  <2> QED BY <1>2, <2>1, <2>2, <2>3 DEF Wired
<1>19. ASSUME UNCHANGED Wi!vars PROVE Wired'
  <2>1. UNCHANGED <<key, blob, env, live, cred, server, wproc, stored, wired, stale>>
    BY <1>19 DEF Wi!vars
  <2>2. Kept' /\ Wi!Resolve(env)' = Wi!Resolve(env) /\ Wi!Resolve(live)' = Wi!Resolve(live)
    BY <1>2, <2>1 DEF Kept, Wi!Resolve
  <2>3. ASSUME NEW p \in Wi!Procs, wproc[p].pc # "idle" PROVE Holds(p, wproc[p])'
    <3>1. Holds(p, wproc[p])
      BY <1>1, <2>3
    <3> QED BY <2>1, <3>1 DEF Holds, Wi!Resolve
  <2> QED BY <1>2, <2>1, <2>2, <2>3 DEF Wired
<1>20. Wired'
  BY <1>5, <1>6, <1>7, <1>8, <1>9, <1>10, <1>11, <1>12, <1>13, <1>14, <1>15, <1>16, <1>17, <1>18, <1>19
     DEF Wi!Next
<1>21. (\E p \in Wi!Procs : Wi!WriteStore(p)) \/ UNCHANGED blob
  BY DEF Wi!Next, Wi!vars, Wi!Unlink, Wi!Restart, Wi!Start, Wi!InstallServer, Wi!PickSecret, Wi!ReadStore, Wi!CreateKey,
         Wi!WriteKey, Wi!CheckRef, Wi!SetEnv, Wi!WriteServer, Wi!LinkRow, Wi!Cut
<1>22. (\E p \in Wi!Procs : Wi!WriteServer(p) \/ Wi!InstallServer(p)) \/ UNCHANGED server
  BY DEF Wi!Next, Wi!vars, Wi!Unlink, Wi!Restart, Wi!Start, Wi!PickSecret, Wi!ReadStore, Wi!CreateKey,
         Wi!WriteKey, Wi!WriteStore, Wi!CheckRef, Wi!SetEnv, Wi!LinkRow, Wi!Cut
<1>23. ASSUME NEW p \in Wi!Procs, Wi!InstallServer(p) PROVE server'.secret = server.secret
  BY <1>23 DEF Wi!InstallServer, Wired
<1> QED BY <1>11, <1>14, <1>20, <1>21, <1>22, <1>23

\* What the invariant says before and after a step is what the step promises.
LEMMA WiredSteps ==
  ASSUME Wired, Wired', blob \subseteq blob', server.secret # 0 /\ ~wired => server'.secret = server.secret
  PROVE  Wi!WiringStep
<1>1. Kept' /\ stored' \in Nat /\ stored' <= MaxStored /\ MaxStored \in Nat
  BY StoreAssumption DEF StoreAssumption, Wi!WiringAssumption, Wired, Kept
<1>2. Wi!Resolve(0)' = 0 /\ \A n \in 1..stored' : Wi!Resolve(n)' \in 1..stored'
  BY <1>1, ResolvesNext
<1>3. Wi!TypeOK'
  <2>1. 1..stored' \subseteq 1..MaxStored /\ 0..stored' \subseteq 0..MaxStored
    BY <1>1
  <2>2. blob' \subseteq (1..MaxStored) \X (1..MaxStored) /\ key' \in {"absent", "empty", "set"}
    BY <1>1, <2>1 DEF Kept
  <2>3. {env', live', cred', server'.secret} \subseteq 0..stored'
    BY DEF Wired
  <2> QED BY <2>1, <2>2, <2>3 DEF Wi!TypeOK
<1>4. cred' # 0 => Wi!Resolve(cred)' # 0
  <2>1. cred' \in 0..stored'
    BY DEF Wired
  <2>2. ASSUME cred' # 0 PROVE Wi!Resolve(cred)' \in 1..stored'
    <3>1. cred' \in 1..stored'
      BY <1>1, <2>1, <2>2
    <3> QED BY <1>2, <3>1
  <2> QED BY <1>1, <2>2
<1>5. ~wired' /\ ~stale' /\ server'.secret # 0 /\ Wi!Resolve(live)' # 0 => Wi!Resolve(live)' = server'.secret
  <2>1. live' = 0 => Wi!Resolve(live)' = 0
    BY <1>2
  <2> QED BY <2>1 DEF Wired
<1> QED BY <1>3, <1>4, <1>5 DEF Wi!WiringStep, Wi!Injects

\* Operations one after the other, cut anywhere: what was stored opens, a
\* server keeps its secret, the token of a dispatch is one it accepts.
THEOREM WiringIsHeld == StoreSpec => WiringHolds
<1> DEFINE I == part = "wiring" => Wired
<1>1. StoreInit => I
  BY WiredInit DEF StoreInit
<1>2. ASSUME I, [StoreNext]_all, part' = "wiring" \/ part = "wiring"
      PROVE  part = "wiring" /\ part' = "wiring" /\ [Wi!Next]_(Wi!vars)
  BY <1>2 DEF StoreNext, all, wiring, Wi!vars
<1>3. I /\ [StoreNext]_all => I'
  BY <1>2, WiredKept
<1>4. I /\ [StoreNext]_all => [part = "wiring" => Wi!WiringStep]_all
  <2> SUFFICES ASSUME I, [StoreNext]_all, part = "wiring" PROVE Wi!WiringStep
    OBVIOUS
  <2>1. Wired /\ [Wi!Next]_(Wi!vars)
    BY <1>2
  <2>2. /\ Wired' /\ blob \subseteq blob'
        /\ server.secret # 0 /\ ~wired => server'.secret = server.secret
    BY <2>1, WiredKept
  <2> QED BY <2>1, <2>2, WiredSteps
<1> QED BY <1>1, <1>3, <1>4, PTL DEF StoreSpec, WiringHolds

(***************************************************************************)
(* Project: one process at a time holds what is being born                 *)
(***************************************************************************)
Branches == {"dev", "main", "master"}

\* The shape of the row and of the repository at SOT_ROOT.
RowType == [born : {"not", "seed", "adopt"}, mirror : BOOLEAN]
SotType == [there : BOOLEAN, bare : BOOLEAN, branches : SUBSET Branches, head : {"master", "main"},
            root : {"none", "seed", "upstream"}]

\* The steps a process takes alone, and the shape of a process.
Holding == {"cloning", "normalize", "init", "seed base", "seed main", "head", "set mirror", "remote", "deployments"}
BirthType == [pc : Holding \cup {"idle", "clone", "insert"}, op : {"none", "seed", "adopt", "mirror"}, mirror : BOOLEAN]

\* A process past the step that only one of them passes.
Holder(w) == w.pc \in Holding \/ (w.pc = "insert" /\ w.op = "adopt")

\* The steps of each operation.
Kind(w) ==
  /\ w.pc = "idle" => w.op = "none"
  /\ w.pc # "idle" => w.op # "none"
  /\ w.op = "adopt" => ~w.mirror /\ w.pc \notin {"init", "remote", "set mirror"}
  /\ w.op = "seed" => w.pc \notin {"clone", "cloning", "normalize", "set mirror"}
  /\ w.op = "mirror" => w.pc \in {"set mirror", "remote"}

\* A project whose repository is whole, seeded ones from the seed.
Born == /\ Pr!Forged /\ (row.born = "seed" => sot.root = "seed")

\* What the one that holds the birth left of it so far.
Stage(w) ==
  /\ w.op = "adopt" =>
       /\ w.pc # "deployments" => row = Pr!NoRow /\ sot.there
       /\ w.pc = "cloning" => sot = [Pr!NoSot EXCEPT !.there = TRUE]
       /\ w.pc \notin {"cloning", "deployments"} => sot.bare
       /\ w.pc = "seed base" => sot.branches = {}
       /\ w.pc = "seed main" => "dev" \in sot.branches
       /\ w.pc \in {"head", "insert"} => {"dev", "main"} \subseteq sot.branches
       /\ w.pc = "insert" => sot.head = "main"
       /\ w.pc = "deployments" => row.born = "adopt" /\ (~pcut => remote = row.mirror)
  /\ w.op = "seed" =>
       /\ row.born = "seed" /\ row.mirror = w.mirror
       /\ w.pc # "init" => sot.there /\ sot.bare
       /\ ~pcut =>
            /\ w.pc = "init" => sot = Pr!NoSot
            /\ w.pc = "seed base" => sot.branches = {}
            /\ w.pc \notin {"init", "seed base"} => sot.root = "seed" /\ "dev" \in sot.branches
            /\ w.pc \notin {"init", "seed base", "seed main"} => "main" \in sot.branches
            /\ w.pc \in {"remote", "deployments"} => sot.head = "main"
            /\ remote = IF w.pc = "deployments" THEN row.mirror ELSE FALSE
  /\ w.op = "mirror" =>
       /\ row # Pr!NoRow
       /\ w.pc = "remote" => row.mirror = w.mirror
       /\ ~pcut => Born /\ deploys = {"main", "dev"}

\* What the processes are to each other: several may create at once, one kind
\* of birth only, and one of them at most is past the step that decides.
Births ==
  /\ pproc \in [Creators -> BirthType]
  /\ \A p \in Creators : Kind(pproc[p])
  /\ \A p, q \in Creators : p # q /\ pproc[p].pc # "idle" /\ pproc[q].pc # "idle"
                              => pproc[p].op = pproc[q].op /\ pproc[p].op # "mirror"
  /\ \A p, q \in Creators : Holder(pproc[p]) /\ Holder(pproc[q]) => p = q

\* What holds at every moment, a process in the middle or not.
Lasting ==
  /\ row \in RowType /\ sot \in SotType /\ remote \in BOOLEAN /\ deploys \subseteq {"dev", "main"} /\ pcut \in BOOLEAN
  /\ row.born = "not" => row = Pr!NoRow
  /\ row = Pr!NoRow => remote = FALSE
  /\ row.born = "adopt" => Pr!Forged
  /\ ~sot.there => sot = Pr!NoSot

\* What no crash left halfway is absent altogether, or whole.
Done == ~pcut => /\ row = Pr!NoRow => sot = Pr!NoSot
                 /\ row # Pr!NoRow => Born /\ deploys = {"main", "dev"} /\ remote = row.mirror

\* With nobody holding the birth.
AtRest == (\A p \in Creators : ~Holder(pproc[p])) => Done

\* Nobody adopts what was seeded.
Apart == \A p \in Creators : pproc[p].op = "adopt" => row.born # "seed"

\* Inductive: the store, the processes, and what the holder left so far.
Projected == Births /\ Lasting /\ (\A p \in Creators : Holder(pproc[p]) => Stage(pproc[p])) /\ AtRest /\ Apart

\* The invariant holds before anything is created.
LEMMA ProjectedInit == Pr!Init => Projected
<1> SUFFICES ASSUME Pr!Init PROVE Projected
  OBVIOUS
<1>1. Pr!Idle \in BirthType /\ Pr!Idle.pc = "idle" /\ ~Holder(Pr!Idle) /\ Kind(Pr!Idle)
  BY DEF Pr!Idle, BirthType, Holder, Kind, Holding
<1>2. \A p \in Creators : pproc[p] = Pr!Idle
  BY DEF Pr!Init
<1>5. Apart
  BY <1>2 DEF Apart, Pr!Idle
<1>3. Births
  BY <1>1, <1>2 DEF Births, Pr!Init
<1>4. Lasting
  BY DEF Lasting, Pr!Init, RowType, SotType, Pr!NoRow, Pr!NoSot
<1> QED BY <1>1, <1>2, <1>3, <1>4, <1>5 DEF Projected, AtRest, Done, Pr!Init

\* One process moved, and it is the only one that holds anything.
LEMMA OneBirth ==
  ASSUME Births, NEW p \in Creators, NEW new \in BirthType, pproc' = [pproc EXCEPT ![p] = new],
         Kind(new), new.op = pproc[p].op \/ new.pc = "idle", pproc[p].pc # "idle",
         Holder(new) => \A q \in Creators \ {p} : ~Holder(pproc[q])
  PROVE  /\ Births' /\ pproc'[p] = new /\ \A q \in Creators \ {p} : pproc'[q] = pproc[q]
<1>1. /\ pproc' \in [Creators -> BirthType] /\ pproc'[p] = new
      /\ \A q \in Creators \ {p} : pproc'[q] = pproc[q]
  BY DEF Births
<1>2. \A q \in Creators : Kind(pproc'[q])
  BY <1>1 DEF Births
<1>3. \A q, r \in Creators : q # r /\ pproc'[q].pc # "idle" /\ pproc'[r].pc # "idle"
                               => pproc'[q].op = pproc'[r].op /\ pproc'[q].op # "mirror"
  <2> SUFFICES ASSUME NEW q \in Creators, NEW r \in Creators, q # r, pproc'[q].pc # "idle", pproc'[r].pc # "idle"
               PROVE  pproc'[q].op = pproc'[r].op /\ pproc'[q].op # "mirror"
    OBVIOUS
  <2>1. pproc[q].pc # "idle" /\ pproc[r].pc # "idle" /\ pproc'[q].op = pproc[q].op /\ pproc'[r].op = pproc[r].op
    BY <1>1
  <2> QED BY <2>1 DEF Births
<1>4. \A q, r \in Creators : Holder(pproc'[q]) /\ Holder(pproc'[r]) => q = r
  BY <1>1 DEF Births
<1>5. (\A q \in Creators : Kind(pproc[q]))' /\ (\A q, r \in Creators : Holder(pproc[q]) /\ Holder(pproc[r]) => q = r)'
  BY <1>2, <1>4 DEF Kind, Holder
<1> QED BY <1>1, <1>3, <1>5 DEF Births

\* The invariant from one move of the process that holds the birth.
LEMMA BirthMoves ==
  ASSUME Projected, NEW p \in Creators, NEW new \in BirthType, pproc' = [pproc EXCEPT ![p] = new],
         Kind(new), new.op = pproc[p].op \/ new.pc = "idle", pproc[p].pc # "idle",
         \A q \in Creators \ {p} : ~Holder(pproc[q]),
         Lasting', Holder(new) => Stage(new)', ~Holder(new) => Done',
         row'.born \in {row.born, "adopt"} \/ new.op = "seed"
  PROVE  Projected'
<1>1. /\ Births' /\ pproc'[p] = new /\ \A q \in Creators \ {p} : pproc'[q] = pproc[q]
  BY OneBirth DEF Projected
<1>2. ASSUME NEW q \in Creators, Holder(pproc'[q]) PROVE q = p /\ Stage(pproc[q])'
  <2>1. q = p /\ pproc'[q] = new
    BY <1>1, <1>2
  <2>2. Stage(new)'
    BY <1>2, <2>1
  <2> QED BY <2>1, <2>2 DEF Stage
<1>3. (\A q \in Creators : Holder(pproc[q]) => Stage(pproc[q]))'
  BY <1>2 DEF Holder
<1>4. ASSUME \A q \in Creators : ~Holder(pproc'[q]) PROVE Done'
  BY <1>1, <1>4
<1>5. AtRest'
  BY <1>4 DEF AtRest, Holder
<1>6. ASSUME NEW q \in Creators, pproc'[q].op = "adopt" PROVE row'.born # "seed"
  <2>1. CASE q = p
    <3>1. new.op = "adopt" /\ pproc[p].op = "adopt"
      BY <1>1, <1>6, <2>1 DEF Kind
    <3> QED BY <3>1 DEF Projected, Apart
  <2>2. CASE q # p
    <3>1. pproc[q].op = "adopt" /\ row.born # "seed" /\ pproc[q].pc # "idle"
      BY <1>1, <1>6, <2>2 DEF Projected, Apart, Births, Kind
    <3>2. pproc[p].op = "adopt"
      BY <2>2, <3>1 DEF Projected, Births
    <3>3. new.op # "seed"
      BY <3>2 DEF Kind
    <3> QED BY <3>1, <3>3
  <2> QED BY <2>1, <2>2
<1>7. Apart'
  BY <1>6 DEF Apart
<1> QED BY <1>1, <1>3, <1>5, <1>7 DEF Projected

\* A process that held nothing stops, and nothing changed.
LEMMA GivesUp ==
  ASSUME Projected, NEW p \in Creators, pproc[p].pc # "idle", ~Holder(pproc[p]),
         pproc' = [pproc EXCEPT ![p] = Pr!Idle], UNCHANGED <<row, sot, remote, deploys, pcut>>
  PROVE  Projected'
<1>0. Pr!Idle \in BirthType /\ Pr!Idle.pc = "idle" /\ Pr!Idle.op = "none" /\ ~Holder(Pr!Idle) /\ Kind(Pr!Idle)
  BY DEF Pr!Idle, BirthType, Holder, Kind, Holding
<1>1. PICK idle : idle = Pr!Idle /\ idle \in BirthType /\ idle.pc = "idle" /\ idle.op = "none" /\ ~Holder(idle) /\ Kind(idle)
  BY <1>0
<1>2. /\ Births' /\ pproc'[p] = idle /\ \A q \in Creators \ {p} : pproc'[q] = pproc[q]
  BY <1>1, OneBirth DEF Projected
<1>3. \A q \in Creators : Holder(pproc'[q]) <=> Holder(pproc[q])
  BY <1>1, <1>2
<1>4. ASSUME NEW q \in Creators, Holder(pproc'[q]) PROVE Stage(pproc[q])'
  <2>1. q # p /\ pproc'[q] = pproc[q] /\ Stage(pproc[q])
    BY <1>2, <1>3, <1>4 DEF Projected
  <2> QED BY <2>1 DEF Stage, Born, Pr!Forged
<1>5. (\A q \in Creators : Holder(pproc[q]) => Stage(pproc[q]))'
  BY <1>4 DEF Holder
<1>6. AtRest'
  BY <1>3 DEF AtRest, Done, Born, Pr!Forged, Projected, Holder
<1>7. Lasting'
  BY DEF Lasting, Pr!Forged, Projected
<1>8. Apart'
  BY <1>1, <1>2 DEF Apart, Projected
<1> QED BY <1>2, <1>5, <1>6, <1>7, <1>8 DEF Projected

\* What a step may not do to a project that has its row.
Grows == /\ row # Pr!NoRow => row'.born = row.born /\ sot.branches \subseteq sot'.branches

\* Every step keeps the invariant, one step per action.
LEMMA ProjectedKept ==
  ASSUME Projected, [Pr!Next]_(Pr!vars) PROVE Projected' /\ Grows
<1>0. Upstreams \subseteq SUBSET Branches
  BY StoreAssumption DEF StoreAssumption, Pr!ProjectAssumption, Branches
<1>1. ASSUME NEW p \in Creators PROVE pproc[p] \in BirthType /\ Kind(pproc[p]) /\ (Holder(pproc[p]) => Stage(pproc[p]))
  BY DEF Projected, Births
<1>2. ASSUME NEW p \in Creators, Holder(pproc[p]) PROVE \A q \in Creators \ {p} : ~Holder(pproc[q])
  BY <1>2 DEF Projected, Births
<1>3. ASSUME NEW p \in Creators, NEW q \in Creators \ {p}, pproc[p].pc # "idle", pproc[q].pc # "idle"
      PROVE  pproc[p].op = pproc[q].op /\ pproc[p].op # "mirror"
  BY <1>3 DEF Projected, Births
<1>4. Lasting /\ row \in RowType /\ sot \in SotType /\ remote \in BOOLEAN /\ pcut \in BOOLEAN
      /\ deploys \subseteq {"dev", "main"}
  BY DEF Projected, Lasting
<1>5. pproc \in [Creators -> BirthType]
  BY DEF Projected, Births
<1>6. ASSUME NEW p \in Creators, NEW op \in {"seed", "adopt", "mirror"}, NEW mirror \in BOOLEAN, Pr!Start(p, op, mirror)
      PROVE  Projected' /\ Grows
  <2>1. PICK new : new = [pc |-> IF op = "mirror" THEN "set mirror" ELSE IF Pr!Precedes(op) THEN "insert" ELSE "clone",
                          op |-> op, mirror |-> mirror]
    OBVIOUS
  <2>2. pproc' = [pproc EXCEPT ![p] = new] /\ pproc[p].pc = "idle" /\ UNCHANGED <<row, sot, remote, deploys, pcut>>
        /\ (op = "adopt" => ~mirror /\ row = Pr!NoRow) /\ (op = "mirror" => row # Pr!NoRow)
    BY <1>6, <2>1 DEF Pr!Start, Pr!At
  <2>3. \A q \in Creators : pproc[q].pc # "idle" => pproc[q].op = op /\ op # "mirror"
    BY <1>6 DEF Pr!Start, Pr!Admitted, Pr!Busy, Pr!At
  <2>4. /\ new \in BirthType /\ new.op = op /\ new.mirror = mirror /\ Kind(new)
        /\ (Holder(new) <=> op = "mirror")
        /\ new.pc = (IF op = "mirror" THEN "set mirror" ELSE IF op = "seed" THEN "insert" ELSE "clone")
    BY <2>1, <2>2 DEF BirthType, Kind, Holder, Holding, Pr!Precedes
  <2>5. /\ pproc' \in [Creators -> BirthType] /\ pproc'[p] = new /\ ~Holder(pproc[p])
        /\ \A q \in Creators \ {p} : pproc'[q] = pproc[q]
    BY <1>5, <2>2, <2>4 DEF Holder, Holding
  <2>6. ASSUME op = "mirror" PROVE \A q \in Creators : ~Holder(pproc[q])
    BY <2>3, <2>6 DEF Holder, Holding
  <2>7. Births'
    <3>1. \A q \in Creators : Kind(pproc'[q])
      BY <1>1, <2>4, <2>5
    <3>2. \A q, r \in Creators : q # r /\ pproc'[q].pc # "idle" /\ pproc'[r].pc # "idle"
                                   => pproc'[q].op = pproc'[r].op /\ pproc'[q].op # "mirror"
      <4>1. ASSUME NEW q \in Creators \ {p}, pproc'[q].pc # "idle" PROVE pproc'[q].op = op /\ op # "mirror"
        BY <2>3, <2>5, <4>1
      <4> QED BY <2>4, <2>5, <4>1
    <3>3. \A q, r \in Creators : Holder(pproc'[q]) /\ Holder(pproc'[r]) => q = r
      BY <2>4, <2>5, <2>6 DEF Projected, Births
    <3>4. (\A q \in Creators : Kind(pproc[q]))' /\ (\A q, r \in Creators : Holder(pproc[q]) /\ Holder(pproc[r]) => q = r)'
      BY <3>1, <3>3 DEF Kind, Holder
    <3> QED BY <2>5, <3>2, <3>4 DEF Births
  <2>8. ASSUME NEW q \in Creators, Holder(pproc'[q]) PROVE Stage(pproc[q])'
    <3>1. CASE q # p
      <4>1. pproc'[q] = pproc[q] /\ Stage(pproc[q])
        BY <1>1, <2>5, <2>8, <3>1
      <4> QED BY <2>2, <4>1 DEF Stage, Born, Pr!Forged
    <3>2. CASE q = p
      <4>1. op = "mirror" /\ Done /\ row # Pr!NoRow
        BY <2>2, <2>4, <2>5, <2>6, <2>8, <3>2 DEF Projected, AtRest
      <4>2. Stage(new)
        BY <2>4, <4>1 DEF Stage, Done
      <4> QED BY <2>2, <2>5, <3>2, <4>2 DEF Stage, Born, Pr!Forged
    <3> QED BY <3>1, <3>2
  <2>9. (\A q \in Creators : Holder(pproc[q]) => Stage(pproc[q]))'
    BY <2>8 DEF Holder
  <2>10. AtRest'
    <3>1. (\A q \in Creators : ~Holder(pproc'[q])) => \A q \in Creators : ~Holder(pproc[q])
      BY <2>5
    <3> QED BY <2>2, <3>1 DEF AtRest, Done, Born, Pr!Forged, Projected, Holder
  <2>11. Lasting'
    BY <1>4, <2>2 DEF Lasting, Pr!Forged
  <2>12. Apart'
    <3>1. op = "adopt" => row.born # "seed"
      BY <2>2 DEF Pr!NoRow
    <3>2. ASSUME NEW q \in Creators, pproc'[q].op = "adopt" PROVE row'.born # "seed"
      BY <2>2, <2>4, <2>5, <3>1, <3>2 DEF Apart, Projected
    <3> QED BY <3>2 DEF Apart
  <2> QED BY <2>2, <2>7, <2>9, <2>10, <2>11, <2>12 DEF Projected, Grows
<1>7. ASSUME NEW p \in Creators, Pr!BeginClone(p) PROVE Projected' /\ Grows
  <2>1. PICK w, new : w = pproc[p] /\ new = [w EXCEPT !.pc = "cloning"]
    OBVIOUS
  <2>2. /\ w.pc = "clone" /\ UNCHANGED <<row, remote, deploys, pcut>>
        /\ \/ sot.there /\ pproc' = [pproc EXCEPT ![p] = Pr!Idle] /\ UNCHANGED sot
           \/ ~sot.there /\ sot' = [Pr!NoSot EXCEPT !.there = TRUE] /\ pproc' = [pproc EXCEPT ![p] = new]
    BY <1>5, <1>7, <2>1 DEF Pr!BeginClone, Pr!At, Pr!Done, Pr!To
  <2>3. w \in BirthType /\ Kind(w) /\ ~Holder(w) /\ w.op = "adopt"
    BY <1>1, <2>1, <2>2 DEF Kind, Holder, Holding, BirthType
  <2>4. CASE sot.there /\ pproc' = [pproc EXCEPT ![p] = Pr!Idle] /\ UNCHANGED sot
    BY <2>1, <2>2, <2>3, <2>4, GivesUp DEF Grows
  <2>5. CASE ~sot.there /\ sot' = [Pr!NoSot EXCEPT !.there = TRUE] /\ pproc' = [pproc EXCEPT ![p] = new]
    <3>1. /\ new \in BirthType /\ new.pc = "cloning" /\ new.op = "adopt" /\ new.mirror = w.mirror /\ Kind(new) /\ Holder(new)
      BY <2>1, <2>3 DEF BirthType, Kind, Holder, Holding
    <3>2. sot = Pr!NoSot /\ row.born # "adopt"
      BY <1>4, <2>5 DEF Lasting, Pr!Forged, Pr!NoSot
    <3>3. ASSUME NEW q \in Creators \ {p} PROVE ~Holder(pproc[q])
      <4> SUFFICES ASSUME Holder(pproc[q]) PROVE FALSE
        OBVIOUS
      <4>1. pproc[q].op = "adopt" /\ Stage(pproc[q])
        BY <1>1, <1>3, <2>1, <2>2, <2>3 DEF Holder, Holding
      <4> QED BY <2>5, <3>2, <4>1 DEF Stage
    <3>4. row = Pr!NoRow /\ remote = FALSE
      <4>1. row.born # "seed"
        BY <2>1, <2>3 DEF Projected, Apart
      <4> QED BY <1>4, <3>2, <4>1 DEF Lasting, RowType
    <3>5. Stage(new)'
      BY <2>2, <2>5, <3>1, <3>4 DEF Stage, Pr!NoSot
    <3>6. Lasting'
      BY <1>4, <2>2, <2>5, <3>4 DEF Lasting, SotType, Pr!NoSot, Pr!NoRow
    <3>7. Projected'
      BY <2>1, <2>2, <2>3, <2>5, <3>1, <3>3, <3>5, <3>6, BirthMoves
    <3> QED BY <2>2, <3>4, <3>7 DEF Grows
  <2> QED BY <2>2, <2>4, <2>5
<1>8. ASSUME NEW p \in Creators, Pr!EndClone(p) PROVE Projected' /\ Grows
  <2>1. PICK w, new, idle : w = pproc[p] /\ new = [w EXCEPT !.pc = "normalize"] /\ idle = Pr!Idle
    OBVIOUS
  <2>2. /\ w.pc = "cloning" /\ UNCHANGED <<row, remote, deploys, pcut>>
        /\ \/ sot' = Pr!NoSot /\ pproc' = [pproc EXCEPT ![p] = idle]
           \/ pproc' = [pproc EXCEPT ![p] = new] /\
              \E held \in Upstreams :
                sot' = [there |-> TRUE, bare |-> TRUE, branches |-> held, head |-> "master",
                        root |-> IF held = {} THEN "none" ELSE "upstream"]
    BY <1>5, <1>8, <2>1 DEF Pr!EndClone, Pr!At, Pr!Done, Pr!To
  <2>3. w \in BirthType /\ Kind(w) /\ Holder(w) /\ Stage(w) /\ w.op = "adopt" /\ row = Pr!NoRow
        /\ \A q \in Creators \ {p} : ~Holder(pproc[q])
    <3>1. Holder(w)
      BY <2>2 DEF Holder, Holding
    <3>2. w \in BirthType /\ Kind(w) /\ Stage(w) /\ w.op = "adopt"
      BY <1>1, <2>1, <2>2, <3>1 DEF Kind, BirthType
    <3> QED BY <1>2, <2>1, <2>2, <3>1, <3>2 DEF Stage
  <2>4. CASE sot' = Pr!NoSot /\ pproc' = [pproc EXCEPT ![p] = idle]
    <3>1. idle \in BirthType /\ idle.pc = "idle" /\ Kind(idle) /\ ~Holder(idle)
      BY <2>1 DEF Pr!Idle, BirthType, Holder, Kind, Holding
    <3>2. Done'
      BY <2>2, <2>3, <2>4 DEF Done
    <3>3. Lasting'
      BY <1>4, <2>2, <2>3, <2>4 DEF Lasting, SotType, Pr!NoSot, Pr!NoRow
    <3>4. Projected'
      BY <2>1, <2>2, <2>3, <2>4, <3>1, <3>2, <3>3, BirthMoves
    <3> QED BY <2>2, <2>3, <3>4 DEF Grows
  <2>5. ASSUME NEW held \in Upstreams, pproc' = [pproc EXCEPT ![p] = new],
               sot' = [there |-> TRUE, bare |-> TRUE, branches |-> held, head |-> "master",
                       root |-> IF held = {} THEN "none" ELSE "upstream"]
        PROVE  Projected' /\ Grows
    <3>1. new \in BirthType /\ new.pc = "normalize" /\ new.op = "adopt" /\ new.mirror = w.mirror /\ Kind(new) /\ Holder(new)
      BY <2>1, <2>3 DEF BirthType, Kind, Holder, Holding
    <3>2. Stage(new)'
      BY <2>2, <2>3, <2>5, <3>1 DEF Stage
    <3>3. sot' \in SotType
      BY <1>0, <2>5 DEF SotType
    <3>4. Lasting'
      BY <1>4, <2>2, <2>3, <2>5, <3>3 DEF Lasting, Pr!NoRow
    <3>5. Projected'
      BY <2>1, <2>2, <2>3, <2>5, <3>1, <3>2, <3>4, BirthMoves
    <3> QED BY <2>2, <2>3, <3>5 DEF Grows
  <2> QED BY <2>2, <2>4, <2>5
<1>9. ASSUME NEW p \in Creators, NEW new, pproc' = [pproc EXCEPT ![p] = new],
             new = [pproc[p] EXCEPT !.pc = new.pc], new \in BirthType, Kind(new), Holder(pproc[p]), Holder(new),
             UNCHANGED <<row, remote, deploys, pcut>>, Stage(new)', sot' \in SotType, sot'.there,
             sot.branches \subseteq sot'.branches, sot'.bare, sot'.head \in {sot.head, "main"}
      PROVE  Projected' /\ Grows
  <2>1. new.op = pproc[p].op /\ new.pc # "idle" /\ pproc[p].pc # "idle"
    <3>1. pproc[p] \in BirthType
      BY <1>1
    <3>2. [pproc[p] EXCEPT !.pc = new.pc].op = pproc[p].op
      BY <3>1 DEF BirthType
    <3> QED BY <1>9, <3>2 DEF Holder, Holding
  <2>2. Lasting'
    <3>1. row.born = "adopt" => Pr!Forged'
      BY <1>4, <1>9 DEF Lasting, Pr!Forged
    <3> QED BY <1>4, <1>9, <3>1 DEF Lasting
  <2>3. \A q \in Creators \ {p} : ~Holder(pproc[q])
    BY <1>2, <1>9
  <2>4. Projected'
    BY <1>9, <2>1, <2>2, <2>3, BirthMoves
  <2> QED BY <1>9, <2>4 DEF Grows
<1>10. ASSUME NEW p \in Creators, Pr!Normalize(p) PROVE Projected' /\ Grows
  <2>1. PICK w, at, new : /\ w = pproc[p] /\ new = [w EXCEPT !.pc = at]
                          /\ at = IF sot.branches = {} THEN "seed base"
                                  ELSE IF {"dev", "main"} \subseteq sot.branches THEN "head" ELSE "normalize"
    OBVIOUS
  <2>2. w.pc = "normalize" /\ UNCHANGED <<row, remote, deploys, pcut>>
    BY <1>10, <2>1 DEF Pr!Normalize, Pr!At
  <2>3. w \in BirthType /\ Kind(w) /\ Holder(w) /\ Stage(w) /\ w.op = "adopt" /\ row = Pr!NoRow
    <3>1. Holder(w)
      BY <2>2 DEF Holder, Holding
    <3>2. w \in BirthType /\ Kind(w) /\ Stage(w) /\ w.op = "adopt"
      BY <1>1, <2>1, <2>2, <3>1 DEF Kind, BirthType
    <3> QED BY <2>2, <3>1, <3>2 DEF Stage
  <2>4. /\ pproc' = [pproc EXCEPT ![p] = new]
        /\ sot' = sot \/ (at = "normalize" /\ sot' = [sot EXCEPT !.branches = @ \cup {"dev"}])
                      \/ (at = "normalize" /\ sot' = [sot EXCEPT !.branches = @ \cup {"main"}])
    <3>1. w.pc = "normalize" => pproc = [pproc EXCEPT ![p] = [w EXCEPT !.pc = "normalize"]]
      <4> SUFFICES ASSUME w.pc = "normalize" PROVE pproc = [pproc EXCEPT ![p] = [w EXCEPT !.pc = "normalize"]]
        OBVIOUS
      <4>1. w = [w EXCEPT !.pc = "normalize"]
        BY <2>3 DEF BirthType
      <4> QED BY <1>5, <2>1, <4>1
    <3> QED BY <1>5, <1>10, <2>1, <2>2, <3>1 DEF Pr!Normalize, Pr!To
  <2>5. at \in {"seed base", "head", "normalize"}
    BY <2>1
  <2>6. new \in BirthType /\ new.pc = at /\ new.op = "adopt" /\ new.mirror = w.mirror /\ Kind(new) /\ Holder(new)
    BY <2>1, <2>3, <2>5 DEF BirthType, Kind, Holder, Holding
  <2>7. /\ sot' \in SotType /\ sot'.there = sot.there /\ sot'.bare = sot.bare /\ sot'.head = sot.head
        /\ sot.branches \subseteq sot'.branches
    BY <1>4, <2>4 DEF SotType, Branches
  <2>8. sot.there /\ sot.bare
    BY <2>2, <2>3 DEF Stage
  <2>9. at # "normalize" => sot' = sot
    BY <2>4
  <2>10. Stage(new)'
    BY <2>1, <2>2, <2>3, <2>5, <2>6, <2>7, <2>8, <2>9 DEF Stage
  <2> QED BY <1>9, <2>1, <2>2, <2>3, <2>4, <2>6, <2>7, <2>8, <2>10
<1>11. ASSUME NEW p \in Creators, Pr!InitSot(p) PROVE Projected' /\ Grows
  <2>1. PICK w, new : w = pproc[p] /\ new = [w EXCEPT !.pc = "seed base"]
    OBVIOUS
  <2>2. w.pc = "init" /\ UNCHANGED <<row, remote, deploys, pcut>> /\ pproc' = [pproc EXCEPT ![p] = new]
        /\ sot' = [sot EXCEPT !.there = TRUE, !.bare = TRUE]
    BY <1>5, <1>11, <2>1 DEF Pr!InitSot, Pr!At, Pr!To
  <2>3. w \in BirthType /\ Kind(w) /\ Holder(w) /\ Stage(w) /\ w.op = "seed"
    <3>1. Holder(w)
      BY <2>2 DEF Holder, Holding
    <3> QED BY <1>1, <2>1, <2>2, <3>1 DEF Kind, BirthType
  <2>4. new \in BirthType /\ new.pc = "seed base" /\ new.op = "seed" /\ new.mirror = w.mirror /\ Kind(new) /\ Holder(new)
    BY <2>1, <2>3 DEF BirthType, Kind, Holder, Holding
  <2>5. /\ sot' \in SotType /\ sot'.there /\ sot'.bare /\ sot'.head = sot.head /\ sot'.branches = sot.branches
    BY <1>4, <2>2 DEF SotType
  <2>6. Stage(new)'
    <3>1. row.born = "seed" /\ row.mirror = w.mirror /\ (~pcut => sot = Pr!NoSot /\ remote = FALSE)
      BY <2>2, <2>3 DEF Stage
    <3>2. ~pcut => sot.branches = {}
      BY <3>1 DEF Pr!NoSot
    <3>3. UNCHANGED <<row, remote, pcut>>
      BY <2>2
    <3> QED BY <2>4, <2>5, <3>1, <3>2, <3>3 DEF Stage
  <2> QED BY <1>9, <2>1, <2>2, <2>3, <2>4, <2>5, <2>6
<1>12. ASSUME NEW p \in Creators, Pr!SeedBase(p) PROVE Projected' /\ Grows
  <2>1. PICK w, at, new : /\ w = pproc[p] /\ new = [w EXCEPT !.pc = at]
                          /\ at = IF "dev" \in sot.branches THEN "head" ELSE "seed main"
    OBVIOUS
  <2>2. w.pc = "seed base" /\ UNCHANGED <<row, remote, deploys, pcut>> /\ pproc' = [pproc EXCEPT ![p] = new]
        /\ sot' = IF "dev" \in sot.branches THEN sot ELSE [sot EXCEPT !.branches = @ \cup {"dev"}, !.root = "seed"]
    BY <1>5, <1>12, <2>1 DEF Pr!SeedBase, Pr!At, Pr!To
  <2>3. w \in BirthType /\ Kind(w) /\ Holder(w) /\ Stage(w) /\ w.op \in {"seed", "adopt"}
    <3>1. Holder(w)
      BY <2>2 DEF Holder, Holding
    <3> QED BY <1>1, <2>1, <2>2, <3>1 DEF Kind, BirthType
  <2>4. new \in BirthType /\ new.pc = at /\ new.op = w.op /\ new.mirror = w.mirror /\ Kind(new) /\ Holder(new)
    <3>1. at \in {"head", "seed main"}
      BY <2>1
    <3> QED BY <2>1, <2>3, <3>1 DEF BirthType, Kind, Holder, Holding
  <2>5. /\ sot' \in SotType /\ sot'.there = sot.there /\ sot'.bare = sot.bare /\ sot'.head = sot.head
        /\ sot'.branches = sot.branches \cup {"dev"} /\ ("dev" \in sot.branches \/ sot'.root = "seed")
    BY <1>4, <2>2 DEF SotType, Branches
  <2>6. sot.there /\ sot.bare
    BY <2>2, <2>3 DEF Stage
  <2>7. Stage(new)'
    <3>1. CASE w.op = "adopt"
      <4>1. row = Pr!NoRow /\ sot.branches = {}
        BY <2>2, <2>3, <3>1 DEF Stage
      <4>2. at = "seed main" /\ "dev" \in sot'.branches /\ row' = row
        BY <2>1, <2>2, <2>5, <4>1
      <4>3. new.op = "adopt" /\ new.pc = "seed main" /\ row' = Pr!NoRow
        BY <2>4, <3>1, <4>1, <4>2
      <4> QED BY <2>5, <2>6, <4>2, <4>3 DEF Stage
    <3>2. CASE w.op = "seed"
      <4>1. /\ row.born = "seed" /\ row.mirror = w.mirror /\ (~pcut => sot.branches = {} /\ remote = FALSE)
        BY <2>2, <2>3, <3>2 DEF Stage
      <4>2. ~pcut => at = "seed main" /\ sot'.root = "seed"
        BY <2>1, <2>5, <4>1
      <4>3. at \in {"head", "seed main"} /\ UNCHANGED <<row, remote, pcut>>
        BY <2>1, <2>2
      <4> QED BY <2>4, <2>5, <2>6, <3>2, <4>1, <4>2, <4>3 DEF Stage
    <3> QED BY <2>3, <3>1, <3>2
  <2> QED BY <1>9, <2>1, <2>2, <2>3, <2>4, <2>5, <2>6, <2>7
<1>13. ASSUME NEW p \in Creators, Pr!SeedMain(p) PROVE Projected' /\ Grows
  <2>1. PICK w, new : w = pproc[p] /\ new = [w EXCEPT !.pc = "head"]
    OBVIOUS
  <2>2. w.pc = "seed main" /\ UNCHANGED <<row, remote, deploys, pcut>> /\ pproc' = [pproc EXCEPT ![p] = new]
        /\ sot' = [sot EXCEPT !.branches = @ \cup {"main"}]
    BY <1>5, <1>13, <2>1 DEF Pr!SeedMain, Pr!At, Pr!To
  <2>3. w \in BirthType /\ Kind(w) /\ Holder(w) /\ Stage(w) /\ w.op \in {"seed", "adopt"}
    <3>1. Holder(w)
      BY <2>2 DEF Holder, Holding
    <3> QED BY <1>1, <2>1, <2>2, <3>1 DEF Kind, BirthType
  <2>4. new \in BirthType /\ new.pc = "head" /\ new.op = w.op /\ new.mirror = w.mirror /\ Kind(new) /\ Holder(new)
    BY <2>1, <2>3 DEF BirthType, Kind, Holder, Holding
  <2>5. /\ sot' \in SotType /\ sot'.there = sot.there /\ sot'.bare = sot.bare /\ sot'.head = sot.head
        /\ sot'.branches = sot.branches \cup {"main"} /\ sot'.root = sot.root
    BY <1>4, <2>2 DEF SotType, Branches
  <2>6. sot.there /\ sot.bare
    BY <2>2, <2>3 DEF Stage
  <2>7. Stage(new)'
    <3>1. CASE w.op = "adopt"
      BY <2>2, <2>3, <2>4, <2>5, <2>6, <3>1 DEF Stage
    <3>2. CASE w.op = "seed"
      BY <2>2, <2>3, <2>4, <2>5, <2>6, <3>2 DEF Stage
    <3> QED BY <2>3, <3>1, <3>2
  <2> QED BY <1>9, <2>1, <2>2, <2>3, <2>4, <2>5, <2>6, <2>7
<1>14. ASSUME NEW p \in Creators, Pr!PointHead(p) PROVE Projected' /\ Grows
  <2>1. PICK w, at, new : /\ w = pproc[p] /\ new = [w EXCEPT !.pc = at]
                          /\ at = IF w.op = "adopt" THEN "insert" ELSE IF w.mirror THEN "remote" ELSE "deployments"
    OBVIOUS
  <2>2. w.pc = "head" /\ UNCHANGED <<row, remote, deploys, pcut>> /\ pproc' = [pproc EXCEPT ![p] = new]
        /\ sot' = [sot EXCEPT !.head = "main"]
    BY <1>5, <1>14, <2>1 DEF Pr!PointHead, Pr!At, Pr!To, Pr!Precedes
  <2>3. w \in BirthType /\ Kind(w) /\ Holder(w) /\ Stage(w) /\ w.op \in {"seed", "adopt"}
    <3>1. Holder(w)
      BY <2>2 DEF Holder, Holding
    <3> QED BY <1>1, <2>1, <2>2, <3>1 DEF Kind, BirthType
  <2>4. new \in BirthType /\ new.pc = at /\ new.op = w.op /\ new.mirror = w.mirror /\ Kind(new) /\ Holder(new)
    <3>1. at \in {"insert", "remote", "deployments"} /\ (w.op = "adopt" <=> at = "insert")
      BY <2>1
    <3> QED BY <2>1, <2>3, <3>1 DEF BirthType, Kind, Holder, Holding
  <2>5. /\ sot' \in SotType /\ sot'.there = sot.there /\ sot'.bare = sot.bare /\ sot'.head = "main"
        /\ sot'.branches = sot.branches /\ sot'.root = sot.root
    BY <1>4, <2>2 DEF SotType
  <2>6. sot.there /\ sot.bare
    BY <2>2, <2>3 DEF Stage
  <2>7. Stage(new)'
    <3>1. CASE w.op = "adopt"
      <4>1. row = Pr!NoRow /\ {"dev", "main"} \subseteq sot.branches
        BY <2>2, <2>3, <3>1 DEF Stage
      <4>2. new.op = "adopt" /\ new.pc = "insert" /\ row' = Pr!NoRow
        BY <2>1, <2>2, <2>4, <3>1, <4>1
      <4> QED BY <2>5, <2>6, <4>1, <4>2 DEF Stage
    <3>2. CASE w.op = "seed"
      <4>1. /\ row.born = "seed" /\ row.mirror = w.mirror
            /\ ~pcut => sot.root = "seed" /\ {"dev", "main"} \subseteq sot.branches /\ remote = FALSE
        BY <2>2, <2>3, <3>2 DEF Stage
      <4>2. at \in {"remote", "deployments"} /\ (at = "deployments" => row.mirror = FALSE) /\ UNCHANGED <<row, remote, pcut>>
        BY <2>1, <2>2, <2>3, <3>2, <4>1 DEF BirthType
      <4> QED BY <2>4, <2>5, <2>6, <3>2, <4>1, <4>2 DEF Stage
    <3> QED BY <2>3, <3>1, <3>2
  <2> QED BY <1>9, <2>1, <2>2, <2>3, <2>4, <2>5, <2>6, <2>7
<1>15. ASSUME NEW p \in Creators, Pr!Insert(p) PROVE Projected' /\ Grows
  <2>1. PICK w, at, new, idle : /\ w = pproc[p] /\ new = [w EXCEPT !.pc = at] /\ idle = Pr!Idle
                                /\ at = IF w.op = "seed" THEN "init" ELSE "deployments"
    OBVIOUS
  <2>2. w \in BirthType /\ Kind(w) /\ w.op \in {"seed", "adopt"} /\ w.pc = "insert" /\ UNCHANGED <<remote, deploys, pcut>>
    <3>1. w.pc = "insert" /\ UNCHANGED <<remote, deploys, pcut>>
      BY <1>15, <2>1 DEF Pr!Insert, Pr!At
    <3> QED BY <1>1, <2>1, <3>1 DEF Kind, BirthType
  <2>3. CASE row = Pr!NoRow
    <3>1. /\ pproc' = [pproc EXCEPT ![p] = new] /\ row' = [born |-> w.op, mirror |-> w.mirror] /\ UNCHANGED sot
      BY <1>5, <1>15, <2>1, <2>2, <2>3 DEF Pr!Insert, Pr!To, Pr!Precedes
    <3>2. /\ new \in BirthType /\ new.pc = at /\ new.op = w.op /\ new.mirror = w.mirror /\ Kind(new) /\ Holder(new)
      <4>1. at \in {"init", "deployments"} /\ (w.op = "seed" <=> at = "init")
        BY <2>1, <2>2
      <4> QED BY <2>1, <2>2, <4>1 DEF BirthType, Kind, Holder, Holding
    <3>3. ASSUME NEW q \in Creators \ {p}, Holder(pproc[q]) PROVE FALSE
      <4>1. pproc[q].pc # "idle" /\ pproc[q].op = w.op /\ Stage(pproc[q])
        BY <1>1, <1>3, <2>1, <2>2, <3>3 DEF Holder, Holding
      <4>2. w.op = "adopt"
        BY <2>2, <2>3, <4>1 DEF Stage, Pr!NoRow
      <4>3. Holder(w)
        BY <2>2, <4>2 DEF Holder
      <4> QED BY <1>2, <2>1, <3>3, <4>3
    <3>4. row' \in RowType /\ row'.born = w.op /\ row'.mirror = w.mirror /\ remote = FALSE /\ row' # Pr!NoRow
      BY <1>4, <2>2, <2>3, <3>1 DEF RowType, BirthType, Lasting, Pr!NoRow
    <3>5. CASE w.op = "adopt"
      <4>1. Holder(w) /\ Stage(w) /\ ~w.mirror
        BY <1>1, <2>1, <2>2, <3>5 DEF Holder, Kind
      <4>2. Pr!Forged
        BY <2>2, <3>5, <4>1 DEF Stage, Pr!Forged
      <4>3. Stage(new)'
        <5>1. new.op = "adopt" /\ new.pc = "deployments" /\ row'.born = "adopt"
          BY <2>1, <3>2, <3>4, <3>5
        <5>2. row'.mirror = FALSE /\ remote' = FALSE
          BY <2>2, <3>4, <4>1 DEF BirthType
        <5> QED BY <5>1, <5>2 DEF Stage
      <4>4. Lasting'
        BY <1>4, <2>2, <3>1, <3>4, <3>5, <4>2 DEF Lasting, Pr!Forged
      <4>5. Projected'
        BY <2>1, <2>2, <3>1, <3>2, <3>3, <3>4, <3>5, <4>3, <4>4, BirthMoves
      <4> QED BY <2>3, <4>5 DEF Grows
    <3>6. CASE w.op = "seed"
      <4>1. ~Holder(w)
        BY <2>2, <3>6 DEF Holder, Holding
      <4>2. ~pcut => sot = Pr!NoSot
        BY <2>1, <2>3, <3>3, <4>1 DEF Projected, AtRest, Done
      <4>3. Stage(new)'
        <5>1. new.op = "seed" /\ new.pc = "init" /\ row'.born = "seed" /\ row'.mirror = new.mirror
          BY <2>1, <3>2, <3>4, <3>6
        <5>2. UNCHANGED <<sot, remote, pcut>> /\ remote = FALSE
          BY <2>2, <3>1, <3>4
        <5> QED BY <4>2, <5>1, <5>2 DEF Stage
      <4>4. Lasting'
        BY <1>4, <2>2, <3>1, <3>4, <3>6 DEF Lasting
      <4>5. Projected'
        BY <2>1, <2>2, <3>1, <3>2, <3>3, <3>4, <3>6, <4>3, <4>4, BirthMoves
      <4> QED BY <2>3, <4>5 DEF Grows
    <3> QED BY <2>2, <3>5, <3>6
  <2>4. CASE row # Pr!NoRow
    <3>1. pproc' = [pproc EXCEPT ![p] = Pr!Idle] /\ UNCHANGED row
          /\ sot' = IF w.op = "adopt" THEN Pr!NoSot ELSE sot
      BY <1>15, <2>1, <2>4 DEF Pr!Insert, Pr!Done
    <3>2. w.op = "seed"
      <4>1. w.op = "adopt" => Holder(w) /\ Stage(w)
        BY <1>1, <2>1, <2>2 DEF Holder
      <4> QED BY <2>2, <2>4, <4>1 DEF Stage
    <3>3. ~Holder(w)
      BY <2>2, <3>2 DEF Holder, Holding
    <3>4. Projected'
      BY <2>1, <2>2, <3>1, <3>2, <3>3, GivesUp
    <3> QED BY <3>1, <3>2, <3>4 DEF Grows
  <2> QED BY <2>3, <2>4
<1>16. ASSUME NEW p \in Creators, NEW idle, idle = Pr!Idle, pproc' = [pproc EXCEPT ![p] = idle],
              Holder(pproc[p]), UNCHANGED <<row, sot>>, Lasting', Done'
       PROVE  Projected' /\ Grows
  <2>1. idle \in BirthType /\ idle.pc = "idle" /\ Kind(idle) /\ ~Holder(idle)
    BY <1>16 DEF Pr!Idle, BirthType, Holder, Kind, Holding
  <2>2. pproc[p].pc # "idle" /\ \A q \in Creators \ {p} : ~Holder(pproc[q])
    BY <1>2, <1>16 DEF Holder, Holding
  <2>3. Projected'
    BY <1>16, <2>1, <2>2, BirthMoves
  <2> QED BY <1>16, <2>3 DEF Grows
<1>17. ASSUME NEW p \in Creators, Pr!EnsureDeployments(p) PROVE Projected' /\ Grows
  <2>1. PICK w, idle : w = pproc[p] /\ idle = Pr!Idle
    OBVIOUS
  <2>2. w.pc = "deployments" /\ UNCHANGED <<row, sot, remote, pcut>> /\ deploys' = {"main", "dev"}
        /\ pproc' = [pproc EXCEPT ![p] = idle]
    BY <1>17, <2>1 DEF Pr!EnsureDeployments, Pr!At, Pr!Done
  <2>3. Holder(w) /\ Stage(w) /\ w.op \in {"seed", "adopt"} /\ Kind(w) /\ w \in BirthType
    <3>1. Holder(w)
      BY <2>2 DEF Holder, Holding
    <3> QED BY <1>1, <2>1, <2>2, <3>1 DEF Kind, BirthType
  <2>4. Lasting'
    BY <1>4, <2>2 DEF Lasting, Pr!Forged
  <2>5. Done'
    <3>1. CASE w.op = "adopt"
      <4>1. row.born = "adopt" /\ (~pcut => remote = row.mirror)
        BY <2>2, <2>3, <3>1 DEF Stage
      <4>2. Pr!Forged
        BY <1>4, <4>1 DEF Lasting
      <4> QED BY <2>2, <4>1, <4>2 DEF Done, Born, Pr!Forged, Pr!NoRow
    <3>2. CASE w.op = "seed"
      <4>1. row.born = "seed" /\ sot.bare
            /\ (~pcut => /\ remote = row.mirror /\ sot.root = "seed" /\ {"dev", "main"} \subseteq sot.branches
                         /\ sot.head = "main")
        BY <2>2, <2>3, <3>2 DEF Stage
      <4> QED BY <2>2, <4>1 DEF Done, Born, Pr!Forged, Pr!NoRow
    <3> QED BY <2>3, <3>1, <3>2
  <2> QED BY <1>16, <2>1, <2>2, <2>3, <2>4, <2>5
<1>18. ASSUME NEW p \in Creators, Pr!SetMirror(p) PROVE Projected' /\ Grows
  <2>1. PICK w, new : w = pproc[p] /\ new = [w EXCEPT !.pc = "remote"]
    OBVIOUS
  <2>2. w.pc = "set mirror" /\ UNCHANGED <<sot, remote, deploys, pcut>> /\ pproc' = [pproc EXCEPT ![p] = new]
        /\ row' = [row EXCEPT !.mirror = w.mirror]
    BY <1>5, <1>18, <2>1 DEF Pr!SetMirror, Pr!At, Pr!To
  <2>3. w \in BirthType /\ Kind(w) /\ Holder(w) /\ Stage(w) /\ w.op = "mirror" /\ row # Pr!NoRow
    <3>1. Holder(w)
      BY <2>2 DEF Holder, Holding
    <3>2. w \in BirthType /\ Kind(w) /\ Stage(w) /\ w.op = "mirror"
      BY <1>1, <2>1, <2>2, <3>1 DEF Kind, BirthType
    <3> QED BY <3>1, <3>2 DEF Stage
  <2>4. new \in BirthType /\ new.pc = "remote" /\ new.op = "mirror" /\ new.mirror = w.mirror /\ Kind(new) /\ Holder(new)
    BY <2>1, <2>3 DEF BirthType, Kind, Holder, Holding
  <2>5. row' \in RowType /\ row'.born = row.born /\ row'.mirror = w.mirror /\ row.born # "not" /\ row' # Pr!NoRow
    BY <1>4, <2>2, <2>3 DEF RowType, BirthType, Lasting, Pr!NoRow
  <2>6. Stage(new)'
    <3>1. ~pcut => Born /\ deploys = {"main", "dev"}
      BY <2>3 DEF Stage
    <3> QED BY <2>2, <2>4, <2>5, <3>1 DEF Stage, Born, Pr!Forged
  <2>7. Lasting'
    BY <1>4, <2>2, <2>5 DEF Lasting, Pr!Forged
  <2>8. \A q \in Creators \ {p} : ~Holder(pproc[q])
    BY <1>2, <2>1, <2>3
  <2>9. Projected'
    BY <2>1, <2>2, <2>3, <2>4, <2>5, <2>6, <2>7, <2>8, BirthMoves
  <2> QED BY <2>2, <2>5, <2>9 DEF Grows
<1>19. ASSUME NEW p \in Creators, Pr!SetRemote(p) PROVE Projected' /\ Grows
  <2>1. PICK w, new, idle : w = pproc[p] /\ new = [w EXCEPT !.pc = "deployments"] /\ idle = Pr!Idle
    OBVIOUS
  <2>2. /\ w.pc = "remote" /\ UNCHANGED <<row, sot, deploys, pcut>>
        /\ remote' = (IF sot.bare THEN w.mirror ELSE remote)
        /\ pproc' = [pproc EXCEPT ![p] = IF w.op = "seed" THEN new ELSE idle]
    BY <1>5, <1>19, <2>1 DEF Pr!SetRemote, Pr!At, Pr!To, Pr!Done
  <2>3. w \in BirthType /\ Kind(w) /\ Holder(w) /\ Stage(w) /\ w.op \in {"seed", "mirror"}
    <3>1. Holder(w)
      BY <2>2 DEF Holder, Holding
    <3> QED BY <1>1, <2>1, <2>2, <3>1 DEF Kind, BirthType
  <2>4. row # Pr!NoRow /\ row.mirror = w.mirror /\ remote' \in BOOLEAN
    <3>1. row # Pr!NoRow /\ row.mirror = w.mirror
      <4>1. CASE w.op = "seed"
        <5>1. row.born = "seed" /\ row.mirror = w.mirror
          BY <2>3, <4>1 DEF Stage
        <5> QED BY <5>1 DEF Pr!NoRow
      <4>2. CASE w.op = "mirror"
        BY <2>2, <2>3, <4>2 DEF Stage
      <4> QED BY <2>3, <4>1, <4>2
    <3> QED BY <1>4, <2>2, <2>3, <3>1 DEF BirthType
  <2>5. Lasting'
    BY <1>4, <2>2, <2>4 DEF Lasting, Pr!Forged
  <2>6. CASE w.op = "mirror"
    <3>1. ~pcut => Born /\ deploys = {"main", "dev"}
      BY <2>3, <2>6 DEF Stage
    <3>2. ~pcut => remote' = row.mirror
      BY <2>2, <2>4, <3>1 DEF Born, Pr!Forged
    <3>3. Done'
      BY <2>2, <2>4, <3>1, <3>2 DEF Done, Born, Pr!Forged
    <3> QED BY <1>16, <2>1, <2>2, <2>3, <2>5, <2>6, <3>3
  <2>7. CASE w.op = "seed"
    <3>1. new \in BirthType /\ new.pc = "deployments" /\ new.op = "seed" /\ new.mirror = w.mirror /\ Kind(new) /\ Holder(new)
      BY <2>1, <2>3, <2>7 DEF BirthType, Kind, Holder, Holding
    <3>2. /\ row.born = "seed" /\ row.mirror = w.mirror /\ sot.there /\ sot.bare
          /\ ~pcut => sot.root = "seed" /\ {"dev", "main"} \subseteq sot.branches /\ sot.head = "main"
      BY <2>2, <2>3, <2>7 DEF Stage
    <3>3. UNCHANGED <<row, sot, pcut>> /\ remote' = row.mirror
      BY <2>2, <3>2
    <3>4. Stage(new)'
      BY <3>1, <3>2, <3>3 DEF Stage
    <3>5. \A q \in Creators \ {p} : ~Holder(pproc[q])
      BY <1>2, <2>1, <2>3
    <3>6. Projected'
      BY <2>1, <2>2, <2>3, <2>5, <2>7, <3>1, <3>4, <3>5, BirthMoves
    <3> QED BY <2>2, <3>6 DEF Grows
  <2> QED BY <2>3, <2>6, <2>7
<1>20. ASSUME NEW p \in Creators, Pr!Cut(p) PROVE Projected' /\ Grows
  <2>1. PICK w, idle : w = pproc[p] /\ idle = Pr!Idle
    OBVIOUS
  <2>2. w.pc # "idle" /\ UNCHANGED <<row, sot, remote, deploys>> /\ pcut' = TRUE
        /\ pproc' = [pproc EXCEPT ![p] = idle]
    BY <1>20, <2>1 DEF Pr!Cut, Pr!At, Pr!Done
  <2>3. idle \in BirthType /\ idle.pc = "idle" /\ idle.op = "none" /\ Kind(idle) /\ ~Holder(idle)
    BY <2>1 DEF Pr!Idle, BirthType, Holder, Kind, Holding
  <2>4. /\ Births' /\ pproc'[p] = idle /\ \A q \in Creators \ {p} : pproc'[q] = pproc[q]
    BY <2>1, <2>2, <2>3, OneBirth DEF Projected
  <2>5. ASSUME NEW q \in Creators, Holder(pproc'[q]) PROVE Stage(pproc[q])'
    <3>1. q # p /\ pproc'[q] = pproc[q] /\ Holder(pproc[q])
      BY <2>3, <2>4, <2>5
    <3>2. Stage(pproc[q])
      BY <1>1, <3>1
    <3> QED BY <2>2, <3>1, <3>2 DEF Stage
  <2>6. (\A q \in Creators : Holder(pproc[q]) => Stage(pproc[q]))'
    BY <2>5 DEF Holder
  <2>7. AtRest' /\ Lasting'
    BY <1>4, <2>2 DEF AtRest, Done, Lasting, Pr!Forged
  <2>8. Apart'
    BY <2>2, <2>3, <2>4 DEF Apart, Projected
  <2> QED BY <2>2, <2>4, <2>6, <2>7, <2>8 DEF Projected, Grows
<1>21. ASSUME UNCHANGED <<row, sot, remote, pproc, pcut>>, deploys' \in {deploys, {"main", "dev"}} PROVE Projected' /\ Grows
  <2>1. ASSUME NEW q \in Creators, Holder(pproc[q]) PROVE Stage(pproc[q])'
    <3>1. Stage(pproc[q])
      BY <1>1, <2>1
    <3> QED BY <1>21, <3>1 DEF Stage, Born, Pr!Forged
  <2>2. AtRest'
    BY <1>21 DEF Projected, AtRest, Done, Born, Pr!Forged, Holder
  <2>3. Births' /\ Apart'
    BY <1>21 DEF Projected, Births, Kind, Holder, Apart
  <2>4. Lasting'
    BY <1>4, <1>21 DEF Lasting, Pr!Forged
  <2>5. (\A q \in Creators : Holder(pproc[q]) => Stage(pproc[q]))'
    BY <1>21, <2>1 DEF Holder
  <2> QED BY <1>21, <2>2, <2>3, <2>4, <2>5 DEF Projected, Grows
<1>22. ASSUME Pr!ListDeployments \/ UNCHANGED Pr!vars PROVE Projected' /\ Grows
  BY <1>21, <1>22 DEF Pr!ListDeployments, Pr!vars
<1> QED BY <1>6, <1>7, <1>8, <1>10, <1>11, <1>12, <1>13, <1>14, <1>15, <1>17, <1>18, <1>19, <1>20, <1>22 DEF Pr!Next

\* A step between two states of the invariant is a sound one.
LEMMA ProjectedSteps ==
  ASSUME Projected', Grows PROVE Pr!ProjectStep
<1>1. Pr!TypeOK'
  BY DEF Projected, Lasting, RowType, SotType, Branches, Pr!TypeOK
<1>2. row'.born = "adopt" => Pr!Forged'
  BY DEF Projected, Lasting
<1>3. ASSUME Pr!Busy' = {}, row' # Pr!NoRow, ~pcut'
      PROVE  /\ Pr!Forged' /\ deploys' = {"main", "dev"} /\ remote' = row'.mirror
             /\ row'.born = "seed" => sot'.root = "seed"
  <2>1. \A p \in Creators : ~Holder(pproc'[p])
    BY <1>3 DEF Pr!Busy, Pr!At, Holder, Holding
  <2>2. Done'
    BY <2>1 DEF Projected, AtRest, Holder
  <2> QED BY <1>3, <2>2 DEF Done, Born, Pr!NoRow
<1> QED BY <1>1, <1>2, <1>3 DEF Pr!ProjectStep, Grows

\* Creations and adoptions side by side, failed or cut anywhere: a row has its
\* repository, at rest the whole project, and keeps its origin and its branches.
THEOREM ProjectIsBornSound == StoreSpec => ProjectIsSound
<1> DEFINE I == part = "project" => Projected
<1>1. StoreInit => I
  BY ProjectedInit DEF StoreInit
<1>2. ASSUME I, [StoreNext]_all, part' = "project" \/ part = "project"
      PROVE  part = "project" /\ part' = "project" /\ [Pr!Next]_(Pr!vars)
  BY <1>2 DEF StoreNext, all, project, Pr!vars
<1>3. I /\ [StoreNext]_all => I'
  BY <1>2, ProjectedKept
<1>4. I /\ [StoreNext]_all => [part = "project" => Pr!ProjectStep]_all
  BY <1>2, ProjectedKept, ProjectedSteps
<1> QED BY <1>1, <1>3, <1>4, PTL DEF StoreSpec, ProjectIsSound

(***************************************************************************)
(* Overlay: the scaffold is laid on what the branch has, under one lock    *)
(***************************************************************************)
\* The shape of a process, of the tip of a branch, of the worktree.
LayType == [pc : {"idle", "lock", "move", "laid", "written", "staged"}, branch : Ov!Branches,
            carries : 0..MaxWrites, parent : SUBSET (1..MaxWrites), tree : Ov!Tree]

\* Shape of all the rest.
LaidType ==
  /\ writes \in 0..MaxWrites /\ bundle \in 0..MaxWrites /\ raced \in BOOLEAN /\ ocut \in BOOLEAN
  /\ laid \in [Ov!Branches -> 0..MaxWrites]
  /\ tip \in [Ov!Branches -> [tree : Ov!Tree, has : SUBSET (1..MaxWrites)]]
  /\ \A b \in Ov!Branches : tip[b].has \subseteq 1..writes
  /\ owt \in [index : Ov!Tree, files : Ov!Tree] /\ owt.files["work"] \in {0, 1}

\* The processes: one reseed at most past the lock.
Laying ==
  /\ oproc \in [Ov!Procs -> LayType]
  /\ \A s \in Reseeders : oproc[s].pc \in {"idle", "lock", "move", "laid"}
  /\ \A p \in Ov!Committers : oproc[p].pc \in {"idle", "written", "staged"}
  /\ \A s, t \in Reseeders : oproc[s].pc \in {"move", "laid"} /\ oproc[t].pc \in {"move", "laid"} => s = t

\* What a reseed carries: a tree built from a tip, which is the scaffold over
\* what the branch still is if its commits are still those; then what is laid.
Carried(w) ==
  /\ w.parent \subseteq 1..writes
  /\ w.pc = "move" /\ tip[w.branch].has = w.parent => w.tree = Ov!Overlaid(tip[w.branch].tree, w.carries)
  /\ w.pc = "laid" => laid[w.branch] = w.carries

\* Where no commit crossed a scaffold and no reseed was cut halfway, the tips
\* hold what was laid; so does the worktree, but while a reseed owes it the
\* files, and the index a commit is about to take.
Stays ==
  ~raced /\ ~ocut =>
    /\ \A b \in Ov!Branches : tip[b].tree["owned"] = laid[b]
    /\ (\A s \in Reseeders : oproc[s].pc = "laid" => oproc[s].branch # "feature") => owt.files["owned"] = laid["feature"]
    /\ (\E p \in Ov!Committers : oproc[p].pc = "staged") => owt.index["owned"] = laid["feature"]

\* Inductive.
Overlaying == LaidType /\ Laying /\ (\A s \in Reseeders : Carried(oproc[s])) /\ Stays

\* What a step does to the commits, to the work and to the trees.
Spares ==
  /\ \A b \in Ov!Branches : tip[b].has \subseteq tip'[b].has
  /\ bundle' = bundle /\ laid' # laid =>
       owt'.files = owt.files /\ \A b \in Ov!Branches : tip'[b].tree["work"] = tip[b].tree["work"]
  /\ \A s \in Reseeders : oproc'[s] # oproc[s] => owt'.files["work"] = owt.files["work"]

\* The scaffold over a tree.
LEMMA OverlaidTree ==
  ASSUME NEW t \in Ov!Tree, NEW v \in 0..MaxWrites
  PROVE  /\ Ov!Overlaid(t, v) \in Ov!Tree
         /\ Ov!Overlaid(t, v)["owned"] = v /\ Ov!Overlaid(t, v)["work"] = t["work"]
BY DEF Ov!Overlaid, Ov!Tree, Ov!Paths

\* The invariant holds over a blank project.
LEMMA OverlayingInit == Ov!Init => Overlaying
<1> SUFFICES ASSUME Ov!Init PROVE Overlaying
  OBVIOUS
<1>0. MaxWrites \in Nat \ {0} /\ {"upload", "worker"} \cap Reseeders = {}
  BY StoreAssumption DEF StoreAssumption, Ov!OverlayAssumption
<1>1. Ov!Blank \in Ov!Tree /\ Ov!Blank["owned"] = 0 /\ Ov!Blank["work"] = 0
  BY <1>0 DEF Ov!Blank, Ov!Tree, Ov!Paths
<1>2. Ov!Idle \in LayType /\ Ov!Idle.pc = "idle" /\ Ov!Idle.parent = {}
  BY <1>0, <1>1 DEF Ov!Idle, LayType, Ov!Branches
<1> USE DEF Ov!Init
<1>3. LaidType
  <2>1. tip \in [Ov!Branches -> [tree : Ov!Tree, has : SUBSET (1..MaxWrites)]]
        /\ \A b \in Ov!Branches : tip[b].has \subseteq 1..writes
    <3>1. tip = [b \in Ov!Branches |-> [tree |-> Ov!Blank, has |-> {}]]
      OBVIOUS
    <3>2. [tree |-> Ov!Blank, has |-> {}] \in [tree : Ov!Tree, has : SUBSET (1..MaxWrites)]
      BY <1>1
    <3> QED BY <3>1, <3>2
  <2>2. laid \in [Ov!Branches -> 0..MaxWrites] /\ writes \in 0..MaxWrites /\ bundle \in 0..MaxWrites
    BY <1>0
  <2> QED BY <1>1, <2>1, <2>2 DEF LaidType
<1>4. \A p \in Ov!Procs : oproc[p] = Ov!Idle
  OBVIOUS
<1>5. Reseeders \subseteq Ov!Procs /\ Ov!Committers \subseteq Ov!Procs
  BY DEF Ov!Procs
<1>6. Laying
  BY <1>2, <1>4, <1>5 DEF Laying
<1>7. \A s \in Reseeders : Carried(oproc[s])
  BY <1>2, <1>4, <1>5 DEF Carried
<1>8. Stays
  BY <1>1, <1>2, <1>4, <1>5 DEF Stays, Ov!Branches
<1> QED BY <1>3, <1>6, <1>7, <1>8 DEF Overlaying

\* Every step keeps the invariant and spares the commits and the work, one
\* step per action.
LEMMA OverlayingKept ==
  ASSUME Overlaying, [Ov!Next]_(Ov!vars) PROVE Overlaying' /\ Spares
<1>0. MaxWrites \in Nat \ {0} /\ {"upload", "worker"} \cap Reseeders = {}
      /\ Reseeders \subseteq Ov!Procs /\ Ov!Committers \subseteq Ov!Procs
      /\ Ov!Committers \cap Reseeders = {} /\ Ov!Procs = Reseeders \cup Ov!Committers
  BY StoreAssumption DEF StoreAssumption, Ov!OverlayAssumption, Ov!Procs, Ov!Committers
<1>1. LaidType /\ Laying /\ Stays /\ \A s \in Reseeders : Carried(oproc[s])
  BY DEF Overlaying
<1>2. ASSUME NEW p \in Ov!Procs PROVE oproc[p] \in LayType
  BY <1>1 DEF Laying
<1>3. Ov!Idle \in LayType /\ Ov!Idle.pc = "idle" /\ Ov!Idle.parent = {}
  <2>1. Ov!Blank \in Ov!Tree
    BY <1>0 DEF Ov!Blank, Ov!Tree, Ov!Paths
  <2> QED BY <1>0, <2>1 DEF Ov!Idle, LayType, Ov!Branches
<1>4. ASSUME NEW p \in Ov!Procs, NEW new \in LayType, oproc' = [oproc EXCEPT ![p] = new]
      PROVE  oproc' \in [Ov!Procs -> LayType] /\ oproc'[p] = new /\ \A q \in Ov!Procs \ {p} : oproc'[q] = oproc[q]
  BY <1>1, <1>4 DEF Laying
<1>5. ASSUME Ov!NewScaffold PROVE Overlaying' /\ Spares
  <2>1. LaidType'
    BY <1>0, <1>1, <1>5 DEF Ov!NewScaffold, LaidType
  <2>2. Laying' /\ Stays'
    BY <1>1, <1>5 DEF Ov!NewScaffold, Laying, Stays
  <2>3. ASSUME NEW s \in Reseeders PROVE Carried(oproc[s])'
    BY <1>0, <1>1, <1>5 DEF Ov!NewScaffold, Carried, LaidType
  <2>4. Spares
    BY <1>0, <1>1, <1>5 DEF Ov!NewScaffold, Spares, LaidType
  <2> QED BY <2>1, <2>2, <2>3, <2>4 DEF Overlaying
<1>6. ASSUME NEW s \in Reseeders, NEW b \in Ov!Branches, Ov!Reseed(s, b) PROVE Overlaying' /\ Spares
  <2>1. PICK new : new = [Ov!Idle EXCEPT !.pc = "lock", !.branch = b, !.carries = bundle]
    OBVIOUS
  <2>2. new \in LayType /\ new.pc = "lock" /\ new.parent = {}
    BY <1>1, <1>3, <2>1 DEF LayType, LaidType
  <2>3. oproc' = [oproc EXCEPT ![s] = new]
    BY <1>6, <2>1 DEF Ov!Reseed
  <2>4. oproc' \in [Ov!Procs -> LayType] /\ oproc'[s] = new /\ \A q \in Ov!Procs \ {s} : oproc'[q] = oproc[q]
    BY <1>0, <1>4, <2>2, <2>3
  <2>5. LaidType'
    BY <1>1, <1>6 DEF Ov!Reseed, LaidType
  <2>6. Laying'
    BY <1>0, <1>1, <2>2, <2>4 DEF Laying
  <2>7. \A t \in Reseeders : Carried(oproc[t])'
    BY <1>0, <1>1, <1>6, <2>2, <2>4 DEF Carried, Ov!Reseed
  <2>8. Stays'
    BY <1>0, <1>1, <1>6, <2>2, <2>4 DEF Stays, Ov!Reseed, Ov!At
  <2> QED BY <1>6, <2>5, <2>6, <2>7, <2>8 DEF Overlaying, Spares, Ov!Reseed
<1>7. ASSUME NEW s \in Reseeders, Ov!BuildTree(s) PROVE Overlaying' /\ Spares
  <2>1. PICK w, b, laying : w = oproc[s] /\ b = w.branch /\ laying = Ov!Overlaid(tip[b].tree, w.carries)
    OBVIOUS
  <2>2. w \in LayType /\ w.pc = "lock" /\ b \in Ov!Branches /\ Carried(w) /\ w.carries \in 0..MaxWrites
        /\ tip[b].tree \in Ov!Tree /\ tip[b].has \subseteq 1..writes /\ tip[b].has \subseteq 1..MaxWrites
        /\ \A t \in Reseeders : oproc[t].pc \notin {"move", "laid"}
    BY <1>0, <1>1, <1>2, <1>7, <2>1 DEF Ov!BuildTree, Ov!At, Ov!Locked, LayType, LaidType
  <2>3. laying \in Ov!Tree /\ laying["owned"] = w.carries
    BY <2>1, <2>2, OverlaidTree
  <2>4. /\ UNCHANGED <<tip, owt, bundle, writes, raced, ocut>>
        /\ IF laying = tip[b].tree
             THEN oproc' = [oproc EXCEPT ![s] = Ov!Idle] /\ laid' = [laid EXCEPT ![b] = w.carries]
             ELSE oproc' = [oproc EXCEPT ![s] = [w EXCEPT !.pc = "move", !.parent = tip[b].has, !.tree = laying]]
                  /\ UNCHANGED laid
    BY <1>7, <2>1 DEF Ov!BuildTree, Ov!Done
  <2>5. CASE laying = tip[b].tree
    <3>1. oproc' \in [Ov!Procs -> LayType] /\ oproc'[s] = Ov!Idle /\ \A q \in Ov!Procs \ {s} : oproc'[q] = oproc[q]
      BY <1>0, <1>3, <1>4, <2>4, <2>5
    <3>2. LaidType'
      BY <1>1, <2>2, <2>4, <2>5 DEF LaidType
    <3>3. Laying'
      BY <1>0, <1>1, <1>3, <3>1 DEF Laying
    <3>4. \A t \in Reseeders : Carried(oproc[t])'
      BY <1>0, <1>1, <1>3, <2>2, <2>4, <3>1 DEF Carried
    <3>5. Stays'
      <4>1. ~raced /\ ~ocut => laid' = laid
        BY <1>1, <2>2, <2>3, <2>4, <2>5 DEF Stays, LaidType
      <4> QED BY <1>0, <1>1, <1>3, <2>2, <2>4, <3>1, <4>1 DEF Stays
    <3> QED BY <2>4, <3>2, <3>3, <3>4, <3>5 DEF Overlaying, Spares
  <2>6. CASE laying # tip[b].tree
    <3>0. PICK new : new = [w EXCEPT !.pc = "move", !.parent = tip[b].has, !.tree = laying]
      OBVIOUS
    <3>1. new \in LayType /\ new.pc = "move" /\ new.parent = tip[b].has /\ new.tree = laying /\ new.branch = b
          /\ new.carries = w.carries
      BY <2>1, <2>2, <2>3, <3>0 DEF LayType
    <3>2. oproc' \in [Ov!Procs -> LayType] /\ oproc'[s] = new /\ \A q \in Ov!Procs \ {s} : oproc'[q] = oproc[q]
      BY <1>0, <1>4, <2>4, <2>6, <3>0, <3>1
    <3>3. LaidType' /\ Spares
      BY <1>1, <2>4, <2>6 DEF LaidType, Spares
    <3>4. Laying'
      BY <1>0, <1>1, <2>2, <3>1, <3>2 DEF Laying
    <3>5. \A t \in Reseeders : Carried(oproc[t])'
      BY <1>0, <1>1, <2>1, <2>2, <2>4, <2>6, <3>1, <3>2 DEF Carried
    <3>6. Stays'
      BY <1>0, <1>1, <2>2, <2>4, <2>6, <3>1, <3>2 DEF Stays
    <3> QED BY <3>3, <3>4, <3>5, <3>6 DEF Overlaying
  <2> QED BY <2>5, <2>6
<1>8. ASSUME NEW s \in Reseeders, Ov!MoveBranch(s) PROVE Overlaying' /\ Spares
  <2>1. PICK w, b, n : w = oproc[s] /\ b = w.branch /\ n = writes + 1
    OBVIOUS
  <2>2. w \in LayType /\ w.pc = "move" /\ b \in Ov!Branches /\ Carried(w) /\ w.carries \in 0..MaxWrites
        /\ tip[b].tree \in Ov!Tree /\ n \in 1..MaxWrites /\ w.parent \subseteq 1..writes
        /\ \A t \in Reseeders \ {s} : oproc[t].pc \notin {"move", "laid"}
    BY <1>0, <1>1, <1>2, <1>8, <2>1 DEF Ov!MoveBranch, Ov!At, Laying, LayType, LaidType, Carried
  <2>3. UNCHANGED <<owt, bundle, ocut>>
    BY <1>8 DEF Ov!MoveBranch
  <2>4. CASE ~Ov!Unmoved(s)
    <3>0. oproc' = [oproc EXCEPT ![s] = Ov!Idle] /\ UNCHANGED <<tip, laid, writes, raced>>
      BY <1>8, <2>4 DEF Ov!MoveBranch, Ov!Done
    <3>1. oproc' \in [Ov!Procs -> LayType] /\ oproc'[s] = Ov!Idle /\ \A q \in Ov!Procs \ {s} : oproc'[q] = oproc[q]
      BY <1>0, <1>3, <1>4, <3>0
    <3>2. LaidType' /\ Spares
      BY <1>1, <2>3, <3>0 DEF LaidType, Spares
    <3>3. Laying'
      BY <1>0, <1>1, <1>3, <3>1 DEF Laying
    <3>4. \A t \in Reseeders : Carried(oproc[t])'
      BY <1>0, <1>1, <1>3, <3>0, <3>1 DEF Carried
    <3>5. Stays'
      BY <1>0, <1>1, <1>3, <2>1, <2>2, <2>3, <3>0, <3>1 DEF Stays
    <3> QED BY <3>2, <3>3, <3>4, <3>5 DEF Overlaying
  <2>5. CASE Ov!Unmoved(s)
    <3>0. /\ tip' = [tip EXCEPT ![b] = [tree |-> w.tree, has |-> w.parent \cup {n}]]
          /\ laid' = [laid EXCEPT ![b] = w.carries] /\ writes' = n
          /\ oproc' = [oproc EXCEPT ![s] = [w EXCEPT !.pc = "laid"]]
      BY <1>8, <2>1, <2>5 DEF Ov!MoveBranch, Ov!To
    <3>1. /\ raced' \in BOOLEAN
          /\ ~raced' => ~raced /\ (b = "feature" => \A p \in Ov!Committers : oproc[p].pc # "staged")
      <4>1. CASE b = "feature"
        <5>1. raced' = (raced \/ \E q \in Ov!Committers : Ov!Half(q))
          BY <1>8, <2>1, <2>5, <4>1 DEF Ov!MoveBranch, Ov!Crosses
        <5>2. \A p \in Ov!Committers : Ov!Half(p) <=> oproc[p].pc = "staged"
          BY <1>0 DEF Ov!Half, Ov!At
        <5> QED BY <5>1, <5>2
      <4>2. CASE b # "feature"
        BY <1>1, <1>8, <2>1, <2>5, <4>2 DEF Ov!MoveBranch, LaidType
      <4> QED BY <4>1, <4>2
    <3>2. tip[b].has = w.parent /\ w.tree = Ov!Overlaid(tip[b].tree, w.carries)
      BY <2>1, <2>2, <2>5 DEF Ov!Unmoved, Carried
    <3>3. w.tree \in Ov!Tree /\ w.tree["owned"] = w.carries /\ w.tree["work"] = tip[b].tree["work"]
      BY <2>2, <3>2, OverlaidTree
    <3>4. PICK new : new = [w EXCEPT !.pc = "laid"]
      OBVIOUS
    <3>5. new \in LayType /\ new.pc = "laid" /\ new.parent = w.parent /\ new.branch = b /\ new.carries = w.carries
      BY <2>1, <2>2, <3>4 DEF LayType
    <3>6. oproc' \in [Ov!Procs -> LayType] /\ oproc'[s] = new /\ \A q \in Ov!Procs \ {s} : oproc'[q] = oproc[q]
      BY <1>0, <1>4, <3>0, <3>4, <3>5
    <3>7. /\ tip' \in [Ov!Branches -> [tree : Ov!Tree, has : SUBSET (1..MaxWrites)]]
          /\ tip'[b] = [tree |-> w.tree, has |-> w.parent \cup {n}]
          /\ \A c \in Ov!Branches \ {b} : tip'[c] = tip[c]
          /\ laid' \in [Ov!Branches -> 0..MaxWrites] /\ laid'[b] = w.carries
          /\ \A c \in Ov!Branches \ {b} : laid'[c] = laid[c]
      <4>1. w.parent \cup {n} \subseteq 1..MaxWrites
        BY <2>2 DEF LayType
      <4>2. [tree |-> w.tree, has |-> w.parent \cup {n}] \in [tree : Ov!Tree, has : SUBSET (1..MaxWrites)]
        BY <3>3, <4>1
      <4> QED BY <1>1, <2>2, <3>0, <4>2 DEF LaidType
    <3>8. LaidType'
      <4>1. 1..writes \subseteq 1..n /\ n \in 0..MaxWrites /\ n \in 1..n /\ w.parent \cup {n} \subseteq 1..n
        BY <1>1, <2>1, <2>2 DEF LaidType
      <4>2. ASSUME NEW c \in Ov!Branches PROVE tip'[c].has \subseteq 1..n
        <5>1. CASE c = b
          BY <2>1, <2>2, <3>7, <4>1, <5>1
        <5>2. CASE c # b
          <6>1. tip[c].has \subseteq 1..writes /\ tip'[c] = tip[c]
            BY <1>1, <3>7, <5>2 DEF LaidType
          <6> QED BY <4>1, <6>1
        <5> QED BY <5>1, <5>2
      <4> QED BY <1>1, <2>3, <3>0, <3>1, <3>7, <4>1, <4>2 DEF LaidType
    <3>9. Laying'
      BY <1>0, <1>1, <2>2, <3>5, <3>6 DEF Laying
    <3>10. ASSUME NEW t \in Reseeders PROVE Carried(oproc[t])'
      <4>1. 1..writes \subseteq 1..n
        BY <1>1, <2>1 DEF LaidType
      <4>2. CASE t = s
        <5>1. oproc'[t] = new /\ new.parent \subseteq 1..n /\ laid'[new.branch] = new.carries /\ writes' = n
          BY <2>2, <3>0, <3>5, <3>6, <3>7, <4>1, <4>2 DEF LayType
        <5> QED BY <3>5, <5>1 DEF Carried
      <4>3. CASE t # s
        BY <1>0, <1>1, <2>2, <3>0, <3>6, <4>1, <4>3 DEF Carried
      <4> QED BY <4>2, <4>3
    <3>11. Stays'
      <4> SUFFICES ASSUME ~raced', ~ocut' PROVE Stays'
        BY DEF Stays
      <4>1. ~raced /\ ~ocut /\ (b = "feature" => \A p \in Ov!Committers : oproc[p].pc # "staged")
        BY <2>3, <3>1
      <4>2. \A p \in Ov!Committers : oproc'[p] = oproc[p]
        BY <1>0, <3>6
      <4>3. \A c \in Ov!Branches : tip'[c].tree["owned"] = laid'[c]
        BY <1>1, <3>3, <3>7, <4>1 DEF Stays
      <4>4. (\E p \in Ov!Committers : oproc'[p].pc = "staged") => owt'.index["owned"] = laid'["feature"]
        BY <1>1, <2>3, <3>7, <4>1, <4>2 DEF Stays, Ov!Branches
      <4>5. (\A t \in Reseeders : oproc'[t].pc = "laid" => oproc'[t].branch # "feature")
               => owt'.files["owned"] = laid'["feature"]
        <5>1. SUFFICES ASSUME \A t \in Reseeders : oproc'[t].pc = "laid" => oproc'[t].branch # "feature"
                       PROVE  owt.files["owned"] = laid'["feature"]
          BY <2>3
        <5>2. b # "feature"
          BY <3>5, <3>6, <5>1
        <5>3. \A t \in Reseeders : oproc[t].pc # "laid"
          BY <2>1, <2>2
        <5> QED BY <1>1, <3>7, <4>1, <5>2, <5>3 DEF Stays, Ov!Branches
      <4> QED BY <4>3, <4>4, <4>5 DEF Stays
    <3>12. Spares
      BY <2>2, <2>3, <3>2, <3>3, <3>7 DEF Spares
    <3> QED BY <3>8, <3>9, <3>10, <3>11, <3>12 DEF Overlaying
  <2> QED BY <2>4, <2>5
<1>9. ASSUME NEW s \in Reseeders, Ov!Resync(s) PROVE Overlaying' /\ Spares
  <2>1. PICK w, b : w = oproc[s] /\ b = w.branch
    OBVIOUS
  <2>2. w \in LayType /\ w.pc = "laid" /\ b \in Ov!Branches /\ w.carries \in 0..MaxWrites /\ laid[b] = w.carries
        /\ \A t \in Reseeders \ {s} : oproc[t].pc # "laid"
    BY <1>0, <1>1, <1>2, <1>9, <2>1 DEF Ov!Resync, Ov!At, LayType, Laying, Carried
  <2>3. oproc' = [oproc EXCEPT ![s] = Ov!Idle] /\ UNCHANGED <<tip, bundle, writes, laid, raced, ocut>>
    BY <1>9 DEF Ov!Resync, Ov!Done
  <2>4. oproc' \in [Ov!Procs -> LayType] /\ oproc'[s] = Ov!Idle /\ \A q \in Ov!Procs \ {s} : oproc'[q] = oproc[q]
    BY <1>0, <1>3, <1>4, <2>3
  <2>5. /\ owt' \in [index : Ov!Tree, files : Ov!Tree] /\ owt'.files["work"] = owt.files["work"]
        /\ b = "feature" => owt'.files["owned"] = laid["feature"] /\ owt'.index["owned"] = laid["feature"]
        /\ b # "feature" => owt' = owt
    <3>1. owt.index \in Ov!Tree /\ owt.files \in Ov!Tree
      BY <1>1 DEF LaidType
    <3>2. PICK i, f : i = Ov!Overlaid(owt.index, w.carries) /\ f = Ov!Overlaid(owt.files, w.carries)
      OBVIOUS
    <3>3. i \in Ov!Tree /\ f \in Ov!Tree /\ f["work"] = owt.files["work"] /\ f["owned"] = w.carries /\ i["owned"] = w.carries
      BY <2>2, <3>1, <3>2, OverlaidTree
    <3>4. owt' = IF b = "feature" THEN [index |-> i, files |-> f] ELSE owt
      BY <1>9, <2>1, <3>2 DEF Ov!Resync, Ov!CheckedOut
    <3> QED BY <1>1, <2>2, <3>3, <3>4 DEF LaidType
  <2>6. LaidType'
    BY <1>1, <2>3, <2>5 DEF LaidType
  <2>7. Laying'
    BY <1>0, <1>1, <1>3, <2>4 DEF Laying
  <2>8. \A t \in Reseeders : Carried(oproc[t])'
    BY <1>0, <1>1, <1>3, <2>3, <2>4 DEF Carried
  <2>9. Stays'
    <3>1. CASE b = "feature"
      BY <1>0, <1>1, <2>3, <2>4, <2>5, <3>1 DEF Stays
    <3>2. CASE b # "feature"
      BY <1>0, <1>1, <2>1, <2>2, <2>3, <2>4, <2>5, <3>2 DEF Stays
    <3> QED BY <3>1, <3>2
  <2>10. Spares
    BY <2>3, <2>5 DEF Spares
  <2> QED BY <2>6, <2>7, <2>8, <2>9, <2>10 DEF Overlaying
<1>10. ASSUME NEW p \in Ov!Committers, Ov!Written,
              oproc' = oproc \/ (oproc' = [oproc EXCEPT ![p].pc = "written"] /\ oproc[p].pc = "idle")
       PROVE  Overlaying' /\ Spares
  <2>1. UNCHANGED <<tip, bundle, writes, laid, raced, ocut>> /\ owt' = [owt EXCEPT !.files["work"] = 1 - @]
    BY <1>10 DEF Ov!Written
  <2>2. /\ owt' \in [index : Ov!Tree, files : Ov!Tree] /\ owt'.files["work"] \in {0, 1}
        /\ owt'.files["owned"] = owt.files["owned"] /\ owt'.index = owt.index
    <3>1. PICK v : v = 1 - owt.files["work"]
      OBVIOUS
    <3>2. v \in {0, 1} /\ v \in 0..MaxWrites
      BY <1>0, <1>1, <3>1 DEF LaidType
    <3>3. PICK f : f = [owt.files EXCEPT !["work"] = v]
      OBVIOUS
    <3>4. f \in Ov!Tree /\ f["work"] = v /\ f["owned"] = owt.files["owned"]
      BY <1>1, <3>2, <3>3 DEF LaidType, Ov!Tree, Ov!Paths
    <3>5. owt' = [owt EXCEPT !.files = f]
      BY <1>1, <2>1, <3>1, <3>3 DEF LaidType
    <3> QED BY <1>1, <3>2, <3>4, <3>5 DEF LaidType
  <2>3. /\ oproc' \in [Ov!Procs -> LayType] /\ \A q \in Ov!Procs \ {p} : oproc'[q] = oproc[q]
        /\ oproc'[p].pc \in {oproc[p].pc, "written"}
    <3>1. PICK new : new = [oproc[p] EXCEPT !.pc = "written"]
      OBVIOUS
    <3>2. new \in LayType /\ new.pc = "written"
      BY <1>0, <1>2, <3>1 DEF LayType
    <3>3. oproc' = [oproc EXCEPT ![p].pc = "written"] => oproc' = [oproc EXCEPT ![p] = new]
      BY <1>0, <1>1, <3>1 DEF Laying
    <3> QED BY <1>0, <1>1, <1>4, <1>10, <3>2, <3>3 DEF Laying
  <2>4. LaidType'
    BY <1>1, <2>1, <2>2 DEF LaidType
  <2>5. \A s \in Reseeders : oproc'[s] = oproc[s]
    BY <1>0, <2>3
  <2>6. Laying'
    BY <1>0, <1>1, <2>3, <2>5 DEF Laying
  <2>7. \A s \in Reseeders : Carried(oproc[s])'
    BY <1>1, <2>1, <2>5 DEF Carried
  <2>8. Stays'
    BY <1>0, <1>1, <2>1, <2>2, <2>3, <2>5 DEF Stays
  <2>9. Spares
    BY <2>1, <2>5 DEF Spares
  <2> QED BY <2>4, <2>6, <2>7, <2>8, <2>9 DEF Overlaying
<1>11. ASSUME Ov!Upload \/ Ov!Work PROVE Overlaying' /\ Spares
  <2>1. "upload" \in Ov!Committers /\ "worker" \in Ov!Committers
    BY DEF Ov!Committers
  <2> QED BY <1>10, <1>11, <2>1 DEF Ov!Upload, Ov!Work, Ov!To, Ov!At
<1>12. ASSUME ~raced, \A s \in Reseeders : ~Ov!Half(s)
       PROVE  ~ocut => owt.files["owned"] = laid["feature"]
  BY <1>0, <1>1, <1>12 DEF Ov!Half, Ov!At, Stays
<1>13. ASSUME NEW p \in Ov!Committers, Ov!Stage(p) PROVE Overlaying' /\ Spares
  <2>1. /\ UNCHANGED <<tip, bundle, writes, laid, ocut>> /\ owt' = [owt EXCEPT !.index = owt.files]
        /\ raced' = (raced \/ \E q \in Reseeders : Ov!Half(q)) /\ oproc[p].pc = "written"
        /\ oproc' = [oproc EXCEPT ![p].pc = "staged"]
    BY <1>13 DEF Ov!Stage, Ov!At, Ov!To, Ov!Crosses
  <2>2. PICK new : new = [oproc[p] EXCEPT !.pc = "staged"]
    OBVIOUS
  <2>3. new \in LayType /\ new.pc = "staged"
    BY <1>0, <1>2, <2>2 DEF LayType
  <2>4. oproc' = [oproc EXCEPT ![p] = new]
    BY <1>0, <1>1, <2>1, <2>2 DEF Laying
  <2>5. oproc' \in [Ov!Procs -> LayType] /\ oproc'[p] = new /\ \A q \in Ov!Procs \ {p} : oproc'[q] = oproc[q]
    BY <1>0, <1>4, <2>3, <2>4
  <2>6. \A s \in Reseeders : oproc'[s] = oproc[s]
    BY <1>0, <2>5
  <2>7. owt' \in [index : Ov!Tree, files : Ov!Tree] /\ owt'.files = owt.files /\ owt'.index = owt.files
    BY <1>1, <2>1 DEF LaidType
  <2>8. LaidType'
    BY <1>1, <2>1, <2>7 DEF LaidType
  <2>9. Laying'
    BY <1>0, <1>1, <2>3, <2>5, <2>6 DEF Laying
  <2>10. \A s \in Reseeders : Carried(oproc[s])'
    BY <1>1, <2>1, <2>6 DEF Carried
  <2>11. Stays'
    BY <1>1, <1>12, <2>1, <2>6, <2>7 DEF Stays
  <2>12. Spares
    BY <2>1, <2>6 DEF Spares
  <2> QED BY <2>8, <2>9, <2>10, <2>11, <2>12 DEF Overlaying
<1>14. ASSUME NEW p \in Ov!Committers, Ov!Commit(p) PROVE Overlaying' /\ Spares
  <2>1. /\ UNCHANGED <<owt, bundle, laid, ocut>> /\ oproc[p].pc = "staged" /\ writes < MaxWrites
        /\ raced' = (raced \/ \E q \in Reseeders : Ov!Half(q)) /\ oproc' = [oproc EXCEPT ![p] = Ov!Idle]
    BY <1>14 DEF Ov!Commit, Ov!At, Ov!Done, Ov!Crosses
  <2>2. oproc' \in [Ov!Procs -> LayType] /\ oproc'[p] = Ov!Idle /\ \A q \in Ov!Procs \ {p} : oproc'[q] = oproc[q]
    BY <1>0, <1>3, <1>4, <2>1
  <2>3. \A s \in Reseeders : oproc'[s] = oproc[s]
    BY <1>0, <2>2
  <2>4. Laying'
    BY <1>0, <1>1, <1>3, <2>2, <2>3 DEF Laying
  <2>5. raced' \in BOOLEAN /\ (~raced' => ~raced) /\ \A q \in Ov!Committers : oproc'[q].pc = "staged" => oproc[q].pc = "staged"
    BY <1>0, <1>3, <2>1, <2>2
  <2>6. CASE owt.index = tip["feature"].tree
    <3>1. UNCHANGED <<tip, writes>>
      BY <1>14, <2>6 DEF Ov!Commit
    <3>2. LaidType' /\ Spares
      BY <1>1, <2>1, <2>3, <2>5, <3>1 DEF LaidType, Spares
    <3>3. \A s \in Reseeders : Carried(oproc[s])'
      BY <1>1, <2>1, <2>3, <3>1 DEF Carried
    <3>4. Stays'
      BY <1>1, <2>1, <2>3, <2>5, <3>1 DEF Stays
    <3> QED BY <2>4, <3>2, <3>3, <3>4 DEF Overlaying
  <2>7. CASE owt.index # tip["feature"].tree
    <3>0. PICK n, held : n = writes + 1 /\ held = tip["feature"].has
      OBVIOUS
    <3>1. tip' = [tip EXCEPT !["feature"] = [tree |-> owt.index, has |-> held \cup {n}]] /\ writes' = n
      BY <1>14, <2>7, <3>0 DEF Ov!Commit
    <3>2. held \subseteq 1..writes /\ n \in 1..MaxWrites /\ 1..writes \subseteq 1..n /\ n \in 1..n /\ n \notin 1..writes
          /\ 1..writes \subseteq 1..MaxWrites /\ "feature" \in Ov!Branches /\ owt.index \in Ov!Tree /\ n \in 0..MaxWrites
      BY <1>0, <1>1, <2>1, <3>0 DEF LaidType, Ov!Branches
    <3>3. /\ tip' \in [Ov!Branches -> [tree : Ov!Tree, has : SUBSET (1..MaxWrites)]]
          /\ tip'["feature"] = [tree |-> owt.index, has |-> held \cup {n}]
          /\ \A c \in Ov!Branches \ {"feature"} : tip'[c] = tip[c]
      <4>1. [tree |-> owt.index, has |-> held \cup {n}] \in [tree : Ov!Tree, has : SUBSET (1..MaxWrites)]
        BY <3>2
      <4> QED BY <1>1, <3>1, <3>2, <4>1 DEF LaidType
    <3>4. LaidType'
      <4>1. \A c \in Ov!Branches : tip'[c].has \subseteq 1..n
        BY <1>1, <3>2, <3>3 DEF LaidType
      <4> QED BY <1>1, <2>1, <2>5, <3>1, <3>2, <3>3, <4>1 DEF LaidType
    <3>5. ASSUME NEW s \in Reseeders PROVE Carried(oproc[s])'
      <4>1. oproc[s].parent \subseteq 1..writes /\ Carried(oproc[s])
        BY <1>1 DEF Carried
      <4>2. tip'["feature"].has # oproc[s].parent
        BY <3>2, <3>3, <4>1
      <4>3. oproc[s].branch \in Ov!Branches
        BY <1>0, <1>2 DEF LayType
      <4> QED BY <2>1, <2>3, <3>1, <3>2, <3>3, <4>1, <4>2, <4>3 DEF Carried
    <3>6. Stays'
      BY <1>1, <2>1, <2>3, <2>5, <3>2, <3>3 DEF Stays
    <3>7. Spares
      BY <2>1, <2>3, <3>0, <3>3 DEF Spares
    <3> QED BY <2>4, <3>4, <3>5, <3>6, <3>7 DEF Overlaying
  <2> QED BY <2>6, <2>7
<1>15. ASSUME NEW p \in Ov!Procs, Ov!Cut(p) PROVE Overlaying' /\ Spares
  <2>1. /\ UNCHANGED <<tip, owt, bundle, writes, laid, raced>> /\ oproc' = [oproc EXCEPT ![p] = Ov!Idle]
        /\ ocut' = (ocut \/ oproc[p].pc = "laid")
    BY <1>15 DEF Ov!Cut, Ov!Done, Ov!At
  <2>2. oproc' \in [Ov!Procs -> LayType] /\ oproc'[p] = Ov!Idle /\ \A q \in Ov!Procs \ {p} : oproc'[q] = oproc[q]
    BY <1>3, <1>4, <2>1
  <2>3. LaidType' /\ Spares
    BY <1>1, <2>1 DEF LaidType, Spares
  <2>4. Laying'
    BY <1>0, <1>1, <1>3, <2>2 DEF Laying
  <2>5. \A s \in Reseeders : Carried(oproc[s])'
    BY <1>0, <1>1, <1>3, <2>1, <2>2 DEF Carried
  <2>6. Stays'
    BY <1>0, <1>1, <1>3, <2>1, <2>2 DEF Stays
  <2> QED BY <2>3, <2>4, <2>5, <2>6 DEF Overlaying
<1>16. ASSUME UNCHANGED Ov!vars PROVE Overlaying' /\ Spares
  BY <1>1, <1>16 DEF Ov!vars, Overlaying, LaidType, Laying, Carried, Stays, Spares
<1> QED BY <1>5, <1>6, <1>7, <1>8, <1>9, <1>11, <1>13, <1>14, <1>15, <1>16 DEF Ov!Next

\* A step between two states of the invariant that spares the work is a sound one.
LEMMA OverlayingSteps ==
  ASSUME Overlaying', Spares PROVE Ov!OverlayStep
<1>1. Ov!TypeOK'
  BY DEF Overlaying, LaidType, Ov!TypeOK
<1>2. Ov!Settled' => \A s \in Reseeders : oproc'[s].pc # "laid"
  BY DEF Ov!Settled, Ov!At
<1> QED BY <1>1, <1>2 DEF Ov!OverlayStep, Spares, Overlaying, Stays

\* Reseeds, uploads and workers in any order, cut anywhere: a scaffold laid
\* loses no commit and no work, and stays where nothing crossed it.
THEOREM ScaffoldLaidHolds == StoreSpec => ScaffoldIsLaid
<1> DEFINE I == part = "overlay" => Overlaying
<1>1. StoreInit => I
  BY OverlayingInit DEF StoreInit
<1>2. ASSUME I, [StoreNext]_all, part' = "overlay" \/ part = "overlay"
      PROVE  part = "overlay" /\ part' = "overlay" /\ [Ov!Next]_(Ov!vars)
  BY <1>2 DEF StoreNext, all, overlay, Ov!vars
<1>3. I /\ [StoreNext]_all => I'
  BY <1>2, OverlayingKept
<1>4. I /\ [StoreNext]_all => [part = "overlay" => Ov!OverlayStep]_all
  BY <1>2, OverlayingKept, OverlayingSteps
<1> QED BY <1>1, <1>3, <1>4, PTL DEF StoreSpec, ScaffoldIsLaid

(***************************************************************************)
(* Tools: what an installation posed, and the link it owes                 *)
(***************************************************************************)
\* The shape of an installation.
InstallType == [pc : {"idle", "pip", "record", "network", "links", "link"}, ed : 0..LastEdition, narrow : BOOLEAN,
                todo : SUBSET To!Bins, one : To!Bins \cup {"none"}, alone : BOOLEAN]

\* Shape of all the rest: an edition declares its own number or nothing.
Served ==
  /\ edition \in [number : 1..LastEdition, ready : BOOLEAN, sha : [Maps -> 0..LastEdition]]
  /\ \A m \in Maps : edition.sha[m] \in {0, edition.number}
  /\ dist \in [Maps -> [code : 0..LastEdition + 1, record : {"none", "cut", "edition", "vcs", "local"}]]
  /\ has \subseteq Others /\ link \subseteq To!Bins /\ ran \subseteq To!Bins /\ To!Resolves \subseteq ran
  /\ tcut \in BOOLEAN

\* What an installation that is alone has posed, and what it has exposed but
\* for the link it is making.
Posed(w) ==
  w.alone =>
    /\ w.pc \in {"pip", "record"} => \A m \in Maps \ w.todo : dist[m].code = w.ed
    /\ w.pc \in {"network", "links", "link"} => \A m \in Maps : dist[m].code = w.ed
    /\ w.pc \in {"links", "link"} =>
         \A b \in (IF w.narrow THEN Maps ELSE To!Bins) \ w.todo :
           To!Source(b) /\ (b \in link \/ (w.pc = "link" /\ w.one = b))

\* The installations: who is alone has nobody beside.
Installing ==
  /\ tproc \in [Installers -> InstallType]
  /\ \A p \in Installers : /\ tproc[p].pc # "idle" => tproc[p].ed # 0
                           /\ tproc[p].pc = "record" => tproc[p].one \in Maps
                           /\ tproc[p].pc = "link" => tproc[p].one \in To!Bins
  /\ \A p, q \in Installers : p # q /\ tproc[p].pc # "idle" /\ tproc[p].alone => tproc[q].pc = "idle"

\* What resolved once has its source, and its link but while it is owed.
Owed == ~tcut => \A b \in ran : To!Source(b) /\ (b \in link \/ \E p \in Installers : tproc[p].pc = "link" /\ tproc[p].one = b)

\* Inductive.
Tooled == Served /\ Installing /\ (\A p \in Installers : tproc[p].pc # "idle" => Posed(tproc[p])) /\ Owed

\* The invariant holds over what an instance may have before its first edition.
LEMMA TooledInit == To!Init => Tooled
<1> SUFFICES ASSUME To!Init PROVE Tooled
  OBVIOUS
<1>0. LastEdition \in Nat \ {0}
  BY StoreAssumption DEF StoreAssumption, To!ToolsAssumption
<1> USE DEF To!Init
<1>1. To!Idle \in InstallType /\ To!Idle.pc = "idle"
  BY <1>0 DEF To!Idle, InstallType
<1>2. edition \in [number : 1..LastEdition, ready : BOOLEAN, sha : [Maps -> 0..LastEdition]]
      /\ \A m \in Maps : edition.sha[m] \in {0, edition.number}
  <2>1. edition \in To!Declares(1)
    OBVIOUS
  <2>2. CASE edition \in {[number |-> 1, ready |-> TRUE, sha |-> s] : s \in [Maps -> {0, 1}]}
    <3>1. PICK s \in [Maps -> {0, 1}] : edition = [number |-> 1, ready |-> TRUE, sha |-> s]
      BY <2>2
    <3>2. s \in [Maps -> 0..LastEdition]
      BY <1>0
    <3> QED BY <1>0, <3>1, <3>2
  <2>3. CASE edition = [number |-> 1, ready |-> FALSE, sha |-> [m \in Maps |-> 0]]
    BY <1>0, <2>3
  <2> QED BY <2>1, <2>2, <2>3 DEF To!Declares
<1>3. dist \in [Maps -> [code : 0..LastEdition + 1, record : {"none", "cut", "edition", "vcs", "local"}]]
  BY <1>0 DEF To!Absent
<1>4. link \subseteq To!Bins /\ link \subseteq Maps
  BY DEF To!Bins
<1>5. Served
  BY <1>2, <1>3, <1>4 DEF Served, To!Resolves
<1>6. \A p \in Installers : tproc[p] = To!Idle
  OBVIOUS
<1>7. Owed
  BY <1>4 DEF Owed, To!Source
<1> QED BY <1>1, <1>5, <1>6, <1>7 DEF Tooled, Installing

\* The installations from one move of one of them.
LEMMA OneInstall ==
  ASSUME Tooled, NEW p \in Installers, NEW new \in InstallType, tproc' = [tproc EXCEPT ![p] = new],
         tproc[p].pc # "idle", new.pc = "idle" \/ (new.alone = tproc[p].alone /\ new.ed = tproc[p].ed),
         new.pc = "record" => new.one \in Maps, new.pc = "link" => new.one \in To!Bins,
         new.pc # "idle" => Posed(new)'
  PROVE  /\ Installing' /\ \A q \in Installers : tproc'[q].pc # "idle" => Posed(tproc[q])'
         /\ tproc'[p] = new /\ \A q \in Installers \ {p} : tproc'[q] = tproc[q]
<1>1. tproc' \in [Installers -> InstallType] /\ tproc'[p] = new /\ \A q \in Installers \ {p} : tproc'[q] = tproc[q]
  BY DEF Tooled, Installing
<1>2. \A q \in Installers \ {p} : tproc[q].pc # "idle" => ~tproc[q].alone
  BY DEF Tooled, Installing
<1>3. Installing'
  BY <1>1, <1>2 DEF Tooled, Installing
<1>4. ASSUME NEW q \in Installers, tproc'[q].pc # "idle" PROVE Posed(tproc[q])'
  <2>1. CASE q = p
    BY <1>1, <1>4, <2>1 DEF Posed
  <2>2. CASE q # p
    BY <1>1, <1>2, <1>4, <2>2 DEF Posed
  <2> QED BY <2>1, <2>2
<1> QED BY <1>1, <1>3, <1>4

\* What resolved still does, or is owed, when no source leaves and whoever owed
\* a link still owes it or has made it.
LEMMA StillOwed ==
  ASSUME Tooled, ran' = ran \cup To!Resolves', ~tcut' => ~tcut,
         \A b \in To!Bins : To!Source(b) => To!Source(b)',
         ~tcut' => \A b \in link : b \in link' \/ \E p \in Installers : tproc'[p].pc = "link" /\ tproc'[p].one = b,
         ~tcut' => \A p \in Installers : tproc[p].pc = "link" =>
                     tproc[p].one \in link' \/ (tproc'[p].pc = "link" /\ tproc'[p].one = tproc[p].one)
  PROVE  Owed'
<1> SUFFICES ASSUME ~tcut', NEW b \in ran'
             PROVE  To!Source(b)' /\ (b \in link' \/ \E p \in Installers : tproc'[p].pc = "link" /\ tproc'[p].one = b)
  BY DEF Owed
<1>1. CASE b \in To!Resolves'
  BY <1>1 DEF To!Resolves
<1>2. CASE b \in ran
  <2>1. b \in To!Bins /\ To!Source(b) /\ (b \in link \/ \E p \in Installers : tproc[p].pc = "link" /\ tproc[p].one = b)
    BY <1>2 DEF Tooled, Served, Owed
  <2> QED BY <2>1
<1> QED BY <1>1, <1>2

\* Every step keeps the invariant, one step per action.
LEMMA TooledKept == ASSUME Tooled, [To!Next]_(To!vars) PROVE Tooled'
<1>0. LastEdition \in Nat \ {0} /\ Maps \subseteq To!Bins /\ Others \subseteq To!Bins
  BY StoreAssumption DEF StoreAssumption, To!ToolsAssumption, To!Bins
<1>1. Served /\ Installing /\ Owed
  BY DEF Tooled
<1>2. ASSUME NEW p \in Installers
      PROVE  /\ tproc[p] \in InstallType
             /\ tproc[p].pc # "idle" => Posed(tproc[p]) /\ tproc[p].ed \in 1..LastEdition
  BY <1>0 DEF Tooled, Installing, InstallType
<1>3. To!Idle \in InstallType /\ To!Idle.pc = "idle"
  BY <1>0 DEF To!Idle, InstallType
<1>4. CASE UNCHANGED To!vars
  BY <1>1, <1>4 DEF To!vars, Tooled, Served, Installing, Posed, Owed, To!Source, To!Resolves
<1> SUFFICES ASSUME To!Step, ran' = ran \cup To!Resolves' PROVE Tooled'
  BY <1>4 DEF To!Next
<1>5. ASSUME NEW p \in Installers, tproc[p].pc \notin {"idle", "link"}, NEW new \in InstallType,
             tproc' = [tproc EXCEPT ![p] = new], UNCHANGED <<edition, dist, has, link>>, tcut' = tcut \/ tcut' = TRUE,
             new.pc = "idle" \/ (new.alone = tproc[p].alone /\ new.ed = tproc[p].ed /\ new.pc \notin {"record", "link"}),
             new.pc # "idle" => Posed(new)'
      PROVE  Tooled'
  <2>1. /\ Installing' /\ \A q \in Installers : tproc'[q].pc # "idle" => Posed(tproc[q])'
        /\ tproc'[p] = new /\ \A q \in Installers \ {p} : tproc'[q] = tproc[q]
    BY <1>5, OneInstall
  <2>2. \A b \in To!Bins : To!Source(b) => To!Source(b)'
    BY <1>5 DEF To!Source
  <2>3. Owed'
    BY <1>1, <1>5, <2>1, <2>2, StillOwed DEF Served
  <2>4. Served'
    BY <1>1, <1>5 DEF Served, To!Resolves
  <2> QED BY <2>1, <2>3, <2>4 DEF Tooled
<1>6. ASSUME To!Swap PROVE Tooled'
  <2>0. PICK n : n = edition.number + 1
    OBVIOUS
  <2>1. n \in 1..LastEdition /\ edition' \in To!Declares(n) /\ UNCHANGED <<dist, has, link, tproc, tcut>>
    BY <1>0, <1>1, <1>6, <2>0 DEF To!Swap, Served
  <2>2. edition' \in [number : 1..LastEdition, ready : BOOLEAN, sha : [Maps -> 0..LastEdition]]
        /\ \A m \in Maps : edition'.sha[m] \in {0, edition'.number}
    <3>1. CASE edition' \in {[number |-> n, ready |-> TRUE, sha |-> s] : s \in [Maps -> {0, n}]}
      <4>1. PICK s \in [Maps -> {0, n}] : edition' = [number |-> n, ready |-> TRUE, sha |-> s]
        BY <3>1
      <4>2. s \in [Maps -> 0..LastEdition]
        BY <1>0, <2>1
      <4> QED BY <2>1, <4>1, <4>2
    <3>2. CASE edition' = [number |-> n, ready |-> FALSE, sha |-> [m \in Maps |-> 0]]
      BY <1>0, <2>1, <3>2
    <3> QED BY <2>1, <3>1, <3>2 DEF To!Declares
  <2>3. Served'
    BY <1>1, <2>1, <2>2 DEF Served, To!Resolves
  <2>4. Installing' /\ \A p \in Installers : tproc'[p].pc # "idle" => Posed(tproc[p])'
    BY <1>1, <1>2, <2>1 DEF Installing, Posed, To!Source
  <2>5. Owed'
    BY <1>1, <2>1, StillOwed DEF To!Source, Served
  <2> QED BY <2>3, <2>4, <2>5 DEF Tooled
<1>7. ASSUME NEW p \in Installers, NEW narrow \in BOOLEAN, To!Start(p, narrow) PROVE Tooled'
  <2>0. PICK new, f : /\ new = [pc |-> "pip", ed |-> edition.number, narrow |-> narrow, todo |-> Maps,
                                one |-> "none", alone |-> To!Busy = {}]
                      /\ f = [q \in Installers |-> IF q = p THEN new ELSE [tproc[q] EXCEPT !.alone = FALSE]]
    OBVIOUS
  <2>1. tproc' = f /\ UNCHANGED <<edition, dist, has, link, tcut>> /\ tproc[p].pc = "idle"
    BY <1>7, <2>0 DEF To!Start, To!At
  <2>2. new \in InstallType /\ new.pc = "pip" /\ new.ed # 0 /\ new.todo = Maps
        /\ (new.alone => \A q \in Installers : tproc[q].pc = "idle")
    <3>1. edition.number \in 0..LastEdition /\ edition.number # 0
      BY <1>0, <1>1 DEF Served
    <3>2. (To!Busy = {}) \in BOOLEAN /\ (To!Busy = {} => \A q \in Installers : tproc[q].pc = "idle")
      BY DEF To!Busy, To!At
    <3> QED BY <1>0, <2>0, <3>1, <3>2 DEF InstallType
  <2>3. ASSUME NEW q \in Installers \ {p}
        PROVE  /\ tproc'[q] \in InstallType /\ ~tproc'[q].alone
               /\ tproc'[q].pc = tproc[q].pc /\ tproc'[q].ed = tproc[q].ed /\ tproc'[q].one = tproc[q].one
    <3>1. tproc'[q] = [tproc[q] EXCEPT !.alone = FALSE]
      BY <2>0, <2>1
    <3> QED BY <1>2, <3>1 DEF InstallType
  <2>4. tproc'[p] = new /\ tproc' \in [Installers -> InstallType]
    <3>1. tproc' = [q \in Installers |-> tproc'[q]] /\ tproc'[p] = new
      BY <2>0, <2>1
    <3> QED BY <2>2, <2>3, <3>1
  <2>5. Installing'
    BY <1>1, <2>2, <2>3, <2>4 DEF Installing
  <2>6. \A q \in Installers : tproc'[q].pc # "idle" => Posed(tproc[q])'
    BY <2>2, <2>3, <2>4 DEF Posed
  <2>7. Owed'
    <3>1. \A q \in Installers : tproc[q].pc = "link" => tproc'[q].pc = "link" /\ tproc'[q].one = tproc[q].one
      BY <2>1, <2>3
    <3> QED BY <1>1, <2>1, <3>1, StillOwed DEF To!Source, Served
  <2>8. Served'
    BY <1>1, <2>1 DEF Served, To!Resolves
  <2> QED BY <2>5, <2>6, <2>7, <2>8 DEF Tooled
<1>8. ASSUME NEW p \in Installers, NEW m \in Maps, To!Unpack(p, m) PROVE Tooled'
  <2>0. PICK w, new : w = tproc[p] /\ new = [w EXCEPT !.pc = "record", !.one = m, !.todo = w.todo \ {m}]
    OBVIOUS
  <2>1. /\ w.pc = "pip" /\ tproc' = [tproc EXCEPT ![p] = new] /\ UNCHANGED <<edition, has, link, tcut>>
        /\ dist' = [dist EXCEPT ![m] = [code |-> w.ed, record |-> "cut"]]
    BY <1>1, <1>8, <2>0 DEF To!Unpack, To!At, To!Reinstalls, Installing
  <2>2. w \in InstallType /\ Posed(w) /\ w.ed \in 1..LastEdition
    BY <1>2, <2>0, <2>1
  <2>3. new \in InstallType /\ new.pc = "record" /\ new.one = m /\ new.alone = w.alone /\ new.ed = w.ed /\ new.todo = w.todo \ {m}
    <3>1. w.todo \ {m} \in SUBSET To!Bins /\ m \in To!Bins
      BY <1>0, <2>2 DEF InstallType
    <3> QED BY <2>0, <2>2, <3>1 DEF InstallType
  <2>4. /\ dist' \in [Maps -> [code : 0..LastEdition + 1, record : {"none", "cut", "edition", "vcs", "local"}]]
        /\ dist'[m].code = w.ed /\ \A k \in Maps \ {m} : dist'[k] = dist[k]
    <3>1. [code |-> w.ed, record |-> "cut"] \in [code : 0..LastEdition + 1, record : {"none", "cut", "edition", "vcs", "local"}]
      BY <1>0, <2>2
    <3> QED BY <1>1, <2>1, <3>1 DEF Served
  <2>5. Posed(new)'
    BY <2>1, <2>2, <2>3, <2>4 DEF Posed
  <2>6. /\ Installing' /\ \A q \in Installers : tproc'[q].pc # "idle" => Posed(tproc[q])'
        /\ tproc'[p] = new /\ \A q \in Installers \ {p} : tproc'[q] = tproc[q]
    <3>1. new \in InstallType /\ (new.pc = "idle" \/ (new.alone = tproc[p].alone /\ new.ed = tproc[p].ed))
      BY <2>0, <2>3
    <3>2. /\ tproc[p].pc # "idle" /\ tproc' = [tproc EXCEPT ![p] = new]
          /\ new.pc = "record" => new.one \in Maps
          /\ new.pc = "link" => new.one \in To!Bins
      BY <2>0, <2>1, <2>2, <2>3
    <3> QED BY <2>5, <3>1, <3>2, OneInstall
  <2>7. Owed'
    <3>1. \A b \in To!Bins : To!Source(b) => To!Source(b)'
      BY <2>1, <2>2, <2>4 DEF To!Source
    <3>2. \A q \in Installers : tproc[q].pc = "link" => tproc'[q].pc = "link" /\ tproc'[q].one = tproc[q].one
      BY <2>0, <2>1, <2>6
    <3> QED BY <1>1, <2>1, <3>1, <3>2, StillOwed DEF Served
  <2>8. Served'
    BY <1>1, <2>1, <2>4 DEF Served, To!Resolves
  <2> QED BY <2>6, <2>7, <2>8 DEF Tooled
<1>9. ASSUME NEW p \in Installers, To!Record(p) PROVE Tooled'
  <2>0. PICK w, new, m : w = tproc[p] /\ new = [w EXCEPT !.pc = "pip"] /\ m = w.one
    OBVIOUS
  <2>1. /\ w.pc = "record" /\ tproc' = [tproc EXCEPT ![p] = new] /\ UNCHANGED <<edition, has, link, tcut>>
        /\ dist' = [dist EXCEPT ![m].record = "edition"]
    BY <1>1, <1>9, <2>0 DEF To!Record, To!At, To!To, Installing
  <2>2. w \in InstallType /\ Posed(w) /\ w.ed \in 1..LastEdition /\ m \in Maps
    BY <1>1, <1>2, <2>0, <2>1 DEF Installing
  <2>3. new \in InstallType /\ new.pc = "pip" /\ new.alone = w.alone /\ new.ed = w.ed /\ new.todo = w.todo
    BY <2>0, <2>2 DEF InstallType
  <2>4. /\ dist' \in [Maps -> [code : 0..LastEdition + 1, record : {"none", "cut", "edition", "vcs", "local"}]]
        /\ \A k \in Maps : dist'[k].code = dist[k].code
    <3>1. PICK d : d = [dist[m] EXCEPT !.record = "edition"]
      OBVIOUS
    <3>2. d \in [code : 0..LastEdition + 1, record : {"none", "cut", "edition", "vcs", "local"}] /\ d.code = dist[m].code
      BY <1>1, <2>2, <3>1 DEF Served
    <3>3. dist' = [dist EXCEPT ![m] = d]
      BY <1>1, <2>1, <2>2, <3>1 DEF Served
    <3> QED BY <1>1, <2>2, <3>2, <3>3 DEF Served
  <2>5. Posed(new)'
    BY <2>1, <2>2, <2>3, <2>4 DEF Posed
  <2>6. /\ Installing' /\ \A q \in Installers : tproc'[q].pc # "idle" => Posed(tproc[q])'
        /\ tproc'[p] = new /\ \A q \in Installers \ {p} : tproc'[q] = tproc[q]
    <3>1. new \in InstallType /\ (new.pc = "idle" \/ (new.alone = tproc[p].alone /\ new.ed = tproc[p].ed))
      BY <2>0, <2>3
    <3>2. /\ tproc[p].pc # "idle" /\ tproc' = [tproc EXCEPT ![p] = new]
          /\ new.pc = "record" => new.one \in Maps
          /\ new.pc = "link" => new.one \in To!Bins
      BY <2>0, <2>1, <2>2, <2>3
    <3> QED BY <2>5, <3>1, <3>2, OneInstall
  <2>7. Owed'
    <3>1. \A b \in To!Bins : To!Source(b) => To!Source(b)'
      BY <2>1, <2>4 DEF To!Source
    <3>2. \A q \in Installers : tproc[q].pc = "link" => tproc'[q].pc = "link" /\ tproc'[q].one = tproc[q].one
      BY <2>0, <2>1, <2>6
    <3> QED BY <1>1, <2>1, <3>1, <3>2, StillOwed DEF Served
  <2>8. Served'
    BY <1>1, <2>1, <2>4 DEF Served, To!Resolves
  <2> QED BY <2>6, <2>7, <2>8 DEF Tooled
<1>10. ASSUME NEW p \in Installers, NEW at \in {"links", "network"}, NEW todo \in SUBSET To!Bins,
              To!Then(p, at, todo), UNCHANGED <<edition, dist, has, link, tcut>>,
              tproc[p].pc \in {"pip", "network"}, tproc[p].pc = "pip" => tproc[p].todo = {},
              at = "links" => (IF tproc[p].narrow THEN Maps ELSE To!Bins) \subseteq todo
       PROVE  Tooled'
  <2>0. PICK w, new : w = tproc[p] /\ new = [w EXCEPT !.pc = at, !.todo = todo]
    OBVIOUS
  <2>1. tproc' = [tproc EXCEPT ![p] = new] /\ w \in InstallType /\ Posed(w)
    BY <1>1, <1>2, <1>10, <2>0 DEF To!Then, Installing
  <2>2. new \in InstallType /\ new.pc = at /\ new.alone = w.alone /\ new.ed = w.ed /\ new.todo = todo /\ new.narrow = w.narrow
    BY <2>0, <2>1 DEF InstallType
  <2>3. Posed(new)'
    BY <1>10, <2>0, <2>1, <2>2 DEF Posed
  <2> QED BY <1>5, <1>10, <2>0, <2>1, <2>2, <2>3
<1>11. ASSUME NEW p \in Installers, To!PipDone(p) PROVE Tooled'
  BY <1>0, <1>10, <1>11 DEF To!PipDone, To!At, To!Bins
<1>12. ASSUME NEW p \in Installers, To!FetchDone(p) PROVE Tooled'
  BY <1>10, <1>12 DEF To!FetchDone, To!At, To!Bins
<1>13. ASSUME NEW p \in Installers, To!Red(p) \/ To!End(p) \/ (To!Cut(p) /\ tproc[p].pc # "link") PROVE Tooled'
  <2>1. /\ tproc' = [tproc EXCEPT ![p] = To!Idle] /\ UNCHANGED <<edition, dist, has, link>> /\ (tcut' = tcut \/ tcut' = TRUE)
        /\ tproc[p].pc \notin {"idle", "link"}
    BY <1>13 DEF To!Red, To!End, To!Cut, To!Ends, To!Done, To!At
  <2> QED BY <1>3, <1>5, <2>1
<1>14. ASSUME NEW p \in Installers, To!Cut(p), tproc[p].pc = "link" PROVE Tooled'
  <2>1. tproc' = [tproc EXCEPT ![p] = To!Idle] /\ UNCHANGED <<edition, dist, has, link>> /\ tcut' = TRUE
    BY <1>14 DEF To!Cut, To!Done
  <2>2. Installing' /\ \A q \in Installers : tproc'[q].pc # "idle" => Posed(tproc[q])'
    BY <1>3, <1>14, <2>1, OneInstall
  <2>3. Served' /\ Owed'
    BY <1>1, <2>1 DEF Served, Owed, To!Resolves
  <2> QED BY <2>2, <2>3 DEF Tooled
<1>15. ASSUME NEW p \in Installers, NEW t \in Others, To!Fetch(p, t) PROVE Tooled'
  <2>0. PICK w, new : w = tproc[p] /\ new = [w EXCEPT !.pc = "network", !.todo = w.todo \ {t}]
    OBVIOUS
  <2>1. /\ w.pc = "network" /\ tproc' = [tproc EXCEPT ![p] = new] /\ UNCHANGED <<edition, dist, link, tcut>>
        /\ has' = has \cup {t}
    BY <1>1, <1>15, <2>0 DEF To!Fetch, To!At, To!Then, Installing
  <2>2. w \in InstallType /\ Posed(w)
    BY <1>2, <2>0, <2>1
  <2>3. new \in InstallType /\ new.pc = "network" /\ new.alone = w.alone /\ new.ed = w.ed
    BY <2>0, <2>2 DEF InstallType
  <2>4. Posed(new)'
    BY <2>1, <2>2, <2>3 DEF Posed
  <2>5. /\ Installing' /\ \A q \in Installers : tproc'[q].pc # "idle" => Posed(tproc[q])'
        /\ tproc'[p] = new /\ \A q \in Installers \ {p} : tproc'[q] = tproc[q]
    BY <2>0, <2>1, <2>3, <2>4, OneInstall
  <2>6. Owed'
    <3>1. \A b \in To!Bins : To!Source(b) => To!Source(b)'
      BY <2>1 DEF To!Source
    <3>2. \A q \in Installers : tproc[q].pc = "link" => tproc'[q].pc = "link" /\ tproc'[q].one = tproc[q].one
      BY <2>0, <2>1, <2>5
    <3> QED BY <1>1, <2>1, <3>1, <3>2, StillOwed DEF Served
  <2>7. Served'
    BY <1>1, <2>1 DEF Served, To!Resolves
  <2> QED BY <2>5, <2>6, <2>7 DEF Tooled
<1>16. ASSUME NEW p \in Installers, NEW b \in To!Bins, To!Unlink(p, b) PROVE Tooled'
  <2>1. CASE ~To!Source(b)
    BY <1>3, <1>5, <1>16, <2>1 DEF To!Unlink, To!Done, To!At
  <2>2. CASE To!Source(b)
    <3>0. PICK w, new : w = tproc[p] /\ new = [w EXCEPT !.pc = "link", !.one = b, !.todo = w.todo \ {b}]
      OBVIOUS
    <3>1. /\ w.pc = "links" /\ tproc' = [tproc EXCEPT ![p] = new] /\ UNCHANGED <<edition, dist, has, tcut>>
          /\ link' = link \ {b}
      BY <1>1, <1>16, <2>2, <3>0 DEF To!Unlink, To!At, Installing
    <3>2. w \in InstallType /\ Posed(w)
      BY <1>2, <3>0, <3>1
    <3>3. new \in InstallType /\ new.pc = "link" /\ new.one = b /\ new.alone = w.alone /\ new.ed = w.ed
          /\ new.narrow = w.narrow /\ new.todo = w.todo \ {b}
      BY <3>0, <3>2 DEF InstallType
    <3>4. \A c : To!Source(c) <=> To!Source(c)'
      BY <3>1 DEF To!Source
    <3>5. Posed(new)'
      BY <2>2, <3>1, <3>2, <3>3, <3>4 DEF Posed
    <3>6. /\ Installing' /\ \A q \in Installers : tproc'[q].pc # "idle" => Posed(tproc[q])'
          /\ tproc'[p] = new /\ \A q \in Installers \ {p} : tproc'[q] = tproc[q]
      <4>1. /\ tproc[p].pc # "idle" /\ new.alone = tproc[p].alone /\ new.ed = tproc[p].ed
            /\ new.pc # "record" /\ new.one \in To!Bins /\ tproc' = [tproc EXCEPT ![p] = new]
        BY <3>0, <3>1, <3>3
      <4> QED BY <3>3, <3>5, <4>1, OneInstall
    <3>7. Owed'
      <4>1. \A c \in link : c \in link' \/ (tproc'[p].pc = "link" /\ tproc'[p].one = c)
        BY <3>1, <3>3, <3>6
      <4>2. \A q \in Installers : tproc[q].pc = "link" => tproc'[q].pc = "link" /\ tproc'[q].one = tproc[q].one
        BY <3>0, <3>1, <3>6
      <4> QED BY <3>1, <3>4, <4>1, <4>2, StillOwed
    <3>8. Served'
      BY <1>1, <3>1 DEF Served, To!Resolves
    <3> QED BY <3>6, <3>7, <3>8 DEF Tooled
  <2> QED BY <2>1, <2>2
<1>17. ASSUME NEW p \in Installers, To!Link(p) PROVE Tooled'
  <2>0. PICK w, new : w = tproc[p] /\ new = IF w.one \in link THEN To!Idle ELSE [w EXCEPT !.pc = "links"]
    OBVIOUS
  <2>1. /\ w.pc = "link" /\ tproc' = [tproc EXCEPT ![p] = new] /\ UNCHANGED <<edition, dist, has, tcut>>
        /\ link' = link \cup {w.one}
    BY <1>1, <1>17, <2>0 DEF To!Link, To!At, To!To, To!Done, Installing
  <2>2. w \in InstallType /\ Posed(w) /\ w.one \in To!Bins
    BY <1>1, <1>2, <2>0, <2>1 DEF Installing
  <2>3. /\ new \in InstallType /\ new.pc \in {"idle", "links"}
        /\ new.pc = "links" => new.alone = w.alone /\ new.ed = w.ed /\ new.narrow = w.narrow /\ new.todo = w.todo
    <3>1. CASE w.one \in link
      BY <1>3, <2>0, <3>1
    <3>2. CASE w.one \notin link
      BY <2>0, <2>2, <3>2 DEF InstallType
    <3> QED BY <3>1, <3>2
  <2>4. \A c : To!Source(c) <=> To!Source(c)'
    BY <2>1 DEF To!Source
  <2>5. new.pc # "idle" => Posed(new)'
    BY <2>1, <2>2, <2>3, <2>4 DEF Posed
  <2>6. /\ Installing' /\ \A q \in Installers : tproc'[q].pc # "idle" => Posed(tproc[q])'
        /\ tproc'[p] = new /\ \A q \in Installers \ {p} : tproc'[q] = tproc[q]
    <3>1. new \in InstallType /\ (new.pc = "idle" \/ (new.alone = tproc[p].alone /\ new.ed = tproc[p].ed))
      BY <2>0, <2>3
    <3>2. /\ tproc[p].pc # "idle" /\ tproc' = [tproc EXCEPT ![p] = new]
          /\ new.pc = "record" => new.one \in Maps
          /\ new.pc = "link" => new.one \in To!Bins
      BY <2>0, <2>1, <2>2, <2>3
    <3> QED BY <2>5, <3>1, <3>2, OneInstall
  <2>7. Owed'
    <3>1. \A q \in Installers : tproc[q].pc = "link" =>
            tproc[q].one \in link' \/ (tproc'[q].pc = "link" /\ tproc'[q].one = tproc[q].one)
      BY <2>0, <2>1, <2>6
    <3> QED BY <2>1, <2>4, <3>1, StillOwed
  <2>8. Served'
    BY <1>1, <2>1, <2>2 DEF Served, To!Resolves
  <2> QED BY <2>6, <2>7, <2>8 DEF Tooled
<1> QED BY <1>6, <1>7, <1>8, <1>9, <1>11, <1>12, <1>13, <1>14, <1>15, <1>16, <1>17 DEF To!Step

\* A step between two states of the invariant is an honest one.
LEMMA TooledSteps ==
  ASSUME Tooled, Tooled' PROVE To!ToolsStep
<1>1. To!TypeOK'
  BY DEF Tooled, Served, To!TypeOK
<1>2. ASSUME NEW m \in Maps, To!Compared(m)' = "up-to-date" PROVE dist'[m].code = edition'.number
  <2>1. To!Served(m)' # 0 /\ To!Served(m)' = To!Declared(m)'
    BY <1>2 DEF To!Compared
  <2>2. To!Served(m)' = dist'[m].code /\ To!Declared(m)' = edition'.sha[m]
    BY <2>1 DEF To!Served, To!Declared
  <2> QED BY <2>1, <2>2 DEF Tooled, Served
<1>3. ASSUME NEW p \in Installers, To!Ends(p), tproc[p].alone
      PROVE  /\ edition.number = tproc[p].ed => To!check_tools # "differs" /\ \A m \in Maps : dist[m].code = edition.number
             /\ (IF tproc[p].narrow THEN Maps ELSE To!Bins) \subseteq To!Resolves
  <2>1. tproc[p].pc = "links" /\ tproc[p].todo = {} /\ Posed(tproc[p])
    BY <1>3 DEF To!Ends, To!At, Tooled
  <2>2. \A m \in Maps : dist[m].code = tproc[p].ed
    BY <1>3, <2>1 DEF Posed
  <2>3. ASSUME edition.number = tproc[p].ed PROVE To!check_tools # "differs"
    <3>1. ASSUME NEW m \in Maps PROVE To!Compared(m) # "differs"
      <4>1. To!Declared(m) \in {0, edition.number}
        BY DEF To!Declared, Tooled, Served
      <4>2. To!Served(m) \in {0, edition.number}
        BY <2>2, <2>3 DEF To!Served
      <4> QED BY <4>1, <4>2 DEF To!Compared
    <3> QED BY <3>1 DEF To!check_tools, To!overall_state
  <2>4. (IF tproc[p].narrow THEN Maps ELSE To!Bins) \subseteq To!Resolves
    BY <1>3, <2>1 DEF Posed, To!Resolves
  <2> QED BY <2>2, <2>3, <2>4
<1>4. ASSUME To!Busy' = {}, ~tcut' PROVE ran' = To!Resolves'
  <2>1. \A p \in Installers : tproc'[p].pc = "idle"
    BY <1>4 DEF To!Busy, To!At
  <2>2. ran' \subseteq To!Resolves'
    BY <1>4, <2>1 DEF Tooled, Owed, To!Resolves
  <2>3. To!Resolves' \subseteq ran'
    BY DEF Tooled, Served
  <2> QED BY <2>2, <2>3
<1> QED BY <1>1, <1>2, <1>3, <1>4 DEF To!ToolsStep

\* What `tools check` and the recorded install say of the host is what stands
\* there: up to date means the catalog's code, an install that ended alone served
\* what it asked for, and on an idle uncut host what resolved once still does.
THEOREM ToolsAreHonestHolds == StoreSpec => ToolsAreHonest
<1> DEFINE I == part = "tools" => Tooled
<1>1. StoreInit => I
  BY TooledInit DEF StoreInit
<1>2. ASSUME I, [StoreNext]_all, part' = "tools" \/ part = "tools"
      PROVE  part = "tools" /\ part' = "tools" /\ [To!Next]_(To!vars)
  BY <1>2 DEF StoreNext, all, tools, To!vars
<1>3. I /\ [StoreNext]_all => I'
  BY <1>2, TooledKept
<1>4. I /\ [StoreNext]_all => [part = "tools" => To!ToolsStep]_all
  BY <1>2, TooledKept, TooledSteps
<1> QED BY <1>1, <1>3, <1>4, PTL DEF StoreSpec, ToolsAreHonest
=============================================================================
