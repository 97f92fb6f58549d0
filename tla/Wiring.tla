-------------------------------- MODULE Wiring --------------------------------
(***************************************************************************)
(* The encrypted file of secrets, what refers to it (the instance's env    *)
(* file, a project's credential), and the catalog server installed beside  *)
(* the daemon, which must be given the very secret the daemon signs with.  *)
(* Every operation is a sequence of writes that a stop may cut.            *)
(***************************************************************************)
EXTENDS Naturals, FiniteSets

CONSTANTS
  Shells,     \* processes of the command line; "daemon" serves the wizard
  Overlap,    \* TRUE: operations of two processes run at the same time
  MaxStored   \* secrets stored in all

WiringAssumption == "daemon" \notin Shells /\ Overlap \in BOOLEAN /\ MaxStored \in Nat

Procs == Shells \cup {"daemon"}
Operations == {"install", "wire", "wire ref", "link"}

VARIABLES
  key,      \* master.key: absent, empty between its creation and its writing, set
  blob,     \* store.enc: what each stored reference opens
  env,      \* the reference in the instance's env file, 0: none
  live,     \* the one in the daemon's environment
  cred,     \* the one in a project's row
  server,   \* the co-installed server: its code, the secret of its env file
  proc,     \* each process: where it is and what it holds
  stored,   \* secrets stored so far: a reference is its number, as its secret is
  wired,    \* the instance was wired since the server's env file was written
  stale     \* ... and the daemon not restarted since

vars == <<key, blob, env, live, cred, server, proc, stored, wired, stale>>

Idle == [pc |-> "idle", op |-> "none", secret |-> 0, ref |-> 0, shell |-> 0, data |-> {}]

\* cred_resolver: total, what does not open is no secret.
Resolve(ref) ==
  IF key = "set" /\ \E e \in blob : e[1] = ref THEN (CHOOSE e \in blob : e[1] = ref)[2] ELSE 0

At(p, pc) == proc[p].pc = pc
To(p, pc) == proc' = [proc EXCEPT ![p].pc = pc]
Done(p) == proc' = [proc EXCEPT ![p] = Idle]
Busy == {p \in Procs : ~At(p, "idle")}

\* A command loads the env file (load_env_file); a route sees the daemon's environment.
Start(p, op) ==
  /\ At(p, "idle") /\ (Overlap \/ Busy = {}) /\ stored < MaxStored
  /\ p = "daemon" => op # "install"
  /\ proc' = [proc EXCEPT ![p] = [Idle EXCEPT !.pc = (CASE op = "install" -> "pip" [] op = "wire ref" -> "check"
                                                        [] OTHER -> "read"),
                                              !.op = op, !.shell = IF p = "daemon" THEN live ELSE env]]
  /\ UNCHANGED <<key, blob, env, live, cred, server, stored, wired, stale>>

\* The steps of pip: a red one ends the installation there.
InstallServer(p) ==
  /\ At(p, "pip")
  /\ \/ server' = [server EXCEPT !.code = TRUE] /\ To(p, "secret")
     \/ UNCHANGED server /\ Done(p)
  /\ UNCHANGED <<key, blob, env, live, cred, stored, wired, stale>>

\* A secret made at every installation: what the running server holds is void.
ExistingMutant(p) == 0

\* The secret already wired, if it resolves, is the one installed again.
Existing(p) == Resolve(proc[p].shell)

PickSecret(p) ==
  /\ At(p, "secret")
  /\ proc' = [proc EXCEPT ![p].secret = Existing(p), ![p].pc = "read"]
  /\ UNCHANGED <<key, blob, env, live, cred, server, stored, wired, stale>>

\* put reads everything, an unreadable store raises ...
ReadStore(p) ==
  /\ At(p, "read")
  /\ IF blob # {} /\ key # "set" THEN Done(p)
     ELSE proc' = [proc EXCEPT ![p].data = blob, ![p].pc = "key"]
  /\ UNCHANGED <<key, blob, env, live, cred, server, stored, wired, stale>>

\* ... the first one creates the key, then writes it; an empty key raises ...
CreateKey(p) ==
  /\ At(p, "key")
  /\ CASE key = "absent" -> key' = "empty" /\ To(p, "write key")
       [] key = "empty"  -> UNCHANGED key /\ Done(p)
       [] key = "set"    -> UNCHANGED key /\ To(p, "write")
  /\ UNCHANGED <<blob, env, live, cred, server, stored, wired, stale>>

WriteKey(p) ==
  /\ At(p, "write key")
  /\ key' = "set" /\ To(p, "write")
  /\ UNCHANGED <<blob, env, live, cred, server, stored, wired, stale>>

\* ... and replaces the file by what it read and the new entry.
WriteStore(p) ==
  /\ At(p, "write")
  /\ LET secret == IF proc[p].secret = 0 THEN stored + 1 ELSE proc[p].secret
     IN /\ blob' = proc[p].data \cup {<<stored + 1, secret>>}
        /\ proc' = [proc EXCEPT ![p].ref = stored + 1, ![p].secret = secret,
                                ![p].pc = IF proc[p].op = "link" THEN "row" ELSE "env"]
  /\ stored' = stored + 1
  /\ UNCHANGED <<key, env, live, cred, server, wired, stale>>

\* A reference somebody brings must open.
CheckRef(p) ==
  /\ At(p, "check")
  /\ \E ref \in 1..MaxStored :
       IF Resolve(ref) = 0 THEN Done(p)
       ELSE proc' = [proc EXCEPT ![p].ref = ref, ![p].secret = Resolve(ref), ![p].pc = "env"]
  /\ UNCHANGED <<key, blob, env, live, cred, server, stored, wired, stale>>

\* set_env_keys; the wizard's wiring is the daemon's environment at once (live_env).
SetEnv(p) ==
  /\ At(p, "env")
  /\ env' = proc[p].ref
  /\ live' = IF p = "daemon" THEN proc[p].ref ELSE live
  /\ IF proc[p].op = "install"
       THEN To(p, "server") /\ UNCHANGED <<wired, stale>>
       ELSE Done(p) /\ wired' = TRUE /\ stale' = (p # "daemon")
  /\ UNCHANGED <<key, blob, cred, server, stored>>

\* The server's own env file carries the secret; its unit is written after it.
WriteServer(p) ==
  /\ At(p, "server")
  /\ server' = [server EXCEPT !.secret = proc[p].secret]
  /\ wired' = FALSE /\ Done(p)
  /\ UNCHANGED <<key, blob, env, live, cred, stored, stale>>

\* link_credential: the row refers to what was stored before.
LinkRow(p) ==
  /\ At(p, "row")
  /\ cred' = proc[p].ref /\ Done(p)
  /\ UNCHANGED <<key, blob, env, live, server, stored, wired, stale>>

\* unlink_credential leaves the secret where it is.
Unlink ==
  /\ cred # 0 /\ cred' = 0
  /\ UNCHANGED <<key, blob, env, live, server, proc, stored, wired, stale>>

\* The service reads its EnvironmentFile when it starts.
Restart ==
  /\ At("daemon", "idle")
  /\ live' = env /\ stale' = FALSE
  /\ UNCHANGED <<key, blob, env, cred, server, proc, stored, wired>>

Cut(p) ==
  /\ ~At(p, "idle") /\ Done(p)
  /\ IF p = "daemon" THEN live' = env /\ stale' = FALSE ELSE UNCHANGED <<live, stale>>
  /\ UNCHANGED <<key, blob, env, cred, server, stored, wired>>

Init ==
  /\ key = "absent" /\ blob = {} /\ env = 0 /\ live = 0 /\ cred = 0
  /\ server = [code |-> FALSE, secret |-> 0] /\ proc = [p \in Procs |-> Idle]
  /\ stored = 0 /\ wired = FALSE /\ stale = FALSE

Next ==
  \/ Unlink \/ Restart
  \/ \E p \in Procs :
       \/ \E op \in Operations : Start(p, op)
       \/ InstallServer(p) \/ PickSecret(p) \/ ReadStore(p) \/ CreateKey(p) \/ WriteKey(p) \/ WriteStore(p)
       \/ CheckRef(p) \/ SetEnv(p) \/ WriteServer(p) \/ LinkRow(p) \/ Cut(p)

Spec == Init /\ [][Next]_vars

-----------------------------------------------------------------------------
TypeOK ==
  /\ key \in {"absent", "empty", "set"} /\ blob \subseteq (1..MaxStored) \X (1..MaxStored)
  /\ {env, live, cred, server.secret} \subseteq 0..MaxStored

\* Whether a dispatch is given a token (inject_mcp_config).
Injects == Resolve(live) # 0

\* When operations do not overlap: a stored secret stays readable whatever is
\* cut (put), a server installed again keeps its secret unless the instance was
\* wired to another (install), the token of the next dispatch is one the server
\* accepts, and a linked credential opens (inject_mcp_config, link_credential).
WiringStep ==
  /\ TypeOK'
  /\ blob \subseteq blob'
  /\ server.secret # 0 /\ ~wired => server'.secret = server.secret
  /\ (Busy = {} /\ ~wired /\ ~stale /\ server.secret # 0 /\ Injects
        => Resolve(live) = server.secret)'
  /\ (cred # 0 => Resolve(cred) # 0)'
=============================================================================
