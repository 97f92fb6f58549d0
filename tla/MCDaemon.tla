------------------------------- MODULE MCDaemon -------------------------------
(***************************************************************************)
(* Five machines of the daemon that share no state, checked in one run: a  *)
(* behaviour belongs to one of them, the others stay at one of their       *)
(* initial states, so the state spaces add up instead of multiplying.      *)
(***************************************************************************)
EXTENDS Naturals, Sequences, FiniteSets, Gate

CONSTANTS
  Refreshers, Tours, Window, Keys, Foreign, Overlap, MaxRounds,
  Conns, Cap, MaxOut, MaxShells, None,
  Kinds, MaxCommits, MaxSyncs,
  Requests, Features, DeployBranches, WorktreeRange, DeployRange, Outside, MaxRaceRetry, MaxOps

\* The third edition is published under the version of the second, with another key.
Editions == 1..3
Version  == <<"v1", "v2", "v2">>
Trust    == <<{"a"}, {"a"}, {"b"}>>

VARIABLES
  part,
  head, build, cache, tmp, ref, rows, user, rounds,
  reg, sess, conn,
  kind, local, remote, track, out, sync, merge, commits, syncs,
  held, trees, dep, cont, req, ops, cut

channel  == <<head, build, cache, tmp, ref, rows, user, rounds>>
terminal == <<reg, sess, conn>>
mirror   == <<kind, local, remote, track, out, sync, merge, commits, syncs>>
runtime  == <<held, trees, dep, cont, req, ops, cut>>
vars == <<part, input, channel, terminal, mirror, runtime>>

Ch == INSTANCE Channel
Te == INSTANCE Terminal
Mi == INSTANCE Mirror
Ru == INSTANCE Runtime

ASSUME Assumptions == /\ Ch!ChannelAssumption /\ Te!TerminalAssumption
                      /\ Mi!MirrorAssumption /\ Ru!RuntimeAssumption

DaemonInit ==
  /\ part \in {"gate", "channel", "terminal", "mirror", "runtime"}
  /\ IF part = "gate" THEN Init ELSE input = CHOOSE i \in Inputs : TRUE
  /\ Ch!Init /\ Te!Init /\ Ru!Init /\ Mi!Init
  /\ part # "mirror" => kind = "project" /\ out = {} /\ local = remote /\ local["dev"] # {}

DaemonNext ==
  /\ UNCHANGED part
  /\ \/ part = "gate" /\ Next /\ UNCHANGED <<channel, terminal, mirror, runtime>>
     \/ part = "channel" /\ Ch!Next /\ UNCHANGED <<input, terminal, mirror, runtime>>
     \/ part = "terminal" /\ Te!Next /\ UNCHANGED <<input, channel, mirror, runtime>>
     \/ part = "mirror" /\ Mi!Next /\ UNCHANGED <<input, channel, terminal, runtime>>
     \/ part = "runtime" /\ Ru!Next /\ UNCHANGED <<input, channel, terminal, mirror>>

DaemonSpec == DaemonInit /\ [][DaemonNext]_vars /\ Te!Fairness

\* Channel: an answer covers the verified bytes it was given for, and what is
\* proposed descends from the edition that runs.
OffersAreHonest ==
  [][part = "channel" => Ch!TypeOK' /\ Ch!ConsentIsInformed' /\ Ch!OffersGoForward]_vars
\* Terminal: one shell per key, within reach, marked when left.
ShellIsHeld == part = "terminal" => Te!TypeOK /\ Te!ShellIsHeld
\* Terminal: the output reaches who is there, and who left is released.
SessionLives == Te!SessionLives
\* Mirror: only where two movers of a branch cross is a commit dropped, and a
\* synchronisation left alone converges.
SyncIsSound == [][part = "mirror" => Mi!NothingIsDropped /\ Mi!SyncConverges']_vars
\* Runtime: a port has one holder and is held as long as it should be; the
\* status written is what the containers are.
DeploymentsAreSound ==
  [][part = "runtime" => Ru!TypeOK' /\ Ru!PortsAreKept' /\ Ru!StatusIsHonest]_vars
=============================================================================
