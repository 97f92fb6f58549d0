------------------------------ MODULE Terminal ------------------------------
(***************************************************************************)
(* Detachable terminal sessions under one registry key.  A session holds a *)
(* shell, a sliding window of its output and an event that wakes pumps; a  *)
(* connection attaches, relays both ways with two tasks of one event loop, *)
(* and decides on leaving whether the shell survives; a reaper closes what *)
(* was left.  A step is what runs between two awaits.                      *)
(***************************************************************************)
EXTENDS Naturals, Sequences

CONSTANTS
  Conns,      \* websocket connections, each used once
  Cap,        \* SCROLLBACK_CAP, in outputs
  MaxOut,     \* bound on the outputs of a shell
  MaxShells,  \* bound on the shells spawned
  None

TerminalAssumption ==
  Cap \in Nat \ {0} /\ MaxOut \in Nat /\ MaxShells \in Nat /\ None \notin Nat

VARIABLES
  reg,    \* the session of the key, or None
  sess,   \* every session so far
  conn    \* each connection: where its serve, its pump and its receiver are

vars == <<reg, sess, conn>>

Sessions == 1..Len(sess)
Alive(s) == ~sess[s].eof /\ sess[s].shell
Low(s) == IF sess[s].total > Cap THEN sess[s].total - Cap ELSE 0
Serving(c) == conn[c].pc \in {"hello", "relay", "leaving"}
Current(c) == Serving(c) /\ conn[c].epoch = sess[conn[c].s].epoch

NewSession == [shell |-> TRUE, eof |-> FALSE, closed |-> FALSE, reader |-> TRUE, total |-> 0,
               event |-> FALSE, epoch |-> 0, left |-> "no"]
Off == [pc |-> "off", s |-> 1, epoch |-> 0, cursor |-> 0, read |-> 0,
        pump |-> "none", recv |-> "none", peer |-> TRUE]
Over == [Off EXCEPT !.pc = "over"]

\* data_event.set(): every pump that waits on the session is made runnable.
Woken(s) == [c \in Conns |-> IF conn[c].pc = "relay" /\ conn[c].s = s /\ conn[c].pump = "wait"
                             THEN [conn[c] EXCEPT !.pump = "woken"] ELSE conn[c]]
\* data_event.wait(): returns at once when the event is set.
Wait(s) == IF sess[s].event THEN "woken" ELSE "wait"


\* close: the reader, the master and the shell go; the pump is woken.  Idempotent.
Closed(r) == IF r.closed THEN r
             ELSE [r EXCEPT !.closed = TRUE, !.reader = FALSE, !.shell = FALSE, !.event = TRUE]
WokenBy(s) == IF sess[s].closed THEN conn ELSE Woken(s)
Popped(s) == IF reg = s THEN None ELSE reg

(***************************************************************************)
(* The shell                                                               *)
(***************************************************************************)
Output(s) ==
  /\ sess[s].shell /\ sess[s].reader /\ sess[s].total < MaxOut
  /\ sess' = [sess EXCEPT ![s].total = @ + 1, ![s].event = TRUE]
  /\ conn' = Woken(s)
  /\ UNCHANGED reg

Exit(s) == /\ sess[s].shell /\ sess' = [sess EXCEPT ![s].shell = FALSE]
           /\ UNCHANGED <<reg, conn>>

\* _on_readable, at the end of the stream: the reader goes, the pump is woken.
Eof(s) == /\ ~sess[s].shell /\ sess[s].reader
          /\ sess' = [sess EXCEPT ![s].eof = TRUE, ![s].reader = FALSE, ![s].event = TRUE]
          /\ conn' = Woken(s)
          /\ UNCHANGED reg

(***************************************************************************)
(* serve_project_terminal                                                  *)
(***************************************************************************)
\* get, close a dead residual, spawn and put, attach; then the first send.
Connect(c) ==
  /\ conn[c].pc = "off"
  /\ LET dead  == reg # None /\ ~Alive(reg)
         fresh == reg = None \/ dead
         s == IF fresh THEN Len(sess) + 1 ELSE reg
         r == IF fresh THEN NewSession ELSE sess[s]
     IN  /\ s <= MaxShells
         /\ sess' = [t \in Sessions \cup {s} |->
                       IF t = s THEN [r EXCEPT !.epoch = @ + 1, !.left = "no", !.event = TRUE]
                       ELSE IF dead /\ t = reg THEN Closed(sess[t]) ELSE sess[t]]
         /\ reg' = s
         /\ conn' = [(IF dead THEN WokenBy(reg) ELSE IF fresh THEN conn ELSE Woken(s)) EXCEPT ![c] =
                       [@ EXCEPT !.pc = "hello", !.s = s, !.epoch = r.epoch + 1,
                                 !.cursor = IF fresh THEN 0 ELSE Low(s)]]

\* _relay: the two tasks start.
Relay(c) ==
  /\ conn[c].pc = "hello"
  /\ conn' = [conn EXCEPT ![c].pc = "relay", ![c].pump = Wait(conn[c].s), ![c].recv = "open"]
  /\ UNCHANGED <<reg, sess>>

\* Mutant of Pump: the event is left set.
PumpMutant(c) ==
  LET s == conn[c].s IN
  /\ conn[c].pc = "relay" /\ conn[c].pump = "woken"
  /\ conn' = [conn EXCEPT ![c].pump = IF conn[c].epoch # sess[s].epoch THEN "replaced" ELSE "wait"]
  /\ sess' = [sess EXCEPT ![s].event = FALSE]
  /\ UNCHANGED reg

\* pty_to_ws, once the event is set: replaced, or clear, read from the cursor
\* (brought back into the window) and send.
Pump(c) ==
  LET s == conn[c].s
      from == IF conn[c].cursor < Low(s) THEN Low(s) ELSE conn[c].cursor
  IN  /\ conn[c].pc = "relay" /\ conn[c].pump = "woken"
      /\ IF conn[c].epoch # sess[s].epoch
         THEN conn' = [conn EXCEPT ![c].pump = "replaced"] /\ UNCHANGED sess
         ELSE /\ sess' = [sess EXCEPT ![s].event = FALSE]
              /\ conn' = [conn EXCEPT ![c].read = sess[s].total,
                           ![c].pump = IF from < sess[s].total THEN "send"
                                       ELSE IF sess[s].eof THEN "eof" ELSE "wait"]
      /\ UNCHANGED reg

\* The client took the chunk; or the transport broke.
Sent(c) ==
  LET s == conn[c].s IN
  /\ conn[c].pc = "relay" /\ conn[c].pump = "send"
  /\ \/ /\ conn[c].peer
        /\ conn' = [conn EXCEPT ![c].cursor = conn[c].read, ![c].read = 0,
                     ![c].pump = IF sess[s].eof /\ conn[c].read >= sess[s].total THEN "eof"
                                 ELSE Wait(s)]
     \/ /\ ~conn[c].peer
        /\ conn' = [conn EXCEPT ![c].pump = "broken"]
  /\ UNCHANGED <<reg, sess>>

\* The client goes away; the receiver learns it; the two may be far apart.
Gone(c) ==
  /\ Serving(c) /\ conn[c].peer
  /\ conn' = [conn EXCEPT ![c].peer = FALSE]
  /\ UNCHANGED <<reg, sess>>

Receive(c) == /\ conn[c].pc = "relay" /\ conn[c].recv = "open" /\ ~conn[c].peer
              /\ conn' = [conn EXCEPT ![c].recv = "disconnect"]
              /\ UNCHANGED <<reg, sess>>

\* asyncio.wait: one of the finished tasks says why; the other is cancelled.
Reasons(c) == {conn[c].pump, conn[c].recv} \cap {"replaced", "eof", "broken", "disconnect"}
Leave(c) ==
  /\ conn[c].pc = "relay"
  /\ \E why \in Reasons(c) : conn' = [conn EXCEPT ![c] =
                        [@ EXCEPT !.pc = "leaving", !.pump = why, !.recv = "none", !.read = 0]]
  /\ UNCHANGED <<reg, sess>>

\* Mutant of Finish: a client that leaves leaves the session as it is.
FinishMutant(c) == /\ conn[c].pc = "leaving" /\ conn' = [conn EXCEPT ![c] = Over]
                   /\ UNCHANGED <<reg, sess>>

Finish(c) ==
  LET s == conn[c].s
      why == conn[c].pump
  IN  /\ conn[c].pc = "leaving"
      /\ \/ /\ why = "replaced"
            /\ conn' = [conn EXCEPT ![c] = Over]
            /\ UNCHANGED <<reg, sess>>
         \/ /\ why \in {"disconnect", "broken"} /\ Alive(s)
            /\ sess' = [sess EXCEPT ![s].left = IF @ = "no" THEN "lately" ELSE @]
            /\ conn' = [conn EXCEPT ![c] = Over]
            /\ UNCHANGED reg
         \/ /\ why = "eof" \/ (why # "replaced" /\ ~Alive(s))
            /\ sess' = [sess EXCEPT ![s] = Closed(@)]
            /\ reg' = Popped(s)
            /\ conn' = [WokenBy(s) EXCEPT ![c] = Over]

(***************************************************************************)
(* The reaper, and the daemon's end                                        *)
(***************************************************************************)
\* DETACH_TTL_S goes by.
Age == \E s \in Sessions : /\ sess[s].left = "lately" /\ ~sess[s].closed
                           /\ sess' = [sess EXCEPT ![s].left = "long"]
                           /\ UNCHANGED <<reg, conn>>

Reap == /\ reg # None /\ sess[reg].left # "no"
        /\ ~Alive(reg) \/ sess[reg].left = "long"
        /\ sess' = [sess EXCEPT ![reg] = Closed(@)]
        /\ conn' = WokenBy(reg) /\ reg' = None

\* close_all: the daemon stops, and its connections with it.
CloseAll == /\ reg # None
            /\ sess' = [s \in Sessions |-> IF s = reg THEN Closed(sess[s]) ELSE sess[s]]
            /\ reg' = None
            /\ conn' = [c \in Conns |-> IF Serving(c) THEN Over ELSE conn[c]]

Init == reg = None /\ sess = <<>> /\ conn = [c \in Conns |-> Off]

Serve(c) == Relay(c) \/ Pump(c) \/ Sent(c) \/ Receive(c) \/ Leave(c) \/ Finish(c)

Next ==
  \/ Age \/ Reap \/ CloseAll
  \/ \E s \in Sessions : Output(s) \/ Exit(s) \/ Eof(s)
  \/ \E c \in Conns : Connect(c) \/ Gone(c) \/ Serve(c)

\* The loop runs what is runnable, the clock goes on, the reaper comes round.
Fairness ==
  /\ \A c \in Conns : WF_vars(Serve(c))
  /\ \A s \in 1..MaxShells : WF_vars(s \in Sessions /\ Eof(s))
  /\ WF_vars(Age) /\ WF_vars(Reap)

(***************************************************************************)
(* Properties                                                              *)
(***************************************************************************)
TypeOK ==
  /\ reg \in Sessions \cup {None}
  /\ \A s \in Sessions : /\ sess[s].total \in 0..MaxOut /\ sess[s].left \in {"no", "lately", "long"}
                         /\ sess[s].closed => ~sess[s].shell /\ ~sess[s].reader
  /\ \A c \in Conns : Serving(c) =>
       /\ conn[c].s \in Sessions /\ conn[c].epoch <= sess[conn[c].s].epoch
       /\ conn[c].cursor <= sess[conn[c].s].total

\* One shell per key, within reach: a shell that runs is the registry's session,
\* so that the next client finds it and the reaper can release it; and a session
\* nobody is attached to is marked as left.
ShellIsHeld ==
  /\ \A s \in Sessions : sess[s].shell => reg = s
  /\ reg # None /\ sess[reg].left = "no" => \E c \in Conns : Current(c) /\ conn[c].s = reg

\* A client that stays attached receives what the shell says, whoever shares the
\* event with it.
OutputArrives == \A c \in Conns :
  (Current(c) /\ conn[c].peer /\ conn[c].cursor < sess[conn[c].s].total)
    ~> (~Current(c) \/ ~conn[c].peer \/ conn[c].cursor = sess[conn[c].s].total)

\* What everyone left does not stay: it is closed, or somebody is back.
LeftIsReleased ==
  (reg # None /\ \A c \in Conns : ~Serving(c)) ~> (reg = None \/ \E c \in Conns : Serving(c))

\* Both: the shell reaches who is there, and does not outlive who left.
SessionLives == OutputArrives /\ LeftIsReleased
=============================================================================
