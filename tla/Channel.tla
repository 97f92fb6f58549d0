------------------------------- MODULE Channel -------------------------------
(***************************************************************************)
(* The update channel: refreshers (the daemon's poll, the CLI) read what   *)
(* they knew, fetch an envelope, verify it under the keys of the edition   *)
(* that runs, write what they know over one shared file, and the poll      *)
(* notes a proposal the user may defer, decline or accept.                 *)
(*                                                                         *)
(* An edition is its number in the published line; 0 is an announcement    *)
(* nobody published.  A signature is a key and whether it verifies.        *)
(***************************************************************************)
EXTENDS Naturals, FiniteSets

CONSTANTS
  Refreshers, Tours,   \* who refreshes; those whose round ends with a note
  Editions,            \* 1..N, in the order of the published line
  Version,             \* edition -> version: two editions may share one
  Window,              \* LINEAGE_MAX
  Keys, Foreign,       \* the publisher's keys, and keys nobody trusts
  Trust,               \* edition -> the keys it embeds
  Overlap,             \* may a note fall between a decision's check and its update?
  MaxRounds

Versions == {Version[e] : e \in Editions}
Choices  == {"deferred", "declined", "accepted"}

ChannelAssumption ==
  /\ Tours \subseteq Refreshers /\ Editions = 1..Cardinality(Editions)
  /\ Window \in Nat \ {0} /\ Keys \cap Foreign = {}
  /\ Trust \in [Editions -> SUBSET Keys] /\ Overlap \in BOOLEAN /\ MaxRounds \in Nat

VARIABLES
  head,      \* editions published so far
  build,     \* the edition that runs
  cache,     \* channel state on disk: the last success (0: none), the last attempt
  tmp,       \* the temporary file every writer shares; "none" when absent
  ref,       \* each refresher: where it is, and the state it will write
  rows,      \* update_proposals: version -> row
  user,      \* a decision in progress, and what was last answered per version
  rounds     \* rounds begun so far

vars == <<head, build, cache, tmp, ref, rows, user, rounds>>

NoState == [success |-> 0, attempt |-> "never"]
NoRow   == [sha |-> 0, state |-> "absent"]

(***************************************************************************)
(* Verification and verdict                                                *)
(***************************************************************************)
Envelopes == [ann : 0..head, sigs : SUBSET ((Keys \cup Foreign) \X BOOLEAN) \ {{}}]
\* What the network may serve: the publisher signed only what it published.
Served == {e \in Envelopes : e.ann = 0 => \A k \in Keys : <<k, TRUE>> \notin e.sigs}

Verified(e, trusted) == \E s \in e.sigs : s[1] \in trusted /\ s[2]

\* trust_root: the keys of the edition that runs.
Trusted == Trust[build]

\* verify_envelope: a known key that fails outweighs an unknown one.
Outcome(e, trusted) ==
  IF Verified(e, trusted) THEN "ok"
  ELSE IF \E s \in e.sigs : s[1] \in trusted THEN "bad-signature" ELSE "unknown-key"

Lineage(ann) == IF ann = 0 THEN Editions ELSE {t \in Editions : t < ann /\ ann - t <= Window}


Situate(ann, b) == CASE b = ann          -> "up-to-date"
                     [] b \in Lineage(ann) -> "available"
                     [] OTHER            -> "cannot-situate"

Verdict(s, b) ==
  IF s.attempt = "no-trust-root" THEN "no-trust-root"
  ELSE IF s.attempt \in {"bad-signature", "unknown-key"} THEN "unverified"
  ELSE IF s.success # 0 THEN Situate(s.success, b)
  ELSE IF s.attempt \in {"unreachable", "malformed"} THEN "unreachable" ELSE "never"

(***************************************************************************)
(* A round                                                                 *)
(***************************************************************************)
At(r, pc) == ref[r].pc = pc
Goto(r, pc) == ref' = [ref EXCEPT ![r].pc = pc]
Idle == [pc |-> "idle", out |-> NoState]
\* refresh returns: the poll goes on with a note, the CLI prints.
Return(r) == ref' = [ref EXCEPT ![r] = IF r \in Tours THEN [@ EXCEPT !.pc = "note"] ELSE Idle]

\* refresh reads the last success before it asks the network; an edition that
\* embeds no key asks nothing.
Begin(r) ==
  /\ At(r, "idle") /\ rounds < MaxRounds /\ rounds' = rounds + 1
  /\ LET blind == Trusted = {}
     IN ref' = [ref EXCEPT ![r] =
          [pc |-> IF blind THEN "fill" ELSE "fetch",
           out |-> [success |-> cache.success,
                    attempt |-> IF blind THEN "no-trust-root" ELSE "never"]]]
  /\ UNCHANGED <<head, build, cache, tmp, rows, user>>

Fetched(r, attempt, ann) ==
  [success |-> IF attempt = "ok" THEN ann ELSE ref[r].out.success, attempt |-> attempt]

Fetch(r) ==
  /\ At(r, "fetch")
  /\ \E out \in {Fetched(r, a, 0) : a \in {"unreachable", "malformed"}}
                \cup {Fetched(r, Outcome(e, Trusted), e.ann) : e \in Served} :
       ref' = [ref EXCEPT ![r].pc = "fill", ![r].out = out]
  /\ UNCHANGED <<head, build, cache, tmp, rows, user, rounds>>

\* _write_state: the temporary file, then the replacement; an error is logged.
Fill(r) ==
  /\ At(r, "fill")
  /\ \/ tmp' = ref[r].out /\ Goto(r, "replace")
     \/ Return(r) /\ UNCHANGED tmp
  /\ UNCHANGED <<head, build, cache, rows, user, rounds>>

Replace(r) ==
  /\ At(r, "replace")
  /\ IF tmp = NoState THEN UNCHANGED <<cache, tmp>> ELSE cache' = tmp /\ tmp' = NoState
  /\ Return(r)
  /\ UNCHANGED <<head, build, rows, user, rounds>>

(***************************************************************************)
(* Proposals                                                               *)
(***************************************************************************)
Deciding(v) == user.pc = "checked" /\ user.version = v

\* Mutant of Recorded: the row takes the new bytes and keeps the answer.
RecordedMutant(row, s) == IF row = NoRow THEN [sha |-> s, state |-> "proposed"] ELSE [row EXCEPT !.sha = s]

\* enregistre: the same bytes keep the user's answer, others reopen the question.
Recorded(row, s) == IF row.sha = s THEN row ELSE [sha |-> s, state |-> "proposed"]

\* note_verdict, on the state this round returned; the base may refuse.
Note(r) ==
  /\ At(r, "note") /\ ref' = [ref EXCEPT ![r] = Idle]
  /\ LET ann == ref[r].out.success IN
     \/ /\ ann \in Editions /\ Verdict(ref[r].out, build) = "available"
        /\ Overlap \/ ~Deciding(Version[ann])
        /\ rows' = [rows EXCEPT ![Version[ann]] = Recorded(@, ann)]
     \/ UNCHANGED rows
  /\ UNCHANGED <<head, build, cache, tmp, user, rounds>>

\* The user is shown a row, and answers it later.
Look(v) ==
  /\ user.pc = "idle" /\ rows[v] # NoRow
  /\ user' = [user EXCEPT !.pc = "shown", !.version = v, !.sha = rows[v].sha]
  /\ UNCHANGED <<head, build, cache, tmp, ref, rows, rounds>>

\* decide: etat(version, sha), which refuses bytes the user has not seen.
Check ==
  /\ user.pc = "shown"
  /\ user' = [user EXCEPT !.pc = IF rows[user.version].sha = user.sha THEN "checked" ELSE "idle"]
  /\ UNCHANGED <<head, build, cache, tmp, ref, rows, rounds>>

\* ... then an update by version alone.
Decide ==
  /\ user.pc = "checked"
  /\ \E c \in Choices : rows' = [rows EXCEPT ![user.version].state = c]
  /\ user' = [user EXCEPT !.pc = "idle", !.said[user.version] = user.sha]
  /\ UNCHANGED <<head, build, cache, tmp, ref, rounds>>

Revoke(v) ==
  /\ rows[v].state = "declined"
  /\ rows' = [rows EXCEPT ![v].state = "proposed"]
  /\ UNCHANGED <<head, build, cache, tmp, ref, user, rounds>>

(***************************************************************************)
(* Around the channel                                                      *)
(***************************************************************************)
Publish == /\ head + 1 \in Editions /\ head' = head + 1
           /\ UNCHANGED <<build, cache, tmp, ref, rows, user, rounds>>

\* Another edition is installed, or put back: the daemon restarts.
Install ==
  /\ \E e \in 1..head : e # build /\ build' = e
  /\ ref' = [r \in Refreshers |-> Idle]
  /\ UNCHANGED <<head, cache, tmp, rows, user, rounds>>

Init ==
  /\ head = 1 /\ build = 1 /\ cache = NoState /\ tmp = NoState
  /\ ref = [r \in Refreshers |-> Idle] /\ rounds = 0
  /\ rows = [v \in Versions |-> NoRow]
  /\ user = [pc |-> "idle", version |-> Version[1], sha |-> 0, said |-> [v \in Versions |-> 0]]

Next ==
  \/ Publish \/ Install \/ Check \/ Decide
  \/ \E v \in Versions : Look(v) \/ Revoke(v)
  \/ \E r \in Refreshers : Begin(r) \/ Fetch(r) \/ Fill(r) \/ Replace(r) \/ Note(r)

(***************************************************************************)
(* Properties                                                              *)
(***************************************************************************)
States == [success : 0..Cardinality(Editions),
           attempt : {"never", "ok", "no-trust-root", "unreachable", "malformed",
                      "bad-signature", "unknown-key"}]

TypeOK ==
  /\ rounds \in 0..MaxRounds /\ head \in Editions /\ build \in 1..head /\ cache \in States /\ tmp \in States
  /\ \A r \in Refreshers : ref[r].out \in States
  /\ \A v \in Versions : rows[v].state \in Choices \cup {"absent", "proposed"}

\* A success was published and verified, whoever wrote the file and over whose
\* temporary file: what nobody signed is never remembered as a success.
TrustIsSound ==
  \A s \in {cache, tmp} \cup {ref[r].out : r \in Refreshers} :
    /\ s.success \in 0..head
    /\ s.attempt = "ok" => s.success # 0

\* An answer in a row covers the bytes of that row, which are an announcement
\* that was verified: bytes published again under the same version reopen the
\* question.
ConsentIsInformed ==
  TrustIsSound /\ \A v \in Versions : rows[v].state \in Choices => user.said[v] = rows[v].sha

\* What a round proposes is an edition that descends from the one that runs.
OffersGoForward ==
  \A v \in Versions : rows'[v].sha # rows[v].sha => build \in Lineage(rows'[v].sha)
=============================================================================
