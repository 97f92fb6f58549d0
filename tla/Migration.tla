------------------------------ MODULE Migration ------------------------------
(***************************************************************************)
(* The opening of the database: every process that opens it raises it to   *)
(* the schema it knows, statement by statement.  What the statements of    *)
(* create_schema commit one by one, a stop leaves half done, alone or      *)
(* beside another migration, and a second process reads while the first    *)
(* one writes.                                                             *)
(*                                                                         *)
(* A base is its user_version, its tables, the columns added after version *)
(* 1 (table and version), the CHECKs that are narrower than today's, the   *)
(* unique index alerts are deduplicated by, and the rows that count: a     *)
(* mirror that is a copy of an upstream, a job that was interrupted.       *)
(***************************************************************************)
EXTENDS Naturals, Sequences, FiniteSets

CONSTANTS
  Openers,     \* processes that open the base
  Origins,     \* versions of the base found at first; 0: no base yet
  Current,     \* SCHEMA_VERSION
  MaxOpens     \* openings in all

MigrationAssumption == Origins \subseteq Nat /\ Current = 21 /\ MaxOpens \in Nat

\* Tables created after version 1, with the version that brought them.
Since == [ports |-> 2, deployments |-> 7, alerts |-> 17, outcomes |-> 18, proposals |-> 21]

\* _ADDED_COLUMNS: table, in its order, and the versions that added columns to it.
Tables == <<"jobs", "projects", "features", "tasks">>
Added  == [jobs |-> {2, 11, 13}, projects |-> {3, 4, 5, 6, 14}, features |-> {6, 9, 10}, tasks |-> {6, 12}]
Columns == UNION {{t} \X Added[t] : t \in DOMAIN Added}

Rebuilds == <<"v8", "v15", "v16", "v19">>
\* The CHECK each rebuild widens, as its guard recognises it.
Narrow == [v8 |-> "type", v15 |-> "rate_limited", v16 |-> "interrupted", v19 |-> "findings"]

VARIABLES
  base,     \* the file
  opener,   \* each process: where it is, what it read
  opens,
  migrated, \* history: the v8 rebuild ran on this base
  narrowed  \* history: a rebuild of v15 was left without the v16 it owed

vars == <<base, opener, opens, migrated, narrowed>>

Closed == [pc |-> "closed", step |-> 1, todo |-> {}, saw |-> FALSE]

\* What an edition that knew schema v wrote.
Wrote(v) ==
  [ver     |-> v,
   tables  |-> {t \in DOMAIN Since : Since[t] <= v},
   columns |-> {c \in Columns : c[2] <= v},
   narrow  |-> {Narrow[r] : r \in {r \in DOMAIN Narrow :
                  CASE r = "v8" -> v \in 6..7        [] r = "v15" -> v \in 1..14
                    [] r = "v16" -> v \in 1..15      [] r = "v19" -> v \in 17..18}},
   unique  |-> v >= 17,
   rows    |-> IF v \in 5..19 THEN {"copy"} ELSE {}]

At(p, pc) == opener[p].pc = pc
To(p, pc, step) == opener' = [opener EXCEPT ![p] = [@ EXCEPT !.pc = pc, !.step = step]]
AtWork(p) == ~At(p, "closed") /\ ~At(p, "open")

\* migrate, readiness: a base this edition cannot read is refused before any write.
TooNew == base.ver > Current

Open(p) ==
  /\ At(p, "closed") /\ opens < MaxOpens
  /\ opens' = opens + 1
  /\ IF TooNew \/ base.ver = Current THEN To(p, "open", 1) ELSE To(p, "ddl", 1)
  /\ UNCHANGED <<base, migrated, narrowed>>

\* CREATE TABLE IF NOT EXISTS, one statement at a time; a new base gets everything at once.
CreateTables(p) ==
  /\ At(p, "ddl")
  /\ LET new == DOMAIN Since \ base.tables
         first == {t \in new : \A u \in new : Since[t] <= Since[u]}
     IN IF base.ver = 0 /\ base.columns = {} \* nothing was ever created here
          THEN /\ base' = [Wrote(Current) EXCEPT !.ver = 0]
               /\ UNCHANGED opener
          ELSE IF new # {}
          THEN /\ base' = [base EXCEPT !.tables = @ \cup first]
               /\ UNCHANGED opener
          ELSE /\ base' = [base EXCEPT !.unique = TRUE]
               /\ To(p, "columns", 1)
  /\ UNCHANGED <<opens, migrated, narrowed>>

\* ensure_columns reads the columns of a table ...
ReadColumns(p) ==
  /\ At(p, "columns")
  /\ IF opener[p].step > Len(Tables)
       THEN To(p, "guard", 1)
       ELSE LET t == Tables[opener[p].step]
            IN opener' = [opener EXCEPT ![p].pc = "alter", ![p].todo = ({t} \X Added[t]) \ base.columns]
  /\ UNCHANGED <<base, opens, migrated, narrowed>>

\* ... and adds those it did not see; one that is there by now raises.
AddColumn(p) ==
  /\ At(p, "alter")
  /\ LET todo == opener[p].todo
     IN IF todo = {}
          THEN To(p, "columns", opener[p].step + 1) /\ UNCHANGED base
          ELSE LET c == CHOOSE c \in todo : \A d \in todo : c[2] <= d[2]
               IN IF c \in base.columns
                    THEN opener' = [opener EXCEPT ![p] = Closed] /\ UNCHANGED base
                    ELSE /\ base' = [base EXCEPT !.columns = @ \cup {c}]
                         /\ opener' = [opener EXCEPT ![p].todo = @ \ {c}]
  /\ UNCHANGED <<opens, migrated, narrowed>>

\* A rebuild's guard reads the table's definition ...
ReadGuard(p) ==
  /\ At(p, "guard")
  /\ opener' = [opener EXCEPT ![p].pc = "rebuild", ![p].saw = Narrow[Rebuilds[opener[p].step]] \in base.narrow]
  /\ UNCHANGED <<base, opens, migrated, narrowed>>

\* The rebuild of alerts without its index: the guards' reading comes after CREATE INDEX.
RebuiltMutant(r) ==
  CASE r = "v19" -> [base EXCEPT !.narrow = @ \ {"findings"}, !.unique = FALSE]
    [] OTHER     -> [base EXCEPT !.narrow = @ \ {Narrow[r]}]

\* The table a rebuild's script leaves, written over whatever is there by now.
Rebuilt(r) ==
  CASE r = "v8"  -> [base EXCEPT !.narrow = @ \ {"type"}, !.columns = @ \ {<<"projects", 14>>}]
    [] r = "v15" -> [base EXCEPT !.narrow = (@ \ {"rate_limited"}) \cup {"interrupted"}]
    [] r = "v16" -> [base EXCEPT !.narrow = @ \ {"rate_limited", "interrupted"}]
    [] r = "v19" -> [base EXCEPT !.narrow = @ \ {"findings"}, !.unique = TRUE]

\* ... and the script runs in one transaction, unless a row does not fit the new CHECK.
Rebuild(p) ==
  /\ At(p, "rebuild")
  /\ LET r == Rebuilds[opener[p].step]
         next == IF opener[p].step = Len(Rebuilds) THEN To(p, "stamp", 1)
                 ELSE To(p, "guard", opener[p].step + 1)
     IN IF ~opener[p].saw
          THEN next /\ UNCHANGED <<base, migrated, narrowed>>
          ELSE IF r = "v15" /\ "interrupted" \in base.rows
          THEN opener' = [opener EXCEPT ![p] = Closed] /\ UNCHANGED <<base, migrated, narrowed>>
          ELSE /\ next /\ base' = Rebuilt(r)
               /\ migrated' = (migrated \/ r = "v8") /\ narrowed' = (narrowed /\ r # "v16")
  /\ UNCHANGED opens

\* _migrate_v20 and the version share the last transaction.
Stamp(p) ==
  /\ At(p, "stamp")
  /\ base' = [base EXCEPT !.ver = Current, !.rows = @ \ {"copy"}]
  /\ To(p, "open", 1)
  /\ UNCHANGED <<opens, migrated, narrowed>>

\* A process at work writes a job cut by a signal, if the CHECK lets it.
Work(p) ==
  /\ At(p, "open") /\ base.ver = Current /\ "interrupted" \notin base.narrow
  /\ base' = [base EXCEPT !.rows = @ \cup {"interrupted"}]
  /\ UNCHANGED <<opener, opens, migrated, narrowed>>

Close(p) ==
  /\ At(p, "open")
  /\ opener' = [opener EXCEPT ![p] = Closed]
  /\ UNCHANGED <<base, opens, migrated, narrowed>>

\* Before the v16 rebuild: v15 wrote a CHECK without interrupted, and who is here
\* is the one to widen it.
Owes(p) == opener[p].step = 3 /\ (At(p, "guard") \/ (At(p, "rebuild") /\ opener[p].saw))

\* A stop between two statements of a migration, whoever else migrates.  Nobody
\* may come after it to widen the CHECK again: another migration is past it, or
\* has stamped the version already.
Stop(p) ==
  /\ AtWork(p)
  /\ opener' = [opener EXCEPT ![p] = Closed]
  /\ narrowed' = (narrowed \/ (/\ Owes(p) /\ "interrupted" \in base.narrow
                               /\ base.ver = Current \/ \E q \in Openers \ {p} : AtWork(q)))
  /\ UNCHANGED <<base, opens, migrated>>

Init ==
  /\ \E v \in Origins : base = Wrote(v)
  /\ opener = [p \in Openers |-> Closed] /\ opens = 0
  /\ migrated = FALSE /\ narrowed = FALSE

Next == \E p \in Openers :
  \/ Open(p) \/ CreateTables(p) \/ ReadColumns(p) \/ AddColumn(p) \/ ReadGuard(p)
  \/ Rebuild(p) \/ Stamp(p) \/ Work(p) \/ Close(p) \/ Stop(p)

Spec == Init /\ [][Next]_vars

-----------------------------------------------------------------------------
TypeOK ==
  /\ base.ver \in Nat /\ base.tables \subseteq DOMAIN Since /\ base.columns \subseteq Columns
  /\ \A p \in Openers : opener[p].pc \in {"closed", "ddl", "columns", "alter", "guard", "rebuild", "stamp", "open"}

Settled == base.ver = Current /\ \A p \in Openers : ~AtWork(p)

\* A settled base of this version is what a new one would be.
Whole(columns, narrow) ==
  /\ base.tables = DOMAIN Since /\ columns \subseteq base.columns
  /\ base.narrow \subseteq narrow /\ base.unique /\ "copy" \notin base.rows

\* Whatever version is found and wherever migrations are cut, alone or side by
\* side, a settled base has every table, CHECK and index of today's and every
\* column (create_schema), but for two things: the column the v8 rebuild forgets,
\* and the CHECK of jobs when a process that read the guard of v15 too early wrote
\* its table over the one of v16 and was stopped before its own v16 (the guards
\* read before the script).  A base too new is never written.
MigrationStep ==
  /\ TypeOK'
  /\ Settled' => Whole(IF migrated THEN Columns \ {<<"projects", 14>>} ELSE Columns,
                        IF narrowed THEN {"interrupted"} ELSE {})'
  /\ base'.ver >= base.ver
  /\ TooNew => base' = base

\* create_schema says it is right for a base of an earlier version: the columns
\* added since are there.
MigratedIsWhole == Settled => Whole(Columns, {})
=============================================================================
