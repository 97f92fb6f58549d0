--------------------------------- MODULE Tools ---------------------------------
(***************************************************************************)
(* The tools an instance provisions beside itself: the maps that its       *)
(* edition carries as wheels, the quality tools and Node fetched from the  *)
(* network, exposed as links in one directory; what is served is read back *)
(* from what pip recorded, and compared to what the edition declares.      *)
(***************************************************************************)
EXTENDS Naturals, FiniteSets

CONSTANTS
  Maps,         \* the maps of the edition
  Others,       \* the tools the network brings
  Installers,   \* processes that install
  Updates,      \* those among them that pose the maps again after an update
  LastEdition   \* editions installed one after the other

ToolsAssumption ==
  Maps \cap Others = {} /\ Updates \subseteq Installers /\ LastEdition \in Nat \ {0}

Bins == Maps \cup Others

VARIABLES
  edition,   \* the edition installed, what it declares of each map, whether it can be posed
  dist,      \* each map in the tools' venv: its code, what pip recorded of it
  has,       \* the other tools that are installed
  link,      \* the links of tools/bin
  proc,      \* each installation: where it is, its edition, what it still has to do
  ran,       \* tools that resolved once
  cut        \* an installation was cut

vars == <<edition, dist, has, link, proc, ran, cut>>

\* An edition's number is the commit of its maps; 0: no map, nothing declared.
Absent == [code |-> 0, record |-> "none"]
Idle == [pc |-> "idle", ed |-> 0, narrow |-> FALSE, todo |-> {}, one |-> "none", alone |-> TRUE]

At(p, pc) == proc[p].pc = pc
To(p, pc) == proc' = [proc EXCEPT ![p].pc = pc]
Done(p) == proc' = [proc EXCEPT ![p] = Idle]
Busy == {p \in Installers : ~At(p, "idle")}

(***************************************************************************)
(* What is served                                                          *)
(***************************************************************************)
\* dist_provenance: the stamp of the edition that RECORD names, then the
\* commit of an installation from git; anything else is no identity.
Served(m) == IF dist[m].record \in {"edition", "vcs"} THEN dist[m].code ELSE 0

\* compare, against read_edition; an edition that cannot be read declares nothing.
Declared(m) == IF edition.ready THEN edition.sha[m] ELSE 0
Compared(m) ==
  IF Served(m) = 0 \/ Declared(m) = 0 THEN "unknown"
  ELSE IF Served(m) = Declared(m) THEN "up-to-date" ELSE "differs"

overall_state(states) ==
  IF "differs" \in states THEN "differs"
  ELSE IF states = {} \/ "unknown" \in states THEN "unknown" ELSE "up-to-date"
check_tools == overall_state({Compared(m) : m \in Maps})

\* _symlink_sources: what a link leads to; missing_bins: what leads nowhere.
Source(b) == IF b \in Maps THEN dist[b].code # 0 ELSE b \in has
Resolves == {b \in link : Source(b)}

(***************************************************************************)
(* install_tools                                                           *)
(***************************************************************************)
\* The plan is read from the edition whose code runs, before anything is
\* written; the narrow mode keeps its only step that needs no network.
Start(p, narrow) ==
  /\ At(p, "idle") /\ edition.ready
  /\ p \in Updates => narrow
  /\ proc' = [q \in Installers |->
       IF q = p THEN [pc |-> "pip", ed |-> edition.number, narrow |-> narrow, todo |-> Maps,
                      one |-> "none", alone |-> Busy = {}]
       ELSE [proc[q] EXCEPT !.alone = FALSE]]
  /\ UNCHANGED <<edition, dist, has, link, cut>>

\* pip skips a distribution that is there under the same version, and that of
\* the maps never moves.
ReinstallsMutant(m) == dist[m].record = "none"

\* --force-reinstall.
Reinstalls(m) == TRUE

\* One wheel after the other: what was there leaves, the files come ...
Unpack(p, m) ==
  /\ At(p, "pip") /\ m \in proc[p].todo
  /\ IF Reinstalls(m)
       THEN /\ dist' = [dist EXCEPT ![m] = [code |-> proc[p].ed, record |-> "cut"]]
            /\ proc' = [proc EXCEPT ![p].pc = "record", ![p].one = m, ![p].todo = @ \ {m}]
       ELSE UNCHANGED dist /\ proc' = [proc EXCEPT ![p].todo = @ \ {m}]
  /\ UNCHANGED <<edition, has, link, cut>>

\* ... and RECORD, which names the stamp among them, last.
Record(p) ==
  /\ At(p, "record")
  /\ dist' = [dist EXCEPT ![proc[p].one].record = "edition"]
  /\ To(p, "pip")
  /\ UNCHANGED <<edition, has, link, cut>>

Then(p, pc, todo) == proc' = [proc EXCEPT ![p].pc = pc, ![p].todo = todo]

PipDone(p) ==
  /\ At(p, "pip") /\ proc[p].todo = {}
  /\ IF proc[p].narrow THEN Then(p, "links", Maps) ELSE Then(p, "network", Others)
  /\ UNCHANGED <<edition, dist, has, link, cut>>

Fetch(p, t) ==
  /\ At(p, "network") /\ t \in proc[p].todo
  /\ has' = has \cup {t} /\ Then(p, "network", proc[p].todo \ {t})
  /\ UNCHANGED <<edition, dist, link, cut>>

FetchDone(p) ==
  /\ At(p, "network") /\ proc[p].todo = {}
  /\ Then(p, "links", Bins)
  /\ UNCHANGED <<edition, dist, has, link, cut>>

\* A step that exits red ends the installation, with what was done before it.
Red(p) ==
  /\ At(p, "pip") \/ At(p, "network")
  /\ proc[p].todo # {} /\ Done(p)
  /\ UNCHANGED <<edition, dist, has, link, cut>>

\* A link is taken away ...
Unlink(p, b) ==
  /\ At(p, "links") /\ b \in proc[p].todo
  /\ IF Source(b)
       THEN /\ link' = link \ {b}
            /\ proc' = [proc EXCEPT ![p].pc = "link", ![p].one = b, ![p].todo = @ \ {b}]
       ELSE UNCHANGED link /\ Done(p)
  /\ UNCHANGED <<edition, dist, has, cut>>

\* ... then made; who finds that another made it raises, and leaves it there.
Link(p) ==
  /\ At(p, "link")
  /\ link' = link \cup {proc[p].one}
  /\ IF proc[p].one \in link THEN Done(p) ELSE To(p, "links")
  /\ UNCHANGED <<edition, dist, has, cut>>

Ends(p) == At(p, "links") /\ proc[p].todo = {}
End(p) == Ends(p) /\ Done(p) /\ UNCHANGED <<edition, dist, has, link, cut>>

Cut(p) ==
  /\ ~At(p, "idle") /\ Done(p) /\ cut' = TRUE
  /\ UNCHANGED <<edition, dist, has, link>>

\* Another edition is swapped in; a package from a checkout carries no maps,
\* and a manifest may be silent on the commit of one.
Declares(number) ==
  {[number |-> number, ready |-> TRUE, sha |-> s] : s \in [Maps -> {0, number}]}
  \cup {[number |-> number, ready |-> FALSE, sha |-> [m \in Maps |-> 0]]}

Swap ==
  /\ edition.number < LastEdition
  /\ edition' \in Declares(edition.number + 1)
  /\ UNCHANGED <<dist, has, link, proc, cut>>

\* Before the wheels carried the maps they came from git; a developer's from a directory.
Init ==
  /\ edition \in Declares(1)
  /\ dist \in [Maps -> {Absent, [code |-> 1, record |-> "vcs"], [code |-> LastEdition + 1, record |-> "vcs"],
                        [code |-> LastEdition + 1, record |-> "local"]}]
  /\ has = {} /\ link = {m \in Maps : dist[m].code # 0}
  /\ proc = [p \in Installers |-> Idle] /\ cut = FALSE /\ ran = link

Step ==
  \/ Swap
  \/ \E p \in Installers :
       \/ \E narrow \in BOOLEAN : Start(p, narrow)
       \/ \E m \in Maps : Unpack(p, m)
       \/ Record(p) \/ PipDone(p) \/ FetchDone(p) \/ Red(p) \/ Link(p) \/ End(p) \/ Cut(p)
       \/ \E t \in Others : Fetch(p, t)
       \/ \E b \in Bins : Unlink(p, b)

Next == Step /\ ran' = ran \cup Resolves'

Spec == Init /\ [][Next]_vars

-----------------------------------------------------------------------------
TypeOK ==
  /\ \A m \in Maps : dist[m].code \in 0..LastEdition + 1
  /\ has \subseteq Others /\ link \subseteq Bins /\ ran \subseteq Bins

\* What is said up to date is the code of the edition, whatever was cut and
\* whoever installs beside (check_tools: never a false green); an installation
\* that ends green, alone under its edition, has posed every map and exposed
\* what it says (install_tools); at rest, when nothing was cut, a tool that
\* resolved once still resolves for a dispatch (preflight_tools).
ToolsStep ==
  /\ TypeOK'
  /\ \A m \in Maps : Compared(m)' = "up-to-date" => dist'[m].code = edition'.number
  /\ \A p \in Installers : Ends(p) /\ proc'[p].pc = "idle" /\ proc[p].alone /\ ~cut' =>
       /\ edition.number = proc[p].ed => check_tools # "differs" /\ \A m \in Maps : dist[m].code = edition.number
       /\ (IF proc[p].narrow THEN Maps ELSE Bins) \subseteq Resolves
  /\ Busy' = {} /\ ~cut' => ran' = Resolves'
=============================================================================
