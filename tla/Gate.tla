-------------------------------- MODULE Gate --------------------------------
(***************************************************************************)
(* What the merge gate of one feature is asked over time: evaluate_gate    *)
(* composes its input anew at each call, from the head, the verdict files  *)
(* and the request; a commit makes every verdict stale at once.            *)
(***************************************************************************)
EXTENDS GateDecision

VARIABLE input

\* Mutant of Aged: a verdict outlives the head it was given on.
AgedMutant(v) == v

Aged(v) == IF v = "fresh" THEN "stale" ELSE v

\* A commit or a rebase: the diff may touch anything, the native toolchain, if
\* the diff triggers it, has not run on this head.
NewHead ==
  \E code, ui \in BOOLEAN, native \in {"na", "failed"} :
    input' = [input EXCEPT !.code = code, !.ui = ui, !.native = native,
                           !.t1 = Aged(@), !.t15 = Aged(@)]

\* The toolchain's verdict on this head.
Toolchain ==
  /\ input.native # "na"
  /\ \E native \in {"ok", "failed"} :
       input' = [input EXCEPT !.native = native]

\* A review of this head.
Review ==
  \E red \in BOOLEAN : input' = [input EXCEPT !.t1 = "fresh", !.red1 = red]

\* A rendering proof of this head.
Render ==
  \E un \in BOOLEAN :
    input' = [input EXCEPT !.t15 = "fresh", !.unrendered = un]

\* A request: its GO and its overrides.
Ask ==
  \E go, o1, o15 \in BOOLEAN :
    input' = [input EXCEPT !.go = go, !.t1Override = o1, !.t15Override = o15]

Init == input \in Inputs
Next == NewHead \/ Toolchain \/ Review \/ Render \/ Ask
Spec == Init /\ [][Next]_input

\* The gate's input is one evaluate_gate can compose.
TypeOK == input \in Inputs

\* A merge is allowed exactly when every condition the decision documents
\* holds: the two deterministic nets, a review of this head whose red was
\* lifted or is not there, a rendering that is proved or overridden, the GO.
AllowIsCumulative ==
  Allow(input) <=>
    /\ ~input.red0 /\ input.native # "failed"
    /\ input.code => /\ input.t1 = "fresh"
                     /\ input.red1 => input.t1Override
    /\ input.ui => \/ input.t15Override
                   \/ input.t15 = "fresh" /\ ~input.unrendered
    /\ input.go

\* A new head holds the merge: no override carries over the missing review of
\* its code, whatever was allowed before.
NewHeadHolds == [][NewHead /\ input'.code => ~Allow(input')]_input

\* A correction pass is offered for a red gate only, and one that leaves the
\* nets and the review clean leaves nothing but the rendering and the review's
\* own absence to block.
RefixCures ==
  Refixable(input) =>
    /\ ~GateGreen(input)
    /\ LET cured == [input EXCEPT !.red0 = FALSE, !.native = "ok",
                                  !.red1 = FALSE] IN
       Blockers(cured) \subseteq {"t15", "t1missing"}

\* The tier an alert names is none exactly when nothing blocks, and tier0 only
\* when a net that nobody can lift is broken.
TierIsFundamental ==
  /\ BlockerTier(input) = "none" <=> GateGreen(input)
  /\ BlockerTier(input) = "tier0" <=> (input.red0 \/ NativeBroken(input))
=============================================================================
