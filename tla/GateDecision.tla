---------------------------- MODULE GateDecision ----------------------------
(***************************************************************************)
(* compose_merge_decision, the pure chain of authority of the merge gate:  *)
(* the deterministic net (Tier-0, native toolchain) that nobody lifts, the *)
(* review bound to the head (Tier-1), the rendering proof of a visual      *)
(* change (Tier-1.5), and the human GO.  The advisory woaw axis and the    *)
(* wording of the reasons are left out.                                    *)
(***************************************************************************)
Verdicts == {"absent", "stale", "fresh"}

\* What evaluate_gate passes: the tiers' findings, what the diff touches, the
\* freshness of the two verdicts, the reasons given for an override, the GO.
Inputs ==
  [red0: BOOLEAN, native: {"na", "ok", "failed"},
   code: BOOLEAN, t1: Verdicts, red1: BOOLEAN, t1Override: BOOLEAN,
   ui: BOOLEAN, t15: Verdicts, unrendered: BOOLEAN, t15Override: BOOLEAN,
   go: BOOLEAN]

\* Mutant of ReviewMissing: an override lifts the missing review too.
ReviewMissingMutant(i) == i.code /\ i.t1 # "fresh" /\ ~i.t1Override

NativeBroken(i)  == i.native = "failed"
ReviewMissing(i) == i.code /\ i.t1 # "fresh"
ReviewRed(i)     == i.code /\ i.t1 = "fresh" /\ i.red1
Unrendered(i)    == i.ui /\ (i.t15 # "fresh" \/ i.unrendered)

T1Overridden(i)  == ReviewRed(i) /\ i.t1Override
T15Overridden(i) == Unrendered(i) /\ i.t15Override

Blockers(i) ==
  {b \in {"tier0", "native", "t1missing", "t1red", "t15"} :
     \/ b = "tier0"     /\ i.red0
     \/ b = "native"    /\ NativeBroken(i)
     \/ b = "t1missing" /\ ReviewMissing(i)
     \/ b = "t1red"     /\ ReviewRed(i) /\ ~T1Overridden(i)
     \/ b = "t15"       /\ Unrendered(i) /\ ~T15Overridden(i)}

GateGreen(i) == Blockers(i) = {}

\* Red for a defect of fresh code, which a correction pass may cure.
Refixable(i) ==
  i.red0 \/ NativeBroken(i) \/ (ReviewRed(i) /\ ~T1Overridden(i))

Allow(i) == GateGreen(i) /\ i.go

\* The tier an alert names: the most fundamental one that blocks.
BlockerTier(i) ==
  LET b == Blockers(i) IN
  IF b = {} THEN "none"
  ELSE IF b \cap {"tier0", "native"} # {} THEN "tier0"
  ELSE IF "t15" \in b THEN "tier1.5" ELSE "tier1"
=============================================================================
