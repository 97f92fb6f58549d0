--------------------------- MODULE MCOrchestrator ---------------------------
(***************************************************************************)
(* Instances of Orchestrator for TLC: a new project (a socle and two work  *)
(* features, the second wanting the first), or a grown one without socle.  *)
(***************************************************************************)
EXTENDS Orchestrator, TLC

CONSTANTS fs, fa, fb, ts, ta, tb, tb2, d1, d2

MCFeatureOf == [t \in Tasks |-> CASE t = ts -> fs [] t = ta -> fa [] OTHER -> fb]
MCNeeds == [t \in Tasks |-> IF t = tb2 THEN {tb} ELSE {}]
MCWants == [f \in Features |-> IF f = fb THEN {fa} ELSE {}]
MCFree  == [f \in Features |-> {}]
MCDrainSymmetry == Permutations(Drains)
=============================================================================
