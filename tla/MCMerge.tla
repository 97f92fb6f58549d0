------------------------------- MODULE MCMerge ------------------------------
(***************************************************************************)
(* Instances of Merge for TLC: two features with one task each.            *)
(***************************************************************************)
EXTENDS Merge, TLC

CONSTANTS fa, fb, ta, tb, m1, m2

MCFeatureOf == [t \in Tasks |-> IF t = ta THEN fa ELSE fb]
\* Exchanging the features with their tasks.
MCSymmetry == {[x \in {fa, fb, ta, tb} |-> x],
               [x \in {fa, fb, ta, tb} |->
                  CASE x = fa -> fb [] x = fb -> fa
                    [] x = ta -> tb [] OTHER -> ta]}
=============================================================================
