----------------------------- MODULE MCDispatch -----------------------------
(***************************************************************************)
(* Instances of Dispatch for TLC: one feature, two tasks t1 <- t2, runs of *)
(* the daemon (d1, d2), of a CLI (c1) and a fix run (x1), two at a time.   *)
(***************************************************************************)
EXTENDS Dispatch

CONSTANTS t1, t2, f1, d1, d2, c1, x1

MCFeatureOf == [t \in Tasks |-> f1]
MCDepsOf    == [t \in Tasks |-> IF t = t2 /\ t1 \in Tasks THEN {t1} ELSE {}]
=============================================================================
