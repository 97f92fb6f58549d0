------------------------------- MODULE MCRefix ------------------------------
(***************************************************************************)
(* Instances of Refix for TLC.                                             *)
(***************************************************************************)
EXTENDS Refix, TLC

CONSTANTS p, q

MCSymmetry == Permutations(Requests)
=============================================================================
