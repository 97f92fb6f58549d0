------------------------------ MODULE MCUpgrade ------------------------------
(***************************************************************************)
(* Instances of Upgrade for TLC: an edition that migrates the base and one *)
(* that does not.                                                          *)
(***************************************************************************)
EXTENDS Upgrade, TLC

CONSTANTS w0, w1, w2, web

MCReads == w0 :> 1 @@ w1 :> 1 @@ w2 :> 2
=============================================================================
