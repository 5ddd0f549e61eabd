-------------------------- MODULE MCReplicaMetering --------------------------
(***************************************************************************)
(* Two charges of different amounts and the last use of one API key.       *)
(***************************************************************************)
EXTENDS ReplicaMetering, TLC

CONSTANTS d1, d2, k1

MCAmountOf == d1 :> 1 @@ d2 :> 2
=============================================================================
