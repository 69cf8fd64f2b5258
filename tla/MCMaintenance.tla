---------------------------- MODULE MCMaintenance ---------------------------
(* Instances of Maintenance for TLC.                                        *)
EXTENDS Maintenance, TLC

CONSTANTS real, conc, life, ria, rob, d1, d2

SmallCapacities == real :> 1 @@ conc :> 2 @@ life :> 2
=============================================================================
