---------------------------- MODULE MCInventory ----------------------------
(***************************************************************************)
(* Instances of Inventory for TLC: one resource of each kind that the      *)
(* ledger treats in its own way.                                           *)
(***************************************************************************)
EXTENDS Inventory

CONSTANTS workload, crd, volume, certSecret

=============================================================================
