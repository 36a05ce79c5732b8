-------------------------- MODULE MCDeliveryLedger --------------------------
(* Small instances of DeliveryLedger for TLC. *)
EXTENDS DeliveryLedger, TLC

Symmetry == Permutations(Workers)
=============================================================================
