--------------------------- MODULE MCVaultWorkflow ---------------------------
(* Instances of VaultWorkflow for TLC: one or two rotations and a change. *)
EXTENDS VaultWorkflow

CONSTANTS rot1, rot2, set1
=============================================================================
