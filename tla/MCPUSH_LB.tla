----------------------------- MODULE MCPUSH_LB -----------------------------
(***************************************************************************)
(* The instances of PUSH_LB that are model-checked: bucket b ends at rank  *)
(* b, and borders stay as they are (their update is RR_LB's own matter).   *)
(***************************************************************************)
EXTENDS PUSH_LB

MCResetBorders == [b \in Buckets |-> b]
=============================================================================
