------------------------------ MODULE MCRR_LB ------------------------------
(***************************************************************************)
(* The instance of RR_LB that is model-checked: bucket b ends at rank b.   *)
(***************************************************************************)
EXTENDS RR_LB

MCResetBorders == [b \in Buckets |-> b]
=============================================================================
