---------------------------- MODULE MCScaleUpP4 ----------------------------
(***************************************************************************)
(* The instance of ScaleUpP4 that is model-checked: two buckets, and       *)
(* updates that carry ascending and other borders.                         *)
(***************************************************************************)
EXTENDS ScaleUpP4

MCSetupBorders == [k \in Buckets |-> 2 * k]
MCNewBorders == {[k \in Buckets |-> k + 1], [k \in Buckets |-> 1 - k]}
=============================================================================
