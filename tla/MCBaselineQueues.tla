-------------------------- MODULE MCBaselineQueues --------------------------
(* Three ranks, the middle one with an early and a late send time. *)
EXTENDS BaselineQueues

MCKeys == {<<1, 0>>, <<2, 0>>, <<2, 1>>, <<3, 0>>}
=============================================================================
