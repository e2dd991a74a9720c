---------------------------- MODULE MCSingleNode ----------------------------
(***************************************************************************)
(* The instance of SingleNode that is model-checked: granularity 2^l on    *)
(* level l of Gearbox, as 10^l in the code.                                *)
(***************************************************************************)
EXTENDS SingleNode

MCGranularities == [l \in Levels |-> 2 ^ l]
=============================================================================
