---------------------------- MODULE BoundedQueue ----------------------------
(***************************************************************************)
(* What PUSH_FIFO promises: a queue of at most FIFO_SIZE packets whose     *)
(* head is on buf_out in the cycle after a read.  The input wires are      *)
(* variables, so that an implementation has to do in each cycle what the   *)
(* queue does for these very inputs.                                       *)
(***************************************************************************)
EXTENDS QueueOps

CONSTANT Data   \* what can be on the data input

VARIABLES
  wr_en, rd_en, buf_in,   \* the inputs, sampled at the next clock edge
  queue, out

vars == <<wr_en, rd_en, buf_in, queue, out>>

Init ==
  /\ wr_en \in BOOLEAN /\ rd_en \in BOOLEAN /\ buf_in \in Data
  /\ queue = <<>>
  /\ out \in Data \cup {None}

Next ==
  /\ wr_en' \in BOOLEAN /\ rd_en' \in BOOLEAN /\ buf_in' \in Data
  /\ queue' = Contents(queue, wr_en, rd_en, buf_in)
  /\ out' = Out(queue, wr_en, rd_en, buf_in)

Spec == Init /\ [][Next]_vars
=============================================================================
