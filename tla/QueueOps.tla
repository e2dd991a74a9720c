------------------------------ MODULE QueueOps ------------------------------
(***************************************************************************)
(* What one clock cycle of a hardware FIFO does to its contents, a         *)
(* sequence.  A packet written in the cycle of a read counts as having     *)
(* arrived before the read: it makes an empty FIFO readable (the data is   *)
(* forwarded), and a full one accepts it since a place gets free.          *)
(***************************************************************************)
EXTENDS Integers, Sequences

CONSTANTS
  FIFO_SIZE,   \* depth of a FIFO
  None         \* the data lines at '0: nothing was read

ASSUME QueueAssumption == FIFO_SIZE \in Nat \ {0}

Offered(queue, wr_en, buf_in) == IF wr_en THEN Append(queue, buf_in) ELSE queue

First(queue) == IF queue = <<>> THEN None ELSE Head(queue)

Rest(queue) == IF queue = <<>> THEN <<>> ELSE Tail(queue)

Out(queue, wr_en, rd_en, buf_in) ==
  IF rd_en THEN First(Offered(queue, wr_en, buf_in)) ELSE None

\* A write to a full FIFO that is not read is dropped in silence.
Drops(queue, wr_en, rd_en) == wr_en /\ ~rd_en /\ Len(queue) >= FIFO_SIZE

Contents(queue, wr_en, rd_en, buf_in) ==
  IF rd_en
    THEN Rest(Offered(queue, wr_en, buf_in))
    ELSE IF Drops(queue, wr_en, rd_en) THEN queue ELSE Offered(queue, wr_en, buf_in)
=============================================================================
