----------------------------- MODULE PUSH_FIFO -----------------------------
(***************************************************************************)
(* A FIFO in registers, hardware/scale-up-PIFO-hw/LB/PUSH_FIFO.sv: a       *)
(* memory addressed by two pointers, a counter kept beside them, and an    *)
(* output register that also takes the data of a write straight from the   *)
(* input.  A step is a clock cycle; the inputs change freely between       *)
(* cycles.  FIFO_SIZE is a power of two (as wherever the FIFO is used), so *)
(* that the pointers wrap at it by their width.                            *)
(***************************************************************************)
EXTENDS QueueOps

CONSTANT Data   \* what can be on buf_in

VARIABLES
  wr_en, rd_en, buf_in,                             \* input wires
  fifo_counter, rd_ptr, wr_ptr, buf_mem, buf_rd     \* registers

fifo_vars == <<wr_en, rd_en, buf_in, fifo_counter, rd_ptr, wr_ptr, buf_mem, buf_rd>>

Ptrs == 0 .. FIFO_SIZE - 1

\* Reset sets the counter and the pointers; memory and output are undefined.
FifoInit ==
  /\ wr_en \in BOOLEAN /\ rd_en \in BOOLEAN /\ buf_in \in Data
  /\ fifo_counter = 0 /\ rd_ptr = 0 /\ wr_ptr = 0
  /\ buf_mem \in [Ptrs -> Data]
  /\ buf_rd \in Data \cup {None}

buf_empty == fifo_counter = 0
buf_full  == fifo_counter = FIFO_SIZE

Writes == wr_en /\ (~buf_full \/ rd_en)
Reads  == rd_en /\ (~buf_empty \/ wr_en)

Advance(ptr) == (ptr + 1) % FIFO_SIZE

NextCount_IgnoresFull ==  \* mutant: a refused write is counted
  IF wr_en /\ rd_en THEN fifo_counter
  ELSE IF wr_en THEN fifo_counter + 1
  ELSE IF rd_en /\ ~buf_empty THEN fifo_counter - 1
  ELSE fifo_counter

NextCount ==
  IF wr_en /\ rd_en THEN fifo_counter
  ELSE IF wr_en /\ ~buf_full THEN fifo_counter + 1
  ELSE IF rd_en /\ ~buf_empty THEN fifo_counter - 1
  ELSE fifo_counter

NextOut_NoForward ==  \* mutant: an empty FIFO that is written gives nothing
  IF rd_en /\ ~buf_empty THEN buf_mem[rd_ptr] ELSE None

NextOut ==
  IF rd_en /\ ~buf_empty THEN buf_mem[rd_ptr]
  ELSE IF rd_en /\ buf_empty /\ wr_en THEN buf_in
  ELSE None

Inputs == wr_en' \in BOOLEAN /\ rd_en' \in BOOLEAN /\ buf_in' \in Data

FifoNext ==
  /\ Inputs
  /\ fifo_counter' = NextCount
  /\ buf_mem' = IF Writes THEN [buf_mem EXCEPT ![wr_ptr] = buf_in] ELSE buf_mem
  /\ wr_ptr' = IF Writes THEN Advance(wr_ptr) ELSE wr_ptr
  /\ buf_rd' = NextOut
  /\ rd_ptr' = IF Reads THEN Advance(rd_ptr) ELSE rd_ptr

FifoSpec == FifoInit /\ [][FifoNext]_fifo_vars

-----------------------------------------------------------------------------
(***************************************************************************)
(* Properties                                                              *)
(***************************************************************************)
FifoTypeOK ==
  /\ wr_en \in BOOLEAN /\ rd_en \in BOOLEAN /\ buf_in \in Data
  /\ fifo_counter \in 0 .. FIFO_SIZE
  /\ rd_ptr \in Ptrs /\ wr_ptr \in Ptrs
  /\ buf_mem \in [Ptrs -> Data]
  /\ buf_rd \in Data \cup {None}

\* The packets held, in the order of their arrival.
Stored == [i \in 1 .. fifo_counter |-> buf_mem[(rd_ptr + i - 1) % FIFO_SIZE]]

Queue == INSTANCE BoundedQueue WITH queue <- Stored, out <- buf_rd

\* Counter, pointers, memory and forwarding together are a bounded queue, for
\* every mixture of reads and writes, at the empty and at the full end (the
\* whole of PUSH_FIFO.sv; its comment at line 91 on forwarding).
ImplementsQueue == Queue!Spec
=============================================================================
