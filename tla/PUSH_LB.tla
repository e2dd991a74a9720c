------------------------------ MODULE PUSH_LB ------------------------------
(***************************************************************************)
(* The load balancer with its FIFOs, hardware/scale-up-PIFO-hw/LB/         *)
(* PUSH_LB.sv: RR_LB names a FIFO for every packet, an array of FIFOs      *)
(* stores them, and an arbiter reads the FIFOs one after the other, one    *)
(* per cycle, whether they hold packets or not; two register stages bring  *)
(* what was read to the output.  There is no backpressure: a packet for a  *)
(* full FIFO would be dropped in silence.                                  *)
(*                                                                         *)
(* The variables of RR_LB are extended by the payload beside its valid     *)
(* bits.  A FIFO is the queue that PUSH_FIFO implements.  Packets are      *)
(* numbered in the order in which they are pushed; the number is all their *)
(* payload.                                                                *)
(***************************************************************************)
EXTENDS RR_LB, QueueOps, Functions

CONSTANTS
  Controls,     \* values of i_update_borders and i_upload_cnt
  IdleInputs    \* values of i_borders, and of the rank when nothing is pushed

ASSUME PushAssumption ==
  /\ Controls \subseteq BOOLEAN
  /\ IdleInputs \subseteq RankSet
  /\ None = 0

Packets == 1 .. MaxPushes
Lines   == 0 .. MaxPushes + 1   \* what is on the data lines, valid or not

VARIABLES
  data,          \* data_s0_q, data_s0b_q, data_s1_q, data_s2_q
  fifos,         \* contents of the FIFOs
  buf_out,       \* fifo_buf_out
  pop_ptr,
  pop_valid_d1, pop_grant_d1,
  o_push, o_push_data,
  popped         \* history: packets output, per FIFO they came from

lanes == <<data, fifos, buf_out, pop_ptr, pop_valid_d1, pop_grant_d1, o_push,
           o_push_data, popped>>

\* The output registers of the FIFOs are not reset.
PushInit ==
  /\ Init
  /\ data = [s0a |-> 0, s0b |-> 0, s1 |-> 0, s2 |-> 0]
  /\ fifos = [f \in Fifos |-> <<>>]
  /\ buf_out \in [Fifos -> Lines]
  /\ pop_ptr = 0
  /\ pop_valid_d1 = FALSE /\ pop_grant_d1 = {}
  /\ o_push = FALSE /\ o_push_data = None
  /\ popped = [f \in Fifos |-> <<>>]

-----------------------------------------------------------------------------
\* The data lines always hold something; the valid bits of RR_LB tell when it
\* is a packet.
Payload == data' = [s0a |-> pushed + 1, s0b |-> data.s0a, s1 |-> data.s0b, s2 |-> data.s1]

fifo_wr_en(f) == s2.vld /\ s2.id = f

pop_grant == {pop_ptr}

fifo_rd_en_Stored(f) ==  \* mutant: what is being written is not read
  f \in pop_grant /\ fifos[f] # <<>>

fifo_rd_en(f) == f \in pop_grant

pop_valid_Empty == fifos[pop_ptr] # <<>>  \* mutant: the packet being written is forgotten

pop_valid == fifos[pop_ptr] # <<>> \/ fifo_wr_en(pop_ptr)

FifoArray ==
  /\ fifos' = [f \in Fifos |-> Contents(fifos[f], fifo_wr_en(f), fifo_rd_en(f), data.s2)]
  /\ buf_out' = [f \in Fifos |-> Out(fifos[f], fifo_wr_en(f), fifo_rd_en(f), data.s2)]

Arbiter_NoWrap ==  \* mutant: the pointer is a bit wider than it should be
  /\ pop_ptr' = pop_ptr + 1
  /\ pop_valid_d1' = pop_valid
  /\ pop_grant_d1' = pop_grant

Arbiter_Waits ==  \* mutant: stays at an empty FIFO
  /\ pop_ptr' = IF pop_valid THEN (pop_ptr + 1) % FIFO_NUM ELSE pop_ptr
  /\ pop_valid_d1' = pop_valid
  /\ pop_grant_d1' = pop_grant

Arbiter ==
  /\ pop_ptr' = (pop_ptr + 1) % FIFO_NUM
  /\ pop_valid_d1' = pop_valid
  /\ pop_grant_d1' = pop_grant

selected_data_Late == buf_out[pop_ptr]  \* mutant: selects with the grant of this cycle

selected_data ==
  IF pop_grant_d1 = {} THEN None ELSE buf_out[CHOOSE f \in pop_grant_d1 : TRUE]

Output ==
  /\ o_push' = pop_valid_d1
  /\ o_push_data' = selected_data
  /\ popped' = [f \in Fifos |-> IF pop_valid_d1 /\ f \in pop_grant_d1
                                  THEN Append(popped[f], selected_data)
                                  ELSE popped[f]]

PushCycle(i_push, rank, i_update_borders, i_borders, i_upload_cnt) ==
  /\ Cycle(i_push, rank, i_update_borders, i_borders, i_upload_cnt)
  /\ Payload
  /\ FifoArray
  /\ Arbiter
  /\ Output

PushNext ==
  \E i_push \in BOOLEAN, i_update_borders, i_upload_cnt \in Controls,
     i_borders \in IdleInputs :
    \E rank \in IF i_push THEN RankSet ELSE IdleInputs :
      PushCycle(i_push, rank, i_update_borders, i_borders, i_upload_cnt)

push_vars == <<vars, lanes>>

\* The clock does not stop.
ClockFairness == WF_push_vars(PushNext)

PushSpec == PushInit /\ [][PushNext]_push_vars /\ ClockFairness

-----------------------------------------------------------------------------
(***************************************************************************)
(* Properties                                                              *)
(***************************************************************************)
PushTypeOK ==
  /\ TypeOK
  /\ data \in [s0a : Lines, s0b : Lines, s1 : Lines, s2 : Lines]
  /\ fifos \in [Fifos -> Seq(Lines)]
  /\ buf_out \in [Fifos -> Lines]
  /\ pop_ptr \in Fifos
  /\ pop_valid_d1 \in BOOLEAN /\ pop_grant_d1 \in SUBSET Fifos
  /\ o_push \in BOOLEAN /\ o_push_data \in Lines
  /\ popped \in [Fifos -> Seq(Lines)]

\* Steps from one FIFO to another, in the order of their numbers.
Turns(from, to) == IF from <= to THEN to - from ELSE to + FIFO_NUM - from

\* Packets stored in FIFO f or about to be.
Backlog(f) == Len(fifos[f]) + IF fifo_wr_en(f) THEN 1 ELSE 0

\* The last packet sent to a FIFO is read within B * (FIFO_NUM - 1) cycles, whatever
\* the packets' buckets: each bucket sends a FIFO at most one packet more than
\* the others, and the arbiter reads every FIFO in turn (RR_LB's counters,
\* PUSH_LB's pop_ptr).
WaitBounded ==
  \A f \in Fifos : Backlog(f) > 0 =>
    FIFO_NUM * (Backlog(f) - 1) + Turns(pop_ptr, f) <= B * (FIFO_NUM - 1)

\* Enough depth for the worst order of buckets.
Deep == FIFO_NUM * FIFO_SIZE >= B * (FIFO_NUM - 1)

\* With FIFOs that deep no packet is ever dropped, although nothing holds back
\* the pusher (PUSH_LB.sv:56, fifo_full is not used).
NoDrop == Deep => \A f \in Fifos : ~Drops(fifos[f], fifo_wr_en(f), fifo_rd_en(f))

InPipeline ==
  {n \in Packets : \/ s0a.vld /\ n = data.s0a
                   \/ s0b.vld /\ n = data.s0b
                   \/ s1.vld /\ n = data.s1
                   \/ s2.vld /\ n = data.s2}

BeingRead(f) == IF pop_valid_d1 /\ f \in pop_grant_d1 THEN <<buf_out[f]>> ELSE <<>>

\* Everything that was sent to FIFO f, in the order in which it leaves.
Through(f) == popped[f] \o BeingRead(f) \o fifos[f]

\* Packets leave a FIFO in the order in which they were pushed, none twice.
InOrder ==
  \A f \in Fifos : \A i, j \in 1 .. Len(Through(f)) :
    i < j => Through(f)[i] < Through(f)[j]

\* Every packet pushed is in the pipeline or went through exactly one FIFO, and
\* nothing else did (the scoreboard of tb_PUSH_LB.sv:216-249).
ExactlyOnce ==
  Deep =>
    /\ 1 .. pushed = InPipeline \cup UNION {Range(Through(f)) : f \in Fifos}
    /\ \A f \in Fifos : Range(Through(f)) \cap InPipeline = {}
    /\ \A f, g \in Fifos : f # g => Range(Through(f)) \cap Range(Through(g)) = {}

\* Every packet reaches the output (scenario 2 of tb_PUSH_LB.sv: "every transmitted
\* packet should eventually be received").
EveryPacketPops ==
  \A n \in Packets : (pushed >= n) ~> (\E f \in Fifos : n \in Range(popped[f]))

\* PUSH_LB.sv:121: "when data is available, the FIFO selected by round robin is
\* nonempty".
SelectedHasData ==
  (\E f \in Fifos : fifos[f] # <<>> \/ fifo_wr_en(f)) => pop_valid
=============================================================================
