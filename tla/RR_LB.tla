-------------------------------- MODULE RR_LB --------------------------------
(***************************************************************************)
(* The hardware load balancer, hardware/scale-up-PIFO-hw/LB/RR_LB.sv: a    *)
(* pipeline that finds the bucket of a rank (S0a compare, S0b encode),     *)
(* reads the bucket's counter (S1), and sends the packet to the FIFO named *)
(* by the counter's low bits (S2), which wrap, so that the packets of a    *)
(* bucket go round the FIFOs.  Beside it run a state machine that streams  *)
(* new borders into the inactive one of two banks, and one that reports    *)
(* the high bits of the counters one by one, clearing them.                *)
(*                                                                         *)
(* A step is a clock cycle: every register is assigned from the values     *)
(* before the edge.  Init is the state after reset.  The payload that      *)
(* travels beside the valid bits is left out.  A counter is the record of  *)
(* its two bit slices, lo (the FIFO) and hi (complete rounds), which       *)
(* wraps at HighMax.                                                       *)
(***************************************************************************)
EXTENDS Integers, FiniteSets, Sequences

CONSTANTS
  B,           \* number of buckets
  FIFO_NUM,    \* number of FIFOs, 2^(width of lo)
  HighMax,     \* 2^(width of hi)
  RankMax,     \* ranks and borders are 0 .. RankMax
  ResetBorders,\* the borders after reset: the upper ends of B equal buckets
  MaxPushes    \* bound on the packets of a run

Buckets == 0 .. B - 1
Fifos   == 0 .. FIFO_NUM - 1
RankSet == 0 .. RankMax

ASSUME LBAssumption ==
  /\ B \in Nat \ {0}
  /\ FIFO_NUM \in Nat \ {0}
  /\ HighMax \in Nat \ {0}
  /\ RankMax \in Nat
  /\ ResetBorders \in [Buckets -> RankSet]
  /\ MaxPushes \in Nat

VARIABLES
  borders_q,        \* the two banks of borders
  active_set_q,     \* the bank in use
  update_state_q, update_idx_q,
  upload_state_q, upload_idx_q,
  cnt_q,            \* the counters
  s0a,              \* vld_s0_q, cmp_hit_q
  s0b,              \* vld_s0b_q, idx_s0_q
  s1,               \* vld_s1_q, idx_s1_q
  s2,               \* vld_s2_q, id_s2
  wb,               \* wb_vld_q, wb_idx_q, wb_val_q
  pushed,           \* history: packets taken in
  emitted,          \* history: packets sent on, per bucket
  reported,         \* history: rounds reported on o_cnt, per bucket
  streamed,         \* history: the borders of the update under way
  installed         \* history: the borders of the last complete update

vars == <<borders_q, active_set_q, update_state_q, update_idx_q, upload_state_q,
          upload_idx_q, cnt_q, s0a, s0b, s1, s2, wb, pushed, emitted, reported,
          streamed, installed>>

Counter == [hi : 0 .. HighMax - 1, lo : Fifos]
Zero    == [hi |-> 0, lo |-> 0]

\* cnt + 1, with the carry from the low into the high bits.
Inc(c) == IF c.lo < FIFO_NUM - 1
            THEN [c EXCEPT !.lo = @ + 1]
            ELSE [hi |-> (c.hi + 1) % HighMax, lo |-> 0]

Value(c) == c.hi * FIFO_NUM + c.lo

Init ==
  /\ borders_q = [bank \in 0 .. 1 |-> ResetBorders]
  /\ active_set_q = 0
  /\ update_state_q = "IDLE" /\ update_idx_q = 0
  /\ upload_state_q = "IDLE" /\ upload_idx_q = 0
  /\ cnt_q = [b \in Buckets |-> Zero]
  /\ s0a = [vld |-> FALSE, hit |-> {}]
  /\ s0b = [vld |-> FALSE, idx |-> 0]
  /\ s1 = [vld |-> FALSE, idx |-> 0]
  /\ s2 = [vld |-> FALSE, id |-> 0]
  /\ wb = [vld |-> FALSE, idx |-> 0, val |-> Zero]
  /\ pushed = 0
  /\ emitted = [b \in Buckets |-> 0]
  /\ reported = [b \in Buckets |-> 0]
  /\ streamed = <<>>
  /\ installed = ResetBorders

-----------------------------------------------------------------------------
(***************************************************************************)
(* Borders                                                                 *)
(***************************************************************************)
Inactive_None == active_set_q  \* mutant: the bank in use is written

Inactive == 1 - active_set_q

StartUpdate ==
  /\ update_state_q = "IDLE"
  /\ update_state_q' = "UP"
  /\ update_idx_q' = 0
  /\ streamed' = <<>>
  /\ UNCHANGED <<borders_q, active_set_q, installed>>

\* The border on i_borders goes to the inactive bank; the last one swaps banks.
StreamBorder(border) ==
  /\ update_state_q = "UP"
  /\ borders_q' = [borders_q EXCEPT ![Inactive][update_idx_q] = border]
  /\ streamed' = Append(streamed, border)
  /\ IF update_idx_q = B - 1
       THEN /\ update_state_q' = "IDLE"
            /\ update_idx_q' = 0
            /\ active_set_q' = 1 - active_set_q
            /\ installed' = [b \in Buckets |-> streamed'[b + 1]]
       ELSE /\ update_idx_q' = update_idx_q + 1
            /\ UNCHANGED <<update_state_q, active_set_q, installed>>

UpdateIdle ==
  /\ update_state_q = "IDLE"
  /\ UNCHANGED <<borders_q, active_set_q, update_state_q, update_idx_q,
                 streamed, installed>>

Borders(i_update_borders, i_borders) ==
  \/ i_update_borders /\ StartUpdate
  \/ ~i_update_borders /\ UpdateIdle
  \/ StreamBorder(i_borders)

-----------------------------------------------------------------------------
(***************************************************************************)
(* The pipeline                                                            *)
(***************************************************************************)
Compare(i_push, rank) ==
  s0a' = [vld |-> i_push,
          hit |-> {b \in Buckets : rank <= borders_q[active_set_q][b]}]

\* The first bucket that hit, the last bucket when none did.
Encoded(hit) == IF hit = {} THEN B - 1
                            ELSE CHOOSE b \in hit : \A c \in hit : b <= c

Encode == s0b' = [vld |-> s0a.vld, idx |-> Encoded(s0a.hit)]

Fetch == s1' = s0b

\* The counter of the packet in S1: the value written back in the previous
\* cycle, if it was the same bucket's.
CounterRead == IF wb.vld /\ s1.idx = wb.idx THEN wb.val ELSE cnt_q[s1.idx]

Emit_Stale ==  \* mutant: the identifier of the value written back
  IF s1.vld
    THEN /\ s2' = [vld |-> TRUE, id |-> Inc(CounterRead).lo]
         /\ wb' = [vld |-> TRUE, idx |-> s1.idx, val |-> Inc(CounterRead)]
    ELSE /\ s2' = [s2 EXCEPT !.vld = FALSE]
         /\ wb' = [wb EXCEPT !.vld = FALSE]

Emit ==
  IF s1.vld
    THEN /\ s2' = [vld |-> TRUE, id |-> CounterRead.lo]
         /\ wb' = [vld |-> TRUE, idx |-> s1.idx, val |-> Inc(CounterRead)]
    ELSE /\ s2' = [s2 EXCEPT !.vld = FALSE]
         /\ wb' = [wb EXCEPT !.vld = FALSE]

-----------------------------------------------------------------------------
(***************************************************************************)
(* The counters and their upload                                           *)
(***************************************************************************)
Upload_NoEnd(i_upload_cnt) ==  \* mutant: the last bucket is not recognised
  IF upload_state_q = "IDLE"
    THEN IF i_upload_cnt
           THEN upload_state_q' = "UP" /\ upload_idx_q' = 0
           ELSE UNCHANGED <<upload_state_q, upload_idx_q>>
    ELSE upload_idx_q' = upload_idx_q + 1 /\ UNCHANGED upload_state_q

Upload(i_upload_cnt) ==
  IF upload_state_q = "IDLE"
    THEN IF i_upload_cnt
           THEN upload_state_q' = "UP" /\ upload_idx_q' = 0
           ELSE UNCHANGED <<upload_state_q, upload_idx_q>>
    ELSE IF upload_idx_q = B - 1
           THEN upload_state_q' = "IDLE" /\ UNCHANGED upload_idx_q
           ELSE upload_idx_q' = upload_idx_q + 1 /\ UNCHANGED upload_state_q

Cleared(c) == [c EXCEPT !.hi = 0]

\* The reported bucket and the bucket of the packet in S1 are written in one
\* cycle; when they are the same bucket, it is cleared and counts the packet.
Written_LosesPush(b) ==  \* mutant: the upload's write wins
  IF upload_state_q = "UP" /\ b = upload_idx_q
    THEN Cleared(cnt_q[b])
    ELSE IF s1.vld /\ b = s1.idx THEN Inc(CounterRead) ELSE cnt_q[b]

Written(b) ==
  IF upload_state_q = "UP" /\ b = upload_idx_q
    THEN IF s1.vld /\ b = s1.idx THEN Inc(Cleared(cnt_q[b])) ELSE Cleared(cnt_q[b])
    ELSE IF s1.vld /\ b = s1.idx THEN Inc(CounterRead) ELSE cnt_q[b]

WriteCounters == cnt_q' = [b \in Buckets |-> Written(b)]

\* o_cnt, in rounds.
Reported(b) == IF upload_state_q = "UP" /\ b = upload_idx_q THEN cnt_q[b].hi ELSE 0

Record(i_push) ==
  /\ pushed' = pushed + IF i_push THEN 1 ELSE 0
  /\ emitted' = [b \in Buckets |-> emitted[b] + IF s1.vld /\ b = s1.idx THEN 1 ELSE 0]
  /\ reported' = [b \in Buckets |-> reported[b] + Reported(b)]

-----------------------------------------------------------------------------
Cycle(i_push, rank, i_update_borders, i_borders, i_upload_cnt) ==
  /\ i_push => pushed < MaxPushes
  /\ Borders(i_update_borders, i_borders)
  /\ Compare(i_push, rank)
  /\ Encode
  /\ Fetch
  /\ Emit
  /\ Upload(i_upload_cnt)
  /\ WriteCounters
  /\ Record(i_push)

Next ==
  \E i_push, i_update_borders, i_upload_cnt \in BOOLEAN, rank, i_borders \in RankSet :
    Cycle(i_push, rank, i_update_borders, i_borders, i_upload_cnt)

Spec == Init /\ [][Next]_vars

-----------------------------------------------------------------------------
(***************************************************************************)
(* Properties                                                              *)
(***************************************************************************)
TypeOK ==
  /\ borders_q \in [0 .. 1 -> [Buckets -> RankSet]]
  /\ active_set_q \in 0 .. 1
  /\ update_state_q \in {"IDLE", "UP"} /\ update_idx_q \in Buckets
  /\ upload_state_q \in {"IDLE", "UP"} /\ upload_idx_q \in Buckets
  /\ cnt_q \in [Buckets -> Counter]
  /\ s0a \in [vld : BOOLEAN, hit : SUBSET Buckets]
  /\ s0b \in [vld : BOOLEAN, idx : Buckets]
  /\ s1 \in [vld : BOOLEAN, idx : Buckets]
  /\ s2 \in [vld : BOOLEAN, id : Fifos]
  /\ wb \in [vld : BOOLEAN, idx : Buckets, val : Counter]
  /\ pushed \in 0 .. MaxPushes
  /\ emitted \in [Buckets -> Nat]
  /\ reported \in [Buckets -> Nat]
  /\ streamed \in Seq(RankSet)
  /\ installed \in [Buckets -> RankSet]

\* The n-th packet of a bucket leaves for FIFO (n - 1) % FIFO_NUM, whatever else
\* is in the pipeline, however packets of the same bucket follow each other, and
\* while borders are replaced and counters uploaded (S1, S2, counter writes).
RoundRobin == s2.vld => s2.id = (emitted[wb.idx] - 1) % FIFO_NUM

\* Packets are compared with the borders of the last complete update, all of
\* them, and never with some of an update that is under way (border banks).
CompleteBorders == borders_q[active_set_q] = installed

\* No packet escapes the reports: what has been reported of a bucket and what
\* its counter still holds are together at least the packets sent on, as long as
\* those are not more than the counter can tell apart.
NoCountLost ==
  \A b \in Buckets : emitted[b] < HighMax * FIFO_NUM =>
    reported[b] * FIFO_NUM + Value(cnt_q[b]) >= emitted[b]

\* RR_LB.sv:102: the upload "Clear[s] the reported counter's high bits while
\* preserving its low bits": no round is reported twice.
ReportedOnce ==
  \A b \in Buckets : reported[b] * FIFO_NUM + Value(cnt_q[b]) <= emitted[b]
=============================================================================
