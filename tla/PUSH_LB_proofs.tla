--------------------------- MODULE PUSH_LB_proofs ---------------------------
(***************************************************************************)
(* Proofs about the hardware load balancer and its FIFOs, for any number   *)
(* of buckets and FIFOs and any borders.  Of the load balancer alone       *)
(* (RR_LB): the type invariant, that packets see complete border updates   *)
(* only, that the FIFO identifiers of a bucket go round and that no packet *)
(* escapes the reported counts.  With the FIFOs (PUSH_LB): the bound on    *)
(* the wait in a FIFO, that FIFOs deep enough never drop a packet, and     *)
(* that packets keep their order and none is lost.  Of a FIFO in registers *)
(* (PUSH_FIFO): that it implements a bounded queue, as the FIFOs of        *)
(* PUSH_LB do.                                                             *)
(***************************************************************************)
EXTENDS PUSH_LB, PUSH_FIFO, Totals_proofs, SequenceTheorems

-----------------------------------------------------------------------------
(***************************************************************************)
(* RR_LB: counters, borders and the pipeline                               *)
(***************************************************************************)
\* The encoder returns a bucket.
LEMMA EncodedType ==
  ASSUME NEW hit \in SUBSET Buckets
  PROVE  Encoded(hit) \in Buckets
<1>1. B - 1 \in Buckets
  BY LBAssumption DEF Buckets
<1>2. CASE hit # {}
  <2>1. hit \subseteq Nat
    BY LBAssumption DEF Buckets
  <2>2. PICK b \in hit : \A c \in hit : b <= c
    BY <1>2, <2>1, LeastNatural
  <2>3. QED  BY <1>2, <2>2 DEF Encoded
<1>3. QED  BY <1>1, <1>2 DEF Encoded

\* Counting keeps counters counters, and the low bits count modulo FIFO_NUM.
LEMMA IncType ==
  ASSUME NEW c \in Counter
  PROVE  Inc(c) \in Counter
<1>1. (c.hi + 1) % HighMax \in 0 .. HighMax - 1
  BY LBAssumption DEF Counter
<1>2. CASE c.lo < FIFO_NUM - 1
  BY <1>2, LBAssumption DEF Inc, Counter, Fifos
<1>3. CASE ~(c.lo < FIFO_NUM - 1)
  BY <1>1, <1>3, LBAssumption DEF Inc, Counter, Fifos
<1>4. QED  BY <1>2, <1>3

\* Clearing keeps the low bits.
LEMMA ClearedType ==
  ASSUME NEW c \in Counter
  PROVE  Cleared(c) \in Counter /\ Cleared(c).lo = c.lo
BY LBAssumption DEF Cleared, Counter, Fifos

\* The low bits after counting depend on the low bits alone.
LEMMA IncLow ==
  ASSUME NEW c \in Counter
  PROVE  Inc(c).lo = IF c.lo < FIFO_NUM - 1 THEN c.lo + 1 ELSE 0
BY DEF Inc, Counter

\* The counter read in S1 is a counter.
LEMMA ReadType ==
  ASSUME TypeOK
  PROVE  CounterRead \in Counter
BY DEF TypeOK, CounterRead

\* What is written to a counter is a counter.
LEMMA WrittenType ==
  ASSUME TypeOK, NEW b \in Buckets
  PROVE  Written(b) \in Counter
<1>1. cnt_q[b] \in Counter /\ Cleared(cnt_q[b]) \in Counter /\ CounterRead \in Counter
  BY ClearedType, ReadType DEF TypeOK
<1>2. Inc(Cleared(cnt_q[b])) \in Counter /\ Inc(CounterRead) \in Counter
  BY <1>1, IncType
<1>3. QED  BY <1>1, <1>2 DEF Written

-----------------------------------------------------------------------------
\* The borders streamed so far are in the inactive bank, in order.
Streaming ==
  update_state_q = "UP" =>
    /\ Len(streamed) = update_idx_q
    /\ \A b \in 0 .. update_idx_q - 1 : borders_q[Inactive][b] = streamed[b + 1]

\* The low bits of every counter are the packets sent on modulo FIFO_NUM; the
\* value written back and the identifier in S2 agree with them.
Counting ==
  /\ \A b \in Buckets : cnt_q[b].lo = emitted[b] % FIFO_NUM
  /\ s2.vld = wb.vld
  /\ wb.vld => /\ wb.val.lo = cnt_q[wb.idx].lo
               /\ emitted[wb.idx] > 0
               /\ s2.id = (emitted[wb.idx] - 1) % FIFO_NUM

LBInv == TypeOK /\ CompleteBorders /\ Streaming /\ Counting

\* The invariant holds after reset.
LEMMA ResetOK == Init => LBInv
<1> SUFFICES ASSUME Init PROVE LBInv
  OBVIOUS
<1> USE LBAssumption DEF Init
<1>1. 0 \in Buckets /\ 0 \in Fifos /\ Zero \in Counter
  BY DEF Buckets, Fifos, Zero, Counter
<1>2. TypeOK
  BY <1>1 DEF TypeOK
<1>3. CompleteBorders /\ Streaming
  BY DEF CompleteBorders, Streaming
<1>4. 0 % FIFO_NUM = 0
  BY DivMod
<1>5. Counting
  BY <1>4 DEF Counting, Zero
<1>6. QED  BY <1>2, <1>3, <1>5 DEF LBInv

-----------------------------------------------------------------------------
(***************************************************************************)
(* The parts of a cycle                                                    *)
(***************************************************************************)
\* The border state machine keeps its types, the active bank complete and the
\* inactive one filled in order.
LEMMA BordersOK ==
  ASSUME TypeOK, CompleteBorders, Streaming,
         NEW update \in BOOLEAN, NEW border \in RankSet, Borders(update, border)
  PROVE  /\ borders_q' \in [0 .. 1 -> [Buckets -> RankSet]]
         /\ active_set_q' \in 0 .. 1
         /\ update_state_q' \in {"IDLE", "UP"} /\ update_idx_q' \in Buckets
         /\ streamed' \in Seq(RankSet)
         /\ installed' \in [Buckets -> RankSet]
         /\ CompleteBorders' /\ Streaming'
<1> USE DEF TypeOK
<1>1. CASE StartUpdate
  <2>1. 0 \in Buckets
    BY LBAssumption DEF Buckets
  <2>2. streamed' = <<>> /\ update_idx_q' = 0 /\ update_state_q' = "UP"
        /\ UNCHANGED <<borders_q, active_set_q, installed>>
    BY <1>1 DEF StartUpdate
  <2>3. Streaming' /\ streamed' \in Seq(RankSet)
    <3> HIDE DEF TypeOK
    <3>1. Len(<<>>) = 0 /\ 0 .. 0 - 1 = {} /\ <<>> \in Seq(RankSet)
      OBVIOUS
    <3>2. QED  BY <2>2, <3>1 DEF Streaming
  <2>4. CompleteBorders'
    BY <2>2 DEF CompleteBorders
  <2>5. QED  BY <2>1, <2>2, <2>3, <2>4
<1>2. CASE UpdateIdle
  BY <1>2 DEF UpdateIdle, CompleteBorders, Streaming
<1>3. CASE StreamBorder(border)
  <2> DEFINE bank == [borders_q[Inactive] EXCEPT ![update_idx_q] = border]
  <2>1. Inactive \in 0 .. 1 /\ Inactive # active_set_q
    BY DEF Inactive
  <2>2. /\ borders_q' \in [0 .. 1 -> [Buckets -> RankSet]]
        /\ borders_q'[Inactive] = bank
        /\ borders_q'[active_set_q] = borders_q[active_set_q]
    BY <1>3, <2>1 DEF StreamBorder
  <2>3. /\ streamed' \in Seq(RankSet) /\ Len(streamed) = update_idx_q
        /\ Len(streamed') = update_idx_q + 1
        /\ streamed'[update_idx_q + 1] = border
        /\ \A b \in 0 .. update_idx_q - 1 : streamed'[b + 1] = streamed[b + 1]
    <3>1. update_state_q = "UP" /\ streamed' = Append(streamed, border)
      BY <1>3 DEF StreamBorder
    <3>2. streamed \in Seq(RankSet) /\ Len(streamed) = update_idx_q
      BY <3>1 DEF Streaming
    <3>3. update_idx_q \in Nat
      BY LBAssumption DEF Buckets
    <3> HIDE DEF TypeOK
    <3>4. QED  BY <3>1, <3>2, <3>3
  <2>4. \A b \in 0 .. update_idx_q : bank[b] = streamed'[b + 1]
    <3> SUFFICES ASSUME NEW b \in 0 .. update_idx_q PROVE bank[b] = streamed'[b + 1]
      OBVIOUS
    <3>1. b \in Buckets /\ borders_q[Inactive] \in [Buckets -> RankSet]
      BY <2>1, LBAssumption DEF Buckets
    <3>2. CASE b = update_idx_q
      BY <3>1, <3>2, <2>3
    <3>3. CASE b # update_idx_q
      <4>1. b \in 0 .. update_idx_q - 1
        <5>1. update_idx_q \in Nat
          BY LBAssumption DEF Buckets
        <5> HIDE DEF TypeOK, bank
        <5>2. QED  BY <3>3, <5>1
      <4>2. borders_q[Inactive][b] = streamed[b + 1]
        BY <1>3, <4>1 DEF Streaming, StreamBorder
      <4>3. QED  BY <3>1, <3>3, <4>1, <4>2, <2>3
    <3>4. QED  BY <3>2, <3>3
  <2>5. CASE update_idx_q = B - 1
    <3>1. /\ update_state_q' = "IDLE" /\ update_idx_q' = 0
          /\ active_set_q' = Inactive
          /\ installed' = [b \in Buckets |-> streamed'[b + 1]]
      BY <1>3, <2>5 DEF StreamBorder, Inactive
    <3>2. bank = installed'
      BY <3>1, <2>1, <2>4, <2>5 DEF Buckets
    <3>3. bank \in [Buckets -> RankSet] /\ 0 \in Buckets
      BY <2>1, LBAssumption DEF Buckets
    <3>4. CompleteBorders' /\ Streaming'
      BY <3>1, <3>2, <2>2 DEF CompleteBorders, Streaming
    <3>5. QED  BY <3>1, <3>2, <3>3, <3>4, <2>1, <2>2, <2>3
  <2>6. CASE update_idx_q # B - 1
    <3>1. /\ update_idx_q' = update_idx_q + 1
          /\ update_state_q' = update_state_q /\ active_set_q' = active_set_q
          /\ installed' = installed /\ update_state_q = "UP"
      BY <1>3, <2>6 DEF StreamBorder
    <3>2. update_idx_q' \in Buckets
      BY <3>1, <2>6, LBAssumption DEF Buckets
    <3>3. CompleteBorders'
      BY <3>1, <2>2 DEF CompleteBorders
    <3>4. Inactive' = Inactive
      BY <3>1 DEF Inactive
    <3>5. Streaming'
      <4>1. 0 .. update_idx_q' - 1 = 0 .. update_idx_q
        BY <3>1, LBAssumption DEF Buckets
      <4>2. QED  BY <4>1, <3>1, <3>4, <2>2, <2>3, <2>4 DEF Streaming
    <3>6. QED  BY <3>1, <3>2, <3>3, <3>5, <2>2, <2>3
  <2>7. QED  BY <2>5, <2>6
<1>4. QED  BY <1>1, <1>2, <1>3 DEF Borders

\* The upload state machine stays within the buckets.
LEMMA UploadOK ==
  ASSUME TypeOK, NEW upload \in BOOLEAN, Upload(upload)
  PROVE  upload_state_q' \in {"IDLE", "UP"} /\ upload_idx_q' \in Buckets
<1>1. upload_state_q \in {"IDLE", "UP"} /\ upload_idx_q \in 0 .. B - 1 /\ B \in Nat \ {0}
  BY LBAssumption DEF TypeOK, Buckets
<1>2. upload_idx_q # B - 1 => upload_idx_q + 1 \in 0 .. B - 1
  BY <1>1
<1>3. CASE upload_state_q = "IDLE"
  BY <1>1, <1>3 DEF Upload, Buckets
<1>4. CASE upload_state_q # "IDLE"
  BY <1>1, <1>2, <1>4 DEF Upload, Buckets
<1>5. QED  BY <1>3, <1>4

\* The pipeline registers keep their types.
LEMMA PipelineOK ==
  ASSUME TypeOK, NEW push \in BOOLEAN, NEW rank \in RankSet,
         Compare(push, rank), Encode, Fetch, Emit
  PROVE  /\ s0a' \in [vld : BOOLEAN, hit : SUBSET Buckets]
         /\ s0b' \in [vld : BOOLEAN, idx : Buckets]
         /\ s1' \in [vld : BOOLEAN, idx : Buckets]
         /\ s2' \in [vld : BOOLEAN, id : Fifos]
         /\ wb' \in [vld : BOOLEAN, idx : Buckets, val : Counter]
<1>1. s0a' \in [vld : BOOLEAN, hit : SUBSET Buckets]
  BY DEF Compare
<1>2. s0b' \in [vld : BOOLEAN, idx : Buckets]
  BY EncodedType DEF Encode, TypeOK
<1>3. s1' \in [vld : BOOLEAN, idx : Buckets]
  BY DEF Fetch, TypeOK
<1>4. CounterRead \in Counter /\ Inc(CounterRead) \in Counter /\ CounterRead.lo \in Fifos
  <2>1. CounterRead \in Counter
    BY ReadType
  <2>2. QED  BY <2>1, IncType DEF Counter
<1>5. /\ s2' \in [vld : BOOLEAN, id : Fifos]
      /\ wb' \in [vld : BOOLEAN, idx : Buckets, val : Counter]
  <2>1. /\ s1 \in [vld : BOOLEAN, idx : Buckets] /\ s2 \in [vld : BOOLEAN, id : Fifos]
        /\ wb \in [vld : BOOLEAN, idx : Buckets, val : Counter]
    BY DEF TypeOK
  <2>2. CASE s1.vld
    <3>1. /\ s2' = [vld |-> TRUE, id |-> CounterRead.lo]
          /\ wb' = [vld |-> TRUE, idx |-> s1.idx, val |-> Inc(CounterRead)]
      BY <2>2, Zenon DEF Emit
    <3>2. QED  BY <3>1, <1>4, <2>1
  <2>3. CASE ~s1.vld
    BY <2>1, <2>3 DEF Emit
  <2>4. QED  BY <2>2, <2>3
<1>6. QED  BY <1>1, <1>2, <1>3, <1>5

\* The counter read in S1 has the low bits of the counter array.
LEMMA ReadLow ==
  ASSUME TypeOK, Counting
  PROVE  CounterRead.lo = cnt_q[s1.idx].lo
BY DEF TypeOK, Counting, CounterRead

\* A counter's low bits advance with a packet of its bucket and not otherwise,
\* whatever the upload does.
LEMMA WrittenLow ==
  ASSUME TypeOK, Counting, NEW b \in Buckets
  PROVE  Written(b).lo =
           IF s1.vld /\ b = s1.idx
             THEN IF cnt_q[b].lo < FIFO_NUM - 1 THEN cnt_q[b].lo + 1 ELSE 0
             ELSE cnt_q[b].lo
<1>1. cnt_q[b] \in Counter
  BY DEF TypeOK
<1>2. /\ Cleared(cnt_q[b]) \in Counter /\ Cleared(cnt_q[b]).lo = cnt_q[b].lo
  BY <1>1, ClearedType
<1>3. Inc(Cleared(cnt_q[b])).lo = IF cnt_q[b].lo < FIFO_NUM - 1 THEN cnt_q[b].lo + 1 ELSE 0
  BY <1>2, IncLow
<1>4. CounterRead \in Counter /\ (b = s1.idx => CounterRead.lo = cnt_q[b].lo)
  BY ReadType, ReadLow
<1>5. b = s1.idx =>
        Inc(CounterRead).lo = IF cnt_q[b].lo < FIFO_NUM - 1 THEN cnt_q[b].lo + 1 ELSE 0
  BY <1>4, IncLow
<1>6. QED  BY <1>2, <1>3, <1>5 DEF Written

\* The counters, the value written back and the identifier stay in step with the
\* packets sent on.
LEMMA CountingOK ==
  ASSUME TypeOK, Counting, NEW push \in BOOLEAN, Emit, WriteCounters, Record(push)
  PROVE  Counting'
<1>1. ASSUME NEW b \in Buckets PROVE emitted[b] \in Nat
  BY DEF TypeOK
<1>2. ASSUME NEW b \in Buckets
      PROVE  /\ emitted'[b] = IF s1.vld /\ b = s1.idx THEN emitted[b] + 1 ELSE emitted[b]
             /\ cnt_q'[b].lo = emitted'[b] % FIFO_NUM
  <2>1. emitted'[b] = IF s1.vld /\ b = s1.idx THEN emitted[b] + 1 ELSE emitted[b]
    BY <1>1 DEF Record
  <2>2. cnt_q'[b].lo = Written(b).lo /\ cnt_q[b].lo = emitted[b] % FIFO_NUM
    BY DEF WriteCounters, Counting
  <2>3. (emitted[b] + 1) % FIFO_NUM
          = IF cnt_q[b].lo < FIFO_NUM - 1 THEN cnt_q[b].lo + 1 ELSE 0
    BY <1>1, <2>2, LBAssumption, ModIncrement
  <2>4. QED  BY <2>1, <2>2, <2>3, WrittenLow
<1>3. s2'.vld = wb'.vld
  <2>1. s1 \in [vld : BOOLEAN, idx : Buckets]
        /\ s2 \in [vld : BOOLEAN, id : Fifos]
        /\ wb \in [vld : BOOLEAN, idx : Buckets, val : Counter]
    BY DEF TypeOK
  <2>2. CASE s1.vld
    <3>1. /\ s2' = [vld |-> TRUE, id |-> CounterRead.lo]
          /\ wb' = [vld |-> TRUE, idx |-> s1.idx, val |-> Inc(CounterRead)]
      BY <2>2, Zenon DEF Emit
    <3>2. QED  BY <3>1
  <2>3. CASE ~s1.vld
    BY <2>1, <2>3 DEF Emit
  <2>4. QED  BY <2>2, <2>3
<1>4. ASSUME wb'.vld
      PROVE  /\ wb'.val.lo = cnt_q'[wb'.idx].lo
             /\ emitted'[wb'.idx] > 0
             /\ s2'.id = (emitted'[wb'.idx] - 1) % FIFO_NUM
  <2>1. /\ s1.vld /\ s1.idx \in Buckets
        /\ wb'.idx = s1.idx /\ wb'.val = Inc(CounterRead) /\ s2'.id = CounterRead.lo
    BY <1>4 DEF Emit, TypeOK
  <2>2. emitted'[s1.idx] = emitted[s1.idx] + 1 /\ emitted[s1.idx] \in Nat
    BY <1>1, <1>2, <2>1
  <2>3. s2'.id = (emitted'[s1.idx] - 1) % FIFO_NUM
    <3>1. s2'.id = emitted[s1.idx] % FIFO_NUM
      BY <2>1, ReadLow DEF Counting
    <3>2. emitted'[s1.idx] - 1 = emitted[s1.idx]
      BY <2>2
    <3>3. QED  BY <3>1, <3>2
  <2>4. wb'.val.lo = cnt_q'[s1.idx].lo
    <3>1. CounterRead \in Counter /\ CounterRead.lo = cnt_q[s1.idx].lo
      BY ReadType, ReadLow
    <3>2. Inc(CounterRead).lo = Written(s1.idx).lo
      BY <3>1, <2>1, IncLow, WrittenLow
    <3>3. QED  BY <3>2, <2>1 DEF WriteCounters
  <2>5. QED  BY <2>1, <2>2, <2>3, <2>4
<1>5. QED  BY <1>2, <1>3, <1>4 DEF Counting

-----------------------------------------------------------------------------
\* In every cycle the registers are well typed, the active bank holds the last
\* complete update, and the counters agree with the packets sent on (RR_LB).
THEOREM LBInvariance == Spec => []LBInv
<1>1. LBInv /\ [Next]_vars => LBInv'
  <2> SUFFICES ASSUME LBInv, [Next]_vars PROVE LBInv'
    OBVIOUS
  <2>1. ASSUME NEW push \in BOOLEAN, NEW update \in BOOLEAN, NEW upload \in BOOLEAN,
               NEW rank \in RankSet, NEW border \in RankSet,
               Cycle(push, rank, update, border, upload)
        PROVE  LBInv'
    <3>1. TypeOK /\ CompleteBorders /\ Streaming /\ Counting
      BY DEF LBInv
    <3>2. /\ push => pushed < MaxPushes
          /\ Borders(update, border) /\ Compare(push, rank) /\ Encode /\ Fetch /\ Emit
          /\ Upload(upload) /\ WriteCounters /\ Record(push)
      BY <2>1 DEF Cycle
    <3>3. cnt_q' \in [Buckets -> Counter]
      BY <3>1, <3>2, WrittenType DEF WriteCounters
    <3>4. /\ pushed' \in 0 .. MaxPushes
          /\ emitted' \in [Buckets -> Nat]
      BY <3>1, <3>2, LBAssumption DEF Record, TypeOK
    <3>5. reported' \in [Buckets -> Nat]
      <4>1. ASSUME NEW b \in Buckets PROVE Reported(b) \in Nat
        BY <3>1, LBAssumption DEF Reported, TypeOK, Counter
      <4>2. ASSUME NEW b \in Buckets PROVE reported[b] + Reported(b) \in Nat
        <5>1. reported[b] \in Nat
          BY <3>1 DEF TypeOK
        <5>2. Reported(b) \in Nat
          BY <4>1
        <5>3. QED  BY <5>1, <5>2
      <4>3. QED  BY <3>2, <4>2 DEF Record
    <3>6. TypeOK'
      BY <3>1, <3>2, <3>3, <3>4, <3>5, BordersOK, UploadOK, PipelineOK DEF TypeOK
    <3>7. CompleteBorders' /\ Streaming'
      BY <3>1, <3>2, BordersOK
    <3>8. Counting'
      BY <3>1, <3>2, CountingOK
    <3>9. QED  BY <3>6, <3>7, <3>8 DEF LBInv
  <2>2. CASE UNCHANGED vars
    BY <2>2 DEF LBInv, TypeOK, CompleteBorders, Streaming, Inactive, Counting, vars
  <2>3. QED  BY <2>1, <2>2 DEF Next
<1>2. QED  BY <1>1, ResetOK, PTL DEF Spec

\* The registers of the load balancer stay well typed.
THEOREM TypeCorrect == Spec => []TypeOK
BY LBInvariance, PTL DEF LBInv

\* Packets are compared with complete border updates only.
THEOREM BordersComplete == Spec => []CompleteBorders
BY LBInvariance, PTL DEF LBInv

\* The n-th packet of a bucket leaves for FIFO (n - 1) % FIFO_NUM.
THEOREM FifosTakeTurns == Spec => []RoundRobin
<1>1. LBInv => RoundRobin
  BY DEF LBInv, Counting, RoundRobin
<1>2. QED  BY <1>1, LBInvariance, PTL

-----------------------------------------------------------------------------
(***************************************************************************)
(* The count of packets                                                    *)
(***************************************************************************)
\* What a counter can tell apart.
Capacity == HighMax * FIFO_NUM

\* A number below the divisor is its own remainder.
LEMMA SmallRemainder ==
  ASSUME NEW n \in Nat \ {0}, NEW e \in 0 .. n - 1
  PROVE  e % n = e
<1> DEFINE q == e \div n
           r == e % n
<1>1. q \in Nat /\ r \in 0 .. n - 1 /\ e = n * q + r
  <2>1. e \in Nat
    OBVIOUS
  <2>2. QED  BY <2>1, DivMod
<1>2. q * n = e - r
  BY <1>1
<1> HIDE DEF q, r
<1>3. e = r
  BY <1>1, <1>2, SameRemainder
<1>4. QED  BY <1>3 DEF r

\* The value of a counter is a number, not less than its low bits.
LEMMA ValueType ==
  ASSUME NEW c \in Counter
  PROVE  Value(c) \in Nat /\ c.hi \in Nat /\ c.lo \in Nat /\ c.lo <= Value(c)
<1>1. c.hi \in Nat /\ c.lo \in Nat /\ FIFO_NUM \in Nat
  BY LBAssumption DEF Counter, Fifos
<1>2. c.hi * FIFO_NUM \in Nat
  BY <1>1
<1>3. QED  BY <1>1, <1>2 DEF Value

\* Clearing takes the rounds off the value.
LEMMA ClearedValue ==
  ASSUME NEW c \in Counter
  PROVE  Value(Cleared(c)) = c.lo
<1>1. Cleared(c).hi = 0 /\ Cleared(c).lo = c.lo /\ c.lo \in Nat
  BY LBAssumption DEF Cleared, Counter, Fifos
<1>2. 0 * FIFO_NUM = 0
  BY LBAssumption
<1>3. QED  BY <1>1, <1>2 DEF Value

\* Counting adds 1 to the value; only a counter at its capacity starts again.
LEMMA IncValue ==
  ASSUME NEW c \in Counter, NEW n \in Nat, Value(c) <= n
  PROVE  /\ Value(Inc(c)) <= n + 1
         /\ n + 1 < Capacity => Value(Inc(c)) = Value(c) + 1
<1>1. /\ c.hi \in 0 .. HighMax - 1 /\ c.lo \in 0 .. FIFO_NUM - 1
      /\ FIFO_NUM \in Nat \ {0} /\ HighMax \in Nat \ {0}
  BY LBAssumption DEF Counter, Fifos
<1>2. Value(c) = c.hi * FIFO_NUM + c.lo /\ c.hi * FIFO_NUM \in Nat
  BY <1>1 DEF Value
<1>3. CASE c.lo < FIFO_NUM - 1
  <2>1. Inc(c).hi = c.hi /\ Inc(c).lo = c.lo + 1
    BY <1>3 DEF Inc, Counter
  <2>2. Value(Inc(c)) = c.hi * FIFO_NUM + (c.lo + 1)
    BY <2>1 DEF Value
  <2>3. ASSUME NEW k \in Nat, k = c.hi * FIFO_NUM
        PROVE  Value(Inc(c)) = Value(c) + 1 /\ Value(c) \in Nat
    BY <1>1, <1>2, <2>2, <2>3
  <2>4. QED  BY <1>2, <2>3
<1>4. CASE ~(c.lo < FIFO_NUM - 1)
  <2>1. c.lo = FIFO_NUM - 1
    BY <1>1, <1>4
  <2>2. Inc(c).hi = (c.hi + 1) % HighMax /\ Inc(c).lo = 0
    BY <1>4, Zenon DEF Inc
  <2>3. (c.hi + 1) * FIFO_NUM = c.hi * FIFO_NUM + FIFO_NUM
    BY <1>1
  <2>4. Value(c) + 1 = (c.hi + 1) * FIFO_NUM
    BY <1>1, <1>2, <2>1, <2>3
  <2>5. CASE c.hi < HighMax - 1
    <3>1. (c.hi + 1) % HighMax = c.hi + 1
      <4>1. c.hi + 1 \in 0 .. HighMax - 1
        BY <1>1, <2>5
      <4>2. QED  BY <1>1, <4>1, SmallRemainder
    <3>2. Value(Inc(c)) = (c.hi + 1) * FIFO_NUM + 0
      BY <2>2, <3>1 DEF Value
    <3>3. Value(Inc(c)) = Value(c) + 1 /\ Value(c) \in Nat
      BY <1>1, <1>2, <2>3, <2>4, <3>2
    <3>4. QED  BY <3>3
  <2>6. CASE ~(c.hi < HighMax - 1)
    <3>1. c.hi + 1 = HighMax
      BY <1>1, <2>6
    <3>2. Value(c) + 1 = Capacity
      BY <2>4, <3>1 DEF Capacity
    <3>3. HighMax % HighMax = 0
      BY <1>1, DivMod
    <3>4. Value(Inc(c)) = 0
      <4>1. Inc(c).hi = 0 /\ Inc(c).lo = 0
        BY <2>2, <3>1, <3>3
      <4>2. 0 * FIFO_NUM + 0 = 0
        BY <1>1
      <4>3. QED  BY <4>1, <4>2 DEF Value
    <3>5. Value(c) \in Nat
      BY <1>1, <1>2
    <3>6. ~(n + 1 < Capacity)
      BY <3>2, <3>5
    <3>7. QED  BY <3>4, <3>6
  <2>7. QED  BY <2>5, <2>6
<1>5. QED  BY <1>3, <1>4

\* No counter, and no value on its way back to one, exceeds the packets sent on;
\* and while those are below the capacity, the value on its way back is not less
\* than the counter, which an upload may have cleared meanwhile.
Bounded ==
  /\ \A b \in Buckets : Value(cnt_q[b]) <= emitted[b]
  /\ wb.vld => /\ Value(wb.val) <= emitted[wb.idx]
               /\ emitted[wb.idx] < Capacity => Value(cnt_q[wb.idx]) <= Value(wb.val)

\* So much for the counter read in S1.
LEMMA ReadBounded ==
  ASSUME TypeOK, Bounded
  PROVE  /\ Value(CounterRead) <= emitted[s1.idx]
         /\ emitted[s1.idx] < Capacity => Value(cnt_q[s1.idx]) <= Value(CounterRead)
<1>1. s1.idx \in Buckets /\ wb.vld \in BOOLEAN /\ cnt_q[s1.idx] \in Counter
  BY DEF TypeOK
<1>2. Value(cnt_q[s1.idx]) \in Nat
  BY <1>1, ValueType
<1>3. CASE wb.vld /\ s1.idx = wb.idx
  BY <1>3 DEF CounterRead, Bounded
<1>4. CASE ~(wb.vld /\ s1.idx = wb.idx)
  <2>1. CounterRead = cnt_q[s1.idx]
    BY <1>4 DEF CounterRead
  <2>2. QED  BY <1>1, <1>2, <2>1 DEF Bounded
<1>5. QED  BY <1>3, <1>4

\* What becomes of the counter of the bucket in S1: the value read plus one, or,
\* when the upload clears it in the same cycle, its low bits plus one.
LEMMA CountedInS1 ==
  ASSUME TypeOK, Bounded, s1.vld
  PROVE  LET b == s1.idx IN
         /\ Value(Written(b)) <= emitted[b] + 1
         /\ Value(Inc(CounterRead)) <= emitted[b] + 1
         /\ emitted[b] + 1 < Capacity =>
              /\ Value(Inc(CounterRead)) = Value(CounterRead) + 1
              /\ Value(cnt_q[b]) <= Value(CounterRead)
              /\ Value(Written(b)) =
                   IF upload_state_q = "UP" /\ b = upload_idx_q
                     THEN cnt_q[b].lo + 1 ELSE Value(CounterRead) + 1
              /\ Value(Written(b)) <= Value(Inc(CounterRead))
<1> DEFINE b == s1.idx
           cleared == Cleared(cnt_q[b])
<1>1. b \in Buckets /\ emitted[b] \in Nat /\ cnt_q[b] \in Counter
  BY DEF TypeOK
<1>2. CounterRead \in Counter /\ cleared \in Counter
  BY <1>1, ReadType, ClearedType
<1>3. Value(CounterRead) <= emitted[b] /\ Value(cnt_q[b]) <= emitted[b]
  BY <1>1, ReadBounded DEF Bounded
<1>4. /\ Value(cnt_q[b]) \in Nat /\ Value(CounterRead) \in Nat
      /\ cnt_q[b].lo \in Nat /\ cnt_q[b].lo <= Value(cnt_q[b])
      /\ Value(cleared) = cnt_q[b].lo
  BY <1>1, <1>2, ValueType, ClearedValue
<1>5. /\ Value(Inc(CounterRead)) <= emitted[b] + 1
      /\ emitted[b] + 1 < Capacity => Value(Inc(CounterRead)) = Value(CounterRead) + 1
  BY <1>1, <1>2, <1>3, IncValue
<1>6. /\ Value(Inc(cleared)) <= emitted[b] + 1
      /\ emitted[b] + 1 < Capacity => Value(Inc(cleared)) = cnt_q[b].lo + 1
  <2>1. Value(cleared) <= emitted[b]
    BY <1>1, <1>3, <1>4
  <2> HIDE DEF cleared, b
  <2>2. QED  BY <1>1, <1>2, <1>4, <2>1, IncValue
<1>7. Written(b) = IF upload_state_q = "UP" /\ b = upload_idx_q
                     THEN Inc(cleared) ELSE Inc(CounterRead)
  BY Zenon DEF Written
<1>8. Capacity \in Int
  BY LBAssumption DEF Capacity
<1>9. emitted[b] + 1 < Capacity => Value(cnt_q[b]) <= Value(CounterRead)
  BY <1>1, <1>8, ReadBounded
<1> HIDE DEF cleared
<1>10. CASE upload_state_q = "UP" /\ b = upload_idx_q
  <2>1. Written(b) = Inc(cleared)
    BY <1>7, <1>10
  <2> HIDE DEF b
  <2>2. QED  BY <2>1, <1>4, <1>5, <1>6, <1>9, <1>10 DEF b
<1>11. CASE ~(upload_state_q = "UP" /\ b = upload_idx_q)
  <2>1. Written(b) = Inc(CounterRead)
    BY <1>7, <1>11
  <2>2. emitted[b] + 1 < Capacity => Value(Written(b)) <= Value(Inc(CounterRead))
    BY <2>1, <1>4, <1>5
  <2> HIDE DEF b
  <2>3. QED  BY <2>1, <2>2, <1>5, <1>9, <1>11 DEF b
<1>12. QED  BY <1>10, <1>11

\* The bounds hold in the next cycle.
LEMMA BoundedOK ==
  ASSUME TypeOK, Bounded, NEW push \in BOOLEAN, Emit, WriteCounters, Record(push)
  PROVE  Bounded'
<1>1. ASSUME NEW b \in Buckets
      PROVE  /\ emitted[b] \in Nat
             /\ emitted'[b] = IF s1.vld /\ b = s1.idx THEN emitted[b] + 1 ELSE emitted[b]
             /\ cnt_q'[b] = Written(b) /\ cnt_q[b] \in Counter
  BY DEF TypeOK, Record, WriteCounters
<1>2. s1.idx \in Buckets /\ s1.vld \in BOOLEAN
  BY DEF TypeOK
<1>3. ASSUME NEW b \in Buckets PROVE Value(cnt_q'[b]) <= emitted'[b]
  <2>1. CASE s1.vld /\ b = s1.idx
    BY <1>1, <2>1, CountedInS1
  <2>2. CASE ~(s1.vld /\ b = s1.idx)
    <3>1. Written(b) = cnt_q[b] \/ Written(b) = Cleared(cnt_q[b])
      BY <2>2 DEF Written
    <3>2. /\ Value(cnt_q[b]) <= emitted[b] /\ Value(cnt_q[b]) \in Nat
          /\ Value(Cleared(cnt_q[b])) \in Nat
          /\ Value(Cleared(cnt_q[b])) <= Value(cnt_q[b])
      BY <1>1, ValueType, ClearedValue DEF Bounded
    <3>3. QED  BY <1>1, <2>2, <3>1, <3>2
  <2>3. QED  BY <2>1, <2>2
<1>4. ASSUME wb'.vld
      PROVE  /\ Value(wb'.val) <= emitted'[wb'.idx]
             /\ emitted'[wb'.idx] < Capacity => Value(cnt_q'[wb'.idx]) <= Value(wb'.val)
  <2>1. s1.vld /\ wb'.idx = s1.idx /\ wb'.val = Inc(CounterRead)
    BY <1>4 DEF Emit, TypeOK
  <2>2. /\ emitted'[s1.idx] = emitted[s1.idx] + 1
        /\ cnt_q'[s1.idx] = Written(s1.idx)
    BY <1>1, <1>2, <2>1
  <2>3. QED  BY <2>1, <2>2, CountedInS1
<1>5. QED  BY <1>3, <1>4 DEF Bounded

\* What is reported and what is left in the counter cover one packet more.
LEMMA CountKept ==
  ASSUME TypeOK, Bounded, NoCountLost, NEW push \in BOOLEAN, WriteCounters, Record(push),
         NEW b \in Buckets, emitted'[b] < Capacity
  PROVE  reported'[b] * FIFO_NUM + Value(cnt_q'[b]) >= emitted'[b]
<1> DEFINE n == emitted[b]
           h == cnt_q[b].hi
           l == cnt_q[b].lo
           up == upload_state_q = "UP" /\ b = upload_idx_q
           push1 == s1.vld /\ b = s1.idx
<1>1. /\ n \in Nat /\ cnt_q[b] \in Counter /\ reported[b] \in Nat
      /\ FIFO_NUM \in Nat /\ Capacity \in Nat /\ h \in Nat /\ l \in Nat
  <2>1. cnt_q[b] \in Counter
    BY DEF TypeOK
  <2>2. h \in Nat /\ l \in Nat
    BY <2>1, ValueType
  <2>3. QED  BY <2>1, <2>2, LBAssumption DEF TypeOK, Capacity
<1>2. /\ emitted'[b] = IF push1 THEN n + 1 ELSE n
      /\ reported'[b] = IF up THEN reported[b] + h ELSE reported[b]
      /\ cnt_q'[b] = Written(b)
  <2>1. emitted'[b] = n + IF push1 THEN 1 ELSE 0
    BY DEF Record
  <2>2. reported'[b] = reported[b] + IF up THEN h ELSE 0
    BY DEF Record, Reported
  <2>3. QED  BY <1>1, <2>1, <2>2 DEF WriteCounters
<1>3. reported[b] * FIFO_NUM + Value(cnt_q[b]) >= n
  <2>1. n < Capacity
    BY <1>1, <1>2
  <2>2. QED  BY <2>1 DEF NoCountLost, Capacity
<1>4. Value(cnt_q[b]) = h * FIFO_NUM + l
  BY DEF Value
<1>5. Value(Written(b)) >= IF up THEN IF push1 THEN l + 1 ELSE l
                                 ELSE IF push1 THEN Value(cnt_q[b]) + 1 ELSE Value(cnt_q[b])
  <2>0. Value(cnt_q[b]) \in Nat
    BY <1>1, ValueType
  <2>1. CASE push1
    <3>1. n + 1 < Capacity
      BY <1>2, <2>1
    <3>2. /\ Value(cnt_q[b]) <= Value(CounterRead)
          /\ Value(Written(b)) = IF up THEN l + 1 ELSE Value(CounterRead) + 1
      BY <2>1, <3>1, CountedInS1
    <3>3. Value(CounterRead) \in Nat
      BY ReadType, ValueType
    <3> HIDE DEF up, l
    <3>4. QED  BY <1>1, <2>0, <2>1, <3>2, <3>3
  <2>2. CASE ~push1
    <3>1. Written(b) = IF up THEN Cleared(cnt_q[b]) ELSE cnt_q[b]
      BY <2>2, Zenon DEF Written
    <3>2. Value(Cleared(cnt_q[b])) = l
      BY <1>1, ClearedValue
    <3> HIDE DEF up, l, push1
    <3>3. QED  BY <1>1, <2>0, <2>2, <3>1, <3>2
  <2>3. QED  BY <2>1, <2>2
<1>6. (reported[b] + h) * FIFO_NUM = reported[b] * FIFO_NUM + h * FIFO_NUM
  BY <1>1
<1>7. reported[b] * FIFO_NUM \in Nat /\ h * FIFO_NUM \in Nat
  BY <1>1
<1>8. Value(Written(b)) \in Nat
  BY WrittenType, ValueType
<1> DEFINE r == reported[b] * FIFO_NUM
           k == h * FIFO_NUM
           v == Value(Written(b))
<1> HIDE DEF up, push1, n, l
<1>9. CASE up
  <2>1. reported'[b] * FIFO_NUM = r + k
    BY <1>2, <1>6, <1>9
  <2>2. r + k + l >= n /\ v >= IF push1 THEN l + 1 ELSE l
    BY <1>1, <1>3, <1>4, <1>5, <1>7, <1>9
  <2> HIDE DEF r, k, v, h
  <2>3. r + k + v >= IF push1 THEN n + 1 ELSE n
    BY <1>1, <1>7, <1>8, <2>2 DEF r, k, v
  <2>4. QED  BY <1>2, <2>1, <2>3 DEF v
<1>10. CASE ~up
  <2>1. reported'[b] * FIFO_NUM = r
    BY <1>2, <1>10
  <2>2. r + k + l >= n /\ v >= IF push1 THEN k + l + 1 ELSE k + l
    BY <1>1, <1>3, <1>4, <1>5, <1>7, <1>10
  <2> HIDE DEF r, k, v, h
  <2>3. r + v >= IF push1 THEN n + 1 ELSE n
    BY <1>1, <1>7, <1>8, <2>2 DEF r, k, v
  <2>4. QED  BY <1>2, <2>1, <2>3 DEF v
<1>11. QED  BY <1>9, <1>10

\* No packet escapes the reports, whichever cycle the upload falls in: as long as
\* the packets of a bucket fit its counter, the reported rounds and the counter
\* cover them (S1 bypass, counter writes).
THEOREM CountsKept == Spec => []NoCountLost
<1> DEFINE Inv == Bounded /\ NoCountLost
<1>1. Init => Inv
  <2> SUFFICES ASSUME Init PROVE Inv
    OBVIOUS
  <2>1. \A b \in Buckets : cnt_q[b] = Zero /\ emitted[b] = 0 /\ reported[b] = 0
    BY DEF Init
  <2>2. Value(Zero) = 0 /\ 0 * FIFO_NUM = 0
    BY LBAssumption DEF Value, Zero
  <2>3. ~wb.vld
    BY DEF Init
  <2>4. QED  BY <2>1, <2>2, <2>3 DEF Bounded, NoCountLost
<1>2. LBInv /\ Inv /\ [Next]_vars => Inv'
  <2> SUFFICES ASSUME TypeOK, Bounded, NoCountLost, [Next]_vars PROVE Inv'
    BY DEF LBInv
  <2>1. ASSUME NEW push \in BOOLEAN, NEW update \in BOOLEAN, NEW upload \in BOOLEAN,
               NEW rank \in RankSet, NEW border \in RankSet,
               Cycle(push, rank, update, border, upload)
        PROVE  Inv'
    <3>1. Emit /\ WriteCounters /\ Record(push)
      BY <2>1 DEF Cycle
    <3>2. QED  BY <3>1, BoundedOK, CountKept DEF NoCountLost, Capacity
  <2>2. CASE UNCHANGED vars
    BY <2>2 DEF Bounded, NoCountLost, vars
  <2>3. QED  BY <2>1, <2>2 DEF Next
<1>3. QED  BY <1>1, <1>2, LBInvariance, PTL DEF Spec

-----------------------------------------------------------------------------
(***************************************************************************)
(* A step of PUSH_LB is a step of RR_LB                                    *)
(***************************************************************************)
LEMMA PushStep ==
  ASSUME PushNext
  PROVE  \E i_push, i_update_borders, i_upload_cnt \in BOOLEAN, rank, i_borders \in RankSet :
           PushCycle(i_push, rank, i_update_borders, i_borders, i_upload_cnt)
BY PushAssumption DEF PushNext

\* All that is proved of RR_LB holds of the load balancer inside PUSH_LB.
THEOREM BalancerInside == PushSpec => Spec
<1>1. PushInit => Init
  BY DEF PushInit
<1>2. [PushNext]_push_vars => [Next]_vars
  <2>1. PushNext => Next
    BY PushStep DEF PushCycle, Next
  <2>2. QED  BY <2>1 DEF push_vars
<1>3. QED  BY <1>1, <1>2, PTL DEF PushSpec, Spec

-----------------------------------------------------------------------------
(***************************************************************************)
(* Queues and types                                                        *)
(***************************************************************************)
\* The length of a FIFO after a read.
LEMMA RestLength ==
  ASSUME NEW S, NEW q \in Seq(S)
  PROVE  /\ Rest(q) \in Seq(S)
         /\ Len(Rest(q)) = IF Len(q) > 0 THEN Len(q) - 1 ELSE 0
<1>1. CASE q = <<>>
  BY <1>1 DEF Rest
<1>2. CASE q # <<>>
  BY <1>2, EmptySeq, HeadTailProperties DEF Rest
<1>3. QED  BY <1>1, <1>2

\* What a cycle puts on the output of a FIFO.
LEMMA OutType ==
  ASSUME NEW q \in Seq(Lines), NEW wr \in BOOLEAN, NEW rd \in BOOLEAN, NEW d \in Lines
  PROVE  Out(q, wr, rd, d) \in Lines
<1>1. Offered(q, wr, d) \in Seq(Lines)
  BY DEF Offered
<1>2. None \in Lines
  BY PushAssumption, LBAssumption DEF Lines
<1>3. QED  BY <1>1, <1>2, HeadTailProperties DEF Out, First

\* The FIFOs, the arbiter and the output registers keep their types.
LEMMA LanesOK ==
  ASSUME PushTypeOK, NEW push \in BOOLEAN, NEW rank \in RankSet, NEW update \in BOOLEAN,
         NEW border \in RankSet, NEW upload \in BOOLEAN,
         PushCycle(push, rank, update, border, upload), TypeOK'
  PROVE  PushTypeOK'
<1> USE DEF PushTypeOK
<1>1. Payload /\ FifoArray /\ Arbiter /\ Output
  BY DEF PushCycle
<1>2. pushed + 1 \in Lines
  BY LBAssumption DEF TypeOK, Lines
<1>3. data' \in [s0a : Lines, s0b : Lines, s1 : Lines, s2 : Lines]
  BY <1>1, <1>2 DEF Payload
<1>4. ASSUME NEW f \in Fifos PROVE fifo_wr_en(f) \in BOOLEAN /\ fifo_rd_en(f) \in BOOLEAN
  BY DEF TypeOK, fifo_wr_en, fifo_rd_en, pop_grant
<1>5. ASSUME NEW f \in Fifos
      PROVE  /\ Contents(fifos[f], fifo_wr_en(f), fifo_rd_en(f), data.s2) \in Seq(Lines)
             /\ Out(fifos[f], fifo_wr_en(f), fifo_rd_en(f), data.s2) \in Lines
  <2>1. fifos[f] \in Seq(Lines) /\ data.s2 \in Lines
    OBVIOUS
  <2>2. Out(fifos[f], fifo_wr_en(f), fifo_rd_en(f), data.s2) \in Lines
    BY <1>4, <2>1, OutType
  <2> DEFINE offered == Offered(fifos[f], fifo_wr_en(f), data.s2)
  <2>3. offered \in Seq(Lines)
    BY <2>1 DEF Offered
  <2>4. Contents(fifos[f], fifo_wr_en(f), fifo_rd_en(f), data.s2)
          \in {Rest(offered), fifos[f], offered}
    BY DEF Contents
  <2> HIDE DEF offered
  <2>5. Rest(offered) \in Seq(Lines)
    BY <2>3, RestLength
  <2>6. QED  BY <2>1, <2>2, <2>3, <2>4, <2>5
<1>6. fifos' \in [Fifos -> Seq(Lines)] /\ buf_out' \in [Fifos -> Lines]
  BY <1>1, <1>5 DEF FifoArray
<1>7. pop_ptr' \in Fifos
  <2>1. FIFO_NUM \in Nat \ {0} /\ pop_ptr + 1 \in Nat
    BY LBAssumption DEF Fifos
  <2> DEFINE e == pop_ptr + 1
  <2>2. pop_ptr' = e % FIFO_NUM
    BY <1>1 DEF Arbiter
  <2>3. e \in Nat
    BY <2>1
  <2> HIDE DEF e
  <2>4. e % FIFO_NUM \in 0 .. FIFO_NUM - 1
    BY <2>1, <2>3, DivMod
  <2>5. QED  BY <2>2, <2>4 DEF Fifos
<1>8. pop_valid_d1' \in BOOLEAN /\ pop_grant_d1' \in SUBSET Fifos
  BY <1>1 DEF Arbiter, pop_valid, pop_grant
<1>9. selected_data \in Lines
  <2>1. None \in Lines
    BY PushAssumption, LBAssumption DEF Lines
  <2>2. QED  BY <2>1 DEF selected_data
<1>10. o_push' \in BOOLEAN /\ o_push_data' \in Lines
  BY <1>1, <1>9 DEF Output
<1>11. popped' \in [Fifos -> Seq(Lines)]
  <2>1. ASSUME NEW f \in Fifos PROVE Append(popped[f], selected_data) \in Seq(Lines)
    BY <1>9
  <2>2. QED  BY <1>1, <2>1 DEF Output
<1>12. QED  BY <1>3, <1>6, <1>7, <1>8, <1>10, <1>11

-----------------------------------------------------------------------------
(***************************************************************************)
(* The wait in a FIFO                                                      *)
(***************************************************************************)
\* How far the counters of the buckets are from FIFO f.
Credits(f) == [b \in Buckets |-> Turns(cnt_q[b].lo, f)]

\* Every cycle brings the arbiter one step nearer to FIFO f.  A packet that is sent
\* to f costs FIFO_NUM steps and moves its bucket's counter away from f, by
\* FIFO_NUM - 1 steps of which each must be made again before the next one.
WaitPaid ==
  \A f \in Fifos : FIFO_NUM * Backlog(f) + Turns(pop_ptr, f)
                     <= FIFO_NUM + Total(Credits(f), Buckets)

\* How many turns of the arbiter a FIFO is away.
LEMMA TurnsValue ==
  ASSUME NEW p \in Fifos, NEW f \in Fifos
  PROVE  /\ Turns(p, f) \in 0 .. FIFO_NUM - 1
         /\ Turns(p, f) = 0 <=> p = f
         /\ \A q \in Fifos : q = (IF p < FIFO_NUM - 1 THEN p + 1 ELSE 0) =>
              Turns(q, f) = IF p = f THEN FIFO_NUM - 1 ELSE Turns(p, f) - 1
BY LBAssumption DEF Turns, Fifos

\* The backlog is a number.
LEMMA BacklogType ==
  ASSUME PushTypeOK, NEW f \in Fifos
  PROVE  Backlog(f) \in Nat
<1>1. fifos[f] \in Seq(Lines)
  BY DEF PushTypeOK
<1>2. Len(fifos[f]) \in Nat
  BY <1>1
<1>3. Backlog(f) = Len(fifos[f]) + 1 \/ Backlog(f) = Len(fifos[f]) + 0
  BY DEF Backlog
<1>4. QED  BY <1>2, <1>3

\* There are B buckets.
LEMMA BucketsFinite == IsFiniteSet(Buckets) /\ Cardinality(Buckets) = B
<1>1. 0 \in Int /\ B - 1 \in Int /\ B > 0 /\ B \in Nat
  BY LBAssumption
<1>2. IsFiniteSet(0 .. B - 1) /\ Cardinality(0 .. B - 1) = IF 0 > B - 1 THEN 0 ELSE B - 1 - 0 + 1
  BY <1>1, FS_Interval
<1>3. QED  BY <1>1, <1>2 DEF Buckets

\* The credits of the buckets are numbers, and finitely many.
LEMMA CreditsType ==
  ASSUME TypeOK, NEW f \in Fifos
  PROVE  /\ \A b \in Buckets : Credits(f)[b] \in Nat /\ Credits(f)[b] <= FIFO_NUM - 1
         /\ Total(Credits(f), Buckets) \in Nat
         /\ Total(Credits(f), Buckets) <= B * (FIFO_NUM - 1)
<1>1. FIFO_NUM - 1 \in Nat
  BY LBAssumption
<1>2. ASSUME NEW b \in Buckets
      PROVE  Credits(f)[b] \in Nat /\ Credits(f)[b] <= FIFO_NUM - 1
  <2>1. cnt_q[b].lo \in Fifos
    BY DEF TypeOK, Counter
  <2>2. Turns(cnt_q[b].lo, f) \in 0 .. FIFO_NUM - 1
    BY <2>1, TurnsValue
  <2>3. QED  BY <1>1, <2>2 DEF Credits
<1>3. Total(Credits(f), Buckets) \in Nat
  BY <1>2, BucketsFinite, TotalType
<1>4. Total(Credits(f), Buckets) <= Cardinality(Buckets) * (FIFO_NUM - 1)
  BY <1>1, <1>2, BucketsFinite, TotalBound
<1>5. QED  BY <1>2, <1>3, <1>4, BucketsFinite

\* The credits after a cycle: only the counter of the bucket in S1 moves.
LEMMA CreditsStep ==
  ASSUME LBInv, TypeOK', NEW f \in Fifos, WriteCounters
  PROVE  /\ ~s1.vld => Total(Credits(f), Buckets)' = Total(Credits(f), Buckets)
         /\ s1.vld /\ cnt_q[s1.idx].lo = f =>
              Total(Credits(f), Buckets)' = Total(Credits(f), Buckets) + FIFO_NUM - 1
         /\ s1.vld /\ cnt_q[s1.idx].lo # f =>
              Total(Credits(f), Buckets)' = Total(Credits(f), Buckets) - 1
<1> DEFINE before == Credits(f)
           after  == Credits(f)'
<1>1. TypeOK /\ Counting /\ s1.idx \in Buckets /\ FIFO_NUM \in Nat \ {0}
  BY LBAssumption DEF LBInv, TypeOK
<1>2. \A b \in Buckets : cnt_q[b].lo \in Fifos /\ cnt_q'[b].lo \in Fifos
  BY <1>1 DEF TypeOK, Counter
<1>3. \A b \in Buckets : before[b] = Turns(cnt_q[b].lo, f) /\ after[b] = Turns(cnt_q'[b].lo, f)
  BY DEF Credits, Turns
<1>4. \A b \in Buckets : before[b] \in Nat /\ after[b] \in Nat
  <2>1. ASSUME NEW b \in Buckets PROVE before[b] \in Nat /\ after[b] \in Nat
    <3>1. Turns(cnt_q[b].lo, f) \in 0 .. FIFO_NUM - 1 /\ Turns(cnt_q'[b].lo, f) \in 0 .. FIFO_NUM - 1
      BY <1>2, TurnsValue
    <3>2. QED  BY <1>1, <1>3, <3>1
  <2>2. QED  BY <2>1
<1>5. ASSUME NEW b \in Buckets
      PROVE  cnt_q'[b].lo = IF s1.vld /\ b = s1.idx
               THEN IF cnt_q[b].lo < FIFO_NUM - 1 THEN cnt_q[b].lo + 1 ELSE 0
               ELSE cnt_q[b].lo
  BY <1>1, WrittenLow DEF WriteCounters
<1>6. /\ Total(Credits(f), Buckets) = Total(before, Buckets)
      /\ Total(Credits(f), Buckets)' = Total(after, Buckets)
  BY DEF Total, Units, Credits
<1>7. Total(before, Buckets) \in Nat /\ Total(after, Buckets) \in Nat
  BY <1>4, BucketsFinite, TotalType
<1> HIDE DEF before, after
<1>8. CASE ~s1.vld
  <2>1. \A b \in Buckets : after[b] = before[b]
    BY <1>3, <1>5, <1>8
  <2>2. QED  BY <1>6, <1>8, <2>1, TotalEqual
<1>9. CASE s1.vld
  <2>1. \A b \in Buckets \ {s1.idx} : after[b] = before[b]
    BY <1>3, <1>5
  <2>2. Total(after, Buckets) + before[s1.idx] = Total(before, Buckets) + after[s1.idx]
    BY <1>1, <1>4, <2>1, BucketsFinite, TotalChange
  <2>3. after[s1.idx] = IF cnt_q[s1.idx].lo = f THEN FIFO_NUM - 1 ELSE before[s1.idx] - 1
    BY <1>1, <1>2, <1>3, <1>5, <1>9, TurnsValue
  <2>4. before[s1.idx] = 0 <=> cnt_q[s1.idx].lo = f
    BY <1>1, <1>2, <1>3, TurnsValue
  <2>5. before[s1.idx] \in Nat
    BY <1>1, <1>4
  <2>6. QED  BY <1>1, <1>6, <1>7, <1>9, <2>2, <2>3, <2>4, <2>5
<1>10. QED  BY <1>8, <1>9

\* Multiples of FIFO_NUM, for the provers.
LEMMA Multiples ==
  ASSUME NEW m \in Nat, NEW n \in Nat, NEW k \in Nat
  PROVE  /\ k * (n + 1) = k * n + k /\ k * n \in Nat /\ k * 0 = 0
         /\ m <= n => k * m <= k * n
         /\ n > 0 => k * (n - 1) = k * n - k
OBVIOUS

\* A cycle keeps the account of every FIFO.
LEMMA WaitStep ==
  ASSUME LBInv, PushTypeOK, PushTypeOK', WaitPaid,
         NEW push \in BOOLEAN, NEW rank \in RankSet, NEW update \in BOOLEAN,
         NEW border \in RankSet, NEW upload \in BOOLEAN,
         PushCycle(push, rank, update, border, upload)
  PROVE  WaitPaid'
<1> SUFFICES ASSUME NEW f \in Fifos
             PROVE  FIFO_NUM * Backlog(f)' + Turns(pop_ptr', f)
                      <= FIFO_NUM + Total(Credits(f), Buckets)'
  BY DEF WaitPaid, Turns
<1>1. /\ TypeOK /\ TypeOK' /\ Counting
      /\ Emit /\ WriteCounters /\ FifoArray /\ Arbiter
  BY DEF LBInv, PushTypeOK, PushCycle, Cycle
<1> DEFINE F == FIFO_NUM
           n == Backlog(f)
           l == Len(fifos'[f])
           t == Turns(pop_ptr, f)
           t1 == Turns(pop_ptr', f)
           c == Total(Credits(f), Buckets)
           c1 == Total(Credits(f), Buckets)'
           new == s1.vld /\ cnt_q[s1.idx].lo = f
<1>2. F \in Nat \ {0} /\ pop_ptr \in Fifos /\ f \in 0 .. F - 1 /\ pop_ptr \in 0 .. F - 1
  BY LBAssumption DEF PushTypeOK, Fifos
<1>3. /\ n \in Nat
      /\ l \in Nat
      /\ pop_ptr = f => l = IF n > 0 THEN n - 1 ELSE 0
      /\ pop_ptr # f => l <= n
  <2> DEFINE q == fifos[f]
             offered == Offered(q, fifo_wr_en(f), data.s2)
  <2>1. q \in Seq(Lines) /\ data.s2 \in Lines
    BY <1>1 DEF PushTypeOK
  <2>2. Len(q) \in Nat
    BY <2>1
  <2>3. /\ offered \in Seq(Lines) /\ Len(offered) = n
        /\ Len(q) <= n
    <3>1. CASE fifo_wr_en(f)
      <4>1. n = Len(q) + 1 /\ offered = Append(q, data.s2)
        BY <3>1 DEF Offered, Backlog
      <4> HIDE DEF q, n, offered
      <4>2. QED  BY <2>1, <2>2, <4>1
    <3>2. CASE ~fifo_wr_en(f)
      <4>1. n = Len(q) + 0 /\ offered = q
        BY <3>2 DEF Offered, Backlog
      <4> HIDE DEF q, n, offered
      <4>2. QED  BY <2>1, <2>2, <4>1
    <3>3. QED  BY <3>1, <3>2
  <2>4. /\ pop_ptr = f => fifos'[f] = Rest(offered)
        /\ pop_ptr # f => fifos'[f] \in {q, offered}
    BY <1>1 DEF FifoArray, Contents, fifo_rd_en, pop_grant
  <2> HIDE DEF q, offered, n
  <2>5. n \in Nat
    BY <2>3
  <2>6. Rest(offered) \in Seq(Lines) /\ Len(Rest(offered)) = IF n > 0 THEN n - 1 ELSE 0
    BY <2>3, RestLength
  <2>7. QED  BY <2>2, <2>3, <2>4, <2>5, <2>6
<1>4. Backlog(f)' = l + IF new THEN 1 ELSE 0
  <2>1. s1.vld \in BOOLEAN /\ s1.idx \in Buckets /\ s2' \in [vld : BOOLEAN, id : Fifos]
    BY <1>1 DEF TypeOK
  <2>2. s2'.vld /\ s2'.id = f <=> new
    <3>1. CASE s1.vld
      <4>1. s2' = [vld |-> TRUE, id |-> CounterRead.lo]
        BY <1>1, <3>1, Zenon DEF Emit
      <4>2. CounterRead.lo = cnt_q[s1.idx].lo
        BY <1>1, ReadLow
      <4>3. QED  BY <3>1, <4>1, <4>2
    <3>2. CASE ~s1.vld
      <4>1. s2' = [s2 EXCEPT !.vld = FALSE]
        BY <1>1, <3>2 DEF Emit
      <4>2. s2 \in [vld : BOOLEAN, id : Fifos]
        BY <1>1 DEF TypeOK
      <4>3. QED  BY <3>2, <4>1, <4>2
    <3>3. QED  BY <3>1, <3>2
  <2>3. Backlog(f)' = l + IF s2'.vld /\ s2'.id = f THEN 1 ELSE 0
    BY DEF Backlog, fifo_wr_en
  <2>4. CASE new
    BY <2>2, <2>3, <2>4
  <2>5. CASE ~new
    BY <2>2, <2>3, <2>5
  <2>6. QED  BY <2>4, <2>5
<1>5. t \in 0 .. F - 1 /\ (t = 0 <=> pop_ptr = f)
      /\ t1 = IF pop_ptr = f THEN F - 1 ELSE t - 1
  <2>1. pop_ptr' = IF pop_ptr < F - 1 THEN pop_ptr + 1 ELSE 0
    <3>1. pop_ptr \in Nat /\ pop_ptr % F = pop_ptr
      BY <1>2
    <3>2. (pop_ptr + 1) % F = IF pop_ptr < F - 1 THEN pop_ptr + 1 ELSE 0
      BY <1>2, <3>1, ModIncrement
    <3>3. QED  BY <1>1, <3>2 DEF Arbiter
  <2>2. pop_ptr' \in Fifos
    BY DEF PushTypeOK
  <2>3. QED  BY <1>2, <2>1, <2>2, TurnsValue
<1>6. /\ c \in Nat
      /\ new => c1 = c + F - 1
      /\ ~new => c1 >= c - 1
      /\ ~s1.vld => c1 = c
  <2>1. c \in Nat
    BY <1>1, CreditsType
  <2>2. QED  BY <1>1, <1>2, <2>1, CreditsStep
<1>7. F * n + t <= F + c
  BY DEF WaitPaid
<1>8. c1 \in Nat
  <2>1. ASSUME NEW b \in Buckets PROVE Turns(cnt_q'[b].lo, f) \in Nat
    <3>1. cnt_q'[b].lo \in Fifos
      BY <1>1 DEF TypeOK, Counter
    <3>2. QED  BY <1>2, <3>1, TurnsValue
  <2> DEFINE g == [b \in Buckets |-> Turns(cnt_q'[b].lo, f)]
  <2>2. c1 = Total(g, Buckets)
    BY DEF Total, Units, Credits, Turns
  <2>3. \A b \in Buckets : g[b] \in Nat
    BY <2>1
  <2> HIDE DEF g
  <2>4. QED  BY <2>2, <2>3, BucketsFinite, TotalType
<1>9. /\ F * (l + 1) = F * l + F /\ F * l \in Nat /\ F * n \in Nat
      /\ l <= n => F * l <= F * n
      /\ n > 0 => F * (n - 1) = F * n - F
      /\ F * 0 = 0
  <2>1. F \in Nat /\ l \in Nat /\ n \in Nat
    BY <1>2, <1>3
  <2> HIDE DEF F, l, n
  <2>2. F * (l + 1) = F * l + F /\ F * l \in Nat /\ F * 0 = 0
    BY <2>1, Multiples
  <2>3. F * n \in Nat /\ (n > 0 => F * (n - 1) = F * n - F)
    BY <2>1, Multiples
  <2>4. l <= n => F * l <= F * n
    BY <2>1, Multiples
  <2>5. QED  BY <2>2, <2>3, <2>4
<1> DEFINE price == IF new THEN F ELSE 0
<1>10. \/ price = F /\ c1 = c + F - 1
       \/ price = 0 /\ c1 >= c - 1
  BY <1>6
<1>11. F * Backlog(f)' = F * l + price
  <2> HIDE DEF F, l, new
  <2>1. CASE new
    <3>1. Backlog(f)' = l + 1 /\ price = F
      BY <1>4, <2>1
    <3>2. QED  BY <1>9, <3>1
  <2>2. CASE ~new
    <3>1. Backlog(f)' = l + 0 /\ price = 0
      BY <1>4, <2>2
    <3>2. l + 0 = l /\ F * l + 0 = F * l
      BY <1>3, <1>9
    <3>3. QED  BY <3>1, <3>2
  <2>3. QED  BY <2>1, <2>2
<1> DEFINE fl == F * l
           fn == F * n
<1>12. /\ pop_ptr = f /\ n > 0 => fl = fn - F
       /\ pop_ptr = f /\ n = 0 => fl = 0
       /\ pop_ptr # f => fl <= fn
  <2> HIDE DEF F, l, n
  <2>1. QED  BY <1>3, <1>9
<1>13. fl \in Nat /\ fn \in Nat /\ F \in Nat \ {0} /\ c \in Nat /\ c1 \in Nat
       /\ price \in {0, F} /\ n \in Nat /\ fn + t <= F + c
  BY <1>2, <1>3, <1>6, <1>7, <1>8, <1>9
<1> HIDE DEF F, n, l, t, t1, c, c1, new, price, fl, fn
<1>14. fl + price + t1 <= F + c1
  <2>1. CASE pop_ptr = f /\ n > 0
    <3>1. t = 0 /\ t1 = F - 1 /\ fl = fn - F
      BY <1>5, <1>12, <2>1
    <3>2. QED  BY <1>10, <1>13, <3>1
  <2>2. CASE pop_ptr = f /\ n = 0
    <3>1. t1 = F - 1 /\ fl = 0
      BY <1>5, <1>12, <2>2
    <3>2. QED  BY <1>10, <1>13, <3>1
  <2>3. CASE pop_ptr # f
    <3>1. t \in Nat /\ t1 = t - 1 /\ fl <= fn
      BY <1>5, <1>12, <1>13, <2>3
    <3>2. QED  BY <1>10, <1>13, <3>1
  <2>4. QED  BY <1>13, <2>1, <2>2, <2>3
<1>15. QED  BY <1>11, <1>14 DEF F, t1, c1, fl

-----------------------------------------------------------------------------
(***************************************************************************)
(* Theorems                                                                *)
(***************************************************************************)
WaitInv == LBInv /\ PushTypeOK /\ WaitPaid

\* Reset establishes the invariant.
LEMMA PushInitOK ==
  ASSUME PushInit, LBInv
  PROVE  PushTypeOK /\ WaitPaid
<1>1. TypeOK /\ FIFO_NUM \in Nat \ {0} /\ MaxPushes \in Nat
  BY LBAssumption DEF LBInv
<1>2. 0 \in Lines /\ None \in Lines /\ 0 \in Fifos
  BY <1>1, PushAssumption DEF Lines, Fifos
<1>3. PushTypeOK
  <2>1. <<>> \in Seq(Lines)
    OBVIOUS
  <2>2. data \in [s0a : Lines, s0b : Lines, s1 : Lines, s2 : Lines]
    BY <1>2 DEF PushInit
  <2>3. fifos \in [Fifos -> Seq(Lines)] /\ popped \in [Fifos -> Seq(Lines)]
    BY <2>1 DEF PushInit
  <2>4. pop_ptr \in Fifos /\ buf_out \in [Fifos -> Lines] /\ o_push_data \in Lines
    BY <1>2 DEF PushInit
  <2>5. pop_valid_d1 \in BOOLEAN /\ pop_grant_d1 \in SUBSET Fifos /\ o_push \in BOOLEAN
    BY DEF PushInit
  <2>6. QED  BY <1>1, <2>2, <2>3, <2>4, <2>5 DEF PushTypeOK
<1>4. ASSUME NEW f \in Fifos
      PROVE  FIFO_NUM * Backlog(f) + Turns(pop_ptr, f)
               <= FIFO_NUM + Total(Credits(f), Buckets)
  <2>1. Backlog(f) = 0
    BY DEF PushInit, Init, Backlog, fifo_wr_en
  <2>2. Turns(pop_ptr, f) \in 0 .. FIFO_NUM - 1
    BY <1>2, TurnsValue DEF PushInit
  <2>3. FIFO_NUM * 0 = 0
    BY <1>1
  <2> DEFINE c == Total(Credits(f), Buckets)
             t == Turns(pop_ptr, f)
  <2>4. c \in Nat
    BY <1>1, CreditsType
  <2> HIDE DEF c, t
  <2>5. 0 + t <= FIFO_NUM + c
    BY <1>1, <2>2, <2>4 DEF t
  <2>6. QED  BY <2>1, <2>3, <2>5 DEF c, t
<1>5. QED  BY <1>3, <1>4 DEF WaitPaid

\* Every cycle keeps the invariant.
LEMMA WaitInvStep ==
  ASSUME LBInv, LBInv', PushTypeOK, WaitPaid, [PushNext]_push_vars
  PROVE  (PushTypeOK /\ WaitPaid)'
<1>1. CASE PushNext
  <2>1. PICK push, update, upload \in BOOLEAN, rank, border \in RankSet :
               PushCycle(push, rank, update, border, upload)
    BY <1>1, PushStep
  <2>2. PushTypeOK'
    BY <2>1, LanesOK DEF LBInv
  <2>3. QED  BY <2>1, <2>2, WaitStep
<1>2. CASE UNCHANGED push_vars
  <2>1. UNCHANGED vars /\ UNCHANGED lanes
    BY <1>2 DEF push_vars
  <2>2. TypeOK'
    BY DEF LBInv
  <2>3. PushTypeOK'
    BY <2>1, <2>2 DEF PushTypeOK, lanes
  <2>4. WaitPaid'
    <3>1. UNCHANGED <<fifos, s2, pop_ptr, cnt_q>>
      BY <2>1 DEF vars, lanes
    <3>2. \A f : UNCHANGED <<Backlog(f), Turns(pop_ptr, f), Total(Credits(f), Buckets)>>
      BY <3>1 DEF Backlog, fifo_wr_en, Credits, Total, Units, Turns
    <3>3. QED  BY <3>2 DEF WaitPaid
  <2>5. QED  BY <2>3, <2>4
<1>3. QED  BY <1>1, <1>2

\* The account of every FIFO is kept in every state.
THEOREM PushInvariance == PushSpec => []WaitInv
<1>1. LBInv /\ PushInit => PushTypeOK /\ WaitPaid
  BY PushInitOK
<1>2. LBInv /\ LBInv' /\ (PushTypeOK /\ WaitPaid) /\ [PushNext]_push_vars
        => (PushTypeOK /\ WaitPaid)'
  BY WaitInvStep
<1>3. PushSpec => []LBInv
  BY BalancerInside, LBInvariance, PTL
<1>4. QED  BY <1>1, <1>2, <1>3, PTL DEF PushSpec, WaitInv

\* Registers, FIFOs and the read pointer keep their types.
THEOREM PushTypes == PushSpec => []PushTypeOK
<1>1. WaitInv => PushTypeOK
  BY DEF WaitInv
<1>2. QED  BY <1>1, PushInvariance, PTL

\* Whatever the buckets of the packets, the last packet of a FIFO is read within
\* B * (FIFO_NUM - 1) cycles.
THEOREM WaitsBounded == PushSpec => []WaitBounded
<1>1. WaitInv => WaitBounded
  <2> SUFFICES ASSUME WaitInv, NEW f \in Fifos, Backlog(f) > 0
               PROVE  FIFO_NUM * (Backlog(f) - 1) + Turns(pop_ptr, f) <= B * (FIFO_NUM - 1)
    BY DEF WaitBounded
  <2> DEFINE n == Backlog(f)
             t == Turns(pop_ptr, f)
             c == Total(Credits(f), Buckets)
             most == B * (FIFO_NUM - 1)
             fn == FIFO_NUM * n
  <2>1. TypeOK /\ PushTypeOK /\ pop_ptr \in Fifos
    BY DEF WaitInv, PushTypeOK
  <2>2. FIFO_NUM \in Nat \ {0} /\ B \in Nat \ {0} /\ most \in Nat
    BY LBAssumption
  <2>3. n \in Nat
    BY <2>1, BacklogType
  <2>4. t \in Nat
    BY <2>1, <2>2, TurnsValue
  <2>5. c \in Nat /\ c <= most
    BY <2>1, CreditsType
  <2>6. fn + t <= FIFO_NUM + c
    BY DEF WaitInv, WaitPaid
  <2>7. FIFO_NUM * (n - 1) = fn - FIFO_NUM /\ fn \in Nat
    <3> HIDE DEF n
    <3>1. QED  BY <2>2, <2>3, Multiples
  <2> HIDE DEF n, t, c, most, fn
  <2>8. FIFO_NUM * (n - 1) + t <= most
    BY <2>2, <2>4, <2>5, <2>6, <2>7
  <2>9. QED  BY <2>8 DEF n, t, most
<1>2. QED  BY <1>1, PushInvariance, PTL

\* FIFOs with FIFO_NUM * FIFO_SIZE >= B * (FIFO_NUM - 1) never drop a packet,
\* although nothing holds back the pusher.
THEOREM NeverDrops == PushSpec => []NoDrop
<1>1. WaitInv => NoDrop
  <2> SUFFICES ASSUME WaitInv, Deep, NEW f \in Fifos,
                      Drops(fifos[f], fifo_wr_en(f), fifo_rd_en(f))
               PROVE  FALSE
    BY DEF NoDrop
  <2> DEFINE l == Len(fifos[f])
             t == Turns(pop_ptr, f)
             c == Total(Credits(f), Buckets)
             most == B * (FIFO_NUM - 1)
             fl == FIFO_NUM * l
             room == FIFO_NUM * FIFO_SIZE
  <2>1. TypeOK /\ PushTypeOK /\ pop_ptr \in Fifos /\ pop_ptr # f
    BY DEF WaitInv, PushTypeOK, Drops, fifo_rd_en, pop_grant
  <2>2. FIFO_NUM \in Nat \ {0} /\ B \in Nat \ {0} /\ FIFO_SIZE \in Nat \ {0} /\ most \in Nat
    BY LBAssumption, QueueAssumption
  <2>3. l \in Nat
    BY <2>1 DEF PushTypeOK
  <2>4. l >= FIFO_SIZE
    BY DEF Drops
  <2>5. Backlog(f) = l + 1
    BY DEF Drops, Backlog
  <2>6. t \in Nat /\ t # 0
    BY <2>1, <2>2, TurnsValue
  <2>7. c \in Nat /\ c <= most
    BY <2>1, CreditsType
  <2>8. FIFO_NUM * (l + 1) + t <= FIFO_NUM + c
    BY <2>5 DEF WaitInv, WaitPaid
  <2>9. FIFO_NUM * (l + 1) = fl + FIFO_NUM /\ fl \in Nat /\ room <= fl /\ room \in Nat
    <3> HIDE DEF l
    <3>1. QED  BY <2>2, <2>3, <2>4, Multiples
  <2>10. room >= most
    BY DEF Deep
  <2> HIDE DEF l, t, c, most, fl, room
  <2>11. QED  BY <2>2, <2>6, <2>7, <2>8, <2>9, <2>10
<1>2. QED  BY <1>1, PushInvariance, PTL

-----------------------------------------------------------------------------
(***************************************************************************)
(* The order of the packets                                                *)
(***************************************************************************)
At(stage) == IF stage.vld THEN 1 ELSE 0

\* The packets that left S0a, S0b, S1 and S2: those before them are the first ones.
Past0a == pushed - At(s0a)
Past0b == Past0a - At(s0b)
Past1  == Past0b - At(s1)
Past2  == Past1 - At(s2)

\* The data beside a valid bit is the last packet not yet behind the stage.
Numbered ==
  /\ Past0a \in Nat /\ Past0b \in Nat /\ Past1 \in Nat /\ Past2 \in Nat
  /\ s0a.vld => data.s0a = pushed
  /\ s0b.vld => data.s0b = Past0a
  /\ s1.vld => data.s1 = Past0b
  /\ s2.vld => data.s2 = Past1

\* The output reads one FIFO at a time.
OneGrant == \A f, g \in pop_grant_d1 : f = g

\* Rising numbers, none above n.
Rising(q, n) ==
  /\ \A i \in 1 .. Len(q) : q[i] \in 1 .. n
  /\ \A i, j \in 1 .. Len(q) : i < j => q[i] < q[j]

\* What went through a FIFO, in rising order.
Sorted == \A f \in Fifos : Rising(Through(f), Past2)

\* With deep FIFOs every packet past S2 went through one FIFO.
Covered ==
  Deep =>
    /\ 1 .. Past2 = UNION {Range(Through(f)) : f \in Fifos}
    /\ \A f, g \in Fifos : f # g => Range(Through(f)) \cap Range(Through(g)) = {}

OrderInv == Numbered /\ OneGrant /\ Sorted /\ Covered

\* Every cycle moves the packets one stage on.
LEMMA NumberedStep ==
  ASSUME TypeOK, TypeOK', Numbered, NEW push \in BOOLEAN, NEW rank \in RankSet,
         Compare(push, rank), Encode, Fetch, Emit, Record(push), Payload
  PROVE  /\ Numbered'
         /\ Past2' = Past1 /\ Past2 \in Nat /\ Past1 \in Nat
         /\ s2.vld => data.s2 = Past1 /\ Past1 = Past2 + 1
         /\ ~s2.vld => Past1 = Past2
<1>1. /\ pushed \in Nat
      /\ s0a.vld \in BOOLEAN /\ s0b.vld \in BOOLEAN /\ s1.vld \in BOOLEAN /\ s2.vld \in BOOLEAN
  BY LBAssumption DEF TypeOK
<1>2. /\ pushed' = pushed + IF push THEN 1 ELSE 0
      /\ s0a'.vld = push /\ s0b'.vld = s0a.vld /\ s1'.vld = s0b.vld
  BY DEF Record, Compare, Encode, Fetch
<1>3. s2'.vld = s1.vld
  <2>1. CASE s1.vld
    <3>1. s2' = [vld |-> TRUE, id |-> CounterRead.lo]
      BY <2>1, Zenon DEF Emit
    <3>2. QED  BY <2>1, <3>1
  <2>2. CASE ~s1.vld
    <3>1. s2' = [s2 EXCEPT !.vld = FALSE] /\ s2 \in [vld : BOOLEAN, id : Fifos]
      BY <2>2 DEF Emit, TypeOK
    <3>2. QED  BY <1>1, <2>2, <3>1
  <2>3. QED  BY <2>1, <2>2
<1>4. /\ At(s0a)' = IF push THEN 1 ELSE 0
      /\ At(s0b)' = At(s0a) /\ At(s1)' = At(s0b) /\ At(s2)' = At(s1)
      /\ At(s0a) \in {0, 1} /\ At(s0b) \in {0, 1} /\ At(s1) \in {0, 1} /\ At(s2) \in {0, 1}
  BY <1>1, <1>2, <1>3 DEF At
<1>5. /\ Past0a' = pushed' - At(s0a)' /\ Past0b' = Past0a' - At(s0b)'
      /\ Past1' = Past0b' - At(s1)' /\ Past2' = Past1' - At(s2)'
  BY DEF Past0a, Past0b, Past1, Past2
<1>6. /\ Past0a = pushed - At(s0a) /\ Past0b = Past0a - At(s0b)
      /\ Past1 = Past0b - At(s1) /\ Past2 = Past1 - At(s2)
      /\ Past0a \in Nat /\ Past0b \in Nat /\ Past1 \in Nat /\ Past2 \in Nat
  BY DEF Past0a, Past0b, Past1, Past2, Numbered
<1>7. Past0a' = pushed /\ Past0b' = Past0a /\ Past1' = Past0b /\ Past2' = Past1
  BY <1>1, <1>2, <1>4, <1>5, <1>6
<1>8. /\ data'.s0a = pushed + 1 /\ data'.s0b = data.s0a
      /\ data'.s1 = data.s0b /\ data'.s2 = data.s1
  BY DEF Payload
<1>9. Numbered'
  BY <1>1, <1>2, <1>3, <1>6, <1>7, <1>8 DEF Numbered
<1>10. /\ s2.vld => data.s2 = Past1 /\ Past1 = Past2 + 1
       /\ ~s2.vld => Past1 = Past2
  BY <1>1, <1>6 DEF Numbered, At
<1>11. QED  BY <1>6, <1>7, <1>9, <1>10

\* A read takes the first of what a FIFO is offered and leaves the rest.
LEMMA ReadSplits ==
  ASSUME NEW q \in Seq(Lines)
  PROVE  /\ q # <<>> => /\ First(q) \in Lines /\ Rest(q) \in Seq(Lines)
                        /\ <<First(q)>> \o Rest(q) = q
         /\ q = <<>> => Rest(q) = q
<1>1. CASE q # <<>>
  <2>1. /\ Head(q) \in Lines /\ Tail(q) \in Seq(Lines) /\ Len(Tail(q)) = Len(q) - 1
        /\ \A i \in 1 .. Len(Tail(q)) : Tail(q)[i] = q[i + 1]
        /\ Len(q) \in Nat \ {0}
    BY <1>1, HeadTailProperties, EmptySeq
  <2>2. First(q) = Head(q) /\ Rest(q) = Tail(q) /\ Head(q) = q[1]
    BY <1>1 DEF First, Rest
  <2> DEFINE one == <<Head(q)>>
             both == one \o Tail(q)
  <2>3. one \in Seq(Lines) /\ Len(one) = 1 /\ one[1] = q[1]
    BY <2>1, <2>2
  <2> HIDE DEF one
  <2>4. /\ both \in Seq(Lines) /\ Len(both) = Len(one) + Len(Tail(q))
        /\ \A i \in 1 .. Len(one) + Len(Tail(q)) :
             both[i] = IF i <= Len(one) THEN one[i] ELSE Tail(q)[i - Len(one)]
    BY <2>1, <2>3, ConcatProperties
  <2> HIDE DEF both
  <2>5. Len(both) = Len(q)
    BY <2>1, <2>3, <2>4
  <2>6. ASSUME NEW i \in 1 .. Len(both) PROVE both[i] = q[i]
    <3>1. CASE i = 1
      BY <2>1, <2>3, <2>4, <3>1
    <3>2. CASE i # 1
      <4>1. both[i] = Tail(q)[i - 1] /\ i - 1 \in 1 .. Len(Tail(q)) /\ (i - 1) + 1 = i
        BY <2>1, <2>3, <2>4, <3>2
      <4>2. QED  BY <2>1, <4>1
    <3>3. QED  BY <3>1, <3>2
  <2>7. both = q
    BY <2>4, <2>5, <2>6, SeqEqual
  <2>8. QED  BY <1>1, <2>1, <2>2, <2>7 DEF both, one
<1>2. CASE q = <<>>
  BY <1>2 DEF Rest
<1>3. QED  BY <1>1, <1>2

\* Types of what went through a FIFO.
LEMMA ThroughType ==
  ASSUME PushTypeOK, NEW f \in Fifos
  PROVE  /\ popped[f] \in Seq(Lines) /\ BeingRead(f) \in Seq(Lines) /\ fifos[f] \in Seq(Lines)
         /\ Through(f) \in Seq(Lines)
         /\ Through(f) = popped[f] \o (BeingRead(f) \o fifos[f])
         /\ popped[f] \o BeingRead(f) \in Seq(Lines)
<1>1. popped[f] \in Seq(Lines) /\ fifos[f] \in Seq(Lines) /\ buf_out[f] \in Lines
  BY DEF PushTypeOK
<1>2. BeingRead(f) \in Seq(Lines)
  BY <1>1 DEF BeingRead
<1>3. popped[f] \o BeingRead(f) \in Seq(Lines)
  BY <1>1, <1>2, ConcatProperties
<1>4. Through(f) = (popped[f] \o BeingRead(f)) \o fifos[f]
  BY DEF Through
<1>5. Through(f) \in Seq(Lines)
  BY <1>1, <1>3, <1>4, ConcatProperties
<1>6. (popped[f] \o BeingRead(f)) \o fifos[f] = popped[f] \o (BeingRead(f) \o fifos[f])
  <2> DEFINE a == popped[f]
             b == BeingRead(f)
             c == fifos[f]
  <2>1. a \in Seq(Lines) /\ b \in Seq(Lines) /\ c \in Seq(Lines)
    BY <1>1, <1>2
  <2> HIDE DEF a, b, c
  <2>2. (a \o b) \o c = a \o (b \o c)
    BY <2>1, ConcatAssociative
  <2>3. QED  BY <2>2 DEF a, b, c
<1>7. QED  BY <1>1, <1>2, <1>3, <1>4, <1>5, <1>6

\* What goes through a FIFO grows by the packet written, at its end, unless the
\* FIFO drops it; nothing else changes, whichever stage of a read it is in.
LEMMA ThroughStep ==
  ASSUME PushTypeOK, PushTypeOK', OneGrant, FifoArray, Arbiter, Output, NEW f \in Fifos
  PROVE  Through(f)' =
           IF fifo_wr_en(f) /\ ~Drops(fifos[f], fifo_wr_en(f), fifo_rd_en(f))
             THEN Append(Through(f), data.s2) ELSE Through(f)
<1> DEFINE q == fifos[f]
           wr == fifo_wr_en(f)
           offered == Offered(q, wr, data.s2)
           drops == Drops(q, wr, fifo_rd_en(f))
           added == IF wr /\ ~drops THEN Append(q, data.s2) ELSE q
<1>1. q \in Seq(Lines) /\ data.s2 \in Lines /\ offered \in Seq(Lines)
  BY DEF PushTypeOK, Offered
<1>2. popped'[f] = popped[f] \o BeingRead(f)
  <2>1. popped[f] \in Seq(Lines) /\ buf_out[f] \in Lines
    BY DEF PushTypeOK
  <2>2. CASE pop_valid_d1 /\ f \in pop_grant_d1
    <3>1. selected_data = buf_out[f]
      BY <2>2 DEF selected_data, OneGrant
    <3>2. popped'[f] = Append(popped[f], buf_out[f])
      BY <2>2, <3>1 DEF Output
    <3>3. BeingRead(f) = <<buf_out[f]>>
      BY <2>2 DEF BeingRead
    <3>4. Append(popped[f], buf_out[f]) = popped[f] \o <<buf_out[f]>>
      BY <2>1, AppendIsConcat
    <3>5. QED  BY <3>2, <3>3, <3>4
  <2>3. CASE ~(pop_valid_d1 /\ f \in pop_grant_d1)
    <3>1. popped'[f] = popped[f] /\ BeingRead(f) = <<>>
      BY <2>3 DEF Output, BeingRead
    <3>2. QED  BY <2>1, <3>1, ConcatEmptySeq
  <2>4. QED  BY <2>2, <2>3
<1>3. /\ fifos'[f] = Contents(q, wr, fifo_rd_en(f), data.s2)
      /\ buf_out'[f] = Out(q, wr, fifo_rd_en(f), data.s2)
      /\ pop_valid_d1' = pop_valid /\ pop_grant_d1' = {pop_ptr}
  BY DEF FifoArray, Arbiter, pop_grant
<1>4. BeingRead(f)' = IF pop_valid /\ f = pop_ptr THEN <<buf_out'[f]>> ELSE <<>>
  BY <1>3 DEF BeingRead
<1>5. BeingRead(f)' \o fifos'[f] = added
  <2>1. CASE f = pop_ptr
    <3>1. fifo_rd_en(f) /\ ~drops
      BY <2>1 DEF fifo_rd_en, pop_grant, Drops
    <3>2. fifos'[f] = Rest(offered) /\ buf_out'[f] = First(offered)
      BY <1>3, <3>1 DEF Contents, Out
    <3>3. offered = added
      BY <3>1 DEF Offered
    <3>4. pop_valid <=> offered # <<>>
      <4>1. Append(q, data.s2) # <<>>
        BY <1>1
      <4>2. pop_valid <=> q # <<>> \/ wr
        BY <2>1 DEF pop_valid
      <4>3. offered = IF wr THEN Append(q, data.s2) ELSE q
        BY DEF Offered
      <4> HIDE DEF q, wr, offered
      <4>4. QED  BY <4>1, <4>2, <4>3
    <3> HIDE DEF offered, added
    <3>5. CASE pop_valid
      <4>1. BeingRead(f)' = <<First(offered)>>
        BY <1>4, <2>1, <3>2, <3>5
      <4>2. QED  BY <1>1, <3>2, <3>3, <3>4, <3>5, <4>1, ReadSplits
    <3>6. CASE ~pop_valid
      <4>1. BeingRead(f)' = <<>> /\ fifos'[f] = offered
        BY <1>1, <1>4, <3>2, <3>4, <3>6, ReadSplits
      <4>2. QED  BY <1>1, <3>3, <4>1, ConcatEmptySeq
    <3>7. QED  BY <3>5, <3>6
  <2>2. CASE f # pop_ptr
    <3>1. ~fifo_rd_en(f)
      BY <2>2 DEF fifo_rd_en, pop_grant
    <3>2. fifos'[f] = added
      BY <1>3, <3>1 DEF Contents, Offered, Drops
    <3>3. BeingRead(f)' = <<>>
      BY <1>4, <2>2
    <3>4. added \in Seq(Lines)
      BY <1>1
    <3> HIDE DEF added
    <3>5. QED  BY <3>2, <3>3, <3>4, ConcatEmptySeq
  <2>3. QED  BY <2>1, <2>2
<1> DEFINE done == popped[f] \o BeingRead(f)
<1>6. /\ Through(f)' = popped'[f] \o (BeingRead(f)' \o fifos'[f])
      /\ done \in Seq(Lines) /\ Through(f) = done \o q
  <2>1. Through(f)' = (popped'[f] \o BeingRead(f)') \o fifos'[f]
    BY DEF Through
  <2>2. popped'[f] \in Seq(Lines) /\ fifos'[f] \in Seq(Lines) /\ buf_out'[f] \in Lines
    BY DEF PushTypeOK
  <2>3. BeingRead(f)' \in Seq(Lines)
    BY <1>4, <2>2
  <2>4. (popped'[f] \o BeingRead(f)') \o fifos'[f] = popped'[f] \o (BeingRead(f)' \o fifos'[f])
    <3> DEFINE a == popped'[f]
               b == BeingRead(f)'
               c == fifos'[f]
    <3>1. a \in Seq(Lines) /\ b \in Seq(Lines) /\ c \in Seq(Lines)
      BY <2>2, <2>3
    <3> HIDE DEF a, b, c
    <3>2. (a \o b) \o c = a \o (b \o c)
      BY <3>1, ConcatAssociative
    <3>3. QED  BY <3>2 DEF a, b, c
  <2>5. QED  BY <2>1, <2>4, ThroughType DEF Through
<1>7. Through(f)' = done \o added
  BY <1>2, <1>5, <1>6
<1>8. CASE wr /\ ~drops
  <2>1. added = Append(q, data.s2)
    BY <1>8
  <2> HIDE DEF q, wr, done, added
  <2>2. Append(q, data.s2) = q \o <<data.s2>> /\ <<data.s2>> \in Seq(Lines)
    BY <1>1, AppendIsConcat
  <2>3. done \o (q \o <<data.s2>>) = (done \o q) \o <<data.s2>>
    BY <1>1, <1>6, <2>2, ConcatAssociative
  <2>4. done \o q \in Seq(Lines)
    BY <1>1, <1>6, ConcatProperties
  <2>5. (done \o q) \o <<data.s2>> = Append(done \o q, data.s2)
    BY <1>1, <2>4, AppendIsConcat
  <2>6. Through(f)' = Append(Through(f), data.s2)
    BY <1>6, <1>7, <2>1, <2>2, <2>3, <2>5
  <2>7. QED  BY <1>8, <2>6 DEF q, wr
<1>9. CASE ~(wr /\ ~drops)
  <2>1. added = q
    BY <1>9
  <2>2. Through(f)' = Through(f)
    BY <1>6, <1>7, <2>1
  <2>3. QED  BY <1>9, <2>2
<1>10. QED  BY <1>8, <1>9

\* A sequence that rises stays so with the next number at its end.
LEMMA RisingAppend ==
  ASSUME NEW q \in Seq(Lines), NEW n \in Nat, Rising(q, n), n + 1 \in Lines
  PROVE  /\ Rising(q, n + 1)
         /\ Rising(Append(q, n + 1), n + 1)
         /\ Range(Append(q, n + 1)) = Range(q) \cup {n + 1}
<1> DEFINE r == Append(q, n + 1)
           l == Len(q)
<1>1. /\ r \in Seq(Lines) /\ Len(r) = l + 1 /\ l \in Nat
      /\ \A i \in 1 .. l : r[i] = q[i]
      /\ r[l + 1] = n + 1
      /\ DOMAIN q = 1 .. l /\ DOMAIN r = 1 .. l + 1
  BY AppendProperties, LenProperties
<1>2. /\ \A i \in 1 .. l : q[i] \in 1 .. n
      /\ \A i, j \in 1 .. l : i < j => q[i] < q[j]
  BY DEF Rising
<1>3. Rising(q, n + 1)
  BY <1>2 DEF Rising
<1> HIDE DEF r, l
<1>4. ASSUME NEW i \in 1 .. l + 1
      PROVE  r[i] = (IF i = l + 1 THEN n + 1 ELSE q[i]) /\ (i # l + 1 => i \in 1 .. l)
  BY <1>1
<1>5. ASSUME NEW i \in 1 .. l + 1 PROVE r[i] \in 1 .. n + 1
  <2>1. CASE i = l + 1
    BY <1>4, <2>1
  <2>2. CASE i # l + 1
    <3>1. i \in 1 .. l /\ r[i] = q[i]
      BY <1>4, <2>2
    <3>2. q[i] \in 1 .. n
      BY <1>2, <3>1
    <3>3. QED  BY <3>1, <3>2
  <2>3. QED  BY <2>1, <2>2
<1>6. ASSUME NEW i \in 1 .. l + 1, NEW j \in 1 .. l + 1, i < j PROVE r[i] < r[j]
  <2>1. i \in 1 .. l /\ r[i] = q[i] /\ q[i] \in 1 .. n
    <3>1. i # l + 1
      BY <1>1, <1>6
    <3>2. i \in 1 .. l /\ r[i] = q[i]
      BY <1>4, <3>1
    <3>3. QED  BY <1>2, <3>2
  <2>2. CASE j = l + 1
    BY <1>4, <2>1, <2>2
  <2>3. CASE j # l + 1
    <3>1. j \in 1 .. l /\ r[j] = q[j]
      BY <1>4, <2>3
    <3>2. q[i] < q[j]
      BY <1>2, <1>6, <2>1, <3>1
    <3>3. QED  BY <2>1, <3>1, <3>2
  <2>4. QED  BY <2>2, <2>3
<1>7. Rising(r, n + 1)
  <2>1. Len(r) = l + 1
    BY <1>1
  <2>2. QED  BY <1>5, <1>6, <2>1 DEF Rising
<1>8. Range(r) = Range(q) \cup {n + 1}
  <2>1. Range(r) = {r[i] : i \in 1 .. l + 1} /\ Range(q) = {q[i] : i \in 1 .. l}
    BY <1>1 DEF Range
  <2>2. ASSUME NEW x \in Range(r) PROVE x \in Range(q) \cup {n + 1}
    BY <2>1, <1>4
  <2>3. ASSUME NEW x \in Range(q) PROVE x \in Range(r)
    <3>1. PICK i \in 1 .. l : x = q[i]
      BY <2>1
    <3>2. i \in 1 .. l + 1 /\ r[i] = x
      BY <1>1, <3>1
    <3>3. QED  BY <2>1, <3>2
  <2>4. n + 1 \in Range(r)
    <3>1. l + 1 \in 1 .. l + 1
      BY <1>1
    <3>2. QED  BY <1>1, <2>1, <3>1
  <2>5. QED  BY <2>2, <2>3, <2>4
<1>9. QED  BY <1>3, <1>7, <1>8 DEF r

\* A rising sequence has no number beyond its bound.
LEMMA RisingRange ==
  ASSUME NEW q \in Seq(Lines), NEW n \in Nat, Rising(q, n)
  PROVE  Range(q) \subseteq 1 .. n
<1>1. DOMAIN q = 1 .. Len(q)
  BY LenProperties
<1>2. QED  BY <1>1 DEF Range, Rising

\* After reset nothing is on its way.
LEMMA OrderInit ==
  ASSUME PushInit, PushTypeOK
  PROVE  OrderInv
<1>1. /\ pushed = 0 /\ ~s0a.vld /\ ~s0b.vld /\ ~s1.vld /\ ~s2.vld
      /\ pop_grant_d1 = {} /\ ~pop_valid_d1
  BY DEF PushInit, Init
<1>2. Past0a = 0 /\ Past0b = 0 /\ Past1 = 0 /\ Past2 = 0
  <2>1. At(s0a) = 0 /\ At(s0b) = 0 /\ At(s1) = 0 /\ At(s2) = 0
    BY <1>1 DEF At
  <2>2. QED  BY <1>1, <2>1 DEF Past0a, Past0b, Past1, Past2
<1>3. ASSUME NEW f \in Fifos PROVE Through(f) = <<>>
  <2>1. popped[f] = <<>> /\ fifos[f] = <<>> /\ BeingRead(f) = <<>>
    BY <1>1 DEF PushInit, BeingRead
  <2>2. QED  BY <2>1, ConcatEmptySeq, EmptySeq DEF Through
<1>4. Numbered /\ OneGrant
  BY <1>1, <1>2 DEF Numbered, OneGrant
<1>5. Sorted
  <2>1. Rising(<<>>, 0)
    BY DEF Rising
  <2>2. QED  BY <1>2, <1>3, <2>1 DEF Sorted
<1>6. Covered
  <2>1. ASSUME NEW f \in Fifos PROVE Range(Through(f)) = {}
    BY <1>3 DEF Range
  <2>2. 1 .. Past2 = {}
    BY <1>2
  <2>3. QED  BY <2>1, <2>2 DEF Covered
<1>7. QED  BY <1>4, <1>5, <1>6 DEF OrderInv

\* Every cycle keeps the order.
LEMMA OrderStep ==
  ASSUME PushTypeOK, PushTypeOK', NoDrop, OrderInv,
         NEW push \in BOOLEAN, NEW rank \in RankSet, NEW update \in BOOLEAN,
         NEW border \in RankSet, NEW upload \in BOOLEAN,
         PushCycle(push, rank, update, border, upload)
  PROVE  OrderInv'
<1> DEFINE n == Past2
           w(f) == fifo_wr_en(f) /\ ~Drops(fifos[f], fifo_wr_en(f), fifo_rd_en(f))
<1>1. /\ TypeOK /\ TypeOK' /\ Numbered /\ OneGrant /\ Sorted /\ Covered
      /\ Compare(push, rank) /\ Encode /\ Fetch /\ Emit /\ Record(push)
      /\ Payload /\ FifoArray /\ Arbiter /\ Output
  BY DEF OrderInv, PushTypeOK, PushCycle, Cycle
<1>2. /\ Numbered' /\ n \in Nat
      /\ n' = IF s2.vld THEN n + 1 ELSE n
      /\ s2.vld => data.s2 = n + 1
  BY <1>1, NumberedStep
<1>3. OneGrant'
  BY <1>1 DEF Arbiter, pop_grant, OneGrant
<1>4. ASSUME NEW f \in Fifos
      PROVE  /\ Through(f) \in Seq(Lines) /\ Rising(Through(f), n)
             /\ Through(f)' = IF w(f) THEN Append(Through(f), data.s2) ELSE Through(f)
             /\ w(f) => s2.vld /\ s2.id = f
  BY <1>1, ThroughType, ThroughStep DEF Sorted, fifo_wr_en
<1>5. s2.vld => n + 1 \in Lines
  BY <1>2 DEF PushTypeOK
<1>6. ASSUME NEW f \in Fifos
      PROVE  /\ Rising(Through(f)', n')
             /\ Range(Through(f)') = Range(Through(f)) \cup IF w(f) THEN {n + 1} ELSE {}
  <2>1. CASE w(f)
    <3>1. s2.vld /\ data.s2 = n + 1 /\ n' = n + 1 /\ n + 1 \in Lines
      BY <1>2, <1>4, <1>5, <2>1
    <3>2. Through(f)' = Append(Through(f), n + 1)
      BY <1>4, <2>1, <3>1
    <3> HIDE DEF n, w
    <3>3. /\ Rising(Append(Through(f), n + 1), n + 1)
          /\ Range(Append(Through(f), n + 1)) = Range(Through(f)) \cup {n + 1}
      BY <1>2, <1>4, <3>1, RisingAppend
    <3>4. QED  BY <2>1, <3>1, <3>2, <3>3
  <2>2. CASE ~w(f)
    <3>1. Through(f)' = Through(f)
      BY <1>4, <2>2
    <3>2. n' = n \/ n' = n + 1
      BY <1>2
    <3> HIDE DEF n, w
    <3>3. Rising(Through(f), n + 1)
      BY <1>2, <1>4 DEF Rising
    <3>4. QED  BY <1>4, <2>2, <3>1, <3>2, <3>3
  <2>3. QED  BY <2>1, <2>2
<1>7. Sorted'
  BY <1>6 DEF Sorted
<1>8. Covered'
  <2> SUFFICES ASSUME Deep
               PROVE  /\ 1 .. n' = UNION {Range(Through(f)') : f \in Fifos}
                      /\ \A f, g \in Fifos : f # g => Range(Through(f)') \cap Range(Through(g)') = {}
    BY DEF Covered, Deep
  <2>1. ASSUME NEW f \in Fifos PROVE w(f) <=> s2.vld /\ s2.id = f
    BY DEF NoDrop, fifo_wr_en
  <2>2. s2.vld => s2.id \in Fifos
    BY <1>1 DEF TypeOK
  <2>3. /\ 1 .. n = UNION {Range(Through(f)) : f \in Fifos}
        /\ \A f, g \in Fifos : f # g => Range(Through(f)) \cap Range(Through(g)) = {}
    BY <1>1 DEF Covered
  <2> HIDE DEF n, w
  <2>4. ASSUME NEW f \in Fifos
        PROVE  Range(Through(f)') = Range(Through(f))
                                      \cup IF s2.vld /\ s2.id = f THEN {n + 1} ELSE {}
    BY <1>6, <2>1
  <2>5. UNION {Range(Through(f)') : f \in Fifos}
          = (UNION {Range(Through(f)) : f \in Fifos}) \cup IF s2.vld THEN {n + 1} ELSE {}
    BY <2>2, <2>4
  <2>6. 1 .. n' = (1 .. n) \cup IF s2.vld THEN {n + 1} ELSE {}
    BY <1>2
  <2>7. ASSUME NEW f \in Fifos PROVE n + 1 \notin Range(Through(f))
    <3>1. n + 1 \notin 1 .. n
      BY <1>2
    <3>2. QED  BY <2>3, <3>1
  <2>8. \A f, g \in Fifos : f # g => Range(Through(f)') \cap Range(Through(g)') = {}
    BY <2>3, <2>4, <2>7
  <2>9. QED  BY <2>3, <2>5, <2>6, <2>8
<1>9. QED  BY <1>2, <1>3, <1>7, <1>8 DEF OrderInv

\* The order is kept in every state.
THEOREM OrderInvariance == PushSpec => []OrderInv
<1>1. PushInit /\ PushTypeOK => OrderInv
  BY OrderInit
<1>2. PushTypeOK /\ PushTypeOK' /\ NoDrop /\ OrderInv /\ [PushNext]_push_vars => OrderInv'
  <2> SUFFICES ASSUME PushTypeOK, PushTypeOK', NoDrop, OrderInv, [PushNext]_push_vars
               PROVE  OrderInv'
    OBVIOUS
  <2>1. CASE PushNext
    <3>1. PICK push, update, upload \in BOOLEAN, rank, border \in RankSet :
                 PushCycle(push, rank, update, border, upload)
      BY <2>1, PushStep
    <3>2. QED  BY <3>1, OrderStep
  <2>2. CASE UNCHANGED push_vars
    <3>1. UNCHANGED vars /\ UNCHANGED lanes
      BY <2>2 DEF push_vars
    <3>2. ASSUME NEW f \in Fifos PROVE Through(f)' = Through(f)
      BY <3>1 DEF Through, BeingRead, lanes
    <3>3. Past0a' = Past0a /\ Past0b' = Past0b /\ Past1' = Past1 /\ Past2' = Past2
      BY <3>1 DEF Past0a, Past0b, Past1, Past2, At, vars
    <3>4. Numbered' /\ OneGrant'
      BY <3>1, <3>3 DEF OrderInv, Numbered, OneGrant, vars, lanes
    <3>5. Sorted'
      BY <3>2, <3>3 DEF OrderInv, Sorted
    <3>6. Covered'
      <4>1. {Range(Through(f)') : f \in Fifos} = {Range(Through(f)) : f \in Fifos}
        BY <3>2
      <4>2. QED  BY <3>2, <3>3, <4>1 DEF OrderInv, Covered, Deep
    <3>7. QED  BY <3>4, <3>5, <3>6 DEF OrderInv
  <2>3. QED  BY <2>1, <2>2
<1>3. QED  BY <1>1, <1>2, PushTypes, NeverDrops, PTL DEF PushSpec

\* Packets leave a FIFO in the order in which they were pushed, none twice, also
\* past a packet that was dropped.
THEOREM PacketsInOrder == PushSpec => []InOrder
<1>1. OrderInv => InOrder
  BY DEF OrderInv, Sorted, Rising, InOrder
<1>2. QED  BY <1>1, OrderInvariance, PTL

\* With FIFOs deep enough every packet pushed is in the pipeline or went through
\* one FIFO, and nothing else did: no packet is lost, doubled or made up.
THEOREM PacketsOnce == PushSpec => []ExactlyOnce
<1>1. PushTypeOK /\ OrderInv => ExactlyOnce
  <2> SUFFICES ASSUME PushTypeOK, OrderInv, Deep
               PROVE  /\ 1 .. pushed = InPipeline \cup UNION {Range(Through(f)) : f \in Fifos}
                      /\ \A f \in Fifos : Range(Through(f)) \cap InPipeline = {}
                      /\ \A f, g \in Fifos : f # g => Range(Through(f)) \cap Range(Through(g)) = {}
    BY DEF ExactlyOnce
  <2> DEFINE all == UNION {Range(Through(f)) : f \in Fifos}
  <2>1. /\ 1 .. Past2 = all
        /\ \A f, g \in Fifos : f # g => Range(Through(f)) \cap Range(Through(g)) = {}
    BY DEF OrderInv, Covered
  <2>2. /\ s0a.vld \in BOOLEAN /\ s0b.vld \in BOOLEAN /\ s1.vld \in BOOLEAN /\ s2.vld \in BOOLEAN
        /\ pushed \in 0 .. MaxPushes /\ MaxPushes \in Nat
    BY LBAssumption DEF PushTypeOK, TypeOK
  <2>3. /\ Past0a \in Nat /\ Past0b \in Nat /\ Past1 \in Nat /\ Past2 \in Nat
        /\ s0a.vld => data.s0a = pushed
        /\ s0b.vld => data.s0b = Past0a
        /\ s1.vld => data.s1 = Past0b
        /\ s2.vld => data.s2 = Past1
    BY DEF OrderInv, Numbered
  <2>4. /\ Past0a = IF s0a.vld THEN pushed - 1 ELSE pushed
        /\ Past0b = IF s0b.vld THEN Past0a - 1 ELSE Past0a
        /\ Past1 = IF s1.vld THEN Past0b - 1 ELSE Past0b
        /\ Past2 = IF s2.vld THEN Past1 - 1 ELSE Past1
    BY <2>2, <2>3 DEF Past0a, Past0b, Past1, Past2, At
  <2>5. ASSUME NEW m \in Int
        PROVE  m \in InPipeline <=> m \in Past2 + 1 .. pushed
    <3>1. m \in InPipeline <=> /\ m \in 1 .. MaxPushes
                               /\ \/ s0a.vld /\ m = pushed
                                  \/ s0b.vld /\ m = Past0a
                                  \/ s1.vld /\ m = Past0b
                                  \/ s2.vld /\ m = Past1
      BY <2>3 DEF InPipeline, Packets
    <3>2. QED  BY <2>2, <2>3, <2>4, <3>1
  <2>6. InPipeline \subseteq Int /\ Past2 <= pushed
    <3>1. InPipeline \subseteq Int
      BY DEF InPipeline, Packets
    <3>2. QED  BY <2>2, <2>3, <2>4, <3>1
  <2> HIDE DEF all
  <2>7. InPipeline = Past2 + 1 .. pushed
    <3>1. InPipeline \subseteq Past2 + 1 .. pushed
      BY <2>5, <2>6
    <3>2. Past2 + 1 .. pushed \subseteq InPipeline
      BY <2>2, <2>3, <2>5
    <3>3. QED  BY <3>1, <3>2
  <2>8. 1 .. pushed = InPipeline \cup all /\ all \cap InPipeline = {}
    BY <2>1, <2>2, <2>3, <2>6, <2>7
  <2>9. QED  BY <2>1, <2>8 DEF all
<1>2. QED  BY <1>1, OrderInvariance, PushTypes, PTL

-----------------------------------------------------------------------------
(***************************************************************************)
(* PUSH_FIFO: the registers of one FIFO are a bounded queue, for every     *)
(* depth and every kind of data                                            *)
(***************************************************************************)
\* The memory location of the i-th packet, when the first is at r.
Location(r, i) == (r + i - 1) % FIFO_SIZE

\* The write pointer is where the next packet is due.
PointersAgree == wr_ptr = Location(rd_ptr, fifo_counter + 1)

FifoInv == FifoTypeOK /\ PointersAgree

\* Locations without the remainder.
LEMMA LocationValue ==
  ASSUME NEW r \in Ptrs, NEW i \in 1 .. FIFO_SIZE + 1
  PROVE  /\ Location(r, i) \in Ptrs
         /\ Location(r, i) = IF r + i - 1 < FIFO_SIZE THEN r + i - 1 ELSE r + i - 1 - FIFO_SIZE
<1> DEFINE e == r + i - 1
<1>1. FIFO_SIZE \in Nat \ {0} /\ e \in Nat /\ e < 2 * FIFO_SIZE
  BY QueueAssumption DEF Ptrs
<1>2. Location(r, i) = e % FIFO_SIZE
  BY DEF Location
<1> HIDE DEF e
<1>3. e % FIFO_SIZE = IF e < FIFO_SIZE THEN e ELSE e - FIFO_SIZE
  BY <1>1, Wrap
<1>4. Location(r, i) \in 0 .. FIFO_SIZE - 1
  BY <1>1, <1>2, <1>3
<1>5. Location(r, i) = IF e < FIFO_SIZE THEN e ELSE e - FIFO_SIZE
  BY <1>2, <1>3
<1>6. QED  BY <1>1, <1>4, <1>5 DEF e, Ptrs

\* A pointer and its successor.
LEMMA AdvanceValue ==
  ASSUME NEW ptr \in Ptrs
  PROVE  /\ Advance(ptr) \in Ptrs
         /\ Advance(ptr) = IF ptr + 1 < FIFO_SIZE THEN ptr + 1 ELSE 0
<1> DEFINE e == ptr + 1
<1>1. FIFO_SIZE \in Nat \ {0} /\ e \in Nat /\ e < 2 * FIFO_SIZE /\ e <= FIFO_SIZE
  BY QueueAssumption DEF Ptrs
<1> HIDE DEF e
<1>2. e % FIFO_SIZE = IF e < FIFO_SIZE THEN e ELSE e - FIFO_SIZE
  BY <1>1, Wrap
<1>3. /\ e % FIFO_SIZE \in 0 .. FIFO_SIZE - 1
      /\ e % FIFO_SIZE = IF e < FIFO_SIZE THEN e ELSE 0
  BY <1>1, <1>2
<1>4. QED  BY <1>3 DEF e, Advance, Ptrs

\* From the next pointer on, packets are found one place earlier.
LEMMA LocationAdvance ==
  ASSUME NEW r \in Ptrs, NEW i \in 1 .. FIFO_SIZE
  PROVE  Location(Advance(r), i) = Location(r, i + 1)
<1>1. FIFO_SIZE \in Nat \ {0} /\ r \in 0 .. FIFO_SIZE - 1
  BY QueueAssumption DEF Ptrs
<1>2. Advance(r) \in Ptrs /\ Advance(r) = IF r + 1 < FIFO_SIZE THEN r + 1 ELSE 0
  BY AdvanceValue
<1>3. i \in 1 .. FIFO_SIZE + 1 /\ i + 1 \in 1 .. FIFO_SIZE + 1
  BY <1>1
<1>4. Location(r, i + 1) = IF r + i < FIFO_SIZE THEN r + i ELSE r + i - FIFO_SIZE
  <2>1. r + (i + 1) - 1 = r + i
    BY <1>1
  <2>2. QED  BY <1>3, <2>1, LocationValue
<1>5. \A a \in Ptrs : Location(a, i) = IF a + i - 1 < FIFO_SIZE THEN a + i - 1
                                                              ELSE a + i - 1 - FIFO_SIZE
  BY <1>3, LocationValue
<1>6. CASE r + 1 < FIFO_SIZE
  BY <1>1, <1>2, <1>4, <1>5, <1>6
<1>7. CASE ~(r + 1 < FIFO_SIZE)
  BY <1>1, <1>2, <1>4, <1>5, <1>7
<1>8. QED  BY <1>6, <1>7

\* A stretch of the memory as a sequence.
Stretch(mem, r, c) == [i \in 1 .. c |-> mem[Location(r, i)]]

\* A stretch of the memory is a sequence of its entries.
LEMMA StretchType ==
  ASSUME NEW mem \in [Ptrs -> Data], NEW r \in Ptrs, NEW c \in 0 .. FIFO_SIZE
  PROVE  /\ Stretch(mem, r, c) \in Seq(Data) /\ Len(Stretch(mem, r, c)) = c
         /\ \A i \in 1 .. c : Stretch(mem, r, c)[i] = mem[Location(r, i)]
<1>1. c \in Nat
  BY QueueAssumption
<1>2. ASSUME NEW i \in 1 .. c PROVE mem[Location(r, i)] \in Data
  <2>1. i \in 1 .. FIFO_SIZE + 1
    BY QueueAssumption
  <2>2. QED  BY <2>1, LocationValue
<1>3. Stretch(mem, r, c) \in [1 .. c -> Data]
  BY <1>2 DEF Stretch
<1>4. Stretch(mem, r, c) \in Seq(Data)
  BY <1>1, <1>3, SeqDef
<1>5. QED  BY <1>1, <1>3, <1>4, LenProperties DEF Stretch

-----------------------------------------------------------------------------
\* The invariant holds after reset.
LEMMA FifoResetOK == FifoInit => FifoInv
<1> SUFFICES ASSUME FifoInit PROVE FifoInv
  OBVIOUS
<1>1. FifoTypeOK
  BY QueueAssumption DEF FifoInit, FifoTypeOK, Ptrs
<1>2. 0 \in Ptrs /\ 1 \in 1 .. FIFO_SIZE + 1 /\ 0 + 1 - 1 = 0 /\ 0 < FIFO_SIZE
  BY QueueAssumption DEF Ptrs
<1>3. Location(0, 1) = 0
  BY <1>2, LocationValue
<1>4. QED  BY <1>1, <1>3 DEF FifoInit, FifoInv, PointersAgree

\* Types survive a cycle.
LEMMA CycleType ==
  ASSUME FifoTypeOK, FifoNext
  PROVE  FifoTypeOK'
<1>1. Advance(rd_ptr) \in Ptrs /\ Advance(wr_ptr) \in Ptrs
  BY AdvanceValue DEF FifoTypeOK
<1>2. NextCount \in 0 .. FIFO_SIZE
  BY QueueAssumption DEF FifoTypeOK, NextCount, buf_empty, buf_full
<1>3. NextOut \in Data \cup {None}
  BY DEF FifoTypeOK, NextOut
<1>4. QED  BY <1>1, <1>2, <1>3 DEF FifoTypeOK, FifoNext, Inputs

\* The write pointer stays where the next packet is due.
LEMMA CyclePointers ==
  ASSUME FifoInv, FifoNext
  PROVE  PointersAgree'
<1>1. FifoTypeOK /\ FifoTypeOK' /\ wr_ptr = Location(rd_ptr, fifo_counter + 1)
  BY CycleType DEF FifoInv, PointersAgree
<1>2. /\ FIFO_SIZE \in Nat \ {0}
      /\ fifo_counter \in 0 .. FIFO_SIZE /\ fifo_counter' \in 0 .. FIFO_SIZE
      /\ rd_ptr \in 0 .. FIFO_SIZE - 1 /\ wr_ptr \in 0 .. FIFO_SIZE - 1
      /\ rd_ptr' \in 0 .. FIFO_SIZE - 1
      /\ wr_en \in BOOLEAN /\ rd_en \in BOOLEAN
  BY <1>1, QueueAssumption DEF FifoTypeOK, Ptrs
<1>3. ASSUME NEW r \in 0 .. FIFO_SIZE - 1, NEW c \in 0 .. FIFO_SIZE
      PROVE  Location(r, c + 1) = IF r + c < FIFO_SIZE THEN r + c ELSE r + c - FIFO_SIZE
  <2>1. r \in Ptrs /\ c + 1 \in 1 .. FIFO_SIZE + 1 /\ r + (c + 1) - 1 = r + c
    BY <1>2 DEF Ptrs
  <2>2. QED  BY <2>1, LocationValue
<1>4. wr_ptr = IF rd_ptr + fifo_counter < FIFO_SIZE
                 THEN rd_ptr + fifo_counter ELSE rd_ptr + fifo_counter - FIFO_SIZE
  BY <1>1, <1>2, <1>3
<1>5. /\ rd_ptr' = IF Reads THEN (IF rd_ptr + 1 < FIFO_SIZE THEN rd_ptr + 1 ELSE 0) ELSE rd_ptr
      /\ wr_ptr' = IF Writes THEN (IF wr_ptr + 1 < FIFO_SIZE THEN wr_ptr + 1 ELSE 0) ELSE wr_ptr
      /\ fifo_counter' = NextCount
  BY <1>1, AdvanceValue DEF FifoNext, FifoTypeOK
<1>6. wr_ptr' = IF rd_ptr' + fifo_counter' < FIFO_SIZE
        THEN rd_ptr' + fifo_counter' ELSE rd_ptr' + fifo_counter' - FIFO_SIZE
  BY <1>2, <1>4, <1>5 DEF Reads, Writes, NextCount, buf_empty, buf_full
<1>7. QED  BY <1>2, <1>3, <1>6 DEF PointersAgree

\* In every cycle the write pointer is where the next packet is due (PUSH_FIFO's
\* counter and pointers).
THEOREM FifoInvariance == FifoSpec => []FifoInv
<1>1. FifoInv /\ [FifoNext]_fifo_vars => FifoInv'
  <2> SUFFICES ASSUME FifoInv, [FifoNext]_fifo_vars PROVE FifoInv'
    OBVIOUS
  <2>1. CASE FifoNext
    BY <2>1, CycleType, CyclePointers DEF FifoInv
  <2>2. CASE UNCHANGED fifo_vars
    BY <2>2 DEF fifo_vars, FifoInv, FifoTypeOK, PointersAgree, Location
  <2>3. QED  BY <2>1, <2>2
<1>2. QED  BY <1>1, FifoResetOK, PTL DEF FifoSpec

-----------------------------------------------------------------------------
(***************************************************************************)
(* A cycle, seen from the queue                                            *)
(***************************************************************************)
\* A write goes behind the packets stored and leaves them alone; only when the
\* FIFO is full does it take the place of the first, which is being read.
LEMMA WriteBehind ==
  ASSUME FifoInv, FifoNext
  PROVE  /\ Writes => buf_mem'[Location(rd_ptr, fifo_counter + 1)] = buf_in
         /\ \A i \in 1 .. fifo_counter : i > 1 \/ fifo_counter < FIFO_SIZE =>
              buf_mem'[Location(rd_ptr, i)] = buf_mem[Location(rd_ptr, i)]
<1>1. /\ FIFO_SIZE \in Nat \ {0}
      /\ fifo_counter \in 0 .. FIFO_SIZE
      /\ rd_ptr \in 0 .. FIFO_SIZE - 1 /\ rd_ptr \in Ptrs
      /\ buf_mem \in [Ptrs -> Data]
      /\ wr_ptr \in Ptrs /\ wr_ptr = Location(rd_ptr, fifo_counter + 1)
      /\ buf_mem' = IF Writes THEN [buf_mem EXCEPT ![wr_ptr] = buf_in] ELSE buf_mem
  BY QueueAssumption DEF FifoInv, FifoTypeOK, Ptrs, PointersAgree, FifoNext
<1>2. Writes => buf_mem'[wr_ptr] = buf_in
  BY <1>1
<1>3. ASSUME NEW i \in 1 .. fifo_counter, i > 1 \/ fifo_counter < FIFO_SIZE
      PROVE  buf_mem'[Location(rd_ptr, i)] = buf_mem[Location(rd_ptr, i)]
  <2>1. i \in 1 .. FIFO_SIZE + 1 /\ fifo_counter + 1 \in 1 .. FIFO_SIZE + 1
    BY <1>1
  <2>2. /\ Location(rd_ptr, i) \in Ptrs
        /\ Location(rd_ptr, i) = IF rd_ptr + i - 1 < FIFO_SIZE
             THEN rd_ptr + i - 1 ELSE rd_ptr + i - 1 - FIFO_SIZE
    BY <1>1, <2>1, LocationValue
  <2>3. wr_ptr = IF rd_ptr + (fifo_counter + 1) - 1 < FIFO_SIZE
          THEN rd_ptr + (fifo_counter + 1) - 1 ELSE rd_ptr + (fifo_counter + 1) - 1 - FIFO_SIZE
    BY <1>1, <2>1, LocationValue
  <2>4. Location(rd_ptr, i) # wr_ptr
    BY <1>1, <1>3, <2>2, <2>3
  <2>5. QED  BY <1>1, <2>2, <2>4
<1>4. QED  BY <1>1, <1>2, <1>3

\* What the cycle offers to the queue, packet by packet.
LEMMA OfferedValue ==
  ASSUME NEW q \in Seq(Data), NEW wr \in BOOLEAN, NEW d \in Data
  PROVE  /\ Offered(q, wr, d) \in Seq(Data)
         /\ Len(Offered(q, wr, d)) = IF wr THEN Len(q) + 1 ELSE Len(q)
         /\ \A i \in 1 .. Len(q) : Offered(q, wr, d)[i] = q[i]
         /\ wr => Offered(q, wr, d)[Len(q) + 1] = d
BY DEF Offered

\* The first packet goes out with a read.
LEMMA OutOK ==
  ASSUME FifoInv, FifoNext
  PROVE  buf_rd' = Out(Stored, wr_en, rd_en, buf_in)
<1>1. FifoTypeOK /\ buf_rd' = NextOut
  BY DEF FifoInv, FifoNext
<1>2. Stored = Stretch(buf_mem, rd_ptr, fifo_counter)
  BY DEF Stored, Stretch, Location
<1>3. /\ Stored \in Seq(Data) /\ Len(Stored) = fifo_counter
      /\ \A i \in 1 .. fifo_counter : Stored[i] = buf_mem[Location(rd_ptr, i)]
  BY <1>1, <1>2, StretchType DEF FifoTypeOK
<1> DEFINE offered == Offered(Stored, wr_en, buf_in)
<1>4. /\ offered \in Seq(Data)
      /\ Len(offered) = IF wr_en THEN fifo_counter + 1 ELSE fifo_counter
      /\ \A i \in 1 .. fifo_counter : offered[i] = Stored[i]
      /\ wr_en => offered[fifo_counter + 1] = buf_in
  BY <1>1, <1>3, OfferedValue DEF FifoTypeOK
<1> HIDE DEF offered
<1>5. fifo_counter \in Nat /\ FIFO_SIZE \in Nat \ {0} /\ rd_ptr \in 0 .. FIFO_SIZE - 1
  BY <1>1, QueueAssumption DEF FifoTypeOK, Ptrs
<1>6. CASE rd_en /\ fifo_counter > 0
  <2>1. offered # <<>> /\ Head(offered) = buf_mem[Location(rd_ptr, 1)]
    BY <1>3, <1>4, <1>5, <1>6
  <2>2. Location(rd_ptr, 1) = rd_ptr
    <3>1. rd_ptr \in Ptrs /\ 1 \in 1 .. FIFO_SIZE + 1 /\ rd_ptr + 1 - 1 = rd_ptr
      BY <1>5 DEF Ptrs
    <3>2. QED  BY <1>5, <3>1, LocationValue
  <2>3. NextOut = buf_mem[rd_ptr]
    BY <1>5, <1>6 DEF NextOut, buf_empty
  <2>4. QED  BY <1>1, <1>6, <2>1, <2>2, <2>3 DEF Out, First, offered
<1>7. CASE rd_en /\ fifo_counter = 0 /\ wr_en
  <2>1. offered # <<>> /\ Head(offered) = buf_in
    BY <1>4, <1>5, <1>7
  <2>2. NextOut = buf_in
    BY <1>7 DEF NextOut, buf_empty
  <2>3. QED  BY <1>1, <1>7, <2>1, <2>2 DEF Out, First, offered
<1>8. CASE rd_en /\ fifo_counter = 0 /\ ~wr_en
  <2>1. offered = <<>>
    BY <1>4, <1>5, <1>8
  <2>2. NextOut = None
    BY <1>8 DEF NextOut, buf_empty
  <2>3. QED  BY <1>1, <1>8, <2>1, <2>2 DEF Out, First, offered
<1>9. CASE ~rd_en
  <2>1. NextOut = None
    BY <1>9 DEF NextOut
  <2>2. QED  BY <1>1, <1>9, <2>1 DEF Out
<1>10. QED  BY <1>5, <1>6, <1>7, <1>8, <1>9

\* The registers hold the queue's contents after the cycle.
LEMMA ContentsOK ==
  ASSUME FifoInv, FifoNext
  PROVE  Stored' = Contents(Stored, wr_en, rd_en, buf_in)
<1>1. FifoTypeOK /\ FifoTypeOK'
  BY CycleType DEF FifoInv
<1>2. /\ Stored = Stretch(buf_mem, rd_ptr, fifo_counter)
      /\ Stored' = Stretch(buf_mem', rd_ptr', fifo_counter')
  BY DEF Stored, Stretch, Location
<1>3. /\ Stored \in Seq(Data) /\ Len(Stored) = fifo_counter
      /\ \A i \in 1 .. fifo_counter : Stored[i] = buf_mem[Location(rd_ptr, i)]
  BY <1>1, <1>2, StretchType DEF FifoTypeOK
<1>4. /\ Stored' \in Seq(Data) /\ Len(Stored') = fifo_counter'
      /\ \A i \in 1 .. fifo_counter' : Stored'[i] = buf_mem'[Location(rd_ptr', i)]
  BY <1>1, <1>2, StretchType DEF FifoTypeOK
<1> DEFINE offered == Offered(Stored, wr_en, buf_in)
<1>5. /\ offered \in Seq(Data)
      /\ Len(offered) = IF wr_en THEN fifo_counter + 1 ELSE fifo_counter
      /\ \A i \in 1 .. fifo_counter : offered[i] = Stored[i]
      /\ wr_en => offered[fifo_counter + 1] = buf_in
  BY <1>1, <1>3, OfferedValue DEF FifoTypeOK
<1> HIDE DEF offered
<1>6. /\ FIFO_SIZE \in Nat \ {0} /\ fifo_counter \in 0 .. FIFO_SIZE
      /\ rd_ptr \in Ptrs /\ wr_en \in BOOLEAN /\ rd_en \in BOOLEAN
      /\ rd_ptr' = IF Reads THEN Advance(rd_ptr) ELSE rd_ptr
      /\ fifo_counter' = NextCount
  BY <1>1, QueueAssumption DEF FifoTypeOK, FifoNext
<1>7. CASE Reads
  <2>1. rd_en /\ offered # <<>> /\ fifo_counter' = Len(offered) - 1
    BY <1>5, <1>6, <1>7 DEF Reads, NextCount, buf_empty, buf_full
  <2>2. /\ Tail(offered) \in Seq(Data) /\ Len(Tail(offered)) = fifo_counter'
        /\ \A i \in 1 .. fifo_counter' : Tail(offered)[i] = offered[i + 1]
    BY <1>5, <2>1, HeadTailProperties
  <2>3. ASSUME NEW i \in 1 .. fifo_counter'
        PROVE  Stored'[i] = Tail(offered)[i]
    <3>1. i \in 1 .. FIFO_SIZE /\ i + 1 > 1 /\ i <= Len(offered) - 1
      BY <1>5, <1>6, <2>1 DEF NextCount, buf_full
    <3>2. Stored'[i] = buf_mem'[Location(rd_ptr, i + 1)]
      BY <1>4, <1>6, <1>7, <3>1, LocationAdvance
    <3>3. CASE i + 1 <= fifo_counter
      <4>1. i + 1 \in 1 .. fifo_counter
        BY <1>6, <3>1, <3>3
      <4>2. buf_mem'[Location(rd_ptr, i + 1)] = Stored[i + 1]
        BY <1>3, <3>1, <4>1, WriteBehind
      <4>3. QED  BY <1>5, <2>2, <3>2, <4>1, <4>2
    <3>4. CASE i + 1 > fifo_counter
      <4>1. wr_en /\ i + 1 = fifo_counter + 1
        BY <1>5, <1>6, <3>1, <3>4
      <4>2. Writes
        BY <2>1, <4>1 DEF Writes
      <4>3. buf_mem'[Location(rd_ptr, i + 1)] = buf_in
        BY <4>1, <4>2, WriteBehind
      <4>4. QED  BY <1>5, <2>2, <3>2, <4>1, <4>3
    <3>5. QED  BY <1>6, <3>1, <3>3, <3>4
  <2>4. Stored' = Tail(offered)
    BY <1>4, <2>2, <2>3, SeqEqual
  <2>5. QED  BY <2>1, <2>4 DEF Contents, Rest, offered
<1>8. CASE rd_en /\ ~Reads
  <2>1. fifo_counter = 0 /\ ~wr_en /\ fifo_counter' = 0
    BY <1>6, <1>8 DEF Reads, NextCount, buf_empty, buf_full
  <2>2. offered = <<>> /\ Stored' = <<>>
    BY <1>4, <1>5, <2>1
  <2>3. QED  BY <1>8, <2>2 DEF Contents, Rest, offered
<1>9. CASE ~rd_en
  <2>1. ~Reads /\ rd_ptr' = rd_ptr
    BY <1>6, <1>9 DEF Reads
  <2>2. CASE wr_en /\ fifo_counter < FIFO_SIZE
    <3>1. Writes /\ fifo_counter' = fifo_counter + 1
      BY <1>6, <1>9, <2>2 DEF Writes, NextCount, buf_full
    <3>2. ASSUME NEW i \in 1 .. fifo_counter' PROVE Stored'[i] = offered[i]
      <4>1. i \in 1 .. fifo_counter \/ i = fifo_counter + 1
        BY <1>6, <3>1
      <4>2. QED  BY <1>3, <1>4, <1>5, <2>1, <2>2, <3>1, <4>1, WriteBehind
    <3>3. Stored' = offered
      BY <1>4, <1>5, <1>6, <2>2, <3>1, <3>2, SeqEqual
    <3>4. ~Drops(Stored, wr_en, rd_en)
      BY <1>3, <1>6, <2>2 DEF Drops
    <3>5. QED  BY <1>9, <3>3, <3>4 DEF Contents, offered
  <2>3. CASE ~(wr_en /\ fifo_counter < FIFO_SIZE)
    <3>1. ~Writes /\ fifo_counter' = fifo_counter
      BY <1>6, <1>9, <2>3 DEF Writes, NextCount, buf_full
    <3>2. buf_mem' = buf_mem
      BY <3>1 DEF FifoNext
    <3>3. Stored' = Stored
      BY <1>2, <2>1, <3>1, <3>2
    <3>4. CASE wr_en
      <4>1. Drops(Stored, wr_en, rd_en)
        BY <1>3, <1>6, <1>9, <2>3, <3>4 DEF Drops
      <4>2. QED  BY <1>9, <3>3, <4>1 DEF Contents
    <3>5. CASE ~wr_en
      BY <1>9, <3>3, <3>5 DEF Contents, Drops, Offered
    <3>6. QED  BY <3>4, <3>5
  <2>4. QED  BY <2>2, <2>3
<1>10. QED  BY <1>6, <1>7, <1>8, <1>9

\* The registers stay well typed; in particular the counter never exceeds the depth.
THEOREM FifoTypes == FifoSpec => []FifoTypeOK
BY FifoInvariance, PTL DEF FifoInv

\* The registers implement the bounded queue (PUSH_FIFO, every cycle).
THEOREM Refinement == FifoSpec => ImplementsQueue
<1> USE DEF Queue!Contents, Queue!Out, Queue!Offered, Queue!Drops, Queue!First, Queue!Rest,
            Contents, Out, Offered, Drops, First, Rest
<1>1. FifoInit => Queue!Init
  <2> SUFFICES ASSUME FifoInit PROVE Queue!Init
    OBVIOUS
  <2>1. Stored = <<>>
    BY DEF FifoInit, Stored
  <2>2. QED  BY <2>1 DEF FifoInit, Queue!Init
<1>2. FifoInv /\ [FifoNext]_fifo_vars => [Queue!Next]_Queue!vars
  <2> SUFFICES ASSUME FifoInv, [FifoNext]_fifo_vars PROVE [Queue!Next]_Queue!vars
    OBVIOUS
  <2>1. CASE FifoNext
    BY <2>1, OutOK, ContentsOK DEF FifoNext, Inputs, Queue!Next
  <2>2. CASE UNCHANGED fifo_vars
    BY <2>2 DEF fifo_vars, Queue!vars, Stored
  <2>3. QED  BY <2>1, <2>2
<1>3. QED  BY <1>1, <1>2, FifoInvariance, PTL DEF FifoSpec, ImplementsQueue, Queue!Spec

-----------------------------------------------------------------------------
(***************************************************************************)
(* The FIFOs of PUSH_LB as bounded queues                                  *)
(***************************************************************************)
Fifo(f) == INSTANCE BoundedQueue WITH
  wr_en <- fifo_wr_en(f), rd_en <- fifo_rd_en(f), buf_in <- data.s2,
  queue <- fifos[f], out <- buf_out[f], Data <- Lines

\* A FIFO inside PUSH_LB does in every cycle what the abstract queue does, the one
\* that PUSH_FIFO implements (Refinement): so PUSH_LB may take its FIFOs as queues.
THEOREM FifosAreQueues ==
  ASSUME NEW f \in Fifos
  PROVE  PushSpec => Fifo(f)!Spec
<1> USE DEF Fifo!Contents, Fifo!Out, Fifo!Offered, Fifo!Drops, Fifo!First, Fifo!Rest,
            Contents, Out, Offered, Drops, First, Rest
<1>1. ASSUME PushTypeOK
      PROVE  fifo_wr_en(f) \in BOOLEAN /\ fifo_rd_en(f) \in BOOLEAN /\ data.s2 \in Lines
  BY <1>1 DEF PushTypeOK, TypeOK, fifo_wr_en, fifo_rd_en, pop_grant
<1>2. PushInit /\ PushTypeOK => Fifo(f)!Init
  BY <1>1 DEF PushInit, Fifo!Init, PushTypeOK
<1>3. PushTypeOK /\ PushTypeOK' /\ [PushNext]_push_vars => [Fifo(f)!Next]_(Fifo(f)!vars)
  <2> SUFFICES ASSUME PushTypeOK, PushTypeOK', [PushNext]_push_vars
               PROVE  [Fifo(f)!Next]_(Fifo(f)!vars)
    OBVIOUS
  <2>1. CASE PushNext
    <3>1. FifoArray
      BY <2>1, PushStep DEF PushCycle
    <3>2. /\ fifos'[f] = Contents(fifos[f], fifo_wr_en(f), fifo_rd_en(f), data.s2)
          /\ buf_out'[f] = Out(fifos[f], fifo_wr_en(f), fifo_rd_en(f), data.s2)
      BY <3>1 DEF FifoArray
    <3>3. fifo_wr_en(f)' \in BOOLEAN /\ fifo_rd_en(f)' \in BOOLEAN /\ data'.s2 \in Lines
      BY DEF PushTypeOK, TypeOK, fifo_wr_en, fifo_rd_en, pop_grant
    <3>4. QED  BY <3>2, <3>3 DEF Fifo!Next
  <2>2. CASE UNCHANGED push_vars
    BY <2>2 DEF push_vars, vars, lanes, Fifo!vars, fifo_wr_en, fifo_rd_en, pop_grant
  <2>3. QED  BY <2>1, <2>2
<1>4. QED  BY <1>2, <1>3, PushTypes, PTL DEF PushSpec, Fifo!Spec
=============================================================================
