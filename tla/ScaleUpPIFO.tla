---------------------------- MODULE ScaleUpPIFO ----------------------------
(***************************************************************************)
(* The Scale-up PIFO queue disc, DynamicIntervalRRPIFOScheduler.cc: load   *)
(* balancers (module DynamicIntervals) spread the packets over parallel    *)
(* PIFOs, each behind a FIFO.  DoEnqueue appends to a FIFO; DoDequeue      *)
(* visits the PIFOs in turn, sends the best packet of the first one that   *)
(* has any and refills it from its FIFO, evicting the worst packets when   *)
(* the PIFO overflows.  Acknowledgements bypass all that in a FIFO of      *)
(* their own, but are charged to the PIFOs in rotation.                    *)
(***************************************************************************)
EXTENDS Sequences, SequencesExt, Totals

CONSTANTS
  NumLoadBalancers, NumPifos, NumIntervals, IntervalLength, SplitThreshold,
  AdjustPeriod, Unit, CountUnit, Ranks, MaxAdmitted,  \* see DynamicIntervals
  FifoLimit,       \* m_perFifoBufferLimit
  PifoBuffer,      \* PIFO_BUFFER_SIZE_PER_PIFO
  RefillBatch,     \* REFILL_BATCH_SIZE
  Sizes,           \* the sizes packets may have
  SendTimes,       \* the values of the timestamp tag
  MaxPackets       \* bound on the number of packets of a run

VARIABLES
  intervalBorders, borderCounts, intervalCounters, loadBalancerIndex,
  adjustCounter,       \* the load balancers
  fifos,               \* m_fifos
  pifos,               \* m_pifos: the items; Precedes is their order
  fifoBufferUsage,     \* m_fifoBufferUsage
  pifoCurrentSizes,    \* m_pifoCurrentSizes
  pifoIndex,           \* m_pifoIndex
  ackFifo,             \* m_ackFifo
  ackInputPointer,     \* m_ackInputPointer % NUM_PIFOS
  ackOutputPointer,    \* m_ackOutputPointer % NUM_PIFOS
  ret,                 \* the last call and its answer
  arrivals, sent, dropped,  \* history: packets so far, sent, passed to Drop
  bypassed             \* history: packets sent since each PIFO had its turn

intervalVars == <<intervalBorders, borderCounts, intervalCounters,
                  loadBalancerIndex, adjustCounter>>

vars == <<intervalVars, fifos, pifos, fifoBufferUsage, pifoCurrentSizes,
          pifoIndex, ackFifo, ackInputPointer, ackOutputPointer, ret, arrivals,
          sent, dropped, bypassed>>

Intervals == INSTANCE DynamicIntervals

Pifos == 0 .. NumPifos - 1

\* A packet: its number of arrival, its rank (flow size), send time and size.
Packet == [id : 1 .. MaxPackets, rank : Ranks \cup {1}, time : SendTimes \cup {0},
           size : Sizes]

\* What DynamicIntervals assumes of its constants.
ASSUME BalancerAssumption ==
  /\ {NumLoadBalancers, NumPifos, NumIntervals, AdjustPeriod, Unit, CountUnit}
       \subseteq Nat \ {0}
  /\ {IntervalLength, SplitThreshold, MaxAdmitted} \subseteq Nat
  /\ IntervalLength >= Unit
  /\ Ranks \subseteq Nat

ASSUME QueueAssumption ==
  /\ FifoLimit \in Nat
  /\ PifoBuffer \in Nat
  /\ RefillBatch \in Nat \ {0}
  /\ Sizes \subseteq 1 .. PifoBuffer      \* a packet is smaller than a PIFO
  /\ SendTimes \subseteq Nat
  /\ MaxPackets \in Nat

\* PifoItem::operator<, and a multiset keeps equal items in order of insertion:
\* within a PIFO that is the order of arrival, since the FIFO before it keeps it.
Precedes(j, k) ==
  \/ j.rank < k.rank
  \/ j.rank = k.rank /\ j.time < k.time
  \/ j.rank = k.rank /\ j.time = k.time /\ j.id < k.id

Best(S) == CHOOSE k \in S : \A j \in S \ {k} : Precedes(k, j)

(***************************************************************************)
(* InitializeParams                                                        *)
(***************************************************************************)
Init ==
  /\ Intervals!Init
  /\ fifos = [p \in Pifos |-> <<>>]
  /\ pifos = [p \in Pifos |-> {}]
  /\ fifoBufferUsage = [p \in Pifos |-> 0]
  /\ pifoCurrentSizes = [p \in Pifos |-> 0]
  /\ pifoIndex = 0
  /\ ackFifo = <<>>
  /\ ackInputPointer = 0
  /\ ackOutputPointer = 0
  /\ ret = [call |-> "none", packets |-> {}]
  /\ arrivals = 0
  /\ sent = {}
  /\ dropped = {}
  /\ bypassed = [p \in Pifos |-> 0]

-----------------------------------------------------------------------------
(***************************************************************************)
(* DoEnqueue                                                               *)
(***************************************************************************)
NewPacket(rank, time, size) ==
  [id |-> arrivals + 1, rank |-> rank, time |-> time, size |-> size]

Answer(call, packets) == ret' = [call |-> call, packets |-> packets]

EnqueueAck_NoWrap(size) ==  \* mutant: the pointer is not taken modulo NUM_PIFOS
  LET k == NewPacket(1, 0, size)
  IN  /\ arrivals < MaxPackets
      /\ pifoCurrentSizes' = [pifoCurrentSizes EXCEPT ![ackInputPointer] = @ + size]
      /\ ackInputPointer' = ackInputPointer + 1
      /\ ackFifo' = Append(ackFifo, k)
      /\ arrivals' = arrivals + 1
      /\ Answer("enqueue", {k})
      /\ UNCHANGED <<intervalVars, fifos, pifos, fifoBufferUsage,
                     pifoIndex, ackOutputPointer, sent, dropped, bypassed>>

\* The packet is tagged as an acknowledgement.
EnqueueAck(size) ==
  LET k == NewPacket(1, 0, size)
  IN  /\ arrivals < MaxPackets
      /\ pifoCurrentSizes' = [pifoCurrentSizes EXCEPT ![ackInputPointer] = @ + size]
      /\ ackInputPointer' = (ackInputPointer + 1) % NumPifos
      /\ ackFifo' = Append(ackFifo, k)
      /\ arrivals' = arrivals + 1
      /\ Answer("enqueue", {k})
      /\ UNCHANGED <<intervalVars, fifos, pifos, fifoBufferUsage,
                     pifoIndex, ackOutputPointer, sent, dropped, bypassed>>

HasRoom_AtLimit(p, size) == fifoBufferUsage[p] + size <= FifoLimit \* mutant

HasRoom(p, size) == fifoBufferUsage[p] + size < FifoLimit

\* The FIFO of the PIFO the load balancer chose has room, or has not.
EnqueueData(rank, time, size) ==
  LET k == NewPacket(rank, time, size)
      p == Intervals!ChosenPifo(rank)
  IN  /\ arrivals < MaxPackets
      /\ IF HasRoom(p, size)
           THEN /\ Intervals!Admit(rank)
                /\ fifos' = [fifos EXCEPT ![p] = Append(@, k)]
                /\ fifoBufferUsage' = [fifoBufferUsage EXCEPT ![p] = @ + size]
                /\ Answer("enqueue", {k})
                /\ UNCHANGED dropped
           ELSE /\ Intervals!Refuse(rank)
                /\ dropped' = dropped \cup {k}
                /\ Answer("enqueue", {})
                /\ UNCHANGED <<fifos, fifoBufferUsage>>
      /\ arrivals' = arrivals + 1
      /\ UNCHANGED <<pifos, pifoCurrentSizes, pifoIndex, ackFifo,
                     ackInputPointer, ackOutputPointer, sent, bypassed>>

-----------------------------------------------------------------------------
(***************************************************************************)
(* DoDequeue.  The operators below compute on one FIFO and its PIFO, as a  *)
(* record of what the call does to them.                                   *)
(***************************************************************************)
Lane(p) == [fifo |-> fifos[p], usage |-> fifoBufferUsage[p], pifo |-> pifos[p],
            size |-> pifoCurrentSizes[p], evicted |-> {}]

Kept_All(items, size) == items  \* mutant: no eviction

\* The worst packets go until the size fits: an item stays iff the PIFO fits
\* once everything worse than it is gone.
Kept(items, size) ==
  {k \in items : size - Bytes({j \in items : Precedes(k, j)}) <= PifoBuffer}

Refill(l) ==
  LET n     == Min({RefillBatch, Len(l.fifo)})
      moved == ToSet(SubSeq(l.fifo, 1, n))
      items == l.pifo \cup moved
      kept  == Kept(items, l.size + Bytes(moved))
  IN  [fifo    |-> SubSeq(l.fifo, n + 1, Len(l.fifo)),
       usage   |-> l.usage - Bytes(moved),
       pifo    |-> kept,
       size    |-> l.size + Bytes(moved) - Bytes(items \ kept),
       evicted |-> items \ kept]

Pop_KeepsSize(l) == [l EXCEPT !.pifo = @ \ {Best(@)}]  \* mutant

Pop(l) == [l EXCEPT !.pifo = @ \ {Best(@)}, !.size = @ - Best(l.pifo).size]

Yield_PifoOnly(p) ==  \* mutant: an empty PIFO is passed over, whatever its FIFO holds
  IF pifos[p] = {} THEN {} ELSE {Best(pifos[p])}

\* The packet a visit to PIFO p sends ({} if none) and what the visit leaves:
\* a PIFO that holds packets is refilled after, an empty one before.
Yield(p) ==
  LET l == IF pifos[p] # {} THEN Lane(p) ELSE Refill(Lane(p))
  IN  IF l.pifo = {} THEN {} ELSE {Best(l.pifo)}

Visit(p) ==
  IF pifos[p] # {}
    THEN Refill(Pop(Lane(p)))
    ELSE LET l == Refill(Lane(p)) IN IF l.pifo = {} THEN l ELSE Pop(l)

Turn_FromFirst(n) == n % NumPifos  \* mutant: m_pifoIndex is not used

Turn(n) == (pifoIndex + n) % NumPifos

VisitAll(visited) ==
  LET lane == [p \in Pifos |-> IF p \in visited THEN Visit(p) ELSE Lane(p)]
  IN  /\ fifos' = [p \in Pifos |-> lane[p].fifo]
      /\ fifoBufferUsage' = [p \in Pifos |-> lane[p].usage]
      /\ pifos' = [p \in Pifos |-> lane[p].pifo]
      /\ pifoCurrentSizes' = [p \in Pifos |-> lane[p].size]
      /\ dropped' = dropped \cup UNION {lane[p].evicted : p \in Pifos}

DequeueAck_SamePointer ==  \* mutant: m_ackOutputPointer does not advance
  LET k == Head(ackFifo)
  IN  /\ ackFifo # <<>>
      /\ ackFifo' = Tail(ackFifo)
      /\ pifoCurrentSizes' = [pifoCurrentSizes EXCEPT ![ackOutputPointer] = @ - k.size]
      /\ sent' = sent \cup {k}
      /\ Answer("dequeue", {k})
      /\ UNCHANGED <<intervalVars, fifos, pifos, fifoBufferUsage, pifoIndex,
                     ackInputPointer, ackOutputPointer, arrivals, dropped, bypassed>>

DequeueAck ==
  LET k == Head(ackFifo)
  IN  /\ ackFifo # <<>>
      /\ ackFifo' = Tail(ackFifo)
      /\ pifoCurrentSizes' = [pifoCurrentSizes EXCEPT ![ackOutputPointer] = @ - k.size]
      /\ ackOutputPointer' = (ackOutputPointer + 1) % NumPifos
      /\ sent' = sent \cup {k}
      /\ Answer("dequeue", {k})
      /\ UNCHANGED <<intervalVars, fifos, pifos, fifoBufferUsage,
                     pifoIndex, ackInputPointer, arrivals, dropped, bypassed>>

\* The n-th PIFO from m_pifoIndex on is the first that yields a packet.
DequeueData(n) ==
  LET p == Turn(n)
  IN  /\ ackFifo = <<>>
      /\ Yield(p) # {}
      /\ \A m \in 0 .. n - 1 : Yield(Turn(m)) = {}
      /\ VisitAll({Turn(m) : m \in 0 .. n})
      /\ pifoIndex' = (p + 1) % NumPifos
      /\ sent' = sent \cup Yield(p)
      /\ Answer("dequeue", Yield(p))
      /\ bypassed' = [q \in Pifos |->
           IF q = p \/ (fifos'[q] = <<>> /\ pifos'[q] = {}) THEN 0 ELSE bypassed[q] + 1]
      /\ UNCHANGED <<intervalVars, ackFifo, ackInputPointer,
                     ackOutputPointer, arrivals>>

DequeueNothing_AfterOneVisit ==  \* mutant: null when the PIFO at m_pifoIndex has none
  /\ ackFifo = <<>>
  /\ Yield(pifoIndex) = {}
  /\ VisitAll({pifoIndex})
  /\ pifoIndex' = (pifoIndex + 1) % NumPifos
  /\ Answer("dequeue", {})
  /\ UNCHANGED <<intervalVars, ackFifo, ackInputPointer, ackOutputPointer,
                 arrivals, sent, bypassed>>

\* The loop ends without a packet: null, and m_pifoIndex has gone once around.
DequeueNothing ==
  /\ ackFifo = <<>>
  /\ \A p \in Pifos : Yield(p) = {}
  /\ VisitAll(Pifos)
  /\ Answer("dequeue", {})
  /\ UNCHANGED <<intervalVars, pifoIndex, ackFifo, ackInputPointer,
                 ackOutputPointer, arrivals, sent, bypassed>>

DoEnqueue ==
  \E size \in Sizes : \/ EnqueueAck(size)
                      \/ \E rank \in Ranks, time \in SendTimes :
                           EnqueueData(rank, time, size)

DoDequeue ==
  \/ DequeueAck
  \/ \E n \in 0 .. NumPifos - 1 : DequeueData(n)
  \/ DequeueNothing

Next == DoEnqueue \/ DoDequeue

Spec == Init /\ [][Next]_vars

InFifo(p) == ToSet(fifos[p])

\* The packets in the queue disc.
Held == (UNION {InFifo(p) \cup pifos[p] : p \in Pifos}) \cup ToSet(ackFifo)

\* QueueDisc::Run goes on calling DoDequeue until it answers null.  This is weak
\* fairness of DoDequeue with its enabling condition, something to send, written
\* out (TLC needs minutes to evaluate the ENABLED of it).
DequeueFairness == []<><<DoDequeue>>_vars \/ <>[](Held = {})

FairSpec == Spec /\ DequeueFairness

-----------------------------------------------------------------------------
(***************************************************************************)
(* Properties                                                              *)
(***************************************************************************)

TypeOK ==
  /\ fifos \in [Pifos -> Seq(Packet)]
  /\ pifos \in [Pifos -> SUBSET Packet]
  /\ fifoBufferUsage \in [Pifos -> Nat]
  /\ pifoCurrentSizes \in [Pifos -> Nat]
  /\ pifoIndex \in Pifos
  /\ ackFifo \in Seq(Packet)
  /\ ackInputPointer \in Pifos
  /\ ackOutputPointer \in Pifos
  /\ ret \in [call : {"none", "enqueue", "dequeue"}, packets : SUBSET Packet]
  /\ arrivals \in 0 .. MaxPackets
  /\ sent \in SUBSET Packet
  /\ dropped \in SUBSET Packet
  /\ bypassed \in [Pifos -> Nat]

\* The packets of the acknowledgement FIFO that were charged to PIFO p.
ChargedTo(p) ==
  {ackFifo[n] : n \in {m \in 1 .. Len(ackFifo) : (ackOutputPointer + m - 1) % NumPifos = p}}

\* m_pifoCurrentSizes[p] is the bytes in PIFO p plus the queued acknowledgements
\* charged to it: the two ack pointers take off each charge where it was made,
\* and refills, pops and evictions keep count (DoEnqueue, DoDequeue, Refill).
PifoSizesExact ==
  \A p \in Pifos : pifoCurrentSizes[p] = Bytes(pifos[p]) + Bytes(ChargedTo(p))

\* m_fifoBufferUsage[p] is the bytes in FIFO p, and an admitted packet never
\* fills the FIFO to its limit.
FifoUsageExact ==
  \A p \in Pifos : /\ fifoBufferUsage[p] = Bytes(InFifo(p))
                   /\ fifos[p] # <<>> => fifoBufferUsage[p] < FifoLimit

\* Between calls no PIFO holds more data than its buffer, although nothing but
\* the refill of a visited PIFO ever looks at its size.
PifosFit == \A p \in Pifos : Bytes(pifos[p]) <= PifoBuffer

\* A packet is evicted only from a PIFO that could not have kept it: putting the
\* best of the evicted packets back would overflow the buffer with data alone.
\* Acknowledgements, charged to the same sizes, never cost a data packet.
EvictedOnlyWhenFull ==
  [][ret'.call = "dequeue" =>
       \A p \in Pifos :
         LET lost == (dropped' \ dropped) \cap (InFifo(p) \cup pifos[p])
             kept == IF pifos[p] = {}
                       THEN pifos'[p] \cup (ret'.packets \cap InFifo(p))
                       ELSE pifos'[p]
         IN  lost # {} => Bytes(kept \cup {Best(lost)}) > PifoBuffer]_vars

\* Round robin between the PIFOs: while a PIFO holds packets, or its FIFO does,
\* at most one packet of every other PIFO is sent before it has its turn.
BypassBounded == \A p \in Pifos : bypassed[p] < NumPifos

Contract == INSTANCE WorkConservingQueue WITH held <- Held, evicting <- {"dequeue"}

\* The queue disc keeps the contract of WorkConservingQueue: no packet is lost,
\* duplicated or sent after being dropped, only DoDequeue drops packets it holds,
\* and it answers null only when FIFOs, PIFOs and ack FIFO are all empty.
ImplementsQueue == Contract!Spec

\* While DoDequeue goes on being called, every packet that was let in leaves,
\* sent or evicted, once the (finitely many) arrivals are over.
EveryPacketLeaves ==
  \A n \in 1 .. MaxPackets :
    arrivals >= n ~> \E k \in sent \cup dropped : k.id = n
=============================================================================
