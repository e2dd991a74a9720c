--------------------------- MODULE BaselineQueues ---------------------------
(***************************************************************************)
(* The five queue discs the Scale-up PIFO is compared with in ns-3: one    *)
(* ideal PIFO, PIFOs filled and served in rotation (RRInterleaving), SP-   *)
(* PIFO, AIFO and PACKS.  All of them keep their packets in queues         *)
(* ("lanes" here) and differ in how DoEnqueue chooses one and DoDequeue    *)
(* serves them; disc says which of them a behaviour is about.  A lane that *)
(* is a PIFO, a std::multiset in the code, is the sequence of its items in *)
(* order.  Doubles are taken as exact numbers.                             *)
(***************************************************************************)
EXTENDS Sequences, SequencesExt, Totals

CONSTANTS
  Discs,         \* the queue discs modelled, a subset of AllDiscs
  NumLanes,      \* PIFO_NUM, m_fifoNum
  Buffer,        \* m_bufferSize, BUFFER_SIZE: a multiple of NumLanes
  WindowSize,    \* m_windowSize
  KTenths,       \* 10 * m_k
  Keys,          \* the pairs of a rank and a send time packets may have
  Sizes,         \* the sizes packets may have
  MaxPackets     \* bound on the number of packets of a run

VARIABLES
  disc,          \* the queue disc: never changes
  lanes,         \* m_queue, m_queues, m_fifos, m_fifoQueue
  laneSizes,     \* m_pifoSize, m_pifoSizes, m_fifoSizes, m_currentBufferUsage
  inputPointer, outputPointer,        \* RRInterleaving, % PIFO_NUM
  ackFifo, ackInputPointer, ackOutputPointer,
  borders,       \* m_borders of SP-PIFO
  slidingWindow, windowPointer,       \* of AIFO and PACKS
  ret,           \* the last call and its answer
  arrivals, sent, dropped             \* history: packets so far, sent, dropped

pointers == <<inputPointer, outputPointer>>
acks     == <<ackFifo, ackInputPointer, ackOutputPointer>>
window   == <<slidingWindow, windowPointer>>

vars == <<disc, lanes, laneSizes, pointers, acks, borders, window, ret,
          arrivals, sent, dropped>>

AllDiscs == {"ideal", "rr", "sppifo", "aifo", "packs"}

Lanes == 0 .. NumLanes - 1

ASSUME BaselineAssumption ==
  /\ Discs \subseteq AllDiscs
  /\ NumLanes \in Nat \ {0}
  /\ Buffer \in Nat
  /\ Buffer % NumLanes = 0
  /\ WindowSize \in Nat \ {0}
  /\ KTenths \in 0 .. 9
  /\ Sizes \subseteq 1 .. (Buffer \div NumLanes)  \* a packet fits in a lane
  /\ Keys \subseteq (Nat \ {0}) \X Nat
  /\ MaxPackets \in Nat

\* The rank of acknowledgements, which have no send time here
AckKey == <<1, 0>>

Labelled(id, key, size) == [id |-> id, rank |-> key[1], time |-> key[2], size |-> size]

Packet == {Labelled(id, key, size) :
             id \in 1 .. MaxPackets, key \in Keys \cup {AckKey}, size \in Sizes}

LanesUsed == IF disc \in {"ideal", "aifo"} THEN {0} ELSE Lanes

\* m_bufferPerPifo, m_perFifoBuffer, m_bufferPerQueue
LaneBuffer == Buffer \div Cardinality(LanesUsed)

Fits_BeforePush(i, size) == laneSizes[i] <= LaneBuffer  \* mutant: without the packet

Fits_Strict(i, size) == laneSizes[i] + size < LaneBuffer  \* mutant

Fits(i, size) == laneSizes[i] + size <= LaneBuffer

(***************************************************************************)
(* InitializeParams                                                        *)
(***************************************************************************)
Init ==
  /\ disc \in Discs
  /\ lanes = [i \in Lanes |-> <<>>]
  /\ laneSizes = [i \in Lanes |-> 0]
  /\ inputPointer = 0
  /\ outputPointer = 0
  /\ ackFifo = <<>>
  /\ ackInputPointer = 0
  /\ ackOutputPointer = 0
  /\ borders = [i \in Lanes |-> 0]
  /\ slidingWindow = [n \in 0 .. WindowSize - 1 |-> 0]
  /\ windowPointer = 0
  /\ ret = [call |-> "none", packets |-> {}]
  /\ arrivals = 0
  /\ sent = {}
  /\ dropped = {}

Answer(call, packets) == ret' = [call |-> call, packets |-> packets]

Arrives(k) ==
  /\ arrivals < MaxPackets
  /\ k.id = arrivals + 1
  /\ arrivals' = arrivals + 1
  /\ UNCHANGED <<disc, sent>>

\* The packet goes to the end of FIFO i.
Push(i, k) ==
  /\ lanes' = [lanes EXCEPT ![i] = Append(@, k)]
  /\ laneSizes' = [laneSizes EXCEPT ![i] = @ + k.size]
  /\ Answer("enqueue", {k})
  /\ UNCHANGED dropped

Refuse(k) ==
  /\ dropped' = dropped \cup {k}
  /\ Answer("enqueue", {})
  /\ UNCHANGED <<lanes, laneSizes>>

-----------------------------------------------------------------------------
(***************************************************************************)
(* The PIFOs: IdealPIFOScheduler and RRInterleavingPIFOScheduler           *)
(***************************************************************************)

\* PifoItem::operator<
Before(j, k) == j.rank < k.rank \/ (j.rank = k.rank /\ j.time < k.time)

\* A multiset inserts before the first item that is greater.
Inserted(s, k) ==
  InsertAt(s, Min({n \in 1 .. Len(s) : Before(k, s[n])} \cup {Len(s) + 1}), k)

\* The number of items left when the last ones are evicted until size more
\* bytes fit, or none is left.
NumKept(i, size) ==
  LET Left(n) == laneSizes[i] - Bytes(ToSet(SubSeq(lanes[i], n + 1, Len(lanes[i]))))
  IN  Max({0} \cup {n \in 1 .. Len(lanes[i]) : Left(n) + size <= LaneBuffer})

\* The items at the end of PIFO i are evicted until the packet fits; if it does
\* not fit in an empty PIFO either it is dropped too, and they are lost for nothing.
EnqueuePifo(i, k) ==
  LET n    == NumKept(i, k.size)
      kept == SubSeq(lanes[i], 1, n)
      lost == ToSet(SubSeq(lanes[i], n + 1, Len(lanes[i])))
      left == laneSizes[i] - Bytes(lost)
      fits == left + k.size <= LaneBuffer
  IN  /\ lanes' = [lanes EXCEPT ![i] = IF fits THEN Inserted(kept, k) ELSE kept]
      /\ laneSizes' = [laneSizes EXCEPT ![i] = IF fits THEN left + k.size ELSE left]
      /\ dropped' = dropped \cup lost \cup (IF fits THEN {} ELSE {k})
      /\ Answer("enqueue", IF fits THEN {k} ELSE {})

EnqueueIdeal(k) ==
  /\ disc = "ideal"
  /\ EnqueuePifo(0, k)
  /\ UNCHANGED <<pointers, acks, borders, window>>

\* m_inputPointer stays where it is when the packet is dropped.
EnqueueRR(k) ==
  /\ disc = "rr"
  /\ EnqueuePifo(inputPointer, k)
  /\ inputPointer' = IF ret'.packets = {} THEN inputPointer
                                          ELSE (inputPointer + 1) % NumLanes
  /\ UNCHANGED <<outputPointer, acks, borders, window>>

\* An acknowledgement has a FIFO of its own in RRInterleaving only, and room for
\* it is not asked for; the others take it for a packet of rank 1.
EnqueueAck(k) ==
  /\ disc = "rr"
  /\ laneSizes' = [laneSizes EXCEPT ![ackInputPointer] = @ + k.size]
  /\ ackInputPointer' = (ackInputPointer + 1) % NumLanes
  /\ ackFifo' = Append(ackFifo, k)
  /\ Answer("enqueue", {k})
  /\ UNCHANGED <<lanes, pointers, ackOutputPointer, borders, window, dropped>>

-----------------------------------------------------------------------------
(***************************************************************************)
(* SPPIFOScheduler                                                         *)
(***************************************************************************)
Reached_FromLast(i, rank) ==  \* mutant: the borders are tried from the last one on
  rank >= borders[i] /\ \A j \in i + 1 .. NumLanes - 1 : rank < borders[j]

\* The first FIFO whose border the rank reaches.
Reached(i, rank) == rank >= borders[i] /\ \A j \in 0 .. i - 1 : rank < borders[j]

\* The border is raised to the rank: it is not above it.
PushUp(i, k) ==
  /\ Reached(i, k.rank)
  /\ IF Fits(i, k.size)
       THEN Push(i, k) /\ borders' = [borders EXCEPT ![i] = k.rank]
       ELSE Refuse(k) /\ UNCHANGED borders

\* The rank reaches no border: all of them are lowered, also if it is dropped.
PushDown(k) ==
  /\ \A i \in Lanes : k.rank < borders[i]
  /\ borders' = [i \in Lanes |-> borders[i] - (borders[0] - k.rank)]
  /\ IF Fits(0, k.size) THEN Push(0, k) ELSE Refuse(k)

EnqueueSPPIFO(k) ==
  /\ disc = "sppifo"
  /\ PushDown(k) \/ \E i \in Lanes : PushUp(i, k)
  /\ UNCHANGED <<pointers, acks, window>>

-----------------------------------------------------------------------------
(***************************************************************************)
(* AIFOScheduler and PacksScheduler: the quantile of the rank among the    *)
(* last WindowSize ranks against the share of the buffer that is free      *)
(***************************************************************************)
Slide(rank) ==
  /\ slidingWindow' = [slidingWindow EXCEPT ![windowPointer] = rank]
  /\ windowPointer' = (windowPointer + 1) % WindowSize

Smaller(rank) ==
  Cardinality({n \in 0 .. WindowSize - 1 : slidingWindow'[n] < rank})

\* quantile < threshold and quantile <= threshold, for a threshold of
\* free / (m_bufferSize * (1 - m_k)), without the divisions
Below(rank, free) ==
  Smaller(rank) * Buffer * (10 - KTenths) < free * WindowSize * 10

NotAbove(rank, free) ==
  Smaller(rank) * Buffer * (10 - KTenths) <= free * WindowSize * 10

\* The queue is short, less than m_k of the buffer, or the rank is low enough.
Admits(k) ==
  \/ 10 * laneSizes[0] < KTenths * Buffer
  \/ Below(k.rank, Buffer - laneSizes[0])

EnqueueAIFO(k) ==
  /\ disc = "aifo"
  /\ Slide(k.rank)
  /\ IF Admits(k) /\ Fits(0, k.size) THEN Push(0, k) ELSE Refuse(k)
  /\ UNCHANGED <<pointers, acks, borders>>

\* What is free in the FIFOs up to i
FreeUpTo(i) == Max({0, LaneBuffer * (i + 1) - Total(laneSizes, 0 .. i)})

TakenBy(i, k) == NotAbove(k.rank, FreeUpTo(i)) /\ Fits(i, k.size)

EnqueuePacks(k) ==
  /\ disc = "packs"
  /\ Slide(k.rank)
  /\ \/ \E i \in Lanes : /\ TakenBy(i, k)
                         /\ \A j \in 0 .. i - 1 : ~TakenBy(j, k)
                         /\ Push(i, k)
     \/ (\A i \in Lanes : ~TakenBy(i, k)) /\ Refuse(k)
  /\ UNCHANGED <<pointers, acks, borders>>

\* The FIFOs do not read the send time: they get the packets without one.
DoEnqueue ==
  \E size \in Sizes, key \in Keys \cup {AckKey} :
    LET k == Labelled(arrivals + 1, key, size)
    IN  /\ Arrives(k)
        /\ \/ EnqueueIdeal(k)
           \/ EnqueueRR(k)
           \/ key = AckKey /\ EnqueueAck(k)
           \/ key[2] = 0 /\ EnqueueSPPIFO(k)
           \/ key[2] = 0 /\ EnqueueAIFO(k)
           \/ key[2] = 0 /\ EnqueuePacks(k)

-----------------------------------------------------------------------------
(***************************************************************************)
(* DoDequeue                                                               *)
(***************************************************************************)
DequeueAck ==
  LET k == Head(ackFifo)
  IN  /\ ackFifo # <<>>
      /\ ackFifo' = Tail(ackFifo)
      /\ laneSizes' = [laneSizes EXCEPT ![ackOutputPointer] = @ - k.size]
      /\ ackOutputPointer' = (ackOutputPointer + 1) % NumLanes
      /\ sent' = sent \cup {k}
      /\ Answer("dequeue", {k})
      /\ UNCHANGED <<lanes, pointers, ackInputPointer>>

\* The lane visited n-th: RRInterleaving starts where it stopped, the others
\* serve their lanes in strict priority, or have but one.
Turn(n) == IF disc = "rr" THEN (outputPointer + n) % NumLanes ELSE n

NextPointer(i) == IF disc = "rr" THEN (i + 1) % NumLanes ELSE outputPointer

Visited_First == {0}  \* mutant: only the first lane is looked at

Visited == LanesUsed

DequeueLane(n) ==
  LET i == Turn(n)
      k == Head(lanes[i])
  IN  /\ ackFifo = <<>>
      /\ lanes[i] # <<>>
      /\ \A m \in 0 .. n - 1 : lanes[Turn(m)] = <<>>
      /\ lanes' = [lanes EXCEPT ![i] = Tail(@)]
      /\ laneSizes' = [laneSizes EXCEPT ![i] = @ - k.size]
      /\ outputPointer' = NextPointer(i)
      /\ sent' = sent \cup {k}
      /\ Answer("dequeue", {k})
      /\ UNCHANGED <<inputPointer, acks>>

\* The rotation has gone once around.
DequeueNothing ==
  /\ ackFifo = <<>>
  /\ \A n \in Visited : lanes[Turn(n)] = <<>>
  /\ Answer("dequeue", {})
  /\ UNCHANGED <<lanes, laneSizes, pointers, acks, sent>>

DoDequeue ==
  /\ DequeueAck \/ DequeueNothing \/ \E n \in Visited : DequeueLane(n)
  /\ UNCHANGED <<disc, borders, window, arrivals, dropped>>

Next == DoEnqueue \/ DoDequeue

Spec == Init /\ [][Next]_vars

-----------------------------------------------------------------------------
(***************************************************************************)
(* Properties                                                              *)
(***************************************************************************)

InLane(i) == ToSet(lanes[i])

Held == (UNION {InLane(i) : i \in Lanes}) \cup ToSet(ackFifo)

\* The acknowledgements that were charged to lane i
ChargedTo(i) ==
  {ackFifo[n] : n \in {m \in 1 .. Len(ackFifo) : (ackOutputPointer + m - 1) % NumLanes = i}}

\* The sizes the five queue discs keep are the bytes of the lane, plus in
\* RRInterleaving the acknowledgements charged to it by one pointer and taken
\* off by another; and the packets of a lane fit in its buffer.
LaneSizesExact ==
  \A i \in Lanes : /\ laneSizes[i] = Bytes(InLane(i)) + Bytes(ChargedTo(i))
                   /\ Bytes(InLane(i)) <= LaneBuffer

\* What makes SPPIFOScheduler find a lane in one pass: its borders descend, so
\* that FIFO 0, which is served first, takes the highest ranks; and no border
\* is above the rank that was last let into its FIFO.
BordersDescend ==
  disc = "sppifo" =>
    \A i \in Lanes :
      /\ \A j \in 0 .. i : borders[j] >= borders[i]
      /\ lanes[i] # <<>> => borders[i] <= Last(lanes[i]).rank

\* A packet is refused only for want of room: never by the ideal PIFO; by
\* RRInterleaving only if queued acknowledgements alone fill the PIFO; by SP-
\* PIFO only if a FIFO is full; and by AIFO and PACKS, if no rank of the window
\* is smaller, only if no lane has room for it (DoEnqueue of the five).
RefusedOnlyForRoom ==
  [][\A k \in dropped' \ dropped :
       k.id = arrivals' /\ arrivals' # arrivals =>
         CASE disc = "ideal"  -> FALSE
           [] disc = "rr"     -> Bytes(ChargedTo(inputPointer)) + k.size > LaneBuffer
           [] disc = "sppifo" -> \E i \in Lanes : laneSizes[i] + k.size > LaneBuffer
           [] OTHER ->
                \/ \E n \in DOMAIN slidingWindow' : slidingWindow'[n] < k.rank
                \/ \A i \in LanesUsed : laneSizes[i] + k.size > LaneBuffer]_vars

Contract == INSTANCE WorkConservingQueue
  WITH held <- Held, evicting <- IF disc \in {"ideal", "rr"} THEN {"enqueue"} ELSE {}

\* All five keep the contract of WorkConservingQueue: no packet is lost,
\* duplicated or sent after being dropped, only the PIFOs' DoEnqueue drops packets
\* they hold, and DoDequeue answers null only when nothing is held.
ImplementsQueue == Contract!Spec
=============================================================================
