----------------------------- MODULE SingleNode -----------------------------
(***************************************************************************)
(* The single-node simulator: process_scheduler of utils.py feeds packets  *)
(* to one scheduler of scheduler.py and drains it, in one thread, until    *)
(* there is no packet left to feed and the scheduler says it is empty.     *)
(* All schedulers keep their packets in queues ("lanes"); disc says which  *)
(* scheduler a behaviour is about.  A step is one round of the driver's    *)
(* loop.  The rank an algorithm computes is any of Ranks; rank errors and  *)
(* delays, which nothing reads back, are left out.  The PIFO the load      *)
(* balancer of Scale-up PIFO picks is any (see module DynamicIntervals).   *)
(***************************************************************************)
EXTENDS Sequences, SequencesExt, Totals

CONSTANTS
  Discs,         \* the schedulers modelled, a subset of AllDiscs
  NumLanes,      \* PIFO_num, num_pifos, fifo_num
  LaneBuffer,    \* buffer_per_pifo, per_fifo_buffer, buffer_per_queue ...
  FifoLimit, RefillBatch,    \* per_fifo_buffer_limit, refill_batch_size
  NumLevels, Granularities,  \* Gearbox: num_levels, granularities
  WindowSize,    \* window_size; k is 0, as in the experiments
  Ratio,         \* congestion_ratio
  Ranks, Sizes,  \* the ranks and sizes packets may have
  NumPackets     \* the packets of a run

VARIABLES
  disc,          \* the scheduler: never changes
  lanes,         \* queue, queues, fifos, fifo_queue, levels
  sizes,         \* pifo_size, pifo_sizes, fifo_buffer_usage, fifo_sizes ...
  pifos,         \* pifos of Scale-up PIFO, each behind a lane: the sets of their packets
  pifoSizes,     \* pifo_current_sizes
  inputPointer,  \* input_pointer % PIFO_num of RRInterleaving
  outputPointer, \* output_pointer % PIFO_num, pifo_index
  borders,       \* of SP-PIFO
  slidingWindow, windowPointer,  \* of AIFO and PACKS
  ready, ts,     \* ready_queue of Gearbox and its ts, modulo MaxRange
  queue,         \* the SortedList all packets are in, kept to measure rank errors
  inputCount, outputCount,       \* input_count, output_count
  state          \* "loop", "end", or "exit" when PACKS calls exit(0)

store   == <<lanes, sizes, pifos, pifoSizes, queue>>
special == <<inputPointer, outputPointer, borders, slidingWindow, windowPointer,
             ready, ts>>
vars == <<disc, store, special, inputCount, outputCount, state>>

AllDiscs == {"ideal", "rr", "scaleup", "gearbox", "sppifo", "aifo", "packs",
             "wfqpcq", "sppcq"}

Lane == 0 .. (IF disc = "gearbox" THEN NumLanes * NumLevels
              ELSE IF disc \in {"ideal", "aifo"} THEN 1 ELSE NumLanes) - 1

ASSUME SingleNodeAssumption ==
  /\ Discs \subseteq AllDiscs
  /\ {NumLanes, NumLevels, RefillBatch, WindowSize, Ratio} \subseteq Nat \ {0}
  /\ {LaneBuffer, FifoLimit, NumPackets} \subseteq Nat
  /\ Sizes \subseteq 1 .. LaneBuffer   \* a packet is smaller than a lane
  /\ Ranks \subseteq Nat

\* Element.__lt__
Less(j, k) == j.rank < k.rank \/ (j.rank = k.rank /\ j.id < k.id)

\* The SortedList of the packets of S: n - 1 of them are less than the n-th.
Sorted(S) ==
  [n \in 1 .. Cardinality(S) |->
     CHOOSE k \in S : Cardinality({j \in S : Less(j, k)}) = n - 1]

Room(i, k) == sizes[i] + k.size <= LaneBuffer

Init ==
  /\ disc \in Discs
  /\ lanes = [i \in Lane |-> <<>>]
  /\ sizes = [i \in Lane |-> 0]
  /\ pifos = [i \in Lane |-> {}]
  /\ pifoSizes = [i \in Lane |-> 0]
  /\ inputPointer = 0
  /\ outputPointer = 0
  /\ borders = [i \in Lane |-> 0]
  /\ slidingWindow = [n \in 0 .. WindowSize - 1 |-> 0]
  /\ windowPointer = 0
  /\ ready = <<>>
  /\ ts = 0
  /\ queue = {}
  /\ inputCount = 0
  /\ outputCount = 0
  /\ state = "loop"

-----------------------------------------------------------------------------
(***************************************************************************)
(* enqueue: every packet handed over counts as input, also a refused one   *)
(***************************************************************************)
Put(i, k) ==
  /\ lanes' = [lanes EXCEPT ![i] = Append(@, k)]
  /\ sizes' = [sizes EXCEPT ![i] = @ + k.size]
  /\ queue' = queue \cup {k}
  /\ UNCHANGED <<pifos, pifoSizes, state>>

Refuse == UNCHANGED <<store, state>>

PutIfRoom(i, k) == IF Room(i, k) THEN Put(i, k) ELSE Refuse

\* What is left of a PIFO when the last items are popped until size fits
Kept(S, size) == {k \in S : size - Bytes({j \in S : Less(k, j)}) <= LaneBuffer}

Relisted_KeepsLost(lost, k) == queue \cup {k}  \* mutant

\* The evicted packets leave the SortedList and the new one enters it.
Relisted(lost, k) == (queue \ lost) \cup {k}

\* IdealPIFOScheduler and RRInterleavingPIFOScheduler: the worst items make room
\* for the packet, which is added in any case.
EnqueuePifo(i, k) ==
  LET kept == Kept(ToSet(lanes[i]), sizes[i] + k.size)
      lost == ToSet(lanes[i]) \ kept
  IN  /\ lanes' = [lanes EXCEPT ![i] = Sorted(kept \cup {k})]
      /\ sizes' = [sizes EXCEPT ![i] = @ - Bytes(lost) + k.size]
      /\ queue' = Relisted(lost, k)
      /\ UNCHANGED <<pifos, pifoSizes, state>>

EnqueueIdeal(k) == disc = "ideal" /\ EnqueuePifo(0, k) /\ UNCHANGED special

EnqueueRR(k) ==
  /\ disc = "rr"
  /\ EnqueuePifo(inputPointer, k)
  /\ inputPointer' = (inputPointer + 1) % NumLanes
  /\ UNCHANGED <<outputPointer, borders, slidingWindow, windowPointer, ready, ts>>

\* DynamicIntervalRRPIFOScheduler
EnqueueScaleUp(k) ==
  /\ disc = "scaleup"
  /\ \E i \in Lane : IF sizes[i] + k.size < FifoLimit THEN Put(i, k) ELSE Refuse
  /\ UNCHANGED special

\* SPPIFOScheduler: the last FIFO whose border the rank reaches; with none, all
\* borders are lowered, also if the packet is refused.
EnqueueSPPIFO(k) ==
  /\ disc = "sppifo"
  /\ \/ \E i \in Lane :
          /\ k.rank >= borders[i] /\ \A j \in Lane : j > i => k.rank < borders[j]
          /\ PutIfRoom(i, k)
          /\ borders' = IF Room(i, k) THEN [borders EXCEPT ![i] = k.rank] ELSE borders
     \/ /\ \A i \in Lane : k.rank < borders[i]
        /\ PutIfRoom(0, k)
        /\ borders' = [i \in Lane |-> borders[i] - (borders[0] - k.rank)]
  /\ UNCHANGED <<inputPointer, outputPointer, slidingWindow, windowPointer, ready, ts>>

Slide(rank) ==
  /\ slidingWindow' = [slidingWindow EXCEPT ![windowPointer] = rank]
  /\ windowPointer' = (windowPointer + 1) % WindowSize
  /\ UNCHANGED <<inputPointer, outputPointer, borders, ready, ts>>

Smaller(rank) ==
  Cardinality({n \in 0 .. WindowSize - 1 : slidingWindow'[n] < rank})

\* AIFOScheduler: the last byte of the buffer is never used.
EnqueueAIFO(k) ==
  /\ disc = "aifo"
  /\ Slide(k.rank)
  /\ IF /\ Smaller(k.rank) * LaneBuffer < (LaneBuffer - sizes[0]) * WindowSize
        /\ sizes[0] + k.size < LaneBuffer
       THEN Put(0, k)
       ELSE Refuse

\* PacksScheduler: the quantile is not above the share of the buffer free in the
\* FIFOs up to i.
Chosen(i, rank) ==
  LET free == LaneBuffer * (i + 1) - Total(sizes, 0 .. i)
  IN  Smaller(rank) * LaneBuffer * NumLanes <= (IF free < 0 THEN 0 ELSE free) * WindowSize

\* A FIFO that is not full takes the packet; a chosen FIFO that is full ends the
\* program, with a message.
EnqueuePacks(k) ==
  /\ disc = "packs"
  /\ Slide(k.rank)
  /\ \/ \E i \in Lane :
          /\ Chosen(i, k.rank) /\ \A j \in 0 .. i - 1 : ~Chosen(j, k.rank)
          /\ IF sizes[i] < LaneBuffer THEN Put(i, k)
                                      ELSE state' = "exit" /\ UNCHANGED store
     \/ (\A i \in Lane : ~Chosen(i, k.rank)) /\ Refuse

\* WFQPCQScheduler: FIFO n from the one in service; sizes is indexed alike, but
\* stays where it is when the FIFOs rotate.
EnqueueWFQPCQ(k) ==
  /\ disc = "wfqpcq"
  /\ IF k.rank < NumLanes THEN PutIfRoom(k.rank, k) ELSE Refuse
  /\ UNCHANGED special

\* SPPCQScheduler
EnqueueSPPCQ(k) ==
  /\ disc = "sppcq"
  /\ PutIfRoom(IF k.rank < NumLanes THEN k.rank ELSE NumLanes - 1, k)
  /\ UNCHANGED special

-----------------------------------------------------------------------------
(***************************************************************************)
(* GearboxScheduler: FIFO f of level l is lane l * NumLanes + f            *)
(***************************************************************************)
Levels == 0 .. NumLevels - 1

MaxRange == Max({Granularities[l] * NumLanes : l \in Levels})

\* So that ts // g % m is the same for ts and for ts modulo MaxRange
ASSUME GearboxAssumption ==
  /\ Granularities \in [Levels -> Nat \ {0}]
  /\ \A l \in Levels : MaxRange % (Granularities[l] * NumLanes) = 0

Slot(l, time) == l * NumLanes + ((time \div Granularities[l]) % NumLanes)

\* A rank beyond the last level is refused.
EnqueueGearbox(k) ==
  /\ disc = "gearbox"
  /\ \/ \E l \in Levels :
          /\ k.rank < Granularities[l] * NumLanes
          /\ \A j \in 0 .. l - 1 : k.rank >= Granularities[j] * NumLanes
          /\ PutIfRoom(l * NumLanes + (((ts \div Granularities[l])
                                        + (k.rank \div Granularities[l])) % NumLanes), k)
     \/ k.rank >= MaxRange /\ Refuse
  /\ UNCHANGED special

\* _get_compound_fifo
Compound(time) == {Slot(l, time) : l \in Levels}

\* updateGearBoxSysTime: the next time one of its FIFOs has a packet
NextTime ==
  LET busy == {d \in 0 .. MaxRange - 1 :
                 \E i \in Compound((ts + d) % MaxRange) : lanes[i] # <<>>}
  IN  IF busy = {} THEN ts ELSE (ts + Min(busy)) % MaxRange

ServeCount_NoMinimum(l, n) == IF l = 0 THEN n ELSE n \div Granularities[l]  \* mutant: may be 0

ServeCount(l, n) == IF l = 0 THEN n ELSE Max({1, n \div Granularities[l]})

\* GearboxServe at a time: how many packets leave a lane, and which
Served(time) ==
  [i \in Lane |-> LET l == i \div NumLanes
                  IN  IF Slot(l, time) = i /\ lanes[i] # <<>>
                        THEN ServeCount(l, Len(lanes[i])) ELSE 0]

DequeueGearbox ==
  LET served == IF ready = <<>> THEN Served(NextTime) ELSE [i \in Lane |-> 0]
      moved  == [i \in Lane |-> SubSeq(lanes[i], 1, served[i])]
      queued == ready \o FlattenSeq([n \in 1 .. Cardinality(Lane) |-> moved[n - 1]])
  IN  /\ disc = "gearbox"
      /\ ts' = IF ready = <<>> THEN (NextTime + 1) % MaxRange ELSE ts
      /\ lanes' = [i \in Lane |-> SubSeq(lanes[i], served[i] + 1, Len(lanes[i]))]
      /\ sizes' = [i \in Lane |-> sizes[i] - Bytes(ToSet(moved[i]))]
      /\ IF queued = <<>>
           THEN UNCHANGED <<ready, queue, outputCount>>
           ELSE /\ ready' = Tail(queued)
                /\ queue' = queue \ {Head(queued)}
                /\ outputCount' = outputCount + 1
      /\ UNCHANGED <<pifos, pifoSizes, inputPointer, outputPointer, borders,
                     slidingWindow, windowPointer>>

-----------------------------------------------------------------------------
(***************************************************************************)
(* dequeue: an answer without a packet does not count as output            *)
(***************************************************************************)
Take(i) ==
  /\ lanes' = [lanes EXCEPT ![i] = Tail(@)]
  /\ sizes' = [sizes EXCEPT ![i] = @ - Head(lanes[i]).size]
  /\ queue' = queue \ {Head(lanes[i])}
  /\ outputCount' = outputCount + 1
  /\ UNCHANGED <<pifos, pifoSizes>>

\* The first lane that has a packet, counted from output_pointer in RRInterleaving
DequeueFirst ==
  LET Turn(n) == IF disc = "rr" THEN (outputPointer + n) % NumLanes ELSE n
  IN  /\ disc \in {"ideal", "rr", "sppifo", "aifo", "packs", "sppcq"}
      /\ \E n \in Lane :
           /\ lanes[Turn(n)] # <<>>
           /\ \A m \in 0 .. n - 1 : lanes[Turn(m)] = <<>>
           /\ Take(Turn(n))
           /\ outputPointer' = IF disc = "rr" THEN (Turn(n) + 1) % NumLanes
                                              ELSE outputPointer
      /\ UNCHANGED <<inputPointer, borders, slidingWindow, windowPointer, ready, ts>>

\* _rotate_queues until FIFO 0 has a packet
DequeueWFQPCQ ==
  /\ disc = "wfqpcq"
  /\ \E n \in Lane :
       /\ lanes[n] # <<>>
       /\ \A m \in 0 .. n - 1 : lanes[m] = <<>>
       /\ lanes' = [i \in Lane |-> IF i = 0 THEN Tail(lanes[n]) ELSE lanes[(i + n) % NumLanes]]
       /\ sizes' = [sizes EXCEPT ![0] = @ - Head(lanes[n]).size]
       /\ queue' = queue \ {Head(lanes[n])}
  /\ outputCount' = outputCount + 1
  /\ UNCHANGED <<pifos, pifoSizes, special>>

\* _refill_from_fifo: the packets that move, and what a PIFO that holds S, and says
\* size, then keeps
Moved(i) == SubSeq(lanes[i], 1, Min({RefillBatch, Len(lanes[i])}))

Refilled(S, size, moved) == Kept(S \cup moved, size + Bytes(moved))

\* Only the PIFO whose turn it is is asked: it sends its best packet and is
\* refilled after, or before if it had none.
DequeueScaleUp ==
  LET i     == outputPointer
      moved == ToSet(Moved(i))
      had   == pifos[i] # {}
      first == IF had THEN pifos[i] ELSE Refilled({}, pifoSizes[i], moved)
      sends == Head(Sorted(first))
      rest  == first \ {sends}
      after == IF had THEN Refilled(rest, pifoSizes[i] - sends.size, moved) ELSE rest
      lost  == (pifos[i] \cup moved) \ (after \cup {sends})
  IN  /\ disc = "scaleup"
      /\ outputPointer' = (outputPointer + 1) % NumLanes
      /\ IF ~had /\ lanes[i] = <<>>
           THEN UNCHANGED <<store, outputCount>>
           ELSE /\ lanes' = [lanes EXCEPT ![i] = SubSeq(@, Len(Moved(i)) + 1, Len(@))]
                /\ sizes' = [sizes EXCEPT ![i] = @ - Bytes(moved)]
                /\ pifos' = [pifos EXCEPT ![i] = after]
                /\ pifoSizes' = [pifoSizes EXCEPT
                     ![i] = @ + Bytes(moved) - sends.size - Bytes(lost)]
                /\ queue' = queue \ (lost \cup {sends})
                /\ outputCount' = outputCount + 1
      /\ UNCHANGED <<inputPointer, borders, slidingWindow, windowPointer, ready, ts>>

-----------------------------------------------------------------------------
(***************************************************************************)
(* process_scheduler                                                       *)
(***************************************************************************)

\* is_empty: Gearbox does not look at its ready queue.
IsEmpty == \A i \in Lane : lanes[i] = <<>> /\ pifos[i] = {}

\* _should_enqueue, mode "pkt"
ShouldEnqueue == inputCount < (outputCount + 1) * Ratio

Enqueue ==
  \E rank \in Ranks, size \in Sizes :
    LET k == [id |-> inputCount + 1, rank |-> rank, size |-> size]
    IN  \/ EnqueueIdeal(k)
        \/ EnqueueRR(k)
        \/ EnqueueScaleUp(k)
        \/ EnqueueSPPIFO(k)
        \/ EnqueueAIFO(k)
        \/ EnqueuePacks(k)
        \/ EnqueueWFQPCQ(k)
        \/ EnqueueSPPCQ(k)
        \/ EnqueueGearbox(k)

Dequeue == DequeueFirst \/ DequeueWFQPCQ \/ DequeueScaleUp \/ DequeueGearbox

Feed ==
  /\ state = "loop"
  /\ inputCount < NumPackets
  /\ ShouldEnqueue \/ IsEmpty
  /\ Enqueue
  /\ inputCount' = inputCount + 1
  /\ UNCHANGED <<disc, outputCount>>

Drain ==
  /\ state = "loop"
  /\ ~IsEmpty
  /\ inputCount = NumPackets \/ ~ShouldEnqueue
  /\ Dequeue
  /\ UNCHANGED <<disc, inputCount, state>>

End ==
  /\ state = "loop"
  /\ inputCount = NumPackets
  /\ IsEmpty
  /\ state' = "end"
  /\ UNCHANGED <<disc, store, special, inputCount, outputCount>>

Next == Feed \/ Drain \/ End

Spec == Init /\ [][Next]_vars

\* The driver is a loop in one thread.
FairSpec == Spec /\ WF_vars(Next)

-----------------------------------------------------------------------------
(***************************************************************************)
(* Properties                                                              *)
(***************************************************************************)

InLanes == UNION {ToSet(lanes[i]) \cup pifos[i] : i \in Lane}

SizesAgree ==
  IF disc = "wfqpcq"
    THEN SignedTotal(sizes, Lane) = Bytes(queue)
    ELSE \A i \in Lane : /\ sizes[i] = Bytes(ToSet(lanes[i]))
                         /\ pifoSizes[i] = Bytes(pifos[i])

\* Three lists of the same packets stay in step: the SortedList, from which a
\* remove of a packet that is not there would raise, holds exactly what the lanes
\* and Gearbox's ready queue hold; and sizes are the bytes of each lane.  In
\* WFQPCQScheduler they are not (_rotate_queues leaves fifo_sizes behind), but
\* their sum still is.
ListsAgree == queue = InLanes \cup ToSet(ready) /\ SizesAgree

\* The driver's loop ends, although dequeue may answer without a packet; and it
\* leaves nothing behind but what Gearbox had in its ready queue, which is_empty
\* does not look at: those packets count as lost.
RunsToTheEnd == <>(state = "exit" \/ (state = "end" /\ queue = ToSet(ready)))

\* Where PacksScheduler ends the program it prints "No elements available": that
\* the scheduler then holds no packet.
NoElementsAtExit == state = "exit" => queue = {}
=============================================================================
