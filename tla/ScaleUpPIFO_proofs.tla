------------------------ MODULE ScaleUpPIFO_proofs -------------------------
(***************************************************************************)
(* Proofs about the Scale-up PIFO queue disc: what its byte counters say,  *)
(* that the PIFOs fit in their buffers, that no PIFO is bypassed too often *)
(* and that it keeps the contract of a queue disc, for any number of PIFOs *)
(* and load balancers, any buffers and any packets.                        *)
(***************************************************************************)
EXTENDS ScaleUpPIFO, Totals_proofs, SequenceTheorems

Balancers == INSTANCE DynamicIntervals_proofs

-----------------------------------------------------------------------------
(***************************************************************************)
(* The load balancers inside the queue disc                                *)
(***************************************************************************)
\* Intervals and Balancers are instances of the same definitions.
LEMMA SameAdjustment ==
  ASSUME NEW borders, NEW counters
  PROVE  Intervals!AdjustIntervals(borders, counters)
           <=> Balancers!AdjustIntervals(borders, counters)
<1>1. \A loads : /\ Intervals!FirstMax(loads) = Balancers!FirstMax(loads)
                 /\ Intervals!FirstMin(loads) = Balancers!FirstMin(loads)
  BY DEF Intervals!FirstMax, Balancers!FirstMax, Intervals!FirstMin, Balancers!FirstMin
<1>2. \A loads : Intervals!MergeStart(loads) = Balancers!MergeStart(loads)
  BY <1>1 DEF Intervals!MergeStart, Balancers!MergeStart
<1>3. \A b, s : Intervals!MergedBorders(b, s) = Balancers!MergedBorders(b, s)
  BY DEF Intervals!MergedBorders, Balancers!MergedBorders
<1>4. \A loads, s : Intervals!MergedLoads(loads, s) = Balancers!MergedLoads(loads, s)
  BY DEF Intervals!MergedLoads, Balancers!MergedLoads
<1>5. \A b, m : Intervals!SplitBorders(b, m) = Balancers!SplitBorders(b, m)
  BY DEF Intervals!SplitBorders, Balancers!SplitBorders, Intervals!Borders, Balancers!Borders
<1>6. \A loads, m : Intervals!SplitLoads(loads, m) = Balancers!SplitLoads(loads, m)
  BY DEF Intervals!SplitLoads, Balancers!SplitLoads, Intervals!Intervals, Balancers!Intervals
<1>7. Intervals!Levelled(counters) = Balancers!Levelled(counters)
  BY DEF Intervals!Levelled, Balancers!Levelled, Intervals!SmallestCount,
         Balancers!SmallestCount, Intervals!LoadBalancers, Balancers!LoadBalancers,
         Intervals!Pifos, Balancers!Pifos, Intervals!Intervals, Balancers!Intervals,
         Intervals!Min, Balancers!Min
<1>8. \A loads : Intervals!Decayed(loads, counters) = Balancers!Decayed(loads, counters)
  BY DEF Intervals!Decayed, Balancers!Decayed, Intervals!CurrentCount,
         Balancers!CurrentCount, Intervals!Intervals, Balancers!Intervals,
         Intervals!LoadBalancers, Balancers!LoadBalancers, Intervals!Pifos,
         Balancers!Pifos, Intervals!Total, Balancers!Total, Intervals!Units,
         Balancers!Units, Intervals!Cardinality, Balancers!Cardinality
<1>9. \A loads : Intervals!TotalLoad(loads) = Balancers!TotalLoad(loads)
  BY DEF Intervals!TotalLoad, Balancers!TotalLoad, Intervals!MapThenSumSet,
         Balancers!MapThenSumSet, Intervals!MapThenFoldSet, Balancers!MapThenFoldSet
<1>10. \A b, loads : Intervals!MustAdjust(b, loads) = Balancers!MustAdjust(b, loads)
  BY <1>1, <1>9 DEF Intervals!MustAdjust, Balancers!MustAdjust,
                    Intervals!Width, Balancers!Width
<1>11. QED
  BY <1>1, <1>2, <1>3, <1>4, <1>5, <1>6, <1>7, <1>8, <1>10
  DEF Intervals!AdjustIntervals, Balancers!AdjustIntervals

\* So are the operations of the load balancers.
LEMMA SameBalancers ==
  /\ Intervals!Init <=> Balancers!Init
  /\ \A rank : /\ Intervals!ChosenPifo(rank) = Balancers!ChosenPifo(rank)
               /\ Intervals!Admit(rank) <=> Balancers!Admit(rank)
               /\ Intervals!Refuse(rank) <=> Balancers!Refuse(rank)
<1>1. Intervals!Init <=> Balancers!Init
  BY DEF Intervals!Init, Balancers!Init, Intervals!Borders, Balancers!Borders,
         Intervals!Intervals, Balancers!Intervals, Intervals!Pifos, Balancers!Pifos,
         Intervals!LoadBalancers, Balancers!LoadBalancers
<1>2. \A b, rank : /\ Intervals!GetIntervalIndex(b, rank) = Balancers!GetIntervalIndex(b, rank)
                   /\ Intervals!Stretched(b, rank) = Balancers!Stretched(b, rank)
  BY DEF Intervals!GetIntervalIndex, Balancers!GetIntervalIndex, Intervals!Inside,
         Balancers!Inside, Intervals!Intervals, Balancers!Intervals,
         Intervals!Stretched, Balancers!Stretched
<1>3. \A rank : Intervals!ChosenPifo(rank) = Balancers!ChosenPifo(rank)
  BY <1>2 DEF Intervals!ChosenPifo, Balancers!ChosenPifo, Intervals!SelectBestPifo,
              Balancers!SelectBestPifo, Intervals!Pifos, Balancers!Pifos
<1>4. \A rank : Intervals!Admit(rank) <=> Balancers!Admit(rank)
  BY <1>2, <1>3, SameAdjustment DEF Intervals!Admit, Balancers!Admit
<1>5. \A rank : Intervals!Refuse(rank) <=> Balancers!Refuse(rank)
  BY <1>2 DEF Intervals!Refuse, Balancers!Refuse
<1>6. QED  BY <1>1, <1>3, <1>4, <1>5

\* The invariant of the load balancers holds when they are part of the queue disc,
\* and they choose a PIFO there is.
LEMMA BalancerSteps ==
  /\ Intervals!Init => Balancers!IntervalInv
  /\ \A rank \in Ranks :
       Balancers!IntervalInv => /\ Intervals!ChosenPifo(rank) \in Pifos
                                /\ Intervals!Admit(rank) => Balancers!IntervalInv'
                                /\ Intervals!Refuse(rank) => Balancers!IntervalInv'
<1>1. Intervals!Init => Balancers!IntervalInv
  BY BalancerAssumption, SameBalancers, Balancers!InitOK
<1> SUFFICES ASSUME NEW rank \in Ranks, Balancers!IntervalInv
               PROVE  /\ Intervals!ChosenPifo(rank) \in Pifos
                      /\ Intervals!Admit(rank) => Balancers!IntervalInv'
                      /\ Intervals!Refuse(rank) => Balancers!IntervalInv'
  BY <1>1
<1>3. rank \in Nat
  BY BalancerAssumption
<1>4. Balancers!ChosenPifo(rank) \in Balancers!Pifos
  <2>1. intervalCounters \in Balancers!Counters /\ loadBalancerIndex \in Balancers!LoadBalancers
    BY DEF Balancers!IntervalInv, Balancers!TypeOK, Balancers!Counters
  <2>2. Balancers!GetIntervalIndex(intervalBorders, rank) \in Balancers!Intervals
    BY BalancerAssumption, Balancers!IndexType
  <2>3. QED  BY BalancerAssumption, <2>1, <2>2, Balancers!SelectBest DEF Balancers!ChosenPifo
<1>5. Balancers!Admit(rank) => Balancers!IntervalInv'
  BY BalancerAssumption, <1>3, Balancers!AdmitOK
<1>6. Balancers!Refuse(rank) => Balancers!IntervalInv'
  BY BalancerAssumption, <1>3, Balancers!RefuseOK
<1>7. QED  BY <1>4, <1>5, <1>6, SameBalancers DEF Pifos, Balancers!Pifos

-----------------------------------------------------------------------------
(***************************************************************************)
(* Packets and their order                                                 *)
(***************************************************************************)
\* No two packets have the same number of arrival.
Distinct(S) == \A j, k \in S : j.id = k.id => j = k

\* What the assumptions say of single parameters.
LEMMA Parameters ==
  /\ NumPifos \in Nat /\ NumPifos > 0
  /\ PifoBuffer \in Nat /\ FifoLimit \in Nat
  /\ RefillBatch \in Nat /\ RefillBatch > 0
  /\ MaxPackets \in Nat
BY BalancerAssumption, QueueAssumption

\* The fields of a packet.
LEMMA Fields ==
  ASSUME NEW k \in Packet
  PROVE  /\ k.id \in 1 .. MaxPackets /\ k.id \in Nat /\ k.rank \in Nat /\ k.time \in Nat
         /\ k.size \in Nat /\ k.size > 0 /\ k.size <= PifoBuffer
<1>1. /\ k.id \in 1 .. MaxPackets /\ k.rank \in Ranks \cup {1}
      /\ k.time \in SendTimes \cup {0} /\ k.size \in Sizes
  BY DEF Packet
<1>2. k.id \in Nat /\ k.rank \in Nat /\ k.time \in Nat
  <2>1. Ranks \subseteq Nat /\ SendTimes \subseteq Nat
    BY BalancerAssumption, QueueAssumption
  <2>2. k.id \in Nat
    BY <1>1, Parameters
  <2>3. \A x \in Ranks \cup {1} : x \in Nat
    BY <2>1
  <2>4. \A x \in SendTimes \cup {0} : x \in Nat
    BY <2>1
  <2>5. QED  BY <1>1, <2>2, <2>3, <2>4
<1>3. k.size \in 1 .. PifoBuffer
  BY <1>1, QueueAssumption
<1>4. QED  BY <1>1, <1>2, <1>3, Parameters

\* As there are no more numbers than MaxPackets, sets of packets are finite.
LEMMA DistinctFinite ==
  ASSUME NEW S, S \subseteq Packet, Distinct(S)
  PROVE  IsFiniteSet(S)
<1> DEFINE f == [k \in S |-> k.id]
<1>1. f \in Injection(S, 1 .. MaxPackets)
  <2>1. f \in [S -> 1 .. MaxPackets]
    BY Fields
  <2>2. \A j, k \in S : f[j] = f[k] => j = k
    BY DEF Distinct
  <2> HIDE DEF f
  <2>3. QED  BY <2>1, <2>2 DEF Injection, IsInjective
<1>2. IsFiniteSet(1 .. MaxPackets)
  <2>1. 1 \in Int /\ MaxPackets \in Int
    BY Parameters
  <2>2. QED  BY <2>1, FS_Interval
<1>3. QED  BY <1>1, <1>2, FS_Injection

\* Fewer packets have different numbers all the more.
LEMMA DistinctSubset ==
  ASSUME NEW S, Distinct(S), NEW T, T \subseteq S
  PROVE  Distinct(T)
BY DEF Distinct

\* Precedes is a strict order, and compares any two packets with their own numbers.
LEMMA Order ==
  ASSUME NEW i \in Packet, NEW j \in Packet, NEW k \in Packet
  PROVE  /\ ~Precedes(i, i)
         /\ Precedes(i, j) /\ Precedes(j, k) => Precedes(i, k)
         /\ i.id # j.id => Precedes(i, j) \/ Precedes(j, i)
<1>1. /\ i.id \in Nat /\ i.rank \in Nat /\ i.time \in Nat
      /\ j.id \in Nat /\ j.rank \in Nat /\ j.time \in Nat
      /\ k.id \in Nat /\ k.rank \in Nat /\ k.time \in Nat
  BY Fields
<1>2. QED  BY <1>1 DEF Precedes

\* The packet with the fewest packets on one side of it is the first or last one.
LEMMA Extremes ==
  ASSUME NEW S, S \subseteq Packet, Distinct(S), S # {}
  PROVE  /\ \E k \in S : \A j \in S \ {k} : Precedes(k, j)
         /\ \E k \in S : \A j \in S \ {k} : Precedes(j, k)
<1> DEFINE Before(k) == {j \in S : Precedes(j, k)}
           After(k)  == {j \in S : Precedes(k, j)}
           befores   == {Cardinality(Before(k)) : k \in S}
           afters    == {Cardinality(After(k)) : k \in S}
<1>1. \A i, j, k \in S : /\ ~Precedes(i, i)
                         /\ Precedes(i, j) /\ Precedes(j, k) => Precedes(i, k)
                         /\ i # j => Precedes(i, j) \/ Precedes(j, i)
  BY Order DEF Distinct
<1>2. IsFiniteSet(S)
  BY DistinctFinite
<1>3. ASSUME NEW k \in S
      PROVE  /\ IsFiniteSet(Before(k)) /\ Cardinality(Before(k)) \in Nat
             /\ IsFiniteSet(After(k)) /\ Cardinality(After(k)) \in Nat
  BY <1>2, FS_Subset, FS_CardinalityType
<1>4. ASSUME NEW T, NEW U, IsFiniteSet(U), T \subseteq U, T # U
      PROVE  Cardinality(U) <= Cardinality(T) => FALSE
  <2>1. Cardinality(T) \in Nat /\ Cardinality(U) \in Nat /\ Cardinality(T) <= Cardinality(U)
        /\ (Cardinality(U) = Cardinality(T) => U = T)
    BY <1>4, FS_Subset, FS_CardinalityType
  <2>2. QED  BY <1>4, <2>1
<1>5. \E k \in S : \A j \in S \ {k} : Precedes(k, j)
  <2>1. befores \subseteq Nat /\ befores # {}
    BY <1>3
  <2>2. PICK x \in befores : \A y \in befores : x <= y
    BY <2>1, LeastNatural
  <2>3. PICK k \in S : \A j \in S : Cardinality(Before(k)) <= Cardinality(Before(j))
    BY <2>2
  <2>4. ASSUME NEW j \in S \ {k}, ~Precedes(k, j)
        PROVE  FALSE
    <3>1. Precedes(j, k) /\ ~Precedes(j, j)
      BY <1>1, <2>4
    <3>2. Before(j) \subseteq Before(k) /\ Before(j) # Before(k)
      BY <1>1, <3>1
    <3>3. QED  BY <1>3, <1>4, <2>3, <3>2
  <2>5. QED  BY <2>4
<1>6. \E k \in S : \A j \in S \ {k} : Precedes(j, k)
  <2>1. afters \subseteq Nat /\ afters # {}
    BY <1>3
  <2>2. PICK x \in afters : \A y \in afters : x <= y
    BY <2>1, LeastNatural
  <2>3. PICK k \in S : \A j \in S : Cardinality(After(k)) <= Cardinality(After(j))
    BY <2>2
  <2>4. ASSUME NEW j \in S \ {k}, ~Precedes(j, k)
        PROVE  FALSE
    <3>1. Precedes(k, j) /\ ~Precedes(j, j)
      BY <1>1, <2>4
    <3>2. After(j) \subseteq After(k) /\ After(j) # After(k)
      BY <1>1, <3>1
    <3>3. QED  BY <1>3, <1>4, <2>3, <3>2
  <2>5. QED  BY <2>4
<1>7. QED  BY <1>5, <1>6

\* Best is the packet before all others.
LEMMA BestFirst ==
  ASSUME NEW S, S \subseteq Packet, Distinct(S), S # {}
  PROVE  Best(S) \in S /\ \A j \in S \ {Best(S)} : Precedes(Best(S), j)
<1>1. \E k \in S : \A j \in S \ {k} : Precedes(k, j)
  BY Extremes
<1>2. QED  BY <1>1 DEF Best

-----------------------------------------------------------------------------
(***************************************************************************)
(* Bytes                                                                   *)
(***************************************************************************)
LEMMA BytesType ==
  ASSUME NEW S, S \subseteq Packet, IsFiniteSet(S)
  PROVE  Bytes(S) \in Nat
<1>1. \A k \in S : k.size \in Nat
  BY Fields
<1>2. QED  BY <1>1, BytesNatural

\* The bytes of two disjoint sets add up.
LEMMA BytesUnion ==
  ASSUME NEW S, S \subseteq Packet, IsFiniteSet(S),
         NEW T, T \subseteq Packet, IsFiniteSet(T), S \cap T = {}
  PROVE  /\ Bytes(S \cup T) = Bytes(S) + Bytes(T)
         /\ Bytes(S) \in Nat /\ Bytes(T) \in Nat
<1>1. \A k \in S \cup T : k.size \in Nat
  BY Fields
<1>2. QED  BY <1>1, BytesAdd

\* The bytes of one packet are its size.
LEMMA BytesOne ==
  ASSUME NEW k \in Packet
  PROVE  Bytes({k}) = k.size
BY Fields, BytesOfOne

\* The bytes of a set are those of a subset and of the rest.
LEMMA BytesSplit ==
  ASSUME NEW S, S \subseteq Packet, IsFiniteSet(S), NEW T, T \subseteq S
  PROVE  /\ Bytes(S) = Bytes(T) + Bytes(S \ T)
         /\ Bytes(S) \in Nat /\ Bytes(T) \in Nat /\ Bytes(S \ T) \in Nat
<1>1. \A k \in S : k.size \in Nat
  BY Fields
<1>2. QED  BY <1>1, BytesParts

-----------------------------------------------------------------------------
(***************************************************************************)
(* A FIFO and its PIFO                                                     *)
(***************************************************************************)
Stored(l) == ToSet(l.fifo) \cup l.pifo

\* What holds of a lane, apart from what was evicted, when acks bytes of
\* acknowledgements are charged to its PIFO.
LaneOK(l, acks) ==
  /\ l.fifo \in Seq(Packet) /\ l.pifo \subseteq Packet
  /\ Once(l.fifo) /\ ToSet(l.fifo) \cap l.pifo = {}
  /\ Distinct(Stored(l))
  /\ l.usage = Bytes(ToSet(l.fifo))
  /\ l.fifo # <<>> => l.usage < FifoLimit
  /\ l.size = Bytes(l.pifo) + acks
  /\ Bytes(l.pifo) <= PifoBuffer

\* What Refill moves: not more than there is, and something if there is any.
LEMMA BatchSize ==
  ASSUME NEW len \in Nat
  PROVE  /\ Min({RefillBatch, len}) \in 0 .. len
         /\ len > 0 => Min({RefillBatch, len}) > 0
<1>1. RefillBatch \in Nat /\ RefillBatch > 0
  BY Parameters
<1>2. \E x \in {RefillBatch, len} : \A y \in {RefillBatch, len} : x <= y
  BY <1>1
<1> DEFINE m == Min({RefillBatch, len})
<1>3. m \in {RefillBatch, len} /\ m <= RefillBatch /\ m <= len
  BY <1>2 DEF Min
<1> HIDE DEF m
<1>4. m \in 0 .. len /\ (len > 0 => m > 0)
  BY <1>1, <1>3
<1>5. QED  BY <1>4 DEF m

\* A subset has no more bytes.
LEMMA BytesMonotone ==
  ASSUME NEW S, S \subseteq Packet, IsFiniteSet(S), NEW T, T \subseteq S
  PROVE  Bytes(T) <= Bytes(S)
<1>1. /\ Bytes(S) = Bytes(T) + Bytes(S \ T)
      /\ Bytes(S) \in Nat /\ Bytes(T) \in Nat /\ Bytes(S \ T) \in Nat
  BY BytesSplit
<1>2. QED  BY <1>1

\* Evicting the worst packets until the rest fits leaves a set that fits, and that
\* is not empty unless acknowledgements take the room.  If they take none, the
\* best packet evicted would not have fitted.
LEMMA KeptFits ==
  ASSUME NEW items, items \subseteq Packet, Distinct(items), NEW acks \in Nat
  PROVE  LET kept == Kept(items, Bytes(items) + acks)
             lost == items \ kept
         IN  /\ kept \subseteq items
             /\ Bytes(kept) <= PifoBuffer
             /\ acks = 0 /\ items # {} => kept # {}
             /\ acks = 0 /\ lost # {} => Bytes(kept \cup {Best(lost)}) > PifoBuffer
<1> DEFINE Worse(k) == {j \in items : Precedes(k, j)}
           all  == Bytes(items)
           kept == Kept(items, all + acks)
           lost == items \ kept
<1>1. IsFiniteSet(items) /\ all \in Nat
  BY DistinctFinite, BytesType
<1>2. \A i, j, k \in items : /\ ~Precedes(i, i)
                             /\ Precedes(i, j) /\ Precedes(j, k) => Precedes(i, k)
                             /\ i # j => Precedes(i, j) \/ Precedes(j, i)
  BY Order DEF Distinct
<1>3. \A k \in items : k \in kept <=> (all + acks) - Bytes(Worse(k)) <= PifoBuffer
  BY DEF Kept
<1>4. kept \subseteq items
  BY DEF Kept
<1> HIDE DEF kept, all
\* The bytes that are not worse than a packet.
<1>5. ASSUME NEW k \in items
      PROVE  all - Bytes(Worse(k)) = Bytes(items \ Worse(k)) /\ Bytes(Worse(k)) \in Nat
  <2>1. Worse(k) \subseteq items
    OBVIOUS
  <2> HIDE DEF Worse
  <2>2. /\ all = Bytes(Worse(k)) + Bytes(items \ Worse(k))
        /\ Bytes(Worse(k)) \in Nat /\ Bytes(items \ Worse(k)) \in Nat
    BY <1>1, <2>1, BytesSplit DEF all
  <2>3. QED  BY <1>1, <2>2
<1>6. Bytes(kept) <= PifoBuffer
  <2>1. CASE kept = {}
    BY <2>1, BytesNone, Parameters
  <2>2. CASE kept # {}
    <3>1. PICK w \in kept : \A j \in kept \ {w} : Precedes(j, w)
      BY <1>4, <2>2, DistinctSubset, Extremes
    <3>2. ASSUME NEW j \in kept
          PROVE  j \in items \ Worse(w)
      BY <1>2, <1>4, <3>1
    <3>3. kept \subseteq items \ Worse(w)
      BY <3>2
    <3>4. Bytes(kept) <= Bytes(items \ Worse(w))
      <4>1. IsFiniteSet(items \ Worse(w)) /\ items \ Worse(w) \subseteq Packet
        BY <1>1, FS_Subset
      <4> HIDE DEF Worse
      <4>2. QED  BY <3>3, <4>1, BytesMonotone
    <3>5. (all + acks) - Bytes(Worse(w)) <= PifoBuffer
      BY <1>3, <1>4
    <3>6. all - Bytes(Worse(w)) = Bytes(items \ Worse(w)) /\ Bytes(Worse(w)) \in Nat
      BY <1>4, <1>5
    <3>7. Bytes(kept) \in Nat
      BY <1>1, <1>4, FS_Subset, BytesType
    <3> HIDE DEF Worse
    <3>8. QED  BY <1>1, <3>4, <3>5, <3>6, <3>7, Parameters
  <2>3. QED  BY <2>1, <2>2
<1>7. ASSUME acks = 0, items # {}
      PROVE  kept # {}
  <2>1. PICK k \in items : \A j \in items \ {k} : Precedes(k, j)
    BY <1>7, Extremes
  <2>2. items \ Worse(k) = {k}
    BY <1>2, <2>1
  <2>3. Bytes({k}) = k.size /\ k.size \in Nat /\ k.size <= PifoBuffer
    BY BytesOne, Fields
  <2>4. all - Bytes(Worse(k)) = k.size /\ Bytes(Worse(k)) \in Nat
    BY <1>5, <2>2, <2>3
  <2> HIDE DEF Worse
  <2>5. (all + acks) - Bytes(Worse(k)) <= PifoBuffer
    BY <1>1, <1>7, <2>3, <2>4
  <2>6. QED  BY <1>3, <2>5
<1>8. ASSUME acks = 0, lost # {}
      PROVE  Bytes(kept \cup {Best(lost)}) > PifoBuffer
  <2> DEFINE b == Best(lost)
             S == kept \cup {b}
  <2>1. b \in lost /\ \A j \in lost \ {b} : Precedes(b, j)
    BY <1>8, DistinctSubset, BestFirst
  <2> HIDE DEF b
  <2>2. ASSUME NEW j \in items \ Worse(b)
        PROVE  j \in S
    BY <1>2, <2>1, <2>2
  <2>3. Bytes(items \ Worse(b)) <= Bytes(S)
    <3>1. items \ Worse(b) \subseteq S
      BY <2>2
    <3>2. S \subseteq items
      BY <1>4, <2>1
    <3>3. IsFiniteSet(S) /\ S \subseteq Packet
      BY <1>1, <3>2, FS_Subset
    <3> HIDE DEF S, Worse
    <3>4. QED  BY <3>1, <3>3, BytesMonotone
  <2>4. ~((all + acks) - Bytes(Worse(b)) <= PifoBuffer)
    BY <1>3, <2>1
  <2>5. all - Bytes(Worse(b)) = Bytes(items \ Worse(b)) /\ Bytes(Worse(b)) \in Nat
    BY <1>5, <2>1
  <2>6. Bytes(S) \in Nat
    <3>1. S \subseteq items
      BY <1>4, <2>1
    <3>2. IsFiniteSet(S) /\ S \subseteq Packet
      BY <1>1, <3>1, FS_Subset
    <3>3. QED  BY <3>2, BytesType
  <2> HIDE DEF S, Worse
  <2>7. Bytes(S) > PifoBuffer
    BY <1>1, <1>8, <2>3, <2>4, <2>5, <2>6, Parameters
  <2>8. QED  BY <2>7 DEF S, b
<1>9. QED  BY <1>4, <1>6, <1>7, <1>8 DEF kept, all

\* The sets of a lane are finite.
LEMMA LaneSets ==
  ASSUME NEW l, NEW acks, LaneOK(l, acks)
  PROVE  /\ Stored(l) \subseteq Packet /\ IsFiniteSet(Stored(l))
         /\ IsFiniteSet(ToSet(l.fifo)) /\ IsFiniteSet(l.pifo)
         /\ ToSet(l.fifo) \subseteq Packet
<1>1. ToSet(l.fifo) \subseteq Packet /\ l.pifo \subseteq Packet /\ Distinct(Stored(l))
  BY ToSetType DEF LaneOK
<1>2. Stored(l) \subseteq Packet
  BY <1>1 DEF Stored
<1>3. IsFiniteSet(Stored(l))
  BY <1>1, <1>2, DistinctFinite
<1>4. QED  BY <1>1, <1>2, <1>3, FS_Subset DEF Stored

\* A refill keeps the lane in order and drops what it evicts.
LEMMA RefillOK ==
  ASSUME NEW l, NEW acks \in Nat, LaneOK(l, acks)
  PROVE  LET r == Refill(l)
         IN  /\ LaneOK(r, acks)
             /\ Stored(r) = Stored(l) \ r.evicted /\ r.evicted \subseteq Stored(l)
             /\ acks = 0 /\ Stored(l) # {} => r.pifo # {}
             /\ acks = 0 /\ r.evicted # {}
                  => Bytes(r.pifo \cup {Best(r.evicted)}) > PifoBuffer
             /\ Stored(l) = {} => r.fifo = <<>>
<1> DEFINE n     == Min({RefillBatch, Len(l.fifo)})
           front == SubSeq(l.fifo, 1, n)
           back  == SubSeq(l.fifo, n + 1, Len(l.fifo))
           moved == ToSet(front)
           rest  == ToSet(back)
           items == l.pifo \cup moved
           kept  == Kept(items, l.size + Bytes(moved))
           lost  == items \ kept
           r     == Refill(l)
<1>1. l.fifo \in Seq(Packet) /\ Once(l.fifo) /\ Len(l.fifo) \in Nat
  BY LenProperties DEF LaneOK
<1>2. n \in 0 .. Len(l.fifo) /\ (Len(l.fifo) > 0 => n > 0)
  BY <1>1, BatchSize
<1>3. /\ r.fifo = back /\ r.usage = l.usage - Bytes(moved) /\ r.pifo = kept
      /\ r.size = l.size + Bytes(moved) - Bytes(lost) /\ r.evicted = lost
  BY DEF Refill
<1> HIDE DEF n
<1>4. /\ back \in Seq(Packet) /\ Once(back)
      /\ ToSet(l.fifo) = moved \cup rest /\ moved \cap rest = {}
      /\ n > 0 => moved # {}
      /\ l.fifo = <<>> => back = <<>>
  BY <1>1, <1>2, CutSeq
<1> HIDE DEF front, back, moved, rest, kept, r
<1>5. /\ Stored(l) \subseteq Packet /\ IsFiniteSet(Stored(l)) /\ Distinct(Stored(l))
      /\ IsFiniteSet(ToSet(l.fifo)) /\ ToSet(l.fifo) \subseteq Packet
  BY LaneSets DEF LaneOK
<1>6. /\ moved \subseteq Stored(l) /\ rest \subseteq Stored(l) /\ l.pifo \subseteq Stored(l)
      /\ items \subseteq Stored(l) /\ Stored(l) = items \cup rest
      /\ items \cap rest = {} /\ l.pifo \cap moved = {}
  BY <1>4 DEF Stored, LaneOK
<1>7. /\ IsFiniteSet(moved) /\ IsFiniteSet(rest) /\ IsFiniteSet(l.pifo) /\ IsFiniteSet(items)
      /\ moved \subseteq Packet /\ rest \subseteq Packet /\ l.pifo \subseteq Packet
      /\ items \subseteq Packet /\ Distinct(items)
  BY <1>5, <1>6, FS_Subset, DistinctSubset
<1>8. /\ Bytes(items) = Bytes(l.pifo) + Bytes(moved)
      /\ Bytes(l.pifo) \in Nat /\ Bytes(moved) \in Nat
  BY <1>6, <1>7, BytesUnion
<1>9. /\ Bytes(ToSet(l.fifo)) = Bytes(moved) + Bytes(rest) /\ Bytes(rest) \in Nat
  BY <1>4, <1>7, BytesUnion
<1>10. l.size + Bytes(moved) = Bytes(items) + acks
  BY <1>8 DEF LaneOK
<1>11. kept = Kept(items, Bytes(items) + acks)
  BY <1>10 DEF kept
<1>12. /\ kept \subseteq items /\ Bytes(kept) <= PifoBuffer
       /\ acks = 0 /\ items # {} => kept # {}
       /\ acks = 0 /\ lost # {} => Bytes(kept \cup {Best(lost)}) > PifoBuffer
  BY <1>7, <1>11, KeptFits
<1> HIDE DEF items, lost
<1>13. Bytes(items) = Bytes(kept) + Bytes(lost) /\ Bytes(kept) \in Nat /\ Bytes(lost) \in Nat
  BY <1>7, <1>12, BytesSplit DEF lost
<1>14. Stored(r) = rest \cup kept
  BY <1>3 DEF Stored, rest
<1>15. Stored(r) = Stored(l) \ r.evicted /\ r.evicted \subseteq Stored(l)
  BY <1>3, <1>6, <1>12, <1>14 DEF lost
<1>16. LaneOK(r, acks)
  <2>1. r.fifo \in Seq(Packet) /\ r.pifo \subseteq Packet /\ Once(r.fifo)
    BY <1>3, <1>4, <1>7, <1>12
  <2>2. ToSet(r.fifo) \cap r.pifo = {}
    BY <1>3, <1>6, <1>12 DEF rest
  <2>3. Distinct(Stored(r))
    BY <1>5, <1>15, DistinctSubset
  <2>4. r.usage = Bytes(ToSet(r.fifo))
    BY <1>3, <1>8, <1>9 DEF LaneOK, rest
  <2>5. r.fifo # <<>> => r.usage < FifoLimit
    <3>1. l.fifo # <<>> => l.usage < FifoLimit
      BY DEF LaneOK
    <3>2. l.usage = Bytes(moved) + Bytes(rest)
      BY <1>9 DEF LaneOK
    <3>3. QED  BY <1>3, <1>4, <1>8, <1>9, <3>1, <3>2, Parameters
  <2>6. r.size = Bytes(r.pifo) + acks
    <3>1. l.size = Bytes(l.pifo) + acks
      BY DEF LaneOK
    <3>2. QED  BY <1>3, <1>8, <1>10, <1>13, <3>1
  <2>7. Bytes(r.pifo) <= PifoBuffer
    BY <1>3, <1>12
  <2>8. QED  BY <2>1, <2>2, <2>3, <2>4, <2>5, <2>6, <2>7 DEF LaneOK
<1>17. acks = 0 /\ Stored(l) # {} => r.pifo # {}
  <2> SUFFICES ASSUME acks = 0, Stored(l) # {} PROVE r.pifo # {}
    OBVIOUS
  <2>1. items # {}
    <3>1. CASE l.pifo # {}
      BY <3>1 DEF items
    <3>2. CASE l.pifo = {}
      <4>1. ToSet(l.fifo) # {}
        BY <3>2 DEF Stored
      <4>2. l.fifo # <<>>
        BY <1>1, <4>1, ToSetType
      <4>3. Len(l.fifo) > 0
        BY <1>1, <4>2
      <4>4. QED  BY <1>2, <1>4, <4>3 DEF items
    <3>3. QED  BY <3>1, <3>2
  <2>2. QED  BY <1>3, <1>12, <2>1
<1>18. Stored(l) = {} => r.fifo = <<>>
  BY <1>1, <1>3, <1>4, ToSetType DEF Stored
<1>19. QED  BY <1>3, <1>12, <1>15, <1>16, <1>17, <1>18 DEF r

\* A pop takes the best packet out of the PIFO.
LEMMA PopOK ==
  ASSUME NEW l, NEW acks \in Nat, LaneOK(l, acks), l.pifo # {},
         l = [fifo |-> l.fifo, usage |-> l.usage, pifo |-> l.pifo, size |-> l.size,
              evicted |-> l.evicted]
  PROVE  LET q == Pop(l)
         IN  /\ LaneOK(q, acks)
             /\ Best(l.pifo) \in l.pifo
             /\ Stored(q) = Stored(l) \ {Best(l.pifo)}
             /\ q.fifo = l.fifo /\ q.pifo = l.pifo \ {Best(l.pifo)} /\ q.evicted = l.evicted
<1> DEFINE b == Best(l.pifo)
           q == Pop(l)
<1>1. /\ q.fifo = l.fifo /\ q.usage = l.usage /\ q.pifo = l.pifo \ {b}
      /\ q.size = l.size - b.size /\ q.evicted = l.evicted
  <2>1. q = [[l EXCEPT !.pifo = l.pifo \ {Best(l.pifo)}] EXCEPT !.size = l.size - Best(l.pifo).size]
    BY DEF Pop
  <2>2. QED  BY <2>1
<1>2. l.pifo \subseteq Packet /\ Distinct(l.pifo) /\ IsFiniteSet(l.pifo)
  BY LaneSets, DistinctSubset DEF LaneOK, Stored
<1>3. b \in l.pifo
  BY <1>2, BestFirst
<1> HIDE DEF b, q
<1>4. Stored(q) = Stored(l) \ {b}
  BY <1>1, <1>3 DEF Stored, LaneOK
<1>5. b.size \in Nat /\ Bytes({b}) = b.size
  BY <1>2, <1>3, Fields, BytesOne
<1>6. /\ Bytes(l.pifo) = Bytes({b}) + Bytes(l.pifo \ {b})
      /\ Bytes(l.pifo) \in Nat /\ Bytes(l.pifo \ {b}) \in Nat
  BY <1>2, <1>3, BytesSplit
<1>7. q.size = Bytes(q.pifo) + acks /\ Bytes(q.pifo) <= PifoBuffer
  <2>1. l.size = Bytes(l.pifo) + acks /\ Bytes(l.pifo) <= PifoBuffer
    BY DEF LaneOK
  <2>2. QED  BY <1>1, <1>5, <1>6, <2>1, Parameters
<1>8. Distinct(Stored(q))
  BY <1>4, DistinctSubset DEF LaneOK
<1>9. LaneOK(q, acks)
  BY <1>1, <1>7, <1>8 DEF LaneOK
<1>10. QED  BY <1>1, <1>3, <1>4, <1>9 DEF q, b

Content(p) == InFifo(p) \cup pifos[p]

\* The fields of a lane are entries of the variables.
LEMMA LaneFields ==
  ASSUME NEW p
  PROVE  /\ Lane(p).fifo = fifos[p] /\ Lane(p).usage = fifoBufferUsage[p]
         /\ Lane(p).pifo = pifos[p] /\ Lane(p).size = pifoCurrentSizes[p]
         /\ Lane(p).evicted = {} /\ Stored(Lane(p)) = Content(p)
         /\ Lane(p) = [fifo |-> Lane(p).fifo, usage |-> Lane(p).usage, pifo |-> Lane(p).pifo,
                       size |-> Lane(p).size, evicted |-> Lane(p).evicted]
BY DEF Lane, Stored, Content, InFifo

\* Lanes that are in order keep the types of the variables.
LEMMA LaneType ==
  ASSUME NEW l, NEW acks \in Nat, LaneOK(l, acks)
  PROVE  /\ l.fifo \in Seq(Packet) /\ l.pifo \in SUBSET Packet
         /\ l.usage \in Nat /\ l.size \in Nat
<1>1. Bytes(ToSet(l.fifo)) \in Nat /\ Bytes(l.pifo) \in Nat
  BY LaneSets, BytesType DEF LaneOK
<1>2. QED  BY <1>1 DEF LaneOK

\* A visit sends at most one packet, and none only if it finds the PIFO empty;
\* with no acknowledgements queued, none only if the FIFO is empty as well.
LEMMA VisitOK ==
  ASSUME NEW p, NEW acks \in Nat, LaneOK(Lane(p), acks)
  PROVE  /\ LaneOK(Visit(p), acks)
         /\ Yield(p) \subseteq Content(p)
         /\ Visit(p).evicted \subseteq Content(p) \ Yield(p)
         /\ Stored(Visit(p)) = Content(p) \ (Yield(p) \cup Visit(p).evicted)
         /\ Yield(p) = {} \/ \E k : Yield(p) = {k}
         /\ acks = 0 => (Yield(p) = {} <=> Content(p) = {})
<1> DEFINE l == Lane(p)
<1>1. l.pifo = pifos[p] /\ Stored(l) = Content(p)
      /\ l = [fifo |-> l.fifo, usage |-> l.usage, pifo |-> l.pifo,
              size |-> l.size, evicted |-> l.evicted]
  BY LaneFields
<1>2. CASE pifos[p] # {}
  <2> DEFINE q == Pop(l)
             b == Best(l.pifo)
             r == Refill(q)
  <2>1. Yield(p) = {b} /\ Visit(p) = r
    BY <1>1, <1>2 DEF Yield, Visit
  <2> HIDE DEF l
  <2>2. LaneOK(l, acks) /\ l.pifo # {}
    BY <1>1, <1>2 DEF l
  <2>3. LaneOK(q, acks) /\ b \in l.pifo /\ Stored(q) = Stored(l) \ {b}
    BY <1>1, <2>2, PopOK
  <2> HIDE DEF q, b
  <2>4. LaneOK(r, acks) /\ Stored(r) = Stored(q) \ r.evicted /\ r.evicted \subseteq Stored(q)
    BY <2>3, RefillOK
  <2> HIDE DEF r
  <2>5. b \in Content(p)
    BY <1>1, <2>3 DEF Stored
  <2>6. QED  BY <1>1, <2>1, <2>3, <2>4, <2>5
<1>3. CASE pifos[p] = {}
  <2> DEFINE r == Refill(l)
  <2>1. /\ LaneOK(r, acks)
        /\ Stored(r) = Stored(l) \ r.evicted /\ r.evicted \subseteq Stored(l)
        /\ acks = 0 /\ Stored(l) # {} => r.pifo # {}
    BY RefillOK
  <2>2. r = [fifo |-> r.fifo, usage |-> r.usage, pifo |-> r.pifo,
             size |-> r.size, evicted |-> r.evicted]
    BY DEF Refill
  <2>3. /\ Yield(p) = IF r.pifo = {} THEN {} ELSE {Best(r.pifo)}
        /\ Visit(p) = IF r.pifo = {} THEN r ELSE Pop(r)
    BY <1>3 DEF Yield, Visit
  <2> HIDE DEF r, l
  <2>4. CASE r.pifo = {}
    <3>1. acks = 0 => Content(p) = {}
      BY <1>1, <2>1, <2>4
    <3>2. QED  BY <1>1, <2>1, <2>3, <2>4, <3>1
  <2>5. CASE r.pifo # {}
    <3> DEFINE q == Pop(r)
               b == Best(r.pifo)
    <3>1. /\ LaneOK(q, acks) /\ b \in r.pifo /\ Stored(q) = Stored(r) \ {b}
          /\ q.evicted = r.evicted
      BY <2>1, <2>2, <2>5, PopOK
    <3>2. Yield(p) = {b} /\ Visit(p) = q
      BY <2>3, <2>5
    <3> HIDE DEF q, b
    <3>3. b \in Stored(r)
      BY <3>1 DEF Stored
    <3>4. QED  BY <1>1, <2>1, <3>1, <3>2, <3>3
  <2>6. QED  BY <2>4, <2>5
<1>4. QED  BY <1>2, <1>3

-----------------------------------------------------------------------------
(***************************************************************************)
(* The invariant                                                           *)
(***************************************************************************)
\* Every lane is in order.
Lanes == \A p \in Pifos : LaneOK(Lane(p), Bytes(ChargedTo(p)))

\* No packet is in two places.
Placed ==
  /\ \A p, q \in Pifos : p # q => Content(p) \cap Content(q) = {}
  /\ \A p \in Pifos : Content(p) \cap ToSet(ackFifo) = {}
  /\ Once(ackFifo)

\* A packet is known by its number, and new ones have new numbers.
Numbered ==
  /\ Distinct(Held)
  /\ \A k \in Held \cup sent \cup dropped : k.id <= arrivals

\* The acknowledgements are charged from the output to the input pointer.
AckPointers == ackInputPointer = (ackOutputPointer + Len(ackFifo)) % NumPifos

\* The n-th PIFO from pifoIndex on can be passed over NumPifos - n times.
Turns ==
  \A q \in Pifos : \A n \in 0 .. NumPifos - 1 : Turn(n) = q => bypassed[q] + n < NumPifos

Inv ==
  /\ TypeOK /\ Balancers!IntervalInv
  /\ Lanes /\ Placed /\ Numbered /\ AckPointers /\ Turns

\* All packets of the PIFOs' side.
LEMMA HeldParts == Held = (UNION {Content(p) : p \in Pifos}) \cup ToSet(ackFifo)
BY DEF Held, Content

\* Charges are made on queued acknowledgements.
LEMMA ChargeType ==
  ASSUME Inv, NEW p
  PROVE  /\ ChargedTo(p) \subseteq ToSet(ackFifo)
         /\ ToSet(ackFifo) \subseteq Packet /\ IsFiniteSet(ToSet(ackFifo))
         /\ ChargedTo(p) \subseteq Packet /\ IsFiniteSet(ChargedTo(p))
         /\ Bytes(ChargedTo(p)) \in Nat
<1>1. ackFifo \in Seq(Packet)
  BY DEF Inv, TypeOK
<1>2. ToSet(ackFifo) = {ackFifo[n] : n \in 1 .. Len(ackFifo)} /\ ToSet(ackFifo) \subseteq Packet
  BY <1>1, ToSetType
<1>3. ChargedTo(p) \subseteq ToSet(ackFifo)
  BY <1>2 DEF ChargedTo
<1>4. Distinct(ToSet(ackFifo))
  <2>1. ToSet(ackFifo) \subseteq Held
    BY DEF Held
  <2>2. Distinct(Held)
    BY DEF Inv, Numbered
  <2>3. QED  BY <2>1, <2>2, DistinctSubset
<1>5. IsFiniteSet(ToSet(ackFifo))
  BY <1>2, <1>4, DistinctFinite
<1>6. IsFiniteSet(ChargedTo(p)) /\ ChargedTo(p) \subseteq Packet
  BY <1>2, <1>3, <1>5, FS_Subset
<1>7. QED  BY <1>2, <1>3, <1>5, <1>6, BytesType

\* Every PIFO has a turn from pifoIndex on.
LEMMA TurnOf ==
  ASSUME NEW first \in Pifos, NEW q \in Pifos
  PROVE  \E n \in 0 .. NumPifos - 1 : (first + n) % NumPifos = q
<1>1. /\ NumPifos \in Nat \ {0}
      /\ first \in Nat /\ first < NumPifos /\ q \in Nat /\ q < NumPifos
  BY Parameters DEF Pifos
<1>2. CASE first <= q
  <2> DEFINE n == q - first
             e == first + n
  <2>1. n \in 0 .. NumPifos - 1 /\ e = q
    BY <1>1, <1>2
  <2>2. e \in Nat /\ e < 2 * NumPifos /\ e < NumPifos
    BY <1>1, <2>1
  <2> HIDE DEF e
  <2>3. e % NumPifos = q
    BY <1>1, <2>1, <2>2, Wrap
  <2>4. QED  BY <2>1, <2>3 DEF e
<1>3. CASE ~(first <= q)
  <2> DEFINE n == q + NumPifos - first
             e == first + n
  <2>1. n \in 0 .. NumPifos - 1 /\ e = q + NumPifos
    BY <1>1, <1>3
  <2>2. e \in Nat /\ e < 2 * NumPifos /\ ~(e < NumPifos) /\ e - NumPifos = q
    BY <1>1, <2>1
  <2> HIDE DEF e
  <2>3. e % NumPifos = q
    <3>1. NumPifos \in Nat \ {0} /\ e \in Nat /\ e < 2 * NumPifos
      BY <1>1, <2>2
    <3>2. e % NumPifos = IF e < NumPifos THEN e ELSE e - NumPifos
      BY <3>1, Wrap
    <3>3. QED  BY <2>2, <3>2
  <2>4. QED  BY <2>1, <2>3 DEF e
<1>4. QED  BY <1>2, <1>3

\* The invariant implies the properties of the queue disc.
LEMMA InvProperties ==
  Inv => TypeOK /\ PifoSizesExact /\ FifoUsageExact /\ PifosFit /\ BypassBounded
<1> SUFFICES ASSUME Inv
             PROVE  TypeOK /\ PifoSizesExact /\ FifoUsageExact /\ PifosFit /\ BypassBounded
  OBVIOUS
<1>1. ASSUME NEW p \in Pifos
      PROVE  /\ pifoCurrentSizes[p] = Bytes(pifos[p]) + Bytes(ChargedTo(p))
             /\ fifoBufferUsage[p] = Bytes(InFifo(p))
             /\ fifos[p] # <<>> => fifoBufferUsage[p] < FifoLimit
             /\ Bytes(pifos[p]) <= PifoBuffer
  BY LaneFields DEF Inv, Lanes, LaneOK, InFifo
<1>2. ASSUME NEW p \in Pifos
      PROVE  bypassed[p] < NumPifos
  <2>1. PICK n \in 0 .. NumPifos - 1 : Turn(n) = p
    BY TurnOf DEF Inv, TypeOK, Turn
  <2>2. bypassed[p] + n < NumPifos /\ bypassed[p] \in Nat /\ n \in Nat
    BY <2>1 DEF Inv, Turns, TypeOK
  <2>3. QED  BY <2>2, Parameters
<1>3. QED  BY <1>1, <1>2 DEF Inv, PifoSizesExact, FifoUsageExact, PifosFit, BypassBounded

\* What LaneOK says does not depend on what was evicted.
LEMMA SameLane ==
  ASSUME NEW l, NEW m, NEW acks, LaneOK(l, acks),
         m.fifo = l.fifo, m.usage = l.usage, m.pifo = l.pifo, m.size = l.size
  PROVE  LaneOK(m, acks) /\ Stored(m) = Stored(l)
BY DEF LaneOK, Stored

\* What visits to the PIFOs of V do.
LEMMA VisitAllOK ==
  ASSUME Inv, NEW V, V \subseteq Pifos, VisitAll(V), UNCHANGED <<ackFifo, ackOutputPointer>>
  PROVE  /\ Lanes'
         /\ fifos' \in [Pifos -> Seq(Packet)] /\ pifos' \in [Pifos -> SUBSET Packet]
         /\ fifoBufferUsage' \in [Pifos -> Nat] /\ pifoCurrentSizes' \in [Pifos -> Nat]
         /\ \A p \in Pifos : Content(p)' = IF p \in V
                                       THEN Content(p) \ (Yield(p) \cup Visit(p).evicted)
                                       ELSE Content(p)
         /\ dropped' = dropped \cup UNION {Visit(p).evicted : p \in V}
<1> DEFINE G(p) == IF p \in V THEN Visit(p) ELSE Lane(p)
<1>1. /\ fifos' = [p \in Pifos |-> G(p).fifo]
      /\ fifoBufferUsage' = [p \in Pifos |-> G(p).usage]
      /\ pifos' = [p \in Pifos |-> G(p).pifo]
      /\ pifoCurrentSizes' = [p \in Pifos |-> G(p).size]
      /\ dropped' = dropped \cup UNION {G(p).evicted : p \in Pifos}
  BY DEF VisitAll
<1>2. ASSUME NEW p \in Pifos
      PROVE  /\ LaneOK(Lane(p), Bytes(ChargedTo(p))) /\ Bytes(ChargedTo(p)) \in Nat
             /\ LaneOK(G(p), Bytes(ChargedTo(p)))
             /\ Stored(G(p)) = IF p \in V
                                  THEN Content(p) \ (Yield(p) \cup Visit(p).evicted)
                                  ELSE Content(p)
  <2>1. LaneOK(Lane(p), Bytes(ChargedTo(p))) /\ Bytes(ChargedTo(p)) \in Nat
    BY ChargeType DEF Inv, Lanes
  <2>2. CASE p \in V
    BY <2>1, <2>2, VisitOK
  <2>3. CASE p \notin V
    BY <2>1, <2>3, LaneFields
  <2>4. QED  BY <2>1, <2>2, <2>3
<1>3. ASSUME NEW p \in Pifos
      PROVE  G(p).evicted = IF p \in V THEN Visit(p).evicted ELSE {}
  BY LaneFields
<1> HIDE DEF G
<1>4. ASSUME NEW p \in Pifos
      PROVE  /\ Lane(p)'.fifo = G(p).fifo /\ Lane(p)'.usage = G(p).usage
             /\ Lane(p)'.pifo = G(p).pifo /\ Lane(p)'.size = G(p).size
             /\ Content(p)' = Stored(Lane(p)')
  BY <1>1 DEF Lane, Stored, Content, InFifo
<1>5. ASSUME NEW p \in Pifos
      PROVE  LaneOK(Lane(p)', Bytes(ChargedTo(p))) /\ Content(p)' = Stored(G(p))
  <2> DEFINE m == Lane(p)'
             acks == Bytes(ChargedTo(p))
  <2>1. /\ m.fifo = G(p).fifo /\ m.usage = G(p).usage
        /\ m.pifo = G(p).pifo /\ m.size = G(p).size /\ Content(p)' = Stored(m)
    BY <1>4
  <2>2. LaneOK(G(p), acks)
    BY <1>2
  <2> HIDE DEF m, acks
  <2>3. LaneOK(m, acks) /\ Stored(m) = Stored(G(p))
    BY <2>1, <2>2, SameLane
  <2>4. QED  BY <2>1, <2>3 DEF m, acks
<1>6. \A p : ChargedTo(p)' = ChargedTo(p)
  BY DEF ChargedTo
<1>7. Lanes'
  BY <1>5, <1>6 DEF Lanes
<1>8. ASSUME NEW p \in Pifos
      PROVE  /\ G(p).fifo \in Seq(Packet) /\ G(p).pifo \in SUBSET Packet
             /\ G(p).usage \in Nat /\ G(p).size \in Nat
  BY <1>2, LaneType
<1>9. /\ fifos' \in [Pifos -> Seq(Packet)] /\ pifos' \in [Pifos -> SUBSET Packet]
      /\ fifoBufferUsage' \in [Pifos -> Nat] /\ pifoCurrentSizes' \in [Pifos -> Nat]
  BY <1>1, <1>8
<1>10. UNION {G(p).evicted : p \in Pifos} = UNION {Visit(p).evicted : p \in V}
  BY <1>3
<1>11. QED  BY <1>1, <1>2, <1>5, <1>7, <1>9, <1>10

\* Packets that only leave do not get in each other's way.
LEMMA LeavingOK ==
  ASSUME Inv,
         \A p \in Pifos : Content(p)' \subseteq Content(p),
         UNCHANGED <<ackFifo, arrivals>>,
         sent' \cup dropped' \subseteq sent \cup dropped \cup Held
  PROVE  Placed' /\ Numbered' /\ Held' \subseteq Held
<1>1. Placed'
  BY DEF Inv, Placed
<1>2. Held' \subseteq Held
  <2>1. Held' = (UNION {Content(p)' : p \in Pifos}) \cup ToSet(ackFifo)
    BY DEF Held, Content
  <2>2. QED  BY <2>1, HeldParts
<1>3. Numbered'
  <2>1. Distinct(Held')
    BY <1>2, DistinctSubset DEF Inv, Numbered
  <2>2. \A k \in Held' \cup sent' \cup dropped' : k.id <= arrivals'
    BY <1>2 DEF Inv, Numbered
  <2>3. Distinct(Held)'
    BY <2>1 DEF Distinct
  <2>4. QED  BY <2>2, <2>3 DEF Numbered
<1>4. QED  BY <1>1, <1>2, <1>3

-----------------------------------------------------------------------------
(***************************************************************************)
(* Acknowledgements and the PIFOs they are charged to                      *)
(***************************************************************************)
\* The entries of queue s that are charged to PIFO p, from PIFO o on.
Charges(s, o, p) == Dealt(s, NumPifos, o, p)

\* An acknowledgement that is appended is charged to the PIFO its position falls on.
LEMMA ChargeAppend ==
  ASSUME NEW s \in Seq(Packet), NEW k \in Packet, NEW o \in Pifos, NEW p
  PROVE  Charges(Append(s, k), o, p)
           = Charges(s, o, p) \cup (IF (o + Len(s)) % NumPifos = p THEN {k} ELSE {})
BY Parameters, DealtAppend DEF Charges, Pifos

\* When the first acknowledgement leaves and the pointer moves on, the others stay
\* charged where they were.
LEMMA ChargeTail ==
  ASSUME NEW s \in Seq(Packet), s # <<>>, NEW o \in Pifos, NEW p
  PROVE  Charges(s, o, p)
           = Charges(Tail(s), (o + 1) % NumPifos, p) \cup (IF o = p THEN {Head(s)} ELSE {})
BY Parameters, DealtTail DEF Charges, Pifos

\* A PIFO's counter follows the acknowledgements charged to it.
LEMMA Recharge ==
  ASSUME NEW l, NEW m, NEW acks, NEW charged, LaneOK(l, acks),
         m.fifo = l.fifo, m.usage = l.usage, m.pifo = l.pifo,
         m.size = Bytes(l.pifo) + charged
  PROVE  LaneOK(m, charged) /\ Stored(m) = Stored(l)
BY DEF LaneOK, Stored

\* A packet that its FIFO has room for.
LEMMA AppendOK ==
  ASSUME NEW l, NEW m, NEW acks, LaneOK(l, acks),
         NEW k \in Packet, k \notin Stored(l), Distinct(Stored(l) \cup {k}),
         l.usage + k.size < FifoLimit,
         m.fifo = Append(l.fifo, k), m.usage = l.usage + k.size,
         m.pifo = l.pifo, m.size = l.size
  PROVE  LaneOK(m, acks) /\ Stored(m) = Stored(l) \cup {k}
<1>1. /\ l.fifo \in Seq(Packet) /\ Once(l.fifo) /\ k \notin ToSet(l.fifo) /\ k \notin l.pifo
  BY DEF LaneOK, Stored
<1>2. /\ m.fifo \in Seq(Packet) /\ Once(m.fifo) /\ ToSet(m.fifo) = ToSet(l.fifo) \cup {k}
  BY <1>1, AppendSet
<1>3. Stored(m) = Stored(l) \cup {k}
  BY <1>2 DEF Stored
<1>4. IsFiniteSet(ToSet(l.fifo)) /\ ToSet(l.fifo) \subseteq Packet
  BY LaneSets
<1>5. Bytes(ToSet(l.fifo) \cup {k}) = Bytes(ToSet(l.fifo)) + k.size
  <2>1. IsFiniteSet({k}) /\ {k} \subseteq Packet /\ ToSet(l.fifo) \cap {k} = {}
    BY <1>1, FS_Singleton
  <2>2. Bytes(ToSet(l.fifo) \cup {k}) = Bytes(ToSet(l.fifo)) + Bytes({k})
    BY <1>4, <2>1, BytesUnion
  <2>3. QED  BY <2>2, BytesOne
<1>6. m.usage = Bytes(ToSet(m.fifo))
  BY <1>2, <1>5 DEF LaneOK
<1>7. ToSet(m.fifo) \cap m.pifo = {}
  BY <1>1, <1>2 DEF LaneOK
<1>8. QED  BY <1>2, <1>3, <1>6, <1>7 DEF LaneOK

-----------------------------------------------------------------------------
(***************************************************************************)
(* The steps                                                               *)
(***************************************************************************)
LEMMA ChargedParts == \A p : ChargedTo(p) = Charges(ackFifo, ackOutputPointer, p)
BY DEF ChargedTo, Charges, Dealt

\* InitializeParams establishes the invariant.
LEMMA InitInv == Init => Inv
<1> SUFFICES ASSUME Init PROVE Inv
  OBVIOUS
<1>1. 0 \in Pifos /\ 0 \in 0 .. MaxPackets
  BY Parameters DEF Pifos
<1>2. ToSet(<<>>) = {} /\ <<>> \in Seq(Packet) /\ Len(<<>>) = 0 /\ Once(<<>>)
  <2>1. <<>> \in Seq(Packet) /\ Len(<<>>) = 0
    BY EmptySeq
  <2>2. ToSet(<<>>) = {}
    BY <2>1, ToSetType
  <2>3. DOMAIN <<>> = {}
    OBVIOUS
  <2>4. Once(<<>>)
    BY <2>3 DEF Once
  <2>5. QED  BY <2>1, <2>2, <2>4
<1>3. TypeOK
  BY <1>1, <1>2 DEF Init, TypeOK
<1>4. Balancers!IntervalInv
  BY BalancerSteps DEF Init
<1>5. \A p : ChargedTo(p) = {}
  BY <1>2 DEF Init, ChargedTo
<1>6. \A p \in Pifos : Content(p) = {} /\ fifos[p] = <<>> /\ pifos[p] = {}
  BY <1>2 DEF Init, Content, InFifo
<1>7. Held = {}
  BY <1>2, <1>6, HeldParts DEF Init
<1>8. Lanes
  <2> SUFFICES ASSUME NEW p \in Pifos PROVE LaneOK(Lane(p), Bytes(ChargedTo(p)))
    BY DEF Lanes
  <2>1. /\ Lane(p).fifo = <<>> /\ Lane(p).pifo = {} /\ Lane(p).usage = 0 /\ Lane(p).size = 0
        /\ Stored(Lane(p)) = {}
    BY <1>6, LaneFields DEF Init
  <2>2. Bytes(ChargedTo(p)) = 0
    BY <1>5, BytesNone
  <2> DEFINE l == Lane(p)
             acks == Bytes(ChargedTo(p))
  <2>3. /\ l.fifo = <<>> /\ l.pifo = {} /\ l.usage = 0 /\ l.size = 0
        /\ Stored(l) = {} /\ acks = 0
    BY <2>1, <2>2
  <2> HIDE DEF l, acks
  <2>4. l.fifo \in Seq(Packet) /\ Once(l.fifo) /\ ToSet(l.fifo) = {}
    BY <1>2, <2>3
  <2>5. Bytes(ToSet(l.fifo)) = 0 /\ Bytes(l.pifo) = 0
    BY <2>3, <2>4, BytesNone
  <2>6. Distinct(Stored(l))
    BY <2>3 DEF Distinct
  <2>7. LaneOK(l, acks)
    BY <2>3, <2>4, <2>5, <2>6, Parameters DEF LaneOK
  <2>8. QED  BY <2>7 DEF l, acks
<1>9. Placed
  BY <1>2, <1>6 DEF Init, Placed
<1>10. Numbered
  BY <1>7 DEF Init, Numbered, Distinct
<1>11. AckPointers
  <2>1. 0 % NumPifos = 0
    <3>1. NumPifos \in Nat \ {0} /\ 0 \in Nat /\ 0 < 2 * NumPifos /\ 0 < NumPifos
      BY Parameters
    <3>2. QED  BY <3>1, Wrap
  <2>2. Len(ackFifo) = 0 /\ ackOutputPointer = 0 /\ ackInputPointer = 0
    BY <1>2 DEF Init
  <2>3. ackOutputPointer + Len(ackFifo) = 0
    BY <2>2
  <2>4. QED  BY <2>1, <2>2, <2>3 DEF AckPointers
<1>12. Turns
  BY <1>6, Parameters DEF Init, Turns
<1>13. QED  BY <1>3, <1>4, <1>8, <1>9, <1>10, <1>11, <1>12 DEF Inv

\* The invariant of the load balancers does not depend on anything else.
LEMMA BalancersRest == Balancers!IntervalInv /\ UNCHANGED intervalVars => Balancers!IntervalInv'
BY DEF Balancers!IntervalInv, Balancers!TypeOK, Balancers!Balanced,
       Balancers!IntervalsWide, Balancers!Width, intervalVars

\* A packet that arrives is a new one.
LEMMA Newcomer ==
  ASSUME Inv, arrivals < MaxPackets,
         NEW rank \in Ranks \cup {1}, NEW time \in SendTimes \cup {0}, NEW size \in Sizes
  PROVE  LET k == NewPacket(rank, time, size)
         IN  /\ k \in Packet /\ k.size = size /\ k.id = arrivals + 1
             /\ k \notin Held \cup sent \cup dropped
             /\ Distinct(Held \cup {k})
             /\ \A j \in Held \cup sent \cup dropped \cup {k} : j.id <= arrivals + 1
             /\ arrivals + 1 \in 0 .. MaxPackets
<1> DEFINE k == NewPacket(rank, time, size)
           All == Held \cup sent \cup dropped
<1>1. arrivals \in Nat /\ arrivals + 1 \in 1 .. MaxPackets
  BY Parameters DEF Inv, TypeOK
<1>2. k \in Packet /\ k.size = size /\ k.id = arrivals + 1
  BY <1>1 DEF NewPacket, Packet
<1>3. Held \subseteq Packet
  <2>1. ToSet(ackFifo) \subseteq Packet
    BY ChargeType
  <2>2. \A p \in Pifos : Content(p) \subseteq Packet
    BY LaneSets, LaneFields DEF Inv, Lanes
  <2>3. QED  BY <2>1, <2>2, HeldParts
<1>4. All \subseteq Packet
  BY <1>3 DEF Inv, TypeOK
<1>5. \A j \in All : j.id \in Nat /\ j.id <= arrivals
  BY <1>4, Fields DEF Inv, Numbered
<1> HIDE DEF k
<1>6. k \notin All
  BY <1>1, <1>2, <1>5
<1>7. Distinct(Held \cup {k})
  <2>1. Distinct(Held)
    BY DEF Inv, Numbered
  <2>2. \A j \in Held : j.id # k.id
    BY <1>1, <1>2, <1>5
  <2>3. QED  BY <2>1, <2>2 DEF Distinct
<1>8. \A j \in All \cup {k} : j.id <= arrivals + 1
  BY <1>1, <1>2, <1>5
<1>9. QED  BY <1>1, <1>2, <1>6, <1>7, <1>8 DEF k

\* An acknowledgement is accepted, and charged to the PIFO whose turn it is.
LEMMA EnqueueAckOK ==
  ASSUME Inv, NEW size \in Sizes, EnqueueAck(size)
  PROVE  Inv' /\ \E k \in Packet : Contract!Accept(k)
<1> DEFINE k == NewPacket(1, 0, size)
<1>1. /\ arrivals < MaxPackets
      /\ pifoCurrentSizes' = [pifoCurrentSizes EXCEPT ![ackInputPointer] = @ + size]
      /\ ackInputPointer' = (ackInputPointer + 1) % NumPifos
      /\ ackFifo' = Append(ackFifo, k)
      /\ arrivals' = arrivals + 1
      /\ ret' = [call |-> "enqueue", packets |-> {k}]
      /\ UNCHANGED <<intervalVars, fifos, pifos, fifoBufferUsage,
                     pifoIndex, ackOutputPointer, sent, dropped, bypassed>>
  BY DEF EnqueueAck, Answer
<1>2. /\ k \in Packet /\ k.size = size /\ k.id = arrivals + 1
      /\ k \notin Held \cup sent \cup dropped
      /\ Distinct(Held \cup {k})
      /\ \A j \in Held \cup sent \cup dropped \cup {k} : j.id <= arrivals + 1
      /\ arrivals + 1 \in 0 .. MaxPackets
  BY <1>1, Newcomer
<1> HIDE DEF k
<1>3. TypeOK /\ Numbered /\ Placed /\ AckPointers /\ Lanes
  BY DEF Inv
<1>4. ackFifo \in Seq(Packet) /\ Len(ackFifo) \in Nat
  BY <1>3, LenProperties DEF TypeOK
<1>5. /\ NumPifos \in Nat \ {0} /\ ackOutputPointer \in Nat /\ ackInputPointer \in Nat
      /\ ackOutputPointer \in Pifos /\ ackInputPointer \in Pifos
  BY <1>3, Parameters DEF TypeOK, Pifos
<1>6. \A p \in Pifos : Content(p)' = Content(p)
  BY <1>1 DEF Content, InFifo
<1>7. /\ ackFifo' \in Seq(Packet) /\ Len(ackFifo') = Len(ackFifo) + 1
      /\ ToSet(ackFifo') = ToSet(ackFifo) \cup {k}
      /\ Once(ackFifo')
  <2>1. k \notin ToSet(ackFifo)
    BY <1>2, HeldParts
  <2>2. QED  BY <1>1, <1>2, <1>3, <1>4, <2>1, AppendSet, AppendProperties DEF Placed
<1>8. Held' = Held \cup {k}
  <2>1. Held' = (UNION {Content(p)' : p \in Pifos}) \cup ToSet(ackFifo')
    BY DEF Held, Content
  <2>2. QED  BY <1>6, <1>7, <2>1, HeldParts
<1>9. ackInputPointer' \in Pifos
  <2>1. ackInputPointer + 1 \in Nat
    BY <1>5
  <2>2. QED  BY <1>1, <1>5, <2>1, DivMod DEF Pifos
<1>10. AckPointers'
  <2> DEFINE e == ackOutputPointer + Len(ackFifo)
  <2>1. e \in Nat /\ e + 1 = ackOutputPointer + Len(ackFifo') /\ ackInputPointer = e % NumPifos
    BY <1>3, <1>4, <1>5, <1>7 DEF AckPointers
  <2> HIDE DEF e
  <2>2. ((e % NumPifos) + 1) % NumPifos = (e + 1) % NumPifos
    BY <1>5, <2>1, ModShift
  <2>3. ackInputPointer' = (ackOutputPointer + Len(ackFifo')) % NumPifos
    BY <1>1, <2>1, <2>2
  <2>4. QED  BY <1>1, <2>3 DEF AckPointers
<1>11. \A p : ChargedTo(p)' = ChargedTo(p) \cup (IF ackInputPointer = p THEN {k} ELSE {})
  <2>1. \A p : Charges(ackFifo', ackOutputPointer, p)
             = Charges(ackFifo, ackOutputPointer, p)
                 \cup (IF (ackOutputPointer + Len(ackFifo)) % NumPifos = p THEN {k} ELSE {})
    BY <1>1, <1>2, <1>4, <1>5, ChargeAppend
  <2>2. \A p : ChargedTo(p)' = Charges(ackFifo', ackOutputPointer, p)
    BY <1>1 DEF ChargedTo, Charges, Dealt
  <2>3. QED  BY <1>3, <2>1, <2>2, ChargedParts DEF AckPointers
<1>12. Lanes'
  <2> SUFFICES ASSUME NEW p \in Pifos PROVE LaneOK(Lane(p)', Bytes(ChargedTo(p)'))
    BY DEF Lanes
  <2> DEFINE l == Lane(p)
             m == Lane(p)'
             acks == Bytes(ChargedTo(p))
             charged == Bytes(ChargedTo(p)')
  <2>1. LaneOK(l, acks) /\ acks \in Nat /\ Bytes(l.pifo) \in Nat
    BY <1>3, ChargeType, LaneSets, BytesType DEF Lanes, LaneOK
  <2>2. /\ m.fifo = l.fifo /\ m.usage = l.usage /\ m.pifo = l.pifo
        /\ l.size = pifoCurrentSizes[p] /\ m.size = pifoCurrentSizes'[p]
    BY <1>1 DEF Lane
  <2>3. pifoCurrentSizes \in [Pifos -> Nat] /\ size \in Nat
    BY <1>2, <1>3, Fields DEF TypeOK
  <2>4. m.size = l.size + (IF p = ackInputPointer THEN size ELSE 0)
    <3> HIDE DEF l, m
    <3>1. pifoCurrentSizes[p] \in Nat
      BY <2>3
    <3>2. pifoCurrentSizes'[p]
            = IF p = ackInputPointer THEN pifoCurrentSizes[p] + size ELSE pifoCurrentSizes[p]
      BY <1>1, <2>3
    <3>3. QED  BY <2>2, <3>1, <3>2
  <2>5. charged = acks + (IF p = ackInputPointer THEN size ELSE 0)
    <3>1. CASE p = ackInputPointer
      <4>1. /\ ChargedTo(p) \subseteq Packet /\ IsFiniteSet(ChargedTo(p))
            /\ ChargedTo(p) \cap {k} = {}
        BY <1>2, ChargeType, HeldParts
      <4>2. {k} \subseteq Packet /\ IsFiniteSet({k}) /\ Bytes({k}) = size
        BY <1>2, BytesOne, FS_Singleton
      <4>3. Bytes(ChargedTo(p) \cup {k}) = Bytes(ChargedTo(p)) + Bytes({k})
        BY <4>1, <4>2, BytesUnion
      <4>4. QED  BY <1>11, <3>1, <4>2, <4>3
    <3>2. CASE p # ackInputPointer
      <4>1. ChargedTo(p)' = ChargedTo(p)
        BY <1>11, <3>2
      <4>2. QED  BY <2>1, <3>2, <4>1
    <3>3. QED  BY <3>1, <3>2
  <2> HIDE DEF l, m, acks, charged
  <2>6. m.size = Bytes(l.pifo) + charged
    <3>1. l.size = Bytes(l.pifo) + acks
      BY <2>1 DEF LaneOK
    <3>2. QED  BY <2>1, <2>3, <2>4, <2>5, <3>1
  <2>7. LaneOK(m, charged)
    BY <2>1, <2>2, <2>6, Recharge
  <2>8. QED  BY <2>7 DEF m, charged
<1>13. TypeOK'
  <2>1. pifoCurrentSizes' \in [Pifos -> Nat]
    <3>1. pifoCurrentSizes \in [Pifos -> Nat] /\ size \in Nat
      BY <1>2, <1>3, Fields DEF TypeOK
    <3>2. QED  BY <1>1, <1>5, <3>1
  <2>2. ret' \in [call : {"none", "enqueue", "dequeue"}, packets : SUBSET Packet]
    BY <1>1, <1>2
  <2>3. QED  BY <1>1, <1>2, <1>3, <1>7, <1>9, <2>1, <2>2 DEF TypeOK
<1>14. Placed'
  <2>1. \A p \in Pifos : k \notin Content(p)
    BY <1>2, HeldParts
  <2>2. QED  BY <1>3, <1>6, <1>7, <2>1 DEF Placed
<1>15. Numbered'
  <2>1. Distinct(Held')
    BY <1>2, <1>8
  <2>2. \A j \in Held' \cup sent' \cup dropped' : j.id <= arrivals'
    BY <1>1, <1>2, <1>8
  <2>3. QED  BY <2>1, <2>2 DEF Numbered, Distinct
<1>16. Turns'
  BY <1>1 DEF Inv, Turns, Turn
<1>17. Balancers!IntervalInv'
  BY <1>1, BalancersRest DEF Inv
<1>18. Contract!Accept(k)
  BY <1>1, <1>2, <1>8
  DEF Contract!Accept, Contract!Evictions, Contract!New, Contract!Return
<1>19. QED
  BY <1>2, <1>10, <1>12, <1>13, <1>14, <1>15, <1>16, <1>17, <1>18 DEF Inv

\* A packet that the FIFO of its PIFO has room for is accepted.
LEMMA EnqueueRoomOK ==
  ASSUME Inv, NEW rank \in Ranks, NEW time \in SendTimes, NEW size \in Sizes,
         EnqueueData(rank, time, size), HasRoom(Intervals!ChosenPifo(rank), size)
  PROVE  Inv' /\ \E k \in Packet : Contract!Accept(k)
<1> DEFINE k == NewPacket(rank, time, size)
           c == Intervals!ChosenPifo(rank)
<1>1. /\ arrivals < MaxPackets
      /\ Intervals!Admit(rank)
      /\ fifos' = [fifos EXCEPT ![c] = Append(@, k)]
      /\ fifoBufferUsage' = [fifoBufferUsage EXCEPT ![c] = @ + size]
      /\ ret' = [call |-> "enqueue", packets |-> {k}]
      /\ arrivals' = arrivals + 1
      /\ UNCHANGED <<pifos, pifoCurrentSizes, pifoIndex, ackFifo,
                     ackInputPointer, ackOutputPointer, sent, dropped, bypassed>>
  BY DEF EnqueueData, Answer
<1>2. /\ k \in Packet /\ k.size = size /\ k.id = arrivals + 1
      /\ k \notin Held \cup sent \cup dropped
      /\ Distinct(Held \cup {k})
      /\ \A j \in Held \cup sent \cup dropped \cup {k} : j.id <= arrivals + 1
      /\ arrivals + 1 \in 0 .. MaxPackets
  BY <1>1, Newcomer
<1>3. c \in Pifos /\ Balancers!IntervalInv'
  BY <1>1, BalancerSteps DEF Inv
<1>4. fifoBufferUsage[c] + size < FifoLimit
  BY DEF HasRoom
<1> HIDE DEF k, c
<1>5. TypeOK /\ Numbered /\ Placed /\ Lanes
  BY DEF Inv
<1>6. /\ fifos \in [Pifos -> Seq(Packet)] /\ fifoBufferUsage \in [Pifos -> Nat]
      /\ size \in Nat
  BY <1>2, <1>5, Fields DEF TypeOK
<1>7. \A p : ChargedTo(p)' = ChargedTo(p)
  BY <1>1 DEF ChargedTo
<1>8. ASSUME NEW p \in Pifos
      PROVE  /\ LaneOK(Lane(p)', Bytes(ChargedTo(p)'))
             /\ Content(p)' = Content(p) \cup (IF p = c THEN {k} ELSE {})
  <2> DEFINE l == Lane(p)
             m == Lane(p)'
             acks == Bytes(ChargedTo(p))
  <2>1. LaneOK(l, acks) /\ Stored(l) = Content(p)
    BY <1>5, LaneFields DEF Lanes
  <2>2. /\ m.fifo = fifos'[p] /\ m.usage = fifoBufferUsage'[p]
        /\ m.pifo = l.pifo /\ m.size = l.size
        /\ l.fifo = fifos[p] /\ l.usage = fifoBufferUsage[p]
        /\ Stored(m) = Content(p)'
    BY <1>1 DEF Lane, Stored, Content, InFifo
  <2> HIDE DEF l, m, acks
  <2>3. CASE p = c
    <3>1. m.fifo = Append(l.fifo, k) /\ m.usage = l.usage + k.size
      BY <1>1, <1>2, <1>6, <2>2, <2>3
    <3>2. l.usage + k.size < FifoLimit
      BY <1>2, <1>4, <2>2, <2>3
    <3>3. Stored(l) \subseteq Held
      BY <2>1, HeldParts
    <3>4. k \notin Stored(l) /\ Distinct(Stored(l) \cup {k})
      BY <1>2, <3>3 DEF Distinct
    <3>5. LaneOK(m, acks) /\ Stored(m) = Stored(l) \cup {k}
      BY <1>2, <2>1, <2>2, <3>1, <3>2, <3>4, AppendOK
    <3>6. QED  BY <1>7, <2>1, <2>2, <2>3, <3>5 DEF m, acks
  <2>4. CASE p # c
    <3>1. m.fifo = l.fifo /\ m.usage = l.usage
      BY <1>1, <1>6, <2>2, <2>4
    <3>2. LaneOK(m, acks) /\ Stored(m) = Stored(l)
      BY <2>1, <2>2, <3>1, SameLane
    <3>3. QED  BY <1>7, <2>1, <2>2, <2>4, <3>2 DEF m, acks
  <2>5. QED  BY <2>3, <2>4
<1>9. Held' = Held \cup {k}
  <2>1. Held' = (UNION {Content(p)' : p \in Pifos}) \cup ToSet(ackFifo)
    BY <1>1 DEF Held, Content
  <2>2. Held' \subseteq Held \cup {k}
    BY <1>8, <2>1, HeldParts
  <2>3. Held \subseteq Held'
    BY <1>8, <2>1, HeldParts
  <2>4. k \in Held'
    BY <1>3, <1>8, <2>1
  <2>5. QED  BY <2>2, <2>3, <2>4
<1>10. TypeOK'
  <2>1. fifos' \in [Pifos -> Seq(Packet)]
    <3>1. \A p \in Pifos : fifos'[p] \in Seq(Packet)
      BY <1>1, <1>2, <1>6, AppendSet
    <3>2. QED  BY <1>1, <1>6, <3>1
  <2>2. fifoBufferUsage' \in [Pifos -> Nat]
    BY <1>1, <1>3, <1>6
  <2>3. ret' \in [call : {"none", "enqueue", "dequeue"}, packets : SUBSET Packet]
    BY <1>1, <1>2
  <2>4. QED  BY <1>1, <1>2, <1>5, <2>1, <2>2, <2>3 DEF TypeOK
<1>11. Lanes'
  BY <1>8 DEF Lanes
<1>12. Placed'
  <2>1. k \notin ToSet(ackFifo) /\ \A p \in Pifos : k \notin Content(p)
    BY <1>2, HeldParts
  <2>2. QED  BY <1>1, <1>5, <1>8, <2>1 DEF Placed
<1>13. Numbered'
  <2>1. Distinct(Held')
    BY <1>2, <1>9
  <2>2. \A j \in Held' \cup sent' \cup dropped' : j.id <= arrivals'
    BY <1>1, <1>2, <1>9
  <2>3. QED  BY <2>1, <2>2 DEF Numbered, Distinct
<1>14. AckPointers' /\ Turns'
  BY <1>1 DEF Inv, AckPointers, Turns, Turn
<1>15. Contract!Accept(k)
  BY <1>1, <1>2, <1>9
  DEF Contract!Accept, Contract!Evictions, Contract!New, Contract!Return
<1>16. QED
  BY <1>2, <1>3, <1>10, <1>11, <1>12, <1>13, <1>14, <1>15 DEF Inv

\* A packet that the FIFO has no room for is dropped.
LEMMA EnqueueFullOK ==
  ASSUME Inv, NEW rank \in Ranks, NEW time \in SendTimes, NEW size \in Sizes,
         EnqueueData(rank, time, size), ~HasRoom(Intervals!ChosenPifo(rank), size)
  PROVE  Inv' /\ \E k \in Packet : Contract!Refuse(k)
<1> DEFINE k == NewPacket(rank, time, size)
<1>1. /\ arrivals < MaxPackets
      /\ Intervals!Refuse(rank)
      /\ dropped' = dropped \cup {k}
      /\ ret' = [call |-> "enqueue", packets |-> {}]
      /\ arrivals' = arrivals + 1
      /\ UNCHANGED <<fifos, fifoBufferUsage, pifos, pifoCurrentSizes, pifoIndex, ackFifo,
                     ackInputPointer, ackOutputPointer, sent, bypassed>>
  BY DEF EnqueueData, Answer
<1>2. /\ k \in Packet /\ k \notin Held \cup sent \cup dropped
      /\ \A j \in Held \cup sent \cup dropped \cup {k} : j.id <= arrivals + 1
      /\ arrivals + 1 \in 0 .. MaxPackets
  BY <1>1, Newcomer
<1>3. Balancers!IntervalInv'
  BY <1>1, BalancerSteps DEF Inv
<1> HIDE DEF k
<1>4. TypeOK /\ Numbered /\ Placed /\ Lanes
  BY DEF Inv
<1>5. Held' = Held
  BY <1>1 DEF Held, InFifo
<1>6. TypeOK'
  <2>1. ret' \in [call : {"none", "enqueue", "dequeue"}, packets : SUBSET Packet]
    BY <1>1
  <2>2. QED  BY <1>1, <1>2, <1>4, <2>1 DEF TypeOK
<1>7. Lanes' /\ Placed'
  <2>1. \A p : Lane(p)' = Lane(p) /\ ChargedTo(p)' = ChargedTo(p) /\ Content(p)' = Content(p)
    BY <1>1 DEF Lane, ChargedTo, Content, InFifo
  <2>2. \A p \in Pifos : LaneOK(Lane(p)', Bytes(ChargedTo(p)'))
    BY <1>4, <2>1 DEF Lanes
  <2>3. Lanes'
    BY <2>2 DEF Lanes
  <2>4. Placed'
    BY <1>1, <1>4, <2>1 DEF Placed
  <2>5. QED  BY <2>3, <2>4
<1>8. Numbered'
  BY <1>1, <1>2, <1>4, <1>5 DEF Numbered, Distinct
<1>9. AckPointers' /\ Turns'
  BY <1>1 DEF Inv, AckPointers, Turns, Turn
<1>10. Contract!Refuse(k)
  BY <1>1, <1>2, <1>5
  DEF Contract!Refuse, Contract!Evictions, Contract!New, Contract!Return
<1>11. QED  BY <1>2, <1>3, <1>6, <1>7, <1>8, <1>9, <1>10 DEF Inv

\* The oldest acknowledgement is sent, and taken off the PIFO it was charged to.
LEMMA DequeueAckOK ==
  ASSUME Inv, DequeueAck
  PROVE  Inv' /\ Contract!Serve
<1> DEFINE k == Head(ackFifo)
<1>1. /\ ackFifo # <<>>
      /\ ackFifo' = Tail(ackFifo)
      /\ pifoCurrentSizes' = [pifoCurrentSizes EXCEPT ![ackOutputPointer] = @ - k.size]
      /\ ackOutputPointer' = (ackOutputPointer + 1) % NumPifos
      /\ sent' = sent \cup {k}
      /\ ret' = [call |-> "dequeue", packets |-> {k}]
      /\ UNCHANGED <<intervalVars, fifos, pifos, fifoBufferUsage,
                     pifoIndex, ackInputPointer, arrivals, dropped, bypassed>>
  BY DEF DequeueAck, Answer
<1>2. TypeOK /\ Numbered /\ Placed /\ AckPointers /\ Lanes
  BY DEF Inv
<1>3. /\ NumPifos \in Nat \ {0} /\ ackOutputPointer \in Nat
      /\ ackOutputPointer \in Pifos /\ ackFifo \in Seq(Packet) /\ Once(ackFifo)
      /\ pifoCurrentSizes \in [Pifos -> Nat]
  BY <1>2, Parameters DEF TypeOK, Placed, Pifos
<1>4. /\ k \in Packet /\ k \in ToSet(ackFifo) /\ k \notin ToSet(ackFifo')
      /\ ackFifo' \in Seq(Packet) /\ Once(ackFifo')
      /\ ToSet(ackFifo') = ToSet(ackFifo) \ {k}
  BY <1>1, <1>3, TailSet
<1>5. Len(ackFifo) \in Nat /\ Len(ackFifo) > 0 /\ Len(ackFifo') = Len(ackFifo) - 1
  BY <1>1, <1>3, LenProperties, HeadTailProperties, EmptySeq
<1>6. \A p : /\ ChargedTo(p) = ChargedTo(p)' \cup (IF ackOutputPointer = p THEN {k} ELSE {})
             /\ k \notin ChargedTo(p)'
  <2>1. \A p : Charges(ackFifo, ackOutputPointer, p)
                 = Charges(ackFifo', ackOutputPointer', p)
                     \cup (IF ackOutputPointer = p THEN {k} ELSE {})
    BY <1>1, <1>3, ChargeTail
  <2>2. \A p : ChargedTo(p)' = Charges(ackFifo', ackOutputPointer', p)
    BY DEF ChargedTo, Charges, Dealt
  <2>3. \A p : ChargedTo(p)' \subseteq ToSet(ackFifo')
    <3>1. ToSet(ackFifo') = {ackFifo'[n] : n \in 1 .. Len(ackFifo')}
      BY <1>4, ToSetType
    <3>2. QED  BY <2>2, <3>1 DEF Charges, Dealt
  <2>4. QED  BY <1>4, <2>1, <2>2, <2>3, ChargedParts
<1> HIDE DEF k
<1>7. \A p \in Pifos : Content(p)' = Content(p) /\ k \notin Content(p)
  BY <1>1, <1>2, <1>4 DEF Content, InFifo, Placed
<1>8. Held' = Held \ {k} /\ k \in Held
  <2>1. Held' = (UNION {Content(p)' : p \in Pifos}) \cup ToSet(ackFifo')
    BY DEF Held, Content
  <2>2. Held' \subseteq Held \ {k}
    BY <1>4, <1>7, <2>1, HeldParts
  <2>3. Held \ {k} \subseteq Held'
    BY <1>4, <1>7, <2>1, HeldParts
  <2>4. QED  BY <1>4, <2>2, <2>3, HeldParts
<1>9. Lanes' /\ pifoCurrentSizes' \in [Pifos -> Nat]
  <2>1. ASSUME NEW p \in Pifos
        PROVE  LaneOK(Lane(p)', Bytes(ChargedTo(p)')) /\ pifoCurrentSizes'[p] \in Nat
    <3> DEFINE l == Lane(p)
               m == Lane(p)'
               acks == Bytes(ChargedTo(p))
               charged == Bytes(ChargedTo(p)')
    <3>1. LaneOK(l, acks) /\ acks \in Nat /\ Bytes(l.pifo) \in Nat
      BY <1>2, ChargeType, LaneSets, BytesType DEF Lanes, LaneOK
    <3>2. /\ m.fifo = l.fifo /\ m.usage = l.usage /\ m.pifo = l.pifo
          /\ l.size = pifoCurrentSizes[p] /\ m.size = pifoCurrentSizes'[p]
      BY <1>1 DEF Lane
    <3>3. k.size \in Nat /\ pifoCurrentSizes[p] \in Nat
      BY <1>3, <1>4, Fields
    <3>4. /\ charged \in Nat
          /\ acks = charged + (IF ackOutputPointer = p THEN k.size ELSE 0)
      <4>1. CASE ackOutputPointer = p
        <5>1. ChargedTo(p) = ChargedTo(p)' \cup {k} /\ ChargedTo(p)' \cap {k} = {}
          BY <1>6, <4>1
        <5>2. /\ ChargedTo(p)' \subseteq Packet /\ IsFiniteSet(ChargedTo(p)')
              /\ {k} \subseteq Packet /\ IsFiniteSet({k})
          BY <1>4, <5>1, ChargeType, FS_Subset, FS_Singleton
        <5>3. /\ Bytes(ChargedTo(p)' \cup {k}) = Bytes(ChargedTo(p)') + Bytes({k})
              /\ Bytes(ChargedTo(p)') \in Nat
          BY <5>1, <5>2, BytesUnion
        <5>4. Bytes({k}) = k.size
          BY <1>4, BytesOne
        <5>5. QED  BY <4>1, <5>1, <5>3, <5>4
      <4>2. CASE ackOutputPointer # p
        <5>1. ChargedTo(p)' = ChargedTo(p)
          BY <1>6, <4>2
        <5>2. QED  BY <3>1, <4>2, <5>1
      <4>3. QED  BY <4>1, <4>2
    <3>5. pifoCurrentSizes'[p]
            = IF ackOutputPointer = p THEN pifoCurrentSizes[p] - k.size ELSE pifoCurrentSizes[p]
      BY <1>1, <1>3
    <3> HIDE DEF l, m, acks, charged
    <3>6. m.size = Bytes(l.pifo) + charged /\ m.size \in Nat
      <4>1. l.size = Bytes(l.pifo) + acks
        BY <3>1 DEF LaneOK
      <4>2. QED  BY <3>1, <3>2, <3>3, <3>4, <3>5, <4>1
    <3>7. LaneOK(m, charged)
      BY <3>1, <3>2, <3>6, Recharge
    <3>8. QED  BY <3>2, <3>6, <3>7 DEF m, charged
  <2>2. Lanes'
    BY <2>1 DEF Lanes
  <2>3. pifoCurrentSizes' \in [Pifos -> Nat]
    BY <1>1, <1>3, <2>1
  <2>4. QED  BY <2>2, <2>3
<1>10. AckPointers' /\ ackOutputPointer' \in Pifos
  <2> DEFINE e == ackOutputPointer + 1
             m == Len(ackFifo')
  <2>1. /\ e \in Nat /\ m \in Nat /\ e + m = ackOutputPointer + Len(ackFifo)
        /\ ackOutputPointer' = e % NumPifos
    BY <1>1, <1>3, <1>5
  <2>2. ((e % NumPifos) + m) % NumPifos = (e + m) % NumPifos
    <3> HIDE DEF e, m
    <3>1. QED  BY <1>3, <2>1, ModShift
  <2>3. ackInputPointer' = (ackOutputPointer' + Len(ackFifo')) % NumPifos
    BY <1>1, <1>2, <2>1, <2>2 DEF AckPointers
  <2>4. e % NumPifos \in Pifos
    <3> HIDE DEF e
    <3>1. QED  BY <1>3, <2>1, DivMod DEF Pifos
  <2>5. QED  BY <2>1, <2>3, <2>4 DEF AckPointers
<1>11. TypeOK'
  <2>1. ret' \in [call : {"none", "enqueue", "dequeue"}, packets : SUBSET Packet]
    BY <1>1, <1>4
  <2>2. QED  BY <1>1, <1>2, <1>4, <1>9, <1>10, <2>1 DEF TypeOK
<1>12. Placed'
  BY <1>2, <1>4, <1>7 DEF Placed
<1>13. Numbered'
  <2>1. Distinct(Held')
    BY <1>2, <1>8, DistinctSubset DEF Numbered
  <2>2. \A j \in Held' \cup sent' \cup dropped' : j.id <= arrivals'
    BY <1>1, <1>2, <1>8 DEF Numbered
  <2>3. QED  BY <2>1, <2>2 DEF Numbered, Distinct
<1>14. Turns'
  BY <1>1 DEF Inv, Turns, Turn
<1>15. Balancers!IntervalInv'
  BY <1>1, BalancersRest DEF Inv
<1>16. Contract!Serve
  <2>1. {} \in Contract!Evictions("dequeue")
    BY DEF Contract!Evictions
  <2>2. Held' = Held \ ({k} \cup {}) /\ dropped' = dropped \cup {}
    BY <1>1, <1>8
  <2>3. QED  BY <1>1, <1>8, <2>1, <2>2 DEF Contract!Serve, Contract!Return
<1>17. QED
  BY <1>9, <1>10, <1>11, <1>12, <1>13, <1>14, <1>15, <1>16 DEF Inv

\* A visit is to a PIFO of this queue disc.
LEMMA TurnPifo ==
  ASSUME pifoIndex \in Pifos, NEW n \in Nat
  PROVE  Turn(n) \in Pifos
<1> DEFINE e == pifoIndex + n
<1>1. e \in Nat /\ NumPifos \in Nat \ {0}
  BY Parameters DEF Pifos
<1> HIDE DEF e
<1>2. e % NumPifos \in Pifos
  BY <1>1, DivMod DEF Pifos
<1>3. QED  BY <1>2 DEF Turn, e

\* With no acknowledgement queued, a visit sends nothing only if there is nothing.
LEMMA YieldOK ==
  ASSUME Inv, ackFifo = <<>>, NEW p \in Pifos
  PROVE  /\ Yield(p) \subseteq Content(p)
         /\ Visit(p).evicted \subseteq Content(p) \ Yield(p)
         /\ Yield(p) = {} \/ \E k : Yield(p) = {k}
         /\ (Yield(p) = {} <=> Content(p) = {})
<1>1. ChargedTo(p) = {}
  <2>1. Len(ackFifo) = 0
    BY EmptySeq
  <2>2. QED  BY <2>1 DEF ChargedTo
<1>2. Bytes(ChargedTo(p)) = 0
  BY <1>1, BytesNone
<1>3. LaneOK(Lane(p), 0)
  BY <1>2 DEF Inv, Lanes
<1>4. QED  BY <1>3, VisitOK

\* With no acknowledgement queued, the packets are those of the PIFOs' side.
LEMMA NoAcks ==
  ASSUME ackFifo = <<>>
  PROVE  Held = UNION {Content(p) : p \in Pifos}
<1>1. ToSet(ackFifo) = {}
  <2>1. <<>> \in Seq(Packet)
    BY EmptySeq
  <2>2. QED  BY <2>1, ToSetType
<1>2. QED  BY <1>1, HeldParts

\* DoDequeue goes around without a packet: nothing is held, and nothing changes.
LEMMA DequeueNothingOK ==
  ASSUME Inv, DequeueNothing
  PROVE  Inv' /\ Contract!Idle
<1>1. /\ ackFifo = <<>>
      /\ \A p \in Pifos : Yield(p) = {}
      /\ VisitAll(Pifos)
      /\ ret' = [call |-> "dequeue", packets |-> {}]
      /\ UNCHANGED <<intervalVars, pifoIndex, ackFifo, ackInputPointer,
                     ackOutputPointer, arrivals, sent, bypassed>>
  BY DEF DequeueNothing, Answer
<1>2. \A p \in Pifos : Content(p) = {} /\ Visit(p).evicted = {}
  BY <1>1, YieldOK
<1>3. Held = {}
  BY <1>1, <1>2, NoAcks
<1>4. /\ Lanes'
      /\ fifos' \in [Pifos -> Seq(Packet)] /\ pifos' \in [Pifos -> SUBSET Packet]
      /\ fifoBufferUsage' \in [Pifos -> Nat] /\ pifoCurrentSizes' \in [Pifos -> Nat]
      /\ \A p \in Pifos : Content(p)' = Content(p) \ (Yield(p) \cup Visit(p).evicted)
      /\ dropped' = dropped \cup UNION {Visit(p).evicted : p \in Pifos}
  BY <1>1, VisitAllOK
<1>5. dropped' = dropped
  BY <1>2, <1>4
<1>6. \A p \in Pifos : Content(p)' \subseteq Content(p)
  BY <1>4
<1>7. Placed' /\ Numbered' /\ Held' \subseteq Held
  BY <1>1, <1>5, <1>6, LeavingOK
<1>8. TypeOK'
  <2>1. ret' \in [call : {"none", "enqueue", "dequeue"}, packets : SUBSET Packet]
    BY <1>1
  <2>2. QED  BY <1>1, <1>4, <1>5, <2>1 DEF Inv, TypeOK
<1>9. AckPointers' /\ Turns'
  BY <1>1 DEF Inv, AckPointers, Turns, Turn
<1>10. Balancers!IntervalInv'
  BY <1>1, BalancersRest DEF Inv
<1>11. Contract!Idle
  BY <1>1, <1>3, <1>5, <1>7 DEF Contract!Idle, Contract!Return
<1>12. QED
  BY <1>4, <1>7, <1>8, <1>9, <1>10, <1>11 DEF Inv

\* The n-th PIFO sends its best packet; those before it have none.
LEMMA DequeueDataOK ==
  ASSUME Inv, NEW n \in 0 .. NumPifos - 1, DequeueData(n)
  PROVE  Inv' /\ Contract!Serve
<1> DEFINE p == Turn(n)
           V == {Turn(m) : m \in 0 .. n}
           lost == UNION {Visit(q).evicted : q \in V}
<1>1. /\ ackFifo = <<>>
      /\ Yield(p) # {}
      /\ \A m \in 0 .. n - 1 : Yield(Turn(m)) = {}
      /\ VisitAll(V)
      /\ pifoIndex' = (p + 1) % NumPifos
      /\ sent' = sent \cup Yield(p)
      /\ ret' = [call |-> "dequeue", packets |-> Yield(p)]
      /\ bypassed' = [q \in Pifos |->
           IF q = p \/ (fifos'[q] = <<>> /\ pifos'[q] = {}) THEN 0 ELSE bypassed[q] + 1]
      /\ UNCHANGED <<intervalVars, ackFifo, ackInputPointer, ackOutputPointer, arrivals>>
  BY DEF DequeueData, Answer
<1>2. /\ NumPifos \in Nat \ {0} /\ n \in Nat /\ n < NumPifos
      /\ pifoIndex \in Pifos /\ pifoIndex \in Nat /\ bypassed \in [Pifos -> Nat]
  BY Parameters DEF Inv, TypeOK, Pifos
<1>3. p \in Pifos /\ V \subseteq Pifos /\ p \in V
  <2>1. \A m \in 0 .. n : m \in Nat
    BY <1>2
  <2>2. n \in 0 .. n
    BY <1>2
  <2>3. QED  BY <1>2, <2>1, <2>2, TurnPifo
<1> HIDE DEF p
<1>4. ASSUME NEW q \in V, q # p
      PROVE  Yield(q) = {} /\ Content(q) = {} /\ Visit(q).evicted = {}
  <2>1. PICK m \in 0 .. n : q = Turn(m)
    BY DEF V
  <2>2. m \in 0 .. n - 1
    BY <1>2, <1>4, <2>1 DEF p
  <2>3. Yield(q) = {}
    BY <1>1, <2>1, <2>2
  <2>4. QED  BY <1>1, <1>3, <2>3, YieldOK
<1> HIDE DEF V
<1>5. PICK k : Yield(p) = {k}
  BY <1>1, <1>3, YieldOK
<1>6. k \in Content(p) /\ Visit(p).evicted \subseteq Content(p) \ {k}
  BY <1>1, <1>3, <1>5, YieldOK
<1>7. lost = Visit(p).evicted
  BY <1>3, <1>4
<1> HIDE DEF lost
<1>8. /\ Lanes'
      /\ fifos' \in [Pifos -> Seq(Packet)] /\ pifos' \in [Pifos -> SUBSET Packet]
      /\ fifoBufferUsage' \in [Pifos -> Nat] /\ pifoCurrentSizes' \in [Pifos -> Nat]
      /\ \A q \in Pifos : Content(q)' = IF q \in V
                                          THEN Content(q) \ (Yield(q) \cup Visit(q).evicted)
                                          ELSE Content(q)
      /\ dropped' = dropped \cup lost
  BY <1>1, <1>3, VisitAllOK DEF lost
<1>9. \A q \in Pifos : Content(q)' = IF q = p THEN Content(p) \ ({k} \cup lost) ELSE Content(q)
  BY <1>3, <1>4, <1>5, <1>7, <1>8
<1>10. Held = UNION {Content(q) : q \in Pifos} /\ Held' = UNION {Content(q)' : q \in Pifos}
  <2>1. ToSet(ackFifo') = {}
    <3>1. <<>> \in Seq(Packet)
      BY EmptySeq
    <3>2. QED  BY <1>1, <3>1, ToSetType
  <2>2. Held' = (UNION {Content(q)' : q \in Pifos}) \cup ToSet(ackFifo')
    BY DEF Held, Content
  <2>3. QED  BY <1>1, <2>1, <2>2, NoAcks
<1>11. /\ k \in Held /\ lost \subseteq Held /\ k \notin lost
       /\ Held' = Held \ ({k} \cup lost)
  <2>1. k \in Held /\ lost \subseteq Held /\ k \notin lost
    BY <1>3, <1>6, <1>7, <1>10
  <2>2. ASSUME NEW q \in Pifos, q # p
        PROVE  Content(q) \cap ({k} \cup lost) = {}
    BY <1>3, <1>6, <1>7, <2>2 DEF Inv, Placed
  <2>3. Held' \subseteq Held \ ({k} \cup lost)
    BY <1>9, <1>10, <2>2
  <2>4. Held \ ({k} \cup lost) \subseteq Held'
    BY <1>9, <1>10
  <2>5. QED  BY <2>1, <2>3, <2>4
<1>12. Placed' /\ Numbered'
  <2>1. \A q \in Pifos : Content(q)' \subseteq Content(q)
    BY <1>9
  <2>2. sent' \cup dropped' \subseteq sent \cup dropped \cup Held
    BY <1>1, <1>5, <1>8, <1>11
  <2>3. QED  BY <1>1, <2>1, <2>2, LeavingOK
<1>13. Held \subseteq Packet
  <2>1. \A q \in Pifos : Content(q) \subseteq Packet
    BY LaneSets, LaneFields DEF Inv, Lanes
  <2>2. QED  BY <1>10, <2>1
<1>14. pifoIndex' \in Pifos /\ bypassed' \in [Pifos -> Nat]
  <2>1. p + 1 \in Nat
    BY <1>2, <1>3 DEF Pifos
  <2>2. pifoIndex' \in Pifos
    BY <1>1, <1>2, <2>1, DivMod DEF Pifos
  <2>3. bypassed' \in [Pifos -> Nat]
    BY <1>1, <1>2
  <2>4. QED  BY <2>2, <2>3
<1>15. TypeOK'
  <2>1. ret' \in [call : {"none", "enqueue", "dequeue"}, packets : SUBSET Packet]
    BY <1>1, <1>5, <1>11, <1>13
  <2>2. sent' \in SUBSET Packet /\ dropped' \in SUBSET Packet
    BY <1>1, <1>5, <1>8, <1>11, <1>13 DEF Inv, TypeOK
  <2>3. QED  BY <1>1, <1>8, <1>14, <2>1, <2>2 DEF Inv, TypeOK
<1>16. AckPointers'
  BY <1>1 DEF Inv, AckPointers
<1>17. Turns'
  <2> SUFFICES ASSUME NEW q \in Pifos, NEW j \in 0 .. NumPifos - 1, Turn(j)' = q
               PROVE  bypassed'[q] + j < NumPifos
    BY DEF Turns
  <2>1. j \in Nat /\ j < NumPifos
    BY <1>2
  <2>2. CASE q = p \/ (fifos'[q] = <<>> /\ pifos'[q] = {})
    <3>1. bypassed'[q] = 0
      BY <1>1, <2>2
    <3>2. QED  BY <1>2, <2>1, <3>1
  <2>3. CASE ~(q = p \/ (fifos'[q] = <<>> /\ pifos'[q] = {}))
    <3>1. bypassed'[q] = bypassed[q] + 1 /\ bypassed[q] \in Nat
      BY <1>1, <1>2, <2>3
    <3>2. Content(q)' # {}
      <4>1. fifos'[q] \in Seq(Packet)
        BY <1>8
      <4>2. fifos'[q] # <<>> => ToSet(fifos'[q]) # {}
        BY <4>1, ToSetType
      <4>3. QED  BY <2>3, <4>2 DEF Content, InFifo
    <3>3. q \notin V
      BY <1>4, <1>9, <2>3, <3>2
    <3> DEFINE i == n + 1 + j
               e == pifoIndex + n
               d == pifoIndex + i
    <3>4. /\ i \in Nat /\ e \in Nat /\ d \in Nat /\ e + 1 \in Nat
          /\ (e + 1) + j = d /\ i < 2 * NumPifos
      BY <1>2, <2>1
    <3>5. d % NumPifos = q
      <4> DEFINE f == e + 1
      <4>1. p = e % NumPifos
        BY DEF p, Turn
      <4>2. pifoIndex' = f % NumPifos
        <5> HIDE DEF e
        <5>1. ((e % NumPifos) + 1) % NumPifos = (e + 1) % NumPifos
          BY <1>2, <3>4, ModShift
        <5>2. QED  BY <1>1, <4>1, <5>1
      <4>3. Turn(j)' = (pifoIndex' + j) % NumPifos
        BY DEF Turn
      <4>4. f \in Nat /\ f + j = d
        BY <3>4
      <4> HIDE DEF f, d
      <4>5. ((f % NumPifos) + j) % NumPifos = (f + j) % NumPifos
        BY <1>2, <2>1, <4>4, ModShift
      <4>6. QED  BY <4>2, <4>3, <4>4, <4>5
    <3>6. CASE i < NumPifos
      <4>1. Turn(i) = q /\ i \in 0 .. NumPifos - 1
        BY <1>2, <3>4, <3>5, <3>6 DEF Turn
      <4>2. bypassed[q] + i < NumPifos
        BY <4>1 DEF Inv, Turns
      <4>3. QED  BY <1>2, <2>1, <3>1, <4>2
    <3>7. CASE ~(i < NumPifos)
      <4> DEFINE b == i - NumPifos
                 g == pifoIndex + b
      <4>1. b \in 0 .. n /\ g \in Nat /\ g + NumPifos = d
        BY <1>2, <2>1, <3>4, <3>7
      <4>2. g % NumPifos = d % NumPifos
        <5>1. NumPifos % NumPifos = 0
          <6>1. NumPifos \in Nat /\ NumPifos < 2 * NumPifos /\ NumPifos - NumPifos = 0
                /\ ~(NumPifos < NumPifos)
            BY <1>2
          <6>2. NumPifos % NumPifos
                  = IF NumPifos < NumPifos THEN NumPifos ELSE NumPifos - NumPifos
            BY <1>2, <6>1, Wrap
          <6>3. QED  BY <6>1, <6>2
        <5> HIDE DEF g, d
        <5>2. ((NumPifos % NumPifos) + g) % NumPifos = (NumPifos + g) % NumPifos
          BY <1>2, <4>1, ModShift
        <5>3. NumPifos + g = d /\ 0 + g = g
          BY <1>2, <4>1
        <5>4. QED  BY <5>1, <5>2, <5>3
      <4>3. Turn(b) = q
        BY <3>5, <4>2 DEF Turn
      <4>4. q \in V
        BY <4>1, <4>3 DEF V
      <4>5. QED  BY <3>3, <4>4
    <3>8. QED  BY <3>6, <3>7
  <2>4. QED  BY <2>2, <2>3
<1>18. Balancers!IntervalInv'
  BY <1>1, BalancersRest DEF Inv
<1>19. Contract!Serve
  <2>1. lost \in Contract!Evictions("dequeue")
    BY <1>11 DEF Contract!Evictions
  <2>2. QED
    BY <1>1, <1>5, <1>8, <1>11, <2>1 DEF Contract!Serve, Contract!Return
<1>20. QED
  BY <1>8, <1>12, <1>15, <1>16, <1>17, <1>18, <1>19 DEF Inv

\* Every call keeps the invariant and the contract.
LEMMA CallsOK == Inv /\ Next => Inv' /\ Contract!Next
<1> SUFFICES ASSUME Inv, Next PROVE Inv' /\ Contract!Next
  OBVIOUS
<1>1. ASSUME NEW size \in Sizes, EnqueueAck(size)
      PROVE  Inv' /\ Contract!Next
  BY <1>1, EnqueueAckOK DEF Contract!Next
<1>2. ASSUME NEW size \in Sizes, NEW rank \in Ranks, NEW time \in SendTimes,
             EnqueueData(rank, time, size)
      PROVE  Inv' /\ Contract!Next
  <2>1. CASE HasRoom(Intervals!ChosenPifo(rank), size)
    BY <1>2, <2>1, EnqueueRoomOK DEF Contract!Next
  <2>2. CASE ~HasRoom(Intervals!ChosenPifo(rank), size)
    BY <1>2, <2>2, EnqueueFullOK DEF Contract!Next
  <2>3. QED  BY <2>1, <2>2
<1>3. CASE DequeueAck
  BY <1>3, DequeueAckOK DEF Contract!Next
<1>4. ASSUME NEW n \in 0 .. NumPifos - 1, DequeueData(n)
      PROVE  Inv' /\ Contract!Next
  BY <1>4, DequeueDataOK DEF Contract!Next
<1>5. CASE DequeueNothing
  BY <1>5, DequeueNothingOK DEF Contract!Next
<1>6. QED  BY <1>1, <1>2, <1>3, <1>4, <1>5 DEF Next, DoEnqueue, DoDequeue

\* Packets stay when nothing changes.
LEMMA SameHeld == UNCHANGED vars => UNCHANGED <<Held, sent, dropped, ret>>
BY DEF vars, Held, InFifo

-----------------------------------------------------------------------------
(***************************************************************************)
(* The theorems                                                            *)
(***************************************************************************)
\* DoEnqueue and DoDequeue keep the invariant.
THEOREM Invariance == Spec => []Inv
<1>1. Inv /\ [Next]_vars => Inv'
  <2> SUFFICES ASSUME Inv, [Next]_vars PROVE Inv'
    OBVIOUS
  <2>1. CASE Next
    BY <2>1, CallsOK
  <2>2. CASE UNCHANGED vars
    <3>1. Balancers!IntervalInv'
      BY <2>2, BalancersRest DEF Inv, vars
    <3>2. TypeOK'
      BY <2>2 DEF Inv, TypeOK, vars
    <3>3. \A p : Lane(p)' = Lane(p) /\ ChargedTo(p)' = ChargedTo(p) /\ Content(p)' = Content(p)
      BY <2>2 DEF Lane, ChargedTo, Content, InFifo, vars
    <3>4. Lanes'
      <4>1. \A p \in Pifos : LaneOK(Lane(p)', Bytes(ChargedTo(p)'))
        BY <3>3 DEF Inv, Lanes
      <4>2. QED  BY <4>1 DEF Lanes
    <3>5. Placed'
      BY <2>2, <3>3 DEF Inv, Placed, vars
    <3>6. Numbered'
      BY <2>2, SameHeld DEF Inv, Numbered, Distinct, vars
    <3>7. AckPointers' /\ Turns'
      BY <2>2 DEF Inv, AckPointers, Turns, Turn, vars
    <3>8. QED  BY <3>1, <3>2, <3>4, <3>5, <3>6, <3>7 DEF Inv
  <2>3. QED  BY <2>1, <2>2
<1>2. QED  BY InitInv, <1>1, PTL DEF Spec

\* FIFOs, PIFOs, counters and pointers keep their types: the counters of bytes
\* never go below zero, and the pointers stay on PIFOs there are.
THEOREM TypesInvariant == Spec => []TypeOK
<1>1. Inv => TypeOK
  BY InvProperties
<1>2. QED  BY <1>1, Invariance, PTL

\* m_pifoCurrentSizes is exactly what the PIFO holds and what is charged to it.
THEOREM SizesExact == Spec => []PifoSizesExact
<1>1. Inv => PifoSizesExact
  BY InvProperties
<1>2. QED  BY <1>1, Invariance, PTL

\* m_fifoBufferUsage is exactly what the FIFO holds, which is below the limit.
THEOREM UsageExact == Spec => []FifoUsageExact
<1>1. Inv => FifoUsageExact
  BY InvProperties
<1>2. QED  BY <1>1, Invariance, PTL

\* No PIFO ever holds more bytes than its buffer has.
THEOREM NeverOverfull == Spec => []PifosFit
<1>1. Inv => PifosFit
  BY InvProperties
<1>2. QED  BY <1>1, Invariance, PTL

\* A PIFO with packets waits for at most one packet of every other PIFO.
THEOREM RoundRobinFair == Spec => []BypassBounded
<1>1. Inv => BypassBounded
  BY InvProperties
<1>2. QED  BY <1>1, Invariance, PTL

\* The queue disc keeps the contract ns-3 relies on: it loses, duplicates and
\* resurrects nothing, and answers null only when it holds nothing.
THEOREM KeepsContract == Spec => ImplementsQueue
<1>1. Init => Contract!Init
  <2> SUFFICES ASSUME Init PROVE Contract!Init
    OBVIOUS
  <2>1. ackFifo = <<>> /\ \A p \in Pifos : Content(p) = {}
    <3>1. ToSet(<<>>) = {}
      <4>1. <<>> \in Seq(Packet)
        BY EmptySeq
      <4>2. QED  BY <4>1, ToSetType
    <3>2. QED  BY <3>1 DEF Init, Content, InFifo
  <2>2. Held = {}
    BY <2>1, NoAcks
  <2>3. QED  BY <2>2 DEF Init, Contract!Init, Contract!Calls, Contract!Return
<1>2. Inv /\ [Next]_vars => [Contract!Next]_Contract!vars
  <2>1. Inv /\ Next => Contract!Next
    BY CallsOK
  <2>2. UNCHANGED vars => UNCHANGED Contract!vars
    BY SameHeld DEF Contract!vars
  <2>3. QED  BY <2>1, <2>2
<1>3. QED
  BY <1>1, <1>2, Invariance, PTL DEF Spec, ImplementsQueue, Contract!Spec

\* Packets that left do not come back, and none leaves twice.
GoneIsGone ==
  Held \cap sent = {} /\ Held \cap dropped = {} /\ sent \cap dropped = {}

\* A packet is held, sent or dropped, and only one of them: this follows from the
\* contract alone.
THEOREM LeavesOnce == Spec => []GoneIsGone
<1>1. Contract!Init => GoneIsGone
  BY DEF Contract!Init, GoneIsGone
<1>2. GoneIsGone /\ [Contract!Next]_Contract!vars => GoneIsGone'
  <2> SUFFICES ASSUME GoneIsGone, [Contract!Next]_Contract!vars PROVE GoneIsGone'
    OBVIOUS
  <2>1. ASSUME NEW k \in Packet, Contract!Accept(k) PROVE GoneIsGone'
    <3>1. PICK lost \in Contract!Evictions("enqueue") :
            /\ Contract!New(k)
            /\ Held' = (Held \ lost) \cup {k}
            /\ dropped' = dropped \cup lost
            /\ sent' = sent
      BY <2>1 DEF Contract!Accept
    <3>2. lost = {}
      BY DEF Contract!Evictions
    <3>3. QED  BY <3>1, <3>2 DEF Contract!New, GoneIsGone
  <2>2. ASSUME NEW k \in Packet, Contract!Refuse(k) PROVE GoneIsGone'
    <3>1. PICK lost \in Contract!Evictions("enqueue") :
            /\ Contract!New(k)
            /\ Held' = Held \ lost
            /\ dropped' = dropped \cup lost \cup {k}
            /\ sent' = sent
      BY <2>2 DEF Contract!Refuse
    <3>2. lost = {}
      BY DEF Contract!Evictions
    <3>3. QED  BY <3>1, <3>2 DEF Contract!New, GoneIsGone
  <2>3. CASE Contract!Serve
    <3>1. PICK k \in Held : \E lost \in Contract!Evictions("dequeue") :
            /\ k \notin lost
            /\ sent' = sent \cup {k}
            /\ dropped' = dropped \cup lost
            /\ Held' = Held \ ({k} \cup lost)
      BY <2>3 DEF Contract!Serve
    <3>2. PICK lost \in Contract!Evictions("dequeue") :
            /\ k \notin lost
            /\ sent' = sent \cup {k}
            /\ dropped' = dropped \cup lost
            /\ Held' = Held \ ({k} \cup lost)
      BY <3>1
    <3>3. lost \subseteq Held
      BY DEF Contract!Evictions
    <3>4. QED  BY <3>2, <3>3 DEF GoneIsGone
  <2>4. CASE Contract!Idle
    BY <2>4 DEF Contract!Idle, GoneIsGone
  <2>5. CASE UNCHANGED Contract!vars
    BY <2>5 DEF Contract!vars, GoneIsGone
  <2>6. QED  BY <2>1, <2>2, <2>3, <2>4, <2>5 DEF Contract!Next
<1>3. QED
  BY <1>1, <1>2, KeepsContract, PTL DEF ImplementsQueue, Contract!Spec

\* What a visit evicts would not have fitted, without acknowledgements.
LEMMA VisitEvicts ==
  ASSUME NEW p, LaneOK(Lane(p), 0), Visit(p).evicted # {}
  PROVE  LET kept == IF pifos[p] = {} THEN Visit(p).pifo \cup (Yield(p) \cap InFifo(p))
                                      ELSE Visit(p).pifo
         IN  Bytes(kept \cup {Best(Visit(p).evicted)}) > PifoBuffer
<1> DEFINE l == Lane(p)
<1>1. /\ l.pifo = pifos[p] /\ l.evicted = {} /\ ToSet(l.fifo) = InFifo(p)
      /\ l = [fifo |-> l.fifo, usage |-> l.usage, pifo |-> l.pifo,
              size |-> l.size, evicted |-> l.evicted]
  BY LaneFields DEF InFifo
<1>2. 0 \in Nat
  OBVIOUS
<1>3. CASE pifos[p] # {}
  <2> DEFINE q == Pop(l)
             r == Refill(q)
  <2>1. Visit(p) = r
    BY <1>3 DEF Visit
  <2> HIDE DEF l
  <2>2. LaneOK(q, 0)
    BY <1>1, <1>2, <1>3, PopOK DEF l
  <2> HIDE DEF q
  <2>3. r.evicted # {} => Bytes(r.pifo \cup {Best(r.evicted)}) > PifoBuffer
    BY <1>2, <2>2, RefillOK
  <2> HIDE DEF r
  <2>4. QED  BY <1>3, <2>1, <2>3
<1>4. CASE pifos[p] = {}
  <2> DEFINE r == Refill(l)
             b == Best(r.pifo)
  <2>1. /\ LaneOK(r, 0)
        /\ Stored(r) = Stored(l) \ r.evicted /\ r.evicted \subseteq Stored(l)
        /\ Stored(l) # {} => r.pifo # {}
        /\ r.evicted # {} => Bytes(r.pifo \cup {Best(r.evicted)}) > PifoBuffer
    BY <1>2, RefillOK
  <2>2. r = [fifo |-> r.fifo, usage |-> r.usage, pifo |-> r.pifo,
             size |-> r.size, evicted |-> r.evicted]
    BY DEF Refill
  <2>3. /\ Yield(p) = IF r.pifo = {} THEN {} ELSE {b}
        /\ Visit(p) = IF r.pifo = {} THEN r ELSE Pop(r)
    BY <1>4 DEF Yield, Visit
  <2> HIDE DEF r, b, l
  <2>4. r.pifo # {}
    BY <2>1, <2>3
  <2>5. /\ Visit(p).evicted = r.evicted /\ Visit(p).pifo = r.pifo \ {b}
        /\ b \in r.pifo /\ Yield(p) = {b}
    BY <1>2, <2>1, <2>2, <2>3, <2>4, PopOK DEF b
  <2>6. b \in InFifo(p)
    BY <1>1, <1>4, <2>1, <2>5 DEF Stored
  <2>7. Visit(p).pifo \cup (Yield(p) \cap InFifo(p)) = r.pifo
    BY <2>5, <2>6
  <2>8. QED  BY <1>4, <2>1, <2>5, <2>7
<1>5. QED  BY <1>3, <1>4

\* The action of EvictedOnlyWhenFull.
Eviction ==
  ret'.call = "dequeue" =>
    \A p \in Pifos :
      LET lost == (dropped' \ dropped) \cap (InFifo(p) \cup pifos[p])
          kept == IF pifos[p] = {}
                    THEN pifos'[p] \cup (ret'.packets \cap InFifo(p))
                    ELSE pifos'[p]
      IN  lost # {} => Bytes(kept \cup {Best(lost)}) > PifoBuffer

\* What is evicted at PIFO p was evicted by a visit to it.
LEMMA EvictionOK ==
  ASSUME Inv, GoneIsGone, NEW n \in 0 .. NumPifos - 1, DequeueData(n)
  PROVE  Eviction
<1> DEFINE s == Turn(n)
           V == {Turn(m) : m \in 0 .. n}
<1>1. /\ ackFifo = <<>>
      /\ Yield(s) # {}
      /\ \A m \in 0 .. n - 1 : Yield(Turn(m)) = {}
      /\ VisitAll(V)
      /\ ret' = [call |-> "dequeue", packets |-> Yield(s)]
      /\ UNCHANGED <<ackFifo, ackOutputPointer>>
  BY DEF DequeueData, Answer
<1>2. n \in Nat /\ pifoIndex \in Pifos
  BY Parameters DEF Inv, TypeOK
<1>3. s \in Pifos /\ V \subseteq Pifos /\ s \in V
  <2>1. n \in 0 .. n /\ \A m \in 0 .. n : m \in Nat
    BY <1>2
  <2>2. QED  BY <1>2, <2>1, TurnPifo
<1>4. \A q \in V : q = s \/ Yield(q) = {}
  <2>1. \A m \in 0 .. n : m = n \/ m \in 0 .. n - 1
    BY <1>2
  <2>2. QED  BY <1>1, <2>1
<1> HIDE DEF s, V
<1>5. /\ dropped' = dropped \cup UNION {Visit(q).evicted : q \in V}
      /\ \A q \in V : pifos'[q] = Visit(q).pifo
  BY <1>1, <1>3, VisitAllOK DEF VisitAll
<1>6. \A q \in Pifos : /\ Visit(q).evicted \subseteq Content(q)
                       /\ Yield(q) = {} <=> Content(q) = {}
  BY <1>1, YieldOK
<1>7. ASSUME NEW q \in Pifos,
             (dropped' \ dropped) \cap Content(q) # {}
      PROVE  q = s /\ (dropped' \ dropped) \cap Content(q) = Visit(s).evicted
  <2>1. \A v \in V : v # q => Visit(v).evicted \cap Content(q) = {}
    BY <1>3, <1>6 DEF Inv, Placed
  <2>2. q \in V
    BY <1>5, <1>7, <2>1
  <2>3. q = s
    BY <1>4, <1>6, <1>7, <2>2
  <2>4. Visit(s).evicted \cap dropped = {}
    <3>1. Content(s) \subseteq Held
      BY <1>3, HeldParts
    <3>2. QED  BY <1>3, <1>6, <3>1 DEF GoneIsGone
  <2>5. QED  BY <1>3, <1>5, <1>6, <2>1, <2>3, <2>4
<1>8. LaneOK(Lane(s), 0)
  <2>1. ChargedTo(s) = {}
    <3>1. Len(ackFifo) = 0
      BY <1>1, EmptySeq
    <3>2. QED  BY <3>1 DEF ChargedTo
  <2>2. QED  BY <1>3, <2>1, BytesNone DEF Inv, Lanes
<1>9. ASSUME NEW q \in Pifos,
             (dropped' \ dropped) \cap (InFifo(q) \cup pifos[q]) # {}
      PROVE  Bytes((IF pifos[q] = {} THEN pifos'[q] \cup (ret'.packets \cap InFifo(q))
                                     ELSE pifos'[q])
                     \cup {Best((dropped' \ dropped) \cap (InFifo(q) \cup pifos[q]))})
               > PifoBuffer
  <2>1. q = s /\ (dropped' \ dropped) \cap (InFifo(q) \cup pifos[q]) = Visit(s).evicted
    BY <1>7, <1>9 DEF Content
  <2>2. pifos'[s] = Visit(s).pifo /\ ret'.packets = Yield(s)
    BY <1>1, <1>3, <1>5
  <2>3. Visit(s).evicted # {}
    BY <1>9, <2>1
  <2>4. QED  BY <1>8, <2>1, <2>2, <2>3, VisitEvicts
<1>10. QED  BY <1>9 DEF Eviction

\* A packet is evicted only if the data alone would overflow the PIFO with it.
THEOREM EvictsOnlyWhenFull == Spec => EvictedOnlyWhenFull
<1>1. Inv /\ GoneIsGone /\ [Next]_vars => [Eviction]_vars
  <2> SUFFICES ASSUME Inv, GoneIsGone, Next PROVE Eviction
    OBVIOUS
  <2>1. ASSUME NEW size \in Sizes, EnqueueAck(size) PROVE Eviction
    BY <2>1 DEF EnqueueAck, Answer, Eviction
  <2>2. ASSUME NEW size \in Sizes, NEW rank \in Ranks, NEW time \in SendTimes,
               EnqueueData(rank, time, size)
        PROVE  Eviction
    BY <2>2 DEF EnqueueData, Answer, Eviction
  <2>3. CASE DequeueAck
    <3>1. dropped' \ dropped = {}
      BY <2>3 DEF DequeueAck
    <3>2. QED  BY <3>1 DEF Eviction
  <2>4. ASSUME NEW n \in 0 .. NumPifos - 1, DequeueData(n) PROVE Eviction
    BY <2>4, EvictionOK
  <2>5. CASE DequeueNothing
    <3>1. Held = {} /\ dropped' = dropped \cup UNION {Visit(q).evicted : q \in Pifos}
      BY <2>5, DequeueNothingOK, VisitAllOK DEF DequeueNothing, Contract!Idle
    <3>2. \A q \in Pifos : Visit(q).evicted = {}
      BY <2>5, YieldOK DEF DequeueNothing
    <3>3. dropped' \ dropped = {}
      BY <3>1, <3>2
    <3>4. QED  BY <3>3 DEF Eviction
  <2>6. QED  BY <2>1, <2>2, <2>3, <2>4, <2>5 DEF Next, DoEnqueue, DoDequeue
<1>2. QED
  BY <1>1, Invariance, LeavesOnce, PTL DEF Spec, EvictedOnlyWhenFull, Eviction

\* Inside the queue disc the load balancers behave as module DynamicIntervals says,
\* so that what is proved of them holds of the queue disc.
THEOREM BalancersInside == Spec => Intervals!Spec
<1>1. Init => Intervals!Init
  BY DEF Init
<1>2. [Next]_vars => [Intervals!Next]_Intervals!intervalVars
  <2>1. ASSUME Next PROVE Intervals!Next \/ UNCHANGED Intervals!intervalVars
    <3>1. ASSUME NEW size \in Sizes, EnqueueAck(size)
          PROVE  UNCHANGED Intervals!intervalVars
      BY <3>1 DEF EnqueueAck, intervalVars, Intervals!intervalVars
    <3>2. ASSUME NEW size \in Sizes, NEW rank \in Ranks, NEW time \in SendTimes,
                 EnqueueData(rank, time, size)
          PROVE  Intervals!Next
      BY <3>2 DEF EnqueueData, Intervals!Next
    <3>3. CASE DoDequeue
      BY <3>3
      DEF DoDequeue, DequeueAck, DequeueData, DequeueNothing, intervalVars,
          Intervals!intervalVars
    <3>4. QED  BY <2>1, <3>1, <3>2, <3>3 DEF Next, DoEnqueue
  <2>2. UNCHANGED vars => UNCHANGED Intervals!intervalVars
    BY DEF vars, intervalVars, Intervals!intervalVars
  <2>3. QED  BY <2>1, <2>2
<1>3. QED  BY <1>1, <1>2, PTL DEF Spec, Intervals!Spec
=============================================================================
