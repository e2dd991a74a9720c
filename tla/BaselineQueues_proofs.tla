----------------------- MODULE BaselineQueues_proofs -----------------------
(***************************************************************************)
(* Proofs about the five queue discs the Scale-up PIFO is compared with:   *)
(* what their byte counters say, that no lane holds more than its buffer,  *)
(* that the borders of SP-PIFO descend, for which want of room each of     *)
(* them refuses packets, that all keep the contract of a queue disc, and   *)
(* that those with a PIFO send the best packet of a lane and evict the     *)
(* worst, for any number of lanes, any buffers, windows and packets.       *)
(***************************************************************************)
EXTENDS BaselineQueues, Totals_proofs, SequenceTheorems

-----------------------------------------------------------------------------
(***************************************************************************)
(* The inductive invariant                                                 *)
(***************************************************************************)
Types ==
  /\ disc \in AllDiscs
  /\ lanes \in [Lanes -> Seq(Packet)]
  /\ laneSizes \in [Lanes -> Nat]
  /\ {inputPointer, outputPointer, ackInputPointer, ackOutputPointer} \subseteq Lanes
  /\ ackFifo \in Seq(Packet)
  /\ borders \in [Lanes -> Int]
  /\ slidingWindow \in [0 .. WindowSize - 1 -> Nat]
  /\ windowPointer \in 0 .. WindowSize - 1
  /\ arrivals \in Nat
  /\ sent \subseteq Packet /\ dropped \subseteq Packet

\* Lanes that a queue disc does not have are empty, and only RRInterleaving has
\* a FIFO of acknowledgements.
Unused ==
  /\ \A i \in Lanes \ LanesUsed : lanes[i] = <<>>
  /\ disc # "rr" => ackFifo = <<>>

\* A packet is in one place.
Placed ==
  /\ \A i \in Lanes : Once(lanes[i]) /\ InLane(i) \cap ToSet(ackFifo) = {}
  /\ \A i, j \in Lanes : i # j => InLane(i) \cap InLane(j) = {}
  /\ Once(ackFifo)

\* New packets have new numbers.
Numbered == \A k \in Held \cup sent \cup dropped : k.id <= arrivals

\* The input pointer is ahead of the output pointer by the acknowledgements queued.
AckPointers == (ackOutputPointer + Len(ackFifo)) % NumLanes = ackInputPointer

LaneInv == Unused /\ Placed /\ AckPointers /\ LaneSizesExact

Inv ==
  /\ Types
  /\ LaneInv
  /\ Numbered
  /\ BordersDescend


-----------------------------------------------------------------------------
(***************************************************************************)
(* Parameters, packets and extrema                                         *)
(***************************************************************************)
LEMMA Parameters ==
  /\ NumLanes \in Nat /\ NumLanes > 0
  /\ Buffer \in Nat /\ WindowSize \in Nat /\ WindowSize > 0
  /\ KTenths \in 0 .. 9 /\ MaxPackets \in Nat
  /\ 0 \in Lanes /\ Lanes \subseteq Nat
BY BaselineAssumption DEF Lanes

\* Every lane has room for at least one packet, also where there are many.
LEMMA Room ==
  ASSUME disc \in AllDiscs
  PROVE  /\ LaneBuffer \in Nat
         /\ \A size \in Sizes : size \in Nat /\ size > 0 /\ size <= LaneBuffer
         /\ LanesUsed \subseteq Lanes /\ 0 \in LanesUsed
         /\ disc \in {"ideal", "aifo"} => LaneBuffer = Buffer
         /\ disc \in {"rr", "sppifo", "packs"} => LanesUsed = Lanes
<1> DEFINE q == Buffer \div NumLanes
<1>1. q \in Nat /\ q <= Buffer
  <2>1. q \in Nat /\ Buffer % NumLanes \in 0 .. NumLanes - 1
        /\ Buffer = NumLanes * q + (Buffer % NumLanes)
    BY Parameters, DivMod
  <2> HIDE DEF q
  <2>2. q <= NumLanes * q
    BY <2>1, Parameters
  <2>3. NumLanes * q \in Nat
    BY <2>1, Parameters
  <2>4. QED  BY <2>1, <2>2, <2>3, Parameters
<1>2. \A size \in Sizes : size \in Nat /\ size > 0 /\ size <= q
  BY <1>1, BaselineAssumption
<1>3. CASE disc \in {"ideal", "aifo"}
  <2>1. LanesUsed = {0} /\ Cardinality({0}) = 1
    BY <1>3, FS_Singleton DEF LanesUsed
  <2>2. Buffer \div 1 = Buffer
    BY Parameters
  <2>3. LaneBuffer = Buffer
    BY <2>1, <2>2 DEF LaneBuffer
  <2> HIDE DEF q
  <2>4. \A size \in Sizes : size <= LaneBuffer
    BY <1>1, <1>2, <2>3, Parameters
  <2>5. QED  BY <1>2, <1>3, <2>1, <2>3, <2>4, Parameters
<1>4. CASE disc \notin {"ideal", "aifo"}
  <2>1. LanesUsed = Lanes
    BY <1>4 DEF LanesUsed
  <2>2. Cardinality(Lanes) = NumLanes
    <3>1. 0 \in Int /\ NumLanes - 1 \in Int /\ 0 <= (NumLanes - 1) + 1
          /\ (NumLanes - 1) - 0 + 1 = NumLanes
      BY Parameters
    <3>2. QED  BY <3>1, IntervalSize DEF Lanes
  <2>3. LaneBuffer = q
    BY <2>1, <2>2 DEF LaneBuffer
  <2> HIDE DEF q
  <2>4. QED  BY <1>1, <1>2, <1>4, <2>1, <2>3, Parameters DEF AllDiscs
<1>5. QED  BY <1>3, <1>4

\* The fields of a packet.
LEMMA Fields ==
  ASSUME NEW k \in Packet
  PROVE  /\ k.id \in Nat /\ k.rank \in Nat /\ k.time \in Nat
         /\ k.size \in Sizes /\ k.size \in Nat /\ k.size > 0
<1>1. PICK id \in 1 .. MaxPackets, key \in Keys \cup {AckKey}, size \in Sizes :
        k = Labelled(id, key, size)
  BY DEF Packet
<1>2. k.id = id /\ k.rank = key[1] /\ k.time = key[2] /\ k.size = size
  BY <1>1 DEF Labelled
<1>3. key[1] \in Nat /\ key[2] \in Nat
  BY BaselineAssumption DEF AckKey
<1>4. size \in 1 .. (Buffer \div NumLanes)
  BY BaselineAssumption
<1>5. QED  BY <1>2, <1>3, <1>4, Parameters

\* The packet that arrives is one, and has a new number.
LEMMA Arrival ==
  ASSUME NEW size \in Sizes, NEW key \in Keys \cup {AckKey}, arrivals \in Nat,
         Arrives(Labelled(arrivals + 1, key, size))
  PROVE  LET k == Labelled(arrivals + 1, key, size)
         IN  /\ k \in Packet /\ k.id = arrivals + 1 /\ k.rank = key[1] /\ k.size = size
             /\ arrivals' = arrivals + 1 /\ UNCHANGED <<disc, sent>>
<1>1. arrivals + 1 \in 1 .. MaxPackets
  BY Parameters DEF Arrives
<1>2. QED  BY <1>1 DEF Arrives, Packet, Labelled

\* The bytes of a queue of packets.
LEMMA QueueBytes ==
  ASSUME NEW s \in Seq(Packet)
  PROVE  /\ ToSet(s) \subseteq Packet /\ IsFiniteSet(ToSet(s)) /\ Bytes(ToSet(s)) \in Nat
         /\ \A k \in ToSet(s) : k.size \in Nat
<1>1. ToSet(s) \subseteq Packet /\ IsFiniteSet(ToSet(s))
  BY ToSetType
<1>2. \A k \in ToSet(s) : k.size \in Nat
  BY <1>1, Fields
<1>3. QED  BY <1>1, <1>2, BytesNatural

\* A multiset with one more item.
LEMMA InsertSet ==
  ASSUME NEW s \in Seq(Packet), Once(s), NEW k \in Packet, k \notin ToSet(s)
  PROVE  /\ Inserted(s, k) \in Seq(Packet) /\ Once(Inserted(s, k))
         /\ ToSet(Inserted(s, k)) = ToSet(s) \cup {k}
<1> DEFINE after == {n \in 1 .. Len(s) : Before(k, s[n])}
           p     == Min(after \cup {Len(s) + 1})
           n     == p - 1
           front == SubSeq(s, 1, n)
           back  == SubSeq(s, n + 1, Len(s))
<1>1. Len(s) \in Nat
  BY LenProperties
<1>2. p \in 1 .. Len(s) + 1
  <2>1. after \cup {Len(s) + 1} \subseteq 1 .. Len(s) + 1
    BY <1>1
  <2>2. p \in after \cup {Len(s) + 1}
    <3> DEFINE T == after \cup {Len(s) + 1}
    <3>1. T \subseteq Nat /\ T # {}
      BY <1>1, <2>1
    <3>2. p = Min(T)
      OBVIOUS
    <3> HIDE DEF T, p
    <3>3. Min(T) \in T
      BY <3>1, MinFound
    <3>4. QED  BY <3>2, <3>3 DEF T
  <2>3. QED  BY <2>1, <2>2
<1>3. Inserted(s, k) = SubSeq(s, 1, p - 1) \o <<k>> \o SubSeq(s, p, Len(s))
  BY DEF Inserted, InsertAt
<1> HIDE DEF p
<1>4. n \in 0 .. Len(s) /\ n + 1 = p
  BY <1>1, <1>2
<1> HIDE DEF n
<1>5. Inserted(s, k) = front \o <<k>> \o back
  BY <1>3, <1>4 DEF n
<1>6. /\ front \in Seq(Packet) /\ Once(front) /\ back \in Seq(Packet) /\ Once(back)
      /\ ToSet(s) = ToSet(front) \cup ToSet(back) /\ ToSet(front) \cap ToSet(back) = {}
  BY <1>4, CutSeq
<1> HIDE DEF front, back
<1> DEFINE one  == <<k>>
           most == front \o one
<1>7. one \in Seq(Packet) /\ ToSet(one) = {k} /\ Once(one)
  BY DEF ToSet, Once
<1> HIDE DEF one
<1>8. /\ most \in Seq(Packet) /\ Once(most)
      /\ ToSet(most) = ToSet(front) \cup {k}
  <2>1. ToSet(front) \cap ToSet(one) = {}
    BY <1>6, <1>7
  <2>2. QED  BY <1>6, <1>7, <2>1, ConcatSet
<1> HIDE DEF most
<1>9. ToSet(most) \cap ToSet(back) = {}
  BY <1>6, <1>8
<1>10. /\ most \o back \in Seq(Packet) /\ Once(most \o back)
       /\ ToSet(most \o back) = ToSet(most) \cup ToSet(back)
  BY <1>6, <1>8, <1>9, ConcatSet
<1>11. QED  BY <1>5, <1>6, <1>8, <1>10 DEF most, one

-----------------------------------------------------------------------------
(***************************************************************************)
(* A call that touches one lane                                            *)
(***************************************************************************)
LEMMA ChargedParts ==
  \A i : ChargedTo(i) = Dealt(ackFifo, NumLanes, ackOutputPointer, i)
BY DEF ChargedTo, Dealt

\* The acknowledgements charged to a lane have bytes.
LEMMA ChargeType ==
  ASSUME ackFifo \in Seq(Packet), NEW i
  PROVE  /\ ChargedTo(i) \subseteq ToSet(ackFifo) /\ ChargedTo(i) \subseteq Packet
         /\ IsFiniteSet(ChargedTo(i)) /\ Bytes(ChargedTo(i)) \in Nat
         /\ ackFifo = <<>> => ChargedTo(i) = {} /\ Bytes(ChargedTo(i)) = 0
<1>1. ToSet(ackFifo) = {ackFifo[n] : n \in 1 .. Len(ackFifo)}
  BY ToSetType
<1>2. ChargedTo(i) \subseteq ToSet(ackFifo)
  BY <1>1 DEF ChargedTo
<1>3. ToSet(ackFifo) \subseteq Packet /\ IsFiniteSet(ToSet(ackFifo))
  BY ToSetType
<1>4. IsFiniteSet(ChargedTo(i)) /\ ChargedTo(i) \subseteq Packet
  BY <1>2, <1>3, FS_Subset
<1>5. \A k \in ChargedTo(i) : k.size \in Nat
  BY <1>4, Fields
<1>6. ackFifo = <<>> => ChargedTo(i) = {}
  BY <1>2, ToSetType
<1>7. QED  BY <1>2, <1>4, <1>5, <1>6, BytesNatural, BytesNone

\* What is in a lane, and what has left it, in terms of Held.
LEMMA HeldParts ==
  /\ \A i \in Lanes : InLane(i) \subseteq Held
  /\ ToSet(ackFifo) \subseteq Held
BY DEF Held

\* A lane that gets new contents, and the size that goes with them.
LEMMA LaneStep ==
  ASSUME Types, LaneInv,
         NEW i \in LanesUsed, NEW s \in Seq(Packet), Once(s), NEW fresh,
         ToSet(s) \subseteq InLane(i) \cup fresh, fresh \cap Held = {},
         Bytes(ToSet(s)) <= LaneBuffer,
         lanes' = [lanes EXCEPT ![i] = s],
         laneSizes' = [laneSizes EXCEPT ![i] = Bytes(ToSet(s)) + Bytes(ChargedTo(i))],
         UNCHANGED <<disc, ackFifo, ackInputPointer, ackOutputPointer>>
  PROVE  /\ lanes' \in [Lanes -> Seq(Packet)] /\ laneSizes' \in [Lanes -> Nat]
         /\ LaneInv'
         /\ Held' = (Held \ (InLane(i) \ ToSet(s))) \cup ToSet(s)
<1> DEFINE new == Bytes(ToSet(s)) + Bytes(ChargedTo(i))
<1>1. /\ i \in Lanes /\ LaneBuffer \in Nat
      /\ Unused /\ Placed /\ AckPointers /\ LaneSizesExact
  BY Room DEF Types, LaneInv
<1>2. /\ lanes' \in [Lanes -> Seq(Packet)] /\ lanes'[i] = s
      /\ \A j \in Lanes \ {i} : lanes'[j] = lanes[j]
  BY <1>1 DEF Types
<1>3. new \in Nat /\ Bytes(ToSet(s)) \in Nat
  <2>1. Bytes(ToSet(s)) \in Nat
    BY QueueBytes
  <2>2. Bytes(ChargedTo(i)) \in Nat
    BY ChargeType DEF Types
  <2>3. QED  BY <2>1, <2>2
<1>4. /\ laneSizes' \in [Lanes -> Nat] /\ laneSizes'[i] = new
      /\ \A j \in Lanes \ {i} : laneSizes'[j] = laneSizes[j]
  <2> HIDE DEF new
  <2>1. laneSizes' = [laneSizes EXCEPT ![i] = new]
    BY DEF new
  <2>2. QED  BY <1>1, <1>3, <2>1 DEF Types
<1>5. LanesUsed' = LanesUsed /\ LaneBuffer' = LaneBuffer
  BY DEF LanesUsed, LaneBuffer
<1>6. /\ \A j \in Lanes : InLane(j)' = IF j = i THEN ToSet(s) ELSE InLane(j)
      /\ \A j : ChargedTo(j)' = ChargedTo(j)
  BY <1>2 DEF InLane, ChargedTo
<1>7. Unused'
  BY <1>1, <1>2, <1>5 DEF Unused
<1>8. AckPointers'
  BY <1>1 DEF AckPointers
<1>9. LaneSizesExact'
  <2>1. \A j \in Lanes : /\ laneSizes'[j] = Bytes(InLane(j)') + Bytes(ChargedTo(j)')
                         /\ Bytes(InLane(j)') <= LaneBuffer'
    BY <1>1, <1>4, <1>5, <1>6 DEF LaneSizesExact
  <2>2. QED  BY <2>1 DEF LaneSizesExact
<1>10. fresh \cap ToSet(ackFifo) = {} /\ \A j \in Lanes : fresh \cap InLane(j) = {}
  BY HeldParts
<1>11. \A j \in Lanes \ {i} : ToSet(s) \cap InLane(j) = {}
  BY <1>1, <1>10 DEF Placed
<1>12. ToSet(s) \cap ToSet(ackFifo) = {}
  BY <1>1, <1>10 DEF Placed
<1>13. Placed'
  <2>1. \A j \in Lanes : Once(lanes'[j]) /\ InLane(j)' \cap ToSet(ackFifo') = {}
    BY <1>1, <1>2, <1>6, <1>12 DEF Placed
  <2>2. \A j, m \in Lanes : j # m => InLane(j)' \cap InLane(m)' = {}
    BY <1>1, <1>6, <1>11 DEF Placed
  <2>3. Once(ackFifo')
    BY <1>1 DEF Placed
  <2>4. QED  BY <2>1, <2>2, <2>3 DEF Placed
<1>14. Held' = (Held \ (InLane(i) \ ToSet(s))) \cup ToSet(s)
  <2>1. Held' = (UNION {InLane(j)' : j \in Lanes}) \cup ToSet(ackFifo)
    BY DEF Held
  <2>2. \A j \in Lanes \ {i} : InLane(j) \cap InLane(i) = {}
    BY <1>1 DEF Placed
  <2>3. ToSet(ackFifo) \cap InLane(i) = {}
    BY <1>1 DEF Placed
  <2>4. Held' \subseteq (Held \ (InLane(i) \ ToSet(s))) \cup ToSet(s)
    BY <1>6, <2>1, <2>2, <2>3 DEF Held
  <2>5. (Held \ (InLane(i) \ ToSet(s))) \cup ToSet(s) \subseteq Held'
    BY <1>1, <1>6, <2>1 DEF Held
  <2>6. QED  BY <2>4, <2>5
<1>15. QED  BY <1>2, <1>4, <1>7, <1>8, <1>9, <1>13, <1>14 DEF LaneInv

\* What is left of a lane that makes room: a packet fits, or nothing is left but
\* the acknowledgements charged to the lane.
LEMMA Evicted ==
  ASSUME Types, Placed, LaneSizesExact, NEW i \in Lanes, NEW size \in Nat
  PROVE  LET n    == NumKept(i, size)
             kept == SubSeq(lanes[i], 1, n)
             lost == ToSet(SubSeq(lanes[i], n + 1, Len(lanes[i])))
             left == laneSizes[i] - Bytes(lost)
         IN  /\ kept \in Seq(Packet) /\ Once(kept)
             /\ InLane(i) = ToSet(kept) \cup lost /\ ToSet(kept) \cap lost = {}
             /\ left = Bytes(ToSet(kept)) + Bytes(ChargedTo(i))
             /\ Bytes(ToSet(kept)) <= LaneBuffer
             /\ \/ left + size <= LaneBuffer
                \/ left = Bytes(ChargedTo(i)) /\ ToSet(kept) = {}
<1> DEFINE s        == lanes[i]
           Lost(m)  == ToSet(SubSeq(s, m + 1, Len(s)))
           Left(m)  == laneSizes[i] - Bytes(Lost(m))
           fitting  == {m \in 1 .. Len(s) : Left(m) + size <= LaneBuffer}
           n        == NumKept(i, size)
           kept     == SubSeq(s, 1, n)
<1>1. s \in Seq(Packet) /\ Once(s) /\ Len(s) \in Nat
  BY LenProperties DEF Types, Placed
<1>2. n = Max({0} \cup fitting)
  BY DEF NumKept
<1>3. n \in {0} \cup fitting
  <2> HIDE DEF fitting, n, s
  <2>1. fitting \subseteq 0 .. Len(s)
    BY <1>1 DEF fitting
  <2>2. {0} \cup fitting \subseteq 0 .. Len(s) /\ {0} \cup fitting # {}
    BY <1>1, <2>1
  <2>3. QED  BY <1>1, <1>2, <2>2, MaxFound
<1> HIDE DEF n
<1>4. n \in 0 .. Len(s)
  BY <1>1, <1>3
<1>5. /\ kept \in Seq(Packet) /\ Once(kept)
      /\ SubSeq(s, n + 1, Len(s)) \in Seq(Packet)
      /\ ToSet(s) = ToSet(kept) \cup Lost(n) /\ ToSet(kept) \cap Lost(n) = {}
  BY <1>1, <1>4, CutSeq
<1>6. Bytes(ToSet(s)) = Bytes(ToSet(kept)) + Bytes(Lost(n))
      /\ Bytes(ToSet(kept)) \in Nat /\ Bytes(Lost(n)) \in Nat
  <2>1. /\ IsFiniteSet(ToSet(kept)) /\ IsFiniteSet(Lost(n))
        /\ \A k \in ToSet(kept) \cup Lost(n) : k.size \in Nat
    BY <1>5, QueueBytes
  <2> HIDE DEF Lost, kept, s
  <2>2. Bytes(ToSet(kept) \cup Lost(n)) = Bytes(ToSet(kept)) + Bytes(Lost(n))
        /\ Bytes(ToSet(kept)) \in Nat /\ Bytes(Lost(n)) \in Nat
    BY <1>5, <2>1, BytesAdd
  <2>3. QED  BY <1>5, <2>2
<1>7. /\ laneSizes[i] = Bytes(ToSet(s)) + Bytes(ChargedTo(i))
      /\ Bytes(ToSet(s)) <= LaneBuffer
      /\ Bytes(ChargedTo(i)) \in Nat /\ LaneBuffer \in Nat
  BY ChargeType, Room DEF Types, LaneSizesExact, InLane
<1>8. /\ Left(n) = Bytes(ToSet(kept)) + Bytes(ChargedTo(i))
      /\ Bytes(ToSet(kept)) <= LaneBuffer
  <2> HIDE DEF kept, s, Lost
  <2>1. QED  BY <1>6, <1>7
<1>9. ASSUME n = 0
      PROVE  ToSet(kept) = {} /\ Left(n) = Bytes(ChargedTo(i))
  <2>1. kept = <<>>
    BY <1>9
  <2>2. ToSet(<<>>) = {} /\ Bytes({}) = 0
    BY BytesNone DEF ToSet
  <2> HIDE DEF kept, Left
  <2>3. ToSet(kept) = {} /\ Bytes(ToSet(kept)) = 0
    BY <2>1, <2>2
  <2>4. Left(n) = 0 + Bytes(ChargedTo(i))
    BY <1>8, <2>3
  <2>5. QED  BY <1>7, <2>3, <2>4
<1>10. n # 0 => Left(n) + size <= LaneBuffer
  BY <1>3
<1>11. QED  BY <1>5, <1>8, <1>9, <1>10 DEF n, InLane

\* A packet of a lane adds its size.
LEMMA BytesMore ==
  ASSUME NEW S, S \subseteq Packet, IsFiniteSet(S), NEW k \in Packet, k \notin S
  PROVE  Bytes(S \cup {k}) = Bytes(S) + k.size
<1>1. \A j \in S \cup {k} : j.size \in Nat
  BY Fields
<1>2. IsFiniteSet({k}) /\ S \cap {k} = {}
  BY FS_Singleton
<1>3. Bytes(S \cup {k}) = Bytes(S) + Bytes({k})
  BY <1>1, <1>2, BytesAdd
<1>4. QED  BY <1>1, <1>3, BytesOfOne

\* Lanes that nothing happens to.
LEMMA LanesSame ==
  ASSUME Types, LaneInv,
         UNCHANGED <<disc, lanes, laneSizes, ackFifo, ackInputPointer, ackOutputPointer>>
  PROVE  LaneInv' /\ Held' = Held
<1>1. LanesUsed' = LanesUsed /\ LaneBuffer' = LaneBuffer
  BY DEF LanesUsed, LaneBuffer
<1>2. \A i : InLane(i)' = InLane(i) /\ ChargedTo(i)' = ChargedTo(i)
  BY DEF InLane, ChargedTo
<1>3. Unused' /\ AckPointers'
  BY <1>1 DEF LaneInv, Unused, AckPointers
<1>4. Placed'
  BY <1>2 DEF LaneInv, Placed
<1>5. LaneSizesExact'
  BY <1>1, <1>2 DEF LaneInv, LaneSizesExact
<1>6. Held' = Held
  BY <1>2 DEF Held
<1>7. QED  BY <1>3, <1>4, <1>5, <1>6 DEF LaneInv

LEMMA HeldPackets == Types => Held \subseteq Packet
<1> SUFFICES ASSUME Types PROVE Held \subseteq Packet
  OBVIOUS
<1>1. \A i \in Lanes : InLane(i) \subseteq Packet
  BY QueueBytes DEF Types, InLane
<1>2. ToSet(ackFifo) \subseteq Packet
  BY QueueBytes DEF Types
<1>3. QED  BY <1>1, <1>2 DEF Held

\* A packet with the next number is nowhere yet.
LEMMA Newcomer ==
  ASSUME Types, Numbered, NEW k, k.id = arrivals + 1
  PROVE  k \notin Held /\ k \notin sent /\ k \notin dropped
<1>1. arrivals \in Nat /\ ~(arrivals + 1 <= arrivals)
  BY DEF Types
<1>2. QED  BY <1>1 DEF Numbered

\* Numbers stay below the number of arrivals.
LEMMA NumbersGrow ==
  ASSUME Types, Numbered, arrivals' \in Nat, arrivals <= arrivals', NEW new,
         Held' \cup sent' \cup dropped' \subseteq Held \cup sent \cup dropped \cup new,
         \A k \in new : k.id <= arrivals'
  PROVE  Numbered'
<1>1. ASSUME NEW k \in Held' \cup sent' \cup dropped'
      PROVE  k.id <= arrivals'
  <2>1. CASE k \in new
    BY <2>1
  <2>2. CASE k \in Held \cup sent \cup dropped
    <3>1. k.id <= arrivals
      BY <2>2 DEF Numbered
    <3>2. k \in Packet
      BY <2>2, HeldPackets DEF Types
    <3>3. k.id \in Nat /\ arrivals \in Nat
      BY <3>2, Fields DEF Types
    <3>4. QED  BY <3>1, <3>3
  <2>3. QED  BY <2>1, <2>2
<1>2. QED  BY <1>1 DEF Numbered

-----------------------------------------------------------------------------
(***************************************************************************)
(* What the parts of DoEnqueue do                                          *)
(***************************************************************************)
\* What holds of any DoEnqueue of packet k: the lanes stay in order, the packet is
\* accepted or refused as the contract says.
Enqueued(k) ==
  /\ lanes' \in [Lanes -> Seq(Packet)] /\ laneSizes' \in [Lanes -> Nat]
  /\ LaneInv' /\ Numbered' /\ dropped' \subseteq Packet
  /\ Contract!Accept(k) \/ Contract!Refuse(k)

\* The packet is in one of the PIFOs or dropped, and dropped only if acknowledgements
\* alone leave no room for it.
LEMMA EnqueuePifoOK ==
  ASSUME Inv, disc \in {"ideal", "rr"}, NEW i \in LanesUsed,
         NEW k \in Packet, k.id = arrivals + 1, arrivals' = arrivals + 1,
         UNCHANGED <<disc, sent, ackFifo, ackInputPointer, ackOutputPointer>>,
         EnqueuePifo(i, k)
  PROVE  /\ Enqueued(k)
         /\ \A j \in dropped' \ dropped :
              j.id = arrivals' => j = k /\ Bytes(ChargedTo(i)) + k.size > LaneBuffer
<1> DEFINE n    == NumKept(i, k.size)
           kept == SubSeq(lanes[i], 1, n)
           lost == ToSet(SubSeq(lanes[i], n + 1, Len(lanes[i])))
           left == laneSizes[i] - Bytes(lost)
           fits == left + k.size <= LaneBuffer
           c    == Bytes(ChargedTo(i))
<1>1. /\ lanes' = [lanes EXCEPT ![i] = IF fits THEN Inserted(kept, k) ELSE kept]
      /\ laneSizes' = [laneSizes EXCEPT ![i] = IF fits THEN left + k.size ELSE left]
      /\ dropped' = dropped \cup lost \cup (IF fits THEN {} ELSE {k})
      /\ ret' = [call |-> "enqueue", packets |-> IF fits THEN {k} ELSE {}]
  BY DEF EnqueuePifo, Answer
<1>2. Types /\ LaneInv /\ Placed /\ LaneSizesExact /\ Numbered
  BY DEF Inv, LaneInv
<1>3. i \in Lanes /\ LaneBuffer \in Nat /\ k.size \in Nat
  BY <1>2, Room, Fields DEF Types
<1>4. /\ kept \in Seq(Packet) /\ Once(kept)
      /\ InLane(i) = ToSet(kept) \cup lost /\ ToSet(kept) \cap lost = {}
      /\ left = Bytes(ToSet(kept)) + c
      /\ Bytes(ToSet(kept)) <= LaneBuffer
      /\ fits \/ (left = c /\ ToSet(kept) = {})
  BY <1>2, <1>3, Evicted
<1> HIDE DEF n, kept, lost, left
<1>5. c \in Nat /\ Bytes(ToSet(kept)) \in Nat /\ ToSet(kept) \subseteq Packet
      /\ IsFiniteSet(ToSet(kept)) /\ left \in Nat
  <2>1. c \in Nat
    BY <1>2, ChargeType DEF Types
  <2>2. Bytes(ToSet(kept)) \in Nat /\ ToSet(kept) \subseteq Packet /\ IsFiniteSet(ToSet(kept))
    BY <1>4, QueueBytes
  <2>3. QED  BY <1>4, <2>1, <2>2
<1> HIDE DEF c
<1>6. k \notin Held /\ k \notin sent /\ k \notin dropped
  BY <1>2, Newcomer
<1>7. InLane(i) \subseteq Held /\ Held \subseteq Packet
  BY <1>2, <1>3, HeldParts, HeldPackets
<1>8. /\ lost \in Contract!Evictions("enqueue") /\ Contract!New(k)
  BY <1>4, <1>6, <1>7 DEF Contract!Evictions, Contract!New
<1>9. \A j \in lost : j.id # arrivals'
  BY <1>2, <1>4, <1>7, Newcomer
<1>10. arrivals' \in Nat /\ arrivals <= arrivals' /\ k.id <= arrivals'
  BY <1>2 DEF Types
<1>11. CASE fits
  <2> DEFINE s == Inserted(kept, k)
  <2>1. k \notin ToSet(kept) /\ k \notin lost
    BY <1>4, <1>6, <1>7
  <2>2. s \in Seq(Packet) /\ Once(s) /\ ToSet(s) = ToSet(kept) \cup {k}
    BY <1>4, <2>1, InsertSet
  <2> HIDE DEF s
  <2>3. Bytes(ToSet(s)) = Bytes(ToSet(kept)) + k.size
    BY <1>5, <2>1, <2>2, BytesMore
  <2>4. Bytes(ToSet(s)) <= LaneBuffer /\ left + k.size = Bytes(ToSet(s)) + c
    BY <1>3, <1>4, <1>5, <1>11, <2>3
  <2>5. lanes' = [lanes EXCEPT ![i] = s]
        /\ laneSizes' = [laneSizes EXCEPT ![i] = Bytes(ToSet(s)) + Bytes(ChargedTo(i))]
    BY <1>1, <1>11, <2>4 DEF s, c
  <2>6. ToSet(s) \subseteq InLane(i) \cup {k} /\ {k} \cap Held = {}
    BY <1>4, <1>6, <2>2
  <2>7. /\ lanes' \in [Lanes -> Seq(Packet)] /\ laneSizes' \in [Lanes -> Nat] /\ LaneInv'
        /\ Held' = (Held \ (InLane(i) \ ToSet(s))) \cup ToSet(s)
    BY <1>2, <2>2, <2>4, <2>5, <2>6, LaneStep
  <2>8. Held' = (Held \ lost) \cup {k}
    BY <1>4, <1>7, <2>1, <2>2, <2>7
  <2>9. dropped' = dropped \cup lost
    BY <1>1, <1>11
  <2>10. Numbered'
    <3> DEFINE new == {k}
    <3>1. /\ Held' \cup sent' \cup dropped' \subseteq Held \cup sent \cup dropped \cup new
          /\ \A j \in new : j.id <= arrivals'
      BY <1>4, <1>7, <1>10, <2>8, <2>9
    <3> HIDE DEF new
    <3>2. QED  BY <1>2, <1>10, <3>1, NumbersGrow
  <2>11. Contract!Accept(k)
    BY <1>1, <1>8, <1>11, <2>8, <2>9 DEF Contract!Accept, Contract!Return
  <2>12. dropped' \subseteq Packet
    BY <1>2, <1>4, <1>7, <2>9 DEF Types
  <2>13. QED
    BY <1>9, <2>7, <2>9, <2>10, <2>11, <2>12 DEF Enqueued
<1>12. CASE ~fits
  <2>1. lanes' = [lanes EXCEPT ![i] = kept]
        /\ laneSizes' = [laneSizes EXCEPT ![i] = Bytes(ToSet(kept)) + Bytes(ChargedTo(i))]
    BY <1>1, <1>4, <1>12 DEF c
  <2>2. ToSet(kept) \subseteq InLane(i) \cup {} /\ {} \cap Held = {}
    BY <1>4
  <2>3. /\ lanes' \in [Lanes -> Seq(Packet)] /\ laneSizes' \in [Lanes -> Nat] /\ LaneInv'
        /\ Held' = (Held \ (InLane(i) \ ToSet(kept))) \cup ToSet(kept)
    BY <1>2, <1>4, <2>1, <2>2, LaneStep
  <2>4. Held' = Held \ lost
    BY <1>4, <1>7, <2>3
  <2>5. dropped' = dropped \cup lost \cup {k}
    BY <1>1, <1>12
  <2>6. Numbered'
    <3> DEFINE new == {k}
    <3>1. /\ Held' \cup sent' \cup dropped' \subseteq Held \cup sent \cup dropped \cup new
          /\ \A j \in new : j.id <= arrivals'
      BY <1>4, <1>7, <1>10, <2>4, <2>5
    <3> HIDE DEF new
    <3>2. QED  BY <1>2, <1>10, <3>1, NumbersGrow
  <2>7. Contract!Refuse(k)
    BY <1>1, <1>8, <1>12, <2>4, <2>5 DEF Contract!Refuse, Contract!Return
  <2>8. dropped' \subseteq Packet
    BY <1>2, <1>4, <1>7, <2>5 DEF Types
  <2>9. c + k.size > LaneBuffer
    BY <1>3, <1>4, <1>5, <1>12
  <2>10. QED
    BY <1>9, <2>3, <2>5, <2>6, <2>7, <2>8, <2>9 DEF Enqueued, c
<1>13. QED  BY <1>11, <1>12

\* The packet goes to the end of a FIFO that has room for it.
LEMMA PushOK ==
  ASSUME Inv, NEW i \in LanesUsed, NEW k \in Packet, k.id = arrivals + 1,
         arrivals' = arrivals + 1,
         UNCHANGED <<disc, sent, ackFifo, ackInputPointer, ackOutputPointer>>,
         Fits(i, k.size), Push(i, k)
  PROVE  Enqueued(k)
<1> DEFINE s == Append(lanes[i], k)
           c == Bytes(ChargedTo(i))
           b == Bytes(InLane(i))
<1>1. Types /\ LaneInv /\ Placed /\ LaneSizesExact /\ Numbered
  BY DEF Inv, LaneInv
<1>2. i \in Lanes /\ LaneBuffer \in Nat /\ k.size \in Nat
  BY <1>1, Room, Fields DEF Types
<1>3. k \notin Held /\ k \notin sent /\ k \notin dropped
  BY <1>1, Newcomer
<1>4. lanes[i] \in Seq(Packet) /\ Once(lanes[i]) /\ k \notin InLane(i)
  BY <1>1, <1>2, <1>3, HeldParts DEF Types, Placed
<1>5. s \in Seq(Packet) /\ ToSet(s) = InLane(i) \cup {k} /\ Once(s)
  BY <1>4, AppendSet DEF InLane
<1>6. laneSizes[i] = b + c /\ b \in Nat /\ c \in Nat
  <2>1. b \in Nat
    BY <1>4, QueueBytes DEF InLane
  <2>2. c \in Nat
    BY <1>1, ChargeType DEF Types
  <2>3. QED  BY <1>1, <1>2, <2>1, <2>2 DEF LaneSizesExact
<1>7. Bytes(ToSet(s)) = b + k.size
  <2>1. InLane(i) \subseteq Packet /\ IsFiniteSet(InLane(i))
    BY <1>4, QueueBytes DEF InLane
  <2>2. QED  BY <1>4, <1>5, <2>1, BytesMore
<1>8. lanes' = [lanes EXCEPT ![i] = s] /\ dropped' = dropped
      /\ laneSizes' = [laneSizes EXCEPT ![i] = laneSizes[i] + k.size]
      /\ ret' = [call |-> "enqueue", packets |-> {k}]
  BY DEF Push, Answer
<1> HIDE DEF s, b, c
<1>9. /\ Bytes(ToSet(s)) <= LaneBuffer
      /\ laneSizes[i] + k.size = Bytes(ToSet(s)) + c
  BY <1>2, <1>6, <1>7 DEF Fits
<1>10. laneSizes' = [laneSizes EXCEPT ![i] = Bytes(ToSet(s)) + Bytes(ChargedTo(i))]
  BY <1>8, <1>9 DEF c
<1>11. ToSet(s) \subseteq InLane(i) \cup {k} /\ {k} \cap Held = {}
  BY <1>3, <1>5
<1>12. /\ lanes' \in [Lanes -> Seq(Packet)] /\ laneSizes' \in [Lanes -> Nat] /\ LaneInv'
       /\ Held' = (Held \ (InLane(i) \ ToSet(s))) \cup ToSet(s)
  BY <1>1, <1>5, <1>8, <1>9, <1>10, <1>11, LaneStep
<1>13. Held' = Held \cup {k}
  BY <1>2, <1>5, <1>12, HeldParts
<1>14. Numbered'
  <2> DEFINE new == {k}
  <2>1. /\ Held' \cup sent' \cup dropped' \subseteq Held \cup sent \cup dropped \cup new
        /\ \A j \in new : j.id <= arrivals'
    BY <1>1, <1>8, <1>13 DEF Types
  <2>2. arrivals' \in Nat /\ arrivals <= arrivals'
    BY <1>1 DEF Types
  <2> HIDE DEF new
  <2>3. QED  BY <1>1, <2>1, <2>2, NumbersGrow
<1>15. Contract!Accept(k)
  <2>1. {} \in Contract!Evictions("enqueue")
    BY DEF Contract!Evictions
  <2>2. Contract!New(k) /\ Held' = (Held \ {}) \cup {k} /\ dropped' = dropped \cup {}
    BY <1>3, <1>8, <1>13 DEF Contract!New
  <2>3. QED  BY <1>8, <2>1, <2>2 DEF Contract!Accept, Contract!Return
<1>16. dropped' \subseteq Packet
  BY <1>1, <1>8 DEF Types
<1>17. QED  BY <1>12, <1>14, <1>15, <1>16 DEF Enqueued

\* The packet is dropped.
LEMMA RefuseOK ==
  ASSUME Inv, NEW k \in Packet, k.id = arrivals + 1, arrivals' = arrivals + 1,
         UNCHANGED <<disc, sent, ackFifo, ackInputPointer, ackOutputPointer>>,
         Refuse(k)
  PROVE  Enqueued(k)
<1>1. Types /\ LaneInv /\ Numbered
  BY DEF Inv
<1>2. k \notin Held /\ k \notin sent /\ k \notin dropped
  BY <1>1, Newcomer
<1>3. /\ dropped' = dropped \cup {k} /\ UNCHANGED <<lanes, laneSizes>>
      /\ ret' = [call |-> "enqueue", packets |-> {}]
  BY DEF Refuse, Answer
<1>4. LaneInv' /\ Held' = Held
  BY <1>1, <1>3, LanesSame
<1>5. Numbered'
  <2> DEFINE new == {k}
  <2>1. /\ Held' \cup sent' \cup dropped' \subseteq Held \cup sent \cup dropped \cup new
        /\ \A j \in new : j.id <= arrivals'
    BY <1>1, <1>3, <1>4 DEF Types
  <2>2. arrivals' \in Nat /\ arrivals <= arrivals'
    BY <1>1 DEF Types
  <2> HIDE DEF new
  <2>3. QED  BY <1>1, <2>1, <2>2, NumbersGrow
<1>6. Contract!Refuse(k)
  <2>1. {} \in Contract!Evictions("enqueue")
    BY DEF Contract!Evictions
  <2>2. Contract!New(k) /\ Held' = Held \ {} /\ dropped' = dropped \cup {} \cup {k}
    BY <1>2, <1>3, <1>4 DEF Contract!New
  <2>3. QED  BY <1>3, <2>1, <2>2 DEF Contract!Refuse, Contract!Return
<1>7. QED  BY <1>1, <1>3, <1>4, <1>5, <1>6 DEF Enqueued, Types

\* An acknowledgement is charged to the lane its place in the queue falls on.
LEMMA EnqueueAckOK ==
  ASSUME Inv, NEW k \in Packet, k.id = arrivals + 1, arrivals' = arrivals + 1,
         UNCHANGED <<disc, sent>>, EnqueueAck(k)
  PROVE  /\ Enqueued(k) /\ ackFifo' \in Seq(Packet)
         /\ ackInputPointer' \in Lanes /\ dropped' = dropped
<1> DEFINE a == ackInputPointer
<1>1. Types /\ LaneInv /\ Unused /\ Placed /\ AckPointers /\ LaneSizesExact /\ Numbered
  BY DEF Inv, LaneInv
<1>2. /\ disc = "rr" /\ ackFifo' = Append(ackFifo, k)
      /\ laneSizes' = [laneSizes EXCEPT ![a] = @ + k.size]
      /\ ackInputPointer' = (a + 1) % NumLanes
      /\ ret' = [call |-> "enqueue", packets |-> {k}]
      /\ UNCHANGED <<lanes, ackOutputPointer, dropped>>
  BY DEF EnqueueAck, Answer
<1>3. /\ a \in Lanes /\ ackOutputPointer \in Lanes /\ ackFifo \in Seq(Packet)
      /\ a \in Nat /\ ackOutputPointer \in Nat /\ Len(ackFifo) \in Nat
      /\ k.size \in Nat /\ NumLanes \in Nat \ {0}
  <2>1. a \in Lanes /\ ackOutputPointer \in Lanes /\ ackFifo \in Seq(Packet)
    BY <1>1 DEF Types
  <2>2. Len(ackFifo) \in Nat
    BY <2>1, LenProperties
  <2>3. k.size \in Nat
    BY Fields
  <2>4. QED  BY <2>1, <2>2, <2>3, Parameters
<1>4. k \notin Held /\ k \notin sent /\ k \notin dropped
  BY <1>1, Newcomer
<1>5. /\ ackFifo' \in Seq(Packet) /\ ToSet(ackFifo') = ToSet(ackFifo) \cup {k}
      /\ Once(ackFifo') /\ Len(ackFifo') = Len(ackFifo) + 1
  BY <1>1, <1>2, <1>3, <1>4, HeldParts, AppendSet, AppendProperties DEF Placed
<1>6. LanesUsed' = LanesUsed /\ LaneBuffer' = LaneBuffer
  BY DEF LanesUsed, LaneBuffer
<1>7. \A i : InLane(i)' = InLane(i)
  BY <1>2 DEF InLane
<1>8. \A i : ChargedTo(i)' = ChargedTo(i) \cup (IF i = a THEN {k} ELSE {})
  <2> SUFFICES ASSUME NEW i
               PROVE  ChargedTo(i)' = ChargedTo(i) \cup (IF i = a THEN {k} ELSE {})
    OBVIOUS
  <2>1. Dealt(Append(ackFifo, k), NumLanes, ackOutputPointer, i)
          = Dealt(ackFifo, NumLanes, ackOutputPointer, i)
              \cup (IF (ackOutputPointer + Len(ackFifo)) % NumLanes = i THEN {k} ELSE {})
    BY <1>3, DealtAppend DEF Lanes
  <2>2. (ackOutputPointer + Len(ackFifo)) % NumLanes = a
    BY <1>1 DEF AckPointers
  <2>3. ChargedTo(i)' = Dealt(ackFifo', NumLanes, ackOutputPointer', i)
    BY DEF ChargedTo, Dealt
  <2>4. QED  BY <1>2, <2>1, <2>2, <2>3, ChargedParts
<1>9. Unused'
  BY <1>1, <1>2, <1>6 DEF Unused
<1>10. Placed'
  <2>1. \A i \in Lanes : Once(lanes'[i]) /\ InLane(i)' \cap ToSet(ackFifo') = {}
    BY <1>1, <1>2, <1>4, <1>5, <1>7, HeldParts DEF Placed
  <2>2. QED  BY <1>1, <1>5, <1>7, <2>1 DEF Placed
<1>11. AckPointers'
  <2> DEFINE e == ackOutputPointer + Len(ackFifo)
  <2>1. e \in Nat /\ e % NumLanes = a /\ ackOutputPointer + (Len(ackFifo) + 1) = e + 1
    BY <1>1, <1>3 DEF AckPointers
  <2> HIDE DEF e
  <2>2. ((e % NumLanes) + 1) % NumLanes = (e + 1) % NumLanes
    BY <1>3, <2>1, ModShift
  <2>3. QED  BY <1>2, <1>5, <2>1, <2>2 DEF AckPointers
<1>12. a + 1 \in Nat /\ ackInputPointer' \in Lanes
  <2> DEFINE e == a + 1
  <2>1. e \in Nat
    BY <1>3
  <2> HIDE DEF e
  <2>2. e % NumLanes \in Lanes
    BY <1>3, <2>1, DivMod DEF Lanes
  <2>3. QED  BY <1>2, <2>1, <2>2 DEF e
<1>13. \A i \in Lanes : /\ laneSizes[i] = Bytes(InLane(i)) + Bytes(ChargedTo(i))
                        /\ Bytes(InLane(i)) \in Nat /\ Bytes(ChargedTo(i)) \in Nat
                        /\ Bytes(InLane(i)) <= LaneBuffer
  BY <1>1, <1>3, QueueBytes, ChargeType DEF LaneSizesExact, InLane, Types
<1>14. Bytes(ChargedTo(a) \cup {k}) = Bytes(ChargedTo(a)) + k.size
  <2>1. k \notin ChargedTo(a) /\ ChargedTo(a) \subseteq Packet /\ IsFiniteSet(ChargedTo(a))
    BY <1>3, <1>4, ChargeType, HeldParts
  <2>2. QED  BY <2>1, BytesMore
<1>15. laneSizes' \in [Lanes -> Nat] /\ LaneSizesExact'
  <2>0. laneSizes \in [Lanes -> Nat] /\ \A i \in Lanes : laneSizes[i] \in Nat
    BY <1>1 DEF Types
  <2>1. \A i \in Lanes : laneSizes'[i] = IF i = a THEN laneSizes[i] + k.size ELSE laneSizes[i]
    BY <1>2, <1>3, <2>0
  <2>2. \A i \in Lanes : laneSizes'[i] \in Nat
    BY <1>3, <2>0, <2>1
  <2>3. ASSUME NEW i \in Lanes
        PROVE  /\ laneSizes'[i] = Bytes(InLane(i)') + Bytes(ChargedTo(i)')
               /\ Bytes(InLane(i)') <= LaneBuffer'
    <3>1. CASE i = a
      <4>1. ChargedTo(i)' = ChargedTo(a) \cup {k}
        BY <1>8, <3>1
      <4>2. laneSizes'[i] = Bytes(InLane(i)) + Bytes(ChargedTo(a)) + k.size
        BY <2>1, <3>1, <1>13
      <4>3. QED  BY <1>3, <1>6, <1>7, <1>13, <1>14, <3>1, <4>1, <4>2
    <3>2. CASE i # a
      BY <1>6, <1>7, <1>8, <1>13, <2>1, <3>2
    <3>3. QED  BY <3>1, <3>2
  <2>4. laneSizes' \in [Lanes -> Nat]
    BY <1>1, <1>2, <2>2 DEF Types
  <2>5. QED  BY <2>3, <2>4 DEF LaneSizesExact
<1>16. Held' = Held \cup {k}
  BY <1>5, <1>7 DEF Held
<1>17. Numbered'
  <2> DEFINE new == {k}
  <2>1. /\ Held' \cup sent' \cup dropped' \subseteq Held \cup sent \cup dropped \cup new
        /\ \A j \in new : j.id <= arrivals'
    BY <1>1, <1>2, <1>16 DEF Types
  <2>2. arrivals' \in Nat /\ arrivals <= arrivals'
    BY <1>1 DEF Types
  <2> HIDE DEF new
  <2>3. QED  BY <1>1, <2>1, <2>2, NumbersGrow
<1>18. Contract!Accept(k)
  <2>1. {} \in Contract!Evictions("enqueue")
    BY DEF Contract!Evictions
  <2>2. Contract!New(k) /\ Held' = (Held \ {}) \cup {k} /\ dropped' = dropped \cup {}
    BY <1>2, <1>4, <1>16 DEF Contract!New
  <2>3. QED  BY <1>2, <2>1, <2>2 DEF Contract!Accept, Contract!Return
<1>19. lanes' \in [Lanes -> Seq(Packet)] /\ dropped' \subseteq Packet /\ dropped' = dropped
  BY <1>1, <1>2 DEF Types
<1>20. LaneInv'
  BY <1>9, <1>10, <1>11, <1>15 DEF LaneInv
<1>21. QED  BY <1>5, <1>12, <1>15, <1>17, <1>18, <1>19, <1>20 DEF Enqueued

-----------------------------------------------------------------------------
(***************************************************************************)
(* What the parts of DoDequeue do                                          *)
(***************************************************************************)
\* What holds of any DoDequeue: the lanes stay in order, and a held packet is sent
\* unless none is held.
Dequeued ==
  /\ lanes' \in [Lanes -> Seq(Packet)] /\ laneSizes' \in [Lanes -> Nat]
  /\ ackFifo' \in Seq(Packet)
  /\ LaneInv' /\ Numbered' /\ sent' \subseteq Packet
  /\ Contract!Serve \/ Contract!Idle

\* A packet that was held is sent.
LEMMA ServeOK ==
  ASSUME Types, Numbered, NEW k \in Held, Held' = Held \ {k}, sent' = sent \cup {k},
         ret' = [call |-> "dequeue", packets |-> {k}],
         UNCHANGED <<disc, arrivals, dropped>>
  PROVE  Numbered' /\ sent' \subseteq Packet /\ Contract!Serve
<1>1. k \in Packet
  BY HeldPackets
<1>2. Numbered'
  <2>1. arrivals' \in Nat /\ arrivals <= arrivals'
    BY DEF Types
  <2>2. /\ Held' \cup sent' \cup dropped' \subseteq Held \cup sent \cup dropped \cup {}
        /\ \A j \in {} : j.id <= arrivals'
    OBVIOUS
  <2> DEFINE new == {}
  <2>3. /\ Held' \cup sent' \cup dropped' \subseteq Held \cup sent \cup dropped \cup new
        /\ \A j \in new : j.id <= arrivals'
    BY <2>2
  <2> HIDE DEF new
  <2>4. QED  BY <2>1, <2>3, NumbersGrow
<1>3. {} \in Contract!Evictions("dequeue")
  BY DEF Contract!Evictions
<1>4. /\ k \notin {} /\ dropped' = dropped \cup {} /\ Held' = Held \ ({k} \cup {})
  OBVIOUS
<1>5. Contract!Serve
  BY <1>3, <1>4 DEF Contract!Serve, Contract!Return
<1>6. QED  BY <1>1, <1>2, <1>5 DEF Types

\* The first acknowledgement leaves, and its size is taken off the lane that it
\* was charged to.
LEMMA DequeueAckOK ==
  ASSUME Inv, UNCHANGED <<disc, arrivals, dropped>>, DequeueAck
  PROVE  Dequeued /\ ackOutputPointer' \in Lanes
<1> DEFINE k == Head(ackFifo)
<1>0. PICK o : o = ackOutputPointer
  OBVIOUS
<1>1. Types /\ LaneInv /\ Unused /\ Placed /\ AckPointers /\ LaneSizesExact /\ Numbered
  BY DEF Inv, LaneInv
<1>2. /\ ackFifo # <<>> /\ ackFifo' = Tail(ackFifo)
      /\ laneSizes' = [laneSizes EXCEPT ![o] = @ - k.size]
      /\ ackOutputPointer' = (o + 1) % NumLanes
      /\ sent' = sent \cup {k}
      /\ ret' = [call |-> "dequeue", packets |-> {k}]
      /\ UNCHANGED <<lanes, ackInputPointer>>
  BY <1>0 DEF DequeueAck, Answer
<1>3. /\ o \in Lanes /\ ackInputPointer \in Lanes /\ ackFifo \in Seq(Packet)
      /\ o \in Nat /\ NumLanes \in Nat \ {0}
  <2>1. o \in Lanes /\ ackInputPointer \in Lanes /\ ackFifo \in Seq(Packet)
    BY <1>0, <1>1 DEF Types
  <2>2. QED  BY <2>1, Parameters
<1>4. Len(ackFifo) \in Nat /\ Len(ackFifo) > 0 /\ Len(ackFifo') = Len(ackFifo) - 1
  BY <1>2, <1>3, LenProperties, HeadTailProperties, EmptySeq
<1>5. /\ k \in Packet /\ k \in ToSet(ackFifo) /\ k \notin ToSet(ackFifo')
      /\ ackFifo' \in Seq(Packet) /\ ToSet(ackFifo') = ToSet(ackFifo) \ {k}
      /\ Once(ackFifo')
  BY <1>1, <1>2, <1>3, TailSet DEF Placed
<1>6. k.size \in Nat /\ k \in Held
  BY <1>5, Fields, HeldParts
<1> HIDE DEF k
<1>7. LanesUsed' = LanesUsed /\ LaneBuffer' = LaneBuffer
  BY DEF LanesUsed, LaneBuffer
<1>8. \A i : InLane(i)' = InLane(i)
  BY <1>2 DEF InLane
<1>9. \A i : ChargedTo(i) = ChargedTo(i)' \cup (IF o = i THEN {k} ELSE {})
  <2> SUFFICES ASSUME NEW i
               PROVE  ChargedTo(i) = ChargedTo(i)' \cup (IF o = i THEN {k} ELSE {})
    OBVIOUS
  <2>1. Dealt(ackFifo, NumLanes, o, i)
          = Dealt(Tail(ackFifo), NumLanes, (o + 1) % NumLanes, i)
              \cup (IF o = i THEN {k} ELSE {})
    BY <1>2, <1>3, DealtTail DEF Lanes, k
  <2>2. ChargedTo(i)' = Dealt(ackFifo', NumLanes, ackOutputPointer', i)
    BY DEF ChargedTo, Dealt
  <2>3. QED  BY <1>0, <1>2, <2>1, <2>2, ChargedParts
<1>10. \A i : ChargedTo(i)' \subseteq ToSet(ackFifo')
  <2>1. ToSet(ackFifo') = {ackFifo'[n] : n \in 1 .. Len(ackFifo')}
    BY <1>5, ToSetType
  <2>2. QED  BY <2>1 DEF ChargedTo
<1>11. Unused'
  BY <1>1, <1>2, <1>5, <1>7 DEF Unused
<1>12. Placed'
  <2>1. \A i \in Lanes : Once(lanes'[i]) /\ InLane(i)' \cap ToSet(ackFifo') = {}
    BY <1>1, <1>2, <1>5, <1>8 DEF Placed
  <2>2. QED  BY <1>1, <1>5, <1>8, <2>1 DEF Placed
<1>13. AckPointers'
  <2> DEFINE e == o + 1
             m == Len(ackFifo) - 1
  <2>1. e \in Nat /\ m \in Nat /\ e + m = o + Len(ackFifo)
    BY <1>3, <1>4
  <2>2. ackOutputPointer' = e % NumLanes /\ Len(ackFifo') = m
    BY <1>2, <1>4
  <2> HIDE DEF e, m
  <2>3. ((e % NumLanes) + m) % NumLanes = (e + m) % NumLanes
    BY <1>3, <2>1, ModShift
  <2>4. QED  BY <1>0, <1>1, <1>2, <2>1, <2>2, <2>3 DEF AckPointers
<1>14. ackOutputPointer' \in Lanes
  <2> DEFINE e == o + 1
  <2>1. e \in Nat
    BY <1>3
  <2> HIDE DEF e
  <2>2. e % NumLanes \in Lanes
    BY <1>3, <2>1, DivMod DEF Lanes
  <2>3. QED  BY <1>2, <2>1, <2>2 DEF e
<1>15. \A i \in Lanes : /\ laneSizes[i] = Bytes(InLane(i)) + Bytes(ChargedTo(i))
                        /\ Bytes(InLane(i)) \in Nat /\ Bytes(ChargedTo(i)) \in Nat
                        /\ Bytes(InLane(i)) <= LaneBuffer
  BY <1>1, <1>3, QueueBytes, ChargeType DEF LaneSizesExact, InLane, Types
<1>16. Bytes(ChargedTo(o)) = Bytes(ChargedTo(o)') + k.size /\ Bytes(ChargedTo(o)') \in Nat
  <2> DEFINE rest == ChargedTo(o)'
  <2>1. k \notin rest /\ ChargedTo(o) = rest \cup {k}
    BY <1>5, <1>9, <1>10
  <2>2. ChargedTo(o) \subseteq Packet /\ IsFiniteSet(ChargedTo(o))
    BY <1>3, ChargeType
  <2> HIDE DEF rest
  <2>3. rest \subseteq Packet /\ IsFiniteSet(rest)
    BY <2>1, <2>2, FS_Subset
  <2>4. Bytes(rest \cup {k}) = Bytes(rest) + k.size
    BY <1>5, <2>1, <2>3, BytesMore
  <2>5. Bytes(rest) \in Nat
    <3>1. \A j \in rest : j.size \in Nat
      BY <2>3, Fields
    <3>2. QED  BY <2>3, <3>1, BytesNatural
  <2>6. QED  BY <2>1, <2>4, <2>5 DEF rest
<1>17. laneSizes' \in [Lanes -> Nat] /\ LaneSizesExact'
  <2>1. laneSizes \in [Lanes -> Nat] /\ \A i \in Lanes : laneSizes[i] \in Nat
    BY <1>1 DEF Types
  <2>2. \A i \in Lanes : laneSizes'[i] = IF i = o THEN laneSizes[i] - k.size ELSE laneSizes[i]
    BY <1>2, <1>3, <2>1
  <2>3. laneSizes'[o] = Bytes(InLane(o)) + Bytes(ChargedTo(o)')
    <3>1. laneSizes'[o] = laneSizes[o] - k.size
      BY <1>3, <2>2
    <3>2. laneSizes[o] = Bytes(InLane(o)) + Bytes(ChargedTo(o)) /\ Bytes(InLane(o)) \in Nat
      BY <1>3, <1>15
    <3>3. \A c, d, n \in Nat : (n + (c + d)) - d = n + c
      OBVIOUS
    <3>4. QED  BY <1>6, <1>16, <3>1, <3>2, <3>3
  <2>4. \A i \in Lanes : laneSizes'[i] \in Nat
    <3>1. laneSizes'[o] \in Nat
      <4>1. Bytes(InLane(o)) \in Nat
        BY <1>3, <1>15
      <4>2. QED  BY <1>16, <2>3, <4>1
    <3>2. QED  BY <2>1, <2>2, <3>1
  <2>5. ASSUME NEW i \in Lanes
        PROVE  /\ laneSizes'[i] = Bytes(InLane(i)') + Bytes(ChargedTo(i)')
               /\ Bytes(InLane(i)') <= LaneBuffer'
    <3>1. CASE i = o
      BY <1>7, <1>8, <1>15, <2>3, <3>1
    <3>2. CASE i # o
      BY <1>7, <1>8, <1>9, <1>15, <2>2, <3>2
    <3>3. QED  BY <3>1, <3>2
  <2>6. laneSizes' \in [Lanes -> Nat]
    BY <1>2, <2>1, <2>4
  <2>7. QED  BY <2>5, <2>6 DEF LaneSizesExact
<1>18. Held' = Held \ {k}
  <2>1. \A i \in Lanes : k \notin InLane(i)
    BY <1>1, <1>5 DEF Placed
  <2>2. QED  BY <1>5, <1>8, <2>1 DEF Held
<1>19. Numbered' /\ sent' \subseteq Packet /\ Contract!Serve
  BY <1>1, <1>2, <1>6, <1>18, ServeOK
<1>20. LaneInv' /\ lanes' \in [Lanes -> Seq(Packet)]
  BY <1>1, <1>2, <1>11, <1>12, <1>13, <1>17 DEF LaneInv, Types
<1>21. QED  BY <1>5, <1>14, <1>17, <1>19, <1>20 DEF Dequeued

\* A rotation stays within the lanes.
LEMMA Rotation ==
  ASSUME NEW i \in Lanes
  PROVE  (i + 1) % NumLanes \in Lanes
<1> DEFINE e == i + 1
<1>1. e \in Nat /\ NumLanes \in Nat \ {0}
  BY Parameters
<1> HIDE DEF e
<1>2. e % NumLanes \in 0 .. NumLanes - 1
  BY <1>1, DivMod
<1>3. QED  BY <1>2 DEF Lanes, e

\* The lane whose turn it is.
LEMMA TurnInside ==
  ASSUME Types, NEW n \in Visited
  PROVE  Turn(n) \in LanesUsed /\ Turn(n) \in Lanes
<1>1. /\ n \in LanesUsed /\ LanesUsed \subseteq Lanes
      /\ outputPointer \in Nat /\ n \in Nat
      /\ disc = "rr" => LanesUsed = Lanes
  BY Room, Parameters DEF Types, Visited
<1> DEFINE e == outputPointer + n
<1>2. e \in Nat
  BY <1>1
<1> HIDE DEF e
<1>3. e % NumLanes \in Lanes
  BY <1>2, Parameters, DivMod DEF Lanes
<1>4. QED  BY <1>1, <1>3 DEF Turn, e

\* The first packet of a lane leaves.
LEMMA DequeueLaneOK ==
  ASSUME Inv, UNCHANGED <<disc, arrivals, dropped>>, NEW n \in Visited, DequeueLane(n)
  PROVE  Dequeued /\ outputPointer' \in Lanes
<1> DEFINE i == Turn(n)
           s == lanes[i]
           k == Head(s)
           t == Tail(s)
           c == Bytes(ChargedTo(i))
<1>1. Types /\ LaneInv /\ Placed /\ LaneSizesExact /\ Numbered
  BY DEF Inv, LaneInv
<1>2. i \in LanesUsed /\ i \in Lanes /\ outputPointer' \in Lanes
  <2>1. i \in LanesUsed /\ i \in Lanes
    BY <1>1, TurnInside
  <2> HIDE DEF i
  <2>2. outputPointer' = NextPointer(i)
    BY DEF DequeueLane, i
  <2>3. NextPointer(i) \in Lanes
    BY <1>1, <2>1, Rotation DEF NextPointer, Types
  <2>4. QED  BY <2>1, <2>2, <2>3
<1> HIDE DEF i
<1>3. /\ s # <<>> /\ lanes' = [lanes EXCEPT ![i] = t]
      /\ laneSizes' = [laneSizes EXCEPT ![i] = laneSizes[i] - k.size]
      /\ sent' = sent \cup {k}
      /\ ret' = [call |-> "dequeue", packets |-> {k}]
      /\ UNCHANGED <<ackFifo, ackInputPointer, ackOutputPointer>>
  BY DEF DequeueLane, Answer, i, acks
<1>4. s \in Seq(Packet) /\ Once(s) /\ InLane(i) = ToSet(s)
  BY <1>1, <1>2 DEF Types, Placed, InLane
<1> HIDE DEF s
<1>5. /\ k \in Packet /\ t \in Seq(Packet) /\ Once(t)
      /\ k \in ToSet(s) /\ k \notin ToSet(t) /\ ToSet(t) = ToSet(s) \ {k}
  BY <1>3, <1>4, TailSet
<1> HIDE DEF k, t
<1>6. /\ laneSizes[i] = Bytes(ToSet(s)) + c /\ Bytes(ToSet(s)) <= LaneBuffer
      /\ c \in Nat /\ LaneBuffer \in Nat /\ k.size \in Nat
  <2>1. c \in Nat
    BY <1>1, ChargeType DEF Types
  <2>2. LaneBuffer \in Nat /\ k.size \in Nat
    BY <1>1, <1>5, Room, Fields DEF Types
  <2>3. QED  BY <1>1, <1>2, <1>4, <2>1, <2>2 DEF LaneSizesExact
<1> HIDE DEF c
<1>7. Bytes(ToSet(s)) = Bytes(ToSet(t)) + k.size /\ Bytes(ToSet(t)) \in Nat
  <2>1. ToSet(t) \subseteq Packet /\ IsFiniteSet(ToSet(t)) /\ Bytes(ToSet(t)) \in Nat
    BY <1>5, QueueBytes
  <2> DEFINE rest == ToSet(t)
  <2>2. ToSet(s) = rest \cup {k} /\ k \notin rest /\ rest \subseteq Packet /\ IsFiniteSet(rest)
    BY <1>5, <2>1
  <2> HIDE DEF rest
  <2>3. Bytes(rest \cup {k}) = Bytes(rest) + k.size
    BY <1>5, <2>2, BytesMore
  <2>4. QED  BY <2>1, <2>2, <2>3 DEF rest
<1>8. Bytes(ToSet(t)) <= LaneBuffer /\ laneSizes[i] - k.size = Bytes(ToSet(t)) + c
  <2> DEFINE b == Bytes(ToSet(t))
             d == Bytes(ToSet(s))
  <2>1. laneSizes[i] = d + c /\ d <= LaneBuffer /\ d = b + k.size /\ b \in Nat
    BY <1>6, <1>7
  <2> HIDE DEF b, d
  <2>2. QED  BY <1>6, <2>1 DEF b
<1>9. laneSizes' = [laneSizes EXCEPT ![i] = Bytes(ToSet(t)) + Bytes(ChargedTo(i))]
  BY <1>3, <1>8 DEF c
<1>10. ToSet(t) \subseteq InLane(i) \cup {} /\ {} \cap Held = {}
  BY <1>4, <1>5
<1>11. /\ lanes' \in [Lanes -> Seq(Packet)] /\ laneSizes' \in [Lanes -> Nat] /\ LaneInv'
       /\ Held' = (Held \ (InLane(i) \ ToSet(t))) \cup ToSet(t)
  BY <1>1, <1>2, <1>3, <1>5, <1>8, <1>9, <1>10, LaneStep
<1>12. InLane(i) \subseteq Held
  BY <1>2, HeldParts
<1>13. k \in Held /\ Held' = Held \ {k}
  BY <1>4, <1>5, <1>11, <1>12
<1>14. Numbered' /\ sent' \subseteq Packet /\ Contract!Serve
  BY <1>1, <1>3, <1>13, ServeOK
<1>15. ackFifo' \in Seq(Packet)
  BY <1>1, <1>3 DEF Types
<1>16. QED  BY <1>2, <1>11, <1>14, <1>15 DEF Dequeued

\* Every lane has its turn.
LEMMA TurnOf ==
  ASSUME Types, NEW q \in LanesUsed
  PROVE  \E n \in Visited : Turn(n) = q
<1>1. CASE disc # "rr"
  BY <1>1 DEF Visited, Turn
<1>2. CASE disc = "rr"
  <2> DEFINE first == outputPointer
  <2>1. /\ LanesUsed = Lanes /\ NumLanes \in Nat \ {0}
        /\ first \in Nat /\ first < NumLanes /\ q \in Nat /\ q < NumLanes
    <3>1. first \in Lanes /\ LanesUsed = Lanes
      BY <1>2, Room DEF Types
    <3>2. QED  BY <3>1, Parameters DEF Lanes
  <2> HIDE DEF first
  <2>2. \E n \in Lanes : (first + n) % NumLanes = q
    <3> DEFINE n == IF first <= q THEN q - first ELSE q + NumLanes - first
               e == first + n
    <3>1. n \in Lanes
      BY <2>1 DEF Lanes
    <3>2. e \in Nat /\ e < 2 * NumLanes /\ (IF e < NumLanes THEN e ELSE e - NumLanes) = q
      BY <2>1
    <3> HIDE DEF e
    <3>3. e % NumLanes = q
      <4>1. e % NumLanes = IF e < NumLanes THEN e ELSE e - NumLanes
        BY <2>1, <3>2, Wrap
      <4>2. QED  BY <3>2, <4>1
    <3>4. QED  BY <3>1, <3>3 DEF e
  <2>3. QED  BY <1>2, <2>1, <2>2 DEF Visited, Turn, first
<1>3. QED  BY <1>1, <1>2

\* The rotation finds nothing: nothing is held.
LEMMA DequeueNothingOK ==
  ASSUME Inv, UNCHANGED <<disc, arrivals, dropped>>, DequeueNothing
  PROVE  Dequeued
<1>1. Types /\ LaneInv /\ Unused /\ Numbered
  BY DEF Inv, LaneInv
<1>2. /\ ackFifo = <<>> /\ \A n \in Visited : lanes[Turn(n)] = <<>>
      /\ ret' = [call |-> "dequeue", packets |-> {}]
      /\ UNCHANGED <<lanes, laneSizes, ackFifo, ackInputPointer, ackOutputPointer, sent>>
  BY DEF DequeueNothing, Answer, acks
<1>3. \A i \in Lanes : lanes[i] = <<>>
  <2>1. \A i \in LanesUsed : lanes[i] = <<>>
    BY <1>1, <1>2, TurnOf
  <2>2. QED  BY <1>1, <2>1 DEF Unused
<1>4. Held = {}
  <2>1. ToSet(<<>>) = {}
    BY DEF ToSet
  <2>2. \A i \in Lanes : InLane(i) = {}
    BY <1>3, <2>1 DEF InLane
  <2>3. QED  BY <1>2, <2>1, <2>2 DEF Held
<1>5. LaneInv' /\ Held' = Held
  BY <1>1, <1>2, LanesSame
<1>6. Numbered'
  BY <1>1, <1>2, <1>5 DEF Numbered
<1>7. Contract!Idle
  BY <1>2, <1>4, <1>5 DEF Contract!Idle, Contract!Return
<1>8. lanes' \in [Lanes -> Seq(Packet)] /\ laneSizes' \in [Lanes -> Nat]
      /\ ackFifo' \in Seq(Packet) /\ sent' \subseteq Packet
  BY <1>1, <1>2 DEF Types
<1>9. QED  BY <1>5, <1>6, <1>7, <1>8 DEF Dequeued

-----------------------------------------------------------------------------
(***************************************************************************)
(* The five DoEnqueue                                                      *)
(***************************************************************************)
\* What is left to show of a DoEnqueue once its lanes are: the variables of its
\* own queue disc.
Others ==
  /\ {inputPointer, outputPointer, ackInputPointer, ackOutputPointer} \subseteq Lanes
  /\ ackFifo \in Seq(Packet)
  /\ borders \in [Lanes -> Int]
  /\ slidingWindow \in [0 .. WindowSize - 1 -> Nat]
  /\ windowPointer \in 0 .. WindowSize - 1

LEMMA EnqueuedInv ==
  ASSUME Inv, NEW k \in Packet, arrivals' = arrivals + 1, UNCHANGED <<disc, sent>>,
         Enqueued(k), Others', BordersDescend'
  PROVE  Inv' /\ Contract!Next
<1>1. Types'
  <2>1. /\ disc' \in AllDiscs /\ arrivals' \in Nat /\ sent' \subseteq Packet
        /\ lanes' \in [Lanes -> Seq(Packet)] /\ laneSizes' \in [Lanes -> Nat]
        /\ dropped' \subseteq Packet
    <3>1. disc' \in AllDiscs /\ arrivals' \in Nat /\ sent' \subseteq Packet
      BY DEF Inv, Types
    <3>2. QED  BY <3>1 DEF Enqueued
  <2>2. QED  BY <2>1 DEF Others, Types
<1>2. Contract!Next
  BY DEF Enqueued, Contract!Next
<1>3. QED  BY <1>1, <1>2 DEF Inv, Enqueued

LEMMA OthersHold == Types => Others
BY DEF Types, Others

\* The window keeps its length.
LEMMA SlideOK ==
  ASSUME Types, NEW rank \in Nat, Slide(rank)
  PROVE  /\ slidingWindow' \in [0 .. WindowSize - 1 -> Nat]
         /\ windowPointer' \in 0 .. WindowSize - 1
<1> DEFINE e == windowPointer + 1
<1>1. /\ slidingWindow \in [0 .. WindowSize - 1 -> Nat]
      /\ windowPointer \in 0 .. WindowSize - 1
      /\ slidingWindow' = [slidingWindow EXCEPT ![windowPointer] = rank]
      /\ windowPointer' = e % WindowSize
  BY DEF Types, Slide
<1>2. e \in Nat /\ WindowSize \in Nat \ {0}
  BY <1>1, Parameters
<1> HIDE DEF e
<1>3. windowPointer' \in 0 .. WindowSize - 1
  BY <1>1, <1>2, DivMod
<1>4. QED  BY <1>1, <1>3

LEMMA EnqueueIdealOK ==
  ASSUME Inv, NEW k \in Packet, k.id = arrivals + 1, arrivals' = arrivals + 1,
         UNCHANGED <<disc, sent>>, EnqueueIdeal(k)
  PROVE  /\ Inv' /\ Contract!Next
         /\ \A j \in dropped' \ dropped : j.id # arrivals'
<1>1. /\ disc = "ideal" /\ EnqueuePifo(0, k)
      /\ UNCHANGED <<inputPointer, outputPointer, ackFifo, ackInputPointer,
                     ackOutputPointer, borders, slidingWindow, windowPointer>>
  BY DEF EnqueueIdeal, pointers, acks, window
<1>2. Types /\ Unused
  BY DEF Inv, LaneInv
<1>3. 0 \in LanesUsed /\ LaneBuffer \in Nat
  BY <1>2, Room DEF Types
<1>4. /\ Enqueued(k)
      /\ \A j \in dropped' \ dropped :
           j.id = arrivals' => j = k /\ Bytes(ChargedTo(0)) + k.size > LaneBuffer
  <2>1. UNCHANGED <<disc, sent, ackFifo, ackInputPointer, ackOutputPointer>>
    BY <1>1
  <2>2. QED  BY <1>1, <1>3, <2>1, EnqueuePifoOK
<1>5. Bytes(ChargedTo(0)) = 0
  <2>1. ackFifo = <<>>
    BY <1>1, <1>2 DEF Unused
  <2>2. QED  BY <1>2, <2>1, ChargeType DEF Types
<1>6. k.size <= LaneBuffer /\ k.size \in Nat
  BY <1>2, Room, Fields DEF Types
<1>7. \A j \in dropped' \ dropped : j.id # arrivals'
  <2>1. ~(0 + k.size > LaneBuffer)
    BY <1>3, <1>6
  <2>2. QED  BY <1>4, <1>5, <2>1
<1>8. Others'
  BY <1>1, <1>2, OthersHold DEF Others
<1>9. BordersDescend'
  BY <1>1 DEF BordersDescend
<1>10. QED  BY <1>4, <1>7, <1>8, <1>9, EnqueuedInv

LEMMA EnqueueRROK ==
  ASSUME Inv, NEW k \in Packet, k.id = arrivals + 1, arrivals' = arrivals + 1,
         UNCHANGED <<disc, sent>>, EnqueueRR(k)
  PROVE  /\ Inv' /\ Contract!Next
         /\ \A j \in dropped' \ dropped :
              j.id = arrivals' =>
                j = k /\ Bytes(ChargedTo(inputPointer)) + k.size > LaneBuffer
<1>1. /\ disc = "rr" /\ EnqueuePifo(inputPointer, k)
      /\ inputPointer' = inputPointer \/ inputPointer' = (inputPointer + 1) % NumLanes
      /\ UNCHANGED <<outputPointer, ackFifo, ackInputPointer,
                     ackOutputPointer, borders, slidingWindow, windowPointer>>
  BY DEF EnqueueRR, acks, window
<1>2. Types
  BY DEF Inv
<1>3. inputPointer \in LanesUsed /\ inputPointer \in Lanes
  BY <1>1, <1>2, Room DEF Types
<1>4. /\ Enqueued(k)
      /\ \A j \in dropped' \ dropped :
           j.id = arrivals' => j = k /\ Bytes(ChargedTo(inputPointer)) + k.size > LaneBuffer
  <2>1. UNCHANGED <<disc, sent, ackFifo, ackInputPointer, ackOutputPointer>>
    BY <1>1
  <2>2. QED  BY <1>1, <1>3, <2>1, EnqueuePifoOK
<1>5. inputPointer' \in Lanes
  BY <1>1, <1>3, Rotation
<1>6. Others'
  BY <1>1, <1>2, <1>5, OthersHold DEF Others
<1>7. BordersDescend'
  BY <1>1 DEF BordersDescend
<1>8. QED  BY <1>4, <1>6, <1>7, EnqueuedInv

LEMMA EnqueueAckInv ==
  ASSUME Inv, NEW k \in Packet, k.id = arrivals + 1, arrivals' = arrivals + 1,
         UNCHANGED <<disc, sent>>, EnqueueAck(k)
  PROVE  /\ Inv' /\ Contract!Next
         /\ \A j \in dropped' \ dropped : j.id # arrivals'
<1>1. Types
  BY DEF Inv
<1>2. /\ disc = "rr"
      /\ UNCHANGED <<inputPointer, outputPointer, ackOutputPointer, borders,
                     slidingWindow, windowPointer>>
  BY DEF EnqueueAck, pointers, window
<1>3. /\ Enqueued(k) /\ ackFifo' \in Seq(Packet)
      /\ ackInputPointer' \in Lanes /\ dropped' = dropped
  BY EnqueueAckOK
<1>4. Others'
  BY <1>1, <1>2, <1>3, OthersHold DEF Others
<1>5. BordersDescend'
  BY <1>2 DEF BordersDescend
<1>6. QED  BY <1>3, <1>4, <1>5, EnqueuedInv

\* The packets of a FIFO that is filled at its end.
LEMMA PushLast ==
  ASSUME Types, NEW i \in Lanes, NEW k \in Packet, Push(i, k)
  PROVE  /\ lanes'[i] # <<>> /\ Last(lanes'[i]) = k
         /\ \A j \in Lanes \ {i} : lanes'[j] = lanes[j]
<1> DEFINE s == Append(lanes[i], k)
<1>1. lanes'[i] = s /\ \A j \in Lanes \ {i} : lanes'[j] = lanes[j]
  BY DEF Push, Types
<1>2. lanes[i] \in Seq(Packet) /\ Len(lanes[i]) \in Nat
  BY LenProperties DEF Types
<1>3. Len(s) = Len(lanes[i]) + 1 /\ s[Len(lanes[i]) + 1] = k /\ s \in Seq(Packet)
  BY <1>2, AppendProperties
<1>4. s # <<>>
  BY <1>2, <1>3, EmptySeq
<1>5. Last(s) = k
  BY <1>3 DEF Last
<1>6. QED  BY <1>1, <1>4, <1>5

\* Raising a border to a rank that does not reach the ones before it.
LEMMA PushUpOK ==
  ASSUME Inv, disc = "sppifo", NEW k \in Packet, k.id = arrivals + 1,
         arrivals' = arrivals + 1, NEW i \in Lanes, PushUp(i, k),
         UNCHANGED <<disc, sent, ackFifo, ackInputPointer, ackOutputPointer>>
  PROVE  /\ Enqueued(k) /\ borders' \in [Lanes -> Int] /\ BordersDescend'
         /\ \A j \in dropped' \ dropped : j = k /\ laneSizes[i] + k.size > LaneBuffer
<1>1. Types /\ BordersDescend
  BY DEF Inv
<1>2. /\ i \in LanesUsed /\ LaneBuffer \in Nat /\ k.size \in Nat /\ k.rank \in Nat
      /\ laneSizes[i] \in Nat /\ i \in Nat /\ Lanes = 0 .. NumLanes - 1
      /\ borders \in [Lanes -> Int] /\ NumLanes \in Nat
  <2>1. i \in LanesUsed /\ LaneBuffer \in Nat
    BY <1>1, Room DEF Types
  <2>2. laneSizes[i] \in Nat /\ borders \in [Lanes -> Int]
    BY <1>1 DEF Types
  <2>3. QED  BY <2>1, <2>2, Parameters, Fields DEF Lanes
<1>3. k.rank >= borders[i] /\ \A j \in 0 .. i - 1 : k.rank < borders[j]
  BY DEF PushUp, Reached
<1>4. CASE Fits(i, k.size)
  <2>1. Push(i, k) /\ borders' = [borders EXCEPT ![i] = k.rank]
    BY <1>4 DEF PushUp
  <2>2. Enqueued(k)
    BY <1>2, <1>4, <2>1, PushOK
  <2>3. /\ lanes'[i] # <<>> /\ Last(lanes'[i]) = k
        /\ \A j \in Lanes \ {i} : lanes'[j] = lanes[j]
    BY <1>1, <2>1, PushLast
  <2>4. /\ borders' \in [Lanes -> Int] /\ borders'[i] = k.rank
        /\ \A j \in Lanes \ {i} : borders'[j] = borders[j]
    BY <1>2, <2>1
  <2>5. ASSUME NEW m \in Lanes, NEW j \in 0 .. m
        PROVE  borders'[j] >= borders'[m]
    <3>0. j \in Lanes /\ j <= m
      BY <1>2
    <3>1. j \in Lanes /\ j <= m /\ borders[j] >= borders[m]
          /\ borders[j] \in Int /\ borders[m] \in Int /\ borders[i] \in Int
      BY <1>1, <1>2, <3>0 DEF BordersDescend
    <3>2. CASE m = i /\ j # i
      <4>1. j \in 0 .. i - 1
        BY <1>2, <3>1, <3>2
      <4>2. QED  BY <1>2, <1>3, <2>4, <3>1, <3>2, <4>1
    <3>3. CASE m # i /\ j = i
      BY <1>2, <1>3, <2>4, <3>1, <3>3
    <3>4. CASE m = i /\ j = i
      BY <1>2, <2>4, <3>4
    <3>5. CASE m # i /\ j # i
      BY <2>4, <3>1, <3>5
    <3>6. QED  BY <3>2, <3>3, <3>4, <3>5
  <2>6. ASSUME NEW m \in Lanes, lanes'[m] # <<>>
        PROVE  borders'[m] <= Last(lanes'[m]).rank
    <3>1. CASE m = i
      BY <1>2, <2>3, <2>4, <3>1
    <3>2. CASE m # i
      BY <1>1, <2>3, <2>4, <2>6, <3>2 DEF BordersDescend
    <3>3. QED  BY <3>1, <3>2
  <2>7. BordersDescend'
    BY <2>5, <2>6 DEF BordersDescend
  <2>8. dropped' = dropped
    BY <2>1 DEF Push
  <2>9. QED  BY <2>2, <2>4, <2>7, <2>8
<1>5. CASE ~Fits(i, k.size)
  <2>1. Refuse(k) /\ borders' = borders
    BY <1>5 DEF PushUp
  <2>2. Enqueued(k)
    BY <2>1, RefuseOK
  <2>3. lanes' = lanes /\ dropped' = dropped \cup {k}
    BY <2>1 DEF Refuse
  <2>4. BordersDescend'
    BY <1>1, <2>1, <2>3 DEF BordersDescend
  <2>5. laneSizes[i] + k.size > LaneBuffer
    BY <1>2, <1>5 DEF Fits
  <2>6. QED  BY <1>2, <2>1, <2>2, <2>3, <2>4, <2>5
<1>6. QED  BY <1>4, <1>5

\* Lowering all borders by the same keeps them in order; the first one comes down
\* to the rank.
LEMMA PushDownOK ==
  ASSUME Inv, disc = "sppifo", NEW k \in Packet, k.id = arrivals + 1,
         arrivals' = arrivals + 1, PushDown(k),
         UNCHANGED <<disc, sent, ackFifo, ackInputPointer, ackOutputPointer>>
  PROVE  /\ Enqueued(k) /\ borders' \in [Lanes -> Int] /\ BordersDescend'
         /\ \A j \in dropped' \ dropped : j = k /\ laneSizes[0] + k.size > LaneBuffer
<1>1. Types /\ BordersDescend
  BY DEF Inv
<1>2. /\ 0 \in LanesUsed /\ 0 \in Lanes /\ LaneBuffer \in Nat
      /\ k.size \in Nat /\ k.rank \in Nat /\ laneSizes[0] \in Nat
      /\ borders \in [Lanes -> Int] /\ Lanes = 0 .. NumLanes - 1
      /\ NumLanes \in Nat
  BY <1>1, Room, Fields, Parameters DEF Types, Lanes
<1> DEFINE down == borders[0] - k.rank
<1>3. /\ \A i \in Lanes : k.rank < borders[i]
      /\ borders' = [i \in Lanes |-> borders[i] - down]
      /\ IF Fits(0, k.size) THEN Push(0, k) ELSE Refuse(k)
  BY DEF PushDown
<1>4. down \in Int /\ down > 0 /\ borders[0] - down = k.rank
  BY <1>2, <1>3
<1> HIDE DEF down
<1>5. /\ borders' \in [Lanes -> Int] /\ borders'[0] = k.rank
      /\ \A i \in Lanes : /\ borders[i] \in Int /\ borders'[i] = borders[i] - down
                          /\ borders'[i] \in Int /\ borders'[i] <= borders[i]
  BY <1>2, <1>3, <1>4
<1>6. ASSUME NEW m \in Lanes, NEW j \in 0 .. m
      PROVE  borders'[j] >= borders'[m]
  <2>0. j \in Lanes
    BY <1>2
  <2>1. j \in Lanes /\ borders[j] >= borders[m]
    BY <1>1, <2>0 DEF BordersDescend
  <2>2. QED  BY <1>4, <1>5, <2>1
<1>7. ASSUME NEW m \in Lanes, lanes[m] # <<>>
      PROVE  borders'[m] <= Last(lanes[m]).rank
  <2>1. borders[m] <= Last(lanes[m]).rank
    BY <1>1, <1>7 DEF BordersDescend
  <2>2. Last(lanes[m]).rank \in Nat
    <3>1. lanes[m] \in Seq(Packet) /\ Len(lanes[m]) \in Nat /\ Len(lanes[m]) # 0
      BY <1>1, <1>7, LenProperties, EmptySeq DEF Types
    <3>2. lanes[m][Len(lanes[m])] \in Packet
      BY <3>1, LenProperties
    <3>3. QED  BY <3>2, Fields DEF Last
  <2>3. QED  BY <1>5, <2>1, <2>2
<1>8. CASE Fits(0, k.size)
  <2>1. Push(0, k)
    BY <1>3, <1>8
  <2>2. Enqueued(k)
    BY <1>2, <1>8, <2>1, PushOK
  <2>3. /\ lanes'[0] # <<>> /\ Last(lanes'[0]) = k
        /\ \A j \in Lanes \ {0} : lanes'[j] = lanes[j]
    BY <1>1, <1>2, <2>1, PushLast
  <2>4. ASSUME NEW m \in Lanes, lanes'[m] # <<>>
        PROVE  borders'[m] <= Last(lanes'[m]).rank
    <3>1. CASE m = 0
      BY <1>2, <1>5, <2>3, <3>1
    <3>2. CASE m # 0
      BY <1>7, <2>3, <2>4, <3>2
    <3>3. QED  BY <3>1, <3>2
  <2>5. BordersDescend'
    BY <1>6, <2>4 DEF BordersDescend
  <2>6. dropped' = dropped
    BY <2>1 DEF Push
  <2>7. QED  BY <1>5, <2>2, <2>5, <2>6
<1>9. CASE ~Fits(0, k.size)
  <2>1. Refuse(k)
    BY <1>3, <1>9
  <2>2. Enqueued(k)
    BY <2>1, RefuseOK
  <2>3. lanes' = lanes /\ dropped' = dropped \cup {k}
    BY <2>1 DEF Refuse
  <2>4. BordersDescend'
    BY <1>6, <1>7, <2>3 DEF BordersDescend
  <2>5. laneSizes[0] + k.size > LaneBuffer
    BY <1>2, <1>9 DEF Fits
  <2>6. QED  BY <1>5, <2>2, <2>3, <2>4, <2>5
<1>10. QED  BY <1>8, <1>9

\* What RefusedOnlyForRoom says of a step.
Refusals ==
  \A k \in dropped' \ dropped :
    k.id = arrivals' /\ arrivals' # arrivals =>
      CASE disc = "ideal"  -> FALSE
        [] disc = "rr"     -> Bytes(ChargedTo(inputPointer)) + k.size > LaneBuffer
        [] disc = "sppifo" -> \E i \in Lanes : laneSizes[i] + k.size > LaneBuffer
        [] OTHER ->
             \/ \E n \in DOMAIN slidingWindow' : slidingWindow'[n] < k.rank
             \/ \A i \in LanesUsed : laneSizes[i] + k.size > LaneBuffer

LEMMA EnqueueSPPIFOOK ==
  ASSUME Inv, NEW k \in Packet, k.id = arrivals + 1, arrivals' = arrivals + 1,
         UNCHANGED <<disc, sent>>, EnqueueSPPIFO(k)
  PROVE  Inv' /\ Contract!Next /\ Refusals
<1>1. /\ disc = "sppifo" /\ (PushDown(k) \/ \E i \in Lanes : PushUp(i, k))
      /\ UNCHANGED <<inputPointer, outputPointer, ackFifo, ackInputPointer,
                     ackOutputPointer, slidingWindow, windowPointer>>
  BY DEF EnqueueSPPIFO, pointers, acks, window
<1>2. Types
  BY DEF Inv
<1>3. UNCHANGED <<disc, sent, ackFifo, ackInputPointer, ackOutputPointer>>
  BY <1>1
<1>4. /\ Enqueued(k) /\ borders' \in [Lanes -> Int] /\ BordersDescend'
      /\ \A j \in dropped' \ dropped : \E i \in Lanes : j = k /\ laneSizes[i] + k.size > LaneBuffer
  <2>1. CASE PushDown(k)
    BY <1>1, <1>3, <2>1, PushDownOK, Parameters
  <2>2. CASE \E i \in Lanes : PushUp(i, k)
    BY <1>1, <1>3, <2>2, PushUpOK
  <2>3. QED  BY <1>1, <2>1, <2>2
<1>5. Others'
  BY <1>1, <1>2, <1>4, OthersHold DEF Others
<1>6. Refusals
  BY <1>1, <1>4 DEF Refusals
<1>7. QED  BY <1>4, <1>5, <1>6, EnqueuedInv

\* No rank of the window is smaller.
LEMMA NoneSmaller ==
  ASSUME Types, NEW k \in Packet, Slide(k.rank),
         ~\E n \in DOMAIN slidingWindow' : slidingWindow'[n] < k.rank
  PROVE  Smaller(k.rank) = 0
<1>1. DOMAIN slidingWindow' = 0 .. WindowSize - 1
  BY SlideOK, Fields
<1>2. {n \in 0 .. WindowSize - 1 : slidingWindow'[n] < k.rank} = {}
  BY <1>1
<1>3. QED  BY <1>2, FS_EmptySet DEF Smaller

LEMMA EnqueueAIFOOK ==
  ASSUME Inv, NEW k \in Packet, k.id = arrivals + 1, arrivals' = arrivals + 1,
         UNCHANGED <<disc, sent>>, EnqueueAIFO(k)
  PROVE  Inv' /\ Contract!Next /\ Refusals
<1>1. /\ disc = "aifo" /\ Slide(k.rank)
      /\ IF Admits(k) /\ Fits(0, k.size) THEN Push(0, k) ELSE Refuse(k)
      /\ UNCHANGED <<inputPointer, outputPointer, ackFifo, ackInputPointer,
                     ackOutputPointer, borders>>
  BY DEF EnqueueAIFO, pointers, acks
<1>2. Types
  BY DEF Inv
<1>3. UNCHANGED <<disc, sent, ackFifo, ackInputPointer, ackOutputPointer>>
  BY <1>1
<1>4. /\ 0 \in LanesUsed /\ LanesUsed = {0} /\ LaneBuffer = Buffer /\ Buffer \in Nat
      /\ k.size \in Nat /\ k.size > 0 /\ k.rank \in Nat /\ laneSizes[0] \in Nat
  <2>1. laneSizes[0] \in Nat
    BY <1>2, Parameters DEF Types
  <2>2. 0 \in LanesUsed /\ LanesUsed = {0} /\ LaneBuffer = Buffer
    BY <1>1, <1>2, Room DEF Types, LanesUsed
  <2>3. QED  BY <2>1, <2>2, Parameters, Fields
<1>5. /\ slidingWindow' \in [0 .. WindowSize - 1 -> Nat]
      /\ windowPointer' \in 0 .. WindowSize - 1
  BY <1>1, <1>2, <1>4, SlideOK
<1>6. Others'
  BY <1>1, <1>2, <1>5, OthersHold DEF Others
<1>7. BordersDescend'
  BY <1>1 DEF BordersDescend
<1>8. CASE Admits(k) /\ Fits(0, k.size)
  <2>1. Push(0, k)
    BY <1>1, <1>8
  <2>2. Enqueued(k) /\ dropped' = dropped
    BY <1>3, <1>4, <1>8, <2>1, PushOK DEF Push
  <2>3. Refusals
    BY <2>2 DEF Refusals
  <2>4. QED  BY <1>6, <1>7, <2>2, <2>3, EnqueuedInv
<1>9. CASE ~(Admits(k) /\ Fits(0, k.size))
  <2>1. Refuse(k)
    BY <1>1, <1>9
  <2>2. Enqueued(k) /\ dropped' = dropped \cup {k}
    BY <1>3, <2>1, RefuseOK DEF Refuse
  <2>3. ASSUME ~\E n \in DOMAIN slidingWindow' : slidingWindow'[n] < k.rank
        PROVE  laneSizes[0] + k.size > LaneBuffer
    <3>1. Smaller(k.rank) = 0
      BY <1>1, <1>2, <2>3, NoneSmaller
    <3>2. SUFFICES ASSUME laneSizes[0] + k.size <= LaneBuffer
                   PROVE  FALSE
      BY <1>4
    <3> DEFINE free == Buffer - laneSizes[0]
    <3>3. free \in Nat /\ free > 0
      BY <1>4, <3>2
    <3> HIDE DEF free
    <3>4. free * WindowSize \in Nat /\ free * WindowSize > 0
      BY <3>3, Parameters
    <3>5. 0 * Buffer * (10 - KTenths) = 0
      BY Parameters
    <3>6. Below(k.rank, free)
      BY <3>1, <3>4, <3>5 DEF Below
    <3>7. Admits(k) /\ Fits(0, k.size)
      BY <3>2, <3>6 DEF Admits, Fits, free
    <3>8. QED  BY <1>9, <3>7
  <2>4. Refusals
    BY <1>1, <1>4, <2>2, <2>3 DEF Refusals
  <2>5. QED  BY <1>6, <1>7, <2>2, <2>4, EnqueuedInv
<1>10. QED  BY <1>8, <1>9

LEMMA EnqueuePacksOK ==
  ASSUME Inv, NEW k \in Packet, k.id = arrivals + 1, arrivals' = arrivals + 1,
         UNCHANGED <<disc, sent>>, EnqueuePacks(k)
  PROVE  Inv' /\ Contract!Next /\ Refusals
<1>1. /\ disc = "packs" /\ Slide(k.rank)
      /\ \/ \E i \in Lanes : TakenBy(i, k) /\ Push(i, k)
         \/ (\A i \in Lanes : ~TakenBy(i, k)) /\ Refuse(k)
      /\ UNCHANGED <<inputPointer, outputPointer, ackFifo, ackInputPointer,
                     ackOutputPointer, borders>>
  BY DEF EnqueuePacks, pointers, acks
<1>2. Types
  BY DEF Inv
<1>3. UNCHANGED <<disc, sent, ackFifo, ackInputPointer, ackOutputPointer>>
  BY <1>1
<1>4. /\ LanesUsed = Lanes /\ LaneBuffer \in Nat /\ k.size \in Nat /\ k.rank \in Nat
      /\ \A i \in Lanes : laneSizes[i] \in Nat
  <2>1. \A i \in Lanes : laneSizes[i] \in Nat
    BY <1>2 DEF Types
  <2>2. QED  BY <1>1, <1>2, <2>1, Room, Fields DEF Types
<1>5. /\ slidingWindow' \in [0 .. WindowSize - 1 -> Nat]
      /\ windowPointer' \in 0 .. WindowSize - 1
  BY <1>1, <1>2, <1>4, SlideOK
<1>6. Others'
  BY <1>1, <1>2, <1>5, OthersHold DEF Others
<1>7. BordersDescend'
  BY <1>1 DEF BordersDescend
<1>8. ASSUME NEW i \in Lanes, TakenBy(i, k), Push(i, k)
      PROVE  Enqueued(k) /\ dropped' = dropped
  <2>1. Fits(i, k.size)
    BY <1>8 DEF TakenBy
  <2>2. QED  BY <1>3, <1>4, <1>8, <2>1, PushOK DEF Push
<1>9. CASE \E i \in Lanes : TakenBy(i, k) /\ Push(i, k)
  <2>1. Enqueued(k) /\ dropped' = dropped
    BY <1>8, <1>9
  <2>2. Refusals
    BY <2>1 DEF Refusals
  <2>3. QED  BY <1>6, <1>7, <2>1, <2>2, EnqueuedInv
<1>10. CASE (\A i \in Lanes : ~TakenBy(i, k)) /\ Refuse(k)
  <2>1. Enqueued(k) /\ dropped' = dropped \cup {k}
    BY <1>3, <1>10, RefuseOK DEF Refuse
  <2>2. ASSUME ~\E n \in DOMAIN slidingWindow' : slidingWindow'[n] < k.rank,
               NEW i \in Lanes
        PROVE  laneSizes[i] + k.size > LaneBuffer
    <3>1. Smaller(k.rank) = 0
      BY <1>1, <1>2, <2>2, NoneSmaller
    <3> DEFINE taken == Total(laneSizes, 0 .. i)
               free  == FreeUpTo(i)
               x     == LaneBuffer * (i + 1) - taken
    <3>2. taken \in Nat
      <4>1. i \in Nat /\ 0 .. i \subseteq Lanes /\ IsFiniteSet(0 .. i)
        BY Parameters, FS_Interval DEF Lanes
      <4>2. \A j \in 0 .. i : laneSizes[j] \in Nat
        BY <1>4, <4>1
      <4>3. QED  BY <4>1, <4>2, TotalType
    <3>3. x \in Int
      <4>1. i \in Nat
        BY Parameters
      <4>2. QED  BY <1>4, <3>2, <4>1
    <3>4. free = Max({0, x})
      BY DEF FreeUpTo
    <3> HIDE DEF x, free, taken
    <3>5. free \in Nat
      <4>1. \E y \in {0, x} : \A z \in {0, x} : y >= z
        BY <3>3
      <4>2. free \in {0, x} /\ \A z \in {0, x} : free >= z
        BY <3>4, <4>1 DEF Max
      <4>3. QED  BY <3>3, <4>2
    <3>6. free * WindowSize \in Nat
      BY <3>5, Parameters
    <3>7. 0 * Buffer * (10 - KTenths) = 0
      BY Parameters
    <3>8. NotAbove(k.rank, free)
      BY <3>1, <3>6, <3>7 DEF NotAbove
    <3>9. ~Fits(i, k.size)
      BY <1>10, <3>8 DEF TakenBy, free
    <3>10. QED  BY <1>4, <3>9 DEF Fits
  <2>3. Refusals
    BY <1>1, <1>4, <2>1, <2>2 DEF Refusals
  <2>4. QED  BY <1>6, <1>7, <2>1, <2>3, EnqueuedInv
<1>11. QED  BY <1>1, <1>9, <1>10

-----------------------------------------------------------------------------
(***************************************************************************)
(* The invariant                                                           *)
(***************************************************************************)
LEMMA InitOK == Init => Inv /\ Contract!Init
<1> SUFFICES ASSUME Init PROVE Inv /\ Contract!Init
  OBVIOUS
<1>1. /\ disc \in AllDiscs /\ lanes = [i \in Lanes |-> <<>>]
      /\ laneSizes = [i \in Lanes |-> 0] /\ ackFifo = <<>>
      /\ inputPointer = 0 /\ outputPointer = 0
      /\ ackInputPointer = 0 /\ ackOutputPointer = 0
      /\ borders = [i \in Lanes |-> 0]
      /\ slidingWindow = [n \in 0 .. WindowSize - 1 |-> 0] /\ windowPointer = 0
      /\ ret = [call |-> "none", packets |-> {}]
      /\ arrivals = 0 /\ sent = {} /\ dropped = {}
  BY BaselineAssumption DEF Init
<1>2. <<>> \in Seq(Packet) /\ ToSet(<<>>) = {} /\ Once(<<>>) /\ Len(<<>>) = 0
  BY DEF ToSet, Once
<1>3. Types
  <2>1. 0 \in Lanes /\ 0 \in 0 .. WindowSize - 1
    BY Parameters
  <2>2. lanes \in [Lanes -> Seq(Packet)] /\ ackFifo \in Seq(Packet)
    BY <1>1, <1>2
  <2>3. QED  BY <1>1, <2>1, <2>2 DEF Types
<1>4. (\A i \in Lanes : InLane(i) = {}) /\ ToSet(ackFifo) = {}
  BY <1>1, <1>2 DEF InLane
<1>5. Held = {}
  BY <1>4 DEF Held
<1>6. Unused
  BY <1>1 DEF Unused
<1>7. Placed
  BY <1>1, <1>2, <1>4 DEF Placed
<1>8. AckPointers
  <2>1. 0 % NumLanes = 0
    <3>1. NumLanes \in Nat \ {0} /\ 0 \in Nat /\ 0 < 2 * NumLanes /\ 0 < NumLanes
      BY Parameters
    <3>2. QED  BY <3>1, Wrap
  <2>2. QED  BY <1>1, <1>2, <2>1 DEF AckPointers
<1>9. LaneSizesExact
  <2>1. ASSUME NEW i \in Lanes
        PROVE  /\ laneSizes[i] = Bytes(InLane(i)) + Bytes(ChargedTo(i))
               /\ Bytes(InLane(i)) <= LaneBuffer
    <3>1. Bytes(InLane(i)) = 0
      BY <1>4, BytesNone
    <3>2. Bytes(ChargedTo(i)) = 0
      BY <1>1, <1>3, ChargeType DEF Types
    <3>3. LaneBuffer \in Nat
      BY <1>1, Room
    <3>4. QED  BY <1>1, <3>1, <3>2, <3>3
  <2>2. QED  BY <2>1 DEF LaneSizesExact
<1>10. Numbered
  BY <1>1, <1>5 DEF Numbered
<1>11. BordersDescend
  <2>1. \A i \in Lanes : \A j \in 0 .. i : j \in Lanes
    BY Parameters DEF Lanes
  <2>2. \A i \in Lanes : \A j \in 0 .. i : borders[j] >= borders[i]
    BY <1>1, <2>1
  <2>3. QED  BY <1>1, <2>2 DEF BordersDescend
<1>12. Contract!Init
  <2>1. (IF disc \in {"ideal", "rr"} THEN {"enqueue"} ELSE {}) \in SUBSET Contract!Calls
    BY DEF Contract!Calls
  <2>2. QED  BY <1>1, <1>5, <2>1 DEF Contract!Init, Contract!Return
<1>13. QED
  BY <1>3, <1>6, <1>7, <1>8, <1>9, <1>10, <1>11, <1>12 DEF Inv, LaneInv

LEMMA DoEnqueueOK == Inv /\ DoEnqueue => Inv' /\ Contract!Next /\ Refusals
<1> SUFFICES ASSUME Inv, DoEnqueue PROVE Inv' /\ Contract!Next /\ Refusals
  OBVIOUS
<1>1. PICK size \in Sizes, key \in Keys \cup {AckKey} :
        LET k == Labelled(arrivals + 1, key, size)
        IN  /\ Arrives(k)
            /\ \/ EnqueueIdeal(k)
               \/ EnqueueRR(k)
               \/ EnqueueAck(k)
               \/ EnqueueSPPIFO(k)
               \/ EnqueueAIFO(k)
               \/ EnqueuePacks(k)
  BY DEF DoEnqueue
<1> DEFINE k == Labelled(arrivals + 1, key, size)
<1>2. /\ k \in Packet /\ k.id = arrivals + 1
      /\ arrivals' = arrivals + 1 /\ UNCHANGED <<disc, sent>>
  BY <1>1, Arrival DEF Inv, Types
<1>3. \/ EnqueueIdeal(k)
      \/ EnqueueRR(k)
      \/ EnqueueAck(k)
      \/ EnqueueSPPIFO(k)
      \/ EnqueueAIFO(k)
      \/ EnqueuePacks(k)
  BY <1>1
<1> HIDE DEF k
<1>4. CASE EnqueueIdeal(k)
  <2>1. /\ Inv' /\ Contract!Next
        /\ \A j \in dropped' \ dropped : j.id # arrivals'
    BY <1>2, <1>4, EnqueueIdealOK
  <2>2. QED  BY <2>1 DEF Refusals
<1>5. CASE EnqueueRR(k)
  <2>1. /\ Inv' /\ Contract!Next
        /\ \A j \in dropped' \ dropped :
             j.id = arrivals' =>
               j = k /\ Bytes(ChargedTo(inputPointer)) + k.size > LaneBuffer
    BY <1>2, <1>5, EnqueueRROK
  <2>2. disc = "rr"
    BY <1>5 DEF EnqueueRR
  <2>3. QED  BY <2>1, <2>2 DEF Refusals
<1>6. CASE EnqueueAck(k)
  <2>1. /\ Inv' /\ Contract!Next
        /\ \A j \in dropped' \ dropped : j.id # arrivals'
    BY <1>2, <1>6, EnqueueAckInv
  <2>2. QED  BY <2>1 DEF Refusals
<1>7. CASE EnqueueSPPIFO(k)
  BY <1>2, <1>7, EnqueueSPPIFOOK
<1>8. CASE EnqueueAIFO(k)
  BY <1>2, <1>8, EnqueueAIFOOK
<1>9. CASE EnqueuePacks(k)
  BY <1>2, <1>9, EnqueuePacksOK
<1>10. QED  BY <1>3, <1>4, <1>5, <1>6, <1>7, <1>8, <1>9

LEMMA DoDequeueOK == Inv /\ DoDequeue => Inv' /\ Contract!Next /\ Refusals
<1> SUFFICES ASSUME Inv, DoDequeue PROVE Inv' /\ Contract!Next /\ Refusals
  OBVIOUS
<1>1. /\ DequeueAck \/ DequeueNothing \/ \E n \in Visited : DequeueLane(n)
      /\ UNCHANGED <<disc, borders, slidingWindow, windowPointer, arrivals, dropped>>
  BY DEF DoDequeue, window
<1>2. Types /\ BordersDescend
  BY DEF Inv
<1>3. UNCHANGED <<disc, arrivals, dropped>>
  BY <1>1
<1>4. /\ Dequeued
      /\ {inputPointer', outputPointer', ackInputPointer', ackOutputPointer'} \subseteq Lanes
  <2>1. {inputPointer, outputPointer, ackInputPointer, ackOutputPointer} \subseteq Lanes
    BY <1>2 DEF Types
  <2>2. CASE DequeueAck
    <3>1. UNCHANGED <<inputPointer, outputPointer, ackInputPointer>>
      BY <2>2 DEF DequeueAck, pointers
    <3>2. QED  BY <1>3, <2>1, <2>2, <3>1, DequeueAckOK
  <2>3. CASE DequeueNothing
    <3>1. UNCHANGED <<inputPointer, outputPointer, ackInputPointer, ackOutputPointer>>
      BY <2>3 DEF DequeueNothing, pointers, acks
    <3>2. QED  BY <1>3, <2>1, <2>3, <3>1, DequeueNothingOK
  <2>4. CASE \E n \in Visited : DequeueLane(n)
    <3>1. PICK n \in Visited : DequeueLane(n)
      BY <2>4
    <3>2. UNCHANGED <<inputPointer, ackInputPointer, ackOutputPointer>>
      BY <3>1 DEF DequeueLane, acks
    <3>3. QED  BY <1>3, <2>1, <3>1, <3>2, DequeueLaneOK
  <2>5. QED  BY <1>1, <2>2, <2>3, <2>4
<1>5. Types'
  <2>1. /\ disc' \in AllDiscs /\ arrivals' \in Nat /\ dropped' \subseteq Packet
        /\ borders' \in [Lanes -> Int]
        /\ slidingWindow' \in [0 .. WindowSize - 1 -> Nat]
        /\ windowPointer' \in 0 .. WindowSize - 1
    BY <1>1, <1>2 DEF Types
  <2>2. QED  BY <1>4, <2>1 DEF Types, Dequeued
<1>6. BordersDescend'
  <2>1. CASE disc # "sppifo"
    BY <1>1, <2>1 DEF BordersDescend
  <2>2. CASE disc = "sppifo"
    <3>1. ASSUME NEW i \in Lanes, lanes'[i] # <<>>
          PROVE  lanes[i] # <<>> /\ Last(lanes'[i]) = Last(lanes[i])
      <4>1. lanes[i] \in Seq(Packet) /\ lanes'[i] \in Seq(Packet)
        BY <1>2, <1>5 DEF Types
      <4>2. lanes'[i] = lanes[i] \/ (lanes[i] # <<>> /\ lanes'[i] = Tail(lanes[i]))
        BY <1>1, <1>2 DEF DequeueAck, DequeueNothing, DequeueLane, Types
      <4>3. CASE lanes'[i] = lanes[i]
        BY <3>1, <4>3
      <4>4. CASE lanes[i] # <<>> /\ lanes'[i] = Tail(lanes[i])
        <5> DEFINE s == lanes[i]
                   t == lanes'[i]
                   L == Len(s)
        <5>1. s \in Seq(Packet) /\ s # <<>> /\ t = Tail(s) /\ t # <<>>
          BY <3>1, <4>1, <4>4
        <5> HIDE DEF s, t
        <5>2. L \in Nat /\ Len(t) = L - 1 /\ Len(t) \in Nat /\ Len(t) > 0
              /\ \A m \in 1 .. Len(t) : t[m] = s[m + 1]
          BY <5>1, LenProperties, HeadTailProperties, EmptySeq
        <5>3. t[Len(t)] = s[L]
          BY <5>2
        <5>4. QED  BY <5>1, <5>3 DEF Last, s, t
      <4>5. QED  BY <4>2, <4>3, <4>4
    <3>2. \A i \in Lanes : lanes'[i] # <<>> => borders'[i] <= Last(lanes'[i]).rank
      BY <1>1, <1>2, <2>2, <3>1 DEF BordersDescend
    <3>3. \A i \in Lanes : \A j \in 0 .. i : borders'[j] >= borders'[i]
      BY <1>1, <1>2, <2>2 DEF BordersDescend
    <3>4. QED  BY <3>2, <3>3 DEF BordersDescend
  <2>3. QED  BY <2>1, <2>2
<1>7. Inv'
  BY <1>4, <1>5, <1>6 DEF Inv, Dequeued
<1>8. Contract!Next
  BY <1>4 DEF Dequeued, Contract!Next
<1>9. Refusals
  BY <1>1 DEF Refusals
<1>10. QED  BY <1>7, <1>8, <1>9

LEMMA SameOK == Inv /\ UNCHANGED vars => Inv' /\ UNCHANGED Contract!vars
<1> SUFFICES ASSUME Inv, UNCHANGED vars PROVE Inv' /\ UNCHANGED Contract!vars
  OBVIOUS
<1>1. UNCHANGED <<disc, lanes, laneSizes, inputPointer, outputPointer, ackFifo,
                  ackInputPointer, ackOutputPointer, borders, slidingWindow,
                  windowPointer, ret, arrivals, sent, dropped>>
  BY DEF vars, pointers, acks, window
<1>2. LaneInv' /\ Held' = Held
  BY <1>1, LanesSame DEF Inv
<1>3. Types' /\ BordersDescend'
  BY <1>1 DEF Inv, Types, BordersDescend
<1>4. Numbered'
  BY <1>1, <1>2 DEF Inv, Numbered
<1>5. UNCHANGED Contract!vars
  BY <1>1, <1>2 DEF Contract!vars
<1>6. QED  BY <1>2, <1>3, <1>4, <1>5 DEF Inv

LEMMA StepOK ==
  Inv /\ [Next]_vars => Inv' /\ [Contract!Next]_(Contract!vars) /\ [Refusals]_vars
BY DoEnqueueOK, DoDequeueOK, SameOK DEF Next

-----------------------------------------------------------------------------
(***************************************************************************)
(* The order of the two PIFOs                                              *)
(***************************************************************************)
\* No packet comes before a better one.
Ordered(s) == \A m, n \in 1 .. Len(s) : m < n => ~Before(s[n], s[m])

PifosOrdered == disc \in {"ideal", "rr"} => \A i \in Lanes : Ordered(lanes[i])

\* A packet that leaves for the link has no better one beside it in its lane, and
\* one that is evicted is no better than any that stays.
BestLeaves ==
  disc \in {"ideal", "rr"} =>
    \A i \in Lanes :
      /\ \A k \in InLane(i) \cap (sent' \ sent) : \A j \in InLane(i) : ~Before(j, k)
      /\ \A k \in InLane(i) \cap (dropped' \ dropped) :
           \A j \in InLane(i) \cap ToSet(lanes'[i]) : ~Before(k, j)

\* Before is a strict weak order.
LEMMA BeforeOrder ==
  ASSUME NEW j \in Packet, NEW k \in Packet, NEW l \in Packet
  PROVE  /\ ~Before(k, k)
         /\ Before(j, k) => ~Before(k, j)
         /\ Before(j, k) /\ ~Before(l, k) => Before(j, l)
<1>1. /\ j.rank \in Nat /\ j.time \in Nat /\ k.rank \in Nat /\ k.time \in Nat
      /\ l.rank \in Nat /\ l.time \in Nat
  BY Fields
<1>2. QED  BY <1>1 DEF Before

\* A multiset inserts where the order wants it.
LEMMA InsertOrdered ==
  ASSUME NEW s \in Seq(Packet), Ordered(s), NEW k \in Packet
  PROVE  Ordered(Inserted(s, k))
<1> DEFINE L     == Len(s)
           after == {n \in 1 .. L : Before(k, s[n])}
           p     == Min(after \cup {L + 1})
           t     == Inserted(s, k)
           front == SubSeq(s, 1, p - 1)
           back  == SubSeq(s, p, L)
           one   == <<k>>
<1>1. L \in Nat /\ \A m \in 1 .. L : s[m] \in Packet
  BY LenProperties
<1>2. p \in after \cup {L + 1} /\ \A m \in after : p <= m
  <2>1. after \cup {L + 1} \subseteq Nat
    BY <1>1
  <2>2. \E x \in after \cup {L + 1} : \A y \in after \cup {L + 1} : x <= y
    BY <2>1, LeastNatural
  <2>3. QED  BY <2>2 DEF Min
<1>3. t = front \o one \o back
  BY DEF Inserted, InsertAt
<1>4. p \in 1 .. L + 1 /\ (p <= L => Before(k, s[p]))
      /\ \A m \in 1 .. L : m < p => ~Before(k, s[m])
  <2> HIDE DEF p, L
  <2>1. p \in 1 .. L + 1 /\ (p <= L => Before(k, s[p]))
    BY <1>1, <1>2
  <2>2. \A m \in 1 .. L : m < p => m \notin after
    <3> HIDE DEF after
    <3>1. \A m \in after : ~(m < p)
      <4>1. \A m \in after : m \in Nat
        BY <1>1 DEF after
      <4>2. QED  BY <1>2, <2>1, <1>1, <4>1
    <3>2. QED  BY <3>1
  <2>3. QED  BY <2>1, <2>2
<1> HIDE DEF p, L, t
<1>5. /\ front \in Seq(Packet) /\ Len(front) = p - 1
      /\ \A m \in 1 .. p - 1 : front[m] = s[m]
  <2> DEFINE b == p - 1
  <2>1. b \in Int /\ b \in 0 .. L /\ \A m \in 1 .. b : s[m] \in Packet
    BY <1>1, <1>4
  <2>2. p - 1 = b
    OBVIOUS
  <2> HIDE DEF b
  <2>3. /\ SubSeq(s, 1, b) \in Seq(Packet)
        /\ Len(SubSeq(s, 1, b)) = IF 1 <= b THEN b - 1 + 1 ELSE 0
        /\ \A m \in 1 .. b - 1 + 1 : SubSeq(s, 1, b)[m] = s[1 + m - 1]
    BY <2>1, SubSeqProperties
  <2>4. QED  BY <2>1, <2>2, <2>3
<1>6. /\ back \in Seq(Packet) /\ Len(back) = L - p + 1
      /\ \A m \in 1 .. L - p + 1 : back[m] = s[p + m - 1]
  <2>1. p \in Int /\ L \in Int /\ \A m \in p .. L : s[m] \in Packet
    BY <1>1, <1>4
  <2>2. /\ SubSeq(s, p, L) \in Seq(Packet)
        /\ Len(SubSeq(s, p, L)) = IF p <= L THEN L - p + 1 ELSE 0
        /\ \A m \in 1 .. L - p + 1 : SubSeq(s, p, L)[m] = s[p + m - 1]
    BY <2>1, SubSeqProperties
  <2>3. QED  BY <1>1, <1>4, <2>2
<1> HIDE DEF front, back
<1>7. one \in Seq(Packet) /\ Len(one) = 1 /\ one[1] = k
  OBVIOUS
<1> HIDE DEF one
<1> DEFINE most == front \o one
<1>8. /\ most \in Seq(Packet) /\ Len(most) = p /\ most[p] = k
      /\ \A m \in 1 .. p - 1 : most[m] = s[m]
  <2>1. /\ most \in Seq(Packet) /\ Len(most) = Len(front) + Len(one)
        /\ \A m \in 1 .. Len(front) + Len(one) :
             most[m] = IF m <= Len(front) THEN front[m] ELSE one[m - Len(front)]
    BY <1>5, <1>7, ConcatProperties
  <2> HIDE DEF most
  <2>2. QED  BY <1>4, <1>1, <1>5, <1>7, <2>1
<1> HIDE DEF most
<1>9. /\ Len(t) = L + 1 /\ t[p] = k
      /\ \A m \in 1 .. p - 1 : t[m] = s[m]
      /\ \A m \in p + 1 .. L + 1 : t[m] = s[m - 1]
  <2>1. t = most \o back
    BY <1>3 DEF most
  <2>2. /\ Len(t) = Len(most) + Len(back)
        /\ \A m \in 1 .. Len(most) + Len(back) :
             t[m] = IF m <= Len(most) THEN most[m] ELSE back[m - Len(most)]
    BY <1>6, <1>8, <2>1, ConcatProperties
  <2>3. \A m \in p + 1 .. L + 1 : m - p \in 1 .. L - p + 1 /\ p + (m - p) - 1 = m - 1
    BY <1>1, <1>4
  <2>4. Len(t) = L + 1 /\ Len(most) = p /\ Len(back) = L - p + 1
    BY <1>1, <1>4, <1>6, <1>8, <2>2
  <2>5. \A m \in 1 .. p : t[m] = most[m]
    BY <1>1, <1>4, <2>2, <2>4
  <2>6. \A m \in p + 1 .. L + 1 : t[m] = back[m - p]
    BY <1>1, <1>4, <2>2, <2>4
  <2>7. \A m \in p + 1 .. L + 1 : t[m] = s[m - 1]
    BY <1>6, <2>3, <2>6
  <2>8. QED  BY <1>4, <1>8, <2>4, <2>5, <2>7
<1>10. \A m \in p .. L : ~Before(s[m], k)
  <2> SUFFICES ASSUME NEW m \in p .. L PROVE ~Before(s[m], k)
    OBVIOUS
  <2>1. m \in 1 .. L /\ p \in 1 .. L /\ s[m] \in Packet /\ s[p] \in Packet /\ Before(k, s[p])
    BY <1>1, <1>4
  <2>2. ~Before(s[m], s[p])
    <3>1. CASE m = p
      BY <2>1, <3>1, BeforeOrder
    <3>2. CASE m # p
      BY <2>1, <3>2 DEF Ordered, L
    <3>3. QED  BY <3>1, <3>2
  <2>3. Before(k, s[m])
    BY <2>1, <2>2, BeforeOrder
  <2>4. QED  BY <2>1, <2>3, BeforeOrder
<1>11. \A m, n \in 1 .. L : m < n => ~Before(s[n], s[m])
  BY DEF Ordered, L
<1>12. ASSUME NEW m \in 1 .. L + 1, NEW n \in 1 .. L + 1, m < n
       PROVE  ~Before(t[n], t[m])
  <2>1. CASE n < p
    BY <1>1, <1>4, <1>9, <1>11, <1>12, <2>1
  <2>2. CASE n = p
    <3>1. t[n] = k /\ t[m] = s[m] /\ m \in 1 .. L /\ m < p
      BY <1>1, <1>4, <1>9, <1>12, <2>2
    <3>2. QED  BY <1>4, <3>1
  <2>3. CASE n > p /\ m < p
    <3>1. t[n] = s[n - 1] /\ t[m] = s[m] /\ m \in 1 .. L /\ n - 1 \in 1 .. L /\ m < n - 1
      BY <1>1, <1>4, <1>9, <1>12, <2>3
    <3>2. QED  BY <1>11, <3>1
  <2>4. CASE n > p /\ m = p
    <3>1. t[n] = s[n - 1] /\ t[m] = k /\ n - 1 \in p .. L
      BY <1>1, <1>4, <1>9, <1>12, <2>4
    <3>2. QED  BY <1>10, <3>1
  <2>5. CASE n > p /\ m > p
    <3>1. /\ t[n] = s[n - 1] /\ t[m] = s[m - 1]
          /\ m - 1 \in 1 .. L /\ n - 1 \in 1 .. L /\ m - 1 < n - 1
      BY <1>1, <1>4, <1>9, <1>12, <2>5
    <3>2. QED  BY <1>11, <3>1
  <2>6. QED  BY <1>4, <2>1, <2>2, <2>3, <2>4, <2>5
<1>13. QED  BY <1>9, <1>12 DEF Ordered, t

\* The front of an ordered lane is ordered, and the rest is no better.
LEMMA FrontOrdered ==
  ASSUME NEW s \in Seq(Packet), Ordered(s), NEW n \in 0 .. Len(s)
  PROVE  /\ Ordered(SubSeq(s, 1, n))
         /\ \A j \in ToSet(SubSeq(s, 1, n)), k \in ToSet(SubSeq(s, n + 1, Len(s))) :
              ~Before(k, j)
<1> DEFINE L     == Len(s)
           front == SubSeq(s, 1, n)
           back  == SubSeq(s, n + 1, L)
<1>1. L \in Nat /\ n \in Nat /\ n <= L /\ \A m \in 1 .. L : s[m] \in Packet
  BY LenProperties
<1> HIDE DEF L
<1>2. /\ front \in Seq(Packet) /\ Len(front) = n
      /\ \A m \in 1 .. n : front[m] = s[m]
  <2>1. /\ SubSeq(s, 1, n) \in Seq(Packet)
        /\ Len(SubSeq(s, 1, n)) = IF 1 <= n THEN n - 1 + 1 ELSE 0
        /\ \A m \in 1 .. n - 1 + 1 : SubSeq(s, 1, n)[m] = s[1 + m - 1]
    BY <1>1, SubSeqProperties
  <2>2. QED  BY <1>1, <2>1
<1>3. /\ back \in Seq(Packet) /\ Len(back) = L - n
      /\ \A m \in 1 .. L - n : back[m] = s[n + m]
  <2> DEFINE b == n + 1
  <2>1. b \in Int /\ L \in Int /\ \A m \in b .. L : s[m] \in Packet
    BY <1>1
  <2>2. back = SubSeq(s, b, L)
    OBVIOUS
  <2>3. b = n + 1
    OBVIOUS
  <2> HIDE DEF b
  <2>4. /\ SubSeq(s, b, L) \in Seq(Packet)
        /\ Len(SubSeq(s, b, L)) = IF b <= L THEN L - b + 1 ELSE 0
        /\ \A m \in 1 .. L - b + 1 : SubSeq(s, b, L)[m] = s[b + m - 1]
    BY <2>1, SubSeqProperties
  <2> HIDE DEF back
  <2>5. Len(back) = L - n
    BY <1>1, <2>2, <2>3, <2>4
  <2>6. ASSUME NEW m \in 1 .. L - n PROVE back[m] = s[n + m]
    <3>1. m \in 1 .. L - b + 1 /\ b + m - 1 = n + m
      BY <1>1, <2>3
    <3>2. QED  BY <2>2, <2>4, <3>1
  <2>7. QED  BY <2>2, <2>4, <2>5, <2>6
<1> HIDE DEF front, back
<1>4. \A m, o \in 1 .. L : m < o => ~Before(s[o], s[m])
  BY DEF Ordered, L
<1>5. Ordered(front)
  BY <1>1, <1>2, <1>4 DEF Ordered
<1>6. ASSUME NEW j \in ToSet(front), NEW k \in ToSet(back)
      PROVE  ~Before(k, j)
  <2>1. PICK m \in 1 .. n : j = front[m]
    BY <1>2, ToSetType
  <2>2. PICK o \in 1 .. L - n : k = back[o]
    BY <1>3, ToSetType
  <2>3. j = s[m] /\ k = s[n + o] /\ m \in 1 .. L /\ n + o \in 1 .. L /\ m < n + o
    BY <1>1, <1>2, <1>3, <2>1, <2>2
  <2>4. QED  BY <1>4, <2>3
<1>7. QED  BY <1>5, <1>6 DEF front, back, L

\* The first packet of an ordered lane is the best, and the others stay ordered.
LEMMA TailOrdered ==
  ASSUME NEW s \in Seq(Packet), Ordered(s), s # <<>>
  PROVE  Ordered(Tail(s)) /\ \A j \in ToSet(s) : ~Before(j, Head(s))
<1> DEFINE L == Len(s)
           t == Tail(s)
<1>1. /\ L \in Nat /\ L > 0 /\ Len(t) = L - 1 /\ Head(s) = s[1]
      /\ \A m \in 1 .. L - 1 : t[m] = s[m + 1]
      /\ \A m \in 1 .. L : s[m] \in Packet
  BY LenProperties, HeadTailProperties, EmptySeq
<1> HIDE DEF L, t
<1>2. \A m, n \in 1 .. L : m < n => ~Before(s[n], s[m])
  BY DEF Ordered, L
<1>3. Ordered(t)
  BY <1>1, <1>2 DEF Ordered
<1>4. ASSUME NEW j \in ToSet(s) PROVE ~Before(j, s[1])
  <2>1. PICK m \in 1 .. L : j = s[m]
    BY ToSetType DEF L
  <2>2. CASE m = 1
    BY <1>1, <2>1, <2>2, BeforeOrder
  <2>3. CASE m # 1
    BY <1>1, <1>2, <2>1, <2>3
  <2>4. QED  BY <2>2, <2>3
<1>5. QED  BY <1>1, <1>3, <1>4 DEF t

\* How many packets a lane keeps.
LEMMA KeptRange ==
  ASSUME Types, NEW i \in Lanes, NEW size \in Nat
  PROVE  NumKept(i, size) \in 0 .. Len(lanes[i])
<1> DEFINE Left(n) == laneSizes[i] - Bytes(ToSet(SubSeq(lanes[i], n + 1, Len(lanes[i]))))
           fitting == {n \in 1 .. Len(lanes[i]) : Left(n) + size <= LaneBuffer}
           L       == Len(lanes[i])
<1>1. L \in Nat
  BY LenProperties DEF Types
<1>2. NumKept(i, size) = Max({0} \cup fitting)
  BY DEF NumKept
<1>3. fitting \subseteq 1 .. L
  OBVIOUS
<1> HIDE DEF fitting, L
<1>4. {0} \cup fitting \subseteq 0 .. L /\ {0} \cup fitting # {}
  BY <1>1, <1>3
<1>5. Max({0} \cup fitting) \in {0} \cup fitting
  BY <1>1, <1>4, MaxFound
<1>6. QED  BY <1>2, <1>4, <1>5 DEF L

\* The worst packets make room, and the new one goes where it belongs.
LEMMA EnqueueOrdered ==
  ASSUME Inv, PifosOrdered, disc \in {"ideal", "rr"}, UNCHANGED <<disc, sent>>,
         NEW i \in LanesUsed, NEW k \in Packet, k.id = arrivals + 1, EnqueuePifo(i, k)
  PROVE  PifosOrdered' /\ BestLeaves
<1> DEFINE n    == NumKept(i, k.size)
           kept == SubSeq(lanes[i], 1, n)
           lost == ToSet(SubSeq(lanes[i], n + 1, Len(lanes[i])))
           new  == lanes'[i]
<1>1. Types /\ Placed /\ LaneSizesExact /\ Numbered
  BY DEF Inv, LaneInv
<1>2. /\ i \in Lanes /\ k.size \in Nat /\ lanes \in [Lanes -> Seq(Packet)]
      /\ lanes[i] \in Seq(Packet) /\ Ordered(lanes[i])
  BY <1>1, Room, Fields DEF Types, PifosOrdered
<1>3. /\ kept \in Seq(Packet) /\ Once(kept)
      /\ InLane(i) = ToSet(kept) \cup lost
  BY <1>1, <1>2, Evicted
<1>4. /\ Ordered(kept)
      /\ \A y \in ToSet(kept), x \in lost : ~Before(x, y)
  <2>1. n \in 0 .. Len(lanes[i])
    BY <1>1, <1>2, KeptRange
  <2> HIDE DEF n
  <2>2. QED  BY <1>2, <2>1, FrontOrdered
<1>5. /\ new = kept \/ new = Inserted(kept, k)
      /\ \A j \in Lanes \ {i} : lanes'[j] = lanes[j]
      /\ dropped' \ dropped \subseteq lost \cup {k}
  BY <1>2 DEF EnqueuePifo
<1> HIDE DEF kept, lost, n
<1>6. k \notin Held /\ \A j \in Lanes : InLane(j) \subseteq Held
  BY <1>1, Newcomer, HeldParts
<1>7. Ordered(new) /\ ToSet(new) \subseteq ToSet(kept) \cup {k}
  <2>1. k \notin ToSet(kept)
    BY <1>2, <1>3, <1>6
  <2>2. Ordered(Inserted(kept, k)) /\ ToSet(Inserted(kept, k)) = ToSet(kept) \cup {k}
    BY <1>3, <1>4, <2>1, InsertOrdered, InsertSet
  <2> HIDE DEF new
  <2>3. QED  BY <1>4, <1>5, <2>2
<1>8. PifosOrdered'
  <2>1. \A j \in Lanes : Ordered(lanes'[j])
    BY <1>5, <1>7 DEF PifosOrdered
  <2>2. QED  BY <2>1 DEF PifosOrdered
<1>9. ASSUME NEW j \in Lanes, NEW x \in InLane(j) \cap (dropped' \ dropped),
             NEW y \in InLane(j) \cap ToSet(lanes'[j])
      PROVE  ~Before(x, y)
  <2>1. x \in lost /\ y # k
    BY <1>5, <1>6, <1>9
  <2>2. x \in InLane(i)
    BY <1>3, <2>1
  <2>3. j = i
    BY <1>1, <1>2, <1>9, <2>2 DEF Placed
  <2>4. y \in ToSet(kept)
    BY <1>7, <1>9, <2>1, <2>3
  <2>5. QED  BY <1>4, <2>1, <2>4
<1>10. QED  BY <1>8, <1>9 DEF BestLeaves

\* The first packet of a lane leaves.
LEMMA DequeueOrdered ==
  ASSUME Inv, PifosOrdered, disc \in {"ideal", "rr"}, UNCHANGED <<disc, dropped>>,
         NEW n \in Visited, DequeueLane(n)
  PROVE  PifosOrdered' /\ BestLeaves
<1> DEFINE i == Turn(n)
<1>1. Types /\ Placed
  BY DEF Inv, LaneInv
<1>2. i \in Lanes
  BY <1>1, TurnInside
<1>3. /\ lanes[i] # <<>> /\ lanes' = [lanes EXCEPT ![i] = Tail(lanes[i])]
      /\ sent' = sent \cup {Head(lanes[i])}
  BY DEF DequeueLane
<1> HIDE DEF i
<1>4. /\ lanes \in [Lanes -> Seq(Packet)] /\ lanes[i] \in Seq(Packet)
      /\ \A j \in Lanes : Ordered(lanes[j])
  BY <1>1, <1>2 DEF Types, PifosOrdered
<1>5. Ordered(Tail(lanes[i])) /\ \A j \in InLane(i) : ~Before(j, Head(lanes[i]))
  BY <1>2, <1>3, <1>4, TailOrdered DEF InLane
<1>6. Head(lanes[i]) \in InLane(i)
  <2> DEFINE s == lanes[i]
  <2>1. s \in Seq(Packet) /\ s # <<>>
    BY <1>3, <1>4
  <2> HIDE DEF s
  <2>2. Head(s) = s[1] /\ Len(s) \in Nat /\ Len(s) > 0
    BY <2>1, LenProperties, EmptySeq
  <2>3. Head(s) \in ToSet(s)
    BY <2>1, <2>2, ToSetType
  <2>4. QED  BY <2>3 DEF InLane, s
<1>7. \A j \in Lanes : Ordered(lanes'[j])
  BY <1>2, <1>3, <1>4, <1>5
<1>8. ASSUME NEW j \in Lanes, NEW x \in InLane(j) \cap (sent' \ sent), NEW y \in InLane(j)
      PROVE  ~Before(y, x)
  <2>1. x = Head(lanes[i]) /\ j = i
    BY <1>1, <1>2, <1>3, <1>6, <1>8 DEF Placed
  <2>2. QED  BY <1>5, <1>8, <2>1
<1>9. QED  BY <1>7, <1>8 DEF PifosOrdered, BestLeaves

\* A call that changes no lane, drops nothing and sends nothing from a lane
LEMMA LanesRest ==
  ASSUME PifosOrdered, UNCHANGED <<disc, lanes, dropped>>,
         \A i \in Lanes : InLane(i) \cap (sent' \ sent) = {}
  PROVE  PifosOrdered' /\ BestLeaves
<1>1. PifosOrdered'
  BY DEF PifosOrdered
<1>2. QED  BY <1>1 DEF BestLeaves

LEMMA OrderedStep == Inv /\ PifosOrdered /\ [Next]_vars => PifosOrdered' /\ [BestLeaves]_vars
<1> SUFFICES ASSUME Inv, PifosOrdered, [Next]_vars PROVE PifosOrdered' /\ [BestLeaves]_vars
  OBVIOUS
<1>1. Types /\ Placed
  BY DEF Inv, LaneInv
<1>2. CASE disc' = disc /\ disc \notin {"ideal", "rr"}
  BY <1>2 DEF PifosOrdered, BestLeaves
<1>3. CASE DoEnqueue /\ disc \in {"ideal", "rr"}
  <2>1. PICK size \in Sizes, key \in Keys \cup {AckKey} :
          LET k == Labelled(arrivals + 1, key, size)
          IN  /\ Arrives(k)
              /\ EnqueueIdeal(k) \/ EnqueueRR(k) \/ EnqueueAck(k)
    BY <1>3 DEF DoEnqueue, EnqueueSPPIFO, EnqueueAIFO, EnqueuePacks
  <2> DEFINE k == Labelled(arrivals + 1, key, size)
  <2>2. k \in Packet /\ k.id = arrivals + 1 /\ UNCHANGED <<disc, sent>>
    BY <1>1, <2>1, Arrival DEF Types
  <2>3. EnqueueIdeal(k) \/ EnqueueRR(k) \/ EnqueueAck(k)
    BY <2>1
  <2> HIDE DEF k
  <2>4. CASE EnqueueIdeal(k)
    <3>1. 0 \in LanesUsed /\ EnqueuePifo(0, k)
      BY <1>1, <2>4, Room DEF Types, EnqueueIdeal
    <3>2. QED  BY <1>3, <2>2, <3>1, EnqueueOrdered
  <2>5. CASE EnqueueRR(k)
    <3>1. inputPointer \in LanesUsed /\ EnqueuePifo(inputPointer, k)
      BY <1>1, <2>5, Room DEF Types, EnqueueRR
    <3>2. QED  BY <1>3, <2>2, <3>1, EnqueueOrdered
  <2>6. CASE EnqueueAck(k)
    <3>1. UNCHANGED <<disc, lanes, dropped, sent>>
      BY <2>2, <2>6 DEF EnqueueAck
    <3>2. QED  BY <3>1, LanesRest
  <2>7. QED  BY <2>3, <2>4, <2>5, <2>6
<1>4. CASE DoDequeue /\ disc \in {"ideal", "rr"}
  <2>1. UNCHANGED <<disc, dropped>>
    BY <1>4 DEF DoDequeue
  <2>2. CASE DequeueAck
    <3>1. lanes' = lanes /\ sent' = sent \cup {Head(ackFifo)} /\ ackFifo # <<>>
      BY <2>2 DEF DequeueAck
    <3>2. Head(ackFifo) \in ToSet(ackFifo)
      <4>1. ackFifo \in Seq(Packet)
        BY <1>1 DEF Types
      <4>2. Head(ackFifo) = ackFifo[1] /\ Len(ackFifo) \in Nat /\ Len(ackFifo) > 0
        BY <3>1, <4>1, LenProperties, EmptySeq
      <4>3. QED  BY <4>1, <4>2, ToSetType
    <3>3. \A i \in Lanes : InLane(i) \cap (sent' \ sent) = {}
      BY <1>1, <3>1, <3>2 DEF Placed
    <3>4. QED  BY <2>1, <3>1, <3>3, LanesRest
  <2>3. CASE DequeueNothing
    <3>1. lanes' = lanes /\ sent' = sent
      BY <2>3 DEF DequeueNothing
    <3>2. QED  BY <2>1, <3>1, LanesRest
  <2>4. CASE \E n \in Visited : DequeueLane(n)
    BY <1>4, <2>1, <2>4, DequeueOrdered
  <2>5. QED  BY <1>4, <2>2, <2>3, <2>4 DEF DoDequeue
<1>5. CASE UNCHANGED vars
  <2>1. UNCHANGED <<disc, lanes, dropped, sent>>
    BY <1>5 DEF vars
  <2>2. QED  BY <2>1, LanesRest
<1>6. Next => disc' = disc
  BY DEF Next, DoEnqueue, DoDequeue, Arrives
<1>7. QED  BY <1>2, <1>3, <1>4, <1>5, <1>6 DEF Next

-----------------------------------------------------------------------------
(***************************************************************************)
(* Theorems                                                                *)
(***************************************************************************)

\* The inductive invariant.
THEOREM Invariance == Spec => []Inv
<1>1. Init => Inv
  BY InitOK
<1>2. Inv /\ [Next]_vars => Inv'
  BY StepOK
<1>3. QED  BY <1>1, <1>2, PTL DEF Spec

\* The counters of the five queue discs are the bytes of their lanes and of the
\* acknowledgements charged to them, and no lane holds more than its buffer.
THEOREM SizesExact == Spec => []LaneSizesExact
<1>1. Inv => LaneSizesExact
  BY DEF Inv, LaneInv
<1>2. QED  BY <1>1, Invariance, PTL

\* The borders of SPPIFOScheduler descend, and none is above the rank that was
\* last let into its FIFO.
THEOREM BordersStayDescending == Spec => []BordersDescend
<1>1. Inv => BordersDescend
  BY DEF Inv
<1>2. QED  BY <1>1, Invariance, PTL

\* The five DoEnqueue refuse a packet only for want of room.
THEOREM RefusesForRoom == Spec => RefusedOnlyForRoom
<1>1. Inv /\ [Next]_vars => [Refusals]_vars
  BY StepOK
<1>2. QED  BY <1>1, Invariance, PTL DEF Spec, RefusedOnlyForRoom, Refusals

\* The five queue discs keep the contract of WorkConservingQueue.
THEOREM KeepsContract == Spec => ImplementsQueue
<1>1. Init => Contract!Init
  BY InitOK
<1>2. Inv /\ [Next]_vars => [Contract!Next]_(Contract!vars)
  BY StepOK
<1>3. QED  BY <1>1, <1>2, Invariance, PTL DEF Spec, ImplementsQueue, Contract!Spec

\* What makes the ideal PIFO and RRInterleaving PIFOs: the packet that DoDequeue
\* sends is the best of its lane, and those DoEnqueue evicts are the worst.
THEOREM BestFirst == Spec => [][BestLeaves]_vars
<1>1. Init => PifosOrdered
  <2>1. ASSUME Init, NEW i \in Lanes PROVE Ordered(lanes[i])
    BY <2>1 DEF Init, Ordered
  <2>2. QED  BY <2>1 DEF PifosOrdered
<1>2. Inv /\ PifosOrdered /\ [Next]_vars => PifosOrdered' /\ [BestLeaves]_vars
  BY OrderedStep
<1>3. QED  BY <1>1, <1>2, Invariance, PTL DEF Spec
=============================================================================
