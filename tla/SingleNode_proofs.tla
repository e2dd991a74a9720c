--------------------------- MODULE SingleNode_proofs ---------------------------
(***************************************************************************)
(* Proofs about module SingleNode.  The invariant adds to ListsAgree that  *)
(* no packet is in two places and that the packets have different numbers, *)
(* none above those given out: only then is what a lane loses what the     *)
(* SortedList loses, and a packet that is put in one that was not there.   *)
(***************************************************************************)
EXTENDS SingleNode, Totals_proofs, SequenceTheorems

Packet == [id : Nat, rank : Ranks, size : Sizes]

Types ==
  /\ disc \in AllDiscs
  /\ lanes \in [Lane -> Seq(Packet)]
  /\ pifos \in [Lane -> SUBSET Packet] /\ \A i \in Lane : IsFiniteSet(pifos[i])
  /\ sizes \in [Lane -> Int] /\ pifoSizes \in [Lane -> Int]
  /\ ready \in Seq(Packet)

Pointers ==
  /\ {inputPointer, outputPointer} \subseteq 0 .. NumLanes - 1
  /\ ts \in Nat /\ inputCount \in Nat

InLane(i) == ToSet(lanes[i]) \cup pifos[i]

\* No packet is in two places.
Placed ==
  /\ \A i \in Lane : /\ Once(lanes[i]) /\ ToSet(lanes[i]) \cap pifos[i] = {}
                     /\ InLane(i) \cap ToSet(ready) = {}
  /\ \A i, j \in Lane : i # j => InLane(i) \cap InLane(j) = {}
  /\ Once(ready)
  /\ disc = "wfqpcq" => \A i \in Lane : pifos[i] = {}

Numbered ==
  /\ \A k \in queue : k.id <= inputCount
  /\ \A j, k \in queue : j.id = k.id => j = k

Stored == Types /\ Placed /\ ListsAgree

Drained == state = "end" => IsEmpty

\* What came out and what is still there came in.
Accounted == outputCount \in Nat /\ outputCount + Cardinality(queue) <= inputCount

Inv == Stored /\ Pointers /\ Numbered /\ Drained /\ Accounted

-----------------------------------------------------------------------------
(***************************************************************************)
(* The parameters, and what is in the lanes                                *)
(***************************************************************************)
LEMMA Fields == \A k \in Packet : k.id \in Nat /\ k.rank \in Ranks /\ k.rank \in Nat
                                  /\ k.size \in Sizes /\ k.size \in Nat /\ k.size <= LaneBuffer
<1> SUFFICES ASSUME NEW k \in Packet
             PROVE  k.id \in Nat /\ k.rank \in Ranks /\ k.size \in Sizes
                    /\ k.rank \in Nat /\ k.size \in Nat /\ k.size <= LaneBuffer
  OBVIOUS
<1>1. k.id \in Nat /\ k.rank \in Ranks /\ k.size \in Sizes
  BY DEF Packet
<1>2. k.rank \in Nat /\ k.size \in 1 .. LaneBuffer /\ LaneBuffer \in Nat
  BY <1>1, SingleNodeAssumption
<1>3. QED  BY <1>1, <1>2

LEMMA Parameters ==
  /\ NumLanes \in Nat \ {0} /\ NumLevels \in Nat \ {0} /\ WindowSize \in Nat \ {0}
  /\ RefillBatch \in Nat \ {0} /\ LaneBuffer \in Nat
BY SingleNodeAssumption

\* The lanes of each scheduler.
LEMMA LaneRange ==
  /\ IsFiniteSet(Lane) /\ 0 \in Lane
  /\ disc \in AllDiscs \ {"gearbox", "ideal", "aifo"} => Lane = 0 .. NumLanes - 1
  /\ disc = "gearbox" => Lane = 0 .. NumLanes * NumLevels - 1
<1> DEFINE n == IF disc = "gearbox" THEN NumLanes * NumLevels
                ELSE IF disc \in {"ideal", "aifo"} THEN 1 ELSE NumLanes
<1>1. NumLanes * NumLevels \in Nat /\ NumLanes * NumLevels > 0
  <2> DEFINE x == NumLanes
             y == NumLevels
  <2>1. x \in Nat /\ x > 0 /\ y \in Nat /\ y > 0
    BY Parameters
  <2> HIDE DEF x, y
  <2>2. x * y \in Nat /\ x * y > 0
    BY <2>1
  <2>3. QED  BY <2>2 DEF x, y
<1>2. n \in Nat /\ n > 0
  BY <1>1, Parameters
<1>3. Lane = 0 .. n - 1
  BY DEF Lane
<1> HIDE DEF n
<1>4. IsFiniteSet(0 .. n - 1) /\ 0 \in 0 .. n - 1
  BY <1>2, FS_Interval
<1>5. /\ disc \in AllDiscs \ {"gearbox", "ideal", "aifo"} => n = NumLanes
      /\ disc = "gearbox" => n = NumLanes * NumLevels
  BY DEF n
<1>6. QED  BY <1>3, <1>4, <1>5

LEMMA QueueBytes ==
  ASSUME NEW s \in Seq(Packet)
  PROVE  /\ ToSet(s) \subseteq Packet /\ IsFiniteSet(ToSet(s)) /\ Bytes(ToSet(s)) \in Nat
         /\ \A k \in ToSet(s) : k.size \in Nat
<1>1. ToSet(s) \subseteq Packet /\ IsFiniteSet(ToSet(s))
  BY ToSetType
<1>2. \A k \in ToSet(s) : k.size \in Nat
  BY <1>1, Fields
<1>3. QED  BY <1>1, <1>2, BytesNatural

LEMMA PacketBytes ==
  ASSUME NEW S, S \subseteq Packet, IsFiniteSet(S)
  PROVE  Bytes(S) \in Nat /\ \A k \in S : k.size \in Nat
<1>1. \A k \in S : k.size \in Nat
  BY Fields
<1>2. QED  BY <1>1, BytesNatural

\* A packet adds its size, and takes it along.
LEMMA BytesMore ==
  ASSUME NEW S, S \subseteq Packet, IsFiniteSet(S), NEW k \in Packet, k \notin S
  PROVE  Bytes(S \cup {k}) = Bytes(S) + k.size
<1>1. \A j \in S \cup {k} : j.size \in Nat
  BY Fields
<1>2. IsFiniteSet({k}) /\ S \cap {k} = {}
  BY FS_Singleton
<1>3. Bytes(S \cup {k}) = Bytes(S) + Bytes({k})
  BY <1>1, <1>2, BytesAdd
<1>4. QED  BY <1>1, <1>3, BytesOfOne

LEMMA BytesLess ==
  ASSUME NEW S, S \subseteq Packet, IsFiniteSet(S), NEW k \in S
  PROVE  IsFiniteSet(S \ {k}) /\ Bytes(S \ {k}) = Bytes(S) - k.size
<1> DEFINE T == S \ {k}
<1>1. IsFiniteSet(T) /\ T \subseteq Packet /\ k \in Packet /\ k \notin T /\ T \cup {k} = S
  BY FS_RemoveElement
<1> HIDE DEF T
<1>2. Bytes(S) = Bytes(T) + k.size
  BY <1>1, BytesMore
<1>3. Bytes(T) \in Nat /\ k.size \in Nat
  BY <1>1, PacketBytes, Fields
<1>4. QED  BY <1>1, <1>2, <1>3 DEF T

\* Everything stored is a finite set of packets.
LEMMA StoreParts ==
  ASSUME Types
  PROVE  /\ \A i \in Lane : /\ ToSet(lanes[i]) \subseteq Packet /\ pifos[i] \subseteq Packet
                            /\ IsFiniteSet(ToSet(lanes[i])) /\ IsFiniteSet(pifos[i])
                            /\ IsFiniteSet(InLane(i)) /\ InLane(i) \subseteq Packet
                            /\ InLane(i) \subseteq InLanes
         /\ InLanes \subseteq Packet /\ IsFiniteSet(InLanes)
         /\ ToSet(ready) \subseteq Packet /\ IsFiniteSet(ToSet(ready))
<1>1. ASSUME NEW i \in Lane
      PROVE  /\ ToSet(lanes[i]) \subseteq Packet /\ pifos[i] \subseteq Packet
             /\ IsFiniteSet(ToSet(lanes[i])) /\ IsFiniteSet(pifos[i])
             /\ IsFiniteSet(InLane(i)) /\ InLane(i) \subseteq Packet
             /\ InLane(i) \subseteq InLanes
  <2>1. ToSet(lanes[i]) \subseteq Packet /\ IsFiniteSet(ToSet(lanes[i]))
    BY QueueBytes DEF Types
  <2>2. pifos[i] \subseteq Packet /\ IsFiniteSet(pifos[i])
    BY DEF Types
  <2>3. IsFiniteSet(InLane(i)) /\ InLane(i) \subseteq Packet
    BY <2>1, <2>2, FS_Union DEF InLane
  <2>4. InLane(i) \subseteq InLanes
    BY DEF InLane, InLanes
  <2>5. QED  BY <2>1, <2>2, <2>3, <2>4
<1>2. InLanes \subseteq Packet
  BY <1>1 DEF InLane, InLanes
<1>3. IsFiniteSet(InLanes)
  <2> DEFINE parts == {InLane(i) : i \in Lane}
             f == [i \in Lane |-> InLane(i)]
  <2>1. f \in Surjection(Lane, parts)
    BY DEF Surjection
  <2>2. IsFiniteSet(parts)
    <3> HIDE DEF f, parts
    <3>1. QED  BY <2>1, LaneRange, FS_Surjection
  <2>3. \A P \in parts : IsFiniteSet(P)
    BY <1>1
  <2>4. InLanes = UNION parts
    BY DEF InLane, InLanes
  <2> HIDE DEF parts
  <2>5. QED  BY <2>2, <2>3, <2>4, FS_UNION
<1>4. ToSet(ready) \subseteq Packet /\ IsFiniteSet(ToSet(ready))
  BY QueueBytes DEF Types
<1>5. QED  BY <1>1, <1>2, <1>3, <1>4

-----------------------------------------------------------------------------
(***************************************************************************)
(* What the parts of a round do                                            *)
(***************************************************************************)
InOrder == queue = InLanes \cup ToSet(ready)

\* One lane gets other packets: some of its own, and some that are not stored yet.
LEMMA PlaceStep ==
  ASSUME Types, Placed, InOrder,
         NEW i \in Lane, NEW s \in Seq(Packet), Once(s),
         NEW P, P \subseteq Packet, IsFiniteSet(P), ToSet(s) \cap P = {}, NEW fresh,
         ToSet(s) \cup P \subseteq InLane(i) \cup fresh, fresh \cap queue = {},
         lanes' = [lanes EXCEPT ![i] = s], pifos' = [pifos EXCEPT ![i] = P],
         disc = "wfqpcq" => P = {}, UNCHANGED <<disc, ready>>
  PROVE  /\ Lane' = Lane /\ disc' \in AllDiscs /\ ready' \in Seq(Packet)
         /\ lanes' \in [Lane -> Seq(Packet)]
         /\ pifos' \in [Lane -> SUBSET Packet] /\ \A j \in Lane : IsFiniteSet(pifos'[j])
         /\ lanes'[i] = s /\ pifos'[i] = P
         /\ \A j \in Lane \ {i} : lanes'[j] = lanes[j] /\ pifos'[j] = pifos[j]
         /\ Placed'
         /\ InLanes' \cup ToSet(ready') =
              (queue \ (InLane(i) \ (ToSet(s) \cup P))) \cup ToSet(s) \cup P
<1> DEFINE N == ToSet(s) \cup P
<1>1. Lane' = Lane
  BY DEF Lane
<1>2. /\ lanes' \in [Lane -> Seq(Packet)] /\ lanes'[i] = s
      /\ \A j \in Lane \ {i} : lanes'[j] = lanes[j]
  BY DEF Types
<1>3. /\ pifos' \in [Lane -> SUBSET Packet] /\ pifos'[i] = P
      /\ \A j \in Lane \ {i} : pifos'[j] = pifos[j]
  BY DEF Types
<1>4. \A j \in Lane : IsFiniteSet(pifos'[j])
  BY <1>3 DEF Types
<1>5. \A j \in Lane : InLane(j)' = IF j = i THEN N ELSE InLane(j)
  BY <1>2, <1>3 DEF InLane
<1>6. disc' \in AllDiscs /\ ready' \in Seq(Packet) /\ ready' = ready
  BY DEF Types
<1>7. ToSet(ready') = ToSet(ready)
  BY <1>6
<1>8. InLanes = UNION {InLane(j) : j \in Lane} /\ InLanes' = UNION {InLane(j)' : j \in Lane}
  BY <1>1 DEF InLanes, InLane
<1>9. fresh \cap ToSet(ready) = {} /\ \A j \in Lane : fresh \cap InLane(j) = {}
  BY <1>8 DEF InOrder
<1> HIDE DEF N
<1>10. N \subseteq InLane(i) \cup fresh
  BY DEF N
<1>11. N \cap ToSet(ready) = {} /\ \A j \in Lane \ {i} : N \cap InLane(j) = {}
  BY <1>9, <1>10 DEF Placed
<1>12. Placed'
  <2>1. \A j \in Lane : /\ Once(lanes'[j]) /\ ToSet(lanes'[j]) \cap pifos'[j] = {}
                        /\ InLane(j)' \cap ToSet(ready') = {}
    BY <1>2, <1>3, <1>5, <1>7, <1>11 DEF Placed
  <2>2. \A j, m \in Lane : j # m => InLane(j)' \cap InLane(m)' = {}
    BY <1>5, <1>11 DEF Placed
  <2>3. Once(ready')
    BY <1>6 DEF Placed
  <2>4. disc = "wfqpcq" => \A j \in Lane : pifos'[j] = {}
    BY <1>3 DEF Placed
  <2>5. QED  BY <1>1, <2>1, <2>2, <2>3, <2>4 DEF Placed
<1>13. InLanes' \cup ToSet(ready') = (queue \ (InLane(i) \ N)) \cup N
  <2>1. \A j \in Lane \ {i} : InLane(j) \cap InLane(i) = {}
    BY DEF Placed
  <2>2. ToSet(ready) \cap InLane(i) = {}
    BY DEF Placed
  <2>3. InLanes' \cup ToSet(ready') \subseteq (queue \ (InLane(i) \ N)) \cup N
    BY <1>5, <1>7, <1>8, <2>1, <2>2 DEF InOrder
  <2>4. (queue \ (InLane(i) \ N)) \cup N \subseteq InLanes' \cup ToSet(ready')
    BY <1>5, <1>7, <1>8 DEF InOrder
  <2>5. QED  BY <2>3, <2>4
<1>14. QED  BY <1>1, <1>2, <1>3, <1>4, <1>6, <1>12, <1>13 DEF N

\* If the sizes follow the lane and the SortedList the store, all stays in step.
LEMMA LaneStep ==
  ASSUME Stored, disc # "wfqpcq",
         NEW i \in Lane, NEW s \in Seq(Packet), Once(s),
         NEW P, P \subseteq Packet, IsFiniteSet(P), ToSet(s) \cap P = {}, NEW fresh,
         ToSet(s) \cup P \subseteq InLane(i) \cup fresh, fresh \cap queue = {},
         lanes' = [lanes EXCEPT ![i] = s], pifos' = [pifos EXCEPT ![i] = P],
         sizes' = [sizes EXCEPT ![i] = Bytes(ToSet(s))],
         pifoSizes' = [pifoSizes EXCEPT ![i] = Bytes(P)],
         queue' = (queue \ (InLane(i) \ (ToSet(s) \cup P))) \cup ToSet(s) \cup P,
         UNCHANGED <<disc, ready>>
  PROVE  Stored'
<1>1. Types /\ Placed /\ InOrder /\ SizesAgree
  BY DEF Stored, ListsAgree, InOrder
<1>2. /\ Lane' = Lane /\ disc' \in AllDiscs /\ ready' \in Seq(Packet)
      /\ lanes' \in [Lane -> Seq(Packet)]
      /\ pifos' \in [Lane -> SUBSET Packet] /\ \A j \in Lane : IsFiniteSet(pifos'[j])
      /\ lanes'[i] = s /\ pifos'[i] = P
      /\ \A j \in Lane \ {i} : lanes'[j] = lanes[j] /\ pifos'[j] = pifos[j]
      /\ Placed'
      /\ InLanes' \cup ToSet(ready') =
           (queue \ (InLane(i) \ (ToSet(s) \cup P))) \cup ToSet(s) \cup P
  BY <1>1, PlaceStep
<1>3. Bytes(ToSet(s)) \in Int /\ Bytes(P) \in Int
  <2>1. Bytes(ToSet(s)) \in Nat /\ Bytes(P) \in Nat
    BY QueueBytes, PacketBytes
  <2>2. QED  BY <2>1
<1>4. /\ sizes' \in [Lane -> Int] /\ sizes'[i] = Bytes(ToSet(s))
      /\ \A j \in Lane \ {i} : sizes'[j] = sizes[j]
  BY <1>1, <1>3 DEF Types
<1>5. /\ pifoSizes' \in [Lane -> Int] /\ pifoSizes'[i] = Bytes(P)
      /\ \A j \in Lane \ {i} : pifoSizes'[j] = pifoSizes[j]
  BY <1>1, <1>3 DEF Types
<1>6. Types'
  BY <1>2, <1>4, <1>5 DEF Types
<1>7. \A j \in Lane : /\ sizes'[j] = Bytes(ToSet(lanes'[j]))
                      /\ pifoSizes'[j] = Bytes(pifos'[j])
  BY <1>1, <1>2, <1>4, <1>5 DEF SizesAgree
<1>8. SizesAgree'
  BY <1>2, <1>7 DEF SizesAgree
<1>9. ListsAgree'
  BY <1>2, <1>8 DEF ListsAgree
<1>10. QED  BY <1>2, <1>6, <1>9 DEF Stored

\* A packet that is handed over: it has the next number.
New(k) == k \in Packet /\ k.id = inputCount + 1

LEMMA Newcomer ==
  ASSUME Pointers, Numbered, NEW k, New(k)
  PROVE  k \notin queue
<1>1. inputCount \in Nat /\ ~(inputCount + 1 <= inputCount)
  BY DEF Pointers
<1>2. QED  BY <1>1 DEF Numbered, New

\* Nothing happens to the packets.
LEMMA StoreSame ==
  ASSUME Stored, UNCHANGED store, UNCHANGED <<disc, ready>>
  PROVE  Stored' /\ queue' \subseteq queue
<1>1. /\ UNCHANGED <<disc, ready, lanes, sizes, pifos, pifoSizes, queue>>
      /\ queue' = queue
  BY DEF store
<1>2. Lane' = Lane
  BY <1>1 DEF Lane
<1>3. Types'
  BY <1>1, <1>2 DEF Stored, Types
<1>4. \A i : InLane(i)' = InLane(i)
  BY <1>1 DEF InLane
<1>5. Placed'
  BY <1>1, <1>2, <1>4 DEF Stored, Placed
<1>6. InLanes' = InLanes /\ ToSet(ready') = ToSet(ready)
  BY <1>1, <1>2 DEF InLanes
<1>7. SizesAgree'
  BY <1>1, <1>2 DEF Stored, ListsAgree, SizesAgree
<1>8. ListsAgree'
  BY <1>1, <1>6, <1>7 DEF Stored, ListsAgree
<1>9. QED  BY <1>1, <1>3, <1>5, <1>8 DEF Stored

\* A packet goes to the end of a lane.
LEMMA PutOK ==
  ASSUME Stored, NEW i \in Lane, NEW k \in Packet, k \notin queue, Put(i, k),
         UNCHANGED <<disc, ready>>
  PROVE  Stored' /\ queue' \subseteq queue \cup {k}
<1> DEFINE s == Append(lanes[i], k)
           P == pifos[i]
           fresh == {k}
<1>1. Types /\ Placed /\ InOrder /\ SizesAgree
  BY DEF Stored, ListsAgree, InOrder
<1>2. /\ lanes' = [lanes EXCEPT ![i] = s]
      /\ sizes' = [sizes EXCEPT ![i] = sizes[i] + k.size]
      /\ queue' = queue \cup {k}
      /\ pifos' = pifos /\ pifoSizes' = pifoSizes
  BY DEF Put
<1>3. lanes[i] \in Seq(Packet) /\ Once(lanes[i]) /\ ToSet(lanes[i]) \cap P = {}
  BY <1>1 DEF Types, Placed
<1>4. InLane(i) \subseteq queue /\ ToSet(lanes[i]) \subseteq queue /\ P \subseteq queue
      /\ P \subseteq Packet /\ IsFiniteSet(P) /\ IsFiniteSet(ToSet(lanes[i]))
      /\ ToSet(lanes[i]) \subseteq Packet /\ IsFiniteSet(queue) /\ queue \subseteq Packet
  BY <1>1, StoreParts, FS_Union DEF InOrder, InLane
<1>5. s \in Seq(Packet) /\ Once(s) /\ ToSet(s) = ToSet(lanes[i]) \cup {k}
  BY <1>3, <1>4, AppendSet
<1>6. pifos' = [pifos EXCEPT ![i] = P]
  BY <1>1, <1>2 DEF Types
<1> HIDE DEF s, P
<1>7. ToSet(s) \cap P = {} /\ ToSet(s) \cup P = InLane(i) \cup fresh /\ fresh \cap queue = {}
  BY <1>3, <1>4, <1>5 DEF InLane, P
<1>8. queue' = (queue \ (InLane(i) \ (ToSet(s) \cup P))) \cup ToSet(s) \cup P
  BY <1>2, <1>4, <1>7
<1> HIDE DEF fresh
<1>9. CASE disc # "wfqpcq"
  <2>1. sizes[i] = Bytes(ToSet(lanes[i])) /\ pifoSizes[i] = Bytes(P)
    BY <1>1, <1>9 DEF SizesAgree, P
  <2>2. Bytes(ToSet(s)) = Bytes(ToSet(lanes[i])) + k.size
    <3>1. k \notin ToSet(lanes[i])
      BY <1>4
    <3> DEFINE S == ToSet(lanes[i])
    <3> HIDE DEF S
    <3>2. S \subseteq Packet /\ IsFiniteSet(S) /\ k \notin S
      BY <1>4, <3>1 DEF S
    <3>3. Bytes(S \cup {k}) = Bytes(S) + k.size
      BY <3>2, BytesMore
    <3>4. QED  BY <1>5, <3>3 DEF S
  <2>3. sizes' = [sizes EXCEPT ![i] = Bytes(ToSet(s))]
    BY <1>2, <2>1, <2>2
  <2>4. pifoSizes' = [pifoSizes EXCEPT ![i] = Bytes(P)]
    BY <1>1, <1>2, <2>1 DEF Types
  <2>5. ToSet(s) \cup P \subseteq InLane(i) \cup fresh
    BY <1>7
  <2>6. Stored'
    BY <1>2, <1>4, <1>5, <1>6, <1>7, <1>8, <1>9, <2>3, <2>4, <2>5, LaneStep
  <2>7. QED  BY <1>2, <2>6
<1>10. CASE disc = "wfqpcq"
  <2>1. ToSet(s) \cup P \subseteq InLane(i) \cup fresh
    BY <1>7
  <2>2. /\ Lane' = Lane /\ disc' \in AllDiscs /\ ready' \in Seq(Packet)
        /\ lanes' \in [Lane -> Seq(Packet)]
        /\ pifos' \in [Lane -> SUBSET Packet] /\ \A j \in Lane : IsFiniteSet(pifos'[j])
        /\ Placed'
        /\ InLanes' \cup ToSet(ready') =
             (queue \ (InLane(i) \ (ToSet(s) \cup P))) \cup ToSet(s) \cup P
    <3>1. P = {}
      BY <1>1, <1>10 DEF Placed, P
    <3>2. /\ s \in Seq(Packet) /\ Once(s)
          /\ P \subseteq Packet /\ IsFiniteSet(P) /\ ToSet(s) \cap P = {}
          /\ ToSet(s) \cup P \subseteq InLane(i) \cup fresh /\ fresh \cap queue = {}
      BY <1>4, <1>5, <1>7
    <3>3. /\ lanes' = [lanes EXCEPT ![i] = s] /\ pifos' = [pifos EXCEPT ![i] = P]
          /\ (disc = "wfqpcq" => P = {}) /\ UNCHANGED <<disc, ready>>
      BY <1>2, <1>6, <3>1
    <3>4. QED  BY <1>1, <3>2, <3>3, PlaceStep
  <2> DEFINE d == k.size
  <2>3. d \in Int
    BY Fields
  <2>4. /\ sizes \in [Lane -> Int] /\ sizes' \in [Lane -> Int]
        /\ sizes'[i] = sizes[i] + d /\ \A j \in Lane \ {i} : sizes'[j] = sizes[j]
    <3> HIDE DEF d
    <3>1. sizes \in [Lane -> Int] /\ sizes' = [sizes EXCEPT ![i] = sizes[i] + d]
      BY <1>1, <1>2 DEF Types, d
    <3>2. sizes[i] + d \in Int
      BY <2>3, <3>1
    <3>3. QED  BY <3>1, <3>2
  <2> HIDE DEF d
  <2>5. Types'
    BY <1>1, <1>2, <2>2, <2>4 DEF Types
  <2>6. SignedTotal(sizes', Lane) = SignedTotal(sizes, Lane) + d
    <3>1. IsFiniteSet(Lane)
      BY LaneRange
    <3> DEFINE f == sizes
               g == sizes'
               L == Lane
    <3>2. /\ IsFiniteSet(L) /\ i \in L /\ f \in [L -> Int] /\ g \in [L -> Int] /\ d \in Int
          /\ g[i] = f[i] + d /\ \A j \in L \ {i} : g[j] = f[j]
      BY <2>3, <2>4, <3>1
    <3> HIDE DEF f, g, L
    <3>3. SignedTotal(g, L) = SignedTotal(f, L) + d
      BY <3>2, SignedTotalChange
    <3>4. QED  BY <3>3 DEF f, g, L
  <2>7. Bytes(queue \cup {k}) = Bytes(queue) + d
    BY <1>4, BytesMore DEF d
  <2>8. SizesAgree'
    <3>1. SignedTotal(sizes', Lane') = Bytes(queue')
      BY <1>1, <1>2, <1>10, <2>2, <2>6, <2>7 DEF SizesAgree
    <3>2. QED  BY <1>10, <3>1 DEF SizesAgree
  <2>9. ListsAgree'
    BY <1>8, <2>2, <2>8 DEF ListsAgree
  <2>10. QED  BY <1>2, <2>2, <2>5, <2>9 DEF Stored
<1>11. QED  BY <1>9, <1>10

LEMMA PutIfRoomOK ==
  ASSUME Stored, NEW i \in Lane, NEW k \in Packet, k \notin queue, PutIfRoom(i, k),
         UNCHANGED <<disc, ready>>
  PROVE  Stored' /\ queue' \subseteq queue \cup {k}
BY PutOK, StoreSame DEF PutIfRoom, Refuse

-----------------------------------------------------------------------------
(***************************************************************************)
(* Sorted lists                                                            *)
(***************************************************************************)
Distinct(S) == \A j, k \in S : j.id = k.id => j = k

\* Element.__lt__ orders packets with different numbers totally.
LEMMA Ordered ==
  ASSUME NEW S, S \subseteq Packet, Distinct(S)
  PROVE  /\ \A j, k \in S : j # k => Less(j, k) \/ Less(k, j)
         /\ \A j \in S : ~Less(j, j)
         /\ \A j, k, m \in S : Less(j, k) /\ Less(k, m) => Less(j, m)
<1>1. \A k \in S : k.rank \in Nat /\ k.id \in Nat
  BY Fields
<1>2. ASSUME NEW j \in S, NEW k \in S, j # k PROVE Less(j, k) \/ Less(k, j)
  <2>1. j.id # k.id
    BY <1>2 DEF Distinct
  <2>2. QED  BY <1>1, <2>1 DEF Less
<1>3. ASSUME NEW j \in S PROVE ~Less(j, j)
  BY <1>1 DEF Less
<1>4. ASSUME NEW j \in S, NEW k \in S, NEW m \in S, Less(j, k), Less(k, m)
      PROVE  Less(j, m)
  <2>1. /\ j.rank \in Nat /\ k.rank \in Nat /\ m.rank \in Nat
        /\ j.id \in Nat /\ k.id \in Nat /\ m.id \in Nat
    BY <1>1
  <2>2. QED  BY <1>4, <2>1 DEF Less
<1>5. QED  BY <1>2, <1>3, <1>4

\* Sorted lists every packet of the set once, and the least first.
LEMMA SortedOK ==
  ASSUME NEW S, S \subseteq Packet, IsFiniteSet(S), Distinct(S)
  PROVE  /\ Sorted(S) \in Seq(Packet) /\ Once(Sorted(S)) /\ ToSet(Sorted(S)) = S
         /\ S # {} => \E k \in S : \A j \in S \ {k} : Less(k, j)
<1> DEFINE pred(k) == {j \in S : Less(j, k)}
           c(k)    == Cardinality(pred(k))
           n       == Cardinality(S)
           f       == [k \in S |-> c(k) + 1]
<1>1. n \in Nat
  BY FS_CardinalityType
<1>2. ASSUME NEW k \in S
      PROVE  /\ IsFiniteSet(pred(k)) /\ c(k) \in Nat /\ c(k) < n
  <2>1. pred(k) \in SUBSET S /\ k \notin pred(k)
    BY Ordered
  <2>2. IsFiniteSet(pred(k)) /\ c(k) <= n /\ (c(k) = n => S = pred(k))
    <3> DEFINE T == pred(k)
    <3>1. T \in SUBSET S
      BY <2>1
    <3> HIDE DEF T
    <3>2. IsFiniteSet(T) /\ Cardinality(T) <= Cardinality(S)
          /\ (Cardinality(S) = Cardinality(T) => S = T)
      BY <3>1, FS_Subset
    <3>3. QED  BY <3>2 DEF T
  <2> HIDE DEF pred, n
  <2>3. c(k) \in Nat
    BY <2>2, FS_CardinalityType
  <2>4. c(k) # n
    BY <2>1, <2>2
  <2> HIDE DEF c
  <2>5. QED  BY <1>1, <2>2, <2>3, <2>4
<1>3. ASSUME NEW j \in S, NEW k \in S, Less(j, k)
      PROVE  c(j) < c(k)
  <2>1. pred(j) \in SUBSET pred(k) /\ j \in pred(k) /\ j \notin pred(j)
    BY <1>3, Ordered
  <2>2. IsFiniteSet(pred(k)) /\ c(j) \in Nat /\ c(k) \in Nat
    BY <1>2
  <2>3. c(j) <= c(k) /\ (c(k) = c(j) => pred(k) = pred(j))
    <3> HIDE DEF pred
    <3>1. QED  BY <2>1, <2>2, FS_Subset
  <2>4. c(j) # c(k)
    BY <2>1, <2>3
  <2> HIDE DEF c
  <2>5. QED  BY <2>2, <2>3, <2>4
<1> HIDE DEF pred, c, n
<1>4. \A j, k \in S : c(j) = c(k) => j = k
  <2> SUFFICES ASSUME NEW j \in S, NEW k \in S, j # k PROVE c(j) # c(k)
    OBVIOUS
  <2>1. c(j) \in Nat /\ c(k) \in Nat
    BY <1>2
  <2>2. c(j) < c(k) \/ c(k) < c(j)
    BY <1>3, Ordered
  <2>3. QED  BY <2>1, <2>2
<1>5. f \in Injection(S, 1 .. n)
  <2>1. \A k \in S : c(k) + 1 \in 1 .. n
    <3> SUFFICES ASSUME NEW k \in S PROVE c(k) + 1 \in 1 .. n
      OBVIOUS
    <3>1. c(k) \in Nat /\ c(k) < n
      BY <1>2
    <3>2. QED  BY <1>1, <3>1
  <2>2. \A j, k \in S : c(j) + 1 = c(k) + 1 => j = k
    <3> SUFFICES ASSUME NEW j \in S, NEW k \in S, c(j) + 1 = c(k) + 1 PROVE j = k
      OBVIOUS
    <3>1. c(j) \in Nat /\ c(k) \in Nat
      BY <1>2
    <3>2. c(j) = c(k)
      BY <3>1
    <3>3. QED  BY <1>4, <3>2
  <2>3. QED  BY <2>1, <2>2 DEF Injection, IsInjective
<1>6. f \in Surjection(S, 1 .. n)
  <2>1. IsFiniteSet(1 .. n) /\ Cardinality(1 .. n) = n
    BY <1>1, IntervalSize
  <2> HIDE DEF f
  <2>2. Cardinality(S) = Cardinality(1 .. n)
    BY <2>1 DEF n
  <2>3. QED  BY <1>5, <2>1, <2>2, FS_Injection
<1>7. \A m \in 1 .. n : \E k \in S : c(k) = m - 1
  <2> SUFFICES ASSUME NEW m \in 1 .. n PROVE \E k \in S : c(k) = m - 1
    OBVIOUS
  <2>1. PICK k \in S : f[k] = m
    BY <1>6 DEF Surjection
  <2>2. c(k) + 1 = m /\ c(k) \in Nat
    BY <1>2, <2>1
  <2>3. QED  BY <2>2
<1> HIDE DEF f
<1> DEFINE s == Sorted(S)
           at(m) == CHOOSE k \in S : c(k) = m - 1
<1>8. s = [m \in 1 .. n |-> at(m)]
  BY DEF Sorted, n, c, pred
<1>9. \A m \in 1 .. n : at(m) \in S /\ c(at(m)) = m - 1
  BY <1>7
<1> HIDE DEF s, at
<1>10. s \in [1 .. n -> S] /\ \A m \in 1 .. n : s[m] \in S /\ c(s[m]) = m - 1
  BY <1>8, <1>9
<1>11. s \in Seq(S) /\ s \in Seq(Packet)
  <2>1. s \in [1 .. n -> Packet]
    BY <1>10
  <2>2. QED  BY <1>1, <1>10, <2>1, SeqDef
<1>12. DOMAIN s = 1 .. n
  BY <1>10
<1>13. Once(s)
  <2> SUFFICES ASSUME NEW a \in 1 .. n, NEW b \in 1 .. n, s[a] = s[b] PROVE a = b
    BY <1>12 DEF Once
  <2>1. a - 1 = b - 1
    BY <1>10
  <2>2. QED  BY <2>1
<1>14. ToSet(s) = S
  <2>1. ToSet(s) = {s[m] : m \in 1 .. n}
    BY <1>12 DEF ToSet
  <2>2. ASSUME NEW k \in S PROVE k \in ToSet(s)
    <3> DEFINE m == c(k) + 1
    <3>1. c(k) \in Nat /\ c(k) < n
      BY <1>2
    <3>2. m \in 1 .. n /\ m - 1 = c(k)
      BY <1>1, <3>1
    <3>3. s[m] = k
      <4> HIDE DEF m
      <4>1. s[m] \in S /\ c(s[m]) = c(k)
        BY <1>10, <3>2
      <4>2. QED  BY <1>4, <4>1
    <3> HIDE DEF m
    <3>4. QED  BY <2>1, <3>2, <3>3
  <2>3. QED  BY <1>10, <2>1, <2>2
<1>15. ASSUME S # {} PROVE \E k \in S : \A j \in S \ {k} : Less(k, j)
  <2>1. n > 0
    BY <1>1, <1>15, FS_EmptySet DEF n
  <2>2. 1 \in 1 .. n /\ 1 - 1 = 0
    BY <1>1, <2>1
  <2>3. PICK k \in S : c(k) = 0
    BY <1>7, <2>2
  <2>4. pred(k) = {}
    BY <1>2, <2>3, FS_EmptySet DEF c
  <2>5. \A j \in S : ~Less(j, k)
    BY <2>4 DEF pred
  <2>6. QED  BY <2>5, Ordered
<1>16. QED  BY <1>11, <1>13, <1>14, <1>15 DEF s

-----------------------------------------------------------------------------
(***************************************************************************)
(* enqueue                                                                 *)
(***************************************************************************)
LEMMA EnqueuePifoOK ==
  ASSUME Stored, Numbered, disc # "wfqpcq", NEW i \in Lane, NEW k \in Packet,
         k.id \notin {j.id : j \in queue}, EnqueuePifo(i, k), UNCHANGED <<disc, ready>>
  PROVE  Stored' /\ queue' \subseteq queue \cup {k}
<1> DEFINE own  == ToSet(lanes[i])
           kept == Kept(own, sizes[i] + k.size)
           lost == own \ kept
           N    == kept \cup {k}
           s    == Sorted(N)
           P    == pifos[i]
           fresh == {k}
<1>1. Types /\ Placed /\ InOrder /\ SizesAgree
  BY DEF Stored, ListsAgree, InOrder
<1>2. /\ lanes' = [lanes EXCEPT ![i] = s]
      /\ sizes' = [sizes EXCEPT ![i] = sizes[i] - Bytes(lost) + k.size]
      /\ queue' = (queue \ lost) \cup {k}
      /\ pifos' = pifos /\ pifoSizes' = pifoSizes
  BY DEF EnqueuePifo, Relisted
<1>3. InLane(i) \subseteq queue /\ own \subseteq queue /\ P \subseteq queue
      /\ P \subseteq Packet /\ IsFiniteSet(P) /\ IsFiniteSet(own) /\ own \subseteq Packet
      /\ own \cap P = {} /\ InLane(i) = own \cup P
  BY <1>1, StoreParts DEF InOrder, InLane, Placed
<1>4. k \notin queue
  OBVIOUS
<1>5. kept \subseteq own
  BY DEF Kept
<1>6. sizes[i] = Bytes(own) /\ pifoSizes[i] = Bytes(P)
  BY <1>1 DEF SizesAgree
<1>7. pifos' = [pifos EXCEPT ![i] = P] /\ pifoSizes' = [pifoSizes EXCEPT ![i] = Bytes(P)]
  BY <1>1, <1>2, <1>6 DEF Types
<1> HIDE DEF own, kept, P
<1>8. N \subseteq Packet /\ IsFiniteSet(N) /\ IsFiniteSet(kept)
  <2>1. IsFiniteSet(kept) /\ IsFiniteSet({k})
    BY <1>3, <1>5, FS_Subset, FS_Singleton
  <2>2. IsFiniteSet(N)
    BY <2>1, FS_Union
  <2>3. QED  BY <1>3, <1>5, <2>1, <2>2
<1>9. Distinct(N)
  <2>1. \A a, b \in queue : a.id = b.id => a = b
    BY DEF Numbered
  <2>2. \A a \in N : a = k \/ a \in queue
    BY <1>3, <1>5
  <2>3. QED  BY <2>1, <2>2 DEF Distinct
<1> HIDE DEF N
<1>10. s \in Seq(Packet) /\ Once(s) /\ ToSet(s) = N
  BY <1>8, <1>9, SortedOK
<1> HIDE DEF s
<1>11. sizes' = [sizes EXCEPT ![i] = Bytes(ToSet(s))]
  <2>1. Bytes(own) = Bytes(kept) + Bytes(lost) /\ Bytes(own) \in Nat
        /\ Bytes(kept) \in Nat /\ Bytes(lost) \in Nat
    <3>1. \A j \in own : j.size \in Nat
      BY <1>3, Fields
    <3>2. QED  BY <1>3, <1>5, <3>1, BytesParts
  <2>2. Bytes(N) = Bytes(kept) + k.size
    <3>1. kept \subseteq Packet /\ k \notin kept
      BY <1>3, <1>4, <1>5
    <3>2. Bytes(kept \cup {k}) = Bytes(kept) + k.size
      BY <1>8, <3>1, BytesMore
    <3>3. QED  BY <3>2 DEF N
  <2> HIDE DEF lost
  <2>3. k.size \in Nat
    BY Fields
  <2>4. Bytes(own) - Bytes(lost) + k.size = Bytes(N)
    BY <2>1, <2>2, <2>3
  <2>5. QED  BY <1>2, <1>6, <1>10, <2>4
<1>12. ToSet(s) \cap P = {} /\ ToSet(s) \cup P \subseteq InLane(i) \cup fresh
       /\ fresh \cap queue = {}
  BY <1>3, <1>4, <1>5, <1>10 DEF N
<1>13. queue' = (queue \ (InLane(i) \ (ToSet(s) \cup P))) \cup ToSet(s) \cup P
  <2>1. InLane(i) \ (ToSet(s) \cup P) = lost
    BY <1>3, <1>4, <1>5, <1>10 DEF N
  <2>2. ToSet(s) \cup P \subseteq (queue \ lost) \cup {k}
    BY <1>3, <1>4, <1>5, <1>10 DEF N
  <2>3. k \in ToSet(s)
    BY <1>10 DEF N
  <2>4. QED  BY <1>2, <2>1, <2>2, <2>3
<1> HIDE DEF fresh
<1>14. Stored'
  BY <1>3, <1>2, <1>7, <1>10, <1>11, <1>12, <1>13, LaneStep
<1>15. QED  BY <1>2, <1>14

\* FIFO r of level l is a lane of Gearbox.
LEMMA GearLane ==
  ASSUME disc = "gearbox", NEW l \in Levels, NEW r \in 0 .. NumLanes - 1
  PROVE  l * NumLanes + r \in Lane
<1> DEFINE x == NumLanes
           y == NumLevels
           p == l * x
           q == x * y
<1>1. x \in Nat /\ x > 0 /\ y \in Nat /\ l \in Nat /\ l <= y - 1 /\ r \in 0 .. x - 1
  BY Parameters DEF Levels
<1>2. Lane = 0 .. q - 1
  BY LaneRange
<1> HIDE DEF x, y
<1>3. p \in Nat /\ q \in Nat
  BY <1>1
<1>4. p + x <= q
  <2> DEFINE m == l + 1
             z == y - m
  <2>1. m \in Nat /\ z \in Nat /\ y = m + z
    BY <1>1
  <2> HIDE DEF m, z
  <2>2. x * y = x * m + x * z /\ x * z \in Nat /\ x * m \in Nat
    BY <1>1, <2>1
  <2>3. x * m = l * x + x
    <3>1. x * (l + 1) = l * x + x
      BY <1>1
    <3>2. QED  BY <3>1 DEF m
  <2>4. QED  BY <1>1, <1>3, <2>2, <2>3
<1> HIDE DEF p, q
<1>5. p + r \in 0 .. q - 1
  BY <1>1, <1>3, <1>4
<1>6. QED  BY <1>2, <1>5 DEF p, x

LEMMA Gears == \A l \in Levels : Granularities[l] \in Nat \ {0}
BY GearboxAssumption

\* What is true after the scheduler was handed packet k.
Handed(k) ==
  /\ Stored' /\ queue' \subseteq queue \cup {k}
  /\ {inputPointer', outputPointer'} \subseteq 0 .. NumLanes - 1 /\ ts' \in Nat

LEMMA EnqueueOK ==
  ASSUME Stored, Pointers, Numbered, NEW k, New(k), UNCHANGED disc,
         \/ EnqueueIdeal(k) \/ EnqueueRR(k) \/ EnqueueScaleUp(k) \/ EnqueueSPPIFO(k)
         \/ EnqueueAIFO(k) \/ EnqueuePacks(k) \/ EnqueueWFQPCQ(k) \/ EnqueueSPPCQ(k)
         \/ EnqueueGearbox(k)
  PROVE  Handed(k)
<1>1. k \in Packet /\ k \notin queue
  BY Newcomer DEF New
<1>2. k.id \notin {j.id : j \in queue}
  <2>1. \A j \in queue : j.id <= inputCount
    BY DEF Numbered
  <2>2. inputCount \in Nat /\ k.id = inputCount + 1
    BY DEF Pointers, New
  <2>3. inputCount + 1 \notin {j.id : j \in queue}
    <3> SUFFICES ASSUME NEW j \in queue, j.id = inputCount + 1 PROVE FALSE
      OBVIOUS
    <3>1. inputCount + 1 <= inputCount
      BY <2>1
    <3>2. QED  BY <2>2, <3>1
  <2>4. QED  BY <2>2, <2>3
<1>3. 0 \in Lane /\ disc \in AllDiscs /\ NumLanes \in Nat \ {0}
  BY LaneRange, Parameters DEF Stored, Types
<1>4. {inputPointer, outputPointer} \subseteq 0 .. NumLanes - 1 /\ ts \in Nat
  BY DEF Pointers
<1>5. ASSUME UNCHANGED special
      PROVE  /\ UNCHANGED <<disc, ready>>
             /\ {inputPointer', outputPointer'} \subseteq 0 .. NumLanes - 1 /\ ts' \in Nat
  BY <1>4, <1>5 DEF special
<1>6. ASSUME UNCHANGED <<inputPointer, outputPointer, ts>>
      PROVE  {inputPointer', outputPointer'} \subseteq 0 .. NumLanes - 1 /\ ts' \in Nat
  BY <1>4, <1>6
<1>7. CASE EnqueueIdeal(k)
  <2>1. EnqueuePifo(0, k) /\ disc = "ideal" /\ UNCHANGED special
    BY <1>7 DEF EnqueueIdeal
  <2>2. Stored' /\ queue' \subseteq queue \cup {k}
    BY <1>1, <1>2, <1>3, <1>5, <2>1, EnqueuePifoOK
  <2>3. QED  BY <1>5, <2>1, <2>2 DEF Handed
<1>8. CASE EnqueueRR(k)
  <2>1. /\ EnqueuePifo(inputPointer, k) /\ disc = "rr" /\ UNCHANGED <<disc, ready>>
        /\ inputPointer' = (inputPointer + 1) % NumLanes
        /\ outputPointer' = outputPointer /\ ts' = ts
    BY <1>8 DEF EnqueueRR
  <2>2. inputPointer \in Lane
    BY <1>3, <1>4, <2>1, LaneRange
  <2>3. Stored' /\ queue' \subseteq queue \cup {k}
    BY <1>1, <1>2, <2>1, <2>2, EnqueuePifoOK
  <2>4. (inputPointer + 1) % NumLanes \in 0 .. NumLanes - 1
    <3> DEFINE n == NumLanes
               e == inputPointer + 1
    <3>1. n \in Nat \ {0} /\ e \in Nat
      BY <1>3, <1>4
    <3> HIDE DEF n, e
    <3>2. e % n \in 0 .. n - 1
      BY <3>1, DivMod
    <3>3. QED  BY <3>2 DEF n, e
  <2>5. QED  BY <1>4, <2>1, <2>3, <2>4 DEF Handed
<1>9. CASE EnqueueScaleUp(k)
  <2>1. /\ UNCHANGED special
        /\ \E i \in Lane : Put(i, k) \/ UNCHANGED store
    BY <1>9 DEF EnqueueScaleUp, Refuse
  <2>2. Stored' /\ queue' \subseteq queue \cup {k}
    BY <1>1, <1>5, <2>1, PutOK, StoreSame
  <2>3. QED  BY <1>5, <2>1, <2>2 DEF Handed
<1>10. CASE EnqueueSPPIFO(k)
  <2>1. /\ UNCHANGED <<inputPointer, outputPointer, ts>> /\ UNCHANGED <<disc, ready>>
        /\ \E i \in Lane : PutIfRoom(i, k)
    BY <1>3, <1>10 DEF EnqueueSPPIFO
  <2>2. Stored' /\ queue' \subseteq queue \cup {k}
    BY <1>1, <2>1, PutIfRoomOK
  <2>3. QED  BY <1>6, <2>1, <2>2 DEF Handed
<1>11. CASE EnqueueAIFO(k)
  <2>1. /\ UNCHANGED <<inputPointer, outputPointer, ts>> /\ UNCHANGED <<disc, ready>>
        /\ Put(0, k) \/ UNCHANGED store
    BY <1>11 DEF EnqueueAIFO, Slide, Refuse
  <2>2. Stored' /\ queue' \subseteq queue \cup {k}
    BY <1>1, <1>3, <2>1, PutOK, StoreSame
  <2>3. QED  BY <1>6, <2>1, <2>2 DEF Handed
<1>12. CASE EnqueuePacks(k)
  <2>1. /\ UNCHANGED <<inputPointer, outputPointer, ts>> /\ UNCHANGED <<disc, ready>>
        /\ (\E i \in Lane : Put(i, k)) \/ UNCHANGED store
    BY <1>12 DEF EnqueuePacks, Slide, Refuse
  <2>2. Stored' /\ queue' \subseteq queue \cup {k}
    BY <1>1, <2>1, PutOK, StoreSame
  <2>3. QED  BY <1>6, <2>1, <2>2 DEF Handed
<1>13. CASE EnqueueWFQPCQ(k)
  <2>1. /\ UNCHANGED special /\ disc = "wfqpcq"
        /\ (k.rank < NumLanes /\ PutIfRoom(k.rank, k)) \/ UNCHANGED store
    BY <1>13 DEF EnqueueWFQPCQ, Refuse
  <2>2. k.rank < NumLanes => k.rank \in Lane
    BY <1>1, <1>3, <2>1, LaneRange, Fields
  <2>3. Stored' /\ queue' \subseteq queue \cup {k}
    BY <1>1, <1>5, <2>1, <2>2, PutIfRoomOK, StoreSame
  <2>4. QED  BY <1>5, <2>1, <2>3 DEF Handed
<1>14. CASE EnqueueSPPCQ(k)
  <2> DEFINE i == IF k.rank < NumLanes THEN k.rank ELSE NumLanes - 1
  <2>1. UNCHANGED special /\ disc = "sppcq" /\ PutIfRoom(i, k)
    BY <1>14 DEF EnqueueSPPCQ
  <2>2. i \in Lane
    BY <1>1, <1>3, <2>1, LaneRange, Fields
  <2> HIDE DEF i
  <2>3. Stored' /\ queue' \subseteq queue \cup {k}
    BY <1>1, <1>5, <2>1, <2>2, PutIfRoomOK
  <2>4. QED  BY <1>5, <2>1, <2>3 DEF Handed
<1>15. CASE EnqueueGearbox(k)
  <2> DEFINE r(l) == ((ts \div Granularities[l]) + (k.rank \div Granularities[l])) % NumLanes
  <2>1. /\ UNCHANGED special /\ disc = "gearbox"
        /\ (\E l \in Levels : PutIfRoom(l * NumLanes + r(l), k)) \/ UNCHANGED store
    BY <1>15 DEF EnqueueGearbox, Refuse
  <2>2. \A l \in Levels : r(l) \in 0 .. NumLanes - 1
    <3> SUFFICES ASSUME NEW l \in Levels PROVE r(l) \in 0 .. NumLanes - 1
      OBVIOUS
    <3> DEFINE g == Granularities[l]
               n == NumLanes
               a == ts
               b == k.rank
               c == a \div g
               d == b \div g
               e == c + d
    <3>1. g \in Nat \ {0} /\ n \in Nat \ {0} /\ a \in Nat /\ b \in Nat
      BY <1>1, <1>3, <1>4, Gears, Fields
    <3> HIDE DEF g, n, a, b
    <3>2. c \in Nat /\ d \in Nat
      BY <3>1, DivMod
    <3> HIDE DEF c, d
    <3>3. e \in Nat
      BY <3>2
    <3> HIDE DEF e
    <3>4. e % n \in 0 .. n - 1
      BY <3>1, <3>3, DivMod
    <3>5. QED  BY <3>4 DEF e, c, d, n, a, b, g
  <2> HIDE DEF r
  <2>3. \A l \in Levels : l * NumLanes + r(l) \in Lane
    BY <2>1, <2>2, GearLane
  <2>4. (\E i \in Lane : PutIfRoom(i, k)) \/ UNCHANGED store
    BY <2>1, <2>3
  <2>5. Stored' /\ queue' \subseteq queue \cup {k}
    BY <1>1, <1>5, <2>1, <2>4, PutIfRoomOK, StoreSame
  <2>6. QED  BY <1>5, <2>1, <2>5 DEF Handed
<1>16. QED
  BY <1>7, <1>8, <1>9, <1>10, <1>11, <1>12, <1>13, <1>14, <1>15

\* An answer that counts as output takes a packet out.
Answered ==
  \/ outputCount' = outputCount
  \/ outputCount' = outputCount + 1 /\ \E h \in queue : queue' \subseteq queue \ {h}

-----------------------------------------------------------------------------
(***************************************************************************)
(* dequeue                                                                 *)
(***************************************************************************)
\* The first packet of a lane leaves.
LEMMA TakeOK ==
  ASSUME Stored, disc # "wfqpcq", NEW i \in Lane, lanes[i] # <<>>, Take(i),
         UNCHANGED <<disc, ready>>
  PROVE  Stored' /\ queue' \subseteq queue /\ Answered
<1> DEFINE own == ToSet(lanes[i])
           h == Head(lanes[i])
           s == Tail(lanes[i])
           P == pifos[i]
           fresh == {}
<1>1. Types /\ Placed /\ InOrder /\ SizesAgree
  BY DEF Stored, ListsAgree, InOrder
<1>2. /\ lanes' = [lanes EXCEPT ![i] = s]
      /\ sizes' = [sizes EXCEPT ![i] = sizes[i] - h.size]
      /\ queue' = queue \ {h} /\ outputCount' = outputCount + 1
      /\ pifos' = pifos /\ pifoSizes' = pifoSizes
  BY DEF Take
<1>3. InLane(i) \subseteq queue /\ P \subseteq Packet /\ IsFiniteSet(P)
      /\ IsFiniteSet(own) /\ own \subseteq Packet
      /\ own \cap P = {} /\ InLane(i) = own \cup P
  BY <1>1, StoreParts DEF InOrder, InLane, Placed
<1>4. lanes[i] \in Seq(Packet) /\ Once(lanes[i])
  BY <1>1 DEF Types, Placed
<1>5. s \in Seq(Packet) /\ Once(s) /\ ToSet(s) = own \ {h} /\ h \in own
  BY <1>4, TailSet
<1>6. sizes[i] = Bytes(own) /\ pifoSizes[i] = Bytes(P)
  BY <1>1 DEF SizesAgree
<1>7. pifos' = [pifos EXCEPT ![i] = P] /\ pifoSizes' = [pifoSizes EXCEPT ![i] = Bytes(P)]
  BY <1>1, <1>2, <1>6 DEF Types
<1> HIDE DEF own, P, h, s
<1>8. sizes' = [sizes EXCEPT ![i] = Bytes(ToSet(s))]
  <2>1. Bytes(own \ {h}) = Bytes(own) - h.size
    BY <1>3, <1>5, BytesLess
  <2>2. QED  BY <1>2, <1>5, <1>6, <2>1
<1>9. ToSet(s) \cap P = {} /\ ToSet(s) \cup P \subseteq InLane(i) \cup fresh
      /\ fresh \cap queue = {}
  BY <1>3, <1>5
<1>10. queue' = (queue \ (InLane(i) \ (ToSet(s) \cup P))) \cup ToSet(s) \cup P
  <2>1. InLane(i) \ (ToSet(s) \cup P) = {h}
    BY <1>3, <1>5
  <2>2. ToSet(s) \cup P \subseteq queue \ {h}
    BY <1>3, <1>5
  <2>3. QED  BY <1>2, <2>1, <2>2
<1> HIDE DEF fresh
<1>11. Stored'
  BY <1>2, <1>3, <1>5, <1>7, <1>8, <1>9, <1>10, LaneStep
<1>12. h \in queue
  BY <1>3, <1>5
<1>13. QED  BY <1>2, <1>11, <1>12 DEF Answered

\* What is true after the scheduler was asked for a packet.
Asked ==
  /\ Stored' /\ queue' \subseteq queue /\ Answered
  /\ {inputPointer', outputPointer'} \subseteq 0 .. NumLanes - 1 /\ ts' \in Nat

LEMMA Rotation ==
  ASSUME NEW e \in Nat
  PROVE  e % NumLanes \in 0 .. NumLanes - 1
<1> DEFINE n == NumLanes
<1>1. n \in Nat \ {0}
  BY Parameters
<1> HIDE DEF n
<1>2. e % n \in 0 .. n - 1
  BY <1>1, DivMod
<1>3. QED  BY <1>2 DEF n

LEMMA DequeueFirstOK ==
  ASSUME Stored, Pointers, UNCHANGED disc, DequeueFirst
  PROVE  Asked
<1> DEFINE Turn(n) == IF disc = "rr" THEN (outputPointer + n) % NumLanes ELSE n
<1>1. /\ disc \in {"ideal", "rr", "sppifo", "aifo", "packs", "sppcq"}
      /\ UNCHANGED <<inputPointer, ready, ts>>
  BY DEF DequeueFirst
<1>2. PICK n \in Lane : /\ lanes[Turn(n)] # <<>> /\ Take(Turn(n))
                        /\ outputPointer' = IF disc = "rr" THEN (Turn(n) + 1) % NumLanes
                                                           ELSE outputPointer
  BY DEF DequeueFirst
<1>3. {inputPointer, outputPointer} \subseteq 0 .. NumLanes - 1 /\ ts \in Nat
      /\ NumLanes \in Nat \ {0}
  BY Parameters DEF Pointers
<1>4. disc = "rr" => Lane = 0 .. NumLanes - 1
  BY LaneRange DEF AllDiscs
<1>5. Turn(n) \in Lane
  <2>1. CASE disc = "rr"
    <3>1. outputPointer + n \in Nat
      BY <1>3, <1>4, <2>1
    <3>2. QED  BY <1>4, <2>1, <3>1, Rotation
  <2>2. CASE disc # "rr"
    BY <2>2
  <2>3. QED  BY <2>1, <2>2
<1> HIDE DEF Turn
<1>6. outputPointer' \in 0 .. NumLanes - 1
  <2>1. CASE disc = "rr"
    <3>1. Turn(n) + 1 \in Nat
      BY <1>3, <1>4, <1>5, <2>1
    <3>2. QED  BY <1>2, <2>1, <3>1, Rotation
  <2>2. CASE disc # "rr"
    BY <1>2, <1>3, <2>2
  <2>3. QED  BY <2>1, <2>2
<1>7. Stored' /\ queue' \subseteq queue /\ Answered
  BY <1>1, <1>2, <1>5, TakeOK
<1>8. QED  BY <1>1, <1>3, <1>6, <1>7 DEF Asked

LEMMA DequeueWFQPCQOK ==
  ASSUME Stored, Pointers, UNCHANGED disc, DequeueWFQPCQ
  PROVE  Asked
<1>1. Types /\ Placed /\ InOrder /\ SizesAgree
  BY DEF Stored, ListsAgree, InOrder
<1>2. /\ disc = "wfqpcq" /\ UNCHANGED special /\ UNCHANGED <<disc, ready, pifos, pifoSizes>>
      /\ outputCount' = outputCount + 1
  BY DEF DequeueWFQPCQ, special
<1>3. PICK n \in Lane :
        /\ lanes[n] # <<>>
        /\ lanes' = [i \in Lane |-> IF i = 0 THEN Tail(lanes[n]) ELSE lanes[(i + n) % NumLanes]]
        /\ sizes' = [sizes EXCEPT ![0] = sizes[0] - Head(lanes[n]).size]
        /\ queue' = queue \ {Head(lanes[n])}
  BY DEF DequeueWFQPCQ
<1> DEFINE h == Head(lanes[n])
           turn(i) == (i + n) % NumLanes
<1>4. Lane = 0 .. NumLanes - 1 /\ NumLanes \in Nat \ {0} /\ Lane' = Lane /\ 0 \in Lane
      /\ IsFiniteSet(Lane)
  BY <1>1, <1>2, LaneRange, Parameters DEF Types, Lane
<1>5. \A i \in Lane : turn(i) = IF i + n < NumLanes THEN i + n ELSE (i + n) - NumLanes
  <2>1. ASSUME NEW e \in Nat, e < 2 * NumLanes
        PROVE  e % NumLanes = IF e < NumLanes THEN e ELSE e - NumLanes
    <3> DEFINE m == NumLanes
    <3>1. m \in Nat \ {0} /\ e < 2 * m
      BY <1>4, <2>1
    <3> HIDE DEF m
    <3>2. e % m = IF e < m THEN e ELSE e - m
      BY <3>1, Wrap
    <3>3. QED  BY <3>2 DEF m
  <2>2. \A i \in Lane : i + n \in Nat /\ i + n < 2 * NumLanes
    BY <1>4
  <2>3. QED  BY <2>1, <2>2
<1> HIDE DEF turn
<1>6. /\ \A i \in Lane : turn(i) \in Lane
      /\ \A i, j \in Lane : i # j => turn(i) # turn(j)
      /\ \A j \in Lane : \E i \in Lane : turn(i) = j
      /\ turn(0) = n
  <2>1. turn(0) = n /\ \A i \in Lane : turn(i) \in Lane
    BY <1>4, <1>5
  <2>2. \A i, j \in Lane : i # j => turn(i) # turn(j)
    BY <1>4, <1>5
  <2>3. ASSUME NEW j \in Lane PROVE \E i \in Lane : turn(i) = j
    <3>1. CASE j >= n
      <4>1. j - n \in Lane /\ turn(j - n) = j
        BY <1>4, <1>5, <3>1
      <4>2. QED  BY <4>1
    <3>2. CASE j < n
      <4>1. (j - n) + NumLanes \in Lane /\ turn((j - n) + NumLanes) = j
        BY <1>4, <1>5, <3>2
      <4>2. QED  BY <4>1
    <3>3. QED  BY <1>4, <3>1, <3>2
  <2>4. QED  BY <2>1, <2>2, <2>3
<1>7. lanes[n] \in Seq(Packet) /\ Once(lanes[n])
  BY <1>1 DEF Types, Placed
<1>8. /\ h \in Packet /\ Tail(lanes[n]) \in Seq(Packet) /\ Once(Tail(lanes[n]))
      /\ h \in ToSet(lanes[n]) /\ ToSet(Tail(lanes[n])) = ToSet(lanes[n]) \ {h}
  BY <1>3, <1>7, TailSet
<1> HIDE DEF h
<1>9. \A i \in Lane : InLane(i) = ToSet(lanes[i]) /\ InLane(i)' = ToSet(lanes'[i])
                      /\ pifos[i] = {}
  BY <1>1, <1>2 DEF Placed, InLane
<1>10. \A i, j \in Lane : i # j => ToSet(lanes[i]) \cap ToSet(lanes[j]) = {}
  BY <1>1, <1>9 DEF Placed
<1>11. ASSUME NEW i \in Lane
       PROVE  /\ lanes'[i] \in Seq(Packet) /\ Once(lanes'[i])
              /\ ToSet(lanes'[i]) = ToSet(lanes[turn(i)]) \ {h}
  <2>1. CASE i = 0
    BY <1>3, <1>6, <1>8, <2>1
  <2>2. CASE i # 0
    <3>1. lanes'[i] = lanes[turn(i)] /\ turn(i) \in Lane /\ turn(i) # n
      BY <1>3, <1>4, <1>6, <2>2 DEF turn
    <3>2. h \notin ToSet(lanes[turn(i)])
      BY <1>8, <1>10, <3>1
    <3>3. lanes[turn(i)] \in Seq(Packet) /\ Once(lanes[turn(i)])
      BY <1>1, <3>1 DEF Types, Placed
    <3>4. QED  BY <3>1, <3>2, <3>3
  <2>3. QED  BY <2>1, <2>2
<1>12. lanes' \in [Lane -> Seq(Packet)]
  <2>1. lanes' = [i \in Lane |-> lanes'[i]]
    BY <1>3
  <2>2. QED  BY <1>11, <2>1
<1>13. Placed'
  <2>1. \A i \in Lane : InLane(i) \cap ToSet(ready) = {}
    BY <1>1 DEF Placed
  <2>2. ASSUME NEW i \in Lane
        PROVE  /\ Once(lanes'[i]) /\ ToSet(lanes'[i]) \cap pifos'[i] = {}
               /\ InLane(i)' \cap ToSet(ready') = {} /\ pifos'[i] = {}
    <3>1. turn(i) \in Lane /\ pifos'[i] = {} /\ ready' = ready
      BY <1>2, <1>6, <1>9
    <3>2. InLane(i)' = InLane(turn(i)) \ {h} /\ Once(lanes'[i])
      BY <1>9, <1>11, <3>1
    <3>3. InLane(i)' \cap ToSet(ready) = {}
      BY <2>1, <3>1, <3>2
    <3>4. QED  BY <3>1, <3>2, <3>3
  <2>3. ASSUME NEW i \in Lane, NEW j \in Lane, i # j
        PROVE  InLane(i)' \cap InLane(j)' = {}
    <3>1. turn(i) \in Lane /\ turn(j) \in Lane /\ turn(i) # turn(j)
      BY <1>6, <2>3
    <3>2. ToSet(lanes[turn(i)]) \cap ToSet(lanes[turn(j)]) = {}
      BY <1>10, <3>1
    <3>3. InLane(i)' \subseteq ToSet(lanes[turn(i)]) /\ InLane(j)' \subseteq ToSet(lanes[turn(j)])
      BY <1>9, <1>11
    <3>4. QED  BY <3>2, <3>3
  <2>4. Once(ready')
    BY <1>1, <1>2 DEF Placed
  <2>5. QED  BY <1>4, <2>2, <2>3, <2>4 DEF Placed
<1>14. queue' = InLanes' \cup ToSet(ready')
  <2>1. InLanes = UNION {ToSet(lanes[i]) : i \in Lane}
        /\ InLanes' = UNION {ToSet(lanes'[i]) : i \in Lane}
    BY <1>2, <1>4, <1>9 DEF InLanes
  <2>2. InLanes' \subseteq InLanes \ {h}
    <3>1. \A i \in Lane : ToSet(lanes'[i]) \subseteq InLanes \ {h}
      <4> SUFFICES ASSUME NEW i \in Lane PROVE ToSet(lanes'[i]) \subseteq InLanes \ {h}
        OBVIOUS
      <4>1. turn(i) \in Lane /\ ToSet(lanes'[i]) = ToSet(lanes[turn(i)]) \ {h}
        BY <1>6, <1>11
      <4>2. QED  BY <2>1, <4>1
    <3>2. QED  BY <2>1, <3>1
  <2>3. InLanes \ {h} \subseteq InLanes'
    <3> SUFFICES ASSUME NEW j \in Lane, NEW k \in ToSet(lanes[j]), k # h PROVE k \in InLanes'
      BY <2>1
    <3>1. PICK i \in Lane : turn(i) = j
      BY <1>6
    <3>2. k \in ToSet(lanes'[i])
      BY <1>11, <3>1
    <3>3. QED  BY <2>1, <3>2
  <2>4. h \notin ToSet(ready)
    BY <1>1, <1>8, <1>9 DEF Placed
  <2>5. ToSet(ready') = ToSet(ready)
    BY <1>2
  <2>6. QED  BY <1>1, <1>3, <2>2, <2>3, <2>4, <2>5 DEF InOrder, h
<1> DEFINE d == 0 - h.size
<1>15. h.size \in Nat /\ d \in Int
  BY <1>8, Fields
<1>16. /\ sizes \in [Lane -> Int] /\ sizes' \in [Lane -> Int]
       /\ sizes'[0] = sizes[0] + d /\ \A j \in Lane \ {0} : sizes'[j] = sizes[j]
  <2> DEFINE v == sizes[0] - h.size
  <2>1. sizes' = [sizes EXCEPT ![0] = v] /\ sizes \in [Lane -> Int]
    BY <1>1, <1>3 DEF Types, h
  <2>2. v \in Int /\ v = sizes[0] + d
    BY <1>4, <1>15, <2>1
  <2> HIDE DEF v, d
  <2>3. QED  BY <1>4, <2>1, <2>2
<1>17. SignedTotal(sizes', Lane) = SignedTotal(sizes, Lane) + d
  <2> DEFINE f == sizes
             g == sizes'
             o == 0
             L == Lane
  <2> HIDE DEF d
  <2>1. /\ IsFiniteSet(L) /\ o \in L /\ f \in [L -> Int] /\ g \in [L -> Int] /\ d \in Int
        /\ g[o] = f[o] + d /\ \A j \in L \ {o} : g[j] = f[j]
    BY <1>4, <1>15, <1>16
  <2> HIDE DEF f, g, o, L
  <2>2. SignedTotal(g, L) = SignedTotal(f, L) + d
    BY <2>1, SignedTotalChange
  <2>3. QED  BY <2>2 DEF f, g, L
<1>18. Bytes(queue \ {h}) = Bytes(queue) - h.size /\ Bytes(queue) \in Nat
  <2>1. queue \subseteq Packet /\ IsFiniteSet(queue)
    BY <1>1, StoreParts, FS_Union DEF InOrder
  <2>2. h \in queue
    BY <1>1, <1>8, StoreParts, <1>9 DEF InOrder
  <2>3. QED  BY <2>1, <2>2, BytesLess, PacketBytes
<1>19. SizesAgree'
  <2>1. SignedTotal(sizes, Lane) = Bytes(queue)
    BY <1>1, <1>2 DEF SizesAgree
  <2>2. SignedTotal(sizes', Lane) = Bytes(queue \ {h})
    BY <1>15, <1>17, <1>18, <2>1
  <2>3. SignedTotal(sizes', Lane') = Bytes(queue')
    BY <1>3, <1>4, <2>2 DEF h
  <2>4. QED  BY <1>2, <2>3 DEF SizesAgree
<1>20. Types'
  BY <1>1, <1>2, <1>4, <1>12, <1>16 DEF Types
<1>21. Stored' /\ queue' \subseteq queue
  BY <1>3, <1>13, <1>14, <1>19, <1>20 DEF Stored, ListsAgree
<1>22. h \in queue
  BY <1>1, <1>8, StoreParts, <1>9 DEF InOrder
<1>23. Answered
  BY <1>2, <1>3, <1>22 DEF Answered, h
<1>24. QED  BY <1>2, <1>21, <1>23 DEF Asked, Pointers, special

\* The packets that move to a PIFO are the first of its lane.
LEMMA MovedOK ==
  ASSUME Types, Placed, NEW i \in Lane
  PROVE  LET moved == ToSet(Moved(i))
             back  == SubSeq(lanes[i], Len(Moved(i)) + 1, Len(lanes[i]))
         IN  /\ back \in Seq(Packet) /\ Once(back)
             /\ ToSet(lanes[i]) = moved \cup ToSet(back) /\ moved \cap ToSet(back) = {}
             /\ lanes[i] # <<>> => moved # {}
<1> DEFINE s == lanes[i]
           n == Min({RefillBatch, Len(s)})
           front == SubSeq(s, 1, n)
<1>1. s \in Seq(Packet) /\ Once(s) /\ Len(s) \in Nat /\ (s # <<>> => Len(s) > 0)
  <2>1. s \in Seq(Packet) /\ Once(s)
    BY DEF Types, Placed
  <2> HIDE DEF s
  <2>2. Len(s) \in Nat /\ (s # <<>> => Len(s) \in Nat \ {0})
    BY <2>1, LenProperties, EmptySeq
  <2>3. QED  BY <2>1, <2>2
<1> HIDE DEF s
<1>2. n \in {RefillBatch, Len(s)} /\ n <= RefillBatch /\ n <= Len(s)
  <2> DEFINE T == {RefillBatch, Len(s)}
  <2>1. T \subseteq Nat /\ T # {} /\ RefillBatch \in T /\ Len(s) \in T
    BY <1>1, Parameters
  <2> HIDE DEF T
  <2>2. Min(T) \in T /\ \A x \in T : Min(T) <= x
    BY <2>1, MinFound
  <2>3. QED  BY <2>1, <2>2 DEF T
<1> HIDE DEF n
<1>3. n \in 0 .. Len(s) /\ (s # <<>> => n > 0)
  BY <1>1, <1>2, Parameters
<1>4. Moved(i) = front
  BY DEF Moved, n, s
<1>5. Len(front) = n
  <2>1. \A m \in 1 .. n : s[m] \in Packet
    BY <1>1, <1>3, ElementOfSeq
  <2>2. QED  BY <1>1, <1>3, <2>1
<1>6. /\ front \in Seq(Packet)
      /\ SubSeq(s, n + 1, Len(s)) \in Seq(Packet) /\ Once(SubSeq(s, n + 1, Len(s)))
      /\ ToSet(s) = ToSet(front) \cup ToSet(SubSeq(s, n + 1, Len(s)))
      /\ ToSet(front) \cap ToSet(SubSeq(s, n + 1, Len(s))) = {}
      /\ n > 0 => ToSet(front) # {}
  BY <1>1, <1>3, CutSeq
<1> HIDE DEF front
<1>7. QED  BY <1>3, <1>4, <1>5, <1>6 DEF s

\* At least the best packet stays in a PIFO that was empty: it is no longer than a lane.
LEMMA BestKept ==
  ASSUME NEW S, S \subseteq Packet, IsFiniteSet(S), Distinct(S), S # {}
  PROVE  Kept(S, Bytes(S)) # {}
<1>1. PICK k \in S : \A j \in S \ {k} : Less(k, j)
  BY SortedOK
<1>2. ~Less(k, k)
  BY Ordered
<1> DEFINE more == {j \in S : Less(k, j)}
<1>3. more = S \ {k}
  BY <1>1, <1>2
<1> HIDE DEF more
<1>4. Bytes(S \ {k}) = Bytes(S) - k.size
  BY BytesLess
<1>5. Bytes(S) \in Nat /\ k.size \in Nat /\ k.size <= LaneBuffer /\ LaneBuffer \in Nat
  BY PacketBytes, Fields, Parameters
<1>6. Bytes(S) - Bytes(more) <= LaneBuffer
  <2>1. Bytes(more) = Bytes(S) - k.size
    BY <1>3, <1>4
  <2>2. QED  BY <1>5, <2>1
<1>7. k \in Kept(S, Bytes(S))
  BY <1>6 DEF Kept, more
<1>8. QED  BY <1>7

LEMMA DistinctPart == ASSUME Numbered, NEW S, S \subseteq queue PROVE Distinct(S)
BY DEF Numbered, Distinct

LEMMA DequeueScaleUpOK ==
  ASSUME Stored, Pointers, Numbered, UNCHANGED disc, DequeueScaleUp
  PROVE  Asked
<1> DEFINE i     == outputPointer
           moved == ToSet(Moved(i))
           P     == pifos[i]
           had   == P # {}
           first == IF had THEN P ELSE Refilled({}, pifoSizes[i], moved)
           sends == Head(Sorted(first))
           rest  == first \ {sends}
           after == IF had THEN Refilled(rest, pifoSizes[i] - sends.size, moved) ELSE rest
           lost  == (P \cup moved) \ (after \cup {sends})
           back  == SubSeq(lanes[i], Len(Moved(i)) + 1, Len(lanes[i]))
           own   == ToSet(lanes[i])
           fresh == {}
<1>1. Types /\ Placed /\ InOrder /\ SizesAgree
  BY DEF Stored, ListsAgree, InOrder
<1>2. /\ disc = "scaleup" /\ outputPointer' = (outputPointer + 1) % NumLanes
      /\ UNCHANGED <<inputPointer, ready, ts>>
      /\ IF ~had /\ lanes[i] = <<>>
           THEN UNCHANGED <<store, outputCount>>
           ELSE /\ lanes' = [lanes EXCEPT ![i] = back]
                /\ sizes' = [sizes EXCEPT ![i] = sizes[i] - Bytes(moved)]
                /\ pifos' = [pifos EXCEPT ![i] = after]
                /\ pifoSizes' = [pifoSizes EXCEPT
                     ![i] = pifoSizes[i] + Bytes(moved) - sends.size - Bytes(lost)]
                /\ queue' = queue \ (lost \cup {sends})
                /\ outputCount' = outputCount + 1
  BY DEF DequeueScaleUp
<1>3. i \in Lane /\ {inputPointer, outputPointer} \subseteq 0 .. NumLanes - 1 /\ ts \in Nat
  BY <1>2, LaneRange DEF Pointers, AllDiscs
<1>4. outputPointer' \in 0 .. NumLanes - 1
  <2>1. outputPointer + 1 \in Nat
    BY <1>3, Parameters
  <2>2. QED  BY <1>2, <2>1, Rotation
<1> HIDE DEF i
<1>5. SUFFICES Stored' /\ queue' \subseteq queue /\ Answered
  BY <1>2, <1>3, <1>4 DEF Asked
<1>6. CASE ~had /\ lanes[i] = <<>>
  <2>1. UNCHANGED store /\ outputCount' = outputCount
    BY <1>2, <1>6
  <2>2. Stored' /\ queue' \subseteq queue
    BY <1>2, <2>1, StoreSame
  <2>3. QED  BY <2>1, <2>2 DEF Answered
<1>7. CASE had \/ lanes[i] # <<>>
  <2>1. /\ lanes' = [lanes EXCEPT ![i] = back]
        /\ sizes' = [sizes EXCEPT ![i] = sizes[i] - Bytes(moved)]
        /\ pifos' = [pifos EXCEPT ![i] = after]
        /\ pifoSizes' = [pifoSizes EXCEPT
             ![i] = pifoSizes[i] + Bytes(moved) - sends.size - Bytes(lost)]
        /\ queue' = queue \ (lost \cup {sends}) /\ outputCount' = outputCount + 1
    BY <1>2, <1>7
  <2>2. /\ back \in Seq(Packet) /\ Once(back)
        /\ own = moved \cup ToSet(back) /\ moved \cap ToSet(back) = {}
        /\ lanes[i] # <<>> => moved # {}
    BY <1>1, <1>3, MovedOK
  <2>3. InLane(i) \subseteq queue /\ P \subseteq Packet /\ IsFiniteSet(P)
        /\ IsFiniteSet(own) /\ own \subseteq Packet
        /\ own \cap P = {} /\ InLane(i) = own \cup P
    BY <1>1, <1>3, StoreParts DEF InOrder, InLane, Placed
  <2>4. sizes[i] = Bytes(own) /\ pifoSizes[i] = Bytes(P)
    BY <1>1, <1>2, <1>3 DEF SizesAgree
  <2> HIDE DEF moved, back, P, own
  <2>5. IsFiniteSet(moved) /\ moved \subseteq Packet /\ P \cap moved = {}
    <3>1. moved \in SUBSET own
      BY <2>2
    <3>2. IsFiniteSet(moved)
      BY <2>3, <3>1, FS_Subset
    <3>3. QED  BY <2>3, <3>1, <3>2
  <2>6. first \subseteq P \cup moved /\ first # {} /\ (had => first = P)
        /\ (~had => first \subseteq moved)
    <3>1. CASE had
      BY <3>1
    <3>2. CASE ~had
      <4>1. P = {} /\ pifoSizes[i] = 0
        BY <2>4, <3>2, BytesNone
      <4>2. moved # {}
        BY <1>7, <2>2, <3>2
      <4>3. Distinct(moved)
        BY <2>2, <2>3, DistinctPart
      <4>4. Bytes(moved) \in Nat
        BY <2>5, PacketBytes
      <4>5. first = Kept(moved, Bytes(moved))
        <5>1. pifoSizes[i] + Bytes(moved) = Bytes(moved)
          BY <4>1, <4>4
        <5>2. {} \cup moved = moved
          OBVIOUS
        <5>3. first = Kept({} \cup moved, pifoSizes[i] + Bytes(moved))
          BY <3>2 DEF Refilled
        <5> HIDE DEF first
        <5>4. QED  BY <5>1, <5>2, <5>3
      <4> HIDE DEF first
      <4>6. first # {}
        BY <2>5, <4>2, <4>3, <4>5, BestKept
      <4>7. first \subseteq moved
        BY <4>5 DEF Kept
      <4>8. QED  BY <3>2, <4>6, <4>7
    <3>3. QED  BY <3>1, <3>2
  <2> HIDE DEF first
  <2>7. sends \in first
    <3>1. first \in SUBSET (P \cup moved) /\ IsFiniteSet(P \cup moved)
      BY <2>3, <2>5, <2>6, FS_Union
    <3>2. IsFiniteSet(first) /\ first \subseteq Packet
      BY <2>3, <2>5, <3>1, FS_Subset
    <3>3. Distinct(first)
      BY <2>2, <2>3, <2>6, DistinctPart
    <3>4. Sorted(first) \in Seq(Packet) /\ Once(Sorted(first)) /\ ToSet(Sorted(first)) = first
      BY <3>2, <3>3, SortedOK
    <3>5. Sorted(first) # <<>>
      BY <2>6, <3>4, ToSetType
    <3>6. QED  BY <3>4, <3>5, TailSet
  <2> HIDE DEF sends
  <2>8. after \subseteq (P \cup moved) \ {sends}
    <3>1. CASE had
      <4>1. after \subseteq rest \cup moved
        BY <3>1 DEF Refilled, Kept
      <4>2. QED  BY <2>5, <2>6, <2>7, <3>1, <4>1
    <3>2. CASE ~had
      BY <2>6, <3>2
    <3>3. QED  BY <3>1, <3>2
  <2> HIDE DEF after
  <2>9. sends \in P \cup moved /\ sends \in Packet
    BY <2>3, <2>5, <2>6, <2>7
  <2>10. /\ IsFiniteSet(after) /\ after \subseteq Packet
         /\ Bytes(after) = Bytes(P) + Bytes(moved) - sends.size - Bytes(lost)
    <3> DEFINE all == P \cup moved
               left == all \ {sends}
    <3>1. IsFiniteSet(all) /\ all \subseteq Packet /\ IsFiniteSet(left) /\ left \subseteq Packet
      BY <2>3, <2>5, FS_Union, FS_RemoveElement
    <3>2. \A k \in all : k.size \in Nat
      BY <3>1, Fields
    <3>3. Bytes(all) = Bytes(P) + Bytes(moved) /\ Bytes(P) \in Nat /\ Bytes(moved) \in Nat
      BY <2>3, <2>5, <3>2, BytesAdd
    <3>4. Bytes(left) = Bytes(all) - sends.size
      <4> HIDE DEF all
      <4>1. sends \in all
        BY <2>9 DEF all
      <4>2. QED  BY <3>1, <4>1, BytesLess
    <3>5. lost = left \ after /\ after \subseteq left /\ \A k \in left : k.size \in Nat
      BY <2>8, <3>2
    <3> HIDE DEF left, lost, all
    <3>6. Bytes(left) = Bytes(after) + Bytes(lost)
          /\ Bytes(left) \in Nat /\ Bytes(after) \in Nat /\ Bytes(lost) \in Nat
      BY <3>1, <3>5, BytesParts
    <3>7. sends.size \in Nat
      BY <2>9, Fields
    <3>8. Bytes(after) = Bytes(P) + Bytes(moved) - sends.size - Bytes(lost)
      BY <3>3, <3>4, <3>6, <3>7
    <3>9. IsFiniteSet(after) /\ after \subseteq Packet
      BY <3>1, <3>5, FS_Subset
    <3>10. QED  BY <3>8, <3>9
  <2>11. pifoSizes' = [pifoSizes EXCEPT ![i] = Bytes(after)]
    BY <2>1, <2>4, <2>10
  <2>12. sizes' = [sizes EXCEPT ![i] = Bytes(ToSet(back))]
    <3>1. Bytes(own) = Bytes(moved) + Bytes(ToSet(back)) /\ Bytes(moved) \in Nat
          /\ Bytes(ToSet(back)) \in Nat
      <4>1. IsFiniteSet(ToSet(back)) /\ \A k \in moved \cup ToSet(back) : k.size \in Nat
        BY <2>2, <2>5, QueueBytes, Fields
      <4>2. QED  BY <2>2, <2>5, <4>1, BytesAdd
    <3>2. Bytes(own) - Bytes(moved) = Bytes(ToSet(back))
      BY <3>1
    <3>3. QED  BY <2>1, <2>4, <3>2
  <2>13. ToSet(back) \cap after = {} /\ ToSet(back) \cup after \subseteq InLane(i) \cup fresh
         /\ fresh \cap queue = {}
    BY <2>2, <2>3, <2>8
  <2>14. queue' = (queue \ (InLane(i) \ (ToSet(back) \cup after))) \cup ToSet(back) \cup after
    <3>1. InLane(i) \ (ToSet(back) \cup after) = lost \cup {sends}
      BY <2>2, <2>3, <2>5, <2>8, <2>9
    <3>2. (ToSet(back) \cup after) \cap (lost \cup {sends}) = {}
          /\ ToSet(back) \cup after \subseteq queue
      BY <2>2, <2>3, <2>8, <3>1
    <3> HIDE DEF lost
    <3>3. QED  BY <2>1, <3>1, <3>2
  <2> HIDE DEF fresh, lost
  <2>15. disc # "wfqpcq" /\ UNCHANGED <<disc, ready>>
    BY <1>2
  <2>16. Stored'
    BY <1>3, <2>1, <2>2, <2>10, <2>11, <2>12, <2>13, <2>14, <2>15, LaneStep
  <2>17. sends \in queue
    BY <2>2, <2>3, <2>9
  <2>18. QED  BY <2>1, <2>16, <2>17 DEF Answered
<1>8. QED  BY <1>6, <1>7

-----------------------------------------------------------------------------
(***************************************************************************)
(* dequeue of Gearbox                                                      *)
(***************************************************************************)
LEMMA RangeOfTime == MaxRange \in Nat \ {0}
<1> DEFINE n == NumLevels - 1
           f == [l \in 0 .. n |-> Granularities[l] * NumLanes]
           T == {Granularities[l] * NumLanes : l \in Levels}
<1>1. n \in Nat /\ Levels = 0 .. n
  BY Parameters DEF Levels
<1>2. \A l \in 0 .. n : f[l] = Granularities[l] * NumLanes /\ f[l] \in Nat \ {0}
  <2> SUFFICES ASSUME NEW l \in 0 .. n
               PROVE  Granularities[l] * NumLanes \in Nat \ {0}
    OBVIOUS
  <2> DEFINE x == Granularities[l]
             y == NumLanes
  <2>1. x \in Nat \ {0} /\ y \in Nat \ {0}
    BY <1>1, Gears, Parameters
  <2> HIDE DEF x, y
  <2>2. x * y \in Nat \ {0}
    BY <2>1
  <2>3. QED  BY <2>2 DEF x, y
<1>3. f \in [0 .. n -> Int] /\ T = {f[l] : l \in 0 .. n}
  <2>1. T = {f[l] : l \in 0 .. n}
    BY <1>1
  <2>2. f = [l \in 0 .. n |-> f[l]]
    OBVIOUS
  <2>3. \A l \in 0 .. n : f[l] \in Int
    <3> HIDE DEF f
    <3>1. QED  BY <1>2
  <2> HIDE DEF f, T
  <2>4. f \in [0 .. n -> Int]
    BY <2>2, <2>3
  <2>5. QED  BY <2>1, <2>4
<1> HIDE DEF n, f, T
<1>4. PICK i \in 0 .. n : \A j \in 0 .. n : f[j] < f[i] \/ (f[j] = f[i] /\ i <= j)
  BY <1>1, <1>3, FirstMaximum
<1>5. \A j \in 0 .. n : f[j] \in 0 .. f[i]
  BY <1>2, <1>4
<1>6. f[i] \in Nat /\ T \subseteq 0 .. f[i] /\ T # {}
  BY <1>2, <1>3, <1>5
<1>7. Max(T) \in T
  BY <1>6, MaxFound
<1>8. Max(T) \in Nat \ {0}
  BY <1>2, <1>3, <1>7
<1>9. QED  BY <1>8 DEF MaxRange, T

LEMMA TimeTurn == ASSUME NEW e \in Nat PROVE e % MaxRange \in Nat
<1> DEFINE n == MaxRange
<1>1. n \in Nat \ {0}
  BY RangeOfTime
<1> HIDE DEF n
<1>2. e % n \in 0 .. n - 1
  BY <1>1, DivMod
<1>3. e % n \in Nat
  BY <1>1, <1>2
<1>4. QED  BY <1>3 DEF n

LEMMA NextTimeType == ASSUME ts \in Nat PROVE NextTime \in Nat
<1> DEFINE busy == {d \in 0 .. MaxRange - 1 :
                      \E i \in Compound((ts + d) % MaxRange) : lanes[i] # <<>>}
<1>1. NextTime = IF busy = {} THEN ts ELSE (ts + Min(busy)) % MaxRange
  BY DEF NextTime
<1>2. busy \subseteq Nat
  BY RangeOfTime
<1> HIDE DEF busy
<1>3. busy # {} => Min(busy) \in Nat
  BY <1>2, MinFound
<1>4. busy # {} => (ts + Min(busy)) % MaxRange \in Nat
  <2> SUFFICES ASSUME busy # {} PROVE (ts + Min(busy)) % MaxRange \in Nat
    OBVIOUS
  <2>1. ts + Min(busy) \in Nat
    BY <1>3
  <2>2. QED  BY <2>1, TimeTurn
<1>5. QED  BY <1>1, <1>4

\* A lane belongs to a level.
LEMMA LevelOfLane ==
  ASSUME disc = "gearbox", NEW i \in Lane
  PROVE  i \div NumLanes \in Levels
<1> DEFINE x == NumLanes
           y == NumLevels
           q == i \div x
<1>1. x \in Nat \ {0} /\ y \in Nat \ {0} /\ Lane = 0 .. x * y - 1
  BY Parameters, LaneRange
<1> HIDE DEF x, y
<1>2. x * y \in Nat
  BY <1>1
<1>3. i \in Nat /\ i < x * y
  BY <1>1, <1>2
<1>4. q \in Nat /\ i % x \in 0 .. x - 1 /\ i = x * q + (i % x)
  BY <1>1, <1>3, DivMod
<1> HIDE DEF q
<1>5. q < y
  <2> SUFFICES ASSUME q >= y PROVE FALSE
    BY <1>1, <1>4
  <2> DEFINE d == q - y
  <2>1. d \in Nat /\ q = y + d
    BY <1>1, <1>4
  <2> HIDE DEF d
  <2>2. x * q = x * y + x * d /\ x * d \in Nat
    BY <1>1, <2>1
  <2>3. x * q \in Nat
    BY <1>1, <1>4
  <2>4. QED  BY <1>2, <1>3, <1>4, <1>1, <2>2, <2>3
<1>6. QED  BY <1>1, <1>4, <1>5 DEF q, x, y, Levels

LEMMA ServeCountOK ==
  ASSUME NEW l \in Levels, NEW n \in Nat, n > 0
  PROVE  ServeCount(l, n) \in 0 .. n
<1> DEFINE g == Granularities[l]
           q == n \div g
<1>1. g \in Nat \ {0}
  BY Gears
<1> HIDE DEF g
<1>2. q \in Nat /\ n % g \in 0 .. g - 1 /\ n = g * q + (n % g)
  BY <1>1, DivMod
<1>3. q <= n
  <2> HIDE DEF q
  <2> DEFINE h == g - 1
  <2>1. h \in Nat /\ g = h + 1
    BY <1>1
  <2> HIDE DEF h
  <2>2. g * q = h * q + q /\ h * q \in Nat
    BY <1>2, <2>1
  <2>3. g * q \in Nat /\ n % g \in Nat
    BY <1>1, <1>2
  <2>4. QED  BY <1>2, <2>2, <2>3
<1>4. ServeCount(l, n) = IF l = 0 THEN n ELSE Max({1, q})
  BY DEF ServeCount, g
<1> HIDE DEF q
<1>5. Max({1, q}) \in {1, q}
  <2> DEFINE T == {1, q}
  <2>1. T \subseteq 0 .. n /\ T # {}
    BY <1>2, <1>3
  <2> HIDE DEF T
  <2>2. Max(T) \in T
    BY <2>1, MaxFound
  <2>3. QED  BY <2>2 DEF T
<1>6. QED  BY <1>2, <1>3, <1>4, <1>5

LEMMA ServedOK ==
  ASSUME Types, disc = "gearbox", NEW time, NEW i \in Lane
  PROVE  Served(time)[i] \in 0 .. Len(lanes[i])
<1> DEFINE l == i \div NumLanes
<1>1. l \in Levels
  BY LevelOfLane
<1> HIDE DEF l
<1>2. lanes[i] \in Seq(Packet)
  BY DEF Types
<1>3. Len(lanes[i]) \in Nat /\ (lanes[i] # <<>> => Len(lanes[i]) > 0)
  <2> DEFINE s == lanes[i]
  <2> HIDE DEF s
  <2>1. Len(s) \in Nat /\ (s # <<>> => Len(s) \in Nat \ {0})
    BY <1>2, LenProperties, EmptySeq DEF s
  <2>2. Len(s) \in Nat /\ (s # <<>> => Len(s) > 0)
    BY <2>1
  <2>3. QED  BY <2>2 DEF s
<1>4. Served(time)[i] = IF Slot(l, time) = i /\ lanes[i] # <<>>
                          THEN ServeCount(l, Len(lanes[i])) ELSE 0
  BY DEF Served, l
<1>5. lanes[i] # <<>> => ServeCount(l, Len(lanes[i])) \in 0 .. Len(lanes[i])
  BY <1>1, <1>3, ServeCountOK
<1>6. QED  BY <1>3, <1>4, <1>5

\* The lanes are read one after the other.
LEMMA LaneCount ==
  ASSUME disc = "gearbox"
  PROVE  /\ Cardinality(Lane) \in Nat \ {0} /\ Lane = 0 .. Cardinality(Lane) - 1
<1> DEFINE x == NumLanes
           y == NumLevels
           q == x * y
<1>1. x \in Nat \ {0} /\ y \in Nat \ {0} /\ Lane = 0 .. q - 1 /\ 0 \in Lane
  BY Parameters, LaneRange
<1> HIDE DEF x, y
<1>2. q \in Nat
  BY <1>1
<1> HIDE DEF q
<1>3. q > 0
  BY <1>1, <1>2
<1> DEFINE m == 0
           n == q - 1
<1>4. m \in Int /\ n \in Int /\ m <= n + 1 /\ Lane = m .. n /\ n - m + 1 = q
  BY <1>1, <1>2, <1>3
<1> HIDE DEF m, n
<1>5. Cardinality(m .. n) = n - m + 1
  BY <1>4, IntervalSize
<1>6. Cardinality(Lane) = q
  BY <1>4, <1>5
<1>7. QED  BY <1>1, <1>2, <1>3, <1>6

LEMMA DequeueGearboxOK ==
  ASSUME Stored, Pointers, UNCHANGED disc, DequeueGearbox
  PROVE  Asked
<1> DEFINE served == IF ready = <<>> THEN Served(NextTime) ELSE [i \in Lane |-> 0]
           front(i) == SubSeq(lanes[i], 1, served[i])
           back(i)  == SubSeq(lanes[i], served[i] + 1, Len(lanes[i]))
           moved  == [i \in Lane |-> front(i)]
           c      == Cardinality(Lane)
           parts  == [n \in 1 .. c |-> moved[n - 1]]
           flat   == FlattenSeq(parts)
           queued == ready \o flat
           gone   == IF queued = <<>> THEN {} ELSE {Head(queued)}
<1>1. Types /\ Placed /\ InOrder /\ SizesAgree
  BY DEF Stored, ListsAgree, InOrder
<1>2. /\ disc = "gearbox" /\ Lane' = Lane
      /\ ts' = IF ready = <<>> THEN (NextTime + 1) % MaxRange ELSE ts
      /\ lanes' = [i \in Lane |-> back(i)]
      /\ sizes' = [i \in Lane |-> sizes[i] - Bytes(ToSet(moved[i]))]
      /\ IF queued = <<>>
           THEN UNCHANGED <<ready, queue, outputCount>>
           ELSE /\ ready' = Tail(queued) /\ queue' = queue \ {Head(queued)}
                /\ outputCount' = outputCount + 1
      /\ UNCHANGED <<pifos, pifoSizes, inputPointer, outputPointer>>
  BY DEF DequeueGearbox, Lane
<1>3. ts' \in Nat
  <2>1. ts \in Nat
    BY DEF Pointers
  <2>2. NextTime + 1 \in Nat
    BY <2>1, NextTimeType
  <2>3. (NextTime + 1) % MaxRange \in Nat
    BY <2>2, TimeTurn
  <2>4. QED  BY <1>2, <2>1, <2>3
<1>4. \A i \in Lane : served[i] \in 0 .. Len(lanes[i])
  <2> SUFFICES ASSUME NEW i \in Lane PROVE served[i] \in 0 .. Len(lanes[i])
    OBVIOUS
  <2>1. Len(lanes[i]) \in Nat
    <3>1. lanes[i] \in Seq(Packet)
      BY <1>1 DEF Types
    <3>2. QED  BY <3>1, LenProperties
  <2>2. QED  BY <1>1, <1>2, <2>1, ServedOK
<1> HIDE DEF served
<1>5. ASSUME NEW i \in Lane
      PROVE  /\ front(i) \in Seq(Packet) /\ Once(front(i))
             /\ back(i) \in Seq(Packet) /\ Once(back(i))
             /\ ToSet(lanes[i]) = ToSet(front(i)) \cup ToSet(back(i))
             /\ ToSet(front(i)) \cap ToSet(back(i)) = {}
  <2> DEFINE s == lanes[i]
             n == served[i]
  <2>1. s \in Seq(Packet) /\ Once(s) /\ n \in 0 .. Len(s)
    BY <1>1, <1>4 DEF Types, Placed
  <2> HIDE DEF s, n
  <2>2. /\ SubSeq(s, 1, n) \in Seq(Packet) /\ Once(SubSeq(s, 1, n))
        /\ SubSeq(s, n + 1, Len(s)) \in Seq(Packet) /\ Once(SubSeq(s, n + 1, Len(s)))
        /\ ToSet(s) = ToSet(SubSeq(s, 1, n)) \cup ToSet(SubSeq(s, n + 1, Len(s)))
        /\ ToSet(SubSeq(s, 1, n)) \cap ToSet(SubSeq(s, n + 1, Len(s))) = {}
    BY <2>1, CutSeq
  <2>3. QED  BY <2>2 DEF s, n
<1> HIDE DEF front, back
<1>6. \A i \in Lane : moved[i] = front(i)
  OBVIOUS
<1> HIDE DEF moved
<1>7. c \in Nat \ {0} /\ Lane = 0 .. c - 1
  BY <1>2, LaneCount
<1> HIDE DEF c
<1>8. \A i, j \in Lane : i # j => ToSet(lanes[i]) \cap ToSet(lanes[j]) = {}
  BY <1>1 DEF Placed, InLane
<1>9. /\ \A n \in 1 .. c : n - 1 \in Lane /\ parts[n] = front(n - 1)
      /\ \A i \in Lane : i + 1 \in 1 .. c /\ parts[i + 1] = front(i)
  <2>1. \A n \in 1 .. c : n - 1 \in Lane
    BY <1>7
  <2>2. \A i \in Lane : i + 1 \in 1 .. c /\ (i + 1) - 1 = i
    BY <1>7
  <2>3. \A n \in 1 .. c : parts[n] = moved[n - 1]
    OBVIOUS
  <2> HIDE DEF parts
  <2>4. QED  BY <1>6, <2>1, <2>2, <2>3
<1>10. parts \in [1 .. c -> Seq(Packet)]
  <2>1. parts = [n \in 1 .. c |-> parts[n]]
    OBVIOUS
  <2> HIDE DEF parts
  <2>2. \A n \in 1 .. c : parts[n] \in Seq(Packet)
    BY <1>5, <1>9
  <2>3. QED  BY <2>1, <2>2
<1> HIDE DEF parts
<1>11. /\ flat \in Seq(Packet) /\ Once(flat)
       /\ ToSet(flat) = UNION {ToSet(front(i)) : i \in Lane}
  <2>1. \A n \in 1 .. c : Once(parts[n])
    BY <1>5, <1>9
  <2>2. \A n, k \in 1 .. c : n # k => ToSet(parts[n]) \cap ToSet(parts[k]) = {}
    <3> SUFFICES ASSUME NEW n \in 1 .. c, NEW k \in 1 .. c, n # k
                 PROVE  ToSet(parts[n]) \cap ToSet(parts[k]) = {}
      OBVIOUS
    <3> DEFINE i == n - 1
               j == k - 1
    <3>1. i \in Lane /\ j \in Lane /\ i # j /\ parts[n] = front(i) /\ parts[k] = front(j)
      BY <1>7, <1>9
    <3> HIDE DEF i, j
    <3>2. ToSet(front(i)) \subseteq ToSet(lanes[i]) /\ ToSet(front(j)) \subseteq ToSet(lanes[j])
      BY <1>5, <3>1
    <3>3. ToSet(lanes[i]) \cap ToSet(lanes[j]) = {}
      BY <1>8, <3>1
    <3>4. QED  BY <3>1, <3>2, <3>3
  <2>3. /\ flat \in Seq(Packet) /\ Once(flat)
        /\ ToSet(flat) = UNION {ToSet(parts[n]) : n \in 1 .. c}
    BY <1>7, <1>10, <2>1, <2>2, FlattenedQueues
  <2>4. UNION {ToSet(parts[n]) : n \in 1 .. c} \subseteq UNION {ToSet(front(i)) : i \in Lane}
    BY <1>9
  <2>5. UNION {ToSet(front(i)) : i \in Lane} \subseteq UNION {ToSet(parts[n]) : n \in 1 .. c}
    BY <1>9
  <2>6. QED  BY <2>3, <2>4, <2>5
<1> HIDE DEF flat
<1>12. \A i \in Lane : ToSet(lanes[i]) \cap ToSet(ready) = {} /\ pifos[i] \cap ToSet(ready) = {}
  BY <1>1 DEF Placed, InLane
<1>13. \A i \in Lane : ToSet(front(i)) \subseteq ToSet(lanes[i]) /\ ToSet(back(i)) \subseteq ToSet(lanes[i])
  BY <1>5
<1>14. ready \in Seq(Packet) /\ Once(ready) /\ ToSet(ready) \cap ToSet(flat) = {}
  BY <1>1, <1>11, <1>12, <1>13 DEF Types, Placed
<1>15. queued \in Seq(Packet) /\ Once(queued) /\ ToSet(queued) = ToSet(ready) \cup ToSet(flat)
  BY <1>11, <1>14, ConcatSet
<1> HIDE DEF queued
<1>16. /\ ready' \in Seq(Packet) /\ Once(ready') /\ ToSet(ready') = ToSet(queued) \ gone
       /\ gone \subseteq ToSet(queued) /\ queue' = queue \ gone
  <2>1. CASE queued = <<>>
    <3>1. ToSet(queued) = {}
      BY <1>15, <2>1, ToSetType
    <3>2. ToSet(ready) = {} /\ ready' = ready /\ queue' = queue /\ gone = {}
      BY <1>2, <1>15, <2>1, <3>1
    <3> HIDE DEF gone
    <3>3. QED  BY <1>14, <3>1, <3>2
  <2>2. CASE queued # <<>>
    <3>1. gone = {Head(queued)} /\ ready' = Tail(queued) /\ queue' = queue \ gone
      BY <1>2, <2>2
    <3> HIDE DEF gone
    <3>2. QED  BY <1>15, <2>2, <3>1, TailSet
  <2>3. QED  BY <2>1, <2>2
<1> HIDE DEF gone
<1>17. ASSUME NEW i \in Lane
       PROVE  lanes'[i] = back(i) /\ pifos'[i] = pifos[i] /\ InLane(i)' = ToSet(back(i)) \cup pifos[i]
  <2>1. lanes'[i] = back(i) /\ pifos'[i] = pifos[i]
    BY <1>2
  <2>2. QED  BY <2>1 DEF InLane
<1>18. ASSUME NEW i \in Lane, NEW j \in Lane
       PROVE  (ToSet(back(i)) \cup pifos[i]) \cap ToSet(front(j)) = {}
  <2>1. CASE i = j
    <3>1. ToSet(lanes[i]) \cap pifos[i] = {}
      BY <1>1 DEF Placed
    <3>2. QED  BY <1>5, <1>13, <2>1, <3>1
  <2>2. CASE i # j
    <3>1. InLane(i) \cap InLane(j) = {}
      BY <1>1, <2>2 DEF Placed
    <3>2. QED  BY <1>13, <3>1 DEF InLane
  <2>3. QED  BY <2>1, <2>2
<1>19. \A i \in Lane : (ToSet(back(i)) \cup pifos[i]) \cap ToSet(queued) = {}
  <2> SUFFICES ASSUME NEW i \in Lane
               PROVE  (ToSet(back(i)) \cup pifos[i]) \cap ToSet(queued) = {}
    OBVIOUS
  <2>1. (ToSet(back(i)) \cup pifos[i]) \cap ToSet(flat) = {}
    BY <1>11, <1>18
  <2>2. (ToSet(back(i)) \cup pifos[i]) \cap ToSet(ready) = {}
    BY <1>12, <1>13
  <2>3. QED  BY <1>15, <2>1, <2>2
<1>20. lanes' \in [Lane -> Seq(Packet)]
  BY <1>2, <1>5
<1>21. Placed'
  <2>1. \A i \in Lane : /\ Once(lanes'[i]) /\ ToSet(lanes'[i]) \cap pifos'[i] = {}
                        /\ InLane(i)' \cap ToSet(ready') = {}
    <3> SUFFICES ASSUME NEW i \in Lane
                 PROVE  /\ Once(lanes'[i]) /\ ToSet(lanes'[i]) \cap pifos'[i] = {}
                        /\ InLane(i)' \cap ToSet(ready') = {}
      OBVIOUS
    <3>1. ToSet(lanes[i]) \cap pifos[i] = {}
      BY <1>1 DEF Placed
    <3>2. Once(lanes'[i]) /\ ToSet(lanes'[i]) \cap pifos'[i] = {}
      BY <1>5, <1>13, <1>17, <3>1
    <3>3. InLane(i)' \cap ToSet(ready') = {}
      BY <1>16, <1>17, <1>19
    <3>4. QED  BY <3>2, <3>3
  <2>2. \A i, j \in Lane : i # j => InLane(i)' \cap InLane(j)' = {}
    <3> SUFFICES ASSUME NEW i \in Lane, NEW j \in Lane, i # j
                 PROVE  InLane(i)' \cap InLane(j)' = {}
      OBVIOUS
    <3>1. InLane(i) \cap InLane(j) = {}
      BY <1>1 DEF Placed
    <3>2. InLane(i)' \subseteq InLane(i) /\ InLane(j)' \subseteq InLane(j)
      BY <1>13, <1>17 DEF InLane
    <3>3. QED  BY <3>1, <3>2
  <2>3. disc' # "wfqpcq"
    BY <1>2
  <2>4. QED  BY <1>2, <1>16, <2>1, <2>2, <2>3 DEF Placed
<1>22. queue' = InLanes' \cup ToSet(ready')
  <2>1. InLanes' = UNION {ToSet(back(i)) \cup pifos[i] : i \in Lane}
    <3>1. InLanes' = UNION {InLane(i)' : i \in Lane}
      BY <1>2 DEF InLanes, InLane
    <3>2. QED  BY <1>17, <3>1
  <2>2. InLanes = UNION {ToSet(lanes[i]) \cup pifos[i] : i \in Lane}
    BY DEF InLanes
  <2>3. queue \subseteq InLanes' \cup ToSet(queued)
    <3>1. \A i \in Lane : ToSet(lanes[i]) \cup pifos[i] \subseteq InLanes' \cup ToSet(queued)
      <4> SUFFICES ASSUME NEW i \in Lane
                   PROVE  ToSet(lanes[i]) \cup pifos[i] \subseteq InLanes' \cup ToSet(queued)
        OBVIOUS
      <4>1. ToSet(front(i)) \subseteq ToSet(queued)
        BY <1>11, <1>15
      <4>2. ToSet(back(i)) \cup pifos[i] \subseteq InLanes'
        BY <2>1
      <4>3. QED  BY <1>5, <4>1, <4>2
    <3>2. QED  BY <1>1, <1>15, <2>2, <3>1 DEF InOrder
  <2>4. InLanes' \cup ToSet(queued) \subseteq queue
    <3>1. InLanes' \subseteq InLanes
      BY <1>13, <2>1, <2>2
    <3>2. ToSet(flat) \subseteq InLanes
      BY <1>11, <1>13, <2>2
    <3>3. QED  BY <1>1, <1>15, <3>1, <3>2 DEF InOrder
  <2>5. InLanes' \cap gone = {}
    BY <1>16, <1>19, <2>1
  <2>6. QED  BY <1>16, <2>3, <2>4, <2>5
<1>23. ASSUME NEW i \in Lane
       PROVE  sizes'[i] = Bytes(ToSet(lanes'[i])) /\ pifoSizes'[i] = Bytes(pifos'[i])
              /\ sizes'[i] \in Int
  <2> DEFINE S == ToSet(front(i))
             T == ToSet(back(i))
  <2>1. S \cap T = {} /\ IsFiniteSet(S) /\ IsFiniteSet(T) /\ \A k \in S \cup T : k.size \in Nat
    BY <1>5, QueueBytes
  <2>2. ToSet(lanes[i]) = S \cup T
    BY <1>5
  <2> HIDE DEF S, T
  <2>3. Bytes(S \cup T) = Bytes(S) + Bytes(T) /\ Bytes(S) \in Nat /\ Bytes(T) \in Nat
    BY <2>1, BytesAdd
  <2>4. sizes[i] = Bytes(S \cup T) /\ pifoSizes[i] = Bytes(pifos[i])
    BY <1>1, <1>2, <2>2 DEF SizesAgree
  <2>5. sizes'[i] = sizes[i] - Bytes(S)
    BY <1>2, <1>6 DEF S
  <2>6. sizes'[i] = Bytes(T) /\ sizes'[i] \in Int
    BY <2>3, <2>4, <2>5
  <2>7. pifoSizes'[i] = Bytes(pifos'[i])
    BY <1>2, <2>4
  <2>8. QED  BY <1>17, <2>6, <2>7 DEF T
<1>24. SizesAgree'
  BY <1>2, <1>23 DEF SizesAgree
<1>25. Types'
  <2>1. sizes' \in [Lane -> Int]
    <3>1. sizes' = [i \in Lane |-> sizes'[i]]
      BY <1>2
    <3>2. QED  BY <1>23, <3>1
  <2>2. QED  BY <1>1, <1>2, <1>16, <1>20, <2>1 DEF Types
<1>26. Stored' /\ queue' \subseteq queue
  BY <1>16, <1>21, <1>22, <1>24, <1>25 DEF Stored, ListsAgree
<1>27. Answered
  <2>1. CASE queued = <<>>
    BY <1>2, <2>1 DEF Answered
  <2>2. CASE queued # <<>>
    <3>1. Head(queued) \in ToSet(queued)
      BY <1>15, <2>2, TailSet
    <3>2. ToSet(flat) \subseteq queue
      <4>1. \A i \in Lane : ToSet(front(i)) \subseteq queue
        BY <1>1, <1>13, StoreParts DEF InLane, InOrder
      <4>2. QED  BY <1>11, <4>1
    <3>3. Head(queued) \in queue
      BY <1>1, <1>15, <3>1, <3>2 DEF InOrder
    <3>4. QED  BY <1>2, <2>2, <3>3 DEF Answered
  <2>3. QED  BY <2>1, <2>2
<1>28. QED  BY <1>2, <1>3, <1>26, <1>27 DEF Asked, Pointers

-----------------------------------------------------------------------------
(***************************************************************************)
(* The invariant                                                           *)
(***************************************************************************)
LEMMA NumbersStay ==
  ASSUME Numbered, Pointers, queue \subseteq Packet, NEW k, New(k),
         \/ queue' \subseteq queue /\ inputCount' = inputCount
         \/ queue' \subseteq queue \cup {k} /\ inputCount' = inputCount + 1
  PROVE  Numbered' /\ inputCount' \in Nat
<1>1. inputCount \in Nat /\ k.id = inputCount + 1
  BY DEF Pointers, New
<1>2. \A j \in queue : j.id \in Nat /\ j.id <= inputCount
  BY Fields DEF Numbered
<1>3. \A i, j \in queue : i.id = j.id => i = j
  BY DEF Numbered
<1>4. CASE queue' \subseteq queue /\ inputCount' = inputCount
  BY <1>1, <1>2, <1>3, <1>4 DEF Numbered
<1>5. CASE queue' \subseteq queue \cup {k} /\ inputCount' = inputCount + 1
  <2>1. \A j \in queue \cup {k} : j.id <= inputCount + 1
    BY <1>1, <1>2
  <2>2. \A j \in queue : j.id # k.id
    BY <1>1, <1>2
  <2>3. \A i, j \in queue \cup {k} : i.id = j.id => i = j
    BY <1>3, <2>2
  <2>4. QED  BY <1>1, <1>5, <2>1, <2>3 DEF Numbered
<1>6. QED  BY <1>4, <1>5

LEMMA AccountKept ==
  ASSUME Accounted, IsFiniteSet(queue), inputCount \in Nat,
         \/ \E k : queue' \subseteq queue \cup {k} /\ inputCount' = inputCount + 1
                  /\ outputCount' = outputCount
         \/ queue' \subseteq queue /\ inputCount' = inputCount /\ Answered
  PROVE  Accounted'
<1>1. outputCount \in Nat /\ outputCount + Cardinality(queue) <= inputCount
      /\ Cardinality(queue) \in Nat
  BY FS_CardinalityType DEF Accounted
<1>2. ASSUME NEW S, IsFiniteSet(S), queue' \subseteq S
      PROVE  Cardinality(queue') \in Nat /\ Cardinality(queue') <= Cardinality(S)
             /\ Cardinality(S) \in Nat
  BY <1>2, FS_Subset, FS_CardinalityType
<1>3. CASE \E k : queue' \subseteq queue \cup {k} /\ inputCount' = inputCount + 1
                  /\ outputCount' = outputCount
  <2>1. PICK k : queue' \subseteq queue \cup {k}
    BY <1>3
  <2>2. IsFiniteSet(queue \cup {k}) /\ Cardinality(queue \cup {k}) <= Cardinality(queue) + 1
    <3> DEFINE c == Cardinality(queue)
               d == Cardinality(queue \cup {k})
    <3>1. IsFiniteSet(queue \cup {k}) /\ d = IF k \in queue THEN c ELSE c + 1
      BY FS_AddElement
    <3>2. c \in Nat
      BY <1>1
    <3> HIDE DEF c, d
    <3>3. d <= c + 1
      BY <3>1, <3>2
    <3>4. QED  BY <3>1, <3>3 DEF c, d
  <2>3. Cardinality(queue') \in Nat /\ Cardinality(queue') <= Cardinality(queue) + 1
    BY <1>1, <1>2, <2>1, <2>2
  <2>4. inputCount' = inputCount + 1 /\ outputCount' = outputCount
    BY <1>3
  <2>5. QED  BY <1>1, <2>3, <2>4 DEF Accounted
<1>4. CASE queue' \subseteq queue /\ inputCount' = inputCount /\ outputCount' = outputCount
  <2>1. Cardinality(queue') \in Nat /\ Cardinality(queue') <= Cardinality(queue)
    BY <1>2, <1>4
  <2>2. QED  BY <1>1, <1>4, <2>1 DEF Accounted
<1>5. CASE /\ outputCount' = outputCount + 1 /\ inputCount' = inputCount
           /\ \E h \in queue : queue' \subseteq queue \ {h}
  <2>1. PICK h \in queue : queue' \subseteq queue \ {h}
    BY <1>5
  <2>2. IsFiniteSet(queue \ {h}) /\ Cardinality(queue \ {h}) = Cardinality(queue) - 1
    BY FS_RemoveElement
  <2>3. Cardinality(queue') \in Nat /\ Cardinality(queue') <= Cardinality(queue) - 1
    BY <1>2, <2>1, <2>2
  <2>4. QED  BY <1>1, <1>5, <2>3 DEF Accounted
<1>6. QED  BY <1>3, <1>4, <1>5 DEF Answered

LEMMA StartOK == Init => Inv
<1> SUFFICES ASSUME Init PROVE Inv
  OBVIOUS
<1>1. /\ disc \in Discs /\ lanes = [i \in Lane |-> <<>>] /\ sizes = [i \in Lane |-> 0]
      /\ pifos = [i \in Lane |-> {}] /\ pifoSizes = [i \in Lane |-> 0]
      /\ inputPointer = 0 /\ outputPointer = 0 /\ ready = <<>> /\ ts = 0 /\ queue = {}
      /\ inputCount = 0 /\ outputCount = 0 /\ state = "loop"
  BY DEF Init
<1>2. <<>> \in Seq(Packet) /\ Once(<<>>) /\ ToSet(<<>>) = {} /\ IsFiniteSet({})
  BY EmptySeq, FS_EmptySet DEF Once, ToSet
<1>3. \A i \in Lane : /\ lanes[i] = <<>> /\ pifos[i] = {} /\ InLane(i) = {}
                      /\ sizes[i] = 0 /\ pifoSizes[i] = 0
  BY <1>1, <1>2 DEF InLane
<1>4. Types
  <2>1. disc \in AllDiscs
    BY <1>1, SingleNodeAssumption
  <2>2. lanes \in [Lane -> Seq(Packet)]
    BY <1>1, <1>2
  <2>3. pifos \in [Lane -> SUBSET Packet]
    BY <1>1
  <2>4. sizes \in [Lane -> Int] /\ pifoSizes \in [Lane -> Int]
    BY <1>1
  <2>5. QED  BY <1>1, <1>2, <1>3, <2>1, <2>2, <2>3, <2>4 DEF Types
<1>5. Placed
  BY <1>1, <1>2, <1>3 DEF Placed
<1>6. queue = InLanes \cup ToSet(ready)
  BY <1>1, <1>2, <1>3 DEF InLanes
<1>7. SizesAgree
  <2>1. CASE disc = "wfqpcq"
    <3>1. SignedTotal(sizes, Lane) = 0
      BY <1>1, SignedTotalZero
    <3>2. Bytes(queue) = 0
      BY <1>1, BytesNone
    <3>3. QED  BY <2>1, <3>1, <3>2 DEF SizesAgree
  <2>2. CASE disc # "wfqpcq"
    BY <1>2, <1>3, <2>2, BytesNone DEF SizesAgree
  <2>3. QED  BY <2>1, <2>2
<1>8. Pointers /\ Numbered /\ Drained
  BY <1>1, Parameters DEF Pointers, Numbered, Drained
<1>9. Accounted
  <2>1. Cardinality(queue) = 0
    BY <1>1, FS_EmptySet
  <2>2. QED  BY <1>1, <2>1 DEF Accounted
<1>10. QED  BY <1>4, <1>5, <1>6, <1>7, <1>8, <1>9 DEF Inv, Stored, ListsAgree

LEMMA FeedOK == ASSUME Inv, Feed PROVE Inv'
<1>1. /\ state = "loop" /\ Enqueue /\ inputCount' = inputCount + 1
      /\ UNCHANGED <<disc, outputCount>>
  BY DEF Feed
<1>2. PICK rank \in Ranks, size \in Sizes :
        LET k == [id |-> inputCount + 1, rank |-> rank, size |-> size]
        IN  \/ EnqueueIdeal(k) \/ EnqueueRR(k) \/ EnqueueScaleUp(k) \/ EnqueueSPPIFO(k)
            \/ EnqueueAIFO(k) \/ EnqueuePacks(k) \/ EnqueueWFQPCQ(k) \/ EnqueueSPPCQ(k)
            \/ EnqueueGearbox(k)
  BY <1>1 DEF Enqueue
<1> DEFINE k == [id |-> inputCount + 1, rank |-> rank, size |-> size]
<1>3. /\ Stored /\ Pointers /\ Numbered /\ Accounted /\ inputCount \in Nat
  BY DEF Inv, Pointers
<1>4. New(k)
  BY <1>3 DEF New, Packet
<1> HIDE DEF k
<1>5. \/ EnqueueIdeal(k) \/ EnqueueRR(k) \/ EnqueueScaleUp(k) \/ EnqueueSPPIFO(k)
      \/ EnqueueAIFO(k) \/ EnqueuePacks(k) \/ EnqueueWFQPCQ(k) \/ EnqueueSPPCQ(k)
      \/ EnqueueGearbox(k)
  BY <1>2 DEF k
<1>6. Handed(k)
  BY <1>1, <1>3, <1>4, <1>5, EnqueueOK
<1>7. Stored' /\ queue' \subseteq queue \cup {k}
      /\ {inputPointer', outputPointer'} \subseteq 0 .. NumLanes - 1 /\ ts' \in Nat
  BY <1>6 DEF Handed
<1>8. queue \subseteq Packet /\ IsFiniteSet(queue)
  BY <1>3, StoreParts, FS_Union DEF Stored, ListsAgree
<1>9. Numbered' /\ inputCount' \in Nat
  BY <1>1, <1>3, <1>4, <1>7, <1>8, NumbersStay
<1>10. state' \in {"loop", "exit"}
  <2>1. ASSUME NEW i, Put(i, k) \/ Refuse \/ PutIfRoom(i, k) \/ EnqueuePifo(i, k)
        PROVE  state' = "loop"
    BY <1>1, <2>1 DEF Put, Refuse, PutIfRoom, EnqueuePifo
  <2>2. CASE EnqueueIdeal(k) \/ EnqueueRR(k) \/ EnqueueScaleUp(k)
    BY <2>1, <2>2 DEF EnqueueIdeal, EnqueueRR, EnqueueScaleUp
  <2>3. CASE EnqueueSPPIFO(k) \/ EnqueueAIFO(k)
    BY <2>1, <2>3 DEF EnqueueSPPIFO, EnqueueAIFO
  <2>4. CASE EnqueuePacks(k)
    BY <2>1, <2>4 DEF EnqueuePacks
  <2>5. CASE EnqueueWFQPCQ(k) \/ EnqueueSPPCQ(k)
    BY <2>1, <2>5 DEF EnqueueWFQPCQ, EnqueueSPPCQ
  <2>6. CASE EnqueueGearbox(k)
    BY <2>1, <2>6 DEF EnqueueGearbox
  <2>7. QED  BY <1>5, <2>2, <2>3, <2>4, <2>5, <2>6
<1>11. Drained'
  BY <1>10 DEF Drained
<1>12. Accounted'
  BY <1>1, <1>3, <1>7, <1>8, AccountKept
<1>13. QED  BY <1>7, <1>9, <1>11, <1>12 DEF Inv, Pointers

LEMMA DrainOK == ASSUME Inv, Drain PROVE Inv'
<1>1. /\ state' = "loop" /\ Dequeue /\ inputCount' = inputCount /\ UNCHANGED disc
  BY DEF Drain
<1>2. Stored /\ Pointers /\ Numbered /\ Accounted /\ inputCount \in Nat
  BY DEF Inv, Pointers
<1>3. Asked
  BY <1>1, <1>2, DequeueFirstOK, DequeueWFQPCQOK, DequeueScaleUpOK, DequeueGearboxOK
  DEF Dequeue
<1>4. Stored' /\ queue' \subseteq queue /\ Answered
      /\ {inputPointer', outputPointer'} \subseteq 0 .. NumLanes - 1 /\ ts' \in Nat
  BY <1>3 DEF Asked
<1>5. Numbered'
  BY <1>1, <1>2, <1>4 DEF Numbered
<1>6. Drained'
  BY <1>1 DEF Drained
<1>7. Accounted'
  <2>1. IsFiniteSet(queue)
    BY <1>2, StoreParts, FS_Union DEF Stored, ListsAgree
  <2>2. QED  BY <1>1, <1>2, <1>4, <2>1, AccountKept
<1>8. QED  BY <1>1, <1>2, <1>4, <1>5, <1>6, <1>7 DEF Inv, Pointers

LEMMA QuietOK ==
  ASSUME Inv, UNCHANGED <<disc, store, special, inputCount, outputCount>>,
         state' = "end" => IsEmpty
  PROVE  Inv'
<1>1. Stored /\ Pointers /\ Numbered /\ Accounted
  BY DEF Inv
<1>2. UNCHANGED <<disc, ready, lanes, pifos, queue, inputPointer, outputPointer, ts,
                  inputCount, outputCount>>
  BY DEF store, special
<1>3. Stored'
  BY <1>1, <1>2, StoreSame
<1>4. Pointers' /\ Numbered' /\ Accounted'
  BY <1>1, <1>2 DEF Pointers, Numbered, Accounted
<1>5. Drained'
  BY <1>2 DEF Drained, IsEmpty, Lane
<1>6. QED  BY <1>3, <1>4, <1>5 DEF Inv

\* The invariant holds whatever the numbers of lanes, of levels and of packets, the
\* sizes and the ranks are, for each of the schedulers.
THEOREM SingleNodeInvariance == Spec => []Inv
<1>1. Init => Inv
  BY StartOK
<1>2. Inv /\ [Next]_vars => Inv'
  <2> SUFFICES ASSUME Inv, [Next]_vars PROVE Inv'
    OBVIOUS
  <2>1. CASE Feed
    BY <2>1, FeedOK
  <2>2. CASE Drain
    BY <2>2, DrainOK
  <2>3. CASE End
    <3>1. IsEmpty /\ UNCHANGED <<disc, store, special, inputCount, outputCount>>
      BY <2>3 DEF End
    <3>2. QED  BY <3>1, QuietOK
  <2>4. CASE UNCHANGED vars
    <3>1. UNCHANGED <<disc, store, special, inputCount, outputCount>> /\ state' = state
      BY <2>4 DEF vars
    <3>2. state' = "end" => IsEmpty
      BY <3>1 DEF Inv, Drained
    <3>3. QED  BY <3>1, <3>2, QuietOK
  <2>5. QED  BY <2>1, <2>2, <2>3, <2>4 DEF Next
<1>3. QED  BY <1>1, <1>2, PTL DEF Spec

\* The SortedList and the lanes hold the same packets and the sizes are theirs: no
\* remove raises an error, and a buffer (in WFQPCQScheduler: all together) loses no room.
THEOREM ListsStayInStep == Spec => []ListsAgree
<1>1. Inv => ListsAgree
  BY DEF Inv, Stored
<1>2. QED  BY <1>1, SingleNodeInvariance, PTL

\* No packet is handed out twice, and none that was not handed over: what came out and
\* what is still held is no more than what came in (what is missing was refused or
\* evicted).
THEOREM OutputAccounted == Spec => [](outputCount + Cardinality(queue) <= inputCount)
<1>1. Inv => outputCount + Cardinality(queue) <= inputCount
  BY DEF Inv, Accounted
<1>2. QED  BY <1>1, SingleNodeInvariance, PTL

\* When the driver ends, it leaves nothing behind but what Gearbox holds back.
THEOREM NothingLeftAtEnd == Spec => [](state = "end" => queue = ToSet(ready))
<1>1. Inv => (state = "end" => queue = ToSet(ready))
  <2> SUFFICES ASSUME Inv, state = "end" PROVE queue = ToSet(ready)
    OBVIOUS
  <2>1. IsEmpty /\ queue = InLanes \cup ToSet(ready)
    BY DEF Inv, Drained, Stored, ListsAgree
  <2>2. InLanes = {}
    BY <2>1 DEF IsEmpty, InLanes, ToSet
  <2>3. QED  BY <2>1, <2>2
<1>2. QED  BY <1>1, SingleNodeInvariance, PTL
================================================================================
