-------------------------- MODULE ScaleUpP4_proofs --------------------------
(***************************************************************************)
(* Proofs about the load balancer on the switch: the rotation of PIFOs in  *)
(* every bucket, the bound on what uploads report, and that packets are    *)
(* counted where their rank belongs, for any number of buckets and PIFOs.  *)
(***************************************************************************)
EXTENDS ScaleUpP4, Totals_proofs

Counters == 0 .. CounterModulus - 1

Pending == [rank : Nat, outdated : BOOLEAN, index : 0 .. NumBuckets]

Types ==
  /\ program \in {"table", "registers"}
  /\ configured \in Nat
  /\ border \in [Buckets -> Nat]
  /\ counter \in [Buckets -> Counters]
  /\ resubmitted \in Seq(Pending)
  /\ uploads \in Nat
  /\ result \in [Buckets -> [0 .. NumPifos - 1 -> Nat]]
  /\ reported \in [Buckets -> Nat]
  /\ wraps \in [Buckets -> Nat]

\* After q rounds of a bucket the PIFOs 1 .. counter % NumPifos had their turn
\* in the next one: the rotation starts at PIFO 1, as the counter is read
\* after it is incremented.
Rotated(k, q) ==
  \A p \in 0 .. NumPifos - 1 :
    result[k][p] = IF 1 <= p /\ p <= counter[k] % NumPifos THEN q + 1 ELSE q

Rotation == \A k \in Buckets : \E q \in Nat : Rotated(k, q)

Index(rank) == IF program = "table" THEN TableIndex(rank) ELSE RegisterIndex(rank)

\* A packet that nothing was written behind has the index its rank would get now.
Indexed ==
  \A n \in DOMAIN resubmitted :
    ~resubmitted[n].outdated => resubmitted[n].index = Index(resubmitted[n].rank)

-----------------------------------------------------------------------------
(* Indices *)

\* The numbers of PIFOs and buckets are positive.
LEMMA Sizes ==
  /\ NumBuckets \in Nat /\ NumBuckets > 0
  /\ NumPifos \in Nat /\ NumPifos > 0
  /\ CounterModulus \in Nat /\ CounterModulus > 0
BY P4Assumption

\* There are NumBuckets buckets.
LEMMA BucketsFinite == IsFiniteSet(Buckets) /\ Cardinality(Buckets) = NumBuckets
<1>1. NumBuckets - 1 \in Int /\ 0 \in Int
  BY P4Assumption
<1>2. QED  BY <1>1, FS_Interval, P4Assumption DEF Buckets

\* Both programs find a bucket or NoBucket.
LEMMA IndexType ==
  ASSUME Types, NEW rank \in Nat
  PROVE  Index(rank) \in 0 .. NumBuckets
<1>1. TableIndex(rank) \in 0 .. NumBuckets
  <2> DEFINE entries == {k \in Buckets : /\ NumBuckets + k < configured
                                         /\ border[k] <= rank
                                         /\ k + 1 \in Buckets => rank < border[k + 1]}
  <2>1. CASE entries = {}
    BY <2>1, P4Assumption DEF TableIndex, NoBucket
  <2>2. CASE entries # {}
    <3>1. (CHOOSE k \in entries : TRUE) \in entries
      BY <2>2
    <3>2. (CHOOSE k \in entries : TRUE) \in Buckets
      BY <3>1
    <3>3. TableIndex(rank) \in Buckets
      BY <2>2, <3>2 DEF TableIndex
    <3>4. QED  BY <3>3, P4Assumption DEF Buckets
  <2>3. QED  BY <2>1, <2>2
<1>2. RegisterIndex(rank) \in 0 .. NumBuckets
  <2> DEFINE S == {k \in Buckets : rank >= border[k]}
  <2>1. Cardinality(S) \in Nat /\ Cardinality(S) <= NumBuckets
    <3>1. S \subseteq Buckets
      OBVIOUS
    <3> HIDE DEF S
    <3>2. IsFiniteSet(S) /\ Cardinality(S) <= Cardinality(Buckets)
      BY <3>1, FS_Subset, BucketsFinite
    <3>3. QED  BY <3>2, FS_CardinalityType, BucketsFinite
  <2>2. RegisterIndex(rank) = IF Cardinality(S) = 0 THEN NumBuckets ELSE Cardinality(S) - 1
    BY DEF RegisterIndex, NoBucket
  <2> HIDE DEF S
  <2>3. QED  BY <2>1, <2>2, P4Assumption
<1>3. QED  BY <1>1, <1>2 DEF Index

\* If the borders ascend, the ones a rank reaches are the first ones.
LEMMA ReachedPrefix ==
  ASSUME Types, Ascending, NEW rank \in Nat
  PROVE  \/ \A k \in Buckets : rank < border[k]
         \/ \E m \in Buckets : \A k \in Buckets : border[k] <= rank <=> k <= m
<1> DEFINE Above == {k \in Buckets : rank < border[k]}
<1>0. Above \subseteq Nat /\ Buckets \subseteq Nat
  BY DEF Buckets
<1>1. \A j \in Above : \A k \in Buckets : j <= k => k \in Above
  <2> SUFFICES ASSUME NEW j \in Above, NEW k \in Buckets, j <= k, k \notin Above
               PROVE  FALSE
    OBVIOUS
  <2> DEFINE Back == {i \in Buckets : j <= i /\ i \notin Above}
  <2>1. PICK i \in Back : \A y \in Back : i <= y
    <3>1. Back \subseteq Nat /\ k \in Back
      BY <1>0
    <3>2. QED  BY <3>1, LeastNatural
  <2>2. i \in Buckets /\ j \in Buckets /\ j <= i /\ i # j /\ ~(rank < border[i])
    BY <2>1
  <2> HIDE DEF Above
  <2>3. i \in Buckets \ {0} /\ i - 1 \in Buckets /\ j <= i - 1 /\ ~(i <= i - 1)
    BY <2>2, Sizes DEF Buckets
  <2>4. border[i - 1] < border[i] /\ border[i - 1] \in Nat /\ border[i] \in Nat
    BY <2>3 DEF Ascending, Types
  <2>5. ~(rank < border[i - 1])
    BY <2>2, <2>4
  <2>6. i - 1 \in Back
    BY <2>3, <2>5 DEF Above
  <2>7. QED  BY <2>1, <2>3, <2>6
<1>2. CASE Above = {}
  <2>1. NumBuckets - 1 \in Buckets
    BY P4Assumption DEF Buckets
  <2>2. ASSUME NEW k \in Buckets
        PROVE  border[k] <= rank /\ k <= NumBuckets - 1
    <3>1. border[k] \in Nat /\ ~(rank < border[k])
      BY <1>2 DEF Types
    <3>2. k <= NumBuckets - 1
      BY Sizes DEF Buckets
    <3>3. QED  BY <3>1, <3>2
  <2>3. QED  BY <2>1, <2>2
<1>3. CASE Above # {}
  <2>1. PICK a \in Above : \A y \in Above : a <= y
    BY <1>0, <1>3, LeastNatural
  <2>2. \A k \in Buckets : rank < border[k] <=> a <= k
    BY <1>1, <2>1
  <2>3. CASE a = 0
    BY <2>2, <2>3 DEF Buckets
  <2>4. CASE a # 0
    <3>1. a - 1 \in Buckets
      BY <2>1, <2>4, P4Assumption DEF Buckets
    <3>2. \A k \in Buckets : border[k] <= rank <=> k <= a - 1
      BY <2>1, <2>2 DEF Buckets, Types
    <3>3. QED  BY <3>1, <3>2
  <2>5. QED  BY <2>3, <2>4
<1>4. QED  BY <1>2, <1>3

\* With ascending borders, and all entries in the table, the index found is that
\* of the bucket whose range holds the rank.
LEMMA IndexHolds ==
  ASSUME Types, Ascending, NEW rank \in Nat,
         program = "table" => configured = 2 * NumBuckets
  PROVE  HoldsRank(Index(rank), rank)
<1>0. Buckets \subseteq Int /\ 0 \in Buckets /\ NoBucket \notin Buckets
  BY P4Assumption DEF Buckets, NoBucket
<1>1. CASE \A k \in Buckets : rank < border[k]
  <2>1. {k \in Buckets : rank >= border[k]} = {}
    BY <1>1 DEF Types
  <2>2. RegisterIndex(rank) = NoBucket
    BY <2>1, FS_EmptySet DEF RegisterIndex
  <2>3. TableIndex(rank) = NoBucket
    <3>1. {k \in Buckets : /\ NumBuckets + k < configured
                           /\ border[k] <= rank
                           /\ k + 1 \in Buckets => rank < border[k + 1]} = {}
      BY <1>1 DEF Types
    <3>2. QED  BY <3>1 DEF TableIndex
  <2>4. QED  BY <1>0, <1>1, <2>2, <2>3 DEF Index, HoldsRank
<1>2. CASE \E m \in Buckets : \A k \in Buckets : border[k] <= rank <=> k <= m
  <2>1. PICK m \in Buckets : \A k \in Buckets : border[k] <= rank <=> k <= m
    BY <1>2
  <2>2. m \in 0 .. NumBuckets - 1 /\ NumBuckets \in Nat
    BY P4Assumption DEF Buckets
  <2>3. border[m] <= rank /\ (m + 1 \in Buckets => rank < border[m + 1])
    <3>1. border[m] <= rank
      BY <2>1, <2>2 DEF Buckets
    <3>2. ASSUME m + 1 \in Buckets
          PROVE  rank < border[m + 1]
      <4>1. ~(border[m + 1] <= rank)
        BY <2>1, <2>2, <3>2
      <4>2. QED  BY <3>2, <4>1 DEF Types
    <3>3. QED  BY <3>1, <3>2
  <2>4. RegisterIndex(rank) = m
    <3> DEFINE hits == Cardinality({k \in Buckets : rank >= border[k]})
    <3>1. {k \in Buckets : rank >= border[k]} = 0 .. m
      <4>1. ASSUME NEW k \in Buckets
            PROVE  (rank >= border[k] <=> k <= m) /\ k \in Nat
        BY <2>1 DEF Types, Buckets
      <4>2. \A k \in 0 .. m : k \in Buckets
        BY <2>2 DEF Buckets
      <4>3. ASSUME NEW k
            PROVE  k \in {b \in Buckets : rank >= border[b]} <=> k \in 0 .. m
        <5>1. CASE k \in Buckets
          <6>1. k \in Nat /\ (rank >= border[k] <=> k <= m)
            BY <4>1, <5>1
          <6>2. k \in 0 .. m <=> k <= m
            BY <2>2, <6>1
          <6>3. QED  BY <5>1, <6>1, <6>2
        <5>2. CASE k \notin Buckets
          BY <4>2, <5>2
        <5>3. QED  BY <5>1, <5>2
      <4>4. QED  BY <4>3
    <3>2. hits = m + 1
      <4>1. hits = Cardinality(0 .. m)
        BY <3>1
      <4> HIDE DEF hits
      <4>2. 0 \in Int /\ m \in Int
        BY <2>2
      <4>3. Cardinality(0 .. m) = IF 0 > m THEN 0 ELSE m - 0 + 1
        BY <4>2, FS_Interval
      <4>4. QED  BY <2>2, <4>1, <4>3
    <3>3. RegisterIndex(rank) = IF hits = 0 THEN NoBucket ELSE hits - 1
      BY DEF RegisterIndex
    <3> HIDE DEF hits
    <3>4. QED  BY <2>2, <3>2, <3>3
  <2>5. ASSUME program = "table"
        PROVE  TableIndex(rank) = m
    <3> DEFINE entries == {k \in Buckets : /\ NumBuckets + k < configured
                                           /\ border[k] <= rank
                                           /\ k + 1 \in Buckets => rank < border[k + 1]}
    <3>1. configured = NumBuckets + NumBuckets
      BY <2>2, <2>5
    <3>2. m \in entries
      BY <2>2, <2>3, <3>1
    <3>3. ASSUME NEW k \in entries
          PROVE  k = m
      <4>1. k \in Buckets /\ border[k] <= rank /\ (k + 1 \in Buckets => rank < border[k + 1])
        OBVIOUS
      <4> HIDE DEF entries
      <4>2. k <= m
        BY <2>1, <4>1
      <4>3. ASSUME k < m
            PROVE  FALSE
        <5>1. k + 1 \in Buckets /\ k + 1 <= m
          BY <2>2, <4>1, <4>3 DEF Buckets
        <5>2. rank < border[k + 1] /\ border[k + 1] <= rank
          BY <2>1, <4>1, <5>1
        <5>3. QED  BY <5>1, <5>2 DEF Types
      <4>4. QED  BY <2>2, <4>1, <4>2, <4>3 DEF Buckets
    <3>4. TableIndex(rank) = CHOOSE k \in entries : TRUE
      BY <3>2 DEF TableIndex
    <3> HIDE DEF entries
    <3>5. QED  BY <3>2, <3>3, <3>4
  <2>6. Index(rank) = m /\ m # NoBucket
    BY <2>2, <2>4, <2>5 DEF Index, NoBucket
  <2>7. QED  BY <2>3, <2>6 DEF HoldsRank
<1>3. QED  BY <1>1, <1>2, ReachedPrefix

-----------------------------------------------------------------------------
(* Types and indices *)

\* The registers start with values of their types.
LEMMA InitTypes == Init => Types
<1> SUFFICES ASSUME Init PROVE Types
  OBVIOUS
<1>1. 0 \in Counters
  BY Sizes DEF Counters
<1>2. border \in [Buckets -> Nat]
  BY P4Assumption DEF Init
<1>3. QED  BY <1>1, <1>2 DEF Init, Types

\* A step of a counter.
LEMMA CountType ==
  ASSUME Types, NEW k \in Buckets, CountIn(k)
  PROVE  /\ counter' \in [Buckets -> Counters]
         /\ result' \in [Buckets -> [0 .. NumPifos - 1 -> Nat]]
         /\ wraps' \in [Buckets -> Nat]
<1> DEFINE e == counter[k] + 1
           v == e % CounterModulus
           p == v % NumPifos
<1>1. e \in Nat
  BY DEF Types, Counters
<1> HIDE DEF e
<1>2. v \in Counters
  BY <1>1, Sizes, DivMod DEF Counters
<1> HIDE DEF v
<1>3. v \in Nat
  BY <1>2 DEF Counters
<1>4. p \in 0 .. NumPifos - 1
  BY <1>3, Sizes, DivMod
<1> HIDE DEF p
<1>5. /\ counter' = [counter EXCEPT ![k] = v]
      /\ result' = [result EXCEPT ![k] = [result[k] EXCEPT ![p] = result[k][p] + 1]]
      /\ wraps' = [wraps EXCEPT ![k] = IF v = 0 THEN wraps[k] + 1 ELSE wraps[k]]
  BY DEF CountIn, e, v, p, Types
<1>6. counter' \in [Buckets -> Counters]
  BY <1>2, <1>5 DEF Types
<1>7. result' \in [Buckets -> [0 .. NumPifos - 1 -> Nat]]
  <2>1. result[k] \in [0 .. NumPifos - 1 -> Nat]
    BY DEF Types
  <2>2. result[k][p] + 1 \in Nat
    <3> DEFINE f == result[k]
               P == 0 .. NumPifos - 1
    <3>1. f \in [P -> Nat] /\ p \in P
      BY <1>4, <2>1
    <3> HIDE DEF f, P
    <3>2. f[p] \in Nat
      BY <3>1
    <3>3. QED  BY <3>2 DEF f
  <2>3. [result[k] EXCEPT ![p] = result[k][p] + 1] \in [0 .. NumPifos - 1 -> Nat]
    BY <2>1, <2>2
  <2>4. QED  BY <1>5, <2>3 DEF Types
<1>8. wraps' \in [Buckets -> Nat]
  BY <1>5 DEF Types
<1>9. QED  BY <1>6, <1>7, <1>8

\* Resetting a bucket keeps the types of the counters and the histories.
LEMMA ResetType ==
  ASSUME Types, NEW k \in Buckets, ResetCounter(k)
  PROVE  /\ counter' \in [Buckets -> Counters]
         /\ result' \in [Buckets -> [0 .. NumPifos - 1 -> Nat]]
         /\ reported' \in [Buckets -> Nat]
         /\ wraps' \in [Buckets -> Nat]
<1>1. 0 \in Counters
  BY Sizes DEF Counters
<1>2. QED  BY <1>1 DEF Types, ResetCounter

\* Packets under way that a configuration made outdated are still packets under way.
LEMMA OutdatedType ==
  ASSUME Types
  PROVE  Outdated \in Seq(Pending)
<1>1. resubmitted \in Seq(Pending)
  BY DEF Types
<1>2. /\ Len(resubmitted) \in Nat
      /\ DOMAIN resubmitted = 1 .. Len(resubmitted)
      /\ \A n \in DOMAIN resubmitted : resubmitted[n] \in Pending
  BY <1>1
<1>3. \A n \in DOMAIN resubmitted : [resubmitted[n] EXCEPT !.outdated = TRUE] \in Pending
  BY <1>2 DEF Pending
<1>4. Outdated \in [1 .. Len(resubmitted) -> Pending]
  BY <1>2, <1>3 DEF Outdated
<1>5. QED  BY <1>2, <1>4

\* Every packet keeps the types of the registers.
LEMMA NextTypes == Types /\ [Next]_vars => Types'
<1> SUFFICES ASSUME Types, [Next]_vars PROVE Types'
  OBVIOUS
<1>1. ASSUME NEW rank \in Ranks, Classify(rank)
      PROVE  Types'
  <2>1. rank \in Nat
    BY P4Assumption
  <2>2. Index(rank) \in 0 .. NumBuckets
    BY <2>1, IndexType
  <2> DEFINE packet == [rank |-> rank, outdated |-> FALSE, index |-> Index(rank)]
  <2>3. packet \in Pending
    BY <2>1, <2>2 DEF Pending
  <2>4. resubmitted' = Append(resubmitted, packet)
    BY <1>1 DEF Classify, Index
  <2> HIDE DEF packet
  <2>5. resubmitted' \in Seq(Pending)
    BY <2>3, <2>4 DEF Types
  <2>6. QED  BY <1>1, <2>5 DEF Classify, Types, histories
<1>2. ASSUME Resubmit
      PROVE  Types'
  <2> DEFINE index == Head(resubmitted).index
  <2>1. Head(resubmitted) \in Pending /\ Tail(resubmitted) \in Seq(Pending)
    BY <1>2 DEF Resubmit, Types
  <2>2. index \in 0 .. NumBuckets
    BY <2>1 DEF Pending
  <2>3. resubmitted' \in Seq(Pending)
    BY <1>2, <2>1 DEF Resubmit
  <2>4. CASE index = NoBucket
    BY <1>2, <2>3, <2>4 DEF Resubmit, Types
  <2>5. CASE index # NoBucket
    <3>1. index \in Buckets
      BY <2>2, <2>5, Sizes DEF Buckets, NoBucket
    <3>2. CountIn(index)
      BY <1>2, <2>5 DEF Resubmit
    <3> HIDE DEF index
    <3>3. /\ counter' \in [Buckets -> Counters]
          /\ result' \in [Buckets -> [0 .. NumPifos - 1 -> Nat]]
          /\ wraps' \in [Buckets -> Nat]
      BY <3>1, <3>2, CountType
    <3>4. QED  BY <1>2, <2>3, <3>3 DEF Resubmit, Types
  <2>6. QED  BY <2>4, <2>5
<1>3. ASSUME NEW new \in NewBorders, Update(new)
      PROVE  Types'
  <2>1. new \in [Buckets -> Nat]
    BY P4Assumption
  <2>2. QED  BY <1>3, <2>1, OutdatedType DEF Update, Types, histories
<1>4. ASSUME Upload
      PROVE  Types'
  <2>1. ASSUME NEW k \in Buckets
        PROVE  Kept(counter[k]) \in Counters /\ reported[k] + counter[k] \in Nat
    <3> DEFINE c == counter[k]
               r == c % NumPifos
    <3>1. c \in Nat /\ c < CounterModulus /\ reported[k] \in Nat
      BY Sizes DEF Types, Counters
    <3> HIDE DEF c
    <3> DEFINE t == NumPifos * (c \div NumPifos)
    <3>2. c \div NumPifos \in Nat /\ r \in 0 .. NumPifos - 1 /\ c = t + r
      BY <3>1, Sizes, DivMod
    <3>3. r <= c
      <4> DEFINE q == c \div NumPifos
      <4>1. q \in Nat /\ t = NumPifos * q
        BY <3>2
      <4> HIDE DEF q, t, r
      <4>2. t \in Nat
        BY <4>1, Sizes
      <4>3. QED  BY <3>1, <3>2, <4>2
    <3>4. Kept(counter[k]) = r
      BY DEF Kept, c
    <3> HIDE DEF r
    <3>5. r \in Counters
      BY <3>1, <3>2, <3>3, Sizes DEF Counters
    <3>6. QED  BY <3>1, <3>4, <3>5 DEF c
  <2>2. counter' \in [Buckets -> Counters] /\ reported' \in [Buckets -> Nat]
    BY <1>4, <2>1 DEF Upload
  <2>3. QED  BY <1>4, <2>2 DEF Upload, Types
<1>5. ASSUME SetBucket
      PROVE  Types'
  <2>1. configured \in Buckets
    BY <1>5, Sizes DEF SetBucket, Types, Buckets
  <2>2. SetupBorders[configured] \in Nat
    BY <2>1, P4Assumption
  <2>3. border' \in [Buckets -> Nat]
    BY <1>5, <2>1, <2>2 DEF SetBucket, Types
  <2>4. ResetCounter(configured) /\ resubmitted' = Outdated /\ configured' = configured + 1
        /\ UNCHANGED <<program, uploads>>
    BY <1>5 DEF SetBucket
  <2>5. /\ counter' \in [Buckets -> Counters]
        /\ result' \in [Buckets -> [0 .. NumPifos - 1 -> Nat]]
        /\ reported' \in [Buckets -> Nat]
        /\ wraps' \in [Buckets -> Nat]
    BY <2>1, <2>4, ResetType
  <2>6. resubmitted' \in Seq(Pending)
    BY <2>4, OutdatedType
  <2>7. QED  BY <2>3, <2>4, <2>5, <2>6 DEF Types
<1>6. ASSUME SetCounter
      PROVE  Types'
  <2>1. configured \in Buckets
    BY <1>6, Sizes DEF SetCounter, Types, Buckets
  <2>2. ResetCounter(configured) /\ configured' = configured + 1
        /\ UNCHANGED <<program, border, resubmitted, uploads>>
    BY <1>6 DEF SetCounter
  <2>3. /\ counter' \in [Buckets -> Counters]
        /\ result' \in [Buckets -> [0 .. NumPifos - 1 -> Nat]]
        /\ reported' \in [Buckets -> Nat]
        /\ wraps' \in [Buckets -> Nat]
    BY <2>1, <2>2, ResetType
  <2>4. QED  BY <2>2, <2>3 DEF Types
<1>7. ASSUME AddEntry
      PROVE  Types'
  <2>1. resubmitted' = Outdated /\ configured' = configured + 1
        /\ UNCHANGED <<program, border, counter, uploads, histories>>
    BY <1>7 DEF AddEntry
  <2>2. QED  BY <2>1, OutdatedType DEF Types, histories
<1>8. ASSUME UNCHANGED vars
      PROVE  Types'
  BY <1>8 DEF vars, Types
<1>9. QED  BY <1>1, <1>2, <1>3, <1>4, <1>5, <1>6, <1>7, <1>8 DEF Next

\* No packet is under way at first.
LEMMA InitIndexed == Init => Indexed
BY DEF Init, Indexed

\* The index of a rank only depends on the program, the borders and, in the table,
\* on the entries there are.
LEMMA NextIndexed == Types /\ Indexed /\ [Next]_vars => Indexed'
<1> SUFFICES ASSUME Types, Indexed, [Next]_vars PROVE Indexed'
  OBVIOUS
<1>0. resubmitted \in Seq(Pending)
  BY DEF Types
<1>1. ASSUME UNCHANGED <<program, configured, border>>, NEW rank
      PROVE  Index(rank)' = Index(rank)
  BY <1>1 DEF Index, TableIndex, RegisterIndex
<1>2. ASSUME resubmitted' = Outdated
      PROVE  Indexed'
  <2>1. \A n \in DOMAIN resubmitted' : resubmitted'[n].outdated
    <3> SUFFICES ASSUME NEW n \in DOMAIN resubmitted PROVE resubmitted'[n].outdated
      BY <1>2 DEF Outdated
    <3>1. resubmitted'[n] = [resubmitted[n] EXCEPT !.outdated = TRUE]
      BY <1>2 DEF Outdated
    <3>2. resubmitted[n] \in Pending
      BY <1>0
    <3>3. QED  BY <3>1, <3>2 DEF Pending
  <2>2. QED  BY <2>1 DEF Indexed
<1>3. ASSUME NEW rank \in Ranks, Classify(rank)
      PROVE  Indexed'
  <2> DEFINE packet == [rank |-> rank, outdated |-> FALSE, index |-> Index(rank)]
  <2>1. resubmitted' = Append(resubmitted, packet)
    BY <1>3 DEF Classify, Index
  <2>2. UNCHANGED <<program, configured, border>>
    BY <1>3 DEF Classify
  <2>3. \A n \in DOMAIN resubmitted' :
          IF n \in DOMAIN resubmitted THEN resubmitted'[n] = resubmitted[n]
                                      ELSE resubmitted'[n] = packet
    <3> HIDE DEF packet
    <3>1. QED  BY <1>0, <2>1
  <2>4. \A n \in DOMAIN resubmitted' :
          ~resubmitted'[n].outdated => resubmitted'[n].index = Index(resubmitted'[n].rank)
    <3> SUFFICES ASSUME NEW n \in DOMAIN resubmitted', ~resubmitted'[n].outdated
                 PROVE  resubmitted'[n].index = Index(resubmitted'[n].rank)
      OBVIOUS
    <3>1. CASE n \in DOMAIN resubmitted
      BY <2>3, <3>1 DEF Indexed
    <3>2. CASE n \notin DOMAIN resubmitted
      <4>1. resubmitted'[n] = packet
        BY <2>3, <3>2
      <4>2. QED  BY <4>1
    <3>3. QED  BY <3>1, <3>2
  <2>5. QED  BY <1>1, <2>2, <2>4 DEF Indexed
<1>4. ASSUME Resubmit
      PROVE  Indexed'
  <2>1. /\ resubmitted # <<>> /\ resubmitted' = Tail(resubmitted)
        /\ UNCHANGED <<program, configured, border>>
    BY <1>4 DEF Resubmit
  <2>2. \A n \in DOMAIN resubmitted' :
          n + 1 \in DOMAIN resubmitted /\ resubmitted'[n] = resubmitted[n + 1]
    BY <1>0, <2>1
  <2>3. \A n \in DOMAIN resubmitted' :
          ~resubmitted'[n].outdated => resubmitted'[n].index = Index(resubmitted'[n].rank)
    BY <2>2 DEF Indexed
  <2>4. QED  BY <1>1, <2>1, <2>3 DEF Indexed
<1>5. ASSUME NEW new \in NewBorders, Update(new)
      PROVE  Indexed'
  BY <1>2, <1>5 DEF Update
<1>6. ASSUME Upload
      PROVE  Indexed'
  BY <1>1, <1>6 DEF Upload, Indexed
<1>7. ASSUME SetBucket
      PROVE  Indexed'
  BY <1>2, <1>7 DEF SetBucket
<1>8. ASSUME SetCounter
      PROVE  Indexed'
  <2>1. /\ program = "table" /\ program' = "table" /\ resubmitted' = resubmitted
        /\ configured < NumBuckets /\ configured' = configured + 1
    BY <1>8 DEF SetCounter
  <2>2. ASSUME NEW rank
        PROVE  Index(rank) = NoBucket /\ Index(rank)' = NoBucket
    <3>1. \A k \in Buckets : ~(NumBuckets + k < configured) /\ ~(NumBuckets + k < configured')
      BY <2>1, Sizes DEF Types, Buckets
    <3>2. TableIndex(rank) = NoBucket /\ TableIndex(rank)' = NoBucket
      BY <3>1 DEF TableIndex
    <3>3. QED  BY <2>1, <3>2 DEF Index
  <2>3. QED  BY <2>1, <2>2 DEF Indexed
<1>9. ASSUME AddEntry
      PROVE  Indexed'
  BY <1>2, <1>9 DEF AddEntry
<1>10. ASSUME UNCHANGED vars
       PROVE  Indexed'
  BY <1>1, <1>10 DEF vars, Indexed
<1>11. QED  BY <1>3, <1>4, <1>5, <1>6, <1>7, <1>8, <1>9, <1>10 DEF Next

-----------------------------------------------------------------------------
(* The rotation *)

\* A counter's next value, seen modulo the number of PIFOs, is the next PIFO: also
\* when the counter wraps, as the modulus is a multiple of that number.
LEMMA NextTurn ==
  ASSUME NEW c \in Counters
  PROVE  /\ (c + 1) % CounterModulus = IF c + 1 < CounterModulus THEN c + 1 ELSE 0
         /\ ((c + 1) % CounterModulus) % NumPifos
              = IF c % NumPifos < NumPifos - 1 THEN (c % NumPifos) + 1 ELSE 0
<1>1. c \in Nat /\ c < CounterModulus
  BY Sizes DEF Counters
<1> DEFINE e == c + 1
           v == e % CounterModulus
<1>2. e \in Nat /\ e <= CounterModulus /\ e < 2 * CounterModulus
  BY <1>1, Sizes
<1>3. v = IF e < CounterModulus THEN e ELSE 0
  <2> HIDE DEF e
  <2>1. v = IF e < CounterModulus THEN e ELSE e - CounterModulus
    BY <1>2, Sizes, Wrap
  <2> HIDE DEF v
  <2>2. QED  BY <1>2, <2>1, Sizes
<1> HIDE DEF v
<1>4. e % NumPifos = IF c % NumPifos < NumPifos - 1 THEN (c % NumPifos) + 1 ELSE 0
  <2>1. NumPifos \in Nat \ {0}
    BY Sizes
  <2>2. QED  BY <1>1, <2>1, ModIncrement
<1>5. v % NumPifos = e % NumPifos
  <2>1. CASE e < CounterModulus
    BY <1>3, <2>1
  <2>2. CASE ~(e < CounterModulus)
    <3>1. e = CounterModulus /\ v = 0
      BY <1>2, <1>3, <2>2, Sizes
    <3>2. e % NumPifos = 0
      BY <3>1, P4Assumption
    <3>3. 0 % NumPifos = 0
      BY Sizes
    <3>4. QED  BY <3>1, <3>2, <3>3
  <2>3. QED  BY <2>1, <2>2
<1>6. QED  BY <1>3, <1>4, <1>5 DEF v

\* A count moves the rotation on by one.
LEMMA Turned ==
  ASSUME NEW n \in Nat \ {0}, NEW r \in 0 .. n - 1, NEW q \in Nat,
         NEW f \in [0 .. n - 1 -> Nat], NEW s, NEW g,
         \A p \in 0 .. n - 1 : f[p] = IF 1 <= p /\ p <= r THEN q + 1 ELSE q,
         s = IF r < n - 1 THEN r + 1 ELSE 0,
         g = [f EXCEPT ![s] = f[s] + 1]
  PROVE  \E t \in Nat : \A p \in 0 .. n - 1 :
           g[p] = IF 1 <= p /\ p <= s THEN t + 1 ELSE t
<1>1. s \in 0 .. n - 1 /\ f[s] = q
  OBVIOUS
<1>2. \A p \in 0 .. n - 1 : g[p] = IF p = s THEN q + 1 ELSE f[p]
  BY <1>1
<1>3. CASE r < n - 1
  <2>1. \A p \in 0 .. n - 1 : g[p] = IF 1 <= p /\ p <= s THEN q + 1 ELSE q
    BY <1>1, <1>2, <1>3
  <2>2. QED  BY <2>1
<1>4. CASE ~(r < n - 1)
  <2>1. \A p \in 0 .. n - 1 : g[p] = IF 1 <= p /\ p <= s THEN (q + 1) + 1 ELSE q + 1
    BY <1>1, <1>2, <1>4
  <2>2. QED  BY <2>1
<1>5. QED  BY <1>3, <1>4

\* An upload leaves the place of the next packet in the rotation as it was.
LEMMA KeptPlace ==
  ASSUME NEW c \in Nat
  PROVE  /\ Kept(c) \in 0 .. NumPifos - 1
         /\ Kept(c) % NumPifos = c % NumPifos
<1> DEFINE r == c % NumPifos
<1>1. r \in 0 .. NumPifos - 1
  BY Sizes, DivMod
<1> HIDE DEF r
<1>2. r % NumPifos = r
  <2>1. r \in Nat /\ r < 2 * NumPifos /\ r < NumPifos
    BY <1>1, Sizes
  <2>2. QED  BY <2>1, Sizes, Wrap
<1>3. QED  BY <1>1, <1>2 DEF r, Kept

\* Counters that are all zero are in rotation.
LEMMA InitRotation == Init => Rotation
<1> SUFFICES ASSUME Init, NEW k \in Buckets PROVE \E q \in Nat : Rotated(k, q)
  BY DEF Rotation
<1>1. 0 % NumPifos = 0
  BY Sizes
<1>2. counter[k] = 0 /\ \A p \in 0 .. NumPifos - 1 : result[k][p] = 0
  BY DEF Init
<1>3. Rotated(k, 0)
  BY <1>1, <1>2 DEF Rotated
<1>4. QED  BY <1>3

\* Resetting a bucket starts its rotation again.
LEMMA ResetRotation ==
  ASSUME Types, Rotation, NEW b \in Buckets, ResetCounter(b)
  PROVE  Rotation'
<1> SUFFICES ASSUME NEW k \in Buckets PROVE \E q \in Nat : Rotated(k, q)'
  BY DEF Rotation
<1>1. CASE k = b
  <2>1. 0 % NumPifos = 0
    BY Sizes
  <2>2. counter'[k] = 0 /\ \A p \in 0 .. NumPifos - 1 : result'[k][p] = 0
    BY <1>1 DEF ResetCounter, Types
  <2>3. Rotated(k, 0)'
    BY <2>1, <2>2 DEF Rotated
  <2>4. QED  BY <2>3
<1>2. CASE k # b
  <2>1. counter'[k] = counter[k] /\ result'[k] = result[k]
    BY <1>2 DEF ResetCounter, Types
  <2>2. QED  BY <2>1 DEF Rotation, Rotated
<1>3. QED  BY <1>1, <1>2

\* Counting a packet moves the rotation of its bucket on by one.
LEMMA CountRotation ==
  ASSUME Types, Rotation, NEW b \in Buckets, CountIn(b)
  PROVE  Rotation'
<1> SUFFICES ASSUME NEW k \in Buckets PROVE \E q \in Nat : Rotated(k, q)'
  BY DEF Rotation
<1>1. CASE k = b
  <2> DEFINE c == counter[k]
             v == (c + 1) % CounterModulus
             r == c % NumPifos
             s == v % NumPifos
             f == result[k]
             g == [f EXCEPT ![s] = f[s] + 1]
  <2>1. c \in Counters /\ f \in [0 .. NumPifos - 1 -> Nat]
    BY DEF Types
  <2>2. counter'[k] = v /\ result'[k] = g
    BY <1>1 DEF CountIn, Types
  <2>3. PICK q \in Nat : Rotated(k, q)
    BY DEF Rotation
  <2>4. \A p \in 0 .. NumPifos - 1 : f[p] = IF 1 <= p /\ p <= r THEN q + 1 ELSE q
    BY <2>3 DEF Rotated
  <2>5. s = IF r < NumPifos - 1 THEN r + 1 ELSE 0
    <3> HIDE DEF c
    <3>1. QED  BY <2>1, NextTurn
  <2>6. r \in 0 .. NumPifos - 1
    <3>1. c \in Nat
      BY <2>1 DEF Counters
    <3> HIDE DEF c
    <3>2. QED  BY <3>1, Sizes, DivMod
  <2>7. NumPifos \in Nat \ {0} /\ g = [f EXCEPT ![s] = f[s] + 1]
    BY Sizes
  <2> HIDE DEF f, r, s, g
  <2>8. \E t \in Nat : \A p \in 0 .. NumPifos - 1 :
          g[p] = IF 1 <= p /\ p <= s THEN t + 1 ELSE t
    BY <2>1, <2>4, <2>5, <2>6, <2>7, Turned
  <2>9. counter'[k] % NumPifos = s
    BY <2>2 DEF s
  <2>10. QED  BY <2>2, <2>8, <2>9 DEF Rotated
<1>2. CASE k # b
  <2>1. counter'[k] = counter[k] /\ result'[k] = result[k]
    BY <1>2 DEF CountIn, Types
  <2>2. QED  BY <2>1 DEF Rotation, Rotated
<1>3. QED  BY <1>1, <1>2

\* The packet at the head is counted, or it has no bucket.
LEMMA ResubmitCases ==
  ASSUME Types, Resubmit
  PROVE  \/ UNCHANGED <<counter, result, wraps>>
         \/ \E k \in Buckets : CountIn(k)
<1> DEFINE index == Head(resubmitted).index
<1>1. Head(resubmitted) \in Pending
  BY DEF Resubmit, Types
<1>2. index \in 0 .. NumBuckets
  BY <1>1 DEF Pending
<1>3. CASE index = NoBucket
  BY <1>3 DEF Resubmit
<1>4. CASE index # NoBucket
  <2>1. index \in Buckets
    BY <1>2, <1>4, Sizes DEF Buckets, NoBucket
  <2>2. CountIn(index)
    BY <1>4 DEF Resubmit
  <2>3. QED  BY <2>1, <2>2
<1>5. QED  BY <1>3, <1>4

\* Every packet keeps the counters in rotation.
LEMMA NextRotation == Types /\ Rotation /\ [Next]_vars => Rotation'
<1> SUFFICES ASSUME Types, Rotation, [Next]_vars PROVE Rotation'
  OBVIOUS
<1>1. ASSUME UNCHANGED <<counter, result>>
      PROVE  Rotation'
  BY <1>1 DEF Rotation, Rotated
<1>2. ASSUME NEW rank \in Ranks, Classify(rank)
      PROVE  Rotation'
  BY <1>1, <1>2 DEF Classify, histories
<1>3. ASSUME Resubmit
      PROVE  Rotation'
  BY <1>1, <1>3, ResubmitCases, CountRotation
<1>4. ASSUME NEW new \in NewBorders, Update(new)
      PROVE  Rotation'
  BY <1>1, <1>4 DEF Update, histories
<1>5. ASSUME Upload
      PROVE  Rotation'
  <2> SUFFICES ASSUME NEW k \in Buckets PROVE \E q \in Nat : Rotated(k, q)'
    BY DEF Rotation
  <2>1. counter[k] \in Nat
    BY DEF Types, Counters
  <2>2. counter'[k] = Kept(counter[k]) /\ result'[k] = result[k]
    BY <1>5 DEF Upload
  <2>3. counter'[k] % NumPifos = counter[k] % NumPifos
    BY <2>1, <2>2, KeptPlace
  <2>4. PICK q \in Nat : Rotated(k, q)
    BY DEF Rotation
  <2>5. Rotated(k, q)'
    BY <2>2, <2>3, <2>4 DEF Rotated
  <2>6. QED  BY <2>5
<1>6. ASSUME SetBucket
      PROVE  Rotation'
  <2>1. configured \in Buckets /\ ResetCounter(configured)
    BY <1>6, Sizes DEF SetBucket, Types, Buckets
  <2>2. QED  BY <2>1, ResetRotation
<1>7. ASSUME SetCounter
      PROVE  Rotation'
  <2>1. configured \in Buckets /\ ResetCounter(configured)
    BY <1>7, Sizes DEF SetCounter, Types, Buckets
  <2>2. QED  BY <2>1, ResetRotation
<1>8. ASSUME AddEntry
      PROVE  Rotation'
  BY <1>1, <1>8 DEF AddEntry, histories
<1>9. ASSUME UNCHANGED vars
      PROVE  Rotation'
  BY <1>1, <1>9 DEF vars
<1>10. QED  BY <1>2, <1>3, <1>4, <1>5, <1>6, <1>7, <1>8, <1>9 DEF Next

\* Counters in rotation differ by one at most.
LEMMA RotationBalances == Rotation => Balanced
BY DEF Rotation, Rotated, Balanced

-----------------------------------------------------------------------------
(* What the uploads report *)

Pifos == 0 .. NumPifos - 1

\* The packets counted, as the counter sees them: without the wraps.
Counted(k) == Total(result[k], Pifos) - CounterModulus * wraps[k]

\* What the uploads reported too much.
Surplus(k) == reported[k] + counter[k] - Counted(k)

Recounts(k) == Surplus(k) \in 0 .. (NumPifos - 1) * uploads

\* The recount, bucket by bucket.
LEMMA RecountParts == RecountBounded <=> \A k \in Buckets : Recounts(k)
BY DEF RecountBounded, Recounts, Surplus, Counted, Pifos

\* There are finitely many PIFOs.
LEMMA PifosFinite == IsFiniteSet(Pifos) /\ Cardinality(Pifos) \in Nat
<1>1. 0 \in Int /\ NumPifos - 1 \in Int
  BY Sizes
<1>2. IsFiniteSet(Pifos)
  BY <1>1, FS_Interval DEF Pifos
<1>3. QED  BY <1>2, FS_CardinalityType

\* Counters that are zero add up to zero.
LEMMA ZeroTotal ==
  ASSUME NEW f, \A p \in Pifos : f[p] = 0
  PROVE  Total(f, Pifos) = 0
<1>1. Total(f, Pifos) \in Nat
  BY PifosFinite, TotalType
<1>2. Total(f, Pifos) <= Cardinality(Pifos) * 0
  BY PifosFinite, TotalBound
<1>3. Cardinality(Pifos) * 0 = 0
  BY PifosFinite
<1>4. QED  BY <1>1, <1>2, <1>3

\* What uploads may report too much only grows.
LEMMA Allowance ==
  ASSUME NEW u \in Nat
  PROVE  /\ (NumPifos - 1) * u \in Nat
         /\ (NumPifos - 1) * (u + 1) = (NumPifos - 1) * u + (NumPifos - 1)
<1> DEFINE m == NumPifos - 1
<1>1. m \in Nat
  BY Sizes
<1> HIDE DEF m
<1>2. m * u \in Nat /\ m * (u + 1) = m * u + m
  BY <1>1
<1>3. QED  BY <1>2 DEF m

\* Counts are numbers.
LEMMA CountedType ==
  ASSUME Types, NEW k \in Buckets
  PROVE  /\ Total(result[k], Pifos) \in Nat
         /\ CounterModulus * wraps[k] \in Nat
         /\ Counted(k) \in Int
<1>1. \A p \in Pifos : result[k][p] \in Nat
  <2> DEFINE f == result[k]
  <2>1. f \in [Pifos -> Nat]
    BY DEF Types, Pifos
  <2> HIDE DEF f
  <2>2. \A p \in Pifos : f[p] \in Nat
    BY <2>1
  <2>3. QED  BY <2>2 DEF f
<1>2. Total(result[k], Pifos) \in Nat
  BY <1>1, PifosFinite, TotalType
<1> DEFINE w == wraps[k]
           t == CounterModulus * w
<1>3. w \in Nat
  BY DEF Types
<1> HIDE DEF w
<1>4. t \in Nat
  BY <1>3, Sizes
<1> HIDE DEF t
<1>5. Total(result[k], Pifos) - t \in Int
  BY <1>2, <1>4
<1>6. QED  BY <1>2, <1>4, <1>5 DEF t, w, Counted

\* A reset keeps the recount.
LEMMA ResetRecounts ==
  ASSUME Types, \A k \in Buckets : Recounts(k), UNCHANGED uploads,
         NEW b \in Buckets, ResetCounter(b)
  PROVE  \A k \in Buckets : Recounts(k)'
<1> SUFFICES ASSUME NEW k \in Buckets PROVE Recounts(k)'
  OBVIOUS
<1>1. CASE k = b
  <2>1. /\ counter'[k] = 0 /\ reported'[k] = 0 /\ wraps'[k] = 0
        /\ \A p \in Pifos : result'[k][p] = 0
    BY <1>1 DEF ResetCounter, Types, Pifos
  <2>2. Total(result'[k], Pifos) = 0
    BY <2>1, ZeroTotal
  <2>3. CounterModulus * wraps'[k] = 0
    BY <2>1, Sizes
  <2>4. Surplus(k)' = 0
    BY <2>1, <2>2, <2>3 DEF Surplus, Counted
  <2>5. uploads' \in Nat
    BY DEF Types
  <2> DEFINE m == (NumPifos - 1) * uploads'
  <2>6. m \in Nat
    BY <2>5, Allowance
  <2> HIDE DEF m
  <2>7. 0 \in 0 .. m
    BY <2>6
  <2>8. QED  BY <2>4, <2>7 DEF Recounts, m
<1>2. CASE k # b
  <2>1. UNCHANGED <<counter[k], reported[k], wraps[k], result[k]>>
    BY <1>2 DEF ResetCounter, Types
  <2>2. QED  BY <2>1 DEF Recounts, Surplus, Counted
<1>3. QED  BY <1>1, <1>2

\* Counting a packet keeps the recount.
LEMMA CountRecounts ==
  ASSUME Types, \A k \in Buckets : Recounts(k), UNCHANGED <<uploads, reported>>,
         NEW b \in Buckets, CountIn(b)
  PROVE  \A k \in Buckets : Recounts(k)'
<1> SUFFICES ASSUME NEW k \in Buckets PROVE Recounts(k)'
  OBVIOUS
<1>1. CASE k = b
  <2> DEFINE c == counter[k]
             v == (c + 1) % CounterModulus
             s == v % NumPifos
             f == result[k]
             g == [f EXCEPT ![s] = f[s] + 1]
             w == wraps[k]
  <2>1. c \in Counters /\ f \in [Pifos -> Nat] /\ w \in Nat
    BY DEF Types, Pifos
  <2>2. /\ counter'[k] = v /\ result'[k] = g
        /\ wraps'[k] = IF v = 0 THEN w + 1 ELSE w
    BY <1>1 DEF CountIn, Types
  <2>3. v = IF c + 1 < CounterModulus THEN c + 1 ELSE 0
    <3> HIDE DEF c
    <3>1. QED  BY <2>1, NextTurn
  <2>4. s \in Pifos
    <3>1. v \in Nat
      BY <2>1, <2>3, Sizes DEF Counters
    <3> HIDE DEF v
    <3>2. QED  BY <3>1, Sizes, DivMod DEF Pifos
  <2> HIDE DEF f, s, v, w
  <2>5. Total(g, Pifos) = Total(f, Pifos) + 1
    <3>1. /\ \A p \in Pifos : f[p] \in Nat /\ g[p] \in Nat
          /\ \A p \in Pifos \ {s} : g[p] = f[p]
          /\ g[s] = f[s] + 1
      BY <2>1, <2>4
    <3> HIDE DEF g
    <3>2. Total(g, Pifos) + f[s] = Total(f, Pifos) + g[s]
      BY <2>4, <3>1, PifosFinite, TotalChange
    <3>3. Total(g, Pifos) \in Nat /\ Total(f, Pifos) \in Nat /\ f[s] \in Nat
      BY <2>4, <3>1, PifosFinite, TotalType
    <3>4. QED  BY <3>1, <3>2, <3>3
  <2>6. CounterModulus * (w + 1) = CounterModulus * w + CounterModulus
    BY <2>1, Sizes
  <2> DEFINE tf == Total(f, Pifos)
             tg == Total(g, Pifos)
             mw == CounterModulus * w
             mv == CounterModulus * wraps'[k]
  <2>7. tf \in Nat /\ mw \in Nat /\ reported[k] \in Nat /\ c \in Nat /\ c < CounterModulus
    <3>1. Total(result[k], Pifos) \in Nat /\ CounterModulus * wraps[k] \in Nat
      BY CountedType
    <3>2. reported[k] \in Nat
      BY DEF Types
    <3>3. c \in Nat /\ c < CounterModulus
      BY <2>1, Sizes DEF Counters
    <3> HIDE DEF c
    <3>4. QED  BY <3>1, <3>2, <3>3 DEF f, w
  <2>8. v + mv = (c + 1) + mw /\ v \in Nat /\ mv \in Nat
    <3>1. CASE c + 1 < CounterModulus
      <4>1. v = c + 1 /\ v # 0 /\ v \in Nat
        BY <2>3, <2>7, <3>1
      <4>2. wraps'[k] = w
        BY <2>2, <4>1
      <4>3. mv = mw
        BY <4>2
      <4> HIDE DEF mv, mw, c
      <4>4. QED  BY <2>7, <4>1, <4>3
    <3>2. CASE ~(c + 1 < CounterModulus)
      <4>1. v = 0 /\ c + 1 = CounterModulus
        BY <2>3, <2>7, <3>2, Sizes
      <4>2. wraps'[k] = w + 1
        BY <2>2, <4>1
      <4>3. mv = mw + CounterModulus
        BY <2>6, <4>2
      <4> HIDE DEF mv, mw, c
      <4>4. QED  BY <2>7, <4>1, <4>3, Sizes
    <3>3. QED  BY <3>1, <3>2
  <2>9. Surplus(k) = reported[k] + c - (tf - mw)
    BY DEF Surplus, Counted, f, w
  <2>10. Surplus(k)' = reported[k] + v - (tg - mv)
    BY <2>2 DEF Surplus, Counted
  <2>11. Surplus(k)' = Surplus(k)
    <3>1. tg = tf + 1
      BY <2>5
    <3> HIDE DEF mv, mw, tf, tg, c
    <3>2. QED  BY <2>7, <2>8, <2>9, <2>10, <3>1
  <2>12. QED  BY <2>11 DEF Recounts
<1>2. CASE k # b
  <2>1. UNCHANGED <<counter[k], reported[k], wraps[k], result[k]>>
    BY <1>2 DEF CountIn, Types
  <2>2. QED  BY <2>1 DEF Recounts, Surplus, Counted
<1>3. QED  BY <1>1, <1>2

\* An upload keeps the recount.
LEMMA UploadRecounts ==
  ASSUME Types, \A k \in Buckets : Recounts(k), Upload
  PROVE  \A k \in Buckets : Recounts(k)'
<1> SUFFICES ASSUME NEW k \in Buckets PROVE Recounts(k)'
  OBVIOUS
<1> DEFINE c == counter[k]
           d == Counted(k)
           m == (NumPifos - 1) * uploads
           n == (NumPifos - 1) * uploads'
           r == Kept(c)
<1>1. c \in Nat /\ reported[k] \in Nat /\ uploads \in Nat
  BY DEF Types, Counters
<1>2. d \in Int
  BY CountedType
<1>3. m \in Nat /\ n = m + (NumPifos - 1)
  <2>1. uploads' = uploads + 1
    BY DEF Upload
  <2>2. QED  BY <1>1, <2>1, Allowance
<1>4. r \in 0 .. NumPifos - 1
  <2> HIDE DEF c
  <2>1. QED  BY <1>1, KeptPlace
<1>5. reported[k] + c - d \in 0 .. m
  BY DEF Recounts, Surplus
<1>6. Surplus(k)' = (reported[k] + c) + r - d
  BY DEF Upload, Surplus, Counted
<1>7. Recounts(k)' <=> Surplus(k)' \in 0 .. n
  BY DEF Recounts
<1> HIDE DEF c, d, m, n, r
<1>8. Surplus(k)' \in 0 .. n
  BY <1>1, <1>2, <1>3, <1>4, <1>5, <1>6, Sizes
<1>9. QED  BY <1>7, <1>8

\* The recount holds before any packet.
LEMMA InitRecounts == Init => \A k \in Buckets : Recounts(k)
<1> SUFFICES ASSUME Init, NEW k \in Buckets PROVE Recounts(k)
  OBVIOUS
<1>1. /\ counter[k] = 0 /\ reported[k] = 0 /\ wraps[k] = 0 /\ uploads = 0
      /\ \A p \in Pifos : result[k][p] = 0
  BY DEF Init, Pifos
<1>2. Total(result[k], Pifos) = 0
  BY <1>1, ZeroTotal
<1>3. CounterModulus * wraps[k] = 0 /\ (NumPifos - 1) * uploads = 0
  BY <1>1, Sizes
<1>4. Surplus(k) = 0
  BY <1>1, <1>2, <1>3 DEF Surplus, Counted
<1>5. QED  BY <1>3, <1>4 DEF Recounts

\* Every packet keeps the recount.
LEMMA NextRecounts ==
  Types /\ (\A k \in Buckets : Recounts(k)) /\ [Next]_vars
    => (\A k \in Buckets : Recounts(k))'
<1> SUFFICES ASSUME Types, \A k \in Buckets : Recounts(k), [Next]_vars
             PROVE  \A k \in Buckets : Recounts(k)'
  OBVIOUS
<1>1. ASSUME UNCHANGED <<counter, uploads, histories>>
      PROVE  \A k \in Buckets : Recounts(k)'
  BY <1>1 DEF Recounts, Surplus, Counted, histories
<1>2. ASSUME NEW rank \in Ranks, Classify(rank)
      PROVE  \A k \in Buckets : Recounts(k)'
  BY <1>1, <1>2 DEF Classify
<1>3. ASSUME Resubmit
      PROVE  \A k \in Buckets : Recounts(k)'
  <2>1. UNCHANGED <<uploads, reported>>
    BY <1>3 DEF Resubmit
  <2>2. CASE UNCHANGED <<counter, result, wraps>>
    BY <1>1, <2>1, <2>2 DEF histories
  <2>3. CASE \E k \in Buckets : CountIn(k)
    BY <2>1, <2>3, CountRecounts
  <2>4. QED  BY <1>3, <2>2, <2>3, ResubmitCases
<1>4. ASSUME NEW new \in NewBorders, Update(new)
      PROVE  \A k \in Buckets : Recounts(k)'
  BY <1>1, <1>4 DEF Update
<1>5. ASSUME Upload
      PROVE  \A k \in Buckets : Recounts(k)'
  BY <1>5, UploadRecounts
<1>6. ASSUME SetBucket
      PROVE  \A k \in Buckets : Recounts(k)'
  <2>1. configured \in Buckets /\ ResetCounter(configured) /\ UNCHANGED uploads
    BY <1>6, Sizes DEF SetBucket, Types, Buckets
  <2>2. QED  BY <2>1, ResetRecounts
<1>7. ASSUME SetCounter
      PROVE  \A k \in Buckets : Recounts(k)'
  <2>1. configured \in Buckets /\ ResetCounter(configured) /\ UNCHANGED uploads
    BY <1>7, Sizes DEF SetCounter, Types, Buckets
  <2>2. QED  BY <2>1, ResetRecounts
<1>8. ASSUME AddEntry
      PROVE  \A k \in Buckets : Recounts(k)'
  BY <1>1, <1>8 DEF AddEntry
<1>9. ASSUME UNCHANGED vars
      PROVE  \A k \in Buckets : Recounts(k)'
  BY <1>1, <1>9 DEF vars, histories
<1>10. QED  BY <1>2, <1>3, <1>4, <1>5, <1>6, <1>7, <1>8, <1>9 DEF Next

-----------------------------------------------------------------------------
(* The theorems *)

\* The state keeps its types: counters of the width of Counter_t, and indices of
\* a bucket or of none.
THEOREM TypesInvariant == Spec => []Types
<1>1. QED  BY InitTypes, NextTypes, PTL DEF Spec

\* In every bucket the packets are dealt to the PIFOs in rotation, whatever the
\* control plane, the uploads and the wraps of the counters do.
THEOREM Balance == Spec => []Balanced
<1>1. Spec => []Rotation
  BY InitRotation, NextRotation, TypesInvariant, PTL DEF Spec
<1>2. QED  BY <1>1, RotationBalances, PTL

\* The uploads report every packet counted, but for whole wraps of a counter, and
\* at most the low bits of a counter twice for every upload.
THEOREM Recount == Spec => []RecountBounded
<1>1. Init => RecountBounded
  BY InitRecounts, RecountParts
<1>2. Types /\ RecountBounded /\ [Next]_vars => RecountBounded'
  <2>1. RecountBounded' <=> (\A k \in Buckets : Recounts(k))'
    BY DEF RecountBounded, Recounts, Surplus, Counted, Pifos
  <2>2. QED  BY <2>1, RecountParts, NextRecounts
<1>3. QED  BY <1>1, <1>2, TypesInvariant, PTL DEF Spec

\* A packet that no border and no entry was written behind is counted in the
\* bucket whose range holds its rank, if the borders ascend.
THEOREM CountsInRange == Spec => CountedInRange
<1>1. Spec => []Indexed
  BY InitIndexed, NextIndexed, TypesInvariant, PTL DEF Spec
<1>2. Types /\ Indexed /\ [Next]_vars =>
        [(/\ Resubmit
          /\ ~Head(resubmitted).outdated
          /\ Ascending
          /\ program = "table" => configured = 2 * NumBuckets)
         => HoldsRank(Head(resubmitted).index, Head(resubmitted).rank)]_vars
  <2> SUFFICES ASSUME Types, Indexed, Resubmit, ~Head(resubmitted).outdated, Ascending,
                      program = "table" => configured = 2 * NumBuckets
               PROVE  HoldsRank(Head(resubmitted).index, Head(resubmitted).rank)
    OBVIOUS
  <2>1. resubmitted # <<>> /\ resubmitted \in Seq(Pending)
    BY DEF Resubmit, Types
  <2>2. 1 \in DOMAIN resubmitted /\ Head(resubmitted) = resubmitted[1]
        /\ resubmitted[1] \in Pending
    BY <2>1
  <2>3. Head(resubmitted).index = Index(Head(resubmitted).rank)
    BY <2>2 DEF Indexed
  <2>4. Head(resubmitted).rank \in Nat
    BY <2>2 DEF Pending
  <2>5. QED  BY <2>3, <2>4, IndexHolds
<1>3. QED  BY <1>1, <1>2, TypesInvariant, PTL DEF Spec, CountedInRange
=============================================================================
