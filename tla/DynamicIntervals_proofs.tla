----------------------- MODULE DynamicIntervals_proofs -----------------------
(***************************************************************************)
(* Proofs about the load balancers: the type invariant, the round robin    *)
(* (Balanced), the shape of the intervals (IntervalsWide), the growth of   *)
(* the last border, the bound on what an adjustment counts again           *)
(* (RecountBounded) and the load that adjustments keep (LoadConserved),    *)
(* for any number of load balancers, PIFOs and intervals.                  *)
(***************************************************************************)
EXTENDS DynamicIntervals, Totals_proofs

Counters == [LoadBalancers -> [Pifos -> [Intervals -> Nat]]]

\* Balanced, for any counters.
Staircase(counters) ==
  \A lb \in LoadBalancers, i \in Intervals, p, q \in Pifos :
    p < q => counters[lb][p][i] - counters[lb][q][i] \in {0, 1}

\* IntervalsWide, for any borders.
Wide(borders) ==
  /\ borders[0] = 0
  /\ \A i \in Intervals : Width(borders, i) >= Unit

-----------------------------------------------------------------------------
(***************************************************************************)
(* Classification and balancing                                            *)
(***************************************************************************)
\* SelectBestPifo returns the first PIFO with the smallest count.
LEMMA SelectBest ==
  ASSUME NEW counters \in Counters, NEW lb \in LoadBalancers, NEW i \in Intervals
  PROVE  /\ SelectBestPifo(counters, lb, i) \in Pifos
         /\ \A q \in Pifos :
              LET p == SelectBestPifo(counters, lb, i)
              IN  \/ counters[lb][p][i] < counters[lb][q][i]
                  \/ counters[lb][p][i] = counters[lb][q][i] /\ p <= q
<1> DEFINE f == [p \in 0 .. NumPifos - 1 |-> counters[lb][p][i]]
<1>1. NumPifos - 1 \in Nat
  BY IntervalAssumption
<1>2. f \in [0 .. NumPifos - 1 -> Int]
  <2>1. \A p \in Pifos : counters[lb][p][i] \in Nat
    BY DEF Counters
  <2>2. QED  BY <2>1 DEF Pifos
<1>3. \E p \in 0 .. NumPifos - 1 : \A q \in 0 .. NumPifos - 1 :
        f[p] < f[q] \/ (f[q] = f[p] /\ p <= q)
  BY <1>1, <1>2, FirstMinimum
<1>4. \E p \in Pifos : \A q \in Pifos :
        \/ counters[lb][p][i] < counters[lb][q][i]
        \/ counters[lb][p][i] = counters[lb][q][i] /\ p <= q
  BY <1>3 DEF Pifos
<1>5. QED  BY <1>4 DEF SelectBestPifo

\* GetIntervalIndex returns an interval.
LEMMA IndexType ==
  ASSUME NEW borders, NEW rank
  PROVE  GetIntervalIndex(borders, rank) \in Intervals
<1> DEFINE T == {i \in Intervals : Inside(borders, i, rank)}
<1>1. CASE \E i \in Intervals : Inside(borders, i, rank)
  <2>1. T \subseteq Nat /\ T # {}
    BY <1>1 DEF Intervals
  <2>2. PICK i \in T : \A j \in T : i <= j
    BY <2>1, LeastNatural
  <2>3. \E k \in Intervals : /\ Inside(borders, k, rank)
                             /\ \A j \in Intervals : Inside(borders, j, rank) => k <= j
    BY <2>2
  <2>4. QED  BY <1>1, <2>3 DEF GetIntervalIndex
<1>2. CASE ~ \E i \in Intervals : Inside(borders, i, rank)
  <2>1. NumIntervals - 1 \in Intervals
    BY IntervalAssumption DEF Intervals
  <2>2. QED  BY <1>2, <2>1 DEF GetIntervalIndex
<1>3. QED  BY <1>1, <1>2

\* A rank that no interval holds is at or beyond the last border.
LEMMA Beyond ==
  ASSUME NEW borders \in [Borders -> Nat], borders[0] = 0,
         NEW rank \in Nat, ~ \E i \in Intervals : Inside(borders, i, rank)
  PROVE  borders[NumIntervals] <= rank * Unit
<1> DEFINE x == rank * Unit
           T == {b \in Borders : x < borders[b]}
<1>1. x \in Nat
  BY IntervalAssumption
<1> HIDE DEF x
<1>2. ASSUME NEW b \in T PROVE FALSE
  <2>1. T \subseteq Nat /\ T # {}
    BY DEF Borders
  <2>2. PICK c \in T : \A d \in T : c <= d
    BY <2>1, LeastNatural
  <2>3. c \in Borders /\ c # 0 /\ x < borders[c]
    BY <1>1
  <2>4. c - 1 \in Intervals /\ c - 1 \in Borders /\ c - 1 + 1 = c /\ ~(c <= c - 1)
    BY <2>3, IntervalAssumption DEF Intervals, Borders
  <2>5. c - 1 \notin T
    BY <2>2, <2>4
  <2>6. borders[c - 1] <= x
    BY <1>1, <2>4, <2>5
  <2>7. Inside(borders, c - 1, rank)
    BY <2>3, <2>4, <2>6 DEF Inside, x
  <2>8. QED  BY <2>4, <2>7
<1>3. NumIntervals \in Borders
  BY IntervalAssumption DEF Borders
<1>4. QED  BY <1>1, <1>2, <1>3 DEF x

\* A stretch keeps the borders in order and only moves the last one, up.
LEMMA Stretch ==
  ASSUME NEW borders \in [Borders -> Nat], Wide(borders), NEW rank \in Nat
  PROVE  /\ Stretched(borders, rank) \in [Borders -> Nat]
         /\ Wide(Stretched(borders, rank))
         /\ Stretched(borders, rank)[NumIntervals] >= borders[NumIntervals]
<1>1. CASE \E i \in Intervals : Inside(borders, i, rank)
  <2>1. NumIntervals \in Borders
    BY IntervalAssumption DEF Borders
  <2>2. QED  BY <1>1, <2>1 DEF Stretched
<1>2. CASE ~ \E i \in Intervals : Inside(borders, i, rank)
  <2> DEFINE x == rank * Unit
             new == [borders EXCEPT ![NumIntervals] = x]
  <2>1. x \in Nat /\ borders[NumIntervals] <= x
    BY <1>2, Beyond, IntervalAssumption DEF Wide
  <2> HIDE DEF x
  <2>2. NumIntervals \in Borders /\ NumIntervals # 0 /\ 0 \in Borders
    BY IntervalAssumption DEF Borders
  <2>3. new \in [Borders -> Nat] /\ new[0] = 0 /\ new[NumIntervals] >= borders[NumIntervals]
    BY <2>1, <2>2 DEF Wide
  <2>4. ASSUME NEW i \in Intervals PROVE Width(new, i) >= Unit
    <3>1. i \in Borders /\ i + 1 \in Borders /\ i # NumIntervals
      BY IntervalAssumption DEF Borders, Intervals
    <3>2. new[i] = borders[i] /\ new[i + 1] >= borders[i + 1]
      BY <2>1, <2>2, <3>1
    <3>3. borders[i + 1] - borders[i] >= Unit
      BY DEF Wide, Width
    <3>4. new[i] \in Nat /\ new[i + 1] \in Nat /\ borders[i] \in Nat
            /\ borders[i + 1] \in Nat /\ Unit \in Nat
      BY <2>3, <3>1, IntervalAssumption
    <3>5. QED  BY <3>2, <3>3, <3>4 DEF Width
  <2>5. QED  BY <1>2, <2>3, <2>4 DEF Stretched, Wide, x
<1>3. QED  BY <1>1, <1>2

-----------------------------------------------------------------------------
(***************************************************************************)
(* AdjustIntervals: the counters                                           *)
(***************************************************************************)
\* SmallestCount is the smallest of the counts.
LEMMA SmallestCountIsLeast ==
  ASSUME NEW counters \in Counters, NEW lb \in LoadBalancers, NEW i \in Intervals
  PROVE  /\ \E p \in Pifos : SmallestCount(counters, lb, i) = counters[lb][p][i]
         /\ \A p \in Pifos : SmallestCount(counters, lb, i) <= counters[lb][p][i]
<1> DEFINE S == {counters[lb][p][i] : p \in Pifos}
<1>1. \A p \in Pifos : counters[lb][p][i] \in Nat
  BY DEF Counters
<1>2. 0 \in Pifos
  BY IntervalAssumption DEF Pifos
<1>3. S \subseteq Nat /\ S # {}
  BY <1>1, <1>2
<1>4. \E x \in S : \A y \in S : x <= y
  BY <1>3, LeastNatural
<1>5. Min(S) \in S /\ \A y \in S : Min(S) <= y
  BY <1>4 DEF Min
<1>6. QED  BY <1>5 DEF SmallestCount

\* Levelling keeps the differences between the counts of an interval.
LEMMA LevelledOK ==
  ASSUME NEW counters \in Counters, Staircase(counters)
  PROVE  Levelled(counters) \in Counters /\ Staircase(Levelled(counters))
<1>1. ASSUME NEW lb \in LoadBalancers, NEW p \in Pifos, NEW i \in Intervals
      PROVE  /\ counters[lb][p][i] \in Nat
             /\ SmallestCount(counters, lb, i) \in Nat
             /\ SmallestCount(counters, lb, i) <= counters[lb][p][i]
             /\ Levelled(counters)[lb][p][i]
                  = counters[lb][p][i] - SmallestCount(counters, lb, i)
  <2>1. \A q \in Pifos : counters[lb][q][i] \in Nat
    BY DEF Counters
  <2>2. QED  BY <2>1, SmallestCountIsLeast DEF Levelled
<1>2. \A lb \in LoadBalancers, p \in Pifos, i \in Intervals :
        counters[lb][p][i] - SmallestCount(counters, lb, i) \in Nat
  BY <1>1
<1>3. Levelled(counters) \in Counters
  BY <1>2 DEF Levelled, Counters
<1>4. ASSUME NEW lb \in LoadBalancers, NEW i \in Intervals, NEW p \in Pifos, NEW q \in Pifos,
             p < q
      PROVE  Levelled(counters)[lb][p][i] - Levelled(counters)[lb][q][i] \in {0, 1}
  <2>1. counters[lb][p][i] - counters[lb][q][i] \in {0, 1}
    BY <1>4 DEF Staircase
  <2>2. QED  BY <1>1, <2>1
<1>5. QED  BY <1>3, <1>4 DEF Staircase

\* Counting a packet at the best PIFO keeps the round robin.
LEMMA IncrementOK ==
  ASSUME NEW counters \in Counters, Staircase(counters),
         NEW lb \in LoadBalancers, NEW i \in Intervals
  PROVE  LET b   == SelectBestPifo(counters, lb, i)
             new == [counters EXCEPT ![lb][b][i] = @ + 1]
         IN  new \in Counters /\ Staircase(new)
<1> DEFINE b == SelectBestPifo(counters, lb, i)
           new == [counters EXCEPT ![lb][b][i] = @ + 1]
<1>1. /\ b \in Pifos
      /\ \A q \in Pifos : \/ counters[lb][b][i] < counters[lb][q][i]
                          \/ counters[lb][b][i] = counters[lb][q][i] /\ b <= q
  BY SelectBest
<1> HIDE DEF b
<1>2. \A l \in LoadBalancers, p \in Pifos, j \in Intervals :
        /\ counters[l][p][j] \in Nat
        /\ new[l][p][j] = IF l = lb /\ p = b /\ j = i THEN counters[l][p][j] + 1
                                                     ELSE counters[l][p][j]
  BY <1>1 DEF Counters
<1>3. new \in Counters
  BY <1>1 DEF Counters
<1>4. ASSUME NEW l \in LoadBalancers, NEW j \in Intervals, NEW p \in Pifos, NEW q \in Pifos,
             p < q
      PROVE  new[l][p][j] - new[l][q][j] \in {0, 1}
  <2>1. counters[l][p][j] - counters[l][q][j] \in {0, 1}
    BY <1>4 DEF Staircase
  <2>2. counters[l][p][j] \in Nat /\ counters[l][q][j] \in Nat
    BY <1>2
  <2>3. CASE l = lb /\ j = i /\ p = b
    <3>1. counters[l][p][j] = counters[l][q][j]
      BY <1>1, <2>1, <2>2, <2>3
    <3>2. new[l][p][j] = counters[l][p][j] + 1 /\ new[l][q][j] = counters[l][q][j]
      BY <1>2, <1>4, <2>3 DEF Pifos
    <3>3. QED  BY <2>2, <3>1, <3>2
  <2>4. CASE l = lb /\ j = i /\ q = b
    <3>1. p \in Int /\ q \in Int
      BY DEF Pifos
    <3>2. counters[l][q][j] < counters[l][p][j]
      BY <1>1, <1>4, <2>4, <3>1
    <3>3. new[l][q][j] = counters[l][q][j] + 1 /\ new[l][p][j] = counters[l][p][j]
      BY <1>2, <1>4, <2>4, <3>1
    <3>4. QED  BY <2>1, <2>2, <3>2, <3>3
  <2>5. CASE ~(l = lb /\ j = i /\ (p = b \/ q = b))
    <3>1. new[l][q][j] = counters[l][q][j] /\ new[l][p][j] = counters[l][p][j]
      BY <1>2, <2>5
    <3>2. QED  BY <2>1, <3>1
  <2>6. QED  BY <2>3, <2>4, <2>5
<1>5. QED  BY <1>3, <1>4 DEF Staircase, b

-----------------------------------------------------------------------------
(***************************************************************************)
(* AdjustIntervals: the loads and the borders                              *)
(***************************************************************************)
\* Loads stay natural numbers when they decay and the counters are added.
LEMMA DecayedType ==
  ASSUME NEW loads \in [Intervals -> Nat], NEW counters \in Counters
  PROVE  Decayed(loads, counters) \in [Intervals -> Nat]
<1>1. ASSUME NEW i \in Intervals PROVE CurrentCount(counters, i) \in Nat
  <2> DEFINE f == [c \in LoadBalancers \X Pifos |-> counters[c[1]][c[2]][i]]
  <2>1. IsFiniteSet(LoadBalancers) /\ IsFiniteSet(Pifos)
    BY FS_Interval, IntervalAssumption DEF LoadBalancers, Pifos
  <2>2. IsFiniteSet(LoadBalancers \X Pifos)
    BY <2>1, FS_Product
  <2>3. \A c \in LoadBalancers \X Pifos : f[c] \in Nat
    BY DEF Counters
  <2>4. QED  BY <2>2, <2>3, TotalType DEF CurrentCount
<1>2. ASSUME NEW i \in Intervals
      PROVE  loads[i] \div 2 + CountUnit * CurrentCount(counters, i) \in Nat
  <2>1. loads[i] \div 2 \in Nat
    OBVIOUS
  <2>2. CountUnit * CurrentCount(counters, i) \in Nat
    BY <1>1, IntervalAssumption
  <2>3. QED  BY <2>1, <2>2
<1>3. QED  BY <1>2 DEF Decayed

\* FirstMax is the first index of the largest load.
LEMMA FirstMaxOK ==
  ASSUME NEW n \in Nat, NEW loads \in [0 .. n -> Nat]
  PROVE  /\ FirstMax(loads) \in 0 .. n
         /\ \A j \in 0 .. n : \/ loads[j] < loads[FirstMax(loads)]
                              \/ /\ loads[j] = loads[FirstMax(loads)]
                                 /\ FirstMax(loads) <= j
<1>1. \E i \in 0 .. n : \A j \in 0 .. n : loads[j] < loads[i] \/ (loads[j] = loads[i] /\ i <= j)
  <2>1. loads \in [0 .. n -> Int]  OBVIOUS
  <2>2. QED  BY <2>1, FirstMaximum
<1>2. DOMAIN loads = 0 .. n
  OBVIOUS
<1>3. QED  BY <1>1, <1>2 DEF FirstMax

\* The interval after the merged one's first half exists.
LEMMA MergeStartType ==
  ASSUME NEW loads \in [Intervals -> Nat], NumIntervals >= 2
  PROVE  MergeStart(loads) \in 0 .. NumIntervals - 2
<1>1. NumIntervals - 1 \in Nat
  BY IntervalAssumption
<1>2. \E i \in Intervals : \A j \in Intervals :
        loads[i] < loads[j] \/ (loads[j] = loads[i] /\ i <= j)
  <2>1. loads \in [0 .. NumIntervals - 1 -> Int]
    BY DEF Intervals
  <2>2. QED  BY <1>1, <2>1, FirstMinimum DEF Intervals
<1>3. FirstMin(loads) \in Intervals
  BY <1>2 DEF FirstMin
<1>4. QED  BY <1>3, IntervalAssumption DEF MergeStart, Intervals

\* If the busiest interval before the merge is wider than two ranks, so is the
\* busiest one after it: it is the same interval or the merged one.
LEMMA BusiestStaysWide ==
  ASSUME NEW borders \in [Borders -> Nat], Wide(borders), NumIntervals >= 2,
         NEW loads \in [Intervals -> Nat],
         NEW s \in 0 .. NumIntervals - 2,
         Width(borders, FirstMax(loads)) > 2 * Unit
  PROVE  LET m == FirstMax(MergedLoads(loads, s))
         IN  /\ MergedLoads(loads, s) \in [0 .. NumIntervals - 2 -> Nat]
             /\ m \in 0 .. NumIntervals - 2
             /\ Width(MergedBorders(borders, s), m) >= 2 * Unit
<1> DEFINE merged == MergedLoads(loads, s)
           m == FirstMax(merged)
           x == FirstMax(loads)
           old(i) == IF i < s THEN i ELSE i + 1
<1>1. NumIntervals \in Nat /\ NumIntervals - 1 \in Nat /\ NumIntervals - 2 \in Nat /\ Unit \in Nat
  BY IntervalAssumption
<1>2. s \in Intervals /\ s + 1 \in Intervals
  BY <1>1 DEF Intervals
<1>3. \A i \in 0 .. NumIntervals - 2 :
        merged[i] = IF i = s THEN loads[s] + loads[s + 1] ELSE loads[old(i)]
  BY DEF MergedLoads
<1>4. merged \in [0 .. NumIntervals - 2 -> Nat]
  BY <1>1, <1>2 DEF MergedLoads, Intervals
<1> HIDE DEF merged
<1>5. /\ m \in 0 .. NumIntervals - 2
      /\ \A j \in 0 .. NumIntervals - 2 :
           merged[j] < merged[m] \/ (merged[j] = merged[m] /\ m <= j)
  BY <1>1, <1>4, FirstMaxOK
<1>6. /\ x \in Intervals
      /\ \A j \in Intervals : loads[j] < loads[x] \/ (loads[j] = loads[x] /\ x <= j)
  BY <1>1, FirstMaxOK DEF Intervals
<1> HIDE DEF m, x
<1>7. CASE m = s
  <2>1. s \in 0 .. NumIntervals - 1 /\ s + 1 \in 0 .. NumIntervals - 1
    BY <1>1
  <2>2. Width(MergedBorders(borders, s), s) = borders[s + 2] - borders[s]
    BY <1>1, <2>1 DEF Width, MergedBorders
  <2>3. /\ borders[s + 1] - borders[s] >= Unit
        /\ borders[s + 2] - borders[s + 1] >= Unit
    <3>1. Width(borders, s) >= Unit /\ Width(borders, s + 1) >= Unit
      BY <1>2 DEF Wide
    <3>2. s + 1 + 1 = s + 2  BY <1>1
    <3>3. QED  BY <3>1, <3>2 DEF Width
  <2>4. borders[s] \in Nat /\ borders[s + 1] \in Nat /\ borders[s + 2] \in Nat
    BY <1>1 DEF Borders
  <2>5. borders[s + 2] - borders[s] >= 2 * Unit
    BY <1>1, <2>3, <2>4
  <2>6. Width(MergedBorders(borders, s), m) >= 2 * Unit
    BY <1>7, <2>2, <2>5
  <2>7. QED  BY <1>4, <1>5, <2>6 DEF m, merged
<1>8. CASE m # s
  <2>1. /\ old(m) \in Intervals /\ old(m) # s /\ old(m) # s + 1
        /\ merged[m] = loads[old(m)]
    BY <1>1, <1>3, <1>5, <1>8 DEF Intervals
  <2>2. old(m) = x
    <3>1. loads[s] \in Nat /\ loads[s + 1] \in Nat /\ loads[x] \in Nat /\ loads[old(m)] \in Nat
      BY <1>2, <1>6, <2>1
    <3>2. /\ loads[s] + loads[s + 1] <= loads[old(m)]
          /\ loads[s] + loads[s + 1] = loads[old(m)] => m < s
      BY <1>1, <1>3, <1>5, <1>8, <2>1, <3>1
    <3>3. ASSUME x # old(m) PROVE FALSE
      <4>1. loads[old(m)] <= loads[x] /\ (loads[old(m)] = loads[x] => x <= old(m))
        BY <1>6, <2>1, <3>1
      <4>2. CASE x \in {s, s + 1}
        <5>1. loads[s] + loads[s + 1] = loads[old(m)] /\ loads[old(m)] = loads[x]
          BY <3>1, <3>2, <4>1, <4>2
        <5>2. m < s /\ x <= old(m)
          BY <3>2, <4>1, <5>1
        <5>3. QED  BY <1>1, <1>5, <4>2, <5>2
      <4>3. CASE x \notin {s, s + 1}
        <5> DEFINE y == IF x < s THEN x ELSE x - 1
        <5>1. y \in 0 .. NumIntervals - 2 /\ y # s /\ old(y) = x
          BY <1>1, <1>6, <4>3 DEF Intervals
        <5>2. merged[y] = loads[x]
          BY <1>3, <5>1
        <5>3. loads[x] = loads[old(m)] /\ m <= y
          BY <1>5, <2>1, <3>1, <4>1, <5>1, <5>2
        <5>4. x < old(m)
          BY <1>1, <1>6, <2>1, <3>3, <4>1, <5>3 DEF Intervals
        <5>5. QED  BY <1>1, <1>5, <1>6, <1>8, <4>3, <5>3, <5>4 DEF Intervals
      <4>4. QED  BY <4>2, <4>3
    <3>4. QED  BY <3>3
  <2>3. Width(MergedBorders(borders, s), m) = Width(borders, x)
    <3>1. m \in 0 .. NumIntervals - 1 /\ m + 1 \in 0 .. NumIntervals - 1
      BY <1>1, <1>5
    <3>2. CASE m < s
      <4>1. m = x /\ m + 1 <= s
        BY <1>1, <1>5, <2>2, <3>2
      <4>2. MergedBorders(borders, s)[m] = borders[m]
              /\ MergedBorders(borders, s)[m + 1] = borders[m + 1]
        BY <3>1, <3>2, <4>1 DEF MergedBorders
      <4>3. QED  BY <4>1, <4>2 DEF Width
    <3>3. CASE m > s
      <4>1. m + 1 = x /\ ~(m <= s) /\ ~(m + 1 <= s)
        BY <1>1, <1>5, <2>2, <3>3
      <4>2. MergedBorders(borders, s)[m] = borders[m + 1]
              /\ MergedBorders(borders, s)[m + 1] = borders[m + 1 + 1]
        BY <3>1, <4>1 DEF MergedBorders
      <4>3. QED  BY <4>1, <4>2 DEF Width
    <3>4. QED  BY <1>1, <1>5, <1>8, <3>2, <3>3
  <2>4. Width(borders, x) \in Int
    <3>1. x \in Borders /\ x + 1 \in Borders
      BY <1>1, <1>6 DEF Intervals, Borders
    <3>2. QED  BY <3>1 DEF Width
  <2>5. QED  BY <1>1, <1>4, <1>5, <2>3, <2>4 DEF m, x, merged
<1>9. QED  BY <1>7, <1>8

\* A merge keeps the borders in order and the outer ones where they are.
LEMMA MergeBordersOK ==
  ASSUME NEW borders \in [Borders -> Nat], Wide(borders), NumIntervals >= 2,
         NEW s \in 0 .. NumIntervals - 2
  PROVE  LET new == MergedBorders(borders, s)
         IN  /\ new \in [0 .. NumIntervals - 1 -> Nat]
             /\ new[0] = 0
             /\ new[NumIntervals - 1] = borders[NumIntervals]
             /\ \A i \in 0 .. NumIntervals - 2 : Width(new, i) >= Unit
<1> DEFINE new == MergedBorders(borders, s)
<1>1. NumIntervals \in Nat /\ Unit \in Nat
  BY IntervalAssumption
<1>2. \A b \in 0 .. NumIntervals - 1 :
        (IF b <= s THEN b ELSE b + 1) \in Borders
  BY <1>1 DEF Borders
<1>3. new \in [0 .. NumIntervals - 1 -> Nat]
  BY <1>2 DEF MergedBorders
<1>4. \A b \in 0 .. NumIntervals - 1 : new[b] = borders[IF b <= s THEN b ELSE b + 1]
  BY DEF MergedBorders
<1> HIDE DEF new
<1>5. new[0] = 0 /\ new[NumIntervals - 1] = borders[NumIntervals]
  BY <1>1, <1>4 DEF Wide
<1>6. \A i \in Intervals : /\ borders[i + 1] - borders[i] >= Unit
                           /\ borders[i + 1] \in Nat /\ borders[i] \in Nat
  BY <1>1 DEF Wide, Width, Intervals, Borders
<1>7. ASSUME NEW i \in 0 .. NumIntervals - 2 PROVE new[i + 1] - new[i] >= Unit
  <2>1. i \in Intervals /\ i + 1 \in Intervals /\ i \in 0 .. NumIntervals - 1
          /\ i + 1 \in 0 .. NumIntervals - 1
    BY <1>1 DEF Intervals
  <2>2. CASE i < s
    BY <1>1, <1>4, <1>6, <2>1, <2>2
  <2>3. CASE i = s
    <3>1. new[i] = borders[i] /\ new[i + 1] = borders[i + 1 + 1]
      BY <1>1, <1>4, <2>1, <2>3
    <3>2. QED  BY <1>1, <1>6, <2>1, <3>1
  <2>4. CASE i > s
    <3>1. new[i] = borders[i + 1] /\ new[i + 1] = borders[i + 1 + 1]
      BY <1>1, <1>4, <2>1, <2>4
    <3>2. QED  BY <1>1, <1>6, <2>1, <3>1
  <2>5. QED  BY <1>1, <2>2, <2>3, <2>4
<1>8. QED  BY <1>3, <1>5, <1>7 DEF new, Width

\* Splitting an interval of at least two ranks keeps the borders in order.
LEMMA SplitBordersOK ==
  ASSUME NumIntervals >= 2,
         NEW borders \in [0 .. NumIntervals - 1 -> Nat], borders[0] = 0,
         \A i \in 0 .. NumIntervals - 2 : Width(borders, i) >= Unit,
         NEW m \in 0 .. NumIntervals - 2, Width(borders, m) >= 2 * Unit
  PROVE  LET new == SplitBorders(borders, m)
         IN  /\ new \in [Borders -> Nat]
             /\ Wide(new)
             /\ new[NumIntervals] = borders[NumIntervals - 1]
<1> DEFINE new == SplitBorders(borders, m)
           mid == (borders[m] + borders[m + 1]) \div 2
<1>1. NumIntervals \in Nat /\ Unit \in Nat
  BY IntervalAssumption
<1>2. \A i \in 0 .. NumIntervals - 2 : /\ borders[i + 1] - borders[i] >= Unit
                                       /\ borders[i + 1] \in Nat /\ borders[i] \in Nat
  BY <1>1 DEF Width
<1>3. mid \in Nat /\ mid - borders[m] >= Unit /\ borders[m + 1] - mid >= Unit
  <2>1. borders[m + 1] - borders[m] >= 2 * Unit
    BY DEF Width
  <2>2. borders[m] \in Nat /\ borders[m + 1] \in Nat
    BY <1>2
  <2>3. \A l, r \in Nat : r - l >= 2 * Unit =>
          LET h == (l + r) \div 2 IN h \in Nat /\ h - l >= Unit /\ r - h >= Unit
    BY <1>1
  <2>4. QED  BY <2>1, <2>2, <2>3
<1> HIDE DEF mid
<1>4. \A b \in Borders :
        new[b] = IF b = m + 1 THEN mid ELSE borders[IF b <= m THEN b ELSE b - 1]
  BY DEF SplitBorders, mid
<1>5. new \in [Borders -> Nat]
  <2>1. \A b \in Borders : b = m + 1 \/ (IF b <= m THEN b ELSE b - 1) \in 0 .. NumIntervals - 1
    BY <1>1 DEF Borders
  <2>2. QED  BY <1>3, <2>1 DEF SplitBorders, mid
<1> HIDE DEF new
<1>6. new[0] = 0 /\ new[NumIntervals] = borders[NumIntervals - 1]
  <2>1. 0 \in Borders /\ NumIntervals \in Borders /\ 0 # m + 1 /\ 0 <= m
          /\ NumIntervals # m + 1 /\ ~(NumIntervals <= m)
    BY <1>1 DEF Borders
  <2>2. QED  BY <1>4, <2>1
<1>7. ASSUME NEW i \in Intervals PROVE new[i + 1] - new[i] >= Unit
  <2>1. i \in Borders /\ i + 1 \in Borders
    BY <1>1 DEF Intervals, Borders
  <2>2. CASE i < m
    <3>1. new[i] = borders[i] /\ new[i + 1] = borders[i + 1]
      <4>1. i # m + 1 /\ i <= m /\ i + 1 # m + 1 /\ i + 1 <= m
        BY <1>1, <2>2 DEF Intervals
      <4>2. QED  BY <1>4, <2>1, <4>1
    <3>2. i \in 0 .. NumIntervals - 2
      BY <1>1, <2>2 DEF Intervals
    <3>3. QED  BY <1>2, <3>1, <3>2
  <2>3. CASE i = m
    <3>1. new[i] = borders[m] /\ new[i + 1] = mid
      BY <1>1, <1>4, <2>1, <2>3
    <3>2. QED  BY <1>3, <3>1
  <2>4. CASE i = m + 1
    <3>1. new[i] = mid /\ new[i + 1] = borders[m + 1]
      BY <1>1, <1>4, <2>1, <2>4
    <3>2. QED  BY <1>3, <3>1
  <2>5. CASE i > m + 1
    <3>1. i - 1 \in 0 .. NumIntervals - 2 /\ i - 1 + 1 = i
      BY <1>1, <2>5 DEF Intervals
    <3>2. new[i] = borders[i - 1] /\ new[i + 1] = borders[i]
      <4>1. i # m + 1 /\ ~(i <= m) /\ i + 1 # m + 1 /\ ~(i + 1 <= m) /\ i + 1 - 1 = i
        BY <1>1, <2>5 DEF Intervals
      <4>2. new[i] = borders[i - 1]
        BY <1>4, <2>1, <4>1
      <4>3. ASSUME NEW k \in Borders, k = i + 1 PROVE new[k] = borders[i]
        <5>1. k # m + 1 /\ ~(k <= m) /\ k - 1 = i
          BY <1>1, <2>5, <4>3 DEF Intervals
        <5>2. QED  BY <1>4, <5>1
      <4>4. QED  BY <2>1, <4>2, <4>3
    <3>3. QED  BY <1>2, <3>1, <3>2
  <2>6. QED  BY <1>1, <2>2, <2>3, <2>4, <2>5 DEF Intervals
<1>8. QED  BY <1>5, <1>6, <1>7 DEF new, Wide, Width

\* A split leaves one load per interval.
LEMMA SplitLoadsType ==
  ASSUME NumIntervals >= 2, NEW loads \in [0 .. NumIntervals - 2 -> Nat],
         NEW m \in 0 .. NumIntervals - 2
  PROVE  SplitLoads(loads, m) \in [Intervals -> Nat]
<1>1. NumIntervals \in Nat
  BY IntervalAssumption
<1>2. loads[m] \div 2 \in Nat
  OBVIOUS
<1>3. \A i \in Intervals : i \in {m, m + 1} \/
                           (IF i < m THEN i ELSE i - 1) \in 0 .. NumIntervals - 2
  BY <1>1 DEF Intervals
<1>4. QED  BY <1>2, <1>3 DEF SplitLoads

\* AdjustIntervals keeps the round robin and the shape of the intervals, and
\* leaves the last border alone.
LEMMA AdjustOK ==
  ASSUME TypeOK,
         NEW borders \in [Borders -> Nat], Wide(borders),
         NEW counters \in Counters, Staircase(counters),
         AdjustIntervals(borders, counters)
  PROVE  /\ intervalBorders' \in [Borders -> Nat]
         /\ Wide(intervalBorders')
         /\ intervalBorders'[NumIntervals] = borders[NumIntervals]
         /\ borderCounts' \in [Intervals -> Nat]
         /\ intervalCounters' \in Counters
         /\ Staircase(intervalCounters')
<1> DEFINE loads  == Decayed(borderCounts, counters)
           s      == MergeStart(loads)
           merged == MergedLoads(loads, s)
           m      == FirstMax(merged)
<1>1. NumIntervals \in Nat
  BY IntervalAssumption
<1>2. CASE NumIntervals < 2
  BY <1>2 DEF AdjustIntervals, TypeOK
<1>3. CASE ~(NumIntervals < 2)
  <2>1. NumIntervals >= 2
    BY <1>1, <1>3
  <2>2. intervalCounters' \in Counters /\ Staircase(intervalCounters')
    BY <1>3, LevelledOK DEF AdjustIntervals
  <2>3. loads \in [Intervals -> Nat]
    BY DecayedType DEF TypeOK
  <2>4. CASE MustAdjust(borders, loads)
    <3>1. s \in 0 .. NumIntervals - 2
      BY <2>1, <2>3, MergeStartType
    <3>2. Width(borders, FirstMax(loads)) > 2 * Unit
      BY <2>4 DEF MustAdjust
    <3>3. /\ merged \in [0 .. NumIntervals - 2 -> Nat]
          /\ m \in 0 .. NumIntervals - 2
          /\ Width(MergedBorders(borders, s), m) >= 2 * Unit
      BY <2>1, <2>3, <3>1, <3>2, BusiestStaysWide
    <3>4. /\ MergedBorders(borders, s) \in [0 .. NumIntervals - 1 -> Nat]
          /\ MergedBorders(borders, s)[0] = 0
          /\ MergedBorders(borders, s)[NumIntervals - 1] = borders[NumIntervals]
          /\ \A i \in 0 .. NumIntervals - 2 : Width(MergedBorders(borders, s), i) >= Unit
      BY <2>1, <3>1, MergeBordersOK
    <3>5. /\ intervalBorders' = SplitBorders(MergedBorders(borders, s), m)
          /\ borderCounts' = SplitLoads(merged, m)
      BY <1>3, <2>4 DEF AdjustIntervals
    <3>6. borderCounts' \in [Intervals -> Nat]
      BY <2>1, <3>3, <3>5, SplitLoadsType
    <3>7. /\ intervalBorders' \in [Borders -> Nat]
          /\ Wide(intervalBorders')
          /\ intervalBorders'[NumIntervals] = borders[NumIntervals]
      <4> DEFINE mb == MergedBorders(borders, s)
      <4> HIDE DEF mb, m, s, merged, loads
      <4>1. SplitBorders(mb, m) \in [Borders -> Nat] /\ Wide(SplitBorders(mb, m))
              /\ SplitBorders(mb, m)[NumIntervals] = mb[NumIntervals - 1]
        BY <2>1, <3>3, <3>4, SplitBordersOK DEF mb
      <4>2. QED  BY <3>4, <3>5, <4>1 DEF mb
    <3>8. QED  BY <2>2, <3>6, <3>7
  <2>5. CASE ~MustAdjust(borders, loads)
    BY <1>3, <2>2, <2>3, <2>5 DEF AdjustIntervals
  <2>6. QED  BY <2>4, <2>5
<1>4. QED  BY <1>2, <1>3

-----------------------------------------------------------------------------
(***************************************************************************)
(* The invariant                                                           *)
(***************************************************************************)
\* The round robin and the shape of the intervals are inductive together with
\* the types.
IntervalInv == TypeOK /\ Balanced /\ IntervalsWide

\* The invariant holds initially.
LEMMA InitOK == Init => IntervalInv
<1> SUFFICES ASSUME Init PROVE IntervalInv
  OBVIOUS
<1>1. /\ NumIntervals \in Nat \ {0} /\ NumPifos \in Nat \ {0} /\ NumLoadBalancers \in Nat \ {0}
      /\ IntervalLength \in Nat /\ Unit \in Nat /\ IntervalLength >= Unit /\ MaxAdmitted \in Nat
  BY IntervalAssumption
<1>2. intervalCounters \in Counters
  BY <1>1 DEF Init, Counters
<1>3. intervalBorders \in [Borders -> Nat]
  <2>1. \A b \in Borders : b * IntervalLength \in Nat
    BY <1>1 DEF Borders
  <2>2. QED  BY <2>1 DEF Init
<1>4. TypeOK
  BY <1>1, <1>2, <1>3 DEF Init, TypeOK, Counters, LoadBalancers
<1>5. Balanced
  <2>1. ASSUME NEW lb \in LoadBalancers, NEW i \in Intervals, NEW p \in Pifos, NEW q \in Pifos,
               p < q
        PROVE  intervalCounters[lb][p][i] - intervalCounters[lb][q][i] \in {0, 1}
    <3>1. i % NumPifos \in Int /\ p \in Int /\ q \in Int
      BY <1>1 DEF Intervals, Pifos
    <3>2. /\ intervalCounters[lb][p][i] = IF p < i % NumPifos THEN 1 ELSE 0
          /\ intervalCounters[lb][q][i] = IF q < i % NumPifos THEN 1 ELSE 0
      BY DEF Init
    <3>3. QED  BY <2>1, <3>1, <3>2
  <2>2. QED  BY <2>1 DEF Balanced
<1>6. IntervalsWide
  <2>1. ASSUME NEW i \in Intervals PROVE Width(intervalBorders, i) >= Unit
    <3>1. i \in Borders /\ i + 1 \in Borders
      BY <1>1 DEF Intervals, Borders
    <3>2. intervalBorders[i] = i * IntervalLength
            /\ intervalBorders[i + 1] = (i + 1) * IntervalLength
      BY <3>1 DEF Init
    <3>3. (i + 1) * IntervalLength = i * IntervalLength + IntervalLength
            /\ i * IntervalLength \in Nat
      BY <1>1 DEF Intervals
    <3>4. QED  BY <1>1, <3>2, <3>3 DEF Width
  <2>2. intervalBorders[0] = 0
    BY <1>1 DEF Init, Borders
  <2>3. QED  BY <2>1, <2>2 DEF IntervalsWide
<1>7. QED  BY <1>4, <1>5, <1>6 DEF IntervalInv

\* The turn passes to a load balancer.
LEMMA TurnType ==
  ASSUME TypeOK
  PROVE  (loadBalancerIndex + 1) % NumLoadBalancers \in LoadBalancers
BY IntervalAssumption DEF TypeOK, LoadBalancers

\* A refusal keeps the invariant and does not lower the last border.
LEMMA RefuseOK ==
  ASSUME IntervalInv, NEW rank \in Nat, Refuse(rank)
  PROVE  IntervalInv' /\ intervalBorders'[NumIntervals] >= intervalBorders[NumIntervals]
<1>1. /\ intervalBorders' \in [Borders -> Nat] /\ Wide(intervalBorders')
      /\ intervalBorders'[NumIntervals] >= intervalBorders[NumIntervals]
  BY Stretch DEF IntervalInv, TypeOK, IntervalsWide, Wide, Refuse
<1>2. TypeOK'
  BY <1>1, TurnType DEF IntervalInv, TypeOK, Refuse
<1>3. Balanced'
  BY DEF IntervalInv, Balanced, Refuse
<1>4. QED  BY <1>1, <1>2, <1>3 DEF IntervalInv, IntervalsWide, Wide

\* An admission keeps the invariant and the last border too, with or without an adjustment.
LEMMA AdmitOK ==
  ASSUME IntervalInv, NEW rank \in Nat, Admit(rank)
  PROVE  IntervalInv' /\ intervalBorders'[NumIntervals] >= intervalBorders[NumIntervals]
<1> DEFINE i == GetIntervalIndex(intervalBorders, rank)
           b == SelectBestPifo(intervalCounters, loadBalancerIndex, i)
           borders == Stretched(intervalBorders, rank)
           counters == [intervalCounters EXCEPT ![loadBalancerIndex][b][i] = @ + 1]
<1>1. /\ intervalBorders \in [Borders -> Nat] /\ Wide(intervalBorders)
      /\ intervalCounters \in Counters /\ Staircase(intervalCounters)
      /\ loadBalancerIndex \in LoadBalancers /\ TypeOK
  BY DEF IntervalInv, TypeOK, Balanced, Staircase, IntervalsWide, Wide, Counters
<1>2. i \in Intervals
  BY IndexType
<1>3. /\ borders \in [Borders -> Nat] /\ Wide(borders)
      /\ borders[NumIntervals] >= intervalBorders[NumIntervals]
  BY <1>1, Stretch
<1>4. counters \in Counters /\ Staircase(counters)
  <2> HIDE DEF i
  <2>1. QED  BY <1>1, <1>2, IncrementOK
<1>5. \/ AdjustIntervals(borders, counters)
      \/ /\ intervalBorders' = borders
         /\ intervalCounters' = counters
         /\ borderCounts' = borderCounts
  BY DEF Admit, ChosenPifo
<1> HIDE DEF i, b, borders, counters
<1>6. /\ intervalBorders' \in [Borders -> Nat]
      /\ Wide(intervalBorders')
      /\ intervalBorders'[NumIntervals] = borders[NumIntervals]
      /\ borderCounts' \in [Intervals -> Nat]
      /\ intervalCounters' \in Counters
      /\ Staircase(intervalCounters')
  <2>1. CASE AdjustIntervals(borders, counters)
    BY <1>1, <1>3, <1>4, <2>1, AdjustOK
  <2>2. CASE /\ intervalBorders' = borders
             /\ intervalCounters' = counters
             /\ borderCounts' = borderCounts
    BY <1>1, <1>3, <1>4, <2>2 DEF TypeOK
  <2>3. QED  BY <1>5, <2>1, <2>2
<1>7. adjustCounter' \in 0 .. MaxAdmitted /\ loadBalancerIndex' \in LoadBalancers
  BY <1>1, TurnType, IntervalAssumption DEF TypeOK, Admit
<1>8. TypeOK'
  BY <1>6, <1>7 DEF TypeOK, Counters
<1>9. Balanced' /\ IntervalsWide'
  BY <1>6 DEF Balanced, Staircase, IntervalsWide, Wide
<1>10. QED  BY <1>3, <1>6, <1>8, <1>9 DEF IntervalInv

\* The types, the round robin and the shape of the intervals hold in every
\* state, whatever the arrivals (DoEnqueue, AdjustIntervals).
THEOREM IntervalInvariance == Spec => []IntervalInv
<1>1. IntervalInv /\ [Next]_intervalVars => IntervalInv'
  <2> SUFFICES ASSUME IntervalInv, [Next]_intervalVars PROVE IntervalInv'
    OBVIOUS
  <2>1. ASSUME NEW rank \in Ranks, Refuse(rank) PROVE IntervalInv'
    BY <2>1, RefuseOK, IntervalAssumption
  <2>2. ASSUME NEW rank \in Ranks, Admit(rank) PROVE IntervalInv'
    BY <2>2, AdmitOK, IntervalAssumption
  <2>3. CASE UNCHANGED intervalVars
    BY <2>3 DEF IntervalInv, TypeOK, Balanced, IntervalsWide, Width, intervalVars
  <2>4. QED  BY <2>1, <2>2, <2>3 DEF Next
<1>2. QED  BY InitOK, <1>1, PTL DEF Spec

\* The state stays well typed.
THEOREM TypeCorrect == Spec => []TypeOK
BY IntervalInvariance, PTL DEF IntervalInv

\* Every load balancer is a round robin over the PIFOs in every interval.
THEOREM RoundRobin == Spec => []Balanced
BY IntervalInvariance, PTL DEF IntervalInv

\* Intervals stay in order and at least one rank wide.
THEOREM IntervalsStayWide == Spec => []IntervalsWide
BY IntervalInvariance, PTL DEF IntervalInv

\* The last border never moves down.
THEOREM LastBorderOnlyGrows == Spec => LastBorderGrows
<1> DEFINE Grows == intervalBorders'[NumIntervals] >= intervalBorders[NumIntervals]
<1>1. IntervalInv /\ [Next]_intervalVars => [Grows]_intervalVars
  <2> SUFFICES ASSUME IntervalInv, Next PROVE Grows
    OBVIOUS
  <2>1. ASSUME NEW rank \in Ranks, Refuse(rank) PROVE Grows
    BY <2>1, RefuseOK, IntervalAssumption
  <2>2. ASSUME NEW rank \in Ranks, Admit(rank) PROVE Grows
    BY <2>2, AdmitOK, IntervalAssumption
  <2>3. QED  BY <2>1, <2>2 DEF Next
<1>2. QED  BY <1>1, IntervalInvariance, PTL DEF Spec, LastBorderGrows

-----------------------------------------------------------------------------
(***************************************************************************)
(* What AdjustIntervals leaves in the counters                             *)
(***************************************************************************)
Triples == LoadBalancers \X Pifos \X Intervals

\* Counted, for any counters.
Sum(counters) == Total([c \in Triples |-> counters[c[1]][c[2]][c[3]]], Triples)

\* The most that levelled counters add up to.
Leftover == NumLoadBalancers * NumIntervals * (NumPifos - 1)

\* As after levelling: nothing at the last PIFO, one packet at most elsewhere.
Level(counters) ==
  \A lb \in LoadBalancers, i \in Intervals, p \in Pifos :
    counters[lb][p][i] <= IF p < NumPifos - 1 THEN 1 ELSE 0

\* There are finitely many counters.
LEMMA TriplesFinite ==
  /\ IsFiniteSet(Triples)
  /\ IsFiniteSet(LoadBalancers \X (0 .. NumPifos - 2) \X Intervals)
  /\ Cardinality(LoadBalancers \X (0 .. NumPifos - 2) \X Intervals) = Leftover
<1>1. /\ NumLoadBalancers \in Nat \ {0} /\ NumIntervals \in Nat \ {0}
      /\ NumPifos \in Nat \ {0}
  BY IntervalAssumption
<1>2. ASSUME NEW n \in Nat
      PROVE  IsFiniteSet(0 .. n - 1) /\ Cardinality(0 .. n - 1) = n
  <2>1. 0 \in Int /\ n - 1 \in Int /\ 0 <= (n - 1) + 1 /\ (n - 1) - 0 + 1 = n
    OBVIOUS
  <2>2. QED  BY <2>1, IntervalSize
<1>3. /\ IsFiniteSet(LoadBalancers) /\ Cardinality(LoadBalancers) = NumLoadBalancers
      /\ IsFiniteSet(Pifos)
      /\ IsFiniteSet(Intervals) /\ Cardinality(Intervals) = NumIntervals
  BY <1>1, <1>2 DEF LoadBalancers, Pifos, Intervals
<1>4. IsFiniteSet(0 .. NumPifos - 2) /\ Cardinality(0 .. NumPifos - 2) = NumPifos - 1
  <2>1. NumPifos - 1 \in Nat /\ (NumPifos - 1) - 1 = NumPifos - 2
    BY <1>1
  <2>2. QED  BY <2>1, <1>2
<1>5. ASSUME NEW S, IsFiniteSet(S)
      PROVE  /\ IsFiniteSet(LoadBalancers \X S \X Intervals)
             /\ Cardinality(LoadBalancers \X S \X Intervals)
                  = NumLoadBalancers * Cardinality(S) * NumIntervals
  <2> DEFINE pairs == LoadBalancers \X S
             triples == LoadBalancers \X S \X Intervals
             triple == [d \in pairs \X Intervals |-> <<d[1][1], d[1][2], d[2]>>]
  <2>1. IsFiniteSet(pairs) /\ Cardinality(pairs) = NumLoadBalancers * Cardinality(S)
    BY <1>3, <1>5, FS_Product
  <2>2. /\ IsFiniteSet(pairs \X Intervals)
        /\ Cardinality(pairs \X Intervals) = Cardinality(pairs) * NumIntervals
    BY <1>3, <2>1, FS_Product
  <2>3. triple \in [pairs \X Intervals -> triples]
    OBVIOUS
  <2>4. \A c, d \in pairs \X Intervals : triple[c] = triple[d] => c = d
    OBVIOUS
  <2>5. ASSUME NEW t \in triples PROVE \E d \in pairs \X Intervals : triple[d] = t
    <3>1. <<<<t[1], t[2]>>, t[3]>> \in pairs \X Intervals
      OBVIOUS
    <3>2. triple[<<<<t[1], t[2]>>, t[3]>>] = t
      BY <3>1
    <3>3. QED  BY <3>1, <3>2
  <2>6. IsFiniteSet(triples) /\ Cardinality(triples) = Cardinality(pairs \X Intervals)
    <3> HIDE DEF triple, triples, pairs
    <3>1. QED  BY <2>2, <2>3, <2>4, <2>5, SameSize
  <2>7. QED  BY <2>1, <2>2, <2>6
<1>6. NumLoadBalancers * (NumPifos - 1) * NumIntervals = Leftover
  BY <1>1 DEF Leftover
<1>7. QED  BY <1>3, <1>4, <1>5, <1>6 DEF Triples

\* Levelled counters add up to Leftover at most.
LEMMA LevelSum ==
  ASSUME NEW counters \in Counters, Level(counters)
  PROVE  Sum(counters) <= Leftover
<1> DEFINE f == [c \in Triples |-> counters[c[1]][c[2]][c[3]]]
           T == LoadBalancers \X (0 .. NumPifos - 2) \X Intervals
<1>1. NumPifos \in Nat \ {0}
  BY IntervalAssumption
<1>2. T \subseteq Triples
  BY <1>1 DEF Triples, Pifos
<1>3. ASSUME NEW c \in Triples
      PROVE  /\ f[c] \in Nat /\ f[c] <= 1
             /\ c \notin T => f[c] = 0
  <2>1. c[1] \in LoadBalancers /\ c[2] \in Pifos /\ c[3] \in Intervals
          /\ c = <<c[1], c[2], c[3]>>
    BY DEF Triples
  <2>2. counters[c[1]][c[2]][c[3]] \in Nat
    BY <2>1 DEF Counters
  <2>3. counters[c[1]][c[2]][c[3]] <= IF c[2] < NumPifos - 1 THEN 1 ELSE 0
    BY <2>1 DEF Level
  <2>4. c \notin T => ~(c[2] < NumPifos - 1)
    BY <1>1, <2>1 DEF Pifos
  <2>5. f[c] = counters[c[1]][c[2]][c[3]]
    OBVIOUS
  <2>6. QED  BY <2>2, <2>3, <2>4, <2>5
<1> HIDE DEF f
<1>4. Total(f, Triples) = Total(f, T)
  BY <1>2, <1>3, TotalSupport
<1>5. Total(f, T) <= Cardinality(T) * 1
  <2>1. \A c \in T : f[c] \in Nat /\ f[c] <= 1
    BY <1>2, <1>3
  <2> HIDE DEF T
  <2>2. QED  BY <2>1, TriplesFinite, TotalBound DEF T
<1>6. Leftover \in Nat
  <2>1. NumPifos - 1 \in Nat /\ NumLoadBalancers * NumIntervals \in Nat
    BY IntervalAssumption
  <2>2. QED  BY <2>1 DEF Leftover
<1>7. QED  BY <1>4, <1>5, <1>6, TriplesFinite DEF Sum, f

\* One packet more in one counter is one more in the sum.
LEMMA IncrementSum ==
  ASSUME NEW counters \in Counters, NEW lb \in LoadBalancers, NEW b \in Pifos,
         NEW i \in Intervals
  PROVE  Sum([counters EXCEPT ![lb][b][i] = @ + 1]) = Sum(counters) + 1
<1> DEFINE new == [counters EXCEPT ![lb][b][i] = @ + 1]
           f == [c \in Triples |-> counters[c[1]][c[2]][c[3]]]
           g == [c \in Triples |-> new[c[1]][c[2]][c[3]]]
           t == <<lb, b, i>>
<1>1. t \in Triples
  BY DEF Triples
<1>2. ASSUME NEW c \in Triples
      PROVE  f[c] \in Nat /\ g[c] = IF c = t THEN f[c] + 1 ELSE f[c]
  <2>1. c[1] \in LoadBalancers /\ c[2] \in Pifos /\ c[3] \in Intervals
          /\ (c = t <=> c[1] = lb /\ c[2] = b /\ c[3] = i)
    BY DEF Triples
  <2>2. f[c] = counters[c[1]][c[2]][c[3]] /\ g[c] = new[c[1]][c[2]][c[3]]
    OBVIOUS
  <2>3. counters[c[1]][c[2]][c[3]] \in Nat
    BY <2>1 DEF Counters
  <2>4. new[c[1]][c[2]][c[3]] = IF c[1] = lb /\ c[2] = b /\ c[3] = i
                                  THEN counters[c[1]][c[2]][c[3]] + 1
                                  ELSE counters[c[1]][c[2]][c[3]]
    BY <2>1 DEF Counters
  <2>5. QED  BY <2>1, <2>2, <2>3, <2>4
<1>3. Sum(counters) = Total(f, Triples) /\ Sum(new) = Total(g, Triples)
  BY DEF Sum
<1> HIDE DEF f, g, t, new
<1>4. \A c \in Triples : f[c] \in Nat /\ g[c] \in Nat
  BY <1>2
<1>5. Total(g, Triples) + f[t] = Total(f, Triples) + g[t]
  BY <1>1, <1>2, <1>4, TriplesFinite, TotalChange
<1>6. Total(g, Triples) \in Nat /\ Total(f, Triples) \in Nat
  BY <1>4, TriplesFinite, TotalType
<1>7. QED  BY <1>1, <1>2, <1>3, <1>5, <1>6 DEF new

\* Levelling leaves a packet at most in a counter, and none at the last PIFO.
LEMMA LevelledLevel ==
  ASSUME NEW counters \in Counters, Staircase(counters)
  PROVE  Level(Levelled(counters))
<1> SUFFICES ASSUME NEW lb \in LoadBalancers, NEW i \in Intervals, NEW p \in Pifos
             PROVE  Levelled(counters)[lb][p][i] <= IF p < NumPifos - 1 THEN 1 ELSE 0
  BY DEF Level
<1> DEFINE least == SmallestCount(counters, lb, i)
           last == NumPifos - 1
<1>1. last \in Pifos /\ p \in 0 .. last
  BY IntervalAssumption DEF Pifos
<1>2. \A q \in Pifos : counters[lb][q][i] \in Nat
  BY DEF Counters
<1>3. PICK q \in Pifos : least = counters[lb][q][i]
  BY SmallestCountIsLeast
<1>4. Levelled(counters)[lb][p][i] = counters[lb][p][i] - least
  BY DEF Levelled
<1>5. least = counters[lb][last][i]
  <2>1. least <= counters[lb][last][i]
    BY <1>1, SmallestCountIsLeast
  <2>2. q < last => counters[lb][q][i] - counters[lb][last][i] \in {0, 1}
    BY <1>1 DEF Staircase
  <2>3. q < last \/ q = last
    BY <1>1 DEF Pifos
  <2>4. counters[lb][q][i] \in Nat /\ counters[lb][last][i] \in Nat
    BY <1>1, <1>2
  <2>5. QED  BY <1>3, <2>1, <2>2, <2>3, <2>4
<1>6. p < last => counters[lb][p][i] - counters[lb][last][i] \in {0, 1}
  BY <1>1 DEF Staircase
<1>7. counters[lb][p][i] \in Nat /\ counters[lb][last][i] \in Nat
  BY <1>1, <1>2
<1>8. p < last \/ p = last
  BY <1>1, IntervalAssumption
<1>9. QED  BY <1>4, <1>5, <1>6, <1>7, <1>8

\* The bound holds initially: the head start is one of levelled counters.
LEMMA RecountInit == Init /\ IntervalInv => RecountBounded
<1> SUFFICES ASSUME Init, IntervalInv PROVE Counted <= (adjustCounter % AdjustPeriod) + Leftover
  BY DEF RecountBounded, Leftover
<1>1. intervalCounters \in Counters
  BY DEF IntervalInv, TypeOK, Counters
<1>2. ASSUME NEW lb \in LoadBalancers, NEW i \in Intervals, NEW p \in Pifos
      PROVE  intervalCounters[lb][p][i] <= IF p < NumPifos - 1 THEN 1 ELSE 0
  <2>1. NumPifos \in Nat \ {0} /\ i \in Nat /\ p \in 0 .. NumPifos - 1
    BY IntervalAssumption DEF Intervals, Pifos
  <2>2. i % NumPifos \in 0 .. NumPifos - 1
    BY <2>1, DivMod
  <2>3. intervalCounters[lb][p][i] = IF p < i % NumPifos THEN 1 ELSE 0
    BY DEF Init
  <2>4. QED  BY <2>1, <2>2, <2>3
<1>3. Sum(intervalCounters) <= Leftover
  BY <1>1, <1>2, LevelSum DEF Level
<1>4. adjustCounter % AdjustPeriod = 0
  <2>1. AdjustPeriod \in Nat \ {0} /\ adjustCounter = 0
    BY IntervalAssumption DEF Init
  <2>2. QED  BY <2>1, DivMod
<1>5. Counted = Sum(intervalCounters)
  BY DEF Counted, Sum, Triples
<1>6. Sum(intervalCounters) \in Int /\ Leftover \in Int
  <2>1. Leftover \in Int
    BY IntervalAssumption DEF Leftover
  <2>2. \A c \in Triples : intervalCounters[c[1]][c[2]][c[3]] \in Nat
    BY <1>1 DEF Counters, Triples
  <2>3. Sum(intervalCounters) \in Nat
    BY <2>2, TriplesFinite, TotalType DEF Sum
  <2>4. QED  BY <2>1, <2>3
<1>7. QED  BY <1>3, <1>4, <1>5, <1>6

\* Every admission counts one packet; every AdjustPeriod-th one levels the counters.
LEMMA RecountAdmit ==
  ASSUME IntervalInv, IntervalInv', RecountBounded, NumIntervals >= 2,
         NEW rank \in Nat, Admit(rank)
  PROVE  Sum(intervalCounters') <= (adjustCounter' % AdjustPeriod) + Leftover
<1> DEFINE i == GetIntervalIndex(intervalBorders, rank)
           b == SelectBestPifo(intervalCounters, loadBalancerIndex, i)
           borders == Stretched(intervalBorders, rank)
           counters == [intervalCounters EXCEPT ![loadBalancerIndex][b][i] = @ + 1]
           r == adjustCounter % AdjustPeriod
           s == Sum(intervalCounters)
<1>1. /\ intervalCounters \in Counters /\ Staircase(intervalCounters)
      /\ loadBalancerIndex \in LoadBalancers /\ adjustCounter \in Nat
      /\ AdjustPeriod \in Nat \ {0}
  BY IntervalAssumption DEF IntervalInv, TypeOK, Balanced, Staircase, Counters
<1>2. i \in Intervals
  BY IndexType
<1>3. b \in Pifos
  <2> HIDE DEF i
  <2>1. QED  BY <1>1, <1>2, SelectBest
<1>4. counters \in Counters /\ Staircase(counters)
  <2> HIDE DEF i
  <2>1. QED  BY <1>1, <1>2, IncrementOK
<1>5. /\ adjustCounter' = adjustCounter + 1
      /\ IF adjustCounter' % AdjustPeriod = 0
           THEN AdjustIntervals(borders, counters)
           ELSE intervalCounters' = counters
  BY DEF Admit, ChosenPifo
<1>6. (adjustCounter + 1) % AdjustPeriod = IF r < AdjustPeriod - 1 THEN r + 1 ELSE 0
  BY <1>1, ModIncrement
<1>7. CASE adjustCounter' % AdjustPeriod = 0
  <2>1. intervalCounters' = Levelled(counters)
    <3>1. AdjustIntervals(borders, counters) /\ ~(NumIntervals < 2)
      BY <1>5, <1>7, IntervalAssumption
    <3> HIDE DEF counters, borders
    <3>2. QED  BY <3>1 DEF AdjustIntervals
  <2>2. Levelled(counters) \in Counters /\ Level(Levelled(counters))
    <3> HIDE DEF counters
    <3>1. QED  BY <1>4, LevelledOK, LevelledLevel
  <2>3. Sum(intervalCounters') <= Leftover
    BY <2>1, <2>2, LevelSum
  <2>4. Leftover \in Int
    BY IntervalAssumption DEF Leftover
  <2>5. QED  BY <1>7, <2>3, <2>4
<1>8. CASE adjustCounter' % AdjustPeriod # 0
  <2>1. Sum(intervalCounters') = s + 1
    <3>1. intervalCounters' = counters
      BY <1>5, <1>8
    <3> HIDE DEF i, b
    <3>2. Sum(counters) = s + 1
      BY <1>1, <1>2, <1>3, IncrementSum
    <3> HIDE DEF counters, s
    <3>3. QED  BY <3>1, <3>2
  <2>2. adjustCounter' % AdjustPeriod = r + 1
    BY <1>5, <1>6, <1>8
  <2>3. s <= r + Leftover
    BY DEF RecountBounded, Counted, Sum, Leftover, Triples
  <2>4. s \in Int /\ r \in Int /\ Leftover \in Int
    <3>1. Leftover \in Int
      BY IntervalAssumption DEF Leftover
    <3>2. \A c \in Triples : intervalCounters[c[1]][c[2]][c[3]] \in Nat
      BY <1>1 DEF Counters, Triples
    <3>3. s \in Nat
      BY <3>2, TriplesFinite, TotalType DEF Sum
    <3>4. r \in Int
      BY <1>1
    <3>5. QED  BY <3>1, <3>3, <3>4
  <2> HIDE DEF s, r
  <2>5. QED  BY <2>1, <2>2, <2>3, <2>4
<1>9. QED  BY <1>7, <1>8

\* What is counted twice is bounded: at most one packet per load balancer,
\* interval and PIFO but the last, beyond the packets since the last adjustment
\* (AdjustIntervals).
THEOREM RecountedFew == Spec => []RecountBounded
<1>1. IntervalInv /\ IntervalInv' /\ RecountBounded /\ [Next]_intervalVars => RecountBounded'
  <2> SUFFICES ASSUME IntervalInv, IntervalInv', RecountBounded, NumIntervals >= 2,
                      [Next]_intervalVars
               PROVE  Sum(intervalCounters') <= (adjustCounter' % AdjustPeriod) + Leftover
    BY DEF RecountBounded, Counted, Sum, Leftover, Triples
  <2>1. Sum(intervalCounters) <= (adjustCounter % AdjustPeriod) + Leftover
    BY DEF RecountBounded, Counted, Sum, Leftover, Triples
  <2>2. ASSUME NEW rank \in Ranks, Refuse(rank)
        PROVE  Sum(intervalCounters') <= (adjustCounter' % AdjustPeriod) + Leftover
    BY <2>1, <2>2 DEF Refuse
  <2>3. ASSUME NEW rank \in Ranks, Admit(rank)
        PROVE  Sum(intervalCounters') <= (adjustCounter' % AdjustPeriod) + Leftover
    BY <2>3, RecountAdmit, IntervalAssumption
  <2>4. CASE UNCHANGED intervalVars
    BY <2>1, <2>4 DEF intervalVars
  <2>5. QED  BY <2>2, <2>3, <2>4 DEF Next
<1>2. QED  BY <1>1, RecountInit, IntervalInvariance, PTL DEF Spec

-----------------------------------------------------------------------------
(***************************************************************************)
(* Sums of loads                                                           *)
(***************************************************************************)
\* TotalLoad, a fold over the intervals in any order, is the sum of the loads.
LEMMA TotalLoadIsSum ==
  ASSUME NEW S, IsFiniteSet(S), NEW loads, DOMAIN loads = S, \A i \in S : loads[i] \in Nat
  PROVE  TotalLoad(loads) = Total(loads, S)
<1> DEFINE Choice(s) == CHOOSE x \in s : TRUE
           Rec(g) == [s \in SUBSET S |->
                        IF s = {} THEN 0 ELSE loads[Choice(s)] + g[s \ {Choice(s)}]]
           fold == CHOOSE g : g = Rec(g)
           sum == [s \in SUBSET S |-> Total(loads, s)]
<1>1. TotalLoad(loads) = fold[S]
  BY DEF TotalLoad, MapThenSumSet, MapThenFoldSet
<1>2. ASSUME NEW s \in SUBSET S, s # {}
      PROVE  /\ Choice(s) \in s
             /\ sum[s] = loads[Choice(s)] + sum[s \ {Choice(s)}]
  <2> DEFINE x == Choice(s)
             t == s \ {x}
  <2>1. x \in s
    BY <1>2
  <2> HIDE DEF x
  <2>2. IsFiniteSet({x}) /\ IsFiniteSet(t) /\ {x} \cap t = {} /\ s = {x} \cup t
    <3>1. IsFiniteSet(s)
      BY FS_Subset
    <3>2. QED  BY <2>1, <3>1, FS_Subset, FS_Singleton
  <2>3. /\ \A y \in {x} : loads[y] = loads[y] /\ loads[y] \in Nat
        /\ \A y \in t : loads[y] = loads[y] /\ loads[y] \in Nat
    BY <2>1
  <2>4. Total(loads, {x} \cup t) = Total(loads, {x}) + Total(loads, t)
    <3> HIDE DEF t
    <3>1. QED  BY <2>2, <2>3, TotalUnion
  <2>5. Total(loads, {x}) = loads[x]
    BY <2>1, TotalSingleton
  <2>6. t \in SUBSET S
    OBVIOUS
  <2>7. QED  BY <2>1, <2>2, <2>4, <2>5, <2>6 DEF x
<1>3. sum = Rec(sum)
  <2> HIDE DEF Choice
  <2>1. ASSUME NEW s \in SUBSET S
        PROVE  sum[s] = IF s = {} THEN 0 ELSE loads[Choice(s)] + sum[s \ {Choice(s)}]
    BY <1>2, TotalEmpty
  <2> DEFINE right == Rec(sum)
  <2>2. \A s \in SUBSET S : sum[s] = right[s]
    <3> HIDE DEF sum
    <3>1. QED  BY <2>1
  <2>3. DOMAIN sum = SUBSET S /\ DOMAIN right = SUBSET S
           /\ sum = [s \in SUBSET S |-> sum[s]] /\ right = [s \in SUBSET S |-> right[s]]
    OBVIOUS
  <2> HIDE DEF sum, right
  <2>4. sum = right
    BY <2>2, <2>3
  <2>5. QED  BY <2>4 DEF right
<1>4. fold = Rec(fold)
  <2> HIDE DEF Rec, sum
  <2>1. QED  BY <1>3
<1> HIDE DEF fold
<1>5. ASSUME NEW s \in SUBSET S
      PROVE  fold[s] = IF s = {} THEN 0 ELSE loads[Choice(s)] + fold[s \ {Choice(s)}]
  <2> HIDE DEF Choice
  <2> DEFINE right == Rec(fold)
  <2>1. right[s] = IF s = {} THEN 0 ELSE loads[Choice(s)] + fold[s \ {Choice(s)}]
    OBVIOUS
  <2>2. fold = right
    BY <1>4
  <2> HIDE DEF right
  <2>3. QED  BY <2>1, <2>2
<1> HIDE DEF Rec, sum
<1>6. ASSUME NEW s \in SUBSET S
      PROVE  IsFiniteSet(s) /\ Cardinality(s) \in Nat
  BY FS_Subset, FS_CardinalityType
<1> DEFINE bad == {s \in SUBSET S : fold[s] # sum[s]}
           sizes == {Cardinality(s) : s \in bad}
<1>7. bad = {}
  <2>1. SUFFICES ASSUME bad # {} PROVE FALSE
    OBVIOUS
  <2>2. sizes \subseteq Nat /\ sizes # {}
    BY <1>6, <2>1
  <2>3. PICK s \in bad : \A t \in bad : Cardinality(s) <= Cardinality(t)
    <3>1. PICK n \in sizes : \A k \in sizes : n <= k
      BY <2>2, LeastNatural
    <3>2. QED  BY <3>1
  <2> DEFINE x == Choice(s)
             t == s \ {x}
  <2>4. s \in SUBSET S /\ fold[s] # sum[s]
    BY <2>3
  <2>5. s # {}
    <3>1. sum[{}] = 0
      BY TotalEmpty DEF sum
    <3>2. fold[{}] = 0
      BY <1>5
    <3>3. QED  BY <2>4, <3>1, <3>2
  <2>6. x \in s /\ sum[s] = loads[x] + sum[t]
    BY <1>2, <2>4, <2>5
  <2>7. fold[s] = loads[x] + fold[t]
    BY <1>5, <2>4, <2>5
  <2> HIDE DEF x
  <2>8. Cardinality(t) = Cardinality(s) - 1
    BY <1>6, <2>4, <2>6, FS_RemoveElement
  <2>9. t \notin bad
    BY <1>6, <2>3, <2>4, <2>8
  <2>10. fold[t] = sum[t]
    BY <2>4, <2>9
  <2>11. QED  BY <2>4, <2>6, <2>7, <2>10
<1>8. S \in SUBSET S /\ sum[S] = Total(loads, S)
  BY DEF sum
<1>9. QED  BY <1>1, <1>7, <1>8

\* The intervals are the numbers below NumIntervals.
LEMMA IntervalsAre ==
  /\ NumIntervals \in Nat \ {0} /\ CountUnit \in Nat \ {0}
  /\ IsFiniteSet(Intervals)
  /\ \A n \in 0 .. NumIntervals - 1 : n \in Nat /\ n \in Intervals
                                      /\ \A i \in 0 .. n : i \in Intervals
<1>1. NumIntervals \in Nat \ {0} /\ CountUnit \in Nat \ {0}
  BY IntervalAssumption
<1>2. IsFiniteSet(Intervals)
  <2>1. 0 \in Int /\ NumIntervals - 1 \in Int /\ 0 <= (NumIntervals - 1) + 1
    BY <1>1
  <2>2. QED  BY <2>1, IntervalSize DEF Intervals
<1>3. QED  BY <1>1, <1>2 DEF Intervals

\* Adding up counters interval by interval adds up all of them.
LEMMA CountsByInterval ==
  ASSUME NEW counters \in Counters
  PROVE  /\ \A i \in Intervals : CurrentCount(counters, i) \in Nat
         /\ Total([i \in Intervals |-> CurrentCount(counters, i)], Intervals) = Sum(counters)
<1> DEFINE f == [c \in Triples |-> counters[c[1]][c[2]][c[3]]]
           pairs == LoadBalancers \X Pifos
           at(i) == [c \in pairs |-> counters[c[1]][c[2]][i]]
           slice(i) == LoadBalancers \X Pifos \X {i}
           first(n) == LoadBalancers \X Pifos \X (0 .. n - 1)
           g == [i \in Intervals |-> CurrentCount(counters, i)]
<1>1. IsFiniteSet(pairs)
  <2>1. IsFiniteSet(LoadBalancers) /\ IsFiniteSet(Pifos)
    BY FS_Interval, IntervalAssumption DEF LoadBalancers, Pifos
  <2>2. QED  BY <2>1, FS_Product
<1>2. ASSUME NEW i \in Intervals
      PROVE  g[i] \in Nat /\ Total(f, slice(i)) = g[i]
  <2> DEFINE pi == [c \in pairs |-> <<c[1], c[2], i>>]
  <2>1. \A c \in pairs : at(i)[c] \in Nat
    BY DEF Counters
  <2>2. pi \in [pairs -> slice(i)]
    OBVIOUS
  <2>3. \A c, d \in pairs : pi[c] = pi[d] => c = d
    OBVIOUS
  <2>4. ASSUME NEW t \in slice(i) PROVE \E c \in pairs : pi[c] = t
    <3>1. <<t[1], t[2]>> \in pairs /\ pi[<<t[1], t[2]>>] = t
      OBVIOUS
    <3>2. QED  BY <3>1
  <2>5. \A c \in pairs : at(i)[c] = f[pi[c]]
    BY DEF Triples
  <2>6. Total(at(i), pairs) = Total(f, slice(i)) /\ Total(at(i), pairs) \in Nat
    <3> DEFINE a == at(i)
               s == slice(i)
    <3>1. /\ \A c \in pairs : a[c] \in Nat /\ a[c] = f[pi[c]]
          /\ pi \in [pairs -> s]
          /\ \A t \in s : \E c \in pairs : pi[c] = t
      BY <2>1, <2>2, <2>4, <2>5
    <3> HIDE DEF a, s, pi, f, pairs
    <3>2. Total(a, pairs) = Total(f, s)
      BY <1>1, <2>3, <3>1, TotalReindex
    <3>3. Total(a, pairs) \in Nat
      BY <1>1, <3>1, TotalType
    <3>4. QED  BY <3>2, <3>3 DEF a, s
  <2>7. g[i] = Total(at(i), pairs)
    BY DEF CurrentCount
  <2>8. QED  BY <2>6, <2>7
<1>3. ASSUME NEW n \in 0 .. NumIntervals - 1,
             Total(f, first(n)) = Total(g, 0 .. n - 1)
      PROVE  Total(f, first(n + 1)) = Total(g, 0 .. (n + 1) - 1)
  <2>1. n \in Nat /\ n \in Intervals /\ \A i \in 0 .. n : i \in Intervals
    BY IntervalsAre
  <2>2. first(n + 1) = first(n) \cup slice(n) /\ first(n) \cap slice(n) = {}
    <3>1. \A i : i \in 0 .. (n + 1) - 1 <=> (i \in 0 .. n - 1 \/ i = n)
      BY <2>1
    <3>2. n \notin 0 .. n - 1
      BY <2>1
    <3>3. QED  BY <3>1, <3>2
  <2>3. first(n) \subseteq Triples /\ slice(n) \subseteq Triples
    BY <2>1 DEF Triples
  <2>4. \A c \in Triples : f[c] \in Nat
    BY DEF Triples, Counters
  <2>5. Total(f, first(n) \cup slice(n)) = Total(f, first(n)) + Total(f, slice(n))
    <3> DEFINE a == first(n)
               b == slice(n)
    <3>1. IsFiniteSet(a) /\ IsFiniteSet(b) /\ a \cap b = {}
      <4>1. a \cap b = {}
        BY <2>2
      <4> HIDE DEF a, b
      <4>2. a \subseteq Triples /\ b \subseteq Triples
        BY <2>3 DEF a, b
      <4>3. QED  BY <4>1, <4>2, TriplesFinite, FS_Subset
    <3>2. (\A x \in a : f[x] = f[x] /\ f[x] \in Nat) /\ (\A x \in b : f[x] = f[x] /\ f[x] \in Nat)
      BY <2>3, <2>4
    <3> HIDE DEF a, b, f
    <3>3. Total(f, a \cup b) = Total(f, a) + Total(f, b)
      BY <3>1, <3>2, TotalUnion
    <3>4. QED  BY <3>3 DEF a, b
  <2>6. Total(f, slice(n)) = g[n] /\ \A i \in 0 .. n : g[i] \in Nat
    BY <1>2, <2>1
  <2>7. Total(g, 0 .. n) = Total(g, 0 .. n - 1) + g[n]
    <3> HIDE DEF g
    <3>1. QED  BY <2>1, <2>6, PrefixTotal
  <2>8. (n + 1) - 1 = n
    BY <2>1
  <2> HIDE DEF f, g, first, slice
  <2>9. QED  BY <1>3, <2>2, <2>5, <2>6, <2>7, <2>8
<1> DEFINE bad == {n \in 0 .. NumIntervals : Total(f, first(n)) # Total(g, 0 .. n - 1)}
<1>4. bad = {}
  <2>1. SUFFICES ASSUME bad # {} PROVE FALSE
    OBVIOUS
  <2>2. bad \subseteq Nat
    OBVIOUS
  <2>3. PICK n \in bad : \A k \in bad : n <= k
    BY <2>1, <2>2, LeastNatural
  <2>4. n \in 0 .. NumIntervals
    BY <2>3
  <2>5. n # 0
    <3>1. 0 .. 0 - 1 = {}
      OBVIOUS
    <3>2. Total(f, first(0)) = 0 /\ Total(g, 0 .. 0 - 1) = 0
      <4>1. first(0) = {}
        BY <3>1
      <4> HIDE DEF first, f, g
      <4>2. QED  BY <3>1, <4>1, TotalEmpty
    <3>3. 0 \notin bad
      BY <3>2
    <3>4. QED  BY <2>3, <3>3
  <2> DEFINE k == n - 1
  <2>6. k \in 0 .. NumIntervals - 1 /\ k \in 0 .. NumIntervals /\ k + 1 = n /\ ~(n <= k)
    BY <2>4, <2>5, IntervalAssumption
  <2>7. k \notin bad
    BY <2>3, <2>6
  <2> HIDE DEF k
  <2>8. Total(f, first(k)) = Total(g, 0 .. k - 1)
    BY <2>6, <2>7
  <2> HIDE DEF f, g
  <2>9. Total(f, first(k + 1)) = Total(g, 0 .. (k + 1) - 1)
    BY <1>3, <2>6, <2>8
  <2>10. n \notin bad
    BY <2>6, <2>9
  <2>11. QED  BY <2>3, <2>10
<1>5. NumIntervals \in 0 .. NumIntervals
  BY IntervalAssumption
<1>6. Total(f, first(NumIntervals)) = Total(g, 0 .. NumIntervals - 1)
  <2> HIDE DEF f, g, first
  <2>1. QED  BY <1>4, <1>5
<1>7. first(NumIntervals) = Triples /\ 0 .. NumIntervals - 1 = Intervals
  BY DEF Triples, Intervals
<1>8. \A i \in Intervals : CurrentCount(counters, i) \in Nat
  BY <1>2
<1>9. QED  BY <1>6, <1>7, <1>8 DEF Sum

LEMMA Halves ==
  ASSUME NEW x \in Nat
  PROVE  /\ x \div 2 \in Nat /\ x % 2 \in 0 .. 1
         /\ x = 2 * (x \div 2) + (x % 2)
<1> DEFINE two == 2
<1>1. two \in Nat \ {0}
  OBVIOUS
<1> HIDE DEF two
<1>2. /\ x \div two \in Nat /\ x % two \in 0 .. two - 1
      /\ x = two * (x \div two) + (x % two)
  BY <1>1, DivMod
<1>3. QED  BY <1>2 DEF two

\* What the division of the loads by two leaves over.
Odd(loads) == [i \in Intervals |-> loads[i] % 2]

\* Halving and counting, added up.
LEMMA DecayTotal ==
  ASSUME NEW loads \in [Intervals -> Nat], NEW counters \in Counters
  PROVE  /\ Total(loads, Intervals) \in Nat /\ Sum(counters) \in Nat
         /\ Total(Odd(loads), Intervals) \in 0 .. NumIntervals
         /\ Total(Decayed(loads, counters), Intervals) \in Nat
         /\ 2 * Total(Decayed(loads, counters), Intervals) + Total(Odd(loads), Intervals)
              = Total(loads, Intervals) + 2 * (CountUnit * Sum(counters))
<1> DEFINE c == [i \in Intervals |-> CurrentCount(counters, i)]
           d == Decayed(loads, counters)
           o == Odd(loads)
           Even(n) == 2 * Total(d, 0 .. n - 1) + Total(o, 0 .. n - 1)
                        = Total(loads, 0 .. n - 1) + 2 * (CountUnit * Total(c, 0 .. n - 1))
           bad == {n \in 0 .. NumIntervals : ~Even(n)}
<1>1. (\A i \in Intervals : c[i] \in Nat) /\ Total(c, Intervals) = Sum(counters)
  BY CountsByInterval
<1>2. ASSUME NEW i \in Intervals
      PROVE  /\ loads[i] \in Nat /\ d[i] \in Nat /\ o[i] \in Nat /\ o[i] <= 1
             /\ 2 * d[i] + o[i] = loads[i] + 2 * (CountUnit * c[i])
  <2>1. /\ d[i] = (loads[i] \div 2) + CountUnit * c[i]
        /\ o[i] = loads[i] % 2 /\ loads[i] \in Nat /\ c[i] \in Nat
    BY <1>1 DEF Decayed, Odd
  <2>2. CountUnit * c[i] \in Nat
    BY <2>1, IntervalsAre
  <2>3. loads[i] \div 2 \in Nat /\ o[i] \in 0 .. 1 /\ loads[i] = 2 * (loads[i] \div 2) + o[i]
    <3> HIDE DEF c, d, o
    <3>1. QED  BY <2>1, Halves
  <2> HIDE DEF c, d, o
  <2>4. QED  BY <2>1, <2>2, <2>3
<1> HIDE DEF c, d, o
<1>3. ASSUME NEW n \in 0 .. NumIntervals - 1, Even(n) PROVE Even(n + 1)
  <2>1. n \in Nat /\ n \in Intervals /\ (\A i \in 0 .. n : i \in Intervals) /\ (n + 1) - 1 = n
    BY IntervalsAre
  <2>2. \A i \in 0 .. n : loads[i] \in Nat /\ d[i] \in Nat /\ o[i] \in Nat /\ c[i] \in Nat
    BY <1>1, <1>2, <2>1
  <2>3. /\ Total(loads, 0 .. n - 1) \in Nat
        /\ Total(loads, 0 .. n) = Total(loads, 0 .. n - 1) + loads[n]
    BY <2>1, <2>2, PrefixTotal
  <2>4. /\ Total(d, 0 .. n - 1) \in Nat
        /\ Total(d, 0 .. n) = Total(d, 0 .. n - 1) + d[n]
    BY <2>1, <2>2, PrefixTotal
  <2>5. /\ Total(o, 0 .. n - 1) \in Nat
        /\ Total(o, 0 .. n) = Total(o, 0 .. n - 1) + o[n]
    BY <2>1, <2>2, PrefixTotal
  <2>6. /\ Total(c, 0 .. n - 1) \in Nat
        /\ Total(c, 0 .. n) = Total(c, 0 .. n - 1) + c[n]
    BY <2>1, <2>2, PrefixTotal
  <2>7. CountUnit * Total(c, 0 .. n) = CountUnit * Total(c, 0 .. n - 1) + CountUnit * c[n]
    BY <1>1, <2>1, <2>6, IntervalsAre
  <2>8. CountUnit * Total(c, 0 .. n - 1) \in Nat /\ CountUnit * c[n] \in Nat
    BY <1>1, <2>1, <2>6, IntervalsAre
  <2>9. 2 * Total(d, 0 .. n) + Total(o, 0 .. n)
          = Total(loads, 0 .. n) + 2 * (CountUnit * Total(c, 0 .. n))
    <3>1. 2 * d[n] + o[n] = loads[n] + 2 * (CountUnit * c[n])
      BY <1>2, <2>1
    <3>2. 2 * Total(d, 0 .. n - 1) + Total(o, 0 .. n - 1)
            = Total(loads, 0 .. n - 1) + 2 * (CountUnit * Total(c, 0 .. n - 1))
      BY <1>3
    <3>3. loads[n] \in Nat /\ d[n] \in Nat /\ o[n] \in Nat
      BY <2>1, <2>2
    <3> DEFINE w == CountUnit * c[n]
               v == CountUnit * Total(c, 0 .. n - 1)
    <3>4. CountUnit * Total(c, 0 .. n) = v + w /\ v \in Nat /\ w \in Nat
      BY <2>7, <2>8
    <3>5. 2 * d[n] + o[n] = loads[n] + 2 * w
      BY <3>1
    <3>6. 2 * Total(d, 0 .. n - 1) + Total(o, 0 .. n - 1) = Total(loads, 0 .. n - 1) + 2 * v
      BY <3>2
    <3> DEFINE td == Total(d, 0 .. n - 1)
               to == Total(o, 0 .. n - 1)
               tl == Total(loads, 0 .. n - 1)
    <3>7. td \in Nat /\ to \in Nat /\ tl \in Nat /\ 2 * td + to = tl + 2 * v
      BY <2>3, <2>4, <2>5, <3>6
    <3>8. /\ Total(d, 0 .. n) = td + d[n] /\ Total(o, 0 .. n) = to + o[n]
          /\ Total(loads, 0 .. n) = tl + loads[n]
      BY <2>3, <2>4, <2>5
    <3> HIDE DEF Even, v, w, td, to, tl
    <3>9. 2 * (td + d[n]) + (to + o[n]) = (tl + loads[n]) + 2 * (v + w)
      <4>1. v \in Nat /\ w \in Nat
        BY <3>4
      <4>2. QED  BY <3>3, <3>5, <3>7, <4>1
    <3>10. QED  BY <3>4, <3>8, <3>9
  <2>10. QED  BY <2>1, <2>9
<1>4. bad = {}
  <2>1. SUFFICES ASSUME bad # {} PROVE FALSE
    OBVIOUS
  <2>2. bad \subseteq Nat
    OBVIOUS
  <2>3. PICK n \in bad : \A k \in bad : n <= k
    BY <2>1, <2>2, LeastNatural
  <2>4. n \in 0 .. NumIntervals
    BY <2>3
  <2>5. n # 0
    <3>1. 0 .. 0 - 1 = {}
      OBVIOUS
    <3>2. \A f : Total(f, 0 .. 0 - 1) = 0
      BY <3>1, TotalEmpty
    <3>3. Even(0)
      BY <3>2, IntervalsAre
    <3>4. 0 \notin bad
      BY <3>3
    <3>5. QED  BY <2>3, <3>4
  <2> DEFINE k == n - 1
  <2>6. k \in 0 .. NumIntervals - 1 /\ k \in 0 .. NumIntervals /\ k + 1 = n /\ ~(n <= k)
    BY <2>4, <2>5, IntervalAssumption
  <2>7. k \notin bad
    BY <2>3, <2>6
  <2> HIDE DEF k
  <2>8. Even(k)
    BY <2>6, <2>7
  <2>9. Even(n)
    <3> HIDE DEF Even
    <3>1. QED  BY <1>3, <2>6, <2>8
  <2>10. QED  BY <2>3, <2>9
<1>5. NumIntervals \in 0 .. NumIntervals /\ 0 .. NumIntervals - 1 = Intervals
  BY IntervalAssumption DEF Intervals
<1>6. Even(NumIntervals)
  <2> HIDE DEF Even
  <2>1. QED  BY <1>4, <1>5
<1>7. /\ Total(loads, Intervals) \in Nat /\ Total(o, Intervals) \in Nat
      /\ Total(d, Intervals) \in Nat /\ Total(c, Intervals) \in Nat
  BY <1>1, <1>2, IntervalsAre, TotalType
<1>8. Total(o, Intervals) <= Cardinality(Intervals) * 1
  BY <1>2, IntervalsAre, TotalBound
<1>9. Cardinality(Intervals) = NumIntervals
  <2>1. /\ 0 \in Int /\ NumIntervals - 1 \in Int /\ 0 <= (NumIntervals - 1) + 1
        /\ (NumIntervals - 1) - 0 + 1 = NumIntervals
    BY IntervalAssumption
  <2>2. QED  BY <2>1, IntervalSize DEF Intervals
<1>10. Total(o, Intervals) \in 0 .. NumIntervals
  BY <1>7, <1>8, <1>9, IntervalsAre
<1>11. 2 * Total(d, Intervals) + Total(o, Intervals)
         = Total(loads, Intervals) + 2 * (CountUnit * Total(c, Intervals))
  BY <1>5, <1>6
<1>12. QED  BY <1>1, <1>7, <1>10, <1>11 DEF d, o

\* The merge keeps the sum of the loads.
LEMMA MergeTotal ==
  ASSUME NumIntervals >= 2, NEW loads \in [Intervals -> Nat], NEW s \in 0 .. NumIntervals - 2
  PROVE  /\ MergedLoads(loads, s) \in [0 .. NumIntervals - 2 -> Nat]
         /\ Total(MergedLoads(loads, s), 0 .. NumIntervals - 2) = Total(loads, Intervals)
<1> DEFINE n == NumIntervals - 1
           merged == MergedLoads(loads, s)
           L == 0 .. s - 1
           a == Total(loads, L)
           b == Total(loads, s + 2 .. n)
<1>1. /\ n \in Nat /\ n - 1 \in Nat /\ s \in Nat /\ s < n /\ s <= n - 1 /\ s \in 0 .. n - 1
      /\ Intervals = 0 .. n /\ NumIntervals - 2 = n - 1
      /\ s + 1 \in Nat /\ n - 1 \in Int /\ s + 1 <= (n - 1) + 1
      /\ (s + 1) + 1 = s + 2 /\ (n - 1) + 1 = n
  BY IntervalsAre DEF Intervals
<1> HIDE DEF n
<1>2. \A i \in 0 .. n : loads[i] \in Nat
  BY <1>1
<1>3. loads[s] \in Nat /\ loads[s + 1] \in Nat
  BY <1>1
<1>4. /\ merged \in [0 .. n - 1 -> Nat]
      /\ \A i \in 0 .. n - 1 : merged[i] \in Nat
      /\ \A i \in L : merged[i] = loads[i]
      /\ merged[s] = loads[s] + loads[s + 1]
      /\ \A i \in s + 1 .. n - 1 : merged[i] = loads[i + 1] /\ merged[i] \in Nat
  <2>1. merged = [i \in 0 .. n - 1 |-> IF i = s THEN loads[s] + loads[s + 1]
                                       ELSE loads[IF i < s THEN i ELSE i + 1]]
    BY <1>1 DEF MergedLoads
  <2> HIDE DEF merged
  <2>2. ASSUME NEW i \in 0 .. n - 1
        PROVE  /\ merged[i] = IF i = s THEN loads[s] + loads[s + 1]
                              ELSE IF i < s THEN loads[i] ELSE loads[i + 1]
               /\ merged[i] \in Nat
    <3>1. i \in 0 .. n /\ i + 1 \in 0 .. n
      BY <1>1
    <3>2. loads[i] \in Nat /\ loads[i + 1] \in Nat
      BY <1>2, <3>1
    <3>3. QED  BY <1>3, <2>1, <3>2
  <2>3. merged \in [0 .. n - 1 -> Nat]
    BY <2>1, <2>2
  <2>4. ASSUME NEW i \in L PROVE merged[i] = loads[i]
    <3>1. i \in 0 .. n - 1 /\ i # s /\ i < s
      BY <1>1
    <3>2. QED  BY <2>2, <3>1
  <2>5. ASSUME NEW i \in s + 1 .. n - 1 PROVE merged[i] = loads[i + 1]
    <3>1. i \in 0 .. n - 1 /\ i # s /\ ~(i < s)
      BY <1>1
    <3>2. QED  BY <2>2, <3>1
  <2>6. \A i \in s + 1 .. n - 1 : i \in 0 .. n - 1
    BY <1>1
  <2>7. merged[s] = loads[s] + loads[s + 1]
    BY <1>1, <2>2
  <2>8. QED  BY <2>2, <2>3, <2>4, <2>5, <2>6, <2>7
<1> HIDE DEF merged
<1>5. /\ a \in Nat /\ b \in Nat
      /\ Total(loads, 0 .. n) = a + loads[s] + loads[s + 1] + b
  BY <1>1, <1>2, TotalAround
<1>6. /\ Total(merged, L) \in Nat /\ Total(merged, s + 1 .. n - 1) \in Nat
      /\ Total(merged, 0 .. n - 1) = Total(merged, L) + merged[s] + Total(merged, s + 1 .. n - 1)
  <2> DEFINE p == n - 1
  <2>1. /\ 0 \in Nat /\ 0 <= s /\ s \in Nat /\ p \in Nat /\ s <= p
        /\ \A i \in 0 .. p : merged[i] \in Nat
    BY <1>1, <1>4
  <2> HIDE DEF p
  <2>2. /\ Total(merged, 0 .. s - 1) \in Nat /\ Total(merged, s + 1 .. p) \in Nat
        /\ Total(merged, 0 .. p) = Total(merged, 0 .. s - 1) + merged[s] + Total(merged, s + 1 .. p)
    BY <2>1, TotalCut
  <2>3. QED  BY <2>2 DEF p
<1>7. Total(merged, L) = a
  BY <1>4, TotalEqual
<1>8. Total(merged, s + 1 .. n - 1) = b
  <2> DEFINE m == s + 1
             p == n - 1
  <2>1. /\ m \in Nat /\ p \in Int /\ m <= p + 1 /\ m + 1 = s + 2 /\ p + 1 = n
        /\ \A i \in m .. p : merged[i] = loads[i + 1] /\ merged[i] \in Nat
    BY <1>1, <1>4
  <2> HIDE DEF m, p
  <2>2. Total(merged, m .. p) = Total(loads, m + 1 .. p + 1)
    BY <2>1, TotalShifted
  <2>3. QED  BY <2>1, <2>2 DEF m, p
<1>9. Total(merged, 0 .. n - 1) = Total(loads, 0 .. n)
  <2>1. Total(merged, 0 .. n - 1) = a + (loads[s] + loads[s + 1]) + b
    BY <1>4, <1>6, <1>7, <1>8
  <2> HIDE DEF a, b
  <2>2. QED  BY <1>3, <1>5, <2>1
<1>10. QED  BY <1>1, <1>4, <1>9 DEF merged

\* The split loses half a unit twice, if the load it splits is odd.
LEMMA SplitTotal ==
  ASSUME NumIntervals >= 2, NEW loads \in [0 .. NumIntervals - 2 -> Nat],
         NEW m \in 0 .. NumIntervals - 2
  PROVE  /\ SplitLoads(loads, m) \in [Intervals -> Nat]
         /\ Total(SplitLoads(loads, m), Intervals) \in Nat
         /\ Total(SplitLoads(loads, m), Intervals) + (loads[m] % 2)
              = Total(loads, 0 .. NumIntervals - 2)
<1> DEFINE n == NumIntervals - 1
           split == SplitLoads(loads, m)
           L == 0 .. m - 1
           a == Total(loads, L)
           b == Total(loads, m + 1 .. n - 1)
           h == loads[m] \div 2
<1>1. /\ n \in Nat /\ n - 1 \in Nat /\ m \in Nat /\ m < n /\ m <= n - 1 /\ m \in 0 .. n - 1
      /\ Intervals = 0 .. n /\ NumIntervals - 2 = n - 1
      /\ m + 1 \in Nat /\ n - 1 \in Int /\ m + 1 <= (n - 1) + 1
      /\ (m + 1) + 1 = m + 2 /\ (n - 1) + 1 = n
  BY IntervalsAre DEF Intervals
<1> HIDE DEF n
<1>2. \A i \in 0 .. n - 1 : loads[i] \in Nat
  BY <1>1
<1>3. loads[m] \in Nat
  BY <1>1, <1>2
<1>4. h \in Nat /\ loads[m] % 2 \in Nat /\ loads[m] = h + h + (loads[m] % 2)
  <2> DEFINE x == loads[m]
  <2>1. x \in Nat
    BY <1>3
  <2> HIDE DEF x
  <2>2. x \div 2 \in Nat /\ x % 2 \in 0 .. 1 /\ x = 2 * (x \div 2) + (x % 2)
    BY <2>1, Halves
  <2>3. x % 2 \in Nat /\ x = (x \div 2) + (x \div 2) + (x % 2)
    <3> DEFINE q == x \div 2
               r == x % 2
    <3>1. q \in Nat /\ r \in 0 .. 1 /\ x = 2 * q + r
      BY <2>2
    <3> HIDE DEF q, r
    <3>2. r \in Nat /\ x = q + q + r
      BY <3>1
    <3>3. QED  BY <3>2 DEF q, r
  <2>4. QED  BY <2>2, <2>3 DEF x
<1> HIDE DEF h
<1>5. /\ split \in [Intervals -> Nat]
      /\ \A i \in 0 .. n : split[i] \in Nat
      /\ \A i \in L : split[i] = loads[i]
      /\ split[m] = h /\ split[m + 1] = h
      /\ \A i \in m + 2 .. n : split[i] = loads[i - 1]
  <2>1. split = [i \in Intervals |-> IF i \in {m, m + 1} THEN h
                                     ELSE loads[IF i < m THEN i ELSE i - 1]]
    BY DEF SplitLoads, h
  <2> HIDE DEF split
  <2>2. ASSUME NEW i \in 0 .. n
        PROVE  /\ split[i] = IF i = m \/ i = m + 1 THEN h
                             ELSE IF i < m THEN loads[i] ELSE loads[i - 1]
               /\ split[i] \in Nat
    <3>1. split[i] = IF i = m \/ i = m + 1 THEN h
                     ELSE IF i < m THEN loads[i] ELSE loads[i - 1]
      BY <1>1, <2>1
    <3>2. i < m => i \in 0 .. n - 1
      BY <1>1
    <3>3. ~(i < m) /\ i # m => i - 1 \in 0 .. n - 1
      BY <1>1
    <3>4. QED  BY <1>2, <1>4, <3>1, <3>2, <3>3
  <2>3. split \in [Intervals -> Nat]
    BY <1>1, <2>1, <2>2
  <2>4. ASSUME NEW i \in L PROVE split[i] = loads[i]
    <3>1. i \in 0 .. n /\ i # m /\ i # m + 1 /\ i < m
      BY <1>1
    <3>2. QED  BY <2>2, <3>1
  <2>5. ASSUME NEW i \in m + 2 .. n PROVE split[i] = loads[i - 1]
    <3>1. i \in 0 .. n /\ i # m /\ i # m + 1 /\ ~(i < m)
      BY <1>1
    <3>2. QED  BY <2>2, <3>1
  <2>6. split[m] = h /\ split[m + 1] = h
    <3>1. m \in 0 .. n /\ m + 1 \in 0 .. n
      BY <1>1
    <3>2. QED  BY <2>2, <3>1
  <2>7. QED  BY <2>2, <2>3, <2>4, <2>5, <2>6
<1> HIDE DEF split
<1>6. /\ Total(split, L) \in Nat /\ Total(split, m + 2 .. n) \in Nat
      /\ Total(split, 0 .. n)
           = Total(split, L) + split[m] + split[m + 1] + Total(split, m + 2 .. n)
  BY <1>1, <1>5, TotalAround
<1>7. /\ a \in Nat /\ b \in Nat
      /\ Total(loads, 0 .. n - 1) = a + loads[m] + b
  <2> DEFINE p == n - 1
  <2>1. /\ 0 \in Nat /\ 0 <= m /\ m \in Nat /\ p \in Nat /\ m <= p
        /\ \A i \in 0 .. p : loads[i] \in Nat
    BY <1>1, <1>2
  <2> HIDE DEF a, b, p
  <2>2. /\ Total(loads, 0 .. m - 1) \in Nat /\ Total(loads, m + 1 .. p) \in Nat
        /\ Total(loads, 0 .. p) = Total(loads, 0 .. m - 1) + loads[m] + Total(loads, m + 1 .. p)
    <3> DEFINE o == 0
    <3>1. o \in Nat /\ o <= m /\ \A i \in o .. p : loads[i] \in Nat
      BY <2>1
    <3> HIDE DEF o
    <3>2. /\ Total(loads, o .. m - 1) \in Nat /\ Total(loads, m + 1 .. p) \in Nat
          /\ Total(loads, o .. p) = Total(loads, o .. m - 1) + loads[m] + Total(loads, m + 1 .. p)
      <4>1. /\ p \in Nat /\ m \in Nat /\ m <= p /\ o \in Nat /\ o <= m
            /\ \A i \in o .. p : loads[i] \in Nat
        BY <2>1, <3>1
      <4>2. SUFFICES ASSUME NEW f, \A i \in o .. p : f[i] \in Nat
                     PROVE  /\ Total(f, o .. m - 1) \in Nat /\ Total(f, m + 1 .. p) \in Nat
                            /\ Total(f, o .. p) = Total(f, o .. m - 1) + f[m] + Total(f, m + 1 .. p)
        BY <4>1
      <4>3. QED  BY <4>1, <4>2, TotalCut
    <3>3. QED  BY <3>2 DEF o
  <2>3. QED  BY <2>2 DEF a, b, p, L
<1>8. Total(split, L) = a
  BY <1>5, TotalEqual
<1>9. Total(split, m + 2 .. n) = b
  <2> DEFINE k == m + 1
             p == n - 1
  <2>1. /\ k \in Nat /\ p \in Int /\ k <= p + 1 /\ k + 1 = m + 2 /\ p + 1 = n
    BY <1>1
  <2>2. ASSUME NEW i \in k .. p PROVE loads[i] = split[i + 1] /\ loads[i] \in Nat
    <3>1. i + 1 \in m + 2 .. n /\ (i + 1) - 1 = i /\ i \in 0 .. n - 1
      BY <1>1
    <3>2. QED  BY <1>2, <1>5, <3>1
  <2> HIDE DEF k, p
  <2>3. Total(loads, k .. p) = Total(split, k + 1 .. p + 1)
    BY <2>1, <2>2, TotalShifted
  <2>4. QED  BY <2>1, <2>3 DEF k, p
<1>10. Total(split, 0 .. n) = a + h + h + b
  BY <1>5, <1>6, <1>8, <1>9
<1>11. /\ Total(split, 0 .. n) \in Nat
       /\ Total(split, 0 .. n) + (loads[m] % 2) = Total(loads, 0 .. n - 1)
  <2> DEFINE x == loads[m]
             e == loads[m] % 2
  <2>1. a \in Nat /\ b \in Nat /\ h \in Nat /\ e \in Nat /\ x = h + h + e
    BY <1>4, <1>7
  <2>2. Total(loads, 0 .. n - 1) = a + x + b
    BY <1>7
  <2> HIDE DEF a, b, x, e
  <2>3. Total(split, 0 .. n) \in Nat /\ Total(split, 0 .. n) + e = a + x + b
    BY <1>10, <2>1
  <2>4. QED  BY <2>2, <2>3 DEF e
<1>12. QED  BY <1>1, <1>5, <1>11 DEF split

-----------------------------------------------------------------------------
(***************************************************************************)
(* What an adjustment does to the total load                               *)
(***************************************************************************)
\* An adjustment counts the packet admitted, lets the loads decay and, at most,
\* merges two intervals and splits one.
LEMMA AdjustLoads ==
  ASSUME IntervalInv, NumIntervals >= 2, NEW rank \in Nat, Admit(rank),
         adjustCounter' % AdjustPeriod = 0
  PROVE  \E counters \in Counters :
           /\ Sum(counters) = Counted + 1
           /\ \/ borderCounts' = Decayed(borderCounts, counters)
              \/ \E s, m \in 0 .. NumIntervals - 2 :
                   borderCounts'
                     = SplitLoads(MergedLoads(Decayed(borderCounts, counters), s), m)
<1> DEFINE i == GetIntervalIndex(intervalBorders, rank)
           b == SelectBestPifo(intervalCounters, loadBalancerIndex, i)
           borders == Stretched(intervalBorders, rank)
           counters == [intervalCounters EXCEPT ![loadBalancerIndex][b][i] = @ + 1]
           loads == Decayed(borderCounts, counters)
           s == MergeStart(loads)
           merged == MergedLoads(loads, s)
           m == FirstMax(merged)
<1>1. /\ intervalCounters \in Counters /\ Staircase(intervalCounters)
      /\ loadBalancerIndex \in LoadBalancers /\ borderCounts \in [Intervals -> Nat]
  BY DEF IntervalInv, TypeOK, Balanced, Staircase, Counters
<1>2. i \in Intervals
  BY IndexType
<1>3. b \in Pifos
  <2> HIDE DEF i
  <2>1. QED  BY <1>1, <1>2, SelectBest
<1>4. counters \in Counters /\ Sum(counters) = Sum(intervalCounters) + 1
  <2> HIDE DEF i
  <2>1. counters \in Counters
    BY <1>1, <1>2, IncrementOK
  <2> HIDE DEF b
  <2>2. QED  BY <1>1, <1>2, <1>3, <2>1, IncrementSum
<1>5. AdjustIntervals(borders, counters) /\ ~(NumIntervals < 2)
  BY IntervalsAre DEF Admit, ChosenPifo
<1>6. Counted = Sum(intervalCounters)
  BY DEF Counted, Sum, Triples
<1> HIDE DEF borders, counters
<1>7. loads \in [Intervals -> Nat]
  BY <1>1, <1>4, DecayedType
<1>8. borderCounts' = loads \/ borderCounts' = SplitLoads(merged, m)
  BY <1>5 DEF AdjustIntervals
<1> HIDE DEF loads
<1>9. s \in 0 .. NumIntervals - 2
  BY <1>7, MergeStartType
<1> HIDE DEF s
<1>10. merged \in [0 .. NumIntervals - 2 -> Nat]
  BY <1>7, <1>9, MergeTotal
<1> HIDE DEF merged
<1>11. m \in 0 .. NumIntervals - 2
  <2>1. NumIntervals - 2 \in Nat
    BY IntervalsAre
  <2>2. QED  BY <1>10, <2>1, FirstMaxOK
<1> HIDE DEF m
<1>12. Sum(counters) = Counted + 1
  BY <1>4, <1>6
<1>13. \/ borderCounts' = Decayed(borderCounts, counters)
       \/ borderCounts' = SplitLoads(MergedLoads(Decayed(borderCounts, counters), s), m)
  BY <1>8 DEF loads, merged
<1>14. QED  BY <1>4, <1>9, <1>11, <1>12, <1>13

\* LoadConserved up to the units that divisions by two round away, one for each
\* interval and two for the split.
NearlyConserved ==
  NumIntervals >= 2 /\ adjustCounter' # adjustCounter
      /\ adjustCounter' % AdjustPeriod = 0
    => \E lost \in 0 .. NumIntervals + 2 :
         2 * TotalLoad(borderCounts') + lost
           = TotalLoad(borderCounts) + 2 * CountUnit * (Counted + 1)

\* What is left over when loads of these values decay and one of them is split.
LEMMA AdjustTotal ==
  ASSUME NumIntervals >= 2, NEW old \in [Intervals -> Nat], NEW counters \in Counters,
         NEW new, NEW split \in {0, 1},
         LET loads == Decayed(old, counters)
         IN  \/ new = loads /\ split = 0
             \/ \E s, m \in 0 .. NumIntervals - 2 :
                  /\ new = SplitLoads(MergedLoads(loads, s), m)
                  /\ split = MergedLoads(loads, s)[m] % 2
  PROVE  /\ new \in [Intervals -> Nat]
         /\ Total(Odd(old), Intervals) \in 0 .. NumIntervals
         /\ 2 * TotalLoad(new) + (Total(Odd(old), Intervals) + 2 * split)
              = TotalLoad(old) + 2 * (CountUnit * Sum(counters))
<1> DEFINE loads == Decayed(old, counters)
           odd == Total(Odd(old), Intervals)
<1>1. loads \in [Intervals -> Nat]
  BY DecayedType
<1>2. /\ Total(old, Intervals) \in Nat /\ Sum(counters) \in Nat
      /\ odd \in 0 .. NumIntervals
      /\ Total(loads, Intervals) \in Nat
      /\ 2 * Total(loads, Intervals) + odd
           = Total(old, Intervals) + 2 * (CountUnit * Sum(counters))
  BY DecayTotal
<1> HIDE DEF loads, odd
<1>3. /\ new \in [Intervals -> Nat] /\ Total(new, Intervals) \in Nat
      /\ Total(new, Intervals) + split = Total(loads, Intervals)
  <2>1. CASE new = loads /\ split = 0
    BY <1>1, <1>2, <2>1
  <2>2. ASSUME NEW s \in 0 .. NumIntervals - 2, NEW m \in 0 .. NumIntervals - 2,
               new = SplitLoads(MergedLoads(loads, s), m),
               split = MergedLoads(loads, s)[m] % 2
        PROVE  /\ new \in [Intervals -> Nat] /\ Total(new, Intervals) \in Nat
               /\ Total(new, Intervals) + split = Total(loads, Intervals)
    <3> DEFINE merged == MergedLoads(loads, s)
    <3>1. /\ merged \in [0 .. NumIntervals - 2 -> Nat]
          /\ Total(merged, 0 .. NumIntervals - 2) = Total(loads, Intervals)
      BY <1>1, MergeTotal
    <3>2. new = SplitLoads(merged, m) /\ split = merged[m] % 2
      BY <2>2
    <3> HIDE DEF merged
    <3>3. /\ SplitLoads(merged, m) \in [Intervals -> Nat]
          /\ Total(SplitLoads(merged, m), Intervals) \in Nat
          /\ Total(SplitLoads(merged, m), Intervals) + (merged[m] % 2)
               = Total(merged, 0 .. NumIntervals - 2)
      BY <3>1, SplitTotal
    <3>4. QED  BY <3>1, <3>2, <3>3, Zenon
  <2>3. QED  BY <2>1, <2>2 DEF loads
<1>4. TotalLoad(old) = Total(old, Intervals) /\ TotalLoad(new) = Total(new, Intervals)
  <2>1. ASSUME NEW f \in [Intervals -> Nat] PROVE TotalLoad(f) = Total(f, Intervals)
    <3>1. DOMAIN f = Intervals /\ \A i \in Intervals : f[i] \in Nat
      OBVIOUS
    <3>2. QED  BY <3>1, IntervalsAre, TotalLoadIsSum
  <2>2. QED  BY <1>3, <2>1
<1>5. 2 * TotalLoad(new) + (odd + 2 * split)
        = TotalLoad(old) + 2 * (CountUnit * Sum(counters))
  <2>1. CountUnit * Sum(counters) \in Nat
    BY <1>2, IntervalsAre
  <2>2. QED  BY <1>2, <1>3, <1>4, <2>1
<1>6. QED  BY <1>2, <1>3, <1>5 DEF odd

\* An adjustment never creates load, and what it rounds away is less than a unit
\* for each interval and two for the split.
LEMMA AdjustNearly ==
  ASSUME IntervalInv, NumIntervals >= 2, NEW rank \in Nat, Admit(rank),
         adjustCounter' % AdjustPeriod = 0
  PROVE  NearlyConserved
<1> DEFINE old == borderCounts
           new == borderCounts'
<1>1. PICK counters \in Counters :
        /\ Sum(counters) = Counted + 1
        /\ \/ new = Decayed(old, counters)
           \/ \E s, m \in 0 .. NumIntervals - 2 :
                new = SplitLoads(MergedLoads(Decayed(old, counters), s), m)
  BY AdjustLoads
<1>2. old \in [Intervals -> Nat]
  BY DEF IntervalInv, TypeOK
<1> DEFINE loads == Decayed(old, counters)
<1>3. \E split \in {0, 1} :
        \/ new = loads /\ split = 0
        \/ \E s, m \in 0 .. NumIntervals - 2 :
             /\ new = SplitLoads(MergedLoads(loads, s), m)
             /\ split = MergedLoads(loads, s)[m] % 2
  <2>1. CASE new = loads
    BY <2>1
  <2>2. ASSUME NEW s \in 0 .. NumIntervals - 2, NEW m \in 0 .. NumIntervals - 2,
               new = SplitLoads(MergedLoads(loads, s), m)
        PROVE  MergedLoads(loads, s)[m] % 2 \in {0, 1}
    <3>1. loads \in [Intervals -> Nat]
      BY <1>2, DecayedType
    <3> HIDE DEF loads
    <3> DEFINE load == MergedLoads(loads, s)[m]
    <3>2. load \in Nat
      <4>1. MergedLoads(loads, s) \in [0 .. NumIntervals - 2 -> Nat]
        BY <3>1, MergeTotal
      <4>2. QED  BY <4>1
    <3> HIDE DEF load
    <3>3. load % 2 \in {0, 1}
      BY <3>2
    <3>4. QED  BY <3>3 DEF load
  <2> HIDE DEF loads, new
  <2>3. QED  BY <1>1, <2>1, <2>2 DEF loads
<1>4. PICK split \in {0, 1} :
        \/ new = loads /\ split = 0
        \/ \E s, m \in 0 .. NumIntervals - 2 :
             /\ new = SplitLoads(MergedLoads(loads, s), m)
             /\ split = MergedLoads(loads, s)[m] % 2
  BY <1>3
<1> DEFINE odd == Total(Odd(old), Intervals)
<1>5. /\ odd \in 0 .. NumIntervals
      /\ 2 * TotalLoad(new) + (odd + 2 * split)
           = TotalLoad(old) + 2 * (CountUnit * Sum(counters))
  <2> HIDE DEF new, old
  <2>1. QED  BY <1>2, <1>4, AdjustTotal
<1>6. odd + 2 * split \in 0 .. NumIntervals + 2
  <2> HIDE DEF odd
  <2>1. QED  BY <1>5, IntervalsAre
<1>7. 2 * (CountUnit * Sum(counters)) = 2 * CountUnit * (Counted + 1)
  <2>1. Sum(counters) \in Nat
    BY <1>2, DecayTotal
  <2>2. 2 * (CountUnit * Sum(counters)) = 2 * CountUnit * Sum(counters)
    BY <2>1, IntervalsAre
  <2>3. QED  BY <1>1, <2>2
<1> HIDE DEF odd, old, new
<1>8. QED  BY <1>5, <1>6, <1>7 DEF NearlyConserved, old, new

\* Whatever the units are, an adjustment creates no load, and loses none but the
\* units rounded away (AdjustIntervals).
THEOREM LoadNearlyConserved == Spec => [][NearlyConserved]_intervalVars
<1>1. IntervalInv /\ [Next]_intervalVars => [NearlyConserved]_intervalVars
  <2> SUFFICES ASSUME IntervalInv, Next, NumIntervals >= 2,
                      adjustCounter' # adjustCounter, adjustCounter' % AdjustPeriod = 0
               PROVE  NearlyConserved
    BY DEF NearlyConserved
  <2>1. PICK rank \in Ranks : Refuse(rank) \/ Admit(rank)
    BY DEF Next
  <2>2. Admit(rank) /\ rank \in Nat
    BY <2>1, IntervalAssumption DEF Refuse
  <2>3. QED  BY <2>2, AdjustNearly
<1>2. QED  BY <1>1, IntervalInvariance, PTL DEF Spec

\* CountUnit has enough factors two for the run: grain[c] is a number of units of
\* which every load is a multiple after c admissions.  Each adjustment may halve a
\* load twice, once when it decays and once when it is split.
Grains == {grain \in [0 .. MaxAdmitted -> Nat \ {0}] :
             \A c \in 0 .. MaxAdmitted :
               /\ \E q \in Nat : CountUnit = q * grain[c]
               /\ c > 0 => grain[c - 1] = IF c % AdjustPeriod = 0 THEN 4 * grain[c]
                                                                  ELSE grain[c]}

EnoughFactors == Grains # {}

Multiples(loads, S, g) == \A i \in S : \E q \in Nat : loads[i] = q * g

Grained(grain) == Multiples(borderCounts, Intervals, grain[adjustCounter])

\* Multiples of four remain multiples of two when they decay, and are even.
LEMMA DecayMultiples ==
  ASSUME NEW g \in Nat \ {0}, NEW loads \in [Intervals -> Nat], NEW counters \in Counters,
         Multiples(loads, Intervals, 4 * g), NEW r \in Nat, CountUnit = r * (4 * g)
  PROVE  /\ Total(Odd(loads), Intervals) = 0
         /\ Multiples(Decayed(loads, counters), Intervals, 2 * g)
<1>1. ASSUME NEW i \in Intervals
      PROVE  /\ Odd(loads)[i] = 0
             /\ \E q \in Nat : Decayed(loads, counters)[i] = q * (2 * g)
  <2>1. PICK q \in Nat : loads[i] = q * (4 * g)
    BY DEF Multiples
  <2> DEFINE h == q * g
             c == CurrentCount(counters, i)
             k == r * c
  <2>2. c \in Nat
    BY CountsByInterval
  <2> HIDE DEF c
  <2>3. h \in Nat /\ k \in Nat
    BY <2>2
  <2>4. loads[i] = 4 * h
    BY <2>1
  <2>5. CountUnit * c = (2 * k) * (2 * g)
    BY <2>2
  <2>6. 2 * h = q * (2 * g)
    OBVIOUS
  <2> HIDE DEF h
  <2>7. loads[i] \div 2 = 2 * h /\ loads[i] % 2 = 0
    BY <2>3, <2>4
  <2>8. Decayed(loads, counters)[i] = loads[i] \div 2 + CountUnit * c
    BY DEF Decayed, c
  <2>9. Decayed(loads, counters)[i] = q * (2 * g) + (2 * k) * (2 * g)
    BY <2>5, <2>6, <2>7, <2>8
  <2> HIDE DEF k
  <2>10. q + 2 * k \in Nat /\ q * (2 * g) + (2 * k) * (2 * g) = (q + 2 * k) * (2 * g)
    BY <2>3
  <2>11. QED  BY <2>7, <2>9, <2>10 DEF Odd
<1>2. Total(Odd(loads), Intervals) = 0
  <2>1. \A i \in Intervals : Odd(loads)[i] \in Nat /\ Odd(loads)[i] <= 0
    BY <1>1
  <2>2. /\ Total(Odd(loads), Intervals) <= Cardinality(Intervals) * 0
        /\ Total(Odd(loads), Intervals) \in Nat
    BY <2>1, IntervalsAre, TotalBound, TotalType
  <2>3. Cardinality(Intervals) \in Nat
    BY IntervalsAre, FS_CardinalityType
  <2>4. QED  BY <2>2, <2>3
<1>3. QED  BY <1>1, <1>2 DEF Multiples

\* A merge adds multiples of g.
LEMMA MergeMultiples ==
  ASSUME NEW g \in Nat, NumIntervals >= 2, NEW loads \in [Intervals -> Nat],
         Multiples(loads, Intervals, g), NEW s \in 0 .. NumIntervals - 2
  PROVE  Multiples(MergedLoads(loads, s), 0 .. NumIntervals - 2, g)
<1> SUFFICES ASSUME NEW i \in 0 .. NumIntervals - 2
             PROVE  \E q \in Nat : MergedLoads(loads, s)[i] = q * g
  BY DEF Multiples
<1>1. /\ i \in Intervals /\ i + 1 \in Intervals
      /\ s \in Intervals /\ s + 1 \in Intervals
  BY IntervalsAre DEF Intervals
<1>2. CASE i = s
  <2>1. PICK p \in Nat : loads[s] = p * g
    BY <1>1 DEF Multiples
  <2>2. PICK q \in Nat : loads[s + 1] = q * g
    BY <1>1 DEF Multiples
  <2>3. MergedLoads(loads, s)[i] = p * g + q * g
    BY <1>2, <2>1, <2>2 DEF MergedLoads
  <2>4. p + q \in Nat /\ p * g + q * g = (p + q) * g
    OBVIOUS
  <2>5. QED  BY <2>3, <2>4
<1>3. CASE i # s
  <2>1. \E j \in Intervals : MergedLoads(loads, s)[i] = loads[j]
    BY <1>1, <1>3 DEF MergedLoads
  <2>2. QED  BY <2>1 DEF Multiples
<1>4. QED  BY <1>2, <1>3

\* A split halves multiples of 2 * g, without a rest.
LEMMA SplitMultiples ==
  ASSUME NEW g \in Nat, NumIntervals >= 2, NEW loads \in [0 .. NumIntervals - 2 -> Nat],
         Multiples(loads, 0 .. NumIntervals - 2, 2 * g), NEW m \in 0 .. NumIntervals - 2
  PROVE  /\ loads[m] % 2 = 0
         /\ Multiples(SplitLoads(loads, m), Intervals, g)
<1>1. PICK q \in Nat : loads[m] = q * (2 * g)
  BY DEF Multiples
<1> DEFINE h == q * g
<1>2. h \in Nat /\ loads[m] = 2 * h
  BY <1>1
<1>3. loads[m] % 2 = 0 /\ loads[m] \div 2 = h
  <2> HIDE DEF h
  <2>1. QED  BY <1>2
<1>4. ASSUME NEW i \in Intervals
      PROVE  \E p \in Nat : SplitLoads(loads, m)[i] = p * g
  <2>1. CASE i \in {m, m + 1}
    BY <1>3, <2>1 DEF SplitLoads
  <2>2. CASE i \notin {m, m + 1}
    <3> DEFINE j == IF i < m THEN i ELSE i - 1
    <3>1. j \in 0 .. NumIntervals - 2
      BY <2>2, IntervalsAre DEF Intervals
    <3>2. SplitLoads(loads, m)[i] = loads[j]
      BY <2>2 DEF SplitLoads
    <3> HIDE DEF j
    <3>3. PICK p \in Nat : loads[j] = p * (2 * g)
      BY <3>1 DEF Multiples
    <3>4. 2 * p \in Nat /\ p * (2 * g) = (2 * p) * g
      OBVIOUS
    <3>5. QED  BY <3>2, <3>3, <3>4
  <2>3. QED  BY <2>1, <2>2
<1>5. QED  BY <1>3, <1>4 DEF Multiples

\* With loads that are multiples of the grain an adjustment rounds nothing away,
\* and leaves multiples of the next grain.
LEMMA AdjustExactly ==
  ASSUME IntervalInv, NumIntervals >= 2, NEW grain \in Grains, Grained(grain),
         NEW rank \in Nat, Admit(rank), adjustCounter' % AdjustPeriod = 0
  PROVE  /\ 2 * TotalLoad(borderCounts')
              = TotalLoad(borderCounts) + 2 * CountUnit * (Counted + 1)
         /\ Multiples(borderCounts', Intervals, grain[adjustCounter'])
<1> DEFINE old == borderCounts
           new == borderCounts'
           g == grain[adjustCounter']
<1>1. PICK counters \in Counters :
        /\ Sum(counters) = Counted + 1
        /\ \/ new = Decayed(old, counters)
           \/ \E s, m \in 0 .. NumIntervals - 2 :
                new = SplitLoads(MergedLoads(Decayed(old, counters), s), m)
  BY AdjustLoads
<1>2. old \in [Intervals -> Nat] /\ adjustCounter \in Nat /\ adjustCounter + 1 \in 0 .. MaxAdmitted
        /\ adjustCounter' = adjustCounter + 1
  BY IntervalAssumption DEF IntervalInv, TypeOK, Admit
<1>3. g \in Nat \ {0} /\ grain[adjustCounter] = 4 * g /\ \E r \in Nat : CountUnit = r * (4 * g)
  <2> DEFINE c == adjustCounter'
  <2>1. c \in 0 .. MaxAdmitted /\ c > 0 /\ c - 1 = adjustCounter /\ c - 1 \in 0 .. MaxAdmitted
          /\ c % AdjustPeriod = 0
    <3>1. c % AdjustPeriod = 0
      OBVIOUS
    <3>2. c = adjustCounter + 1
      BY <1>2
    <3> HIDE DEF c
    <3>3. c \in 0 .. MaxAdmitted /\ c > 0 /\ c - 1 = adjustCounter /\ c - 1 \in 0 .. MaxAdmitted
      BY <1>2, <3>2, IntervalAssumption
    <3>4. QED  BY <3>1, <3>3
  <2> HIDE DEF c
  <2>2. g \in Nat \ {0} /\ grain[c - 1] = 4 * grain[c]
          /\ \E r \in Nat : CountUnit = r * grain[c - 1]
    BY <2>1 DEF Grains, c
  <2>3. QED  BY <2>1, <2>2 DEF c
<1> HIDE DEF g, new
<1>4. PICK r \in Nat : CountUnit = r * (4 * g)
  BY <1>3
<1>5. Multiples(old, Intervals, 4 * g)
  BY <1>3 DEF Grained
<1> HIDE DEF old
<1> DEFINE loads == Decayed(old, counters)
<1>6. loads \in [Intervals -> Nat]
  BY <1>2, DecayedType
<1>7. Total(Odd(old), Intervals) = 0 /\ Multiples(loads, Intervals, 2 * g)
  BY <1>2, <1>3, <1>4, <1>5, DecayMultiples
<1> HIDE DEF loads
<1>8. ASSUME NEW s \in 0 .. NumIntervals - 2, NEW m \in 0 .. NumIntervals - 2
      PROVE  /\ MergedLoads(loads, s)[m] % 2 = 0
             /\ Multiples(SplitLoads(MergedLoads(loads, s), m), Intervals, g)
  <2> DEFINE merged == MergedLoads(loads, s)
  <2>1. g \in Nat /\ 2 * g \in Nat
    BY <1>3
  <2>2. merged \in [0 .. NumIntervals - 2 -> Nat]
    BY <1>6, MergeTotal
  <2>3. Multiples(merged, 0 .. NumIntervals - 2, 2 * g)
    BY <1>6, <1>7, <2>1, MergeMultiples
  <2> HIDE DEF merged
  <2>4. merged[m] % 2 = 0 /\ Multiples(SplitLoads(merged, m), Intervals, g)
    BY <2>1, <2>2, <2>3, SplitMultiples
  <2>5. QED  BY <2>4 DEF merged
<1>9. Multiples(loads, Intervals, g)
  <2>1. ASSUME NEW i \in Intervals PROVE \E q \in Nat : loads[i] = q * g
    <3>1. PICK q \in Nat : loads[i] = q * (2 * g)
      BY <1>7 DEF Multiples
    <3>2. 2 * q \in Nat /\ q * (2 * g) = (2 * q) * g
      BY <1>3
    <3>3. QED  BY <3>1, <3>2
  <2>2. QED  BY <2>1 DEF Multiples
<1>10. new = loads \/ \E s, m \in 0 .. NumIntervals - 2 : new = SplitLoads(MergedLoads(loads, s), m)
  BY <1>1 DEF loads
<1>11. Multiples(new, Intervals, g)
  BY <1>8, <1>9, <1>10
<1>12. \/ new = loads
       \/ \E s, m \in 0 .. NumIntervals - 2 :
            new = SplitLoads(MergedLoads(loads, s), m) /\ MergedLoads(loads, s)[m] % 2 = 0
  BY <1>8, <1>10
<1>13. 2 * TotalLoad(new) + (Total(Odd(old), Intervals) + 2 * 0)
         = TotalLoad(old) + 2 * (CountUnit * Sum(counters))
  <2> DEFINE split == 0
  <2>1. /\ split \in {0, 1}
        /\ \/ new = loads /\ split = 0
           \/ \E s, m \in 0 .. NumIntervals - 2 :
                /\ new = SplitLoads(MergedLoads(loads, s), m)
                /\ split = MergedLoads(loads, s)[m] % 2
    BY <1>12
  <2> HIDE DEF split
  <2>2. 2 * TotalLoad(new) + (Total(Odd(old), Intervals) + 2 * split)
          = TotalLoad(old) + 2 * (CountUnit * Sum(counters))
    BY <1>2, <2>1, AdjustTotal DEF loads
  <2>3. QED  BY <2>2 DEF split
<1>14. new \in [Intervals -> Nat]
  <2> DEFINE split == 0
  <2>1. /\ split \in {0, 1}
        /\ \/ new = loads /\ split = 0
           \/ \E s, m \in 0 .. NumIntervals - 2 :
                /\ new = SplitLoads(MergedLoads(loads, s), m)
                /\ split = MergedLoads(loads, s)[m] % 2
    BY <1>12
  <2> HIDE DEF split
  <2>2. QED  BY <1>2, <2>1, AdjustTotal DEF loads
<1>15. TotalLoad(new) \in Nat
  <2>1. DOMAIN new = Intervals /\ \A i \in Intervals : new[i] \in Nat
    BY <1>14
  <2>2. QED  BY <2>1, IntervalsAre, TotalLoadIsSum, TotalType
<1>16. 2 * (CountUnit * Sum(counters)) = 2 * CountUnit * (Counted + 1)
  <2>1. Sum(counters) \in Nat
    BY <1>2, DecayTotal
  <2>2. 2 * (CountUnit * Sum(counters)) = 2 * CountUnit * Sum(counters)
    BY <2>1, IntervalsAre
  <2>3. QED  BY <1>1, <2>2
<1>17. 2 * TotalLoad(new) = TotalLoad(old) + 2 * CountUnit * (Counted + 1)
  BY <1>7, <1>13, <1>15, <1>16
<1>18. QED  BY <1>11, <1>17 DEF old, new, g

\* Loads are multiples of the grain at first, and remain so.
LEMMA GrainedStep ==
  ASSUME IntervalInv, NEW grain \in Grains, Grained(grain), [Next]_intervalVars
  PROVE  Multiples(borderCounts', Intervals, grain[adjustCounter'])
<1>1. Multiples(borderCounts, Intervals, grain[adjustCounter])
  BY DEF Grained
<1>2. CASE UNCHANGED intervalVars
  BY <1>1, <1>2 DEF intervalVars
<1>3. ASSUME NEW rank \in Ranks, Refuse(rank)
      PROVE  Multiples(borderCounts', Intervals, grain[adjustCounter'])
  BY <1>1, <1>3 DEF Refuse
<1>4. ASSUME NEW rank \in Ranks, Admit(rank)
      PROVE  Multiples(borderCounts', Intervals, grain[adjustCounter'])
  <2> DEFINE c == adjustCounter + 1
  <2>1. /\ adjustCounter' = c /\ c \in 0 .. MaxAdmitted /\ c > 0 /\ c - 1 = adjustCounter
    BY <1>4, IntervalAssumption DEF IntervalInv, TypeOK, Admit
  <2> HIDE DEF c
  <2>2. /\ grain[adjustCounter] = IF c % AdjustPeriod = 0 THEN 4 * grain[c] ELSE grain[c]
        /\ grain[c] \in Nat
    BY <2>1 DEF Grains
  <2>3. CASE c % AdjustPeriod = 0 /\ NumIntervals >= 2
    <3>1. adjustCounter' % AdjustPeriod = 0 /\ rank \in Nat
      BY <2>1, <2>3, IntervalAssumption
    <3>2. QED  BY <1>4, <2>3, <3>1, AdjustExactly
  <2>4. CASE c % AdjustPeriod = 0 /\ ~(NumIntervals >= 2)
    <3>1. borderCounts' = borderCounts
      BY <1>4, <2>1, <2>4, IntervalsAre DEF Admit, AdjustIntervals
    <3>2. ASSUME NEW i \in Intervals PROVE \E q \in Nat : borderCounts[i] = q * grain[c]
      <4>1. PICK q \in Nat : borderCounts[i] = q * (4 * grain[c])
        BY <1>1, <2>2, <2>4 DEF Multiples
      <4> DEFINE g == grain[c]
      <4>2. g \in Nat
        BY <2>2
      <4> HIDE DEF g
      <4>3. 4 * q \in Nat /\ q * (4 * g) = (4 * q) * g
        BY <4>2
      <4>4. QED  BY <4>1, <4>3 DEF g
    <3>3. QED  BY <2>1, <3>1, <3>2 DEF Multiples
  <2>5. CASE c % AdjustPeriod # 0
    <3>1. borderCounts' = borderCounts
      BY <1>4, <2>1, <2>5 DEF Admit
    <3>2. QED  BY <1>1, <2>1, <2>2, <2>5, <3>1
  <2>6. QED  BY <2>3, <2>4, <2>5
<1>5. QED  BY <1>2, <1>3, <1>4 DEF Next

\* A merge and the split after it lose no load, as long as the units have enough
\* factors two to halve exactly, as doubles do (AdjustIntervals).
THEOREM LoadKept == EnoughFactors => (Spec => LoadConserved)
<1> SUFFICES ASSUME NEW grain \in Grains PROVE Spec => LoadConserved
  BY DEF EnoughFactors
<1> DEFINE Kept == NumIntervals >= 2 /\ adjustCounter' # adjustCounter
                     /\ adjustCounter' % AdjustPeriod = 0
                   => 2 * TotalLoad(borderCounts')
                        = TotalLoad(borderCounts) + 2 * CountUnit * (Counted + 1)
<1>1. Init => Grained(grain)
  <2> SUFFICES ASSUME Init PROVE Grained(grain)
    OBVIOUS
  <2>1. adjustCounter = 0 /\ 0 \in 0 .. MaxAdmitted /\ \A i \in Intervals : borderCounts[i] = 0
    BY IntervalAssumption DEF Init
  <2>2. grain[0] \in Nat
    BY <2>1 DEF Grains
  <2>3. 0 = 0 * grain[0]
    BY <2>2
  <2>4. QED  BY <2>1, <2>3 DEF Grained, Multiples
<1>2. IntervalInv /\ Grained(grain) /\ [Next]_intervalVars => Grained(grain)'
  BY GrainedStep DEF Grained
<1>3. IntervalInv /\ Grained(grain) /\ [Next]_intervalVars => [Kept]_intervalVars
  <2> SUFFICES ASSUME IntervalInv, Grained(grain), Next, NumIntervals >= 2,
                      adjustCounter' # adjustCounter, adjustCounter' % AdjustPeriod = 0
               PROVE  2 * TotalLoad(borderCounts')
                        = TotalLoad(borderCounts) + 2 * CountUnit * (Counted + 1)
    OBVIOUS
  <2>1. PICK rank \in Ranks : Refuse(rank) \/ Admit(rank)
    BY DEF Next
  <2>2. Admit(rank) /\ rank \in Nat
    BY <2>1, IntervalAssumption DEF Refuse
  <2>3. QED  BY <2>2, AdjustExactly
<1>4. QED  BY <1>1, <1>2, <1>3, IntervalInvariance, PTL DEF Spec, LoadConserved
=============================================================================
