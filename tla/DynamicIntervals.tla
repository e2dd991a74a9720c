-------------------------- MODULE DynamicIntervals --------------------------
(***************************************************************************)
(* The load balancers of the Scale-up PIFO                                 *)
(* (DynamicIntervalRRPIFOScheduler.cc): the rank axis is cut into          *)
(* intervals; every load balancer counts, per interval, the packets it     *)
(* gave to each PIFO and gives the next one to the PIFO with the smallest  *)
(* count; every AdjustPeriod admitted packets, AdjustIntervals merges the  *)
(* least used interval with a neighbour and splits the most used one.      *)
(*                                                                         *)
(* Whether the chosen FIFO has room is the queues' business (module        *)
(* ScaleUpPIFO); here it is the parameter `admitted' of an arrival.        *)
(*                                                                         *)
(* Numbers.  Borders are multiples of 1/Unit of a rank, interval loads     *)
(* (borderCounts) multiples of 1/CountUnit of a packet, so that the        *)
(* divisions by 2 of the code's doubles are integer divisions; they are    *)
(* exact as long as the units have enough factors 2 for the run.           *)
(***************************************************************************)
EXTENDS Integers, FiniteSetsExt, Totals

CONSTANTS
  NumLoadBalancers,   \* NUM_LOAD_BALANCERS
  NumPifos,           \* NUM_PIFOS
  NumIntervals,       \* m_numIntervals (a merge is always followed by a split)
  IntervalLength,     \* m_intervalLength, in border units
  SplitThreshold,     \* the load above which an interval may be split (100)
  AdjustPeriod,       \* ADJUST_PERIOD
  Unit,               \* border units per rank
  CountUnit,          \* load units per packet
  Ranks,              \* the ranks (flow sizes) packets may carry
  MaxAdmitted         \* bound on the int m_adjustCounter

ASSUME IntervalAssumption ==
  /\ NumLoadBalancers \in Nat \ {0}
  /\ NumPifos \in Nat \ {0}
  /\ NumIntervals \in Nat \ {0}
  /\ AdjustPeriod \in Nat \ {0}
  /\ Unit \in Nat \ {0}
  /\ CountUnit \in Nat \ {0}
  /\ IntervalLength \in Nat /\ IntervalLength >= Unit
  /\ SplitThreshold \in Nat
  /\ Ranks \subseteq Nat
  /\ MaxAdmitted \in Nat

LoadBalancers == 0 .. NumLoadBalancers - 1
Pifos         == 0 .. NumPifos - 1
Intervals     == 0 .. NumIntervals - 1
Borders       == 0 .. NumIntervals

VARIABLES
  intervalBorders,    \* m_sharedIntervalBorders
  borderCounts,       \* m_borderCounts: decayed load of each interval
  intervalCounters,   \* m_intervalCounters[lb][pifo][interval]
  loadBalancerIndex,  \* m_loadBalancerIndex
  adjustCounter       \* m_adjustCounter

intervalVars == <<intervalBorders, borderCounts, intervalCounters,
                  loadBalancerIndex, adjustCounter>>

(***************************************************************************)
(* InitializeParams and InitIntervalCountersWithPattern: equal intervals   *)
(* and, in interval i, a head start of one packet for the first            *)
(* i % NumPifos PIFOs.                                                     *)
(***************************************************************************)
Init ==
  /\ intervalBorders = [b \in Borders |-> b * IntervalLength]
  /\ borderCounts = [i \in Intervals |-> 0]
  /\ intervalCounters =
       [lb \in LoadBalancers |-> [p \in Pifos |-> [i \in Intervals |->
          IF p < i % NumPifos THEN 1 ELSE 0]]]
  /\ loadBalancerIndex = 0
  /\ adjustCounter = 0

-----------------------------------------------------------------------------
(***************************************************************************)
(* Classification and balancing                                            *)
(***************************************************************************)
Inside(borders, i, rank) ==
  borders[i] <= rank * Unit /\ rank * Unit < borders[i + 1]

\* A rank that no interval holds becomes the last border and is counted in
\* the last interval.
GetIntervalIndex(borders, rank) ==
  IF \E i \in Intervals : Inside(borders, i, rank)
    THEN CHOOSE i \in Intervals :
           /\ Inside(borders, i, rank)
           /\ \A j \in Intervals : Inside(borders, j, rank) => i <= j
    ELSE NumIntervals - 1

Stretched(borders, rank) ==
  IF \E i \in Intervals : Inside(borders, i, rank)
    THEN borders
    ELSE [borders EXCEPT ![NumIntervals] = rank * Unit]

SelectBestPifo_Last(counters, lb, i) ==  \* mutant: count <= minCount
  CHOOSE p \in Pifos :
    \A q \in Pifos : \/ counters[lb][p][i] < counters[lb][q][i]
                     \/ counters[lb][p][i] = counters[lb][q][i] /\ p >= q

\* The first PIFO with the smallest count.
SelectBestPifo(counters, lb, i) ==
  CHOOSE p \in Pifos :
    \A q \in Pifos : \/ counters[lb][p][i] < counters[lb][q][i]
                     \/ counters[lb][p][i] = counters[lb][q][i] /\ p <= q

-----------------------------------------------------------------------------
(***************************************************************************)
(* AdjustIntervals                                                         *)
(***************************************************************************)
CurrentCount(counters, i) ==
  Total([c \in LoadBalancers \X Pifos |-> counters[c[1]][c[2]][i]],
        LoadBalancers \X Pifos)

SmallestCount_Max(counters, lb, i) ==  \* mutant: max_element for min_element
  Max({counters[lb][p][i] : p \in Pifos})

SmallestCount(counters, lb, i) ==
  Min({counters[lb][p][i] : p \in Pifos})

Levelled_Not(counters) == counters  \* mutant: the counted packets stay

\* Every load balancer takes its smallest count of an interval off all of them.
Levelled(counters) ==
  [lb \in LoadBalancers |-> [p \in Pifos |-> [i \in Intervals |->
     counters[lb][p][i] - SmallestCount(counters, lb, i)]]]

Decayed(loads, counters) ==
  [i \in Intervals |-> loads[i] \div 2 + CountUnit * CurrentCount(counters, i)]

\* std::max_element and std::min_element return the first one.
FirstMax(loads) ==
  CHOOSE i \in DOMAIN loads :
    \A j \in DOMAIN loads : loads[j] < loads[i] \/ (loads[j] = loads[i] /\ i <= j)

FirstMin(loads) ==
  CHOOSE i \in DOMAIN loads :
    \A j \in DOMAIN loads : loads[i] < loads[j] \/ (loads[j] = loads[i] /\ i <= j)

TotalLoad(loads) == MapThenSumSet(LAMBDA i : loads[i], DOMAIN loads)

Width(borders, i) == borders[i + 1] - borders[i]

MustAdjust_AnyWidth(borders, loads) ==  \* mutant: without the return on the width
  LET max == loads[FirstMax(loads)]
      min == loads[FirstMin(loads)]
      total == TotalLoad(loads)
  IN  /\ total # 0
      /\ \/ /\ max > SplitThreshold * CountUnit
            /\ max * NumIntervals > 2 * total
            /\ Width(borders, FirstMax(loads)) > Unit
         \/ 2 * NumIntervals * min < total

\* The early returns: the busiest interval is wider than two ranks, and the
\* load is skewed enough (comparisons with the mean, multiplied out).
MustAdjust(borders, loads) ==
  LET max   == loads[FirstMax(loads)]
      min   == loads[FirstMin(loads)]
      width == Width(borders, FirstMax(loads))
      total == TotalLoad(loads)
  IN  /\ total # 0
      /\ width > 2 * Unit
      /\ \/ /\ max > SplitThreshold * CountUnit
            /\ max * NumIntervals > 2 * total
            /\ width > Unit
         \/ 2 * NumIntervals * min < total

\* The first of the two intervals to merge: the least used one and its less
\* used neighbour, the left one on a tie.
MergeStart(loads) ==
  LET m == FirstMin(loads)
  IN  IF m > 0 /\ (m = NumIntervals - 1 \/ loads[m - 1] <= loads[m + 1])
        THEN m - 1
        ELSE m

MergedBorders_RightOne(borders, s) ==  \* mutant: erases the border after mergeEnd
  [b \in 0 .. NumIntervals - 1 |-> borders[IF b <= s + 1 THEN b ELSE b + 1]]

MergedBorders(borders, s) ==
  [b \in 0 .. NumIntervals - 1 |-> borders[IF b <= s THEN b ELSE b + 1]]

MergedLoads_OneOnly(loads, s) ==  \* mutant: the load of mergeEnd is lost
  [i \in 0 .. NumIntervals - 2 |-> loads[IF i <= s THEN i ELSE i + 1]]

MergedLoads(loads, s) ==
  [i \in 0 .. NumIntervals - 2 |->
     IF i = s THEN loads[s] + loads[s + 1] ELSE loads[IF i < s THEN i ELSE i + 1]]

SplitBorders(borders, m) ==
  [b \in Borders |->
     IF b = m + 1 THEN (borders[m] + borders[m + 1]) \div 2
                  ELSE borders[IF b <= m THEN b ELSE b - 1]]

SplitLoads(loads, m) ==
  [i \in Intervals |->
     IF i \in {m, m + 1} THEN loads[m] \div 2 ELSE loads[IF i < m THEN i ELSE i - 1]]

\* The counters are levelled and the loads updated even on an early return;
\* the counters of an interval are not moved when a merge or a split shifts it.
AdjustIntervals(borders, counters) ==
  LET loads  == Decayed(borderCounts, counters)
      s      == MergeStart(loads)
      merged == MergedLoads(loads, s)
      m      == FirstMax(merged)
  IN  IF NumIntervals < 2
        THEN /\ intervalBorders' = borders
             /\ intervalCounters' = counters
             /\ UNCHANGED borderCounts
        ELSE /\ intervalCounters' = Levelled(counters)
             /\ IF MustAdjust(borders, loads)
                  THEN /\ intervalBorders' = SplitBorders(MergedBorders(borders, s), m)
                       /\ borderCounts' = SplitLoads(merged, m)
                  ELSE /\ intervalBorders' = borders
                       /\ borderCounts' = loads

-----------------------------------------------------------------------------
(***************************************************************************)
(* DoEnqueue of a data packet, as far as the load balancers see it.  The   *)
(* turn of the load balancer is spent, and the last border stretched, even *)
(* when the packet is then refused.                                        *)
(***************************************************************************)
ChosenPifo(rank) ==
  SelectBestPifo(intervalCounters, loadBalancerIndex,
                 GetIntervalIndex(intervalBorders, rank))

Refuse(rank) ==
  /\ loadBalancerIndex' = (loadBalancerIndex + 1) % NumLoadBalancers
  /\ intervalBorders' = Stretched(intervalBorders, rank)
  /\ UNCHANGED <<borderCounts, intervalCounters, adjustCounter>>

Admit(rank) ==
  LET i        == GetIntervalIndex(intervalBorders, rank)
      borders  == Stretched(intervalBorders, rank)
      counters == [intervalCounters EXCEPT
                     ![loadBalancerIndex][ChosenPifo(rank)][i] = @ + 1]
  IN  /\ adjustCounter < MaxAdmitted
      /\ loadBalancerIndex' = (loadBalancerIndex + 1) % NumLoadBalancers
      /\ adjustCounter' = adjustCounter + 1
      /\ IF adjustCounter' % AdjustPeriod = 0
           THEN AdjustIntervals(borders, counters)
           ELSE /\ intervalBorders' = borders
                /\ intervalCounters' = counters
                /\ UNCHANGED borderCounts

Next == \E rank \in Ranks : Refuse(rank) \/ Admit(rank)

Spec == Init /\ [][Next]_intervalVars

-----------------------------------------------------------------------------
(***************************************************************************)
(* Properties                                                              *)
(***************************************************************************)
TypeOK ==
  /\ intervalBorders \in [Borders -> Nat]
  /\ borderCounts \in [Intervals -> Nat]
  /\ intervalCounters \in [LoadBalancers -> [Pifos -> [Intervals -> Nat]]]
  /\ loadBalancerIndex \in LoadBalancers
  /\ adjustCounter \in 0 .. MaxAdmitted

\* Round robin: within one interval a load balancer never gives a PIFO more
\* than one packet more than any other, and the PIFOs that are ahead are the
\* first ones -- whatever the head start of the initial pattern, refusals and
\* the subtractions of AdjustIntervals (SelectBestPifo, AdjustIntervals).
Balanced ==
  \A lb \in LoadBalancers, i \in Intervals, p, q \in Pifos :
    p < q => intervalCounters[lb][p][i] - intervalCounters[lb][q][i] \in {0, 1}

\* However often intervals are merged, split and stretched, they keep covering
\* the ranks from 0 on, in order, and none gets narrower than one rank: the
\* guard on the width in AdjustIntervals is enough for the split that follows
\* the merge, of an interval the guard did not look at.
IntervalsWide ==
  /\ intervalBorders[0] = 0
  /\ \A i \in Intervals : Width(intervalBorders, i) >= Unit

\* The range of ranks never shrinks: no merge removes the last border and a
\* stretch only moves it up (GetIntervalIndex, AdjustIntervals).
LastBorderGrows ==
  [][intervalBorders'[NumIntervals] >= intervalBorders[NumIntervals]]_intervalVars

\* The packets all counters stand for.
Counted ==
  Total([c \in LoadBalancers \X Pifos \X Intervals |->
           intervalCounters[c[1]][c[2]][c[3]]],
        LoadBalancers \X Pifos \X Intervals)

\* What AdjustIntervals leaves in the counters, and so counts again at the next
\* adjustment, is bounded: beyond the packets admitted since the last one there
\* is at most one per load balancer, interval and PIFO but the last (with a single
\* interval AdjustIntervals returns at once and nothing is ever taken off).
RecountBounded ==
  NumIntervals >= 2 =>
    Counted <= (adjustCounter % AdjustPeriod)
                 + NumLoadBalancers * NumIntervals * (NumPifos - 1)

\* A merge and the split after it move load between intervals and lose none:
\* at an adjustment the total load becomes half the old one plus all counters,
\* the packet just admitted included.
LoadConserved ==
  [][NumIntervals >= 2 /\ adjustCounter' # adjustCounter
        /\ adjustCounter' % AdjustPeriod = 0
       => 2 * TotalLoad(borderCounts')
            = TotalLoad(borderCounts) + 2 * CountUnit * (Counted + 1)]_intervalVars
=============================================================================
