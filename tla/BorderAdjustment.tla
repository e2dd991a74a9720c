-------------------------- MODULE BorderAdjustment --------------------------
(***************************************************************************)
(* What the interval border adjuster computes, one adjustment to a step: a *)
(* round collects the packet counts of every load balancer and PIFO, ages  *)
(* the loads of the intervals and, when they are skewed, merges the least  *)
(* loaded interval with its lighter neighbour and halves the most loaded.  *)
(* Then the borders are sent, one at a time.  Interval i ends where        *)
(* interval i + 1 begins: borders[i] .. borders[i + 1].                    *)
(***************************************************************************)
EXTENDS Totals

CONSTANTS
  Intervals,      \* the number of intervals
  MaxIntervals,   \* the number of borders sent in a round
  Groups,         \* the number of counts per interval in a round
  Modulus,        \* 2^BORDER_W: registers hold 0 .. Modulus - 1
  WideModulus,    \* 2^max(BORDER_W, 32): comparisons are made in this width
  MinLoad,        \* a load up to this is never too heavy
  Words           \* the counts that may arrive

VARIABLES
  phase,     \* "idle", "collecting" or "streaming"
  borders,
  loads,     \* aged packet count of each interval
  counts,    \* packets counted in this round
  taken,     \* number of counts taken in this round
  next,      \* the border to be sent next
  out        \* the border being sent, or Silent

vars == <<phase, borders, loads, counts, taken, next, out>>

Word == 0 .. Modulus - 1
Index == 0 .. Intervals - 1
Silent == Modulus      \* no border

Aged(b, c) == [i \in Index |-> ((b[i] \div 2) + c[i]) % Modulus]

\* The first interval with the least load, and the greatest load.
Lightest(b) ==
  CHOOSE i \in Index : \A j \in Index : b[i] < b[j] \/ (b[i] = b[j] /\ i <= j)
Greatest(b) == CHOOSE x \in {b[i] : i \in Index} : \A i \in Index : b[i] <= x

\* Twice the average load is too much, half of it too little.
Skewed(b) ==
  LET total == Total(b, Index) % Modulus
  IN  \/ /\ Greatest(b) > MinLoad
         /\ (Greatest(b) * Intervals) % WideModulus > (2 * total) % WideModulus
      \/ (2 * b[Lightest(b)] * Intervals) % WideModulus < total

\* The second of the two intervals that are merged.
MergeEnd(b) ==
  LET i == Lightest(b)
  IN  IF i > 0 /\ (i + 1 < Intervals => b[i - 1] <= b[i + 1]) THEN i ELSE i + 1

\* The loads, and the borders, when interval e has been merged with e - 1.
MergedLoads(b, e) ==
  [i \in 0 .. Intervals - 2 |->
     IF i < e - 1 THEN b[i]
     ELSE IF i = e - 1 THEN (b[i] + b[e]) % Modulus
     ELSE b[i + 1]]

MergedBorders(f, e) ==
  [i \in 0 .. Intervals - 1 |-> IF i < e THEN f[i] ELSE f[i + 1]]

\* The last of the merged intervals with the greatest load.
Heaviest(b) ==
  CHOOSE i \in DOMAIN b : \A j \in DOMAIN b : b[j] < b[i] \/ (b[j] = b[i] /\ j <= i)

\* The loads, and the borders, when interval m has been halved.
SplitLoads(b, m) ==
  [i \in Index |->
     IF i < m THEN b[i]
     ELSE IF i = m THEN b[m] \div 2
     ELSE IF i = m + 1 THEN b[m] - (b[m] \div 2)
     ELSE b[i - 1]]

SplitBorders(f, m) ==
  [i \in 0 .. Intervals |->
     IF i <= m THEN f[i]
     ELSE IF i = m + 1 THEN ((f[m] + f[m + 1]) % Modulus) \div 2
     ELSE f[i - 1]]

NewLoads(b) ==
  LET merged == MergedLoads(b, MergeEnd(b))
  IN  IF Skewed(b) THEN SplitLoads(merged, Heaviest(merged)) ELSE b

NewBorders(f, b) ==
  LET e == MergeEnd(b)
      m == Heaviest(MergedLoads(b, e))
      g == SplitBorders(MergedBorders(f, e), m)
  IN  IF Skewed(b)
        THEN [i \in DOMAIN f |-> IF i <= Intervals THEN g[i] ELSE f[i]]
        ELSE f

-----------------------------------------------------------------------------
Init ==
  /\ phase = "idle"
  /\ borders \in [0 .. MaxIntervals -> Word]
  /\ loads \in [Index -> Word]
  /\ counts = [i \in Index |-> 0]
  /\ taken = 0
  /\ next = 1
  /\ out = Silent

Begin ==
  /\ phase = "idle"
  /\ phase' = "collecting"
  /\ counts' = [i \in Index |-> 0]
  /\ taken' = 0
  /\ UNCHANGED <<borders, loads, next, out>>

\* The counts arrive one after the other, those of all intervals for a load
\* balancer and a PIFO together.
Collect(w) ==
  /\ phase = "collecting"
  /\ taken < Groups * Intervals
  /\ counts' = [counts EXCEPT ![taken % Intervals] = (@ + w) % Modulus]
  /\ taken' = taken + 1
  /\ UNCHANGED <<phase, borders, loads, next, out>>

Adjust ==
  LET b == Aged(loads, counts)
  IN  /\ phase = "collecting"
      /\ taken = Groups * Intervals
      /\ borders' = NewBorders(borders, b)
      /\ loads' = NewLoads(b)
      /\ phase' = "streaming"
      /\ next' = 1
      /\ UNCHANGED <<counts, taken, out>>

Stream ==
  /\ phase = "streaming"
  /\ next <= MaxIntervals
  /\ out' = borders[next]
  /\ next' = next + 1
  /\ UNCHANGED <<phase, borders, loads, counts, taken>>

Finish ==
  /\ phase = "streaming"
  /\ next > MaxIntervals
  /\ out' = Silent
  /\ next' = 1
  /\ phase' = "idle"
  /\ UNCHANGED <<borders, loads, counts, taken>>

Next == Begin \/ (\E w \in Words : Collect(w)) \/ Adjust \/ Stream \/ Finish

Spec == Init /\ [][Next]_vars
=============================================================================
