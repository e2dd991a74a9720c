---------------------- MODULE TopBorderAdjuster_proofs ----------------------
(***************************************************************************)
(* Proofs about the border adjuster under its start generator: that a      *)
(* start pulse is never lost, that every round computes one adjustment of  *)
(* BorderAdjustment, that it keeps the load and the order of the borders,  *)
(* for any number of intervals, PIFOs and load balancers and any widths.   *)
(*                                                                         *)
(* The argument is an invariant per state of the machine (RoundInv): what  *)
(* the shared index registers and the arrays hold in the middle of a round *)
(* is given by the operators of BorderAdjustment, applied to the borders   *)
(* and loads the round began with and to the counts it collected.          *)
(***************************************************************************)
EXTENDS TopBorderAdjuster, Totals_proofs

Index == 0 .. num_intervals - 1

\* What the round makes of its loads and borders.
Load    == Adjustment!Aged(oldLoads, curr)
Tilted  == Adjustment!Skewed(Load)
E       == Adjustment!MergeEnd(Load)
Merged  == Adjustment!MergedLoads(Load, E)
MergedB == Adjustment!MergedBorders(oldBorders, E)
M       == Adjustment!Heaviest(Merged)
Halved  == Adjustment!SplitLoads(Merged, M)
HalvedB == Adjustment!SplitBorders(MergedB, M)

-----------------------------------------------------------------------------
(***************************************************************************)
(* The invariant                                                           *)
(***************************************************************************)
Types ==
  /\ borders \in [0 .. MaxIntervals -> Word] /\ oldBorders \in [0 .. MaxIntervals -> Word]
  /\ bcnt \in [0 .. MaxIntervals - 1 -> Word] /\ oldLoads \in [0 .. MaxIntervals - 1 -> Word]
  /\ curr \in [0 .. MaxIntervals - 1 -> Word]
  /\ border_out_valid \in BOOLEAN
  /\ border_out_valid => state = "STREAM_OUT"

AllCounted == lb_idx = NumLB /\ pf_idx = 0

AtAccum ==
  /\ iv_idx \in Index /\ pf_idx \in 0 .. NumPifo - 1 /\ lb_idx \in 0 .. NumLB - 1
  /\ borders = oldBorders /\ bcnt = oldLoads

AtDecayInit == AllCounted /\ borders = oldBorders /\ bcnt = oldLoads

\* The intervals before iv_idx are aged.
AtDecayUpdate ==
  /\ AllCounted /\ borders = oldBorders
  /\ iv_idx \in 0 .. num_intervals
  /\ \A i \in Index : bcnt[i] = IF i < iv_idx THEN Load[i] ELSE oldLoads[i]

AtStatsInit == AllCounted /\ borders = oldBorders /\ \A i \in Index : bcnt[i] = Load[i]

\* The sum, the greatest and the first least load of the intervals before iv_idx;
\* min_val begins at the greatest word.
AtStats ==
  /\ AtStatsInit
  /\ iv_idx \in 0 .. num_intervals
  /\ total_sum = Total(Load, 0 .. iv_idx - 1) % Modulus
  /\ max_val \in Word /\ \A i \in 0 .. iv_idx - 1 : Load[i] <= max_val
  /\ max_val = 0 \/ \E i \in 0 .. iv_idx - 1 : Load[i] = max_val
  /\ min_val \in Word /\ \A i \in 0 .. iv_idx - 1 : min_val <= Load[i]
  /\ \/ min_val = Modulus - 1 /\ min_idx = 0
     \/ /\ min_idx \in 0 .. iv_idx - 1 /\ Load[min_idx] = min_val
        /\ \A i \in 0 .. min_idx - 1 : min_val < Load[i]

Summed == AllCounted /\ total_sum = Total(Load, Index) % Modulus

FirstLeast(b, i) == i \in Index /\ \A j \in Index : b[i] < b[j] \/ (b[i] = b[j] /\ i <= j)

AtCheck ==
  /\ AtStatsInit /\ Summed
  /\ FirstLeast(Load, min_idx) /\ min_val = Load[min_idx]
  /\ max_val = Adjustment!Greatest(Load)

AtMergePrep ==
  /\ AtStatsInit /\ Summed /\ Tilted
  /\ FirstLeast(Load, min_idx)
  /\ act_num_intervals = num_intervals

MergeKnown == Summed /\ Tilted /\ E \in 1 .. num_intervals - 1

Above == \A i \in num_intervals + 1 .. MaxIntervals : borders[i] = oldBorders[i]

BordersMerged == Above /\ \A i \in 0 .. num_intervals - 1 : borders[i] = MergedB[i]

LoadsMerged == \A i \in 0 .. num_intervals - 2 : bcnt[i] = Merged[i]

\* The borders before shift_idx have moved down.
AtMergeShiftB ==
  /\ MergeKnown /\ merge_end = E /\ act_num_intervals = num_intervals
  /\ shift_idx \in E .. num_intervals
  /\ \A i \in 0 .. MaxIntervals :
       borders[i] = IF E <= i /\ i < shift_idx THEN oldBorders[i + 1] ELSE oldBorders[i]
  /\ \A i \in Index : bcnt[i] = IF i = E - 1 THEN Merged[i] ELSE Load[i]

\* The loads before shift_idx have moved down.
AtMergeShiftC ==
  /\ MergeKnown /\ act_num_intervals = num_intervals
  /\ shift_idx \in E .. num_intervals - 1
  /\ BordersMerged
  /\ \A i \in Index : bcnt[i] = IF i < shift_idx THEN Merged[i] ELSE Load[i]

LastGreatest(b, n, i) ==
  i \in 0 .. n - 1 /\ \A j \in 0 .. n - 1 : b[j] < b[i] \/ (b[j] = b[i] /\ j <= i)

\* The last greatest load of the merged intervals before iv_idx.
AtSplitFindMax ==
  /\ MergeKnown /\ act_num_intervals = num_intervals - 1
  /\ BordersMerged /\ LoadsMerged
  /\ iv_idx \in 0 .. num_intervals - 1
  /\ IF iv_idx = 0 THEN max_val = 0
                   ELSE LastGreatest(Merged, iv_idx, max2_idx) /\ max_val = Merged[max2_idx]

SplitKnown ==
  /\ MergeKnown /\ act_num_intervals = num_intervals - 1
  /\ max2_idx = M /\ M \in 0 .. num_intervals - 2
  /\ split_left = Halved[M] /\ split_right = Halved[M + 1]
  /\ Above

\* The borders after shift_idx have moved up.
AtSplitShiftB ==
  /\ SplitKnown /\ LoadsMerged
  /\ mid_bdr = HalvedB[M + 1]
  /\ shift_idx \in M + 1 .. num_intervals
  /\ \A i \in 0 .. num_intervals :
       /\ i <= shift_idx /\ i < num_intervals => borders[i] = MergedB[i]
       /\ i > shift_idx => borders[i] = HalvedB[i]

\* The loads after shift_idx have moved up.
AtSplitShiftC ==
  /\ SplitKnown
  /\ \A i \in 0 .. num_intervals : borders[i] = HalvedB[i]
  /\ shift_idx \in M + 1 .. num_intervals - 1
  /\ \A i \in Index :
       /\ i <= shift_idx /\ i < num_intervals - 1 => bcnt[i] = Merged[i]
       /\ i > shift_idx => bcnt[i] = Halved[i]

RoundInv ==
  /\ Types
  /\ state = "ACCUM" => AtAccum
  /\ state = "DECAY_INIT" => AtDecayInit
  /\ state = "DECAY_UPDATE" => AtDecayUpdate
  /\ state = "STATS_INIT" => AtStatsInit
  /\ state = "STATS" => AtStats
  /\ state = "CHECK" => AtCheck
  /\ state = "MERGE_PREP" => AtMergePrep
  /\ state = "MERGE_SHIFTB" => AtMergeShiftB
  /\ state = "MERGE_SHIFTC" => AtMergeShiftC
  /\ state = "SPLIT_FINDMAX" => AtSplitFindMax
  /\ state = "SPLIT_SHIFTB" => AtSplitShiftB
  /\ state = "SPLIT_SHIFTC" => AtSplitShiftC
  /\ state = "STREAM_OUT" => out_idx \in 1 .. MaxIntervals + 1
  /\ LoadConserved
  /\ AscendingKept

-----------------------------------------------------------------------------
(***************************************************************************)
(* Types                                                                   *)
(***************************************************************************)
\* There are at least two intervals, and room for them.
LEMMA Intervals ==
  /\ num_intervals \in Nat /\ 2 <= num_intervals /\ num_intervals <= MaxIntervals
  /\ MaxIntervals \in Nat
  /\ Index \subseteq 0 .. MaxIntervals - 1 /\ Index \subseteq Nat
  /\ Adjustment!Index = Index /\ Adjustment!Word = Word
<1>1. /\ num_intervals \in Nat /\ 2 <= num_intervals /\ num_intervals <= MaxIntervals
      /\ MaxIntervals \in Nat
  BY AdjusterAssumption DEF num_intervals, Clip
<1>2. Index \subseteq 0 .. MaxIntervals - 1 /\ Index \subseteq Nat
  BY <1>1 DEF Index
<1>3. Adjustment!Index = Index /\ Adjustment!Word = Word
  BY DEF Index, Word, Adjustment!Index, Adjustment!Word
<1>4. QED  BY <1>1, <1>2, <1>3

\* What a register takes of a number.
LEMMA Cut ==
  ASSUME NEW e \in Nat
  PROVE  e % Modulus \in Word
BY DivMod, AdjusterAssumption DEF Word

\* Words are numbers.
LEMMA Numbers ==
  /\ Modulus \in Nat \ {0, 1} /\ Word \subseteq Nat /\ 0 \in Word /\ Modulus - 1 \in Word
  /\ \A x \in Word : x < Modulus /\ x <= Modulus - 1 /\ x \div 2 \in Word /\ x \div 2 <= x
BY AdjusterAssumption DEF Word

LEMMA WordsAreNumbers == \A x, y \in Word : x \in Nat /\ x + y \in Nat
BY AdjusterAssumption DEF Word

\* The aged loads are words.
LEMMA LoadType ==
  ASSUME Types
  PROVE  /\ Load \in [Index -> Word]
         /\ \A i \in Index : Load[i] = ((oldLoads[i] \div 2) + curr[i]) % Modulus
<1>1. ASSUME NEW i \in Index PROVE ((oldLoads[i] \div 2) + curr[i]) % Modulus \in Word
  <2>1. oldLoads[i] \in Word /\ curr[i] \in Word
    BY Intervals DEF Types
  <2>2. oldLoads[i] \div 2 \in Nat /\ curr[i] \in Nat
    BY <2>1, Numbers
  <2>3. QED  BY <2>2, Cut
<1>2. Load = [i \in Index |-> ((oldLoads[i] \div 2) + curr[i]) % Modulus]
  BY Intervals DEF Load, Adjustment!Aged
<1>3. QED  BY <1>1, <1>2

\* As long as the history and the counts stay, so does what the round makes of them.
LEMMA RoundFixed ==
  ASSUME UNCHANGED <<curr, oldBorders, oldLoads>>
  PROVE  /\ Load' = Load /\ Tilted' = Tilted /\ E' = E /\ Merged' = Merged
         /\ MergedB' = MergedB /\ M' = M /\ Halved' = Halved /\ HalvedB' = HalvedB
<1>1. Load' = Load
  BY DEF Load, Adjustment!Aged
<1>2. Tilted' = Tilted
  BY <1>1 DEF Tilted, Adjustment!Skewed, Adjustment!Greatest, Adjustment!Lightest
<1>3. E' = E
  BY <1>1 DEF E, Adjustment!MergeEnd, Adjustment!Lightest
<1>4. Merged' = Merged
  BY <1>1, <1>3 DEF Merged, Adjustment!MergedLoads
<1>5. MergedB' = MergedB
  BY <1>3 DEF MergedB, Adjustment!MergedBorders
<1>6. M' = M
  BY <1>4 DEF M, Adjustment!Heaviest
<1>7. Halved' = Halved
  BY <1>4, <1>6 DEF Halved, Adjustment!SplitLoads
<1>8. HalvedB' = HalvedB
  BY <1>5, <1>6 DEF HalvedB, Adjustment!SplitBorders
<1>9. QED  BY <1>1, <1>2, <1>3, <1>4, <1>5, <1>6, <1>7, <1>8

-----------------------------------------------------------------------------
(***************************************************************************)
(* The operators of BorderAdjustment                                       *)
(***************************************************************************)
\* The first least load is the only one of its kind.
LEMMA LightestIs ==
  ASSUME NEW b \in [Index -> Word], NEW i, FirstLeast(b, i)
  PROVE  Adjustment!Lightest(b) = i
<1>1. \A j \in Index : b[j] \in Nat /\ j \in Nat
  BY Intervals, Numbers
<1>2. ASSUME NEW j \in Index, \A k \in Index : b[j] < b[k] \/ (b[j] = b[k] /\ j <= k)
      PROVE  j = i
  BY <1>1, <1>2 DEF FirstLeast
<1>3. i \in Index /\ \A j \in Index : b[i] < b[j] \/ (b[i] = b[j] /\ i <= j)
  BY DEF FirstLeast
<1>4. QED  BY <1>2, <1>3, Intervals DEF Adjustment!Lightest

\* So is the greatest load.
LEMMA GreatestIs ==
  ASSUME NEW b \in [Index -> Word], NEW i \in Index, \A j \in Index : b[j] <= b[i]
  PROVE  Adjustment!Greatest(b) = b[i]
<1>1. \A j \in Index : b[j] \in Nat
  BY Numbers
<1>2. ASSUME NEW x \in {b[j] : j \in Index}, \A j \in Index : b[j] <= x
      PROVE  x = b[i]
  <2>1. PICK j \in Index : x = b[j]
    BY <1>2
  <2>2. b[i] <= b[j] /\ b[j] <= b[i] /\ b[i] \in Nat /\ b[j] \in Nat
    BY <1>1, <1>2, <2>1
  <2>3. QED  BY <2>1, <2>2
<1>3. b[i] \in {b[j] : j \in Index}
  OBVIOUS
<1>4. QED  BY <1>2, <1>3, Intervals DEF Adjustment!Greatest

\* And the last greatest of the merged loads.
LEMMA HeaviestIs ==
  ASSUME NEW b \in [0 .. num_intervals - 2 -> Word], NEW i,
         LastGreatest(b, num_intervals - 1, i)
  PROVE  Adjustment!Heaviest(b) = i /\ i \in 0 .. num_intervals - 2
<1> DEFINE D == 0 .. num_intervals - 2
<1>1. (num_intervals - 1) - 1 = num_intervals - 2 /\ DOMAIN b = D
  BY Intervals
<1>2. \A j \in D : b[j] \in Nat /\ j \in Nat
  <2>1. \A j \in D : b[j] \in Word /\ j \in Nat
    OBVIOUS
  <2>2. QED  BY <2>1, WordsAreNumbers
<1>3. i \in D /\ \A j \in D : b[j] < b[i] \/ (b[j] = b[i] /\ j <= i)
  BY <1>1 DEF LastGreatest
<1> HIDE DEF D
<1>4. ASSUME NEW j \in D, \A k \in D : b[k] < b[j] \/ (b[k] = b[j] /\ k <= j)
      PROVE  j = i
  BY <1>2, <1>3, <1>4
<1>5. Adjustment!Heaviest(b) = CHOOSE j \in D : \A k \in D : b[k] < b[j] \/ (b[k] = b[j] /\ k <= j)
  BY <1>1 DEF Adjustment!Heaviest
<1>6. QED  BY <1>3, <1>4, <1>5 DEF D

\* The intervals to merge are neighbours.
LEMMA MergeEndIs ==
  ASSUME NEW b \in [Index -> Word], NEW i, FirstLeast(b, i)
  PROVE  /\ Adjustment!MergeEnd(b) =
              IF i > 0 /\ (i + 1 < num_intervals => b[i - 1] <= b[i + 1]) THEN i ELSE i + 1
         /\ Adjustment!MergeEnd(b) \in 1 .. num_intervals - 1
<1>1. Adjustment!Lightest(b) = i /\ i \in Index
  BY LightestIs DEF FirstLeast
<1>2. Adjustment!MergeEnd(b) =
        IF i > 0 /\ (i + 1 < num_intervals => b[i - 1] <= b[i + 1]) THEN i ELSE i + 1
  BY <1>1 DEF Adjustment!MergeEnd
<1>3. i \in 0 .. num_intervals - 1 /\ num_intervals \in Nat /\ 2 <= num_intervals
  BY <1>1, Intervals DEF Index
<1>4. i = num_intervals - 1 => i > 0 /\ ~(i + 1 < num_intervals)
  BY <1>3
<1>5. QED  BY <1>2, <1>3, <1>4

\* Merging and splitting make words of words.
LEMMA MergedIs ==
  ASSUME Types, E \in 1 .. num_intervals - 1
  PROVE  /\ Merged \in [0 .. num_intervals - 2 -> Word]
         /\ \A i \in 0 .. num_intervals - 2 :
              Merged[i] = IF i < E - 1 THEN Load[i]
                          ELSE IF i = E - 1 THEN (Load[i] + Load[E]) % Modulus ELSE Load[i + 1]
         /\ MergedB \in [0 .. num_intervals - 1 -> Word]
         /\ \A i \in 0 .. num_intervals - 1 :
              MergedB[i] = IF i < E THEN oldBorders[i] ELSE oldBorders[i + 1]
<1>1. Merged = [i \in 0 .. num_intervals - 2 |->
                 IF i < E - 1 THEN Load[i]
                 ELSE IF i = E - 1 THEN (Load[i] + Load[E]) % Modulus ELSE Load[i + 1]]
  BY DEF Merged, Adjustment!MergedLoads
<1>2. MergedB = [i \in 0 .. num_intervals - 1 |->
                  IF i < E THEN oldBorders[i] ELSE oldBorders[i + 1]]
  BY DEF MergedB, Adjustment!MergedBorders
<1>3. ASSUME NEW i \in 0 .. num_intervals - 2
      PROVE  /\ Load[i] \in Word /\ Load[i + 1] \in Word
             /\ (Load[i] + Load[E]) % Modulus \in Word
  <2>1. i \in Index /\ i + 1 \in Index /\ E \in Index
    BY Intervals DEF Index
  <2>2. Load[i] \in Word /\ Load[i + 1] \in Word /\ Load[E] \in Word
    BY <2>1, LoadType
  <2>3. Load[i] + Load[E] \in Nat
    BY <2>2, WordsAreNumbers
  <2>4. QED  BY <2>2, <2>3, Cut
<1>4. ASSUME NEW i \in 0 .. num_intervals - 1
      PROVE  oldBorders[i] \in Word /\ oldBorders[i + 1] \in Word
  <2>1. i \in 0 .. MaxIntervals /\ i + 1 \in 0 .. MaxIntervals
    BY Intervals
  <2>2. QED  BY <2>1 DEF Types
<1>5. QED  BY <1>1, <1>2, <1>3, <1>4

LEMMA HalvedIs ==
  ASSUME Types, E \in 1 .. num_intervals - 1, M \in 0 .. num_intervals - 2
  PROVE  /\ Halved \in [Index -> Word]
         /\ \A i \in Index :
              Halved[i] = IF i < M THEN Merged[i]
                          ELSE IF i = M THEN Merged[M] \div 2
                          ELSE IF i = M + 1 THEN Merged[M] - (Merged[M] \div 2)
                          ELSE Merged[i - 1]
         /\ HalvedB \in [0 .. num_intervals -> Word]
         /\ \A i \in 0 .. num_intervals :
              HalvedB[i] = IF i <= M THEN MergedB[i]
                           ELSE IF i = M + 1
                                  THEN ((MergedB[M] + MergedB[M + 1]) % Modulus) \div 2
                                  ELSE MergedB[i - 1]
<1>1. Halved = [i \in Index |->
                 IF i < M THEN Merged[i]
                 ELSE IF i = M THEN Merged[M] \div 2
                 ELSE IF i = M + 1 THEN Merged[M] - (Merged[M] \div 2)
                 ELSE Merged[i - 1]]
  BY Intervals DEF Halved, Adjustment!SplitLoads
<1>2. HalvedB = [i \in 0 .. num_intervals |->
                  IF i <= M THEN MergedB[i]
                  ELSE IF i = M + 1
                         THEN ((MergedB[M] + MergedB[M + 1]) % Modulus) \div 2
                         ELSE MergedB[i - 1]]
  BY DEF HalvedB, Adjustment!SplitBorders
<1>3. /\ Merged \in [0 .. num_intervals - 2 -> Word]
      /\ MergedB \in [0 .. num_intervals - 1 -> Word]
  BY MergedIs
<1>4. Merged[M] \in Word /\ Merged[M] \div 2 \in Word /\ Merged[M] - (Merged[M] \div 2) \in Word
  <2>1. Merged[M] \in Word
    BY <1>3
  <2>2. \A x \in Word : x \div 2 \in Word /\ x - (x \div 2) \in Word
    BY AdjusterAssumption DEF Word
  <2>3. QED  BY <2>1, <2>2
<1>5. ASSUME NEW i \in Index
      PROVE  /\ i < M => Merged[i] \in Word
             /\ i > M + 1 => Merged[i - 1] \in Word
  <2>1. /\ i < M => i \in 0 .. num_intervals - 2
        /\ i > M + 1 => i - 1 \in 0 .. num_intervals - 2
    BY Intervals DEF Index
  <2>2. QED  BY <1>3, <2>1
<1>6. ((MergedB[M] + MergedB[M + 1]) % Modulus) \div 2 \in Word
  <2>1. M \in 0 .. num_intervals - 1 /\ M + 1 \in 0 .. num_intervals - 1
    BY Intervals
  <2>2. MergedB[M] \in Word /\ MergedB[M + 1] \in Word
    BY <1>3, <2>1
  <2>3. MergedB[M] + MergedB[M + 1] \in Nat
    BY <2>2, WordsAreNumbers
  <2>4. QED  BY <2>3, Cut, Numbers
<1>7. ASSUME NEW i \in 0 .. num_intervals
      PROVE  /\ i <= M => MergedB[i] \in Word
             /\ i > M + 1 => MergedB[i - 1] \in Word
  <2>1. /\ i <= M => i \in 0 .. num_intervals - 1
        /\ i > M + 1 => i - 1 \in 0 .. num_intervals - 1
    BY Intervals
  <2>2. QED  BY <1>3, <2>1
<1>8. M \in Int /\ \A i \in Index : i \in Int
  BY Intervals
<1>9. Halved \in [Index -> Word]
  <2>1. ASSUME NEW i \in Index
        PROVE  (IF i < M THEN Merged[i]
                ELSE IF i = M THEN Merged[M] \div 2
                ELSE IF i = M + 1 THEN Merged[M] - (Merged[M] \div 2)
                ELSE Merged[i - 1]) \in Word
    BY <1>4, <1>5, <1>8
  <2>2. QED  BY <1>1, <2>1
<1>10. HalvedB \in [0 .. num_intervals -> Word]
  <2>1. ASSUME NEW i \in 0 .. num_intervals
        PROVE  (IF i <= M THEN MergedB[i]
                ELSE IF i = M + 1
                       THEN ((MergedB[M] + MergedB[M + 1]) % Modulus) \div 2
                       ELSE MergedB[i - 1]) \in Word
    BY <1>6, <1>7, <1>8
  <2>2. QED  BY <1>2, <2>1
<1>11. QED  BY <1>1, <1>2, <1>9, <1>10

-----------------------------------------------------------------------------
(***************************************************************************)
(* A round begins, collects and ages                                       *)
(***************************************************************************)
LEMMA InitOK == Init => RoundInv
<1> SUFFICES ASSUME Init PROVE RoundInv
  OBVIOUS
<1>1. ASSUME NEW i \in Nat PROVE InitBorder(i) \in Word /\ InitCount(i) \in Word
  <2>1. InitBorder(i) \in Word
    <3>1. 100 * i \in Nat
      OBVIOUS
    <3>2. (100 * i) % Modulus \in Word
      BY <3>1, Cut
    <3>3. QED  BY <3>2, Numbers DEF InitBorder
  <2>2. CASE i < 8
    <3>1. <<30, 0, 10, 20, 1130, 20, 20, 20>>[i + 1] \in Nat
      BY <2>2
    <3>2. <<30, 0, 10, 20, 1130, 20, 20, 20>>[i + 1] % Modulus \in Word
      BY <3>1, Cut
    <3>3. QED  BY <2>1, <2>2, <3>2 DEF InitCount
  <2>3. CASE ~(i < 8)
    BY <2>1, <2>3, Numbers DEF InitCount
  <2>4. QED  BY <2>2, <2>3
<1>2. bcnt \in [0 .. MaxIntervals - 1 -> Word] /\ curr \in [0 .. MaxIntervals - 1 -> Word]
  <2>1. \A i \in 0 .. MaxIntervals - 1 : InitCount(i) \in Word
    BY <1>1, Intervals
  <2>2. QED  BY <2>1, Numbers DEF Init
<1>3. borders \in [0 .. MaxIntervals -> Word]
  <2>1. PICK u \in Unreset :
          borders = [i \in 0 .. MaxIntervals |-> IF i = MaxIntervals THEN u ELSE InitBorder(i)]
    BY DEF Init
  <2>2. u \in Word
    BY AdjusterAssumption
  <2>3. \A i \in 0 .. MaxIntervals : InitBorder(i) \in Word
    BY <1>1, Intervals
  <2>4. QED  BY <2>1, <2>2, <2>3
<1>4. Types
  BY <1>2, <1>3 DEF Init, Types
<1>5. state = "WAIT_START"
  BY DEF Init
<1>6. QED  BY <1>4, <1>5 DEF RoundInv, LoadConserved, AscendingKept

LEMMA WaitStartOK ==
  ASSUME RoundInv, NEW start \in BOOLEAN, WaitStart(start)
  PROVE  RoundInv'
<1>1. /\ state = "WAIT_START" /\ state' \in {"WAIT_START", "CLR_CURR"}
      /\ UNCHANGED <<borders, bcnt, border_out_valid, curr, oldBorders, oldLoads>>
  BY DEF WaitStart, Edge, counting, history
<1>2. Types'
  BY <1>1 DEF RoundInv, Types
<1>3. QED  BY <1>1, <1>2 DEF RoundInv, LoadConserved, AscendingKept

LEMMA ClearCurrOK ==
  ASSUME RoundInv, ClearCurr
  PROVE  RoundInv'
<1>1. /\ state = "CLR_CURR" /\ state' = "ACCUM"
      /\ UNCHANGED <<borders, bcnt, border_out_valid>>
      /\ oldBorders' = borders /\ oldLoads' = bcnt
      /\ curr' = [i \in 0 .. MaxIntervals - 1 |-> 0]
      /\ iv_idx' = 0 /\ pf_idx' = 0 /\ lb_idx' = 0
  BY DEF ClearCurr, Edge
<1>2. Types'
  BY <1>1, Numbers DEF RoundInv, Types
<1>3. AtAccum'
  <2>1. 0 \in Index /\ 0 \in 0 .. NumPifo - 1 /\ 0 \in 0 .. NumLB - 1
    BY Intervals, AdjusterAssumption DEF Index
  <2>2. QED  BY <1>1, <2>1 DEF AtAccum
<1>4. QED  BY <1>1, <1>2, <1>3 DEF RoundInv, LoadConserved, AscendingKept

\* The three indices that count the words.
LEMMA AccumIndices ==
  ASSUME AtAccum, NEW w, Accum(w)
  PROVE  IF LastWordNow
           THEN state' = "DECAY_INIT" /\ iv_idx' = 0 /\ AllCounted'
           ELSE /\ state' = "ACCUM"
                /\ iv_idx' \in Index /\ pf_idx' \in 0 .. NumPifo - 1
                /\ lb_idx' \in 0 .. NumLB - 1
<1>1. /\ iv_idx \in 0 .. num_intervals - 1 /\ pf_idx \in 0 .. NumPifo - 1
      /\ lb_idx \in 0 .. NumLB - 1
      /\ num_intervals \in Nat \ {0} /\ NumPifo \in Nat \ {0} /\ NumLB \in Nat \ {0}
  BY Intervals, AdjusterAssumption DEF AtAccum, Index
<1>2. /\ state' = IF LastWordNow THEN "DECAY_INIT" ELSE "ACCUM"
      /\ iv_idx' = IF iv_idx + 1 >= num_intervals THEN 0 ELSE iv_idx + 1
      /\ pf_idx' = IF ~(iv_idx + 1 >= num_intervals) THEN pf_idx
                   ELSE IF pf_idx + 1 >= NumPifo THEN 0 ELSE pf_idx + 1
      /\ lb_idx' = IF iv_idx + 1 >= num_intervals /\ pf_idx + 1 >= NumPifo
                     THEN IF lb_idx + 1 < NumLB THEN lb_idx + 1 ELSE NumLB
                     ELSE lb_idx
  BY Zenon DEF Accum, Edge
<1>3. CASE LastWordNow
  <2>1. iv_idx + 1 >= num_intervals /\ pf_idx + 1 >= NumPifo /\ ~(lb_idx + 1 < NumLB)
    BY <1>1, <1>3 DEF LastWordNow
  <2>2. QED  BY <1>2, <1>3, <2>1 DEF AllCounted
<1>4. CASE ~LastWordNow
  <2>1. ~(iv_idx = num_intervals - 1 /\ pf_idx = NumPifo - 1 /\ lb_idx = NumLB - 1)
    BY <1>4 DEF LastWordNow
  <2>2. iv_idx' \in Index
    BY <1>1, <1>2 DEF Index
  <2>3. pf_idx' \in 0 .. NumPifo - 1
    BY <1>1, <1>2
  <2>4. lb_idx' \in 0 .. NumLB - 1
    BY <1>1, <1>2, <2>1
  <2>5. QED  BY <1>2, <1>4, <2>2, <2>3, <2>4
<1>5. QED  BY <1>3, <1>4

LEMMA AccumOK ==
  ASSUME RoundInv, NEW w \in Words, Accum(w)
  PROVE  RoundInv'
<1>1. /\ state = "ACCUM"
      /\ UNCHANGED <<borders, bcnt, border_out_valid, oldBorders, oldLoads>>
      /\ curr' = [curr EXCEPT ![iv_idx] = (@ + w) % Modulus]
  BY DEF Accum, Edge, outputs, history
<1>2. AtAccum /\ Types
  BY <1>1 DEF RoundInv
<1>3. state' \in {"ACCUM", "DECAY_INIT"}
  BY <1>2, AccumIndices
<1>4. (curr[iv_idx] + w) % Modulus \in Word
  <2>1. w \in Word
    BY AdjusterAssumption
  <2>2. curr[iv_idx] \in Word
    BY <1>2, Intervals DEF AtAccum, Types
  <2>3. QED  BY <2>1, <2>2, WordsAreNumbers, Cut
<1>5. Types'
  BY <1>1, <1>2, <1>3, <1>4 DEF Types
<1>6. CASE LastWordNow
  <2>1. state' = "DECAY_INIT" /\ AtDecayInit'
    BY <1>1, <1>2, <1>6, AccumIndices DEF AtDecayInit, AtAccum
  <2>2. QED  BY <1>5, <2>1 DEF RoundInv, LoadConserved, AscendingKept
<1>7. CASE ~LastWordNow
  <2>1. state' = "ACCUM" /\ AtAccum'
    BY <1>1, <1>2, <1>7, AccumIndices DEF AtAccum
  <2>2. QED  BY <1>5, <2>1 DEF RoundInv, LoadConserved, AscendingKept
<1>8. QED  BY <1>6, <1>7

LEMMA DecayInitOK ==
  ASSUME RoundInv, DecayInit
  PROVE  RoundInv'
<1>1. /\ state = "DECAY_INIT" /\ state' = "DECAY_UPDATE" /\ iv_idx' = 0
      /\ UNCHANGED <<borders, bcnt, border_out_valid, curr, lb_idx, pf_idx, oldBorders, oldLoads>>
  BY DEF DecayInit, Edge, counting, outputs, history
<1>2. AtDecayInit /\ Types
  BY <1>1 DEF RoundInv
<1>3. Types'
  BY <1>1, <1>2 DEF Types
<1>4. AtDecayUpdate'
  <2>1. 0 \in 0 .. num_intervals /\ \A i \in Index : ~(i < 0)
    BY Intervals DEF Index
  <2>2. AllCounted' /\ borders' = oldBorders' /\ bcnt' = oldLoads'
    BY <1>1, <1>2 DEF AtDecayInit, AllCounted
  <2>3. QED  BY <1>1, <2>1, <2>2 DEF AtDecayUpdate
<1>5. QED  BY <1>1, <1>3, <1>4 DEF RoundInv, LoadConserved, AscendingKept

LEMMA DecayUpdateOK ==
  ASSUME RoundInv, DecayUpdate
  PROVE  RoundInv'
<1>1. /\ state = "DECAY_UPDATE"
      /\ UNCHANGED <<borders, border_out_valid, curr, lb_idx, pf_idx, oldBorders, oldLoads>>
      /\ state' = IF iv_idx = num_intervals THEN "STATS_INIT" ELSE "DECAY_UPDATE"
  BY DEF DecayUpdate, Edge, counting, outputs, history
<1>2. AtDecayUpdate /\ Types
  BY <1>1 DEF RoundInv
<1>3. iv_idx \in 0 .. num_intervals /\ num_intervals \in Nat
  BY <1>2, Intervals DEF AtDecayUpdate
<1>4. Load' = Load
  BY <1>1, RoundFixed
<1>5. AllCounted' /\ borders' = oldBorders'
  BY <1>1, <1>2 DEF AtDecayUpdate, AllCounted
<1>6. CASE iv_idx < num_intervals
  <2>1. /\ iv_idx \in Index /\ iv_idx + 1 \in 0 .. num_intervals /\ iv_idx # num_intervals
        /\ \A i \in Index : i < iv_idx + 1 <=> (i < iv_idx \/ i = iv_idx)
    BY <1>3, <1>6, Intervals DEF Index
  <2>2. /\ bcnt' = [bcnt EXCEPT ![iv_idx] = ((@ \div 2) + curr[iv_idx]) % Modulus]
        /\ iv_idx' = iv_idx + 1 /\ state' = "DECAY_UPDATE"
    BY <1>1, <1>6, <2>1 DEF DecayUpdate
  <2>3. bcnt[iv_idx] = oldLoads[iv_idx]
    BY <1>2, <1>3, <2>1 DEF AtDecayUpdate
  <2>4. ((bcnt[iv_idx] \div 2) + curr[iv_idx]) % Modulus = Load[iv_idx] /\ Load[iv_idx] \in Word
    BY <1>2, <2>1, <2>3, LoadType
  <2>5. bcnt \in [0 .. MaxIntervals - 1 -> Word] /\ Index \subseteq 0 .. MaxIntervals - 1
    BY <1>2, Intervals DEF Types
  <2>6. bcnt' = [bcnt EXCEPT ![iv_idx] = Load[iv_idx]]
    BY <2>2, <2>4
  <2>7. bcnt' \in [0 .. MaxIntervals - 1 -> Word]
    BY <2>4, <2>5, <2>6
  <2>8. ASSUME NEW i \in Index
        PROVE  bcnt'[i] = IF i < iv_idx + 1 THEN Load[i] ELSE oldLoads[i]
    <3>1. bcnt[i] = IF i < iv_idx THEN Load[i] ELSE oldLoads[i]
      BY <1>2 DEF AtDecayUpdate
    <3>2. bcnt'[i] = IF i = iv_idx THEN Load[i] ELSE bcnt[i]
      BY <2>1, <2>5, <2>6
    <3>3. QED  BY <2>1, <3>1, <3>2
  <2>9. AtDecayUpdate'
    BY <1>1, <1>4, <1>5, <2>1, <2>2, <2>8 DEF AtDecayUpdate
  <2>10. Types'
    BY <1>1, <1>2, <2>2, <2>7 DEF Types
  <2>11. QED  BY <2>2, <2>9, <2>10 DEF RoundInv, LoadConserved, AscendingKept
<1>7. CASE ~(iv_idx < num_intervals)
  <2>1. iv_idx = num_intervals
    BY <1>3, <1>7
  <2>2. bcnt' = bcnt /\ state' = "STATS_INIT"
    BY <1>1, <1>7, <2>1 DEF DecayUpdate
  <2>3. \A i \in Index : i < iv_idx
    BY <2>1, Intervals DEF Index
  <2>4. \A i \in Index : bcnt'[i] = Load'[i]
    BY <1>2, <1>4, <2>2, <2>3 DEF AtDecayUpdate
  <2>5. AtStatsInit'
    BY <1>5, <2>4 DEF AtStatsInit
  <2>6. Types'
    BY <1>1, <1>2, <2>2 DEF Types
  <2>7. QED  BY <2>2, <2>5, <2>6 DEF RoundInv, LoadConserved, AscendingKept
<1>8. QED  BY <1>6, <1>7

-----------------------------------------------------------------------------
(***************************************************************************)
(* The statistics                                                          *)
(***************************************************************************)
\* What does not change while the loads are being looked at.
LEMMA StatsKept ==
  ASSUME Types, AtStatsInit,
         UNCHANGED <<borders, bcnt, border_out_valid, curr, lb_idx, pf_idx, oldBorders, oldLoads>>,
         border_out_valid => state = "STREAM_OUT", state # "STREAM_OUT"
  PROVE  Types' /\ AtStatsInit' /\ Load' = Load
<1>1. Load' = Load
  BY RoundFixed
<1>2. QED  BY <1>1 DEF Types, AtStatsInit, AllCounted

LEMMA StatsInitOK ==
  ASSUME RoundInv, StatsInit
  PROVE  RoundInv'
<1>1. /\ state = "STATS_INIT" /\ state' = "STATS"
      /\ UNCHANGED <<borders, bcnt, border_out_valid, curr, lb_idx, pf_idx, oldBorders, oldLoads>>
      /\ total_sum' = 0 /\ max_val' = 0 /\ min_val' = Modulus - 1 /\ min_idx' = 0 /\ iv_idx' = 0
  BY DEF StatsInit, Edge, counting, outputs, history
<1>2. AtStatsInit /\ Types
  BY <1>1 DEF RoundInv
<1>3. Types' /\ AtStatsInit' /\ Load' = Load
  BY <1>1, <1>2, StatsKept DEF Types
<1>4. 0 .. 0 - 1 = {} /\ 0 \in 0 .. num_intervals
  BY Intervals
<1>5. Total(Load, {}) % Modulus = 0
  <2>1. Total(Load, {}) = 0
    BY TotalEmpty
  <2>2. 0 % Modulus = 0
    BY Numbers, DivMod
  <2>3. QED  BY <2>1, <2>2
<1>6. AtStats'
  BY <1>1, <1>3, <1>4, <1>5, Numbers DEF AtStats
<1>7. QED  BY <1>1, <1>3, <1>6 DEF RoundInv, LoadConserved, AscendingKept

\* A sum may be cut before the next number is added.
LEMMA CutSum ==
  ASSUME NEW e \in Nat, NEW c \in Nat
  PROVE  ((e % Modulus) + c) % Modulus = (e + c) % Modulus
<1> DEFINE q  == e \div Modulus
           r  == e % Modulus
           q1 == (r + c) \div Modulus
           r1 == (r + c) % Modulus
           q2 == (e + c) \div Modulus
           r2 == (e + c) % Modulus
<1>1. Modulus \in Nat \ {0}
  BY Numbers
<1>2. q \in Nat /\ r \in Nat /\ e = Modulus * q + r
  BY <1>1, DivMod
<1>3. r + c \in Nat /\ e + c \in Nat
  BY <1>2
<1>4. /\ q1 \in Nat /\ r1 \in 0 .. Modulus - 1 /\ r + c = Modulus * q1 + r1
      /\ q2 \in Nat /\ r2 \in 0 .. Modulus - 1 /\ e + c = Modulus * q2 + r2
  <2> HIDE DEF r
  <2>1. QED  BY <1>1, <1>3, DivMod
<1> HIDE DEF q, r, q1, r1, q2, r2
<1>5. (q + q1 - q2) * Modulus = Modulus * q + Modulus * q1 - Modulus * q2
  BY <1>1, <1>2, <1>4
<1> DEFINE a == Modulus * q
           b == Modulus * q1
           d == Modulus * q2
           k == q + q1 - q2
<1>6. a \in Nat /\ b \in Nat /\ d \in Nat /\ k \in Int
  BY <1>1, <1>2, <1>4
<1> HIDE DEF a, b, d
<1>7. a + b - d = r2 - r1
  <2>1. e = a + r /\ r + c = b + r1 /\ e + c = d + r2
    BY <1>2, <1>4 DEF a, b, d
  <2>2. QED  BY <1>2, <1>4, <1>6, <2>1
<1>8. k * Modulus = r2 - r1
  BY <1>5, <1>7 DEF a, b, d
<1> HIDE DEF k
<1>9. r2 = r1
  BY <1>1, <1>4, <1>6, <1>8, SameRemainder
<1>10. QED  BY <1>9 DEF r1, r2, r

\* One more load enters the statistics.
LEMMA StatsStep ==
  ASSUME RoundInv, Stats, iv_idx < num_intervals
  PROVE  RoundInv'
<1>1. /\ state = "STATS"
      /\ UNCHANGED <<borders, bcnt, border_out_valid, curr, lb_idx, pf_idx, oldBorders, oldLoads>>
      /\ state' = IF iv_idx = num_intervals THEN "CHECK" ELSE "STATS"
      /\ total_sum' = (total_sum + bcnt[iv_idx]) % Modulus
      /\ max_val' = IF bcnt[iv_idx] > max_val THEN bcnt[iv_idx] ELSE max_val
      /\ min_val' = IF bcnt[iv_idx] < min_val THEN bcnt[iv_idx] ELSE min_val
      /\ min_idx' = IF bcnt[iv_idx] < min_val THEN iv_idx ELSE min_idx
      /\ iv_idx' = iv_idx + 1
  BY DEF Stats, Edge, counting, outputs, history
<1>2. AtStats /\ Types
  BY <1>1 DEF RoundInv
<1>3. Types' /\ AtStatsInit' /\ Load' = Load
  BY <1>1, <1>2, StatsKept DEF Types, AtStats
<1> DEFINE n == iv_idx
           x == Load[n]
<1>4. /\ n \in Nat /\ n \in Index /\ n + 1 \in 0 .. num_intervals /\ n # num_intervals
      /\ (n + 1) - 1 = n
      /\ \A i : i \in 0 .. n <=> (i \in 0 .. n - 1 \/ i = n)
  BY <1>2, Intervals DEF AtStats, Index
<1>5. bcnt[n] = x /\ x \in Word
  BY <1>2, <1>4, LoadType DEF AtStats, AtStatsInit
<1>6. state' = "STATS"
  BY <1>1, <1>4
<1>7. \A i \in 0 .. n : Load[i] \in Word /\ Load[i] \in Nat
  <2>1. \A i \in 0 .. n : i \in Index
    BY <1>4, Intervals DEF Index
  <2>2. QED  BY <1>2, <2>1, LoadType, WordsAreNumbers
<1>8. /\ min_val \in Word /\ max_val \in Word
      /\ min_val \in Nat /\ max_val \in Nat /\ x \in Nat /\ x <= Modulus - 1
      /\ min_val <= Modulus - 1
  <2>1. min_val \in Word /\ max_val \in Word
    BY <1>2 DEF AtStats
  <2>2. QED  BY <1>5, <2>1, Numbers, WordsAreNumbers
<1>9. total_sum' = Total(Load, 0 .. n) % Modulus
  <2>1. total_sum = Total(Load, 0 .. n - 1) % Modulus
    BY <1>2 DEF AtStats
  <2>2. /\ Total(Load, 0 .. n - 1) \in Nat
        /\ Total(Load, 0 .. n) = Total(Load, 0 .. n - 1) + x
    <3> HIDE DEF n
    <3>1. QED  BY <1>4, <1>7, PrefixTotal
  <2>3. total_sum' = ((Total(Load, 0 .. n - 1) % Modulus) + x) % Modulus
    BY <1>1, <1>5, <2>1
  <2>4. ((Total(Load, 0 .. n - 1) % Modulus) + x) % Modulus = (Total(Load, 0 .. n - 1) + x) % Modulus
    <3> HIDE DEF x, n
    <3>1. QED  BY <1>8, <2>2, CutSum
  <2>5. QED  BY <2>2, <2>3, <2>4
<1>10. /\ max_val' \in Word /\ \A i \in 0 .. n : Load[i] <= max_val'
       /\ max_val' = 0 \/ \E i \in 0 .. n : Load[i] = max_val'
  <2>1. /\ \A i \in 0 .. n - 1 : Load[i] <= max_val
        /\ max_val = 0 \/ \E i \in 0 .. n - 1 : Load[i] = max_val
    BY <1>2 DEF AtStats
  <2>2. max_val' = IF x > max_val THEN x ELSE max_val
    BY <1>1, <1>5
  <2>3. max_val' \in Word
    BY <1>5, <1>8, <2>2
  <2>4. ASSUME NEW i \in 0 .. n PROVE Load[i] <= max_val'
    <3>1. CASE i = n
      BY <1>8, <2>2, <3>1
    <3>2. CASE i # n
      <4>1. Load[i] <= max_val /\ Load[i] \in Nat
        BY <1>4, <1>7, <2>1, <3>2
      <4> HIDE DEF x
      <4>2. QED  BY <1>8, <2>2, <4>1
    <3>3. QED  BY <3>1, <3>2
  <2>5. max_val' = 0 \/ \E i \in 0 .. n : Load[i] = max_val'
    <3>1. n \in 0 .. n
      BY <1>4
    <3>2. QED  BY <1>4, <2>1, <2>2, <3>1
  <2>6. QED  BY <2>3, <2>4, <2>5
<1>11. min_val' \in Word /\ \A i \in 0 .. n : min_val' <= Load[i]
  <2>1. \A i \in 0 .. n - 1 : min_val <= Load[i]
    BY <1>2 DEF AtStats
  <2>2. min_val' = IF x < min_val THEN x ELSE min_val
    BY <1>1, <1>5
  <2>3. min_val' \in Word
    BY <1>5, <1>8, <2>2
  <2>4. ASSUME NEW i \in 0 .. n PROVE min_val' <= Load[i]
    <3>1. CASE i = n
      BY <1>8, <2>2, <3>1
    <3>2. CASE i # n
      <4>1. min_val <= Load[i] /\ Load[i] \in Nat
        BY <1>4, <1>7, <2>1, <3>2
      <4> HIDE DEF x
      <4>2. QED  BY <1>8, <2>2, <4>1
    <3>3. QED  BY <3>1, <3>2
  <2>5. QED  BY <2>3, <2>4
<1>12. \/ min_val' = Modulus - 1 /\ min_idx' = 0
       \/ /\ min_idx' \in 0 .. n /\ Load[min_idx'] = min_val'
          /\ \A i \in 0 .. min_idx' - 1 : min_val' < Load[i]
  <2>1. CASE x < min_val
    <3>1. min_val' = x /\ min_idx' = n
      BY <1>1, <1>5, <2>1
    <3>2. \A i \in 0 .. n - 1 : min_val <= Load[i] /\ Load[i] \in Nat
      BY <1>2, <1>4, <1>7 DEF AtStats
    <3>3. \A i \in 0 .. n - 1 : x < Load[i]
      <4> HIDE DEF x
      <4>1. QED  BY <1>8, <2>1, <3>2
    <3>4. n \in 0 .. n
      BY <1>4
    <3>5. QED  BY <3>1, <3>3, <3>4
  <2>2. CASE ~(x < min_val)
    <3>1. min_val' = min_val /\ min_idx' = min_idx
      BY <1>1, <1>5, <2>2
    <3>2. \/ min_val = Modulus - 1 /\ min_idx = 0
          \/ /\ min_idx \in 0 .. n - 1 /\ Load[min_idx] = min_val
             /\ \A i \in 0 .. min_idx - 1 : min_val < Load[i]
      BY <1>2 DEF AtStats
    <3>3. QED  BY <1>4, <3>1, <3>2
  <2>3. QED  BY <2>1, <2>2
<1>13. AtStats'
  <2> HIDE DEF x
  <2>1. iv_idx' - 1 = n /\ iv_idx' \in 0 .. num_intervals
    BY <1>1, <1>4
  <2> HIDE DEF n
  <2>2. QED  BY <1>3, <1>9, <1>10, <1>11, <1>12, <2>1 DEF AtStats
<1>14. QED  BY <1>3, <1>6, <1>13 DEF RoundInv, LoadConserved, AscendingKept

\* All loads have entered the statistics.
LEMMA StatsEnd ==
  ASSUME RoundInv, Stats, ~(iv_idx < num_intervals)
  PROVE  RoundInv'
<1>1. /\ state = "STATS"
      /\ UNCHANGED <<borders, bcnt, border_out_valid, curr, lb_idx, pf_idx, oldBorders, oldLoads>>
      /\ state' = IF iv_idx = num_intervals THEN "CHECK" ELSE "STATS"
      /\ UNCHANGED <<max_val, iv_idx, total_sum, min_val, min_idx>>
  BY DEF Stats, Edge, counting, outputs, history, statistics
<1>2. AtStats /\ Types
  BY <1>1 DEF RoundInv
<1>3. Types' /\ AtStatsInit' /\ Load' = Load
  BY <1>1, <1>2, StatsKept DEF Types, AtStats
<1>4. iv_idx = num_intervals /\ num_intervals \in Nat /\ 2 <= num_intervals
  BY <1>2, Intervals DEF AtStats
<1>5. state' = "CHECK"
  BY <1>1, <1>4
<1>6. Load \in [Index -> Word] /\ \A i \in Index : Load[i] \in Nat /\ i \in Nat
  BY <1>2, LoadType, WordsAreNumbers, Intervals
<1>7. /\ total_sum = Total(Load, Index) % Modulus
      /\ max_val \in Word /\ \A i \in Index : Load[i] <= max_val
      /\ max_val = 0 \/ \E i \in Index : Load[i] = max_val
      /\ min_val \in Word /\ \A i \in Index : min_val <= Load[i]
      /\ \/ min_val = Modulus - 1 /\ min_idx = 0
         \/ /\ min_idx \in Index /\ Load[min_idx] = min_val
            /\ \A i \in 0 .. min_idx - 1 : min_val < Load[i]
  BY <1>2, <1>4 DEF AtStats, Index
<1>8. 0 \in Index
  BY <1>4 DEF Index
<1>9. max_val = Adjustment!Greatest(Load)
  <2>1. PICK i \in Index : Load[i] = max_val
    <3>1. CASE max_val = 0
      <4>1. Load[0] <= 0 /\ Load[0] \in Nat
        BY <1>6, <1>7, <1>8, <3>1
      <4>2. Load[0] = max_val
        BY <3>1, <4>1
      <4>3. QED  BY <1>8, <4>2
    <3>2. QED  BY <1>7, <3>1
  <2>2. \A j \in Index : Load[j] <= Load[i]
    BY <1>7, <2>1
  <2>3. QED  BY <1>6, <2>1, <2>2, GreatestIs
<1>10. FirstLeast(Load, min_idx) /\ min_val = Load[min_idx]
  <2>1. CASE min_val = Modulus - 1 /\ min_idx = 0
    <3>1. ASSUME NEW i \in Index PROVE Load[i] = Modulus - 1 /\ i >= 0
      <4>1. Load[i] \in Word /\ min_val <= Load[i] /\ Load[i] <= Modulus - 1 /\ Load[i] \in Nat
        BY <1>6, <1>7, Numbers
      <4>2. Load[i] = Modulus - 1
        BY <2>1, <4>1, Numbers
      <4>3. QED  BY <1>6, <4>2
    <3>2. QED  BY <1>8, <2>1, <3>1 DEF FirstLeast
  <2>2. CASE /\ min_idx \in Index /\ Load[min_idx] = min_val
             /\ \A i \in 0 .. min_idx - 1 : min_val < Load[i]
    <3>1. ASSUME NEW j \in Index
          PROVE  Load[min_idx] < Load[j] \/ (Load[min_idx] = Load[j] /\ min_idx <= j)
      <4>1. min_val <= Load[j] /\ Load[j] \in Nat /\ min_val \in Nat /\ j \in Nat /\ min_idx \in Nat
        BY <1>6, <1>7, <2>2, WordsAreNumbers
      <4>2. CASE j < min_idx
        <5>1. j \in 0 .. min_idx - 1
          BY <4>1, <4>2
        <5>2. QED  BY <2>2, <5>1
      <4>3. CASE ~(j < min_idx)
        BY <2>2, <4>1, <4>3
      <4>4. QED  BY <4>2, <4>3
    <3>2. QED  BY <2>2, <3>1 DEF FirstLeast
  <2>3. QED  BY <1>7, <2>1, <2>2
<1>11. Summed'
  BY <1>1, <1>3, <1>7 DEF Summed, AtStatsInit
<1>12. AtCheck'
  BY <1>1, <1>3, <1>9, <1>10, <1>11 DEF AtCheck
<1>13. QED  BY <1>3, <1>5, <1>12 DEF RoundInv, LoadConserved, AscendingKept

-----------------------------------------------------------------------------
(***************************************************************************)
(* The decision, and the merge                                             *)
(***************************************************************************)
\* The registers decide as the loads do.
LEMMA SkewedAsTilted ==
  ASSUME Types, AtCheck
  PROVE  Skewed <=> Tilted
<1>1. Load \in [Index -> Word]
  BY LoadType
<1>2. max_val = Adjustment!Greatest(Load) /\ min_val = Load[Adjustment!Lightest(Load)]
  BY <1>1, LightestIs DEF AtCheck
<1>3. total_sum = Adjustment!Total(Load, Adjustment!Index) % Modulus
  <2>1. Adjustment!Total(Load, Index) = Total(Load, Index)
    BY DEF Adjustment!Total, Adjustment!Units, Adjustment!Cardinality, Total, Units, Cardinality
  <2>2. QED  BY <2>1, Intervals DEF AtCheck, Summed
<1>4. QED  BY <1>2, <1>3 DEF Skewed, Tilted, Adjustment!Skewed

LEMMA CheckOK ==
  ASSUME RoundInv, Check
  PROVE  RoundInv'
<1>1. /\ state = "CHECK"
      /\ UNCHANGED <<borders, bcnt, border_out_valid, curr, lb_idx, pf_idx, oldBorders, oldLoads,
                     total_sum, min_idx>>
      /\ state' = IF Skewed THEN "MERGE_PREP" ELSE "PACK_OUT"
      /\ act_num_intervals' = num_intervals
  BY DEF Check, Edge, counting, outputs, history, statistics
<1>2. AtCheck /\ Types
  BY <1>1 DEF RoundInv
<1>3. Types' /\ AtStatsInit' /\ Load' = Load
  BY <1>1, <1>2, StatsKept DEF Types, AtCheck
<1>4. Skewed <=> Tilted
  BY <1>2, SkewedAsTilted
<1>5. Tilted' = Tilted
  BY <1>1, RoundFixed
<1>6. CASE Skewed
  <2>1. state' = "MERGE_PREP"
    BY <1>1, <1>6
  <2>2. Summed' /\ Tilted' /\ FirstLeast(Load', min_idx')
    BY <1>1, <1>2, <1>3, <1>4, <1>5, <1>6 DEF AtCheck, Summed, AllCounted
  <2>3. AtMergePrep'
    BY <1>1, <1>3, <2>2 DEF AtMergePrep, FirstLeast
  <2>4. QED  BY <1>3, <2>1, <2>3 DEF RoundInv, LoadConserved, AscendingKept
<1>7. CASE ~Skewed
  <2>1. state' = "PACK_OUT"
    BY <1>1, <1>7
  <2>2. LoadConserved'
    <3>1. \A i \in Index : Load[i] = bcnt[i]
      BY <1>2 DEF AtCheck, AtStatsInit
    <3>2. Total(Load, Index) = Total(bcnt, Index)
      BY <3>1, TotalEqual
    <3>3. total_sum = Total(bcnt, Index) % Modulus
      BY <1>2, <3>2 DEF AtCheck, Summed
    <3>4. QED  BY <1>1, <3>3 DEF LoadConserved, Index
  <2>3. AscendingKept'
    BY <1>1, <1>2 DEF AscendingKept, Ascending, AtCheck, AtStatsInit
  <2>4. QED  BY <1>3, <2>1, <2>2, <2>3 DEF RoundInv
<1>8. QED  BY <1>6, <1>7

LEMMA MergePrepOK ==
  ASSUME RoundInv, MergePrep
  PROVE  RoundInv'
<1>1. /\ state = "MERGE_PREP" /\ state' = "MERGE_SHIFTB"
      /\ UNCHANGED <<borders, border_out_valid, curr, lb_idx, pf_idx, oldBorders, oldLoads,
                     total_sum, act_num_intervals>>
      /\ merge_end' = MergeEndNext /\ shift_idx' = MergeEndNext
      /\ bcnt' = [bcnt EXCEPT ![MergeEndNext - 1] = (@ + bcnt[MergeEndNext]) % Modulus]
  BY DEF MergePrep, Edge, counting, outputs, history, statistics
<1>2. AtMergePrep /\ Types
  BY <1>1 DEF RoundInv
<1>3. Load \in [Index -> Word] /\ \A i \in Index : bcnt[i] = Load[i]
  BY <1>2, LoadType DEF AtMergePrep, AtStatsInit
<1>4. /\ E = IF min_idx > 0 /\ (min_idx + 1 < num_intervals => Load[min_idx - 1] <= Load[min_idx + 1])
               THEN min_idx ELSE min_idx + 1
      /\ E \in 1 .. num_intervals - 1
  BY <1>2, <1>3, MergeEndIs DEF AtMergePrep, E
<1>5. MergeEndNext = E
  <2>1. min_idx \in 0 .. num_intervals - 1
    BY <1>2 DEF AtMergePrep, FirstLeast, Index
  <2>2. min_idx > 0 /\ min_idx + 1 < num_intervals =>
          min_idx - 1 \in Index /\ min_idx + 1 \in Index
    BY <2>1, Intervals DEF Index
  <2>3. act_num_intervals = num_intervals
    BY <1>2 DEF AtMergePrep
  <2>4. QED  BY <1>3, <1>4, <2>2, <2>3 DEF MergeEndNext, MergesLeft
<1>6. E - 1 \in Index /\ E \in Index /\ E - 1 \in 0 .. num_intervals - 2 /\ E \in Int
      /\ E \in E .. num_intervals
  BY <1>4, Intervals DEF Index
<1>7. Load' = Load /\ Tilted' = Tilted /\ E' = E /\ Merged' = Merged
  BY <1>1, RoundFixed
<1>8. Merged[E - 1] = (Load[E - 1] + Load[E]) % Modulus /\ Merged[E - 1] \in Word
  <2>1. /\ Merged \in [0 .. num_intervals - 2 -> Word]
        /\ \A i \in 0 .. num_intervals - 2 :
             Merged[i] = IF i < E - 1 THEN Load[i]
                         ELSE IF i = E - 1 THEN (Load[i] + Load[E]) % Modulus ELSE Load[i + 1]
    BY <1>2, <1>4, MergedIs
  <2>2. ~(E - 1 < E - 1)
    BY <1>6
  <2>3. QED  BY <1>6, <2>1, <2>2
<1>9. bcnt' = [bcnt EXCEPT ![E - 1] = Merged[E - 1]]
  BY <1>1, <1>3, <1>5, <1>6, <1>8
<1>10. bcnt \in [0 .. MaxIntervals - 1 -> Word] /\ Index \subseteq 0 .. MaxIntervals - 1
  BY <1>2, Intervals DEF Types
<1>11. bcnt' \in [0 .. MaxIntervals - 1 -> Word]
  BY <1>8, <1>9, <1>10
<1>12. Types'
  BY <1>1, <1>2, <1>11 DEF Types
<1>13. \A i \in Index : bcnt'[i] = IF i = E - 1 THEN Merged[i] ELSE Load[i]
  BY <1>3, <1>9, <1>10
<1>14. MergeKnown'
  BY <1>1, <1>2, <1>4, <1>7 DEF AtMergePrep, MergeKnown, Summed, AllCounted
<1>15. \A i \in 0 .. MaxIntervals :
         borders'[i] = IF E <= i /\ i < E THEN oldBorders[i + 1] ELSE oldBorders[i]
  <2>1. \A i \in 0 .. MaxIntervals : ~(E <= i /\ i < E)
    BY <1>6, Intervals
  <2>2. borders' = oldBorders
    BY <1>1, <1>2 DEF AtMergePrep, AtStatsInit
  <2>3. QED  BY <2>1, <2>2
<1>16. AtMergeShiftB'
  <2>1. act_num_intervals' = num_intervals
    BY <1>1, <1>2 DEF AtMergePrep
  <2>2. oldBorders' = oldBorders /\ merge_end' = E /\ shift_idx' = E
    BY <1>1, <1>5
  <2>3. QED  BY <1>6, <1>7, <1>13, <1>14, <1>15, <2>1, <2>2 DEF AtMergeShiftB
<1>17. QED  BY <1>1, <1>12, <1>16 DEF RoundInv, LoadConserved, AscendingKept

\* What is known of the merge does not change after it.
LEMMA MergeKept ==
  ASSUME MergeKnown, UNCHANGED <<curr, oldBorders, oldLoads, lb_idx, pf_idx, total_sum>>
  PROVE  /\ MergeKnown'
         /\ Load' = Load /\ E' = E /\ Merged' = Merged /\ MergedB' = MergedB
         /\ M' = M /\ Halved' = Halved /\ HalvedB' = HalvedB
<1>1. /\ Load' = Load /\ Tilted' = Tilted /\ E' = E /\ Merged' = Merged
      /\ MergedB' = MergedB /\ M' = M /\ Halved' = Halved /\ HalvedB' = HalvedB
  BY RoundFixed
<1>2. Summed'
  BY <1>1 DEF MergeKnown, Summed, AllCounted
<1>3. QED  BY <1>1, <1>2 DEF MergeKnown

LEMMA MergeShiftBStep ==
  ASSUME RoundInv, MergeShiftB, shift_idx < num_intervals
  PROVE  RoundInv'
<1>1. /\ state = "MERGE_SHIFTB"
      /\ UNCHANGED <<bcnt, border_out_valid, curr, lb_idx, pf_idx, oldBorders, oldLoads,
                     total_sum, act_num_intervals, merge_end>>
      /\ state' = IF shift_idx = act_num_intervals THEN "MERGE_SHIFTC" ELSE "MERGE_SHIFTB"
  BY DEF MergeShiftB, Edge, counting, outputs, history, statistics
<1>2. AtMergeShiftB /\ Types
  BY <1>1 DEF RoundInv
<1>3. /\ MergeKnown /\ act_num_intervals = num_intervals
      /\ shift_idx \in E .. num_intervals /\ E \in 1 .. num_intervals - 1
      /\ \A i \in 0 .. MaxIntervals :
           borders[i] = IF E <= i /\ i < shift_idx THEN oldBorders[i + 1] ELSE oldBorders[i]
  BY <1>2 DEF AtMergeShiftB, MergeKnown
<1>4. /\ borders' = [borders EXCEPT ![shift_idx] = borders[shift_idx + 1]]
      /\ shift_idx' = shift_idx + 1
  BY <1>3 DEF MergeShiftB
<1>5. /\ shift_idx \in 0 .. MaxIntervals /\ shift_idx + 1 \in 0 .. MaxIntervals
      /\ shift_idx + 1 \in E .. num_intervals
      /\ shift_idx # num_intervals /\ shift_idx \in Int /\ E <= shift_idx /\ E \in Int
  BY <1>3, Intervals
<1>6. borders[shift_idx + 1] = oldBorders[shift_idx + 1]
  <2>1. ~(shift_idx + 1 < shift_idx)
    BY <1>5
  <2>2. QED  BY <1>3, <1>5, <2>1
<1>7. /\ borders \in [0 .. MaxIntervals -> Word]
      /\ oldBorders[shift_idx + 1] \in Word
  BY <1>2, <1>5 DEF Types
<1>8. borders' \in [0 .. MaxIntervals -> Word]
  BY <1>4, <1>6, <1>7
<1>9. ASSUME NEW i \in 0 .. MaxIntervals
      PROVE  borders'[i] = IF E <= i /\ i < shift_idx + 1 THEN oldBorders[i + 1] ELSE oldBorders[i]
  <2>1. borders'[i] = IF i = shift_idx THEN oldBorders[i + 1] ELSE borders[i]
    BY <1>4, <1>6, <1>7
  <2>2. /\ i = shift_idx => E <= i /\ i < shift_idx + 1
        /\ i # shift_idx => (i < shift_idx + 1 <=> i < shift_idx)
    BY <1>5, Intervals
  <2>3. borders[i] = IF E <= i /\ i < shift_idx THEN oldBorders[i + 1] ELSE oldBorders[i]
    BY <1>3
  <2>4. QED  BY <2>1, <2>2, <2>3
<1>10. MergeKnown' /\ Load' = Load /\ E' = E /\ Merged' = Merged
  BY <1>1, <1>3, MergeKept
<1>11. AtMergeShiftB'
  BY <1>1, <1>2, <1>4, <1>5, <1>9, <1>10 DEF AtMergeShiftB
<1>12. Types' /\ state' = "MERGE_SHIFTB"
  BY <1>1, <1>2, <1>3, <1>5, <1>8 DEF Types
<1>13. QED  BY <1>11, <1>12 DEF RoundInv, LoadConserved, AscendingKept

LEMMA MergeShiftBEnd ==
  ASSUME RoundInv, MergeShiftB, ~(shift_idx < num_intervals)
  PROVE  RoundInv'
<1>1. /\ state = "MERGE_SHIFTB"
      /\ UNCHANGED <<bcnt, border_out_valid, curr, lb_idx, pf_idx, oldBorders, oldLoads,
                     total_sum, act_num_intervals, merge_end>>
      /\ state' = IF shift_idx = act_num_intervals THEN "MERGE_SHIFTC" ELSE "MERGE_SHIFTB"
  BY DEF MergeShiftB, Edge, counting, outputs, history, statistics
<1>2. AtMergeShiftB /\ Types
  BY <1>1 DEF RoundInv
<1>3. /\ MergeKnown /\ act_num_intervals = num_intervals /\ merge_end = E
      /\ shift_idx \in E .. num_intervals /\ E \in 1 .. num_intervals - 1
      /\ \A i \in 0 .. MaxIntervals :
           borders[i] = IF E <= i /\ i < shift_idx THEN oldBorders[i + 1] ELSE oldBorders[i]
      /\ \A i \in Index : bcnt[i] = IF i = E - 1 THEN Merged[i] ELSE Load[i]
  BY <1>2 DEF AtMergeShiftB, MergeKnown
<1>4. shift_idx = num_intervals /\ E \in E .. num_intervals - 1 /\ E \in Int
  BY <1>3, Intervals
<1>5. borders' = borders /\ shift_idx' = E /\ state' = "MERGE_SHIFTC"
  BY <1>1, <1>3, <1>4, Intervals DEF MergeShiftB
<1>6. /\ \A i \in 0 .. num_intervals - 2 :
           Merged[i] = IF i < E - 1 THEN Load[i]
                       ELSE IF i = E - 1 THEN (Load[i] + Load[E]) % Modulus ELSE Load[i + 1]
      /\ \A i \in 0 .. num_intervals - 1 :
           MergedB[i] = IF i < E THEN oldBorders[i] ELSE oldBorders[i + 1]
  BY <1>2, <1>3, MergedIs
<1>7. \A i \in num_intervals + 1 .. MaxIntervals : borders[i] = oldBorders[i]
  <2>1. \A i \in num_intervals + 1 .. MaxIntervals : i \in 0 .. MaxIntervals /\ ~(i < shift_idx)
    BY <1>4, Intervals
  <2>2. QED  BY <1>3, <2>1
<1>8. \A i \in 0 .. num_intervals - 1 : borders[i] = MergedB[i]
  <2>1. ASSUME NEW i \in 0 .. num_intervals - 1 PROVE borders[i] = MergedB[i]
    <3>1. i \in 0 .. MaxIntervals /\ i < shift_idx /\ (E <= i <=> ~(i < E))
      BY <1>4, Intervals
    <3>2. borders[i] = IF E <= i /\ i < shift_idx THEN oldBorders[i + 1] ELSE oldBorders[i]
      BY <1>3, <3>1
    <3>3. QED  BY <1>6, <3>1, <3>2
  <2>2. QED  BY <2>1
<1>9. ASSUME NEW i \in Index PROVE bcnt[i] = IF i < E THEN Merged[i] ELSE Load[i]
  <2>1. i \in Int /\ i \in 0 .. num_intervals - 1
    BY Intervals DEF Index
  <2>2. CASE i < E - 1
    <3>1. i \in 0 .. num_intervals - 2 /\ i # E - 1 /\ i < E
      BY <1>3, <2>1, <2>2, Intervals
    <3>2. Merged[i] = Load[i] /\ bcnt[i] = Load[i]
      BY <1>3, <1>6, <2>2, <3>1
    <3>3. QED  BY <3>1, <3>2
  <2>3. CASE ~(i < E - 1)
    <3>1. i < E <=> i = E - 1
      BY <1>4, <2>1, <2>3
    <3>2. QED  BY <1>3, <3>1
  <2>4. QED  BY <2>2, <2>3
<1>10. /\ MergeKnown' /\ Load' = Load /\ E' = E /\ Merged' = Merged
       /\ MergedB' = MergedB
  BY <1>1, <1>3, MergeKept
<1>11. BordersMerged'
  BY <1>1, <1>5, <1>7, <1>8, <1>10 DEF BordersMerged, Above
<1>12. AtMergeShiftC'
  BY <1>1, <1>3, <1>4, <1>5, <1>9, <1>10, <1>11 DEF AtMergeShiftC
<1>13. Types'
  BY <1>1, <1>2, <1>5 DEF Types
<1>14. QED  BY <1>5, <1>12, <1>13 DEF RoundInv, LoadConserved, AscendingKept

LEMMA MergeShiftCStep ==
  ASSUME RoundInv, MergeShiftC, shift_idx < num_intervals - 1
  PROVE  RoundInv'
<1>1. /\ state = "MERGE_SHIFTC"
      /\ UNCHANGED <<borders, border_out_valid, curr, lb_idx, pf_idx, oldBorders, oldLoads,
                     total_sum>>
      /\ state' = IF shift_idx = act_num_intervals - 1 THEN "SPLIT_FINDMAX" ELSE "MERGE_SHIFTC"
  BY DEF MergeShiftC, Edge, counting, outputs, history, statistics
<1>2. AtMergeShiftC /\ Types
  BY <1>1 DEF RoundInv
<1>3. /\ MergeKnown /\ act_num_intervals = num_intervals
      /\ shift_idx \in E .. num_intervals - 1 /\ E \in 1 .. num_intervals - 1
      /\ \A i \in Index : bcnt[i] = IF i < shift_idx THEN Merged[i] ELSE Load[i]
  BY <1>2 DEF AtMergeShiftC, MergeKnown
<1>4. /\ bcnt' = [bcnt EXCEPT ![shift_idx] = bcnt[shift_idx + 1]]
      /\ shift_idx' = shift_idx + 1 /\ act_num_intervals' = num_intervals
  BY <1>3 DEF MergeShiftC
<1>5. /\ shift_idx \in Index /\ shift_idx + 1 \in Index
      /\ shift_idx \in 0 .. num_intervals - 2 /\ shift_idx + 1 \in E .. num_intervals - 1
      /\ shift_idx # num_intervals - 1 /\ shift_idx \in Int /\ E <= shift_idx /\ E \in Int
  BY <1>3, Intervals DEF Index
<1>6. bcnt[shift_idx + 1] = Merged[shift_idx]
  <2>1. ~(shift_idx + 1 < shift_idx) /\ ~(shift_idx < E - 1) /\ shift_idx # E - 1
    BY <1>5
  <2>2. bcnt[shift_idx + 1] = Load[shift_idx + 1]
    BY <1>3, <1>5, <2>1
  <2>3. \A i \in 0 .. num_intervals - 2 :
           Merged[i] = IF i < E - 1 THEN Load[i]
                       ELSE IF i = E - 1 THEN (Load[i] + Load[E]) % Modulus ELSE Load[i + 1]
    BY <1>2, <1>3, MergedIs
  <2>4. Merged[shift_idx] = Load[shift_idx + 1]
    BY <1>5, <2>1, <2>3
  <2>5. QED  BY <2>2, <2>4
<1>7. /\ bcnt \in [0 .. MaxIntervals - 1 -> Word] /\ Index \subseteq 0 .. MaxIntervals - 1
      /\ bcnt[shift_idx + 1] \in Word
  BY <1>2, <1>5, Intervals DEF Types
<1>8. bcnt' \in [0 .. MaxIntervals - 1 -> Word]
  BY <1>4, <1>7
<1>9. ASSUME NEW i \in Index
      PROVE  bcnt'[i] = IF i < shift_idx + 1 THEN Merged[i] ELSE Load[i]
  <2>1. bcnt'[i] = IF i = shift_idx THEN Merged[i] ELSE bcnt[i]
    BY <1>4, <1>6, <1>7
  <2>2. i < shift_idx + 1 <=> (i < shift_idx \/ i = shift_idx)
    BY <1>5, Intervals
  <2>3. bcnt[i] = IF i < shift_idx THEN Merged[i] ELSE Load[i]
    BY <1>3
  <2>4. QED  BY <2>1, <2>2, <2>3
<1>10. /\ MergeKnown' /\ Load' = Load /\ E' = E /\ Merged' = Merged
       /\ MergedB' = MergedB
  BY <1>1, <1>3, MergeKept
<1>11. BordersMerged'
  BY <1>1, <1>2, <1>10 DEF BordersMerged, Above, AtMergeShiftC
<1>12. AtMergeShiftC'
  BY <1>4, <1>5, <1>9, <1>10, <1>11 DEF AtMergeShiftC
<1>13. Types' /\ state' = "MERGE_SHIFTC"
  BY <1>1, <1>2, <1>3, <1>5, <1>8 DEF Types
<1>14. QED  BY <1>12, <1>13 DEF RoundInv, LoadConserved, AscendingKept

LEMMA MergeShiftCEnd ==
  ASSUME RoundInv, MergeShiftC, ~(shift_idx < num_intervals - 1)
  PROVE  RoundInv'
<1>1. /\ state = "MERGE_SHIFTC"
      /\ UNCHANGED <<borders, border_out_valid, curr, lb_idx, pf_idx, oldBorders, oldLoads,
                     total_sum>>
      /\ state' = IF shift_idx = act_num_intervals - 1 THEN "SPLIT_FINDMAX" ELSE "MERGE_SHIFTC"
  BY DEF MergeShiftC, Edge, counting, outputs, history, statistics
<1>2. AtMergeShiftC /\ Types
  BY <1>1 DEF RoundInv
<1>3. /\ MergeKnown /\ act_num_intervals = num_intervals
      /\ shift_idx \in E .. num_intervals - 1 /\ E \in 1 .. num_intervals - 1
      /\ \A i \in Index : bcnt[i] = IF i < shift_idx THEN Merged[i] ELSE Load[i]
  BY <1>2 DEF AtMergeShiftC, MergeKnown
<1>4. shift_idx = num_intervals - 1
  BY <1>3, Intervals
<1>5. /\ bcnt' = bcnt /\ state' = "SPLIT_FINDMAX"
      /\ act_num_intervals' = num_intervals - 1
      /\ iv_idx' = 0 /\ max_val' = 0
  BY <1>1, <1>3, <1>4 DEF MergeShiftC
<1>6. /\ MergeKnown' /\ Load' = Load /\ E' = E /\ Merged' = Merged
      /\ MergedB' = MergedB
  BY <1>1, <1>3, MergeKept
<1>7. BordersMerged'
  BY <1>1, <1>2, <1>6 DEF BordersMerged, Above, AtMergeShiftC
<1>8. LoadsMerged'
  <2>1. \A i \in 0 .. num_intervals - 2 : i \in Index /\ i < shift_idx
    BY <1>4, Intervals DEF Index
  <2>2. QED  BY <1>3, <1>5, <1>6, <2>1 DEF LoadsMerged
<1>9. 0 \in 0 .. num_intervals - 1
  BY Intervals
<1>10. AtSplitFindMax'
  BY <1>5, <1>6, <1>7, <1>8, <1>9 DEF AtSplitFindMax
<1>11. Types'
  BY <1>1, <1>2, <1>5 DEF Types
<1>12. QED  BY <1>5, <1>10, <1>11 DEF RoundInv, LoadConserved, AscendingKept

-----------------------------------------------------------------------------
(***************************************************************************)
(* The split                                                               *)
(***************************************************************************)
\* One more merged load is compared.
LEMMA SplitFindMaxStep ==
  ASSUME RoundInv, SplitFindMax, iv_idx < num_intervals - 1
  PROVE  RoundInv'
<1>1. /\ state = "SPLIT_FINDMAX"
      /\ UNCHANGED <<borders, bcnt, border_out_valid, curr, lb_idx, pf_idx, oldBorders, oldLoads,
                     total_sum, act_num_intervals>>
      /\ state' = IF iv_idx = act_num_intervals THEN "SPLIT_SHIFTB" ELSE "SPLIT_FINDMAX"
  BY DEF SplitFindMax, Edge, counting, outputs, history, statistics
<1>2. AtSplitFindMax /\ Types
  BY <1>1 DEF RoundInv
<1>3. /\ MergeKnown /\ act_num_intervals = num_intervals - 1
      /\ iv_idx \in 0 .. num_intervals - 1 /\ E \in 1 .. num_intervals - 1
      /\ \A i \in 0 .. num_intervals - 2 : bcnt[i] = Merged[i]
  BY <1>2 DEF AtSplitFindMax, MergeKnown, LoadsMerged
<1>4. /\ max_val' = IF bcnt[iv_idx] >= max_val THEN bcnt[iv_idx] ELSE max_val
      /\ max2_idx' = IF bcnt[iv_idx] >= max_val THEN iv_idx ELSE max2_idx
      /\ iv_idx' = iv_idx + 1
  BY <1>3 DEF SplitFindMax
<1> DEFINE n == iv_idx
           x == Merged[n]
<1>5. /\ n \in Nat /\ n \in 0 .. num_intervals - 2 /\ n + 1 \in 0 .. num_intervals - 1
      /\ n # num_intervals - 1 /\ (n + 1) - 1 = n /\ n + 1 # 0
      /\ \A i : i \in 0 .. n <=> (i \in 0 .. n - 1 \/ i = n)
  BY <1>3, Intervals
<1>6. bcnt[n] = x
  BY <1>3, <1>5
<1>7. \A i \in 0 .. n : Merged[i] \in Nat /\ i \in Nat
  <2>1. Merged \in [0 .. num_intervals - 2 -> Word]
    BY <1>2, <1>3, MergedIs
  <2>2. \A i \in 0 .. n : i \in 0 .. num_intervals - 2 /\ i \in Nat
    BY <1>5, Intervals
  <2>3. QED  BY <2>1, <2>2, WordsAreNumbers
<1>8. x \in Nat /\ n \in 0 .. n
  BY <1>5, <1>7
<1>9. LastGreatest(Merged, n + 1, max2_idx') /\ max_val' = Merged[max2_idx']
  <2>1. CASE n = 0
    <3>1. max_val = 0
      BY <1>2, <2>1 DEF AtSplitFindMax
    <3>2. x >= max_val
      BY <1>8, <3>1
    <3>3. max2_idx' = 0 /\ max_val' = x
      BY <1>4, <1>6, <2>1, <3>2
    <3>4. (0 + 1) - 1 = 0 /\ \A j \in 0 .. 0 : j = 0
      OBVIOUS
    <3>5. QED  BY <2>1, <3>3, <3>4 DEF LastGreatest
  <2>2. CASE n # 0
    <3>1. LastGreatest(Merged, n, max2_idx) /\ max_val = Merged[max2_idx]
      BY <1>2, <2>2 DEF AtSplitFindMax
    <3>2. /\ max2_idx \in 0 .. n - 1
          /\ \A j \in 0 .. n - 1 :
               Merged[j] < max_val \/ (Merged[j] = max_val /\ j <= max2_idx)
      BY <3>1 DEF LastGreatest
    <3>3. max_val \in Nat /\ max2_idx \in Nat /\ max2_idx \in 0 .. n
      <4>1. max2_idx \in 0 .. n
        BY <1>5, <3>2
      <4>2. QED  BY <1>7, <3>1, <4>1
    <3>4. CASE x >= max_val
      <4>1. max2_idx' = n /\ max_val' = x
        BY <1>4, <1>6, <3>4
      <4>2. ASSUME NEW j \in 0 .. n
            PROVE  Merged[j] < x \/ (Merged[j] = x /\ j <= n)
        <5>1. CASE j = n
          BY <1>5, <5>1
        <5>2. CASE j # n
          <6>1. j \in 0 .. n - 1 /\ j \in Nat /\ Merged[j] \in Nat
            BY <1>5, <1>7, <5>2
          <6>2. Merged[j] <= max_val /\ j <= n
            <7>1. Merged[j] < max_val \/ Merged[j] = max_val
              BY <3>2, <6>1
            <7>2. j <= n
              BY <1>5, <6>1
            <7>3. QED  BY <3>3, <6>1, <7>1, <7>2
          <6> HIDE DEF x, n
          <6>3. QED  BY <1>8, <3>3, <3>4, <6>1, <6>2
        <5>3. QED  BY <5>1, <5>2
      <4>3. QED  BY <1>5, <1>8, <4>1, <4>2 DEF LastGreatest
    <3>5. CASE ~(x >= max_val)
      <4>1. max2_idx' = max2_idx /\ max_val' = max_val
        BY <1>4, <1>6, <3>5
      <4>2. x < max_val
        <5> HIDE DEF x
        <5>1. QED  BY <1>8, <3>3, <3>5
      <4>3. \A j \in 0 .. n : Merged[j] < max_val \/ (Merged[j] = max_val /\ j <= max2_idx)
        BY <1>5, <3>2, <4>2
      <4>4. QED  BY <1>5, <3>1, <3>3, <4>1, <4>3 DEF LastGreatest
    <3>6. QED  BY <3>4, <3>5
  <2>3. QED  BY <2>1, <2>2
<1>10. /\ MergeKnown' /\ Merged' = Merged /\ MergedB' = MergedB
  BY <1>1, <1>3, MergeKept
<1>11. BordersMerged' /\ LoadsMerged'
  BY <1>1, <1>2, <1>10 DEF BordersMerged, LoadsMerged, Above, AtSplitFindMax
<1>12. AtSplitFindMax'
  <2>1. act_num_intervals' = num_intervals - 1 /\ iv_idx' = n + 1
    BY <1>1, <1>3, <1>4
  <2> HIDE DEF n
  <2>2. QED  BY <1>5, <1>9, <1>10, <1>11, <2>1 DEF AtSplitFindMax, LastGreatest
<1>13. Types' /\ state' = "SPLIT_FINDMAX"
  BY <1>1, <1>2, <1>3, <1>5 DEF Types
<1>14. QED  BY <1>12, <1>13 DEF RoundInv, LoadConserved, AscendingKept

\* The interval to split is known.
LEMMA SplitFindMaxEnd ==
  ASSUME RoundInv, SplitFindMax, ~(iv_idx < num_intervals - 1)
  PROVE  RoundInv'
<1>1. /\ state = "SPLIT_FINDMAX"
      /\ UNCHANGED <<borders, bcnt, border_out_valid, curr, lb_idx, pf_idx, oldBorders, oldLoads,
                     total_sum, act_num_intervals>>
      /\ state' = IF iv_idx = act_num_intervals THEN "SPLIT_SHIFTB" ELSE "SPLIT_FINDMAX"
  BY DEF SplitFindMax, Edge, counting, outputs, history, statistics
<1>2. AtSplitFindMax /\ Types
  BY <1>1 DEF RoundInv
<1>3. /\ MergeKnown /\ act_num_intervals = num_intervals - 1
      /\ iv_idx \in 0 .. num_intervals - 1 /\ E \in 1 .. num_intervals - 1
      /\ \A i \in 0 .. num_intervals - 2 : bcnt[i] = Merged[i]
      /\ \A i \in 0 .. num_intervals - 1 : borders[i] = MergedB[i]
  BY <1>2 DEF AtSplitFindMax, MergeKnown, LoadsMerged, BordersMerged
<1>4. iv_idx = num_intervals - 1 /\ iv_idx # 0
  BY <1>3, Intervals
<1>5. /\ state' = "SPLIT_SHIFTB" /\ max2_idx' = max2_idx
      /\ mid_bdr' = Middle(borders[max2_idx], borders[max2_idx + 1])
      /\ split_left' = bcnt[max2_idx] \div 2
      /\ split_right' = RightHalf(bcnt[max2_idx])
      /\ shift_idx' = act_num_intervals + 1
  BY <1>1, <1>3, <1>4 DEF SplitFindMax
<1>6. M = max2_idx /\ M \in 0 .. num_intervals - 2
  <2>1. Merged \in [0 .. num_intervals - 2 -> Word]
    BY <1>2, <1>3, MergedIs
  <2>2. LastGreatest(Merged, num_intervals - 1, max2_idx)
    BY <1>2, <1>4 DEF AtSplitFindMax
  <2>3. QED  BY <2>1, <2>2, HeaviestIs DEF M
<1>7. /\ M \in Index /\ M + 1 \in Index /\ ~(M + 1 < M) /\ ~(M < M) /\ M + 1 # M
      /\ M \in 0 .. num_intervals - 1 /\ M + 1 \in 0 .. num_intervals - 1
      /\ M + 1 \in 0 .. num_intervals /\ ~(M + 1 <= M)
      /\ num_intervals \in M + 1 .. num_intervals
      /\ (num_intervals - 1) + 1 = num_intervals
  BY <1>6, Intervals DEF Index
<1>8. Halved[M] = Merged[M] \div 2 /\ Halved[M + 1] = Merged[M] - (Merged[M] \div 2)
      /\ HalvedB[M + 1] = ((MergedB[M] + MergedB[M + 1]) % Modulus) \div 2
  <2>1. /\ \A i \in Index :
              Halved[i] = IF i < M THEN Merged[i]
                          ELSE IF i = M THEN Merged[M] \div 2
                          ELSE IF i = M + 1 THEN Merged[M] - (Merged[M] \div 2)
                          ELSE Merged[i - 1]
        /\ \A i \in 0 .. num_intervals :
              HalvedB[i] = IF i <= M THEN MergedB[i]
                           ELSE IF i = M + 1
                                  THEN ((MergedB[M] + MergedB[M + 1]) % Modulus) \div 2
                                  ELSE MergedB[i - 1]
    BY <1>2, <1>3, <1>6, HalvedIs
  <2>2. Halved[M] = Merged[M] \div 2
    BY <1>7, <2>1, Zenon
  <2>3. Halved[M + 1] = Merged[M] - (Merged[M] \div 2)
    BY <1>7, <2>1, Zenon
  <2>4. HalvedB[M + 1] = ((MergedB[M] + MergedB[M + 1]) % Modulus) \div 2
    BY <1>7, <2>1, Zenon
  <2>5. QED  BY <2>2, <2>3, <2>4
<1>9. bcnt[M] = Merged[M] /\ borders[M] = MergedB[M] /\ borders[M + 1] = MergedB[M + 1]
  BY <1>3, <1>6, <1>7
<1>10. /\ MergeKnown' /\ Merged' = Merged /\ MergedB' = MergedB
       /\ M' = M /\ Halved' = Halved /\ HalvedB' = HalvedB
  BY <1>1, <1>3, MergeKept
<1>11. mid_bdr' = HalvedB[M + 1] /\ split_left' = Halved[M] /\ split_right' = Halved[M + 1]
  BY <1>5, <1>6, <1>8, <1>9, Zenon DEF Middle, RightHalf
<1>12. SplitKnown'
  <2>1. Above'
    BY <1>1, <1>2 DEF Above, AtSplitFindMax, BordersMerged
  <2>2. QED  BY <1>1, <1>3, <1>5, <1>6, <1>10, <1>11, <2>1 DEF SplitKnown
<1>13. LoadsMerged'
  BY <1>1, <1>3, <1>10 DEF LoadsMerged
<1>14. shift_idx' = num_intervals
  BY <1>3, <1>5, <1>7
<1>15. \A i \in 0 .. num_intervals :
         /\ i <= num_intervals /\ i < num_intervals => borders[i] = MergedB[i]
         /\ i > num_intervals => borders[i] = HalvedB[i]
  <2>1. \A i \in 0 .. num_intervals :
          ~(i > num_intervals) /\ (i < num_intervals => i \in 0 .. num_intervals - 1)
    BY Intervals
  <2>2. QED  BY <1>3, <2>1
<1>16. AtSplitShiftB'
  BY <1>1, <1>7, <1>10, <1>11, <1>12, <1>13, <1>14, <1>15 DEF AtSplitShiftB
<1>17. Types'
  BY <1>1, <1>2, <1>5 DEF Types
<1>18. QED  BY <1>5, <1>16, <1>17 DEF RoundInv, LoadConserved, AscendingKept

\* What is known of the split does not change after it.
LEMMA SplitKept ==
  ASSUME SplitKnown, UNCHANGED <<curr, oldBorders, oldLoads, lb_idx, pf_idx, total_sum>>
  PROVE  /\ MergeKnown'
         /\ Load' = Load /\ Merged' = Merged /\ MergedB' = MergedB
         /\ M' = M /\ Halved' = Halved /\ HalvedB' = HalvedB
BY MergeKept DEF SplitKnown

\* What the halves and their neighbours are.
LEMMA HalvedAt ==
  ASSUME Types, E \in 1 .. num_intervals - 1, M \in 0 .. num_intervals - 2
  PROVE  /\ \A i \in 0 .. M - 1 : Halved[i] = Merged[i]
         /\ Halved[M] = Merged[M] \div 2 /\ Halved[M + 1] = Merged[M] - (Merged[M] \div 2)
         /\ \A i \in M + 2 .. num_intervals - 1 : Halved[i] = Merged[i - 1]
         /\ \A i \in 0 .. M : HalvedB[i] = MergedB[i]
         /\ HalvedB[M + 1] = ((MergedB[M] + MergedB[M + 1]) % Modulus) \div 2
         /\ \A i \in M + 2 .. num_intervals : HalvedB[i] = MergedB[i - 1]
<1>1. /\ \A i \in Index :
              Halved[i] = IF i < M THEN Merged[i]
                          ELSE IF i = M THEN Merged[M] \div 2
                          ELSE IF i = M + 1 THEN Merged[M] - (Merged[M] \div 2)
                          ELSE Merged[i - 1]
      /\ \A i \in 0 .. num_intervals :
              HalvedB[i] = IF i <= M THEN MergedB[i]
                           ELSE IF i = M + 1
                                  THEN ((MergedB[M] + MergedB[M + 1]) % Modulus) \div 2
                                  ELSE MergedB[i - 1]
  BY HalvedIs
<1>2. /\ M \in Index /\ M + 1 \in Index /\ ~(M + 1 < M) /\ ~(M < M) /\ M + 1 # M
      /\ M + 1 \in 0 .. num_intervals /\ ~(M + 1 <= M)
  BY Intervals DEF Index
<1>3. Halved[M] = Merged[M] \div 2
  BY <1>1, <1>2, Zenon
<1>4. Halved[M + 1] = Merged[M] - (Merged[M] \div 2)
  BY <1>1, <1>2, Zenon
<1>5. HalvedB[M + 1] = ((MergedB[M] + MergedB[M + 1]) % Modulus) \div 2
  BY <1>1, <1>2, Zenon
<1>6. ASSUME NEW i \in 0 .. M - 1 PROVE Halved[i] = Merged[i]
  <2>1. i \in Index /\ i < M
    BY Intervals DEF Index
  <2>2. QED  BY <1>1, <2>1, Zenon
<1>7. ASSUME NEW i \in M + 2 .. num_intervals - 1 PROVE Halved[i] = Merged[i - 1]
  <2>1. i \in Index /\ ~(i < M) /\ i # M /\ i # M + 1
    BY Intervals DEF Index
  <2>2. QED  BY <1>1, <2>1, Zenon
<1>8. ASSUME NEW i \in 0 .. M PROVE HalvedB[i] = MergedB[i]
  <2>1. i \in 0 .. num_intervals /\ i <= M
    BY Intervals
  <2>2. QED  BY <1>1, <2>1, Zenon
<1>9. ASSUME NEW i \in M + 2 .. num_intervals PROVE HalvedB[i] = MergedB[i - 1]
  <2>1. i \in 0 .. num_intervals /\ ~(i <= M) /\ i # M + 1
    BY Intervals
  <2>2. QED  BY <1>1, <2>1, Zenon
<1>10. QED  BY <1>3, <1>4, <1>5, <1>6, <1>7, <1>8, <1>9

LEMMA SplitShiftBStep ==
  ASSUME RoundInv, SplitShiftB, shift_idx > M + 1
  PROVE  RoundInv'
<1>1. /\ state = "SPLIT_SHIFTB"
      /\ UNCHANGED <<bcnt, border_out_valid, curr, lb_idx, pf_idx, oldBorders, oldLoads,
                     total_sum, act_num_intervals, max2_idx, mid_bdr, split_left, split_right>>
      /\ state' = IF shift_idx = max2_idx + 1 THEN "SPLIT_SHIFTC" ELSE "SPLIT_SHIFTB"
  BY DEF SplitShiftB, Edge, counting, outputs, history, statistics, splitting
<1>2. AtSplitShiftB /\ Types
  BY <1>1 DEF RoundInv
<1>3. /\ SplitKnown /\ LoadsMerged /\ mid_bdr = HalvedB[M + 1]
      /\ max2_idx = M /\ M \in 0 .. num_intervals - 2 /\ E \in 1 .. num_intervals - 1
      /\ shift_idx \in M + 1 .. num_intervals
      /\ \A i \in 0 .. num_intervals :
           /\ i <= shift_idx /\ i < num_intervals => borders[i] = MergedB[i]
           /\ i > shift_idx => borders[i] = HalvedB[i]
  BY <1>2 DEF AtSplitShiftB, SplitKnown, MergeKnown
<1>4. /\ borders' = [borders EXCEPT ![shift_idx] = borders[shift_idx - 1]]
      /\ shift_idx' = shift_idx - 1
  BY <1>3 DEF SplitShiftB
<1>5. /\ shift_idx \in M + 2 .. num_intervals /\ shift_idx \in Int
      /\ shift_idx \in 0 .. num_intervals /\ shift_idx - 1 \in 0 .. num_intervals
      /\ shift_idx - 1 <= shift_idx /\ shift_idx - 1 < num_intervals
      /\ shift_idx - 1 \in M + 1 .. num_intervals /\ shift_idx # M + 1
      /\ 0 .. num_intervals \subseteq 0 .. MaxIntervals
  BY <1>3, Intervals
<1>6. borders[shift_idx - 1] = HalvedB[shift_idx]
  <2>1. borders[shift_idx - 1] = MergedB[shift_idx - 1]
    BY <1>3, <1>5
  <2>2. HalvedB[shift_idx] = MergedB[shift_idx - 1]
    BY <1>2, <1>3, <1>5, HalvedAt
  <2>3. QED  BY <2>1, <2>2
<1>7. /\ borders \in [0 .. MaxIntervals -> Word] /\ borders[shift_idx - 1] \in Word
  BY <1>2, <1>5 DEF Types
<1>8. borders' \in [0 .. MaxIntervals -> Word]
  BY <1>4, <1>7
<1>9. ASSUME NEW i \in 0 .. num_intervals
      PROVE  /\ i <= shift_idx - 1 /\ i < num_intervals => borders'[i] = MergedB[i]
             /\ i > shift_idx - 1 => borders'[i] = HalvedB[i]
  <2>1. borders'[i] = IF i = shift_idx THEN HalvedB[i] ELSE borders[i]
    BY <1>4, <1>5, <1>6, <1>7
  <2>2. /\ i <= shift_idx - 1 => i <= shift_idx /\ i # shift_idx
        /\ i > shift_idx - 1 => i > shift_idx \/ i = shift_idx
    BY <1>5, Intervals
  <2>3. QED  BY <1>3, <2>1, <2>2
<1>10. MergeKnown' /\ Merged' = Merged /\ MergedB' = MergedB
       /\ M' = M /\ Halved' = Halved /\ HalvedB' = HalvedB
  BY <1>1, <1>3, SplitKept
<1>11. Above'
  <2>1. \A i \in num_intervals + 1 .. MaxIntervals : i \in 0 .. MaxIntervals /\ i # shift_idx
    BY <1>5, Intervals
  <2>2. QED  BY <1>1, <1>3, <1>4, <1>7, <2>1 DEF Above, SplitKnown
<1>12. SplitKnown'
  BY <1>1, <1>3, <1>10, <1>11 DEF SplitKnown
<1>13. LoadsMerged'
  BY <1>1, <1>3, <1>10 DEF LoadsMerged
<1>14. AtSplitShiftB'
  BY <1>1, <1>3, <1>4, <1>5, <1>9, <1>10, <1>12, <1>13 DEF AtSplitShiftB
<1>15. Types' /\ state' = "SPLIT_SHIFTB"
  BY <1>1, <1>2, <1>3, <1>5, <1>8 DEF Types
<1>16. QED  BY <1>14, <1>15 DEF RoundInv, LoadConserved, AscendingKept

LEMMA SplitShiftBEnd ==
  ASSUME RoundInv, SplitShiftB, ~(shift_idx > M + 1)
  PROVE  RoundInv'
<1>1. /\ state = "SPLIT_SHIFTB"
      /\ UNCHANGED <<bcnt, border_out_valid, curr, lb_idx, pf_idx, oldBorders, oldLoads,
                     total_sum, act_num_intervals, max2_idx, mid_bdr, split_left, split_right>>
      /\ state' = IF shift_idx = max2_idx + 1 THEN "SPLIT_SHIFTC" ELSE "SPLIT_SHIFTB"
  BY DEF SplitShiftB, Edge, counting, outputs, history, statistics, splitting
<1>2. AtSplitShiftB /\ Types
  BY <1>1 DEF RoundInv
<1>3. /\ SplitKnown /\ LoadsMerged /\ mid_bdr = HalvedB[M + 1]
      /\ max2_idx = M /\ M \in 0 .. num_intervals - 2 /\ E \in 1 .. num_intervals - 1
      /\ act_num_intervals = num_intervals - 1
      /\ shift_idx \in M + 1 .. num_intervals
      /\ \A i \in 0 .. num_intervals :
           /\ i <= shift_idx /\ i < num_intervals => borders[i] = MergedB[i]
           /\ i > shift_idx => borders[i] = HalvedB[i]
  BY <1>2 DEF AtSplitShiftB, SplitKnown, MergeKnown
<1>4. shift_idx = M + 1 /\ shift_idx \in 0 .. num_intervals
      /\ 0 .. num_intervals \subseteq 0 .. MaxIntervals
      /\ num_intervals - 1 \in M + 1 .. num_intervals - 1
  BY <1>3, Intervals
<1>5. /\ borders' = [borders EXCEPT ![M + 1] = HalvedB[M + 1]]
      /\ shift_idx' = num_intervals - 1 /\ state' = "SPLIT_SHIFTC"
  BY <1>1, <1>3, <1>4 DEF SplitShiftB
<1>6. /\ borders \in [0 .. MaxIntervals -> Word] /\ HalvedB[M + 1] \in Word
  <2>1. HalvedB \in [0 .. num_intervals -> Word]
    BY <1>2, <1>3, HalvedIs
  <2>2. QED  BY <1>2, <1>4, <2>1 DEF Types
<1>7. borders' \in [0 .. MaxIntervals -> Word]
  BY <1>5, <1>6
<1>8. ASSUME NEW i \in 0 .. num_intervals PROVE borders'[i] = HalvedB[i]
  <2>1. borders'[i] = IF i = M + 1 THEN HalvedB[i] ELSE borders[i]
    BY <1>4, <1>5, <1>6
  <2>2. CASE i = M + 1
    BY <2>1, <2>2
  <2>3. CASE i # M + 1
    <3>1. CASE i \in 0 .. M
      <4>1. i <= shift_idx /\ i < num_intervals
        BY <1>3, <1>4, <3>1, Intervals
      <4>2. HalvedB[i] = MergedB[i]
        BY <1>2, <1>3, <3>1, HalvedAt
      <4>3. QED  BY <1>3, <2>1, <2>3, <4>1, <4>2
    <3>2. CASE i \notin 0 .. M
      <4>1. i > shift_idx
        BY <1>3, <1>4, <2>3, <3>2, Intervals
      <4>2. QED  BY <1>3, <2>1, <2>3, <4>1
    <3>3. QED  BY <3>1, <3>2
  <2>4. QED  BY <2>2, <2>3
<1>9. MergeKnown' /\ Merged' = Merged /\ MergedB' = MergedB
      /\ M' = M /\ Halved' = Halved /\ HalvedB' = HalvedB
  BY <1>1, <1>3, SplitKept
<1>10. Above'
  <2>1. \A i \in num_intervals + 1 .. MaxIntervals : i \in 0 .. MaxIntervals /\ i # M + 1
    BY <1>3, Intervals
  <2>2. QED  BY <1>1, <1>3, <1>5, <1>6, <2>1 DEF Above, SplitKnown
<1>11. SplitKnown'
  BY <1>1, <1>3, <1>9, <1>10 DEF SplitKnown
<1>12. ASSUME NEW i \in Index
       PROVE  /\ i <= num_intervals - 1 /\ i < num_intervals - 1 => bcnt[i] = Merged[i]
              /\ ~(i > num_intervals - 1)
  <2>1. /\ i < num_intervals - 1 => i \in 0 .. num_intervals - 2
        /\ ~(i > num_intervals - 1)
    BY Intervals DEF Index
  <2>2. QED  BY <1>3, <2>1 DEF LoadsMerged
<1>13. AtSplitShiftC'
  BY <1>1, <1>4, <1>5, <1>8, <1>9, <1>11, <1>12 DEF AtSplitShiftC
<1>14. Types'
  BY <1>1, <1>2, <1>5, <1>7 DEF Types
<1>15. QED  BY <1>5, <1>13, <1>14 DEF RoundInv, LoadConserved, AscendingKept

LEMMA SplitShiftCStep ==
  ASSUME RoundInv, SplitShiftC, shift_idx > M + 1
  PROVE  RoundInv'
<1>1. /\ state = "SPLIT_SHIFTC"
      /\ UNCHANGED <<borders, border_out_valid, curr, lb_idx, pf_idx, oldBorders, oldLoads,
                     total_sum, max2_idx, split_left, split_right>>
      /\ state' = IF shift_idx = max2_idx + 1 THEN "PACK_OUT" ELSE "SPLIT_SHIFTC"
  BY DEF SplitShiftC, Edge, counting, outputs, history, statistics, splitting
<1>2. AtSplitShiftC /\ Types
  BY <1>1 DEF RoundInv
<1>3. /\ SplitKnown
      /\ max2_idx = M /\ M \in 0 .. num_intervals - 2 /\ E \in 1 .. num_intervals - 1
      /\ act_num_intervals = num_intervals - 1
      /\ shift_idx \in M + 1 .. num_intervals - 1
      /\ \A i \in 0 .. num_intervals : borders[i] = HalvedB[i]
      /\ \A i \in Index :
           /\ i <= shift_idx /\ i < num_intervals - 1 => bcnt[i] = Merged[i]
           /\ i > shift_idx => bcnt[i] = Halved[i]
  BY <1>2 DEF AtSplitShiftC, SplitKnown, MergeKnown
<1>4. /\ bcnt' = [bcnt EXCEPT ![shift_idx] = bcnt[shift_idx - 1]]
      /\ shift_idx' = shift_idx - 1 /\ act_num_intervals' = act_num_intervals
  BY <1>3 DEF SplitShiftC
<1>5. /\ shift_idx \in M + 2 .. num_intervals - 1 /\ shift_idx \in Int
      /\ shift_idx \in Index /\ shift_idx - 1 \in Index
      /\ shift_idx - 1 <= shift_idx /\ shift_idx - 1 < num_intervals - 1
      /\ shift_idx - 1 \in M + 1 .. num_intervals - 1 /\ shift_idx # M + 1
  BY <1>3, Intervals DEF Index
<1>6. bcnt[shift_idx - 1] = Halved[shift_idx]
  <2>1. bcnt[shift_idx - 1] = Merged[shift_idx - 1]
    BY <1>3, <1>5
  <2>2. Halved[shift_idx] = Merged[shift_idx - 1]
    BY <1>2, <1>3, <1>5, HalvedAt
  <2>3. QED  BY <2>1, <2>2
<1>7. /\ bcnt \in [0 .. MaxIntervals - 1 -> Word] /\ Index \subseteq 0 .. MaxIntervals - 1
      /\ bcnt[shift_idx - 1] \in Word
  BY <1>2, <1>5, Intervals DEF Types
<1>8. bcnt' \in [0 .. MaxIntervals - 1 -> Word]
  BY <1>4, <1>7
<1>9. ASSUME NEW i \in Index
      PROVE  /\ i <= shift_idx - 1 /\ i < num_intervals - 1 => bcnt'[i] = Merged[i]
             /\ i > shift_idx - 1 => bcnt'[i] = Halved[i]
  <2>1. bcnt'[i] = IF i = shift_idx THEN Halved[i] ELSE bcnt[i]
    BY <1>4, <1>5, <1>6, <1>7
  <2>2. /\ i <= shift_idx - 1 => i <= shift_idx /\ i # shift_idx
        /\ i > shift_idx - 1 => i > shift_idx \/ i = shift_idx
    BY <1>5, Intervals
  <2>3. QED  BY <1>3, <2>1, <2>2
<1>10. MergeKnown' /\ Merged' = Merged /\ MergedB' = MergedB
       /\ M' = M /\ Halved' = Halved /\ HalvedB' = HalvedB
  BY <1>1, <1>3, SplitKept
<1>11. SplitKnown'
  BY <1>1, <1>3, <1>4, <1>10 DEF SplitKnown, Above
<1>12. AtSplitShiftC'
  BY <1>1, <1>3, <1>4, <1>5, <1>9, <1>10, <1>11 DEF AtSplitShiftC
<1>13. Types' /\ state' = "SPLIT_SHIFTC"
  BY <1>1, <1>2, <1>3, <1>5, <1>8 DEF Types
<1>14. QED  BY <1>12, <1>13 DEF RoundInv, LoadConserved, AscendingKept

-----------------------------------------------------------------------------
(***************************************************************************)
(* What merge and split keep                                               *)
(***************************************************************************)
\* The merge keeps the sum of the loads, cut to a word.
LEMMA MergeTotal ==
  ASSUME Types, E \in 1 .. num_intervals - 1
  PROVE  /\ Total(Merged, 0 .. num_intervals - 2) \in Nat
         /\ Total(Merged, 0 .. num_intervals - 2) % Modulus = Total(Load, Index) % Modulus
<1> DEFINE k == E - 1
           n == num_intervals - 1
           L == 0 .. k - 1
           a == Total(Load, L)
           b == Total(Load, k + 2 .. n)
           s == Load[k] + Load[k + 1]
<1>1. /\ k \in Nat /\ n \in Nat /\ k < n /\ k <= n - 1 /\ n - 1 \in Nat /\ k + 1 = E
      /\ Index = 0 .. n /\ num_intervals - 2 = n - 1 /\ k \in 0 .. n - 1
      /\ k + 1 \in Nat /\ n - 1 \in Int /\ k + 1 <= (n - 1) + 1
      /\ (k + 1) + 1 = k + 2 /\ (n - 1) + 1 = n
  BY Intervals DEF Index
<1>2. /\ \A i \in 0 .. n : Load[i] \in Nat
      /\ Load[k] \in Nat /\ Load[k + 1] \in Nat
  <2>1. \A i \in Index : Load[i] \in Word
    BY LoadType
  <2>2. \A i \in 0 .. n : Load[i] \in Nat
    BY <1>1, <2>1, WordsAreNumbers
  <2>3. k \in 0 .. n /\ k + 1 \in 0 .. n
    BY <1>1
  <2>4. QED  BY <2>2, <2>3
<1>3. /\ \A i \in 0 .. n - 1 : Merged[i] \in Nat
      /\ \A i \in L : Merged[i] = Load[i]
      /\ Merged[k] = s % Modulus
      /\ \A i \in k + 1 .. n - 1 : Merged[i] = Load[i + 1] /\ Merged[i] \in Nat
  <2>1. /\ Merged \in [0 .. num_intervals - 2 -> Word]
        /\ \A i \in 0 .. num_intervals - 2 :
             Merged[i] = IF i < E - 1 THEN Load[i]
                         ELSE IF i = E - 1 THEN (Load[i] + Load[E]) % Modulus ELSE Load[i + 1]
    BY MergedIs
  <2>2. \A i \in 0 .. n - 1 : Merged[i] \in Nat
    BY <1>1, <2>1, WordsAreNumbers
  <2>3. ASSUME NEW i \in L PROVE Merged[i] = Load[i]
    <3>1. i \in 0 .. num_intervals - 2 /\ i < E - 1
      BY <1>1
    <3>2. QED  BY <2>1, <3>1, Zenon
  <2>4. Merged[k] = s % Modulus
    <3>1. k \in 0 .. num_intervals - 2 /\ ~(k < E - 1) /\ k = E - 1
      BY <1>1
    <3>2. Merged[k] = (Load[k] + Load[E]) % Modulus
      <4> HIDE DEF k
      <4>1. QED  BY <2>1, <3>1, Zenon
    <3>3. QED  BY <1>1, <3>2
  <2>5. ASSUME NEW i \in k + 1 .. n - 1 PROVE Merged[i] = Load[i + 1] /\ Merged[i] \in Nat
    <3>1. i \in 0 .. num_intervals - 2 /\ ~(i < E - 1) /\ i # E - 1 /\ i \in 0 .. n - 1
      BY <1>1
    <3>2. Merged[i] = Load[i + 1]
      BY <2>1, <3>1, Zenon
    <3>3. QED  BY <2>2, <3>1, <3>2
  <2>6. QED  BY <2>2, <2>3, <2>4, <2>5
<1> HIDE DEF k, n
<1>4. /\ a \in Nat /\ b \in Nat
      /\ Total(Load, 0 .. n) = a + Load[k] + Load[k + 1] + b
  BY <1>1, <1>2, TotalAround
<1>5. /\ Total(Merged, L) \in Nat /\ Total(Merged, k + 1 .. n - 1) \in Nat
      /\ Total(Merged, 0 .. n - 1) = Total(Merged, L) + Merged[k] + Total(Merged, k + 1 .. n - 1)
  <2>1. 0 \in Nat /\ 0 <= k
    BY <1>1
  <2>2. QED  BY <1>1, <1>3, <2>1, TotalCut
<1>6. Total(Merged, L) = a
  BY <1>3, TotalEqual
<1>7. Total(Merged, k + 1 .. n - 1) = b
  <2> DEFINE m == k + 1
             p == n - 1
  <2>1. /\ m \in Nat /\ p \in Int /\ m <= p + 1 /\ m + 1 = k + 2 /\ p + 1 = n
        /\ \A i \in m .. p : Merged[i] = Load[i + 1] /\ Merged[i] \in Nat
    BY <1>1, <1>3
  <2> HIDE DEF m, p
  <2>2. Total(Merged, m .. p) = Total(Load, m + 1 .. p + 1)
    BY <2>1, TotalShifted
  <2>3. QED  BY <2>1, <2>2 DEF m, p
<1>8. s \in Nat /\ s % Modulus \in Nat /\ a + b \in Nat
  <2>1. s \in Nat
    BY <1>2
  <2> HIDE DEF s
  <2>2. s % Modulus \in Word
    BY <2>1, Cut
  <2>3. QED  BY <1>4, <2>1, <2>2, WordsAreNumbers
<1>9. Total(Merged, 0 .. n - 1) = (s % Modulus) + (a + b)
  <2>1. Total(Merged, 0 .. n - 1) = a + (s % Modulus) + b
    BY <1>3, <1>5, <1>6, <1>7
  <2> HIDE DEF a, b, s
  <2>2. QED  BY <1>4, <1>8, <2>1
<1>10. Total(Load, 0 .. n) = s + (a + b)
  <2> HIDE DEF a, b
  <2>1. QED  BY <1>2, <1>4
<1>11. ((s % Modulus) + (a + b)) % Modulus = (s + (a + b)) % Modulus
  <2> HIDE DEF a, b, s
  <2>1. QED  BY <1>8, CutSum
<1>12. (s % Modulus) + (a + b) \in Nat
  <2> HIDE DEF a, b, s
  <2>1. QED  BY <1>8
<1>13. QED  BY <1>1, <1>9, <1>10, <1>11, <1>12

\* The split keeps it exactly.
LEMMA SplitTotal ==
  ASSUME Types, E \in 1 .. num_intervals - 1, M \in 0 .. num_intervals - 2
  PROVE  Total(Halved, Index) = Total(Merged, 0 .. num_intervals - 2)
<1> DEFINE n == num_intervals - 1
           L == 0 .. M - 1
           a == Total(Merged, L)
           b == Total(Merged, M + 1 .. n - 1)
<1>1. /\ M \in Nat /\ n \in Nat /\ M < n /\ M <= n - 1 /\ n - 1 \in Nat
      /\ Index = 0 .. n /\ num_intervals - 2 = n - 1 /\ M \in 0 .. n - 1
  BY Intervals DEF Index
<1>2. \A i \in 0 .. n : Halved[i] \in Nat
  BY <1>1, HalvedIs, WordsAreNumbers
<1>3. \A i \in 0 .. n - 1 : Merged[i] \in Word /\ Merged[i] \in Nat
  BY <1>1, MergedIs, WordsAreNumbers
<1>4. /\ \A i \in L : Halved[i] = Merged[i]
      /\ Halved[M] = Merged[M] \div 2 /\ Halved[M + 1] = Merged[M] - (Merged[M] \div 2)
      /\ \A i \in M + 2 .. n : Halved[i] = Merged[i - 1]
  BY HalvedAt
<1> HIDE DEF n
<1>5. /\ Total(Halved, L) \in Nat /\ Total(Halved, M + 2 .. n) \in Nat
      /\ Total(Halved, 0 .. n)
           = Total(Halved, L) + Halved[M] + Halved[M + 1] + Total(Halved, M + 2 .. n)
  BY <1>1, <1>2, TotalAround
<1>6. /\ a \in Nat /\ b \in Nat
      /\ Total(Merged, 0 .. n - 1) = a + Merged[M] + b
  <2>1. 0 \in Nat /\ 0 <= M
    BY <1>1
  <2>2. \A i \in 0 .. n - 1 : Merged[i] \in Nat
    BY <1>3
  <2>3. QED  BY <1>1, <2>1, <2>2, TotalCut
<1>7. Total(Halved, L) = a
  BY <1>4, TotalEqual
<1>8. Total(Halved, M + 2 .. n) = b
  <2> DEFINE m == M + 1
             p == n - 1
  <2>1. /\ m \in Nat /\ p \in Int /\ m <= p + 1 /\ m + 1 = M + 2 /\ p + 1 = n
    BY <1>1
  <2>2. ASSUME NEW i \in m .. p PROVE Merged[i] = Halved[i + 1] /\ Merged[i] \in Nat
    <3>1. i + 1 \in M + 2 .. n /\ (i + 1) - 1 = i /\ i \in 0 .. n - 1
      BY <1>1
    <3>2. QED  BY <1>3, <1>4, <3>1
  <2> HIDE DEF m, p
  <2>3. Total(Merged, m .. p) = Total(Halved, m + 1 .. p + 1)
    BY <2>1, <2>2, TotalShifted
  <2>4. QED  BY <2>1, <2>3 DEF m, p
<1>9. Merged[M] \in Word /\ Merged[M] \in Nat /\ Merged[M] \div 2 \in Nat
  BY <1>1, <1>3, Numbers
<1>10. Total(Halved, 0 .. n) = a + (Merged[M] \div 2) + (Merged[M] - (Merged[M] \div 2)) + b
  BY <1>4, <1>5, <1>7, <1>8
<1>11. Total(Halved, 0 .. n) = a + Merged[M] + b
  <2> DEFINE h == Merged[M] \div 2
  <2>1. h \in Nat
    BY <1>9
  <2> HIDE DEF a, b, h
  <2>2. QED  BY <1>6, <1>9, <1>10, <2>1 DEF h
<1>12. QED  BY <1>1, <1>6, <1>11

\* Merge and split keep the borders in order.
LEMMA OrderKept ==
  ASSUME Types, E \in 1 .. num_intervals - 1, M \in 0 .. num_intervals - 2,
         Ascending(oldBorders),
         \A i \in Index : oldBorders[i] + oldBorders[i + 1] < Modulus
  PROVE  \A i \in Index : HalvedB[i] <= HalvedB[i + 1]
<1> DEFINE n == num_intervals
           f == oldBorders
           g == MergedB
           low == g[M]
           high == g[M + 1]
<1>1. n \in Nat /\ E \in 1 .. n - 1 /\ M \in 0 .. n - 2 /\ Index = 0 .. n - 1
  BY Intervals DEF Index
<1>2. \A i \in 0 .. n : f[i] \in Nat
  <2>1. \A i \in 0 .. n : i \in 0 .. MaxIntervals
    BY Intervals
  <2>2. QED  BY <2>1, WordsAreNumbers DEF Types
<1>3. \A i \in 0 .. n - 1 : f[i] <= f[i + 1] /\ f[i] + f[i + 1] < Modulus
  BY <1>1 DEF Ascending
<1>4. /\ \A i \in 0 .. n - 1 : g[i] = IF i < E THEN f[i] ELSE f[i + 1]
      /\ \A i \in 0 .. n - 1 : g[i] \in Nat
  BY MergedIs, WordsAreNumbers
<1>5. ASSUME NEW i \in 0 .. n - 2
      PROVE  g[i] <= g[i + 1] /\ g[i] + g[i + 1] < Modulus
  <2>1. /\ i \in 0 .. n - 1 /\ i + 1 \in 0 .. n - 1 /\ i + 2 \in 0 .. n
        /\ (i + 1) + 1 = i + 2 /\ i \in 0 .. n /\ i + 1 \in 0 .. n
    BY <1>1
  <2>2. /\ f[i] \in Nat /\ f[i + 1] \in Nat /\ f[i + 2] \in Nat
        /\ f[i] <= f[i + 1] /\ f[i] + f[i + 1] < Modulus
        /\ f[i + 1] <= f[i + 2] /\ f[i + 1] + f[i + 2] < Modulus
    BY <1>2, <1>3, <2>1
  <2>3. /\ g[i] = IF i < E THEN f[i] ELSE f[i + 1]
        /\ g[i + 1] = IF i + 1 < E THEN f[i + 1] ELSE f[i + 2]
    BY <1>4, <2>1
  <2>4. Modulus \in Nat
    BY Numbers
  <2> HIDE DEF f, g
  <2>5. /\ f[i] <= f[i + 2]
        /\ f[i] + f[i + 2] < Modulus
    BY <2>2, <2>4
  <2>6. CASE i + 1 < E
    BY <1>1, <2>2, <2>3, <2>6
  <2>7. CASE ~(i + 1 < E) /\ i < E
    BY <2>3, <2>5, <2>7
  <2>8. CASE ~(i < E)
    <3>1. ~(i + 1 < E)
      BY <1>1, <2>8
    <3>2. QED  BY <2>2, <2>3, <2>8, <3>1
  <2>9. QED  BY <2>6, <2>7, <2>8
<1>6. /\ low \in Nat /\ high \in Nat /\ low <= high /\ low + high < Modulus
      /\ HalvedB[M + 1] = ((low + high) % Modulus) \div 2
  <2>1. M \in 0 .. n - 1 /\ M + 1 \in 0 .. n - 1
    BY <1>1
  <2>2. QED  BY <1>1, <1>4, <1>5, <2>1, HalvedAt
<1>7. low <= HalvedB[M + 1] /\ HalvedB[M + 1] <= high
  <2>1. (low + high) % Modulus = low + high
    <3>1. low + high \in Nat /\ Modulus \in Nat \ {0} /\ low + high < 2 * Modulus
      <4> HIDE DEF low, high
      <4>1. QED  BY <1>6, Numbers
    <3> HIDE DEF low, high
    <3>2. QED  BY <1>6, <3>1, Wrap
  <2>2. HalvedB[M + 1] = (low + high) \div 2
    BY <1>6, <2>1
  <2> HIDE DEF low, high
  <2>3. QED  BY <1>6, <2>2
<1>8. /\ \A i \in 0 .. M : HalvedB[i] = g[i]
      /\ \A i \in M + 2 .. n : HalvedB[i] = g[i - 1]
  BY HalvedAt
<1>9. ASSUME NEW i \in Index PROVE HalvedB[i] <= HalvedB[i + 1]
  <2>1. CASE i < M
    <3>1. i \in 0 .. M /\ i + 1 \in 0 .. M /\ i \in 0 .. n - 2
      BY <1>1, <2>1
    <3>2. QED  BY <1>5, <1>8, <3>1
  <2>2. CASE i = M
    <3>1. M \in 0 .. M
      BY <1>1
    <3>2. HalvedB[M] = low
      BY <1>8, <3>1
    <3>3. QED  BY <1>7, <2>2, <3>2
  <2>3. CASE i = M + 1
    <3>1. M + 2 \in M + 2 .. n /\ (M + 2) - 1 = M + 1 /\ (M + 1) + 1 = M + 2
      BY <1>1, <2>3
    <3>2. HalvedB[M + 2] = high
      BY <1>8, <3>1
    <3>3. QED  BY <1>7, <2>3, <3>1, <3>2
  <2>4. CASE i > M + 1
    <3>1. /\ i \in M + 2 .. n /\ i + 1 \in M + 2 .. n /\ (i + 1) - 1 = i
          /\ i - 1 \in 0 .. n - 2 /\ (i - 1) + 1 = i
      BY <1>1, <2>4
    <3>2. HalvedB[i] = g[i - 1] /\ HalvedB[i + 1] = g[i]
      BY <1>8, <3>1
    <3>3. g[i - 1] <= g[i]
      BY <1>5, <3>1
    <3>4. QED  BY <3>2, <3>3
  <2>5. QED  BY <1>1, <2>1, <2>2, <2>3, <2>4
<1>10. QED  BY <1>9

-----------------------------------------------------------------------------
(***************************************************************************)
(* The round ends, and the borders leave                                   *)
(***************************************************************************)
LEMMA SplitShiftCEnd ==
  ASSUME RoundInv, SplitShiftC, ~(shift_idx > M + 1)
  PROVE  /\ RoundInv' /\ state' = "PACK_OUT" /\ Tilted
         /\ \A i \in Index : bcnt'[i] = Halved[i]
         /\ \A i \in 0 .. num_intervals : borders'[i] = HalvedB[i]
         /\ \A i \in num_intervals + 1 .. MaxIntervals : borders'[i] = oldBorders[i]
<1>1. /\ state = "SPLIT_SHIFTC"
      /\ UNCHANGED <<borders, border_out_valid, curr, lb_idx, pf_idx, oldBorders, oldLoads,
                     total_sum, max2_idx, split_left, split_right>>
      /\ state' = IF shift_idx = max2_idx + 1 THEN "PACK_OUT" ELSE "SPLIT_SHIFTC"
  BY DEF SplitShiftC, Edge, counting, outputs, history, statistics, splitting
<1>2. AtSplitShiftC /\ Types
  BY <1>1 DEF RoundInv
<1>3. /\ SplitKnown /\ MergeKnown /\ Tilted
      /\ max2_idx = M /\ M \in 0 .. num_intervals - 2 /\ E \in 1 .. num_intervals - 1
      /\ split_left = Halved[M] /\ split_right = Halved[M + 1]
      /\ shift_idx \in M + 1 .. num_intervals - 1
      /\ \A i \in 0 .. num_intervals : borders[i] = HalvedB[i]
      /\ \A i \in Index :
           /\ i <= shift_idx /\ i < num_intervals - 1 => bcnt[i] = Merged[i]
           /\ i > shift_idx => bcnt[i] = Halved[i]
  BY <1>2 DEF AtSplitShiftC, SplitKnown, MergeKnown
<1>4. /\ shift_idx = M + 1 /\ M \in Index /\ M + 1 \in Index /\ M # M + 1 /\ M \in Int
      /\ Index \subseteq 0 .. MaxIntervals - 1
  BY <1>3, Intervals DEF Index
<1>5. /\ bcnt' = [bcnt EXCEPT ![M] = Halved[M], ![M + 1] = Halved[M + 1]]
      /\ state' = "PACK_OUT"
  BY <1>1, <1>3, <1>4 DEF SplitShiftC
<1>6. /\ bcnt \in [0 .. MaxIntervals - 1 -> Word]
      /\ Halved[M] \in Word /\ Halved[M + 1] \in Word
  <2>1. Halved \in [Index -> Word]
    BY <1>2, <1>3, HalvedIs
  <2>2. QED  BY <1>2, <1>4, <2>1 DEF Types
<1>7. bcnt' \in [0 .. MaxIntervals - 1 -> Word]
  BY <1>5, <1>6
<1>8. ASSUME NEW i \in Index PROVE bcnt'[i] = Halved[i]
  <2>1. i \in 0 .. MaxIntervals - 1
    BY <1>4
  <2>2. CASE i = M
    BY <1>4, <1>5, <1>6, <2>1, <2>2
  <2>3. CASE i = M + 1
    BY <1>4, <1>5, <1>6, <2>1, <2>3
  <2>4. CASE i # M /\ i # M + 1
    <3>1. bcnt'[i] = bcnt[i]
      BY <1>5, <1>6, <2>1, <2>4
    <3>2. CASE i \in 0 .. M - 1
      <4>1. i <= shift_idx /\ i < num_intervals - 1
        BY <1>3, <1>4, <3>2, Intervals
      <4>2. Halved[i] = Merged[i]
        BY <1>2, <1>3, <3>2, HalvedAt
      <4>3. QED  BY <1>3, <3>1, <4>1, <4>2
    <3>3. CASE i \notin 0 .. M - 1
      <4>1. i > shift_idx
        BY <1>4, <2>4, <3>3, Intervals DEF Index
      <4>2. QED  BY <1>3, <3>1, <4>1
    <3>4. QED  BY <3>2, <3>3
  <2>5. QED  BY <2>2, <2>3, <2>4
<1>9. Types'
  BY <1>1, <1>2, <1>5, <1>7 DEF Types
<1>10. LoadConserved'
  <2>1. Total(bcnt', Index) = Total(Halved, Index)
    BY <1>8, TotalEqual
  <2>2. Total(Halved, Index) = Total(Merged, 0 .. num_intervals - 2)
    BY <1>2, <1>3, SplitTotal
  <2>3. Total(Merged, 0 .. num_intervals - 2) % Modulus = Total(Load, Index) % Modulus
    BY <1>2, <1>3, MergeTotal
  <2>4. total_sum = Total(Load, Index) % Modulus
    BY <1>3 DEF MergeKnown, Summed
  <2>5. total_sum = Total(bcnt', Index) % Modulus
    BY <2>1, <2>2, <2>3, <2>4
  <2>6. QED  BY <1>1, <2>5 DEF LoadConserved, Index
<1>11. AscendingKept'
  <2>1. SUFFICES ASSUME Ascending(oldBorders),
                        \A i \in Index : oldBorders[i] + oldBorders[i + 1] < Modulus
                 PROVE  \A i \in Index : borders[i] <= borders[i + 1]
    BY <1>1 DEF AscendingKept, Ascending, Index
  <2>2. \A i \in Index : HalvedB[i] <= HalvedB[i + 1]
    BY <1>2, <1>3, <2>1, OrderKept
  <2>3. \A i \in Index : i \in 0 .. num_intervals /\ i + 1 \in 0 .. num_intervals
    BY Intervals DEF Index
  <2>4. QED  BY <1>3, <2>2, <2>3
<1>12. RoundInv'
  BY <1>5, <1>9, <1>10, <1>11 DEF RoundInv
<1>13. QED  BY <1>1, <1>3, <1>5, <1>8, <1>12 DEF SplitKnown, Above

LEMMA PackOutOK ==
  ASSUME RoundInv, PackOut
  PROVE  RoundInv'
<1>1. /\ state = "PACK_OUT" /\ state' = "STREAM_OUT" /\ out_idx' = 1
      /\ border_out_valid' = FALSE
      /\ UNCHANGED <<borders, bcnt, curr, oldBorders, oldLoads, total_sum>>
  BY DEF PackOut, Edge, counting, history, statistics
<1>2. Types'
  BY <1>1 DEF RoundInv, Types
<1>3. out_idx' \in 1 .. MaxIntervals + 1
  BY <1>1, Intervals
<1>4. LoadConserved' /\ AscendingKept'
  BY <1>1 DEF RoundInv, LoadConserved, AscendingKept, Ascending
<1>5. QED  BY <1>1, <1>2, <1>3, <1>4 DEF RoundInv

LEMMA StreamOutOK ==
  ASSUME RoundInv, StreamOut
  PROVE  RoundInv'
<1>1. /\ state = "STREAM_OUT"
      /\ state' = IF out_idx > MaxIntervals THEN "DONE" ELSE "STREAM_OUT"
      /\ UNCHANGED <<borders, bcnt, curr, oldBorders, oldLoads, total_sum>>
  BY DEF StreamOut, Edge, counting, history, statistics
<1>2. out_idx \in 1 .. MaxIntervals + 1 /\ (out_idx > MaxIntervals <=> ~(out_idx <= MaxIntervals))
  <2>1. out_idx \in 1 .. MaxIntervals + 1
    BY <1>1 DEF RoundInv
  <2>2. QED  BY <2>1, Intervals
<1>3. /\ border_out_valid' \in BOOLEAN
      /\ border_out_valid' => state' = "STREAM_OUT"
  BY <1>1, <1>2 DEF StreamOut
<1>4. Types'
  BY <1>1, <1>3 DEF RoundInv, Types
<1>5. state' = "STREAM_OUT" => out_idx' \in 1 .. MaxIntervals + 1
  <2>1. SUFFICES ASSUME state' = "STREAM_OUT" PROVE out_idx' \in 1 .. MaxIntervals + 1
    OBVIOUS
  <2>2. out_idx <= MaxIntervals
    BY <1>1, <1>2, <2>1
  <2>3. out_idx' = out_idx + 1
    BY <2>2 DEF StreamOut
  <2>4. QED  BY <1>2, <2>2, <2>3, Intervals
<1>6. state' \in {"STREAM_OUT", "DONE"} /\ LoadConserved' /\ AscendingKept'
  BY <1>1 DEF RoundInv, LoadConserved, AscendingKept, Ascending
<1>7. QED  BY <1>4, <1>5, <1>6 DEF RoundInv

LEMMA FinishOK ==
  ASSUME RoundInv, Finish
  PROVE  RoundInv'
<1>1. /\ state = "DONE" /\ state' = "WAIT_START"
      /\ UNCHANGED <<borders, bcnt, border_out_valid, curr, oldBorders, oldLoads>>
  BY DEF Finish, Edge, counting, history
<1>2. Types'
  BY <1>1 DEF RoundInv, Types
<1>3. QED  BY <1>1, <1>2 DEF RoundInv, LoadConserved, AscendingKept

-----------------------------------------------------------------------------
(***************************************************************************)
(* The theorems about one adjuster                                         *)
(***************************************************************************)
LEMMA ClockOK ==
  ASSUME RoundInv, NEW start \in BOOLEAN, NEW w \in Words, Clock(start, w)
  PROVE  RoundInv'
<1>1. CASE WaitStart(start)  BY <1>1, WaitStartOK
<1>2. CASE ClearCurr         BY <1>2, ClearCurrOK
<1>3. CASE Accum(w)          BY <1>3, AccumOK
<1>4. CASE DecayInit         BY <1>4, DecayInitOK
<1>5. CASE DecayUpdate       BY <1>5, DecayUpdateOK
<1>6. CASE StatsInit         BY <1>6, StatsInitOK
<1>7. CASE Stats             BY <1>7, StatsStep, StatsEnd
<1>8. CASE Check             BY <1>8, CheckOK
<1>9. CASE MergePrep         BY <1>9, MergePrepOK
<1>10. CASE MergeShiftB      BY <1>10, MergeShiftBStep, MergeShiftBEnd
<1>11. CASE MergeShiftC      BY <1>11, MergeShiftCStep, MergeShiftCEnd
<1>12. CASE SplitFindMax     BY <1>12, SplitFindMaxStep, SplitFindMaxEnd
<1>13. CASE SplitShiftB      BY <1>13, SplitShiftBStep, SplitShiftBEnd
<1>14. CASE SplitShiftC      BY <1>14, SplitShiftCStep, SplitShiftCEnd
<1>15. CASE PackOut          BY <1>15, PackOutOK
<1>16. CASE StreamOut        BY <1>16, StreamOutOK
<1>17. CASE Finish           BY <1>17, FinishOK
<1>18. QED
  BY <1>1, <1>2, <1>3, <1>4, <1>5, <1>6, <1>7, <1>8, <1>9, <1>10, <1>11, <1>12,
     <1>13, <1>14, <1>15, <1>16, <1>17 DEF Clock

LEMMA StutterOK ==
  ASSUME RoundInv, UNCHANGED vars
  PROVE  RoundInv'
<1>1. /\ UNCHANGED <<state, borders, bcnt, iv_idx, out_idx, shift_idx, max_val,
                     act_num_intervals, merge_end, max2_idx>>
      /\ UNCHANGED <<curr, lb_idx, pf_idx, total_sum, min_val, min_idx>>
      /\ UNCHANGED <<mid_bdr, split_left, split_right, border_out_valid, oldBorders, oldLoads>>
  BY DEF vars, counting, statistics, splitting, outputs, history
<1>2. /\ Load' = Load /\ Tilted' = Tilted /\ E' = E /\ Merged' = Merged
      /\ MergedB' = MergedB /\ M' = M /\ Halved' = Halved /\ HalvedB' = HalvedB
  BY <1>1, RoundFixed
<1>3. Types' = Types /\ LoadConserved' = LoadConserved /\ AscendingKept' = AscendingKept
  BY <1>1 DEF Types, LoadConserved, AscendingKept, Ascending
<1>4. AtAccum' = AtAccum /\ AtDecayInit' = AtDecayInit /\ AtDecayUpdate' = AtDecayUpdate
      /\ AtStatsInit' = AtStatsInit /\ AllCounted' = AllCounted
  BY <1>1, <1>2 DEF AtAccum, AtDecayInit, AtDecayUpdate, AtStatsInit, AllCounted
<1>5. Summed' = Summed /\ AtStats' = AtStats
  BY <1>1, <1>2, <1>4 DEF Summed, AtStats
<1>6. AtCheck' = AtCheck /\ AtMergePrep' = AtMergePrep /\ MergeKnown' = MergeKnown
  BY <1>1, <1>2, <1>4, <1>5 DEF AtCheck, AtMergePrep, MergeKnown, FirstLeast
<1>7. Above' = Above /\ BordersMerged' = BordersMerged /\ LoadsMerged' = LoadsMerged
  BY <1>1, <1>2 DEF Above, BordersMerged, LoadsMerged
<1>8. AtMergeShiftB' = AtMergeShiftB /\ AtMergeShiftC' = AtMergeShiftC
      /\ AtSplitFindMax' = AtSplitFindMax /\ SplitKnown' = SplitKnown
  BY <1>1, <1>2, <1>6, <1>7
     DEF AtMergeShiftB, AtMergeShiftC, AtSplitFindMax, SplitKnown, LastGreatest
<1>9. AtSplitShiftB' = AtSplitShiftB /\ AtSplitShiftC' = AtSplitShiftC
  BY <1>1, <1>2, <1>7, <1>8 DEF AtSplitShiftB, AtSplitShiftC
<1>10. QED  BY <1>1, <1>3, <1>4, <1>5, <1>6, <1>8, <1>9 DEF RoundInv

LEMMA NextOK == RoundInv /\ [Next]_vars => RoundInv'
BY ClockOK, StutterOK DEF Next

\* In every state of a round the registers and arrays of the machine hold what
\* BorderAdjustment makes of the borders and loads at its beginning and of the
\* counts it took.
THEOREM RoundInvariance == Spec => []RoundInv
<1>1. QED  BY InitOK, NextOK, PTL DEF Spec

\* Merging and splitting neither lose nor add any load.
THEOREM LoadKept == Spec => []LoadConserved
<1>1. RoundInv => LoadConserved
  BY DEF RoundInv
<1>2. QED  BY RoundInvariance, <1>1, PTL

\* The borders stay in ascending order if no two neighbours add up to more than a
\* register holds.
THEOREM BordersStayAscending == Spec => []AscendingKept
<1>1. RoundInv => AscendingKept
  BY DEF RoundInv
<1>2. QED  BY RoundInvariance, <1>1, PTL

-----------------------------------------------------------------------------
(***************************************************************************)
(* Every round is one adjustment                                           *)
(***************************************************************************)
\* The number of counts taken, as it grows in S_ACCUM.
LEMMA TakenBelow ==
  ASSUME NEW lb \in 0 .. NumLB - 1, NEW pf \in 0 .. NumPifo - 1, NEW iv \in Index
  PROVE  /\ (lb * NumPifo + pf) * num_intervals + iv \in Nat
         /\ (lb * NumPifo + pf) * num_intervals + iv < NumLB * NumPifo * num_intervals
         /\ ((lb * NumPifo + pf) * num_intervals + iv) % num_intervals = iv
<1> DEFINE P == NumPifo
           N == num_intervals
           G == NumLB * NumPifo
           a == lb * NumPifo + pf
<1>1. /\ NumLB \in Nat \ {0} /\ P \in Nat \ {0} /\ N \in Nat \ {0}
      /\ lb \in Nat /\ pf \in Nat /\ iv \in Nat
      /\ lb <= NumLB - 1 /\ pf <= P - 1 /\ iv <= N - 1 /\ iv \in 0 .. N - 1
  BY AdjusterAssumption, Intervals DEF Index
<1>2. a \in Nat /\ G \in Nat
  BY <1>1
<1>3. a <= G - 1
  <2>1. PICK d \in Nat : NumLB = lb + 1 + d
    <3>1. NumLB - 1 - lb \in Nat /\ NumLB = lb + 1 + (NumLB - 1 - lb)
      BY <1>1
    <3>2. QED  BY <3>1
  <2>2. G = lb * P + P + d * P
    BY <1>1, <2>1
  <2>3. lb * P \in Nat /\ d * P \in Nat
    BY <1>1, <2>1
  <2>4. QED  BY <1>1, <2>2, <2>3
<1>4. PICK c \in Nat : G = a + 1 + c
  <2>1. G - 1 - a \in Nat /\ G = a + 1 + (G - 1 - a)
    BY <1>2, <1>3
  <2>2. QED  BY <2>1
<1> HIDE DEF a, P, N, G
<1>5. G * N = a * N + N + c * N /\ a * N \in Nat /\ c * N \in Nat
  BY <1>1, <1>2, <1>4
<1>6. a * N + iv < G * N
  BY <1>1, <1>5
<1>7. a * N + iv \in Nat
  BY <1>1, <1>5
<1>8. (a * N + iv) % N = iv
  <2> DEFINE e == a * N + iv
             q == e \div N
             r == e % N
             k == a - q
  <2>1. q \in Nat /\ r \in 0 .. N - 1 /\ e = N * q + r
    <3> HIDE DEF e
    <3>1. e \in Nat
      BY <1>7 DEF e
    <3>2. QED  BY <1>1, <3>1, DivMod
  <2> HIDE DEF q, r
  <2>2. k * N = a * N - N * q
    BY <1>1, <1>2, <2>1
  <2>3. N * q \in Nat
    BY <1>1, <2>1
  <2>4. k * N = r - iv
    BY <1>1, <1>5, <2>1, <2>2, <2>3
  <2>5. k \in Int
    BY <1>2, <2>1
  <2> HIDE DEF k
  <2>6. r = iv
    BY <1>1, <2>1, <2>4, <2>5, SameRemainder
  <2>7. QED  BY <2>6 DEF r, e
<1>9. QED  BY <1>6, <1>7, <1>8 DEF a, N, P, G

LEMMA InitMapped == Init => Adjustment!Init
<1> SUFFICES ASSUME Init PROVE Adjustment!Init
  OBVIOUS
<1>1. Types
  BY InitOK DEF RoundInv
<1>2. /\ state = "WAIT_START" /\ ~Computing
      /\ curr = [i \in 0 .. MaxIntervals - 1 |-> 0]
      /\ lb_idx = 0 /\ pf_idx = 0 /\ border_out_valid = FALSE
  BY DEF Init, Computing
<1>3. borders \in [0 .. MaxIntervals -> Word] /\ bcnt \in [0 .. MaxIntervals - 1 -> Word]
  BY <1>1 DEF Types
<1>4. /\ [i \in Index |-> bcnt[i]] \in [Index -> Word]
      /\ [i \in Index |-> curr[i]] = [i \in Index |-> 0]
  BY <1>2, <1>3, Intervals
<1>5. (0 * NumPifo + 0) * num_intervals + 0 = 0
  BY AdjusterAssumption, Intervals
<1>6. Adjustment!Silent = Modulus
  BY DEF Adjustment!Silent
<1>7. QED
  BY <1>2, <1>3, <1>4, <1>5, <1>6, Intervals DEF Adjustment!Init, Index

\* A round begins.
LEMMA BeginMapped ==
  ASSUME RoundInv, ClearCurr
  PROVE  Adjustment!Begin
<1>1. /\ state = "CLR_CURR" /\ state' = "ACCUM" /\ ~Computing /\ ~Computing'
      /\ curr' = [i \in 0 .. MaxIntervals - 1 |-> 0]
      /\ lb_idx' = 0 /\ pf_idx' = 0 /\ iv_idx' = 0
      /\ UNCHANGED <<borders, bcnt, border_out, border_out_valid>>
  BY DEF ClearCurr, Edge, Computing
<1>2. [i \in Index |-> curr'[i]] = [i \in Index |-> 0]
  BY <1>1, Intervals
<1>3. (0 * NumPifo + 0) * num_intervals + 0 = 0
  BY AdjusterAssumption, Intervals
<1>4. QED
  BY <1>1, <1>2, <1>3, Intervals DEF Adjustment!Begin, Index

\* A count is collected.
LEMMA CollectMapped ==
  ASSUME RoundInv, NEW w \in Words, Accum(w)
  PROVE  Adjustment!Collect(w)
<1> DEFINE t == (lb_idx * NumPifo + pf_idx) * num_intervals + iv_idx
<1>1. /\ state = "ACCUM" /\ ~Computing
      /\ state' = IF LastWordNow THEN "DECAY_INIT" ELSE "ACCUM"
      /\ UNCHANGED <<borders, bcnt, border_out, border_out_valid, oldBorders, oldLoads>>
      /\ curr' = [curr EXCEPT ![iv_idx] = (@ + w) % Modulus]
  BY DEF Accum, Edge, Computing, outputs, history
<1>2. AtAccum /\ Types
  BY <1>1 DEF RoundInv
<1>3. /\ iv_idx \in Index /\ pf_idx \in 0 .. NumPifo - 1 /\ lb_idx \in 0 .. NumLB - 1
      /\ borders = oldBorders /\ bcnt = oldLoads
  BY <1>2 DEF AtAccum
<1>4. /\ t \in Nat /\ t < NumLB * NumPifo * num_intervals /\ t % num_intervals = iv_idx
  BY <1>3, TakenBelow
<1>5. /\ NumLB \in Nat \ {0} /\ NumPifo \in Nat \ {0} /\ num_intervals \in Nat
      /\ iv_idx \in 0 .. num_intervals - 1
  BY <1>3, AdjusterAssumption, Intervals DEF Index
<1>6. (lb_idx' * NumPifo + pf_idx') * num_intervals
        + (IF state' = "ACCUM" THEN iv_idx' ELSE 0) = t + 1
  <2>1. CASE iv_idx + 1 < num_intervals
    <3>1. /\ ~LastWordNow /\ iv_idx' = iv_idx + 1 /\ pf_idx' = pf_idx /\ lb_idx' = lb_idx
      BY <1>5, <2>1 DEF Accum, LastWordNow
    <3>2. state' = "ACCUM"
      BY <1>1, <3>1
    <3> DEFINE x == (lb_idx * NumPifo + pf_idx) * num_intervals
    <3>3. x \in Int /\ iv_idx \in Int
      BY <1>3, <1>5
    <3>4. (lb_idx' * NumPifo + pf_idx') * num_intervals = x
      BY <3>1
    <3> HIDE DEF x
    <3>5. x + (iv_idx + 1) = (x + iv_idx) + 1
      BY <3>3
    <3>6. QED  BY <3>1, <3>2, <3>4, <3>5 DEF x
  <2>2. CASE ~(iv_idx + 1 < num_intervals)
    <3>1. iv_idx = num_intervals - 1 /\ iv_idx + 1 >= num_intervals
      BY <1>5, <2>2
    <3>2. /\ iv_idx' = 0
          /\ pf_idx' = IF pf_idx + 1 >= NumPifo THEN 0 ELSE pf_idx + 1
          /\ lb_idx' = IF pf_idx + 1 >= NumPifo
                         THEN IF lb_idx + 1 < NumLB THEN lb_idx + 1 ELSE NumLB
                         ELSE lb_idx
      BY <3>1 DEF Accum
    <3>3. lb_idx' * NumPifo + pf_idx' = lb_idx * NumPifo + pf_idx + 1
      <4>1. CASE pf_idx + 1 >= NumPifo
        <5>1. pf_idx + 1 = NumPifo /\ pf_idx' = 0 /\ lb_idx' = lb_idx + 1
          BY <1>3, <1>5, <3>2, <4>1
        <5>2. (lb_idx + 1) * NumPifo = lb_idx * NumPifo + NumPifo /\ lb_idx * NumPifo \in Int
          BY <1>3, <1>5
        <5>3. QED  BY <1>3, <1>5, <5>1, <5>2
      <4>2. CASE ~(pf_idx + 1 >= NumPifo)
        <5>1. pf_idx' = pf_idx + 1 /\ lb_idx' = lb_idx /\ lb_idx * NumPifo \in Int
          BY <1>3, <1>5, <3>2, <4>2
        <5>2. QED  BY <1>3, <5>1
      <4>3. QED  BY <4>1, <4>2
    <3> DEFINE y == lb_idx * NumPifo + pf_idx
    <3>4. y \in Int
      BY <1>3, <1>5
    <3>5. t = y * num_intervals + (num_intervals - 1)
      BY <3>1
    <3>6. (lb_idx' * NumPifo + pf_idx') * num_intervals = (y + 1) * num_intervals
      BY <3>3
    <3> HIDE DEF y, t
    <3>7. (y + 1) * num_intervals = y * num_intervals + num_intervals
          /\ y * num_intervals \in Int
      BY <1>5, <3>4
    <3>8. (y + 1) * num_intervals + 0 = t + 1
      BY <1>5, <3>5, <3>7
    <3>9. (IF state' = "ACCUM" THEN iv_idx' ELSE 0) = 0
      BY <3>2
    <3>10. QED  BY <3>6, <3>8, <3>9
  <2>3. QED  BY <2>1, <2>2
<1>7. [i \in Index |-> curr'[i]]
        = [[i \in Index |-> curr[i]] EXCEPT ![t % num_intervals] = (@ + w) % Modulus]
  <2>1. curr \in [0 .. MaxIntervals - 1 -> Word] /\ Index \subseteq 0 .. MaxIntervals - 1
    BY <1>2, Intervals DEF Types
  <2> HIDE DEF t
  <2>2. QED  BY <1>1, <1>3, <1>4, <2>1
<1>8. /\ (IF Computing' THEN oldBorders' ELSE borders') = borders
      /\ [i \in Index |-> IF Computing' THEN oldLoads'[i] ELSE bcnt'[i]] = [i \in Index |-> bcnt[i]]
  BY <1>1, <1>3
<1>9. Computing' \/ state' = "ACCUM"
  BY <1>1 DEF Computing
<1>10. state' # "STREAM_OUT"
  BY <1>1
<1> HIDE DEF t
<1>11. QED
  BY <1>1, <1>4, <1>6, <1>7, <1>8, <1>9, <1>10, Intervals DEF Adjustment!Collect, Index, t

\* What the adjustment sees in the middle of a round does not change.
LEMMA ComputingHidden ==
  ASSUME Computing, Computing',
         UNCHANGED <<curr, oldBorders, oldLoads, lb_idx, pf_idx, border_out, border_out_valid>>
  PROVE  UNCHANGED Adjustment!vars
<1>1. /\ state # "ACCUM" /\ state' # "ACCUM"
      /\ state # "STREAM_OUT" /\ state' # "STREAM_OUT"
  BY DEF Computing
<1>2. QED  BY <1>1 DEF Adjustment!vars

\* The whole adjustment.
LEMMA AdjustMapped ==
  ASSUME Types, Computing, AllCounted, state' = "PACK_OUT",
         UNCHANGED <<curr, lb_idx, pf_idx, border_out, border_out_valid>>,
         borders' = IF Tilted
                      THEN [i \in 0 .. MaxIntervals |->
                              IF i <= num_intervals THEN HalvedB[i] ELSE oldBorders[i]]
                      ELSE oldBorders,
         \A i \in Index : bcnt'[i] = IF Tilted THEN Halved[i] ELSE Load[i]
  PROVE  Adjustment!Adjust
<1> DEFINE loads == [i \in 0 .. num_intervals - 1 |-> IF Computing THEN oldLoads[i] ELSE bcnt[i]]
           counts == [i \in 0 .. num_intervals - 1 |-> curr[i]]
           b == Adjustment!Aged(loads, counts)
<1>1. ~Computing' /\ state # "ACCUM" /\ state # "STREAM_OUT"
  BY DEF Computing
<1>2. b = Load
  <2>1. \A i \in Index : loads[i] = oldLoads[i] /\ counts[i] = curr[i]
    BY DEF Index
  <2> HIDE DEF loads, counts
  <2>2. QED  BY <2>1, Intervals DEF Adjustment!Aged, Load
<1>3. Adjustment!NewBorders(oldBorders, Load) = borders'
  <2>1. DOMAIN oldBorders = 0 .. MaxIntervals
    BY DEF Types
  <2>2. Adjustment!NewBorders(oldBorders, Load)
          = IF Tilted THEN [i \in 0 .. MaxIntervals |->
                              IF i <= num_intervals THEN HalvedB[i] ELSE oldBorders[i]]
                      ELSE oldBorders
    BY <2>1 DEF Adjustment!NewBorders, Tilted, HalvedB, MergedB, M, Merged, E
  <2>3. QED  BY <2>2
<1>4. Adjustment!NewLoads(Load) = [i \in 0 .. num_intervals - 1 |-> bcnt'[i]]
  <2>1. Adjustment!NewLoads(Load) = IF Tilted THEN Halved ELSE Load
    BY DEF Adjustment!NewLoads, Tilted, Halved, M, Merged, E
  <2>2. Load = [i \in Index |-> Load[i]] /\ Halved = [i \in Index |-> Halved[i]]
    <3>1. Load = [i \in Index |-> Load[i]]
      BY Intervals DEF Load, Adjustment!Aged
    <3>2. Halved = [i \in Index |-> Halved[i]]
      BY Intervals DEF Halved, Adjustment!SplitLoads
    <3>3. QED  BY <3>1, <3>2
  <2>3. QED  BY <2>1, <2>2 DEF Index
<1>5. (NumLB * NumPifo + 0) * num_intervals + 0 = NumLB * NumPifo * num_intervals
  <2> DEFINE g == NumLB * NumPifo
  <2>1. g \in Nat /\ num_intervals \in Nat
    BY AdjusterAssumption, Intervals
  <2> HIDE DEF g
  <2>2. (g + 0) * num_intervals + 0 = g * num_intervals
    BY <2>1
  <2>3. QED  BY <2>2 DEF g
<1>6. (lb_idx * NumPifo + pf_idx) * num_intervals + 0 = NumLB * NumPifo * num_intervals
  BY <1>5 DEF AllCounted
<1>7. /\ (IF Computing THEN oldBorders ELSE borders) = oldBorders
      /\ (IF Computing' THEN oldBorders' ELSE borders') = borders'
      /\ [i \in 0 .. num_intervals - 1 |-> IF Computing' THEN oldLoads'[i] ELSE bcnt'[i]]
           = [i \in 0 .. num_intervals - 1 |-> bcnt'[i]]
  BY <1>1
<1> HIDE DEF b
<1>8. QED
  BY <1>1, <1>2, <1>3, <1>4, <1>6, <1>7 DEF Adjustment!Adjust, b

LEMMA CheckMapped ==
  ASSUME RoundInv, Check
  PROVE  Adjustment!Adjust \/ UNCHANGED Adjustment!vars
<1>1. /\ state = "CHECK" /\ Computing
      /\ UNCHANGED <<borders, bcnt, border_out, border_out_valid, curr, lb_idx, pf_idx,
                     oldBorders, oldLoads>>
      /\ state' = IF Skewed THEN "MERGE_PREP" ELSE "PACK_OUT"
  BY DEF Check, Edge, counting, outputs, history, Computing
<1>2. AtCheck /\ Types
  BY <1>1 DEF RoundInv
<1>3. Skewed <=> Tilted
  BY <1>2, SkewedAsTilted
<1>4. CASE Skewed
  <2>1. Computing'
    BY <1>1, <1>4 DEF Computing
  <2>2. QED  BY <1>1, <2>1, ComputingHidden
<1>5. CASE ~Skewed
  <2>1. /\ state' = "PACK_OUT" /\ ~Tilted /\ AllCounted
        /\ borders' = oldBorders /\ \A i \in Index : bcnt'[i] = Load[i]
    BY <1>1, <1>2, <1>3, <1>5 DEF AtCheck, AtStatsInit
  <2>2. QED  BY <1>1, <1>2, <2>1, AdjustMapped
<1>6. QED  BY <1>4, <1>5

LEMMA SplitShiftCMapped ==
  ASSUME RoundInv, SplitShiftC
  PROVE  Adjustment!Adjust \/ UNCHANGED Adjustment!vars
<1>1. /\ state = "SPLIT_SHIFTC" /\ Computing
      /\ UNCHANGED <<borders, border_out, border_out_valid, curr, lb_idx, pf_idx,
                     oldBorders, oldLoads>>
      /\ state' = IF shift_idx = max2_idx + 1 THEN "PACK_OUT" ELSE "SPLIT_SHIFTC"
  BY DEF SplitShiftC, Edge, counting, outputs, history, Computing
<1>2. AtSplitShiftC /\ Types
  BY <1>1 DEF RoundInv
<1>3. max2_idx = M /\ AllCounted /\ M \in Int
  BY <1>2, Intervals DEF AtSplitShiftC, SplitKnown, MergeKnown, Summed
<1>4. CASE shift_idx > M + 1
  <2>1. shift_idx # M + 1
    BY <1>3, <1>4
  <2>2. Computing'
    BY <1>1, <1>3, <2>1 DEF Computing
  <2>3. QED  BY <1>1, <2>2, ComputingHidden
<1>5. CASE ~(shift_idx > M + 1)
  <2>1. /\ RoundInv' /\ state' = "PACK_OUT" /\ Tilted
        /\ \A i \in Index : bcnt'[i] = Halved[i]
        /\ \A i \in 0 .. num_intervals : borders'[i] = HalvedB[i]
        /\ \A i \in num_intervals + 1 .. MaxIntervals : borders'[i] = oldBorders[i]
    BY <1>5, SplitShiftCEnd
  <2>2. borders' \in [0 .. MaxIntervals -> Word]
    BY <2>1 DEF RoundInv, Types
  <2>3. ASSUME NEW i \in 0 .. MaxIntervals
        PROVE  borders'[i] = IF i <= num_intervals THEN HalvedB[i] ELSE oldBorders[i]
    <3>1. /\ i <= num_intervals => i \in 0 .. num_intervals
          /\ ~(i <= num_intervals) => i \in num_intervals + 1 .. MaxIntervals
      BY Intervals
    <3>2. QED  BY <2>1, <3>1
  <2>4. borders' = [i \in 0 .. MaxIntervals |->
                      IF i <= num_intervals THEN HalvedB[i] ELSE oldBorders[i]]
    BY <2>2, <2>3
  <2>5. QED  BY <1>1, <1>2, <1>3, <2>1, <2>4, AdjustMapped
<1>6. QED  BY <1>4, <1>5

\* A border is sent, or none is left.
LEMMA StreamMapped ==
  ASSUME RoundInv, StreamOut
  PROVE  Adjustment!Stream \/ Adjustment!Finish
<1>1. /\ state = "STREAM_OUT" /\ ~Computing
      /\ state' = IF out_idx > MaxIntervals THEN "DONE" ELSE "STREAM_OUT"
      /\ UNCHANGED <<borders, bcnt, curr, lb_idx, pf_idx>>
  BY DEF StreamOut, Edge, counting, Computing
<1>2. ~Computing' /\ state' # "ACCUM"
  BY <1>1 DEF Computing
<1>3. out_idx \in 1 .. MaxIntervals + 1
  BY <1>1 DEF RoundInv
<1>4. CASE out_idx <= MaxIntervals
  <2>1. ~(out_idx > MaxIntervals)
    BY <1>3, <1>4, Intervals
  <2>2. /\ state' = "STREAM_OUT" /\ border_out_valid' = TRUE
        /\ border_out' = borders[out_idx] /\ out_idx' = out_idx + 1
    BY <1>1, <1>4, <2>1 DEF StreamOut
  <2>3. QED  BY <1>1, <1>2, <1>4, <2>2 DEF Adjustment!Stream
<1>5. CASE ~(out_idx <= MaxIntervals)
  <2>1. out_idx > MaxIntervals
    BY <1>3, <1>5, Intervals
  <2>2. state' = "DONE" /\ border_out_valid' = FALSE
    BY <1>1, <1>5, <2>1 DEF StreamOut
  <2>3. QED  BY <1>1, <1>2, <2>1, <2>2 DEF Adjustment!Finish, Adjustment!Silent
<1>6. QED  BY <1>4, <1>5

\* All other edges are hidden.
LEMMA WaitStartHidden ==
  ASSUME RoundInv, NEW start \in BOOLEAN, WaitStart(start)
  PROVE  UNCHANGED Adjustment!vars
<1>1. /\ state = "WAIT_START" /\ state' \in {"WAIT_START", "CLR_CURR"}
      /\ UNCHANGED <<borders, bcnt, border_out, border_out_valid, curr, lb_idx, pf_idx>>
  BY DEF WaitStart, Edge, counting
<1>2. /\ ~Computing /\ ~Computing'
      /\ state' # "ACCUM" /\ state' \notin {"PACK_OUT", "STREAM_OUT"}
  BY <1>1 DEF Computing
<1>3. QED  BY <1>1, <1>2 DEF Adjustment!vars

LEMMA PackOutHidden ==
  ASSUME RoundInv, PackOut
  PROVE  UNCHANGED Adjustment!vars
<1>1. /\ state = "PACK_OUT" /\ state' = "STREAM_OUT" /\ ~Computing /\ ~Computing'
      /\ out_idx' = 1 /\ border_out_valid' = FALSE
      /\ UNCHANGED <<borders, bcnt, curr, lb_idx, pf_idx>>
  BY DEF PackOut, Edge, counting, Computing
<1>2. border_out_valid = FALSE
  BY <1>1 DEF RoundInv, Types
<1>3. QED  BY <1>1, <1>2 DEF Adjustment!vars

LEMMA FinishHidden ==
  ASSUME RoundInv, Finish
  PROVE  UNCHANGED Adjustment!vars
<1>1. /\ state = "DONE" /\ state' = "WAIT_START" /\ ~Computing /\ ~Computing'
      /\ UNCHANGED <<borders, bcnt, border_out, border_out_valid, curr, lb_idx, pf_idx>>
  BY DEF Finish, Edge, counting, Computing
<1>2. QED  BY <1>1 DEF Adjustment!vars

LEMMA BetweenHidden ==
  ASSUME DecayInit \/ DecayUpdate \/ StatsInit \/ Stats \/ MergePrep \/ MergeShiftB
           \/ MergeShiftC \/ SplitFindMax \/ SplitShiftB
  PROVE  UNCHANGED Adjustment!vars
<1>1. /\ Computing /\ Computing'
      /\ UNCHANGED <<counting, history, border_out, border_out_valid>>
  <2>1. CASE DecayInit     BY <2>1 DEF DecayInit, Edge, Computing, outputs
  <2>2. CASE DecayUpdate   BY <2>2 DEF DecayUpdate, Edge, Computing, outputs
  <2>3. CASE StatsInit     BY <2>3 DEF StatsInit, Edge, Computing, outputs
  <2>4. CASE Stats         BY <2>4 DEF Stats, Edge, Computing, outputs
  <2>5. CASE MergePrep     BY <2>5 DEF MergePrep, Edge, Computing, outputs
  <2>6. CASE MergeShiftB   BY <2>6 DEF MergeShiftB, Edge, Computing, outputs
  <2>7. CASE MergeShiftC   BY <2>7 DEF MergeShiftC, Edge, Computing, outputs
  <2>8. CASE SplitFindMax  BY <2>8 DEF SplitFindMax, Edge, Computing, outputs
  <2>9. CASE SplitShiftB   BY <2>9 DEF SplitShiftB, Edge, Computing, outputs
  <2>10. QED
    BY <2>1, <2>2, <2>3, <2>4, <2>5, <2>6, <2>7, <2>8, <2>9
<1>2. UNCHANGED <<curr, oldBorders, oldLoads, lb_idx, pf_idx>>
  BY <1>1 DEF counting, history
<1>3. QED  BY <1>1, <1>2, ComputingHidden

LEMMA StepMapped ==
  ASSUME RoundInv, [Next]_vars
  PROVE  [Adjustment!Next]_(Adjustment!vars)
<1>1. ASSUME NEW start \in BOOLEAN, NEW w \in Words, Clock(start, w)
      PROVE  Adjustment!Next \/ UNCHANGED Adjustment!vars
  <2>1. CASE WaitStart(start)  BY <2>1, WaitStartHidden
  <2>2. CASE ClearCurr         BY <2>2, BeginMapped DEF Adjustment!Next
  <2>3. CASE Accum(w)          BY <2>3, CollectMapped DEF Adjustment!Next
  <2>4. CASE DecayInit \/ DecayUpdate \/ StatsInit \/ Stats \/ MergePrep \/ MergeShiftB
               \/ MergeShiftC \/ SplitFindMax \/ SplitShiftB
    BY <2>4, BetweenHidden
  <2>5. CASE Check             BY <2>5, CheckMapped DEF Adjustment!Next
  <2>6. CASE SplitShiftC       BY <2>6, SplitShiftCMapped DEF Adjustment!Next
  <2>7. CASE PackOut           BY <2>7, PackOutHidden
  <2>8. CASE StreamOut         BY <2>8, StreamMapped DEF Adjustment!Next
  <2>9. CASE Finish            BY <2>9, FinishHidden
  <2>10. QED
    BY <1>1, <2>1, <2>2, <2>3, <2>4, <2>5, <2>6, <2>7, <2>8, <2>9 DEF Clock
<1>2. ASSUME UNCHANGED vars
      PROVE  UNCHANGED Adjustment!vars
  <2>1. UNCHANGED <<state, borders, bcnt, curr, lb_idx, pf_idx, iv_idx, out_idx,
                    border_out, border_out_valid, oldBorders, oldLoads>>
    BY <1>2 DEF vars, counting, outputs, history
  <2>2. Computing' = Computing
    BY <2>1 DEF Computing
  <2>3. QED  BY <2>1, <2>2 DEF Adjustment!vars
<1>3. QED  BY <1>1, <1>2 DEF Next

\* All clocks of a round together are one adjustment of BorderAdjustment, and
\* what the host sees are its borders, each once and in order.
THEOREM Refinement == Spec => ImplementsAdjustment
<1>1. Init => Adjustment!Init
  BY InitMapped
<1>2. RoundInv /\ [Next]_vars => [Adjustment!Next]_(Adjustment!vars)
  BY StepMapped
<1>3. QED  BY <1>1, <1>2, RoundInvariance, PTL DEF Spec, ImplementsAdjustment, Adjustment!Spec

-----------------------------------------------------------------------------
(***************************************************************************)
(* The start generator                                                     *)
(***************************************************************************)
\* A start pulse is on its way to a waiting adjuster, whose last done pulse has
\* been seen; before the pulse is given the adjuster waits, too.
StartInv ==
  /\ start_sm_state \in {"IDLE", "START", "WAIT"} /\ dut_start \in BOOLEAN /\ done \in BOOLEAN
  /\ done => state = "WAIT_START"
  /\ dut_start => start_sm_state = "WAIT" /\ state = "WAIT_START" /\ ~done
  /\ start_sm_state # "WAIT" => state = "WAIT_START" /\ ~dut_start

\* What every edge does to done, and how the adjuster waits.
LEMMA ClockEdge ==
  ASSUME NEW start \in BOOLEAN, NEW w \in Words, Clock(start, w)
  PROVE  /\ done' = (state = "DONE")
         /\ state = "DONE" => state' = "WAIT_START"
         /\ state = "WAIT_START" /\ ~start => state' = "WAIT_START"
<1>1. CASE WaitStart(start)  BY <1>1 DEF WaitStart, Edge
<1>2. CASE ClearCurr         BY <1>2 DEF ClearCurr, Edge
<1>3. CASE Accum(w)          BY <1>3 DEF Accum, Edge
<1>4. CASE DecayInit         BY <1>4 DEF DecayInit, Edge
<1>5. CASE DecayUpdate       BY <1>5 DEF DecayUpdate, Edge
<1>6. CASE StatsInit         BY <1>6 DEF StatsInit, Edge
<1>7. CASE Stats             BY <1>7 DEF Stats, Edge
<1>8. CASE Check             BY <1>8 DEF Check, Edge
<1>9. CASE MergePrep         BY <1>9 DEF MergePrep, Edge
<1>10. CASE MergeShiftB      BY <1>10 DEF MergeShiftB, Edge
<1>11. CASE MergeShiftC      BY <1>11 DEF MergeShiftC, Edge
<1>12. CASE SplitFindMax     BY <1>12 DEF SplitFindMax, Edge
<1>13. CASE SplitShiftB      BY <1>13 DEF SplitShiftB, Edge
<1>14. CASE SplitShiftC      BY <1>14 DEF SplitShiftC, Edge
<1>15. CASE PackOut          BY <1>15 DEF PackOut, Edge
<1>16. CASE StreamOut        BY <1>16 DEF StreamOut, Edge
<1>17. CASE Finish           BY <1>17 DEF Finish, Edge
<1>18. QED
  BY <1>1, <1>2, <1>3, <1>4, <1>5, <1>6, <1>7, <1>8, <1>9, <1>10, <1>11, <1>12,
     <1>13, <1>14, <1>15, <1>16, <1>17 DEF Clock

LEMMA StartInvariance == TopSpec => []StartInv
<1>1. TopInit => StartInv
  BY DEF TopInit, Init, StartInv
<1>2. StartInv /\ [TopNext]_topVars => StartInv'
  <2>1. SUFFICES ASSUME StartInv, [TopNext]_topVars PROVE StartInv'
    OBVIOUS
  <2>2. CASE TopNext
    <3>1. PICK w \in Words : Clock(dut_start, w)
      BY <2>2 DEF TopNext
    <3>2. /\ done' = (state = "DONE")
          /\ state = "DONE" => state' = "WAIT_START"
          /\ state = "WAIT_START" /\ ~dut_start => state' = "WAIT_START"
      BY <2>1, <3>1, ClockEdge DEF StartInv
    <3>3. /\ dut_start' = (start_sm_state = "START")
          /\ start_sm_state = "IDLE" => start_sm_state' = "START"
          /\ start_sm_state = "START" => start_sm_state' = "WAIT"
          /\ start_sm_state = "WAIT" =>
               \/ start_sm_state' = "WAIT"
               \/ start_sm_state' = "IDLE" /\ done
      BY <2>2 DEF TopNext, StartPulse
    <3>4. CASE start_sm_state = "IDLE"
      BY <2>1, <3>2, <3>3, <3>4 DEF StartInv
    <3>5. CASE start_sm_state = "START"
      BY <2>1, <3>2, <3>3, <3>5 DEF StartInv
    <3>6. CASE start_sm_state = "WAIT"
      BY <2>1, <3>2, <3>3, <3>6 DEF StartInv
    <3>7. QED  BY <2>1, <3>4, <3>5, <3>6 DEF StartInv
  <2>3. CASE UNCHANGED topVars
    <3>1. UNCHANGED <<state, done, start_sm_state, dut_start>>
      BY <2>3 DEF topVars, vars
    <3>2. QED  BY <2>1, <3>1 DEF StartInv
  <2>4. QED  BY <2>1, <2>2, <2>3
<1>3. QED  BY <1>1, <1>2, PTL DEF TopSpec

\* The adjuster sees no start pulse but when it waits for one.
THEOREM StartsMeetWait == TopSpec => []StartNeverLost
<1>1. StartInv => StartNeverLost
  BY DEF StartInv, StartNeverLost
<1>2. QED  BY <1>1, StartInvariance, PTL

\* The adjuster under its start generator is an adjuster: what holds of every
\* adjuster holds there.
THEOREM AdjusterInside ==
  /\ TopSpec => Spec
  /\ TopSpec => ImplementsAdjustment /\ []LoadConserved /\ []AscendingKept
<1>1. TopInit => Init
  BY DEF TopInit
<1>2. StartInv /\ [TopNext]_topVars => [Next]_vars
  <2>1. SUFFICES ASSUME StartInv, [TopNext]_topVars PROVE [Next]_vars
    OBVIOUS
  <2>2. CASE TopNext
    <3>1. \E w \in Words : Clock(dut_start, w)
      BY <2>2 DEF TopNext
    <3>2. QED  BY <2>1, <3>1 DEF Next, StartInv
  <2>3. CASE UNCHANGED topVars
    BY <2>3 DEF topVars
  <2>4. QED  BY <2>1, <2>2, <2>3
<1>3. TopSpec => Spec
  BY <1>1, <1>2, StartInvariance, PTL DEF TopSpec, Spec
<1>4. QED  BY <1>3, Refinement, LoadKept, BordersStayAscending, PTL
=============================================================================
