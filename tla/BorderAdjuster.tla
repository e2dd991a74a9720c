--------------------------- MODULE BorderAdjuster ---------------------------
(***************************************************************************)
(* interval_border_adjuster.v, the state machine that adjusts the interval *)
(* borders in hardware.  Every action is one clock edge in one state: it   *)
(* assigns the registers that the edge changes and the next state.  The    *)
(* arrays are read and written through index registers that the states     *)
(* share.  merge_with, merge_start and max_idx, which no later edge reads, *)
(* are left out.                                                           *)
(***************************************************************************)
EXTENDS Totals

CONSTANTS
  NumLB,             \* NUM_LB
  NumPifo,           \* NUM_PIFO
  MaxIntervals,      \* MAX_INTERVALS
  InitNumIntervals,  \* INIT_NUM_INTERVALS
  Modulus,           \* 2^BORDER_W
  WideModulus,       \* 2^max(BORDER_W, 32), the width of the comparisons
  MinLoad,           \* the 100 of S_CHECK
  Words,             \* the values of cnt_in_data
  Unreset            \* what borders[MAX_INTERVALS] may hold after the reset

VARIABLES
  state, borders, bcnt, curr, lb_idx, pf_idx, iv_idx, out_idx, shift_idx,
  total_sum, max_val, min_val, min_idx, act_num_intervals, merge_end, max2_idx,
  mid_bdr, split_left, split_right, border_out, border_out_valid, busy, done,
  oldBorders, oldLoads   \* history: borders and bcnt before the round's counts

counting == <<lb_idx, pf_idx, curr>>
statistics == <<total_sum, min_val, min_idx>>
splitting == <<mid_bdr, split_left, split_right>>
outputs == <<border_out, border_out_valid, busy>>
history == <<oldBorders, oldLoads>>

vars == <<state, borders, bcnt, iv_idx, out_idx, shift_idx, max_val,
          act_num_intervals, merge_end, max2_idx, done,
          counting, statistics, splitting, outputs, history>>

Clip(x, low, high) == IF x < low THEN low ELSE IF x > high THEN high ELSE x

\* The register is set by the reset and never changes.
num_intervals == Clip(InitNumIntervals, 2, MaxIntervals)

Word == 0 .. Modulus - 1

ASSUME AdjusterAssumption ==
  /\ NumLB \in Nat \ {0}
  /\ NumPifo \in Nat \ {0}
  /\ MaxIntervals \in Nat \ {0, 1}
  /\ InitNumIntervals \in Nat
  /\ Modulus \in Nat \ {0, 1}
  /\ WideModulus \in Nat \ {0}
  /\ MinLoad \in Nat
  /\ Words \subseteq Word
  /\ Unreset \subseteq Word /\ Unreset # {}

\* INIT_BORDERi and INIT_BCNTi, cut to the width of the registers.
InitBorder(i) == IF i < 8 THEN (100 * i) % Modulus ELSE 0

InitCount(i) ==
  IF i < 8 THEN <<30, 0, 10, 20, 1130, 20, 20, 20>>[i + 1] % Modulus ELSE 0

\* The reset writes every register but borders[MAX_INTERVALS].
Init ==
  /\ state = "WAIT_START"
  /\ \E u \in Unreset :
       borders = [i \in 0 .. MaxIntervals |-> IF i = MaxIntervals THEN u ELSE InitBorder(i)]
  /\ bcnt = [i \in 0 .. MaxIntervals - 1 |-> InitCount(i)]
  /\ curr = [i \in 0 .. MaxIntervals - 1 |-> 0]
  /\ lb_idx = 0 /\ pf_idx = 0 /\ iv_idx = 0 /\ out_idx = 0 /\ shift_idx = 0
  /\ total_sum = 0 /\ max_val = 0 /\ min_val = Modulus - 1 /\ min_idx = 0
  /\ act_num_intervals = 0 /\ merge_end = 0 /\ max2_idx = 0
  /\ mid_bdr = 0 /\ split_left = 0 /\ split_right = 0
  /\ border_out = 0 /\ border_out_valid = FALSE
  /\ busy = FALSE /\ done = FALSE
  /\ oldBorders = borders /\ oldLoads = bcnt

Edge_NoDone(s, nstate) ==  \* mutant: S_DONE does not raise done
  /\ state = s
  /\ state' = nstate
  /\ done' = FALSE

\* An edge in state s: done is low after all but that in S_DONE.
Edge(s, nstate) ==
  /\ state = s
  /\ state' = nstate
  /\ done' = (s = "DONE")

-----------------------------------------------------------------------------
(***************************************************************************)
(* A round begins and collects one count per clock.                        *)
(***************************************************************************)
WaitStart(start) ==
  /\ Edge("WAIT_START", IF start THEN "CLR_CURR" ELSE "WAIT_START")
  /\ busy' = FALSE
  /\ out_idx' = 0
  /\ UNCHANGED <<borders, bcnt, iv_idx, shift_idx, max_val, act_num_intervals,
                 merge_end, max2_idx, border_out, border_out_valid,
                 counting, statistics, splitting, history>>

ClearCurr ==
  /\ Edge("CLR_CURR", "ACCUM")
  /\ busy' = TRUE
  /\ curr' = [i \in 0 .. MaxIntervals - 1 |-> 0]
  /\ lb_idx' = 0 /\ pf_idx' = 0 /\ iv_idx' = 0
  /\ oldBorders' = borders /\ oldLoads' = bcnt
  /\ UNCHANGED <<borders, bcnt, out_idx, shift_idx, max_val, act_num_intervals,
                 merge_end, max2_idx, border_out, border_out_valid,
                 statistics, splitting>>

LastWordNow ==
  iv_idx = num_intervals - 1 /\ pf_idx = NumPifo - 1 /\ lb_idx = NumLB - 1

\* The interval index changes fastest, then that of the PIFO, then the load
\* balancer's.
Accum(w) ==
  LET lastInterval == iv_idx + 1 >= num_intervals
      lastPifo     == pf_idx + 1 >= NumPifo
  IN  /\ Edge("ACCUM", IF LastWordNow THEN "DECAY_INIT" ELSE "ACCUM")
      /\ curr' = [curr EXCEPT ![iv_idx] = (@ + w) % Modulus]
      /\ iv_idx' = IF lastInterval THEN 0 ELSE iv_idx + 1
      /\ pf_idx' = IF ~lastInterval THEN pf_idx ELSE IF lastPifo THEN 0 ELSE pf_idx + 1
      /\ lb_idx' = IF lastInterval /\ lastPifo
                     THEN IF lb_idx + 1 < NumLB THEN lb_idx + 1 ELSE NumLB
                     ELSE lb_idx
      /\ UNCHANGED <<borders, bcnt, out_idx, shift_idx, max_val, act_num_intervals,
                     merge_end, max2_idx, statistics, splitting, outputs, history>>

DecayInit ==
  /\ Edge("DECAY_INIT", "DECAY_UPDATE")
  /\ iv_idx' = 0
  /\ UNCHANGED <<borders, bcnt, out_idx, shift_idx, max_val, act_num_intervals,
                 merge_end, max2_idx, counting, statistics, splitting, outputs, history>>

DecayUpdate ==
  /\ Edge("DECAY_UPDATE", IF iv_idx = num_intervals THEN "STATS_INIT" ELSE "DECAY_UPDATE")
  /\ IF iv_idx < num_intervals
       THEN /\ bcnt' = [bcnt EXCEPT ![iv_idx] = ((@ \div 2) + curr[iv_idx]) % Modulus]
            /\ iv_idx' = iv_idx + 1
       ELSE UNCHANGED <<bcnt, iv_idx>>
  /\ UNCHANGED <<borders, out_idx, shift_idx, max_val, act_num_intervals,
                 merge_end, max2_idx, counting, statistics, splitting, outputs, history>>

StatsInit ==
  /\ Edge("STATS_INIT", "STATS")
  /\ total_sum' = 0 /\ max_val' = 0 /\ min_val' = Modulus - 1
  /\ min_idx' = 0 /\ iv_idx' = 0
  /\ UNCHANGED <<borders, bcnt, out_idx, shift_idx, act_num_intervals, merge_end,
                 max2_idx, counting, splitting, outputs, history>>

\* One interval per clock enters the sum, the maximum and the first minimum.
Stats ==
  LET load == bcnt[iv_idx]
  IN  /\ Edge("STATS", IF iv_idx = num_intervals THEN "CHECK" ELSE "STATS")
      /\ IF iv_idx < num_intervals
           THEN /\ total_sum' = (total_sum + load) % Modulus
                /\ max_val' = IF load > max_val THEN load ELSE max_val
                /\ min_val' = IF load < min_val THEN load ELSE min_val
                /\ min_idx' = IF load < min_val THEN iv_idx ELSE min_idx
                /\ iv_idx' = iv_idx + 1
           ELSE UNCHANGED <<max_val, iv_idx, statistics>>
      /\ UNCHANGED <<borders, bcnt, out_idx, shift_idx, act_num_intervals, merge_end,
                     max2_idx, counting, splitting, outputs, history>>

Skewed ==
  \/ /\ max_val > MinLoad
     /\ (max_val * num_intervals) % WideModulus > (2 * total_sum) % WideModulus
  \/ (2 * min_val * num_intervals) % WideModulus < total_sum

\* num_intervals is at least 2: the branch for less is never taken.
Check ==
  /\ Edge("CHECK", IF Skewed THEN "MERGE_PREP" ELSE "PACK_OUT")
  /\ act_num_intervals' = num_intervals
  /\ UNCHANGED <<borders, bcnt, iv_idx, out_idx, shift_idx, max_val, merge_end,
                 max2_idx, counting, statistics, splitting, outputs, history>>

-----------------------------------------------------------------------------
(***************************************************************************)
(* The merge closes the gap in borders, then in bcnt, and the split opens  *)
(* one in each: one entry of an array per clock.                           *)
(***************************************************************************)
MergesLeft_Heavier ==  \* mutant: with the heavier neighbour
  /\ min_idx > 0
  /\ min_idx + 1 < act_num_intervals => bcnt[min_idx - 1] >= bcnt[min_idx + 1]

MergesLeft ==
  /\ min_idx > 0
  /\ min_idx + 1 < act_num_intervals => bcnt[min_idx - 1] <= bcnt[min_idx + 1]

\* merge_end_nxt; merge_start_nxt is the interval before it, and a neighbour
\* to merge with always exists.
MergeEndNext == IF MergesLeft THEN min_idx ELSE min_idx + 1

MergePrep ==
  /\ Edge("MERGE_PREP", "MERGE_SHIFTB")
  /\ merge_end' = MergeEndNext
  /\ bcnt' = [bcnt EXCEPT ![MergeEndNext - 1] = (@ + bcnt[MergeEndNext]) % Modulus]
  /\ shift_idx' = MergeEndNext
  /\ UNCHANGED <<borders, iv_idx, out_idx, max_val, act_num_intervals, max2_idx,
                 counting, statistics, splitting, outputs, history>>

MergeShiftB ==
  /\ Edge("MERGE_SHIFTB",
          IF shift_idx = act_num_intervals THEN "MERGE_SHIFTC" ELSE "MERGE_SHIFTB")
  /\ IF shift_idx < act_num_intervals
       THEN /\ borders' = [borders EXCEPT ![shift_idx] = borders[shift_idx + 1]]
            /\ shift_idx' = shift_idx + 1
       ELSE /\ shift_idx' = merge_end
            /\ UNCHANGED borders
  /\ UNCHANGED <<bcnt, iv_idx, out_idx, max_val, act_num_intervals, merge_end,
                 max2_idx, counting, statistics, splitting, outputs, history>>

MergeShiftC ==
  /\ Edge("MERGE_SHIFTC",
          IF shift_idx = act_num_intervals - 1 THEN "SPLIT_FINDMAX" ELSE "MERGE_SHIFTC")
  /\ IF shift_idx < act_num_intervals - 1
       THEN /\ bcnt' = [bcnt EXCEPT ![shift_idx] = bcnt[shift_idx + 1]]
            /\ shift_idx' = shift_idx + 1
            /\ UNCHANGED <<act_num_intervals, iv_idx, max2_idx, max_val>>
       ELSE /\ act_num_intervals' = act_num_intervals - 1
            /\ iv_idx' = 0 /\ max2_idx' = 0 /\ max_val' = 0
            /\ UNCHANGED <<bcnt, shift_idx>>
  /\ UNCHANGED <<borders, out_idx, merge_end, counting, statistics, splitting,
                 outputs, history>>

Middle_NoShift(low, high) == (low + high) % Modulus  \* mutant

Middle(low, high) == ((low + high) % Modulus) \div 2

RightHalf_Rounded(load) == load \div 2  \* mutant: an odd packet is lost

RightHalf(load) == load - (load \div 2)

\* The last interval with the greatest load, then the halves it is split into.
SplitFindMax ==
  /\ Edge("SPLIT_FINDMAX",
          IF iv_idx = act_num_intervals THEN "SPLIT_SHIFTB" ELSE "SPLIT_FINDMAX")
  /\ IF iv_idx < act_num_intervals
       THEN /\ max_val' = IF bcnt[iv_idx] >= max_val THEN bcnt[iv_idx] ELSE max_val
            /\ max2_idx' = IF bcnt[iv_idx] >= max_val THEN iv_idx ELSE max2_idx
            /\ iv_idx' = iv_idx + 1
            /\ UNCHANGED <<shift_idx, splitting>>
       ELSE /\ mid_bdr' = Middle(borders[max2_idx], borders[max2_idx + 1])
            /\ split_left' = bcnt[max2_idx] \div 2
            /\ split_right' = RightHalf(bcnt[max2_idx])
            /\ shift_idx' = act_num_intervals + 1
            /\ UNCHANGED <<max_val, max2_idx, iv_idx>>
  /\ UNCHANGED <<borders, bcnt, out_idx, act_num_intervals, merge_end,
                 counting, statistics, outputs, history>>

SplitShiftB ==
  /\ Edge("SPLIT_SHIFTB",
          IF shift_idx = max2_idx + 1 THEN "SPLIT_SHIFTC" ELSE "SPLIT_SHIFTB")
  /\ IF shift_idx > max2_idx + 1
       THEN /\ borders' = [borders EXCEPT ![shift_idx] = borders[shift_idx - 1]]
            /\ shift_idx' = shift_idx - 1
       ELSE /\ borders' = [borders EXCEPT ![max2_idx + 1] = mid_bdr]
            /\ shift_idx' = act_num_intervals
  /\ UNCHANGED <<bcnt, iv_idx, out_idx, max_val, act_num_intervals, merge_end,
                 max2_idx, counting, statistics, splitting, outputs, history>>

SplitShiftC ==
  /\ Edge("SPLIT_SHIFTC",
          IF shift_idx = max2_idx + 1 THEN "PACK_OUT" ELSE "SPLIT_SHIFTC")
  /\ IF shift_idx > max2_idx + 1
       THEN /\ bcnt' = [bcnt EXCEPT ![shift_idx] = bcnt[shift_idx - 1]]
            /\ shift_idx' = shift_idx - 1
            /\ UNCHANGED act_num_intervals
       ELSE /\ bcnt' = [bcnt EXCEPT ![max2_idx] = split_left, ![max2_idx + 1] = split_right]
            /\ act_num_intervals' = act_num_intervals + 1
            /\ UNCHANGED shift_idx
  /\ UNCHANGED <<borders, iv_idx, out_idx, max_val, merge_end, max2_idx,
                 counting, statistics, splitting, outputs, history>>

-----------------------------------------------------------------------------
(***************************************************************************)
(* The borders leave on border_out, one per clock while border_out_valid.  *)
(***************************************************************************)
PackOut ==
  /\ Edge("PACK_OUT", "STREAM_OUT")
  /\ out_idx' = 1
  /\ border_out_valid' = FALSE
  /\ UNCHANGED <<borders, bcnt, iv_idx, shift_idx, max_val, act_num_intervals,
                 merge_end, max2_idx, border_out, busy,
                 counting, statistics, splitting, history>>

\* MAX_INTERVALS borders, however many are in use.
StreamOut ==
  /\ Edge("STREAM_OUT", IF out_idx > MaxIntervals THEN "DONE" ELSE "STREAM_OUT")
  /\ IF out_idx <= MaxIntervals
       THEN /\ border_out' = borders[out_idx]
            /\ out_idx' = out_idx + 1
            /\ border_out_valid' = TRUE
       ELSE /\ border_out_valid' = FALSE
            /\ UNCHANGED <<border_out, out_idx>>
  /\ UNCHANGED <<borders, bcnt, iv_idx, shift_idx, max_val, act_num_intervals,
                 merge_end, max2_idx, busy, counting, statistics, splitting, history>>

Finish ==
  /\ Edge("DONE", "WAIT_START")
  /\ busy' = FALSE
  /\ UNCHANGED <<borders, bcnt, iv_idx, out_idx, shift_idx, max_val,
                 act_num_intervals, merge_end, max2_idx, border_out,
                 border_out_valid, counting, statistics, splitting, history>>

\* One edge of the clock, with the inputs at it.
Clock(start, w) ==
  \/ WaitStart(start) \/ ClearCurr \/ Accum(w) \/ DecayInit \/ DecayUpdate
  \/ StatsInit \/ Stats \/ Check \/ MergePrep \/ MergeShiftB \/ MergeShiftC
  \/ SplitFindMax \/ SplitShiftB \/ SplitShiftC \/ PackOut \/ StreamOut \/ Finish

Next == \E start \in BOOLEAN, w \in Words : Clock(start, w)

Spec == Init /\ [][Next]_vars

-----------------------------------------------------------------------------
(***************************************************************************)
(* Properties                                                              *)
(***************************************************************************)

\* Between the last count and the first border: bcnt and borders are at work.
Computing == state \in {"DECAY_INIT", "DECAY_UPDATE", "STATS_INIT", "STATS", "CHECK",
                       "MERGE_PREP", "MERGE_SHIFTB", "MERGE_SHIFTC",
                       "SPLIT_FINDMAX", "SPLIT_SHIFTB", "SPLIT_SHIFTC"}

Adjustment == INSTANCE BorderAdjustment WITH
  Intervals <- num_intervals,
  Groups    <- NumLB * NumPifo,
  phase     <- IF Computing \/ state = "ACCUM" THEN "collecting"
               ELSE IF state \in {"PACK_OUT", "STREAM_OUT"} THEN "streaming"
               ELSE "idle",
  borders   <- IF Computing THEN oldBorders ELSE borders,
  loads     <- [i \in 0 .. num_intervals - 1 |-> IF Computing THEN oldLoads[i] ELSE bcnt[i]],
  counts    <- [i \in 0 .. num_intervals - 1 |-> curr[i]],
  taken     <- (lb_idx * NumPifo + pf_idx) * num_intervals
                 + (IF state = "ACCUM" THEN iv_idx ELSE 0),
  next      <- IF state = "STREAM_OUT" THEN out_idx ELSE 1,
  out       <- IF border_out_valid THEN border_out ELSE Modulus

\* The many clocks in which statistics, merge and split pass values through
\* shared index registers add up to one adjustment as BorderAdjustment defines
\* it, and what the host then sees while border_out_valid are the MAX_INTERVALS
\* borders, each once and in order.
ImplementsAdjustment == Adjustment!Spec

\* Merging and splitting move load between intervals but neither lose nor add
\* any: the sum taken in S_STATS is still that of bcnt when the round ends.
LoadConserved ==
  state \in {"PACK_OUT", "STREAM_OUT", "DONE"} =>
    total_sum = Total(bcnt, 0 .. num_intervals - 1) % Modulus

Ascending(f) == \A i \in 0 .. num_intervals - 1 : f[i] <= f[i + 1]

\* A round that begins with borders in ascending order, the border after the
\* last interval included, ends with such borders, if no two neighbours add up
\* to more than a register holds.
AscendingKept ==
  /\ state \in {"PACK_OUT", "STREAM_OUT", "DONE"}
  /\ Ascending(oldBorders)
  /\ \A i \in 0 .. num_intervals - 1 : oldBorders[i] + oldBorders[i + 1] < Modulus
  => Ascending(borders)
=============================================================================
