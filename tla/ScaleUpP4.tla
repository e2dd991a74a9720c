------------------------------ MODULE ScaleUpP4 ------------------------------
(***************************************************************************)
(* The load balancer on a Tofino switch, scaleup.p4 and scaleup_reg_8.p4.  *)
(* A data packet goes through the pipeline twice: the first pass finds the *)
(* bucket of its rank, the second, when the packet has been resubmitted,   *)
(* counts it there and takes the PIFO from the low bits of the counter.    *)
(* Packets pass the stages of the pipeline in order, so a pass is a step;  *)
(* the control plane writes one register or table entry at a time.         *)
(* scaleup.p4 finds the bucket in a range table, scaleup_reg_8.p4 compares *)
(* the rank with the border registers and lets packets update the borders  *)
(* and upload the counters.                                                *)
(***************************************************************************)
EXTENDS Sequences, Totals

CONSTANTS
  NumBuckets,      \* 16 counters, or 8 registers
  NumPifos,        \* 4: result is bit<2>
  CounterModulus,  \* 2^16: Counter_t
  Ranks,           \* the ranks of the packets
  SetupBorders,    \* rank_borders of the setup script
  NewBorders,      \* the borders update packets may carry
  MaxPackets,      \* bounds on data packets,
  MaxUpdates,      \*   update packets and
  MaxUploads       \*   upload packets of a run

VARIABLES
  program,       \* "table" (scaleup.p4) or "registers" (scaleup_reg_8.p4)
  configured,    \* the writes the setup script has made
  border,        \* border of each bucket: a register, or an entry once added
  counter,
  resubmitted,   \* the packets between their passes
  packets, updates, uploads,  \* how many there have been
  result,        \* history: per bucket and PIFO, packets since the setup
  reported,      \* history: per bucket, sum of the counters uploaded
  wraps          \* history: per bucket, the times its counter wrapped

vars == <<program, configured, border, counter, resubmitted, packets, updates,
          uploads, result, reported, wraps>>

histories == <<result, reported, wraps>>

Buckets == 0 .. NumBuckets - 1
NoBucket == NumBuckets         \* counter_index 16

ASSUME P4Assumption ==
  /\ NumBuckets \in Nat \ {0}
  /\ NumPifos \in Nat \ {0}
  /\ CounterModulus \in Nat \ {0} /\ CounterModulus % NumPifos = 0
  /\ Ranks \subseteq Nat
  /\ SetupBorders \in [Buckets -> Nat]
  /\ SetupBorders[0] = 0
  /\ \A k \in Buckets \ {0} : SetupBorders[k - 1] < SetupBorders[k]
  /\ NewBorders \subseteq [Buckets -> Nat]
  /\ {MaxPackets, MaxUpdates, MaxUploads} \subseteq Nat

\* Registers are 0 and the table is empty when the program is loaded.
Init ==
  /\ program \in {"table", "registers"}
  /\ configured = 0
  /\ border = IF program = "table" THEN SetupBorders ELSE [k \in Buckets |-> 0]
  /\ counter = [k \in Buckets |-> 0]
  /\ resubmitted = <<>>
  /\ packets = 0 /\ updates = 0 /\ uploads = 0
  /\ result = [k \in Buckets |-> [p \in 0 .. NumPifos - 1 |-> 0]]
  /\ reported = [k \in Buckets |-> 0]
  /\ wraps = [k \in Buckets |-> 0]

\* Borders or entries change while packets are between their passes.
Outdated == [n \in DOMAIN resubmitted |-> [resubmitted[n] EXCEPT !.outdated = TRUE]]

-----------------------------------------------------------------------------
(***************************************************************************)
(* The first pass of a data packet                                         *)
(***************************************************************************)

\* The entry of the range table that matches, once the script has added it.
TableIndex(rank) ==
  LET entries == {k \in Buckets : /\ NumBuckets + k < configured
                                  /\ border[k] <= rank
                                  /\ k + 1 \in Buckets => rank < border[k + 1]}
  IN  IF entries = {} THEN NoBucket ELSE CHOOSE k \in entries : TRUE

RegisterIndex_Strict(rank) ==  \* mutant: > instead of >=
  LET hits == Cardinality({k \in Buckets : rank > border[k]})
  IN  IF hits = 0 THEN NoBucket ELSE hits - 1

\* The number of borders the rank reaches.
RegisterIndex(rank) ==
  LET hits == Cardinality({k \in Buckets : rank >= border[k]})
  IN  IF hits = 0 THEN NoBucket ELSE hits - 1

Classify(rank) ==
  /\ packets < MaxPackets
  /\ packets' = packets + 1
  /\ resubmitted' = Append(resubmitted,
       [rank |-> rank, outdated |-> FALSE,
        index |-> IF program = "table" THEN TableIndex(rank) ELSE RegisterIndex(rank)])
  /\ UNCHANGED <<program, configured, border, counter, updates, uploads, histories>>

-----------------------------------------------------------------------------
(***************************************************************************)
(* The second pass                                                         *)
(***************************************************************************)

\* The PIFO is taken from the counter as incremented.
CountIn(k) ==
  LET value == (counter[k] + 1) % CounterModulus
  IN  /\ counter' = [counter EXCEPT ![k] = value]
      /\ result' = [result EXCEPT ![k][value % NumPifos] = @ + 1]
      /\ wraps' = [wraps EXCEPT ![k] = IF value = 0 THEN @ + 1 ELSE @]

\* A packet without a bucket goes to PIFO 0 and is counted nowhere.
Resubmit ==
  LET index == Head(resubmitted).index
  IN  /\ resubmitted # <<>>
      /\ resubmitted' = Tail(resubmitted)
      /\ IF index = NoBucket
           THEN UNCHANGED <<counter, result, wraps>>
           ELSE CountIn(index)
      /\ UNCHANGED <<program, configured, border, packets, updates, uploads, reported>>

-----------------------------------------------------------------------------
(***************************************************************************)
(* Packets of type 1 and 2.  scaleup.p4 only forwards them.                *)
(***************************************************************************)
Update(new) ==
  /\ program = "registers"
  /\ updates < MaxUpdates
  /\ updates' = updates + 1
  /\ border' = new
  /\ resubmitted' = Outdated
  /\ UNCHANGED <<program, configured, counter, packets, uploads, histories>>

Kept_None(value) == 0  \* mutant: the upload clears the counter

Kept_All(value) == value  \* mutant: the upload leaves the counter alone

\* What an upload leaves of a counter: value & 3.
Kept(value) == value % NumPifos

Upload ==
  /\ program = "registers"
  /\ uploads < MaxUploads
  /\ uploads' = uploads + 1
  /\ reported' = [k \in Buckets |-> reported[k] + counter[k]]
  /\ counter' = [k \in Buckets |-> Kept(counter[k])]
  /\ UNCHANGED <<program, configured, border, resubmitted, packets, updates,
                 result, wraps>>

-----------------------------------------------------------------------------
(***************************************************************************)
(* The control plane                                                       *)
(***************************************************************************)

\* A counter set to 0 begins its rotation and its count anew.
ResetCounter(k) ==
  /\ counter' = [counter EXCEPT ![k] = 0]
  /\ result' = [result EXCEPT ![k] = [p \in 0 .. NumPifos - 1 |-> 0]]
  /\ reported' = [reported EXCEPT ![k] = 0]
  /\ wraps' = [wraps EXCEPT ![k] = 0]

\* set_bucket_values: border and counter of a bucket at once.
SetBucket ==
  /\ program = "registers"
  /\ configured < NumBuckets
  /\ border' = [border EXCEPT ![configured] = SetupBorders[configured]]
  /\ ResetCounter(configured)
  /\ configured' = configured + 1
  /\ resubmitted' = Outdated
  /\ UNCHANGED <<program, packets, updates, uploads>>

\* set_reg_val, then set_rank_to_counter_table.
SetCounter ==
  /\ program = "table"
  /\ configured < NumBuckets
  /\ ResetCounter(configured)
  /\ configured' = configured + 1
  /\ UNCHANGED <<program, border, resubmitted, packets, updates, uploads>>

AddEntry ==
  /\ program = "table"
  /\ configured \in NumBuckets .. 2 * NumBuckets - 1
  /\ configured' = configured + 1
  /\ resubmitted' = Outdated
  /\ UNCHANGED <<program, border, counter, packets, updates, uploads, histories>>

Next ==
  \/ \E rank \in Ranks : Classify(rank)
  \/ Resubmit
  \/ \E new \in NewBorders : Update(new)
  \/ Upload
  \/ SetBucket \/ SetCounter \/ AddEntry

Spec == Init /\ [][Next]_vars

-----------------------------------------------------------------------------
(***************************************************************************)
(* Properties                                                              *)
(***************************************************************************)

\* In every bucket the PIFOs get the packets in rotation: none has two more than
\* another, although uploads take counts away and counters wrap between them.
Balanced ==
  \A k \in Buckets : \A p, q \in 0 .. NumPifos - 1 : result[k][p] <= result[k][q] + 1

\* No count is lost but by a counter that wraps before it is uploaded, and an
\* upload leaves at most the low bits of a counter to be reported once more:
\* what the uploads reported and the counter still holds are the packets
\* counted, and up to NumPifos - 1 for every upload.
RecountBounded ==
  \A k \in Buckets :
    LET counted == Total(result[k], 0 .. NumPifos - 1) - CounterModulus * wraps[k]
    IN  reported[k] + counter[k] - counted \in 0 .. (NumPifos - 1) * uploads

Ascending == \A k \in Buckets \ {0} : border[k - 1] < border[k]

HoldsRank(k, rank) ==
  IF k = NoBucket
    THEN rank < border[0]
    ELSE border[k] <= rank /\ (k + 1 \in Buckets => rank < border[k + 1])

\* A packet is counted in the bucket whose range holds its rank at the time, the
\* whole pipeline and other packets after it was classified, unless a border or
\* an entry was written in between: if the borders ascend and, for the table,
\* all entries are there.
CountedInRange ==
  [][(/\ Resubmit
      /\ ~Head(resubmitted).outdated
      /\ Ascending
      /\ program = "table" => configured = 2 * NumBuckets)
     => HoldsRank(Head(resubmitted).index, Head(resubmitted).rank)]_vars
=============================================================================
