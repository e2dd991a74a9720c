# Scale-up PIFO: TLA+ models, checks and proofs

A PIFO is a queue that hands out the packet with the smallest rank. Scale-up PIFO
builds a large one out of several small ones: a load balancer spreads packets over
parallel PIFOs so that every PIFO gets its share of every range of ranks, and a
round robin takes packets from the PIFOs in turn. The repository implements the
idea four times (an ns-3 queue disc, SystemVerilog, P4 for Tofino, a Python
simulator) next to the schedulers it is compared with.

This directory holds TLA+ models of that code, TLC runs that check them on small
instances, and proofs, checked by TLAPS, that hold for every value of the constants.

## 1. The system

Paths are relative to `src/`; `model/` is `ns3/traffic-control/model/`.

### Components

| | component | state | operations |
|-|-----------|-------|------------|
| A | load balancers of the queue disc, `model/DynamicIntervalRRPIFOScheduler.cc` | borders of the rank intervals, decayed load of each, a counter per balancer, PIFO and interval, whose turn it is | classify a rank, choose a PIFO, count, `AdjustIntervals` (level, decay, merge, split) |
| B | the queue disc itself, same file | a FIFO and a PIFO per lane with their byte counts, the lane pointer, the acknowledgement FIFO with its input and output pointers | `DoEnqueue`, `DoDequeue` (with refill and eviction) |
| C | `hardware/scale-up-PIFO-hw/LB/RR_LB.sv` | two banks of borders, a counter per bucket, three pipeline stages, a write-back register, two state machines | one clock cycle: push, stream a border, upload a counter, all at once |
| D | `LB/PUSH_FIFO.sv`, `LB/PUSH_LB.sv` | FIFO memories and pointers, the read pointer, two output stages | write, read, both |
| E | `border_adjuster/interval_border_adjuster.v` | borders, loads, index registers of a 17-state machine | one pass of accumulate, decay, merge, split, stream out |
| F | `RRLB-p4/src/*.p4`, `cp/*.py` | a register per bucket (border, counter) | first pass, resubmitted pass, border update, counter upload |
| G | baselines `model/{IdealPIFO,RRInterleavingPIFO,SPPIFO,AIFO,Packs}Scheduler.cc` | queues, byte counts, windows of recent ranks | `DoEnqueue`, `DoDequeue` |
| H | `Single-node Performance/multiPIFO/*.py` | the same schedulers, and Gearbox, PCQ, SP-PCQ; rank algorithms; a driver loop | `enqueue`, `dequeue`, `process_scheduler` |
| I | `ns3/scratch`, `ns3/network`, `ns3/traffic-control/helper`, `sortedcontainers`, test benches, timing data | | experiment scripts, stock ns-3 and third-party code, stimuli |

How they interact. ns-3's `QueueDisc` (not in the repository) calls `DoEnqueue` for
every arriving packet and then, in `Run`, `DoDequeue` again and again until it
answers null; it is single-threaded, so the interleaving that matters is the order
of the calls. Inside B, `DoEnqueue` asks A for a lane, and A needs to be told
whether the lane's FIFO had room. In hardware everything happens in every cycle:
C sends a packet to one of D's FIFOs while E's new borders are streamed into C and
C's counters are uploaded to E. F splits a packet's work over two passes through
the switch with other packets in between.

### What is hard, and what makes a component correct

* A: borders and loads are two vectors edited by index in a merge and a split that
  choose their intervals by different criteria. Correct means: intervals stay
  ordered and non-empty; load is moved, not lost; the counters stay a round robin
  although they are levelled, and although refused packets take turns.
* B: acknowledgements bypass the PIFOs and yet are charged to them. Correct means:
  exact byte counts, no packet evicted because of an acknowledgement, every lane
  served in turn, nothing lost, duplicated or stranded.
* C: counter read, write-back, forwarding and clearing overlap. Correct means: the
  packets of a bucket go round the FIFOs, none sees half an update of the borders,
  none is missing from the uploads.
* D: simultaneous read and write on an empty or full FIFO; overflow; an arbiter that
  visits FIFOs whether or not they hold packets.
* E: a multi-cycle algorithm on shared index registers, without A's width guard.
* F: classification and counting in different passes; clearing by mask.
* G, H: acknowledgements that evict data (RR interleaving), borders that drift
  (SP-PIFO), sizes that do not rotate with their FIFOs (PCQ), packets in a queue that
  `is_empty` does not look at (Gearbox), a driver that loops on "no packet".

`PROJECT.json` lists these hazards one by one with their lines and, where a run
covers one, the properties that would fail.

## 2. Modules

| module | models |
|--------|--------|
| `Totals` | sums as cardinalities (no recursion, so that they can be reasoned about), the bytes of a set of packets |
| `DynamicIntervals` | A |
| `ScaleUpPIFO` | B; contains an instance of `DynamicIntervals` on its own variables |
| `WorkConservingQueue` | the contract of a queue disc with its caller; `ScaleUpPIFO` and `BaselineQueues` implement it |
| `RR_LB`, `MCRR_LB` | C, and the instance that is checked |
| `QueueOps` | what a clock cycle does to a FIFO, as operators on sequences |
| `PUSH_FIFO`, `BoundedQueue` | D, one FIFO in registers, and the queue it implements |
| `PUSH_LB`, `MCPUSH_LB` | D, extending `RR_LB`: FIFOs, arbiter and output; the instances checked |
| `BorderAdjuster` | E, one action for each state of the state machine |
| `TopBorderAdjuster` | E with the start generator of `top_border_adjuster.sv`, on one clock |
| `BorderAdjustment` | what E computes, a round's adjustment in one step; `BorderAdjuster` implements it |
| `ScaleUpP4`, `MCScaleUpP4` | F, both programs and the scripts that set them up; the instance checked |
| `BaselineQueues`, `MCBaselineQueues` | G, all five; each implements `WorkConservingQueue`; the instance checked |
| `SingleNode`, `MCSingleNode` | H: the driver loop with each of its nine schedulers; the instance checked |
| `Totals_proofs` | facts about sums, bytes, extrema, remainders and sequences, for the other proofs |
| `DynamicIntervals_proofs`, `ScaleUpPIFO_proofs`, `PUSH_LB_proofs` (and `RR_LB`, `PUSH_FIFO`), `TopBorderAdjuster_proofs` (and `BorderAdjuster`), `ScaleUpP4_proofs`, `BaselineQueues_proofs`, `SingleNode_proofs` | theorems |

### DynamicIntervals

Variables are the members of the class (`intervalBorders` is
`m_sharedIntervalBorders`, and so on). `Admit(rank)` and `Refuse(rank)` are
`DoEnqueue` of a data packet with and without room in the chosen FIFO; `Admit`
contains `AdjustIntervals` when the period is over, with all its early returns: the
counters are levelled and the loads updated even when no interval is merged.
`MergedBorders`, `MergedLoads`, `SplitBorders` and `SplitLoads` are the `erase` and
`insert` calls. `m_numIntervals` is a constant, because in this code each merge is
followed by a split within the same call.

Doubles. Borders and loads only take values that are sums of halves, quarters and
so on of integers. The model counts them in fractions of a rank (`Unit`) and of a
packet (`CountUnit`), so that every division by two is exact in the instances
checked; comparisons with the mean are multiplied out. Where a unit is exhausted
`\div` rounds down, and the invariants are proved for that too. With a single interval
`AdjustIntervals` returns at once and the counters grow for ever; `RecountBounded` is
about two intervals and more.

### ScaleUpPIFO

A packet is its number of arrival, rank, send time and size. A PIFO is the set of
its packets; `Precedes` is `PifoItem::operator<` with the arrival number last,
because a `multiset` keeps equal items in order of insertion. The refill of a lane
is computed on a record (`Lane`, `Refill`, `Pop`, `Visit`) since one call may refill
several lanes before it finds a packet. `DoDequeue` has three outcomes:
`DequeueAck`, `DequeueData(n)` (the n-th lane from `pifoIndex` on is the first with
a packet) and `DequeueNothing`. The two acknowledgement pointers are kept modulo
`NumPifos`. `ret`, `arrivals`, `sent`, `dropped` and `bypassed` are history.
`DoPeek` and `CheckConfig` change nothing and are left out; so are the flow label,
which is stored and never read, and `m_dequeueLbIndex`, which is never used.

### RR_LB

A step is a clock cycle: every register gets its next value from the values before
the edge, and all inputs vary freely in every cycle, so that packets, border
updates and uploads overlap in every way. A counter is the pair of its bit slices,
`lo` (the FIFO) and `hi` (complete rounds, wrapping at `HighMax`). The payload
beside the valid bits and a reset in mid-operation are left out. `emitted`,
`reported`, `streamed` and `installed` are history. The run bounds the packets below the
wrap of a counter, and `NoCountLost` says so: a counter that wraps between two uploads
does lose rounds.

### PUSH_FIFO and PUSH_LB

`PUSH_FIFO` has the registers and, as variables of their own, the input wires.
`BoundedQueue` has the same wires, so that the refinement says more than "some queue
operation happened": in every cycle the registers do what a queue does for these very
inputs. `Stored` reads the queue off the memory from `rd_ptr` on. `Writes` and `Reads`
are the two enabling conditions that differ in the code at the full and at the empty
end.

`PUSH_LB` takes each FIFO as the queue it implements (`Contents` and `Out` of
`QueueOps` in both) and conjoins it, in each cycle, with `RR_LB!Cycle`, the payload
registers, the arbiter and the output registers. Packets are numbered in the order
in which they are pushed, the number is their payload. Data lines hold something in
every cycle, and the valid bits say when it is a packet. `popped` is history.
`top_PUSH_LB` registers the ports of `PUSH_LB` and is left out.

### BorderAdjuster, TopBorderAdjuster and BorderAdjustment

An action is one clock edge in one state and is named after it. `Edge(s, nstate)` has
what all states share: the state register and `done`, which is a pulse. Index
registers, sums and arrays are the registers of the code, cut to their width by
`Modulus`; comparisons are made modulo `WideModulus`, since a Verilog comparison is as
wide as its widest operand. The reset leaves `borders[MAX_INTERVALS]` out, so `Init`
takes it from `Unreset`. `TopBorderAdjuster` adds the state machine that pulses
`start` and waits for `done`; the counts come from a shift register whose feedback
reads bits that it does not have, so any count may come.

`BorderAdjustment` is the algorithm without its clock: collect, adjust, send. Its
operators (`MergedBorders`, `Heaviest`, `SplitLoads`, ...) describe whole vectors, where
the code shifts one entry at a time. The refinement mapping shows the vectors as they
were before the round (`oldBorders`, `oldLoads`, history) until the first border is sent.

### ScaleUpP4

A pass of a packet through the pipeline is one step: packets go through the stages in
order and each register is in one stage. Between its passes a packet waits in
`resubmitted`, in order. `program` picks `scaleup.p4` (a range table) or
`scaleup_reg_8.p4` (border registers, update and upload packets). The set-up script
writes one register or table entry per step (`SetBorder`, `SetCounter`, `AddEntry`) while
packets already pass. `outdated` marks the packets between whose passes a border or an
entry was written; `result`, `reported` and `wraps` are history. The time stamps
written to the packets, port numbers and the forwarding table are left out.

### BaselineQueues

`disc` says which of the five queue discs a behaviour is about and never changes; one
module because they share nearly everything but how `DoEnqueue` picks a queue. A PIFO
is a sequence in the order of its `multiset`. The quantiles of AIFO and PACKS are compared
with their products multiplied out, as exact numbers.

`WorkConservingQueue` has a parameter `evicting`, the calls that may drop packets already
held: `DoDequeue` in `ScaleUpPIFO`, `DoEnqueue` in the ideal PIFO and RR interleaving, none
in the other three.

### SingleNode

A step is one round of the loop in `utils.py`: feed a packet or drain one, as
`congestion_ratio` says. `queue` is the one `SortedList` that every scheduler keeps beside
its own queues and from which a removal of an absent packet would raise. Rank
algorithms return any of `Ranks`; the lane that Scale-up PIFO's balancer picks is any
lane, which module `DynamicIntervals` covers. Rank errors and delays are computed
and never read back, and are left out. `state` is `"exit"` where PACKS calls `exit(0)`.
Lanes are sequences; the PIFOs behind the lanes of Scale-up PIFO are sets, with `Sorted`
for their order, since the code only takes the first from them or drops the last.
`Kept` is what such dropping leaves behind. The granularities of Gearbox's levels are
a constant, `Granularities`; the code has powers of ten, the instance powers of two.

## 3. Runs

| run | instance | checks |
|-----|----------|--------|
| `intervals` | 2 load balancers, 3 PIFOs, 3 intervals of 3 ranks, an adjustment after every second admission, 8 admissions, any number of refusals | `TypeOK`, `Balanced`, `IntervalsWide`, `RecountBounded`, `LastBorderGrows`, `LoadConserved` |
| `scheduler` | 2 load balancers, 2 lanes, 5 packets of 2 sizes and 2 ranks or acknowledgements, PIFOs of 2 units | `TypeOK`, `PifoSizesExact`, `FifoUsageExact`, `PifosFit`, `BypassBounded`, `EvictedOnlyWhenFull`, `ImplementsQueue`, `EveryPacketLeaves` |
| `rr_lb` | 2 buckets, 2 FIFOs, 4 packets, unbounded updates and uploads | `TypeOK`, `RoundRobin`, `CompleteBorders`, `NoCountLost` |
| `rr_lb_reports` | the same | `ReportedOnce`, violated |
| `push_fifo` | 4 entries, 3 data values, any reads and writes | `FifoTypeOK`, `ImplementsQueue` |
| `push_lb` | 4 buckets, 2 FIFOs of 2 entries, 5 packets in any cycles and buckets | `PushTypeOK`, `WaitBounded`, `NoDrop`, `InOrder`, `ExactlyOnce`, `EveryPacketPops` |
| `push_lb_arbiter` | 2 buckets, 2 FIFOs of 1 entry, 2 packets | `SelectedHasData`, violated |
| `border_adjuster` | 2 counts for each of 3 intervals, two rounds, 11-bit registers | `LoadConserved`, `AscendingKept`, `StartNeverLost`, `ImplementsAdjustment`, `RoundsGoOn` |
| `p4` | both programs, 2 buckets, 2 PIFOs, counters of 2 bits, 5 packets, 2 updates, 2 uploads | `Balanced`, `RecountBounded`, `CountedInRange` |
| `baseline_queues` | each of the five, 2 lanes of 3 units, 4 packets of 2 sizes or acknowledgements, a window of 2 | `LaneSizesExact`, `BordersDescend`, `RefusedOnlyForRoom`, `ImplementsQueue` |
| `single_node` | each of the nine, 2 lanes of 3 units (Gearbox: 2 levels), 5 packets | `ListsAgree`, `RunsToTheEnd` |
| `single_node_packs` | PACKS alone, the same | `NoElementsAtExit`, violated |

Each property is stated in words above its definition.

The bounds. `intervals`: four adjustments in a row, enough for merges at either end
and in the middle, splits of the merged interval and of another one, and three-rank
intervals, so that the width guard decides after one split. Every counter pattern
of the start (none, one or two PIFOs ahead) occurs. `scheduler`: five packets fill
a PIFO twice over and refill it in batches, so that evictions happen from an empty
and from a non-empty PIFO; a FIFO gets full and refuses; an adjustment happens; and
both lanes get charged for acknowledgements. `rr_lb`: the
pipeline has four stages, and four packets fill it, in every mixture of buckets; the
counters wrap their low bits twice.

`push_fifo` needs no bound but its depth: four entries let the pointers wrap at
different places relative to each other. `push_lb`: with 4 buckets and 2 FIFOs of 2
entries `Deep` holds with equality, four packets of different buckets all go to one
FIFO and just fit, and the fifth comes while they are read. Border updates and
uploads are off (`Controls`), since they act inside `RR_LB` only, where `rr_lb`
checks them and the proofs cover them; so is the choice of idle inputs
(`IdleInputs`). The theorems have neither restriction.

`border_adjuster`: three intervals are the fewest for which the lightest interval has
two neighbours to choose from and the heaviest may be left of the merge, right of it or
the merged one itself; counts of 0 and 150 skew the loads either way, and the second
round starts from the borders of the first. `p4`: five packets wrap a counter of two bits,
with uploads and updates between the passes of several packets. `baseline_queues`: four
packets overfill a lane, move SP-PIFO's borders up and push them down, and go around the
window. `single_node`: five packets fill lanes, evict, rotate the calendar queues and
bring Gearbox from its second level to the first.

Fairness. `EveryPacketLeaves`, `EveryPacketPops`, `RoundsGoOn` and `RunsToTheEnd` need it. `QueueDisc::Run` calls `DoDequeue`
until it answers null, so a call is never postponed for ever while packets are held.
`DequeueFairness` says just that; it is weak fairness of `DoDequeue` with its
enabling condition, `Held # {}`, written out. Nothing is assumed of arrivals. For
the hardware `ClockFairness` and `TopSpec` say that the clock does not stop, and
`SingleNode!FairSpec` that the one thread of the simulator goes on.

### Findings

**The upload.** `ReportedOnce` states the comment at `RR_LB.sv:102`: the upload clears the reported
counter's high bits. The run shows a history in which it does not. A packet of
bucket u is in S1 in the very cycle in which u is uploaded: the counter array gets
the cleared value plus one, but the write-back register gets the old value plus one.
A packet of u in the next cycle takes its counter from that register (forwarding,
188-190) and writes it back: the cleared bits return and are reported again. The
FIFO identifiers are not affected, they are low bits (`RoundRobin` holds, and is
proved). As `cnt_q` is written at the same edge as the register, a read of `cnt_q`
alone would already see the previous packet.

**The arbiter.** `SelectedHasData` states the comment at `PUSH_LB.sv:121`: when data
is available, the FIFO selected by round robin is non-empty. `RR_LB` picks FIFOs per
bucket and the pointer moves with the clock, so a packet may well be in FIFO 1 while
the pointer is at an empty FIFO 0. The code below the comment is safe, it tests the
selected FIFO (124): a cycle of the output is lost, not a packet.

**Depth.** That no packet is dropped depends on the depth: `Deep`, `FIFO_NUM *
FIFO_SIZE >= B * (FIFO_NUM - 1)`, is what `NeverDrops` needs. The default parameters of
`PUSH_LB` (16, 4, 16) and those of `top_PUSH_LB` (8 buckets, 16 FIFOs of 8) satisfy
it. The test bench (16 buckets, 4 FIFOs of 8) does not: 16 packets of 16 buckets in
the first 16 cycles all go to FIFO 0, which is read 4 times meanwhile. Its stimuli do
not push that way.

**PACKS.** `NoElementsAtExit` states the message at `scheduler.py:1118`, "No elements
available; interval adjustment skipped". `PacksScheduler.enqueue` prints it and calls
`exit(0)` when the FIFO that admits the packet has no room for it. The run shows packets in
that FIFO, and room in another. The message is that of `_adjust_intervals` (523); the ns-3
version drops the packet instead.

## 4. Proofs

`tlapm` checks every proof to the last leaf. The assumptions are the named
`ASSUME`s on constants (`IntervalAssumption`, `BalancerAssumption`, `LBAssumption`,
`QueueAssumption`, `PushAssumption`, `AdjusterAssumption`, `P4Assumption`,
`BaselineAssumption`, `SingleNodeAssumption`, `GearboxAssumption`), which TLC evaluates in
each run. They ask for sizes that are positive, for packets that fit in an empty queue, for
initial borders in order, and that the spans of Gearbox's levels divide the largest. TLC
has checked every inductive invariant below on an instance of its component, but for
`Rotation`, which quantifies over all numbers.

**Load balancers** (`DynamicIntervals_proofs`). `IntervalInv`, the conjunction of
`TypeOK`, `Balanced` and `IntervalsWide`, is inductive for any number of balancers,
PIFOs, intervals and any ranks. None of the three is inductive alone: that levelling
keeps counters non-negative needs the types, that a stretch keeps the last interval
wide needs the order of the borders. The heart is lemma `BusiestStaysWide`. The code
tests the width of the busiest interval before the merge and then splits the busiest
one after it. Either no merge partner beats it, and the busiest interval after the
merge is the old one at its shifted index; or the merged interval does. If the
merged one contains the old busiest interval it is wider still; if not, it is at
least two ranks wide because its two parts are each at least one. So the interval
that is split is at least two ranks wide (`SplitBordersOK` needs just that) and both
halves are at least one. `LastBorderGrows` follows from the same lemmas as an action
property.

`RecountedFew`: levelling takes the same number off all PIFOs of a balancer and
interval and leaves one of them at zero, so by `Balanced` the others keep one at most,
and every admission adds one. The load takes more. `TotalLoadIsSum` shows that the fold
`TotalLoad` is a `Total`: it exhibits the partial sums as the recursive function that
the fold is, with no induction. `DecayTotal`, `MergeTotal` and `SplitTotal` then say what
each of the three edits does to the sum. Decay and split divide by two, and the model
rounds down, so there are two theorems. `LoadNearlyConserved` is unconditional: an
adjustment never creates load, and what it loses is less than a unit for each interval
and two for the split. `LoadKept` is `LoadConserved` itself, under `EnoughFactors`:
`CountUnit` has two factors two for every adjustment that `MaxAdmitted` admissions can
bring, so that no division is inexact. It tracks a `grain` that divides all loads and is
divided by four at each adjustment. The instance of `intervals` satisfies it (a unit of 256,
four adjustments); the code's doubles have 52 bits for the same purpose.

**RR_LB** (first part of `PUSH_LB_proofs`). `LBInv` adds to `TypeOK` and
`CompleteBorders` what makes them inductive: during an update the inactive bank agrees
with the borders streamed so far (`Streaming`), and the low bits of every counter are
the packets sent on modulo `FIFO_NUM`, which the write-back register and the identifier
in S2 agree with (`Counting`). The latter holds in spite of the finding above, because
clearing and forwarding both keep the low bits. `RoundRobin` follows. For `NoCountLost`
(`CountsKept`) the write-back register has to be bounded too: it accounts for no less than
the counter array does, although an upload may have cleared one and not the other
(`Bounded`).

**PUSH_FIFO** (last but one part of `PUSH_LB_proofs`). The inductive invariant adds that the counter is
the distance of the pointers modulo `FIFO_SIZE`. `OutOK` and `ContentsOK` show, for each
mixture of read and write, that output and memory are what the queue has: the entries
of `Stored` are compared one by one, with the remainders of their addresses. The model
lets pointers wrap at `FIFO_SIZE`; in the code they wrap with their width, which is the
same for a power of two, the only depths in use. `FifosAreQueues`, the last part, shows that
each FIFO of `PUSH_LB` behaves as the same `BoundedQueue` on its own wires, so that
`PUSH_FIFO` may stand in its place.

**PUSH_LB** (`PUSH_LB_proofs`). `BalancerInside`: every behaviour of `PUSH_LB` is one of
`RR_LB`, so `LBInv` holds inside it. The bound on the wait rests on an account,
`WaitPaid`: for each FIFO f, `FIFO_NUM * Backlog(f)` plus the steps of the read pointer
to f is at most `FIFO_NUM` plus the credits, where each bucket's credit is the steps of
its counter to f. A cycle brings the pointer one step nearer or reads f. A packet of
another FIFO takes one credit and the pointer moves; a packet of f costs `FIFO_NUM` and
earns its bucket `FIFO_NUM - 1` credits, and the step of the pointer makes up for the
rest. The credits are at most `B * (FIFO_NUM - 1)`, hence `WaitBounded`; a drop would
need `FIFO_SIZE` packets stored while the pointer is elsewhere, more than the account
allows, hence `NoDrop`. The invariant relies on `Counting`: the counter that is written
is the one that was read, whatever forwarding and uploads do.

`OrderInv` follows the packets through the whole path. Packets are numbered as they are
pushed; `Numbered` says which number each stage of the pipeline must hold, given the valid
bits before it; `OneGrant` that the arbiter grants one FIFO at a time; `Sorted` that what
was popped from a FIFO, what is on its way out of it and what it holds are together an
ascending sequence; and `Covered` that, if `Deep`, these sequences hold every packet
that left the pipeline, and no two of them share one. `InOrder` and `ExactlyOnce` are
read off; the second rests on `NoDrop`.

**Border adjuster** (`TopBorderAdjuster_proofs`). The code merges and splits in place, an
entry per clock edge, with four index registers. `RoundInv` has one conjunct per state
that says, in terms of the vectors of the round's begin (`oldBorders`, `oldLoads`) and of the
whole-vector operators of `BorderAdjustment`, which part of `borders` and `bcnt` is
already shifted, decayed, summed, compared or sent. Of the 17 edges each either moves one such
front by one or closes a loop. `LoadConserved` and `AscendingKept` hold when the last
loop of the split ends, with all sums modulo the width of the registers. The refinement
of `BorderAdjustment` is a simulation on top of it: the edge into
`PACK_OUT` is the `Adjust` step of the abstract machine, an edge that accepts a count or sends a border is a
step of its own, and all others stutter. `StartInv` ties the start generator to the
adjuster (`done` and `dut_start` are never both up, and `start` is only up in
`WAIT_START`), hence `StartNeverLost`; `AdjusterInside` carries everything
over to `TopBorderAdjuster`.

**ScaleUpPIFO** (`ScaleUpPIFO_proofs`). `Inv` is the conjunction of

* `TypeOK`, and `IntervalInv` of the load balancers inside. The module instantiates
  `DynamicIntervals_proofs` on the queue disc's own variables, so that its lemmas on
  `Admit` and `Refuse` apply; `BalancersInside` is the same fact as an implication between
  specifications, by which every theorem on the load balancers holds of the queue disc;
* `Lanes`: for each lane, that its two byte counters are exact, FIFO and PIFO disjoint, the
  FIFO's usage below its limit and the PIFO's data within its buffer;
* `Placed` and `Numbered`: a packet is in one place, and new ones have new numbers. The
  bytes of a set of packets add up only for disjoint sets;
* `AckPointers`: the input pointer is ahead of the output pointer by the acknowledgements
  queued. Without it one could not tell that a charge is taken off where it was made;
* `Turns`: a PIFO that comes n-th from `pifoIndex` on has been bypassed less than
  `NumPifos - n` times. `BypassBounded` alone is not inductive, as it does not say
  how soon the turn comes.

The argument runs over lanes as records: `RefillOK`, `PopOK` and `VisitOK` say what the
operators of `DoDequeue` do to a lane in order, for any charge of acknowledgements. `KeptFits`
is the heart of the eviction: what is left after evicting from the worst end fits; if
no acknowledgement is queued, it is not empty, so that a visit to a lane with packets
always yields one and a null answer means that nothing is held; and the best packet
evicted would not have fitted. The refinement of `WorkConservingQueue` follows step by
step (`CallsOK`), and `LeavesOnce`, that a packet is held, sent or dropped and only one of
these, from the abstract specification alone.

**Baselines** (`BaselineQueues_proofs`). `Inv` has the parts of `ScaleUpPIFO`'s that apply:
types, `Placed`, `Numbered`, `AckPointers` and the exact counters, for lanes that are
sequences, and `BordersDescend`. `Evicted` says what eviction from the end of a
lane leaves behind, `LaneStep` what an insertion or a removal at any place does to
the counter of the lane. In RR interleaving acknowledgements are charged to the lane of
their turn, so eviction may meet a lane whose buffer is full of charges; there the
eviction empties the lane and the packet itself is what does not fit. `BordersDescend` is
inductive, since a push up stops at the first border the rank reaches and a push down
lowers all by the same amount. `RefusesForRoom` and the refinement (`KeepsContract`) take
one lemma per queue disc. `BestFirst` is what makes the ideal PIFO and RR interleaving
PIFOs: `InsertOrdered` shows that an insertion keeps a lane in order, so that what is sent
is the best packet of its lane, and what is evicted no better than what stays.

**ScaleUpP4** (`ScaleUpP4_proofs`). `Rotation` ties the low bits of a counter to the PIFO that
got the last packet of its bucket, and says of every PIFO that it got as many packets as
those after it in the rotation, or one more: `Balanced`. It survives an upload because
an upload keeps the low bits, and a wrap because `NumPifos` divides the modulus.
`Recounts` is an inequality between two sums that the four kinds of step (count, wrap, upload,
reset) move in the same way. `Indexed` says of a packet between its passes that its
index is the one the borders give, unless it is `outdated`: `CountedInRange`.

**SingleNode** (`SingleNode_proofs`). `ListsAgree` is not inductive: a list and its bytes
only lose the same when no packet occurs twice. `Inv` adds

* `Placed`: a packet is in one place only, in one lane or its PIFO or in the ready queue, and
  occurs there once;
* `Numbered`: packets have different numbers, at most `inputCount`, so that the packet that
  is fed next is in no list yet;
* `Pointers`, the types, and `Drained`: the driver only ends when the scheduler is empty;
* `Accounted`: what came out and what is held is no more than what came in.

`LaneStep` says that all of it survives when one lane gets other packets, some of its
own or new ones, with their bytes; each `enqueue` and all but two of the `dequeue`s are
cases of it. The two are Gearbox, which serves several levels in one call (`CutSeq`,
`FlattenedQueues`: what is cut off the lanes is what is added to the ready queue), and
WFQPCQ, which rotates the lanes but not `fifo_sizes`. There the sizes may be off, even
negative, but by `SignedTotalChange` their sum is exact: every packet is charged to one of
them once and taken off one of them once. For a PIFO that evicts, `SortedOK` shows that
`Sorted` has each packet of a set once, and `BestKept` that a PIFO that is refilled with
packets keeps one to send. `NothingLeftAtEnd` is the safety half of `RunsToTheEnd`.

| theorem | property |
|---------|----------|
| `DynamicIntervals_proofs!TypeCorrect` | `TypeOK` |
| `DynamicIntervals_proofs!RoundRobin` | `Balanced` |
| `DynamicIntervals_proofs!IntervalsStayWide` | `IntervalsWide` |
| `DynamicIntervals_proofs!LastBorderOnlyGrows` | `LastBorderGrows` |
| `DynamicIntervals_proofs!RecountedFew` | `RecountBounded` |
| `DynamicIntervals_proofs!LoadKept` | `EnoughFactors => LoadConserved` |
| `DynamicIntervals_proofs!LoadNearlyConserved` | `NearlyConserved` |
| `ScaleUpPIFO_proofs!TypesInvariant` | `TypeOK` |
| `ScaleUpPIFO_proofs!SizesExact` | `PifoSizesExact` |
| `ScaleUpPIFO_proofs!UsageExact` | `FifoUsageExact` |
| `ScaleUpPIFO_proofs!NeverOverfull` | `PifosFit` |
| `ScaleUpPIFO_proofs!RoundRobinFair` | `BypassBounded` |
| `ScaleUpPIFO_proofs!EvictsOnlyWhenFull` | `EvictedOnlyWhenFull` |
| `ScaleUpPIFO_proofs!KeepsContract` | `ImplementsQueue` |
| `ScaleUpPIFO_proofs!BalancersInside` | `Spec => Intervals!Spec` |
| `ScaleUpPIFO_proofs!LeavesOnce` | `GoneIsGone` |
| `PUSH_LB_proofs!TypeCorrect` | `TypeOK` |
| `PUSH_LB_proofs!BordersComplete` | `CompleteBorders` |
| `PUSH_LB_proofs!FifosTakeTurns` | `RoundRobin` |
| `PUSH_LB_proofs!CountsKept` | `NoCountLost` |
| `PUSH_LB_proofs!BalancerInside` | `PushSpec => Spec` of `RR_LB` |
| `PUSH_LB_proofs!PushTypes` | `PushTypeOK` |
| `PUSH_LB_proofs!WaitsBounded` | `WaitBounded` |
| `PUSH_LB_proofs!NeverDrops` | `NoDrop` |
| `PUSH_LB_proofs!PacketsInOrder` | `InOrder` |
| `PUSH_LB_proofs!PacketsOnce` | `ExactlyOnce` |
| `PUSH_LB_proofs!FifoTypes` | `FifoTypeOK` |
| `PUSH_LB_proofs!Refinement` | `ImplementsQueue` of `PUSH_FIFO` |
| `PUSH_LB_proofs!FifosAreQueues` | `PushSpec` implies `BoundedQueue`, for each FIFO |
| `TopBorderAdjuster_proofs!LoadKept` | `LoadConserved` |
| `TopBorderAdjuster_proofs!BordersStayAscending` | `AscendingKept` |
| `TopBorderAdjuster_proofs!Refinement` | `ImplementsAdjustment` |
| `TopBorderAdjuster_proofs!StartsMeetWait` | `StartNeverLost` |
| `TopBorderAdjuster_proofs!AdjusterInside` | `TopSpec` implies all of the above |
| `ScaleUpP4_proofs!TypesInvariant` | `Types` |
| `ScaleUpP4_proofs!Balance` | `Balanced` |
| `ScaleUpP4_proofs!Recount` | `RecountBounded` |
| `ScaleUpP4_proofs!CountsInRange` | `CountedInRange` |
| `BaselineQueues_proofs!SizesExact` | `LaneSizesExact` |
| `BaselineQueues_proofs!BordersStayDescending` | `BordersDescend` |
| `BaselineQueues_proofs!RefusesForRoom` | `RefusedOnlyForRoom` |
| `BaselineQueues_proofs!KeepsContract` | `ImplementsQueue` |
| `BaselineQueues_proofs!BestFirst` | `BestLeaves`, an action property |
| `SingleNode_proofs!ListsStayInStep` | `ListsAgree` |
| `SingleNode_proofs!OutputAccounted` | `outputCount + Cardinality(queue) <= inputCount` |
| `SingleNode_proofs!NothingLeftAtEnd` | `state = "end" => queue = ToSet(ready)` |

All hold for every value of the constants that satisfies the assumptions; only `LoadKept`
of the load balancers has a hypothesis of its own, `EnoughFactors`.

Every invariant and every action property that a run checks is stated by one of these
theorems. Only model-checked, because out of the prover's reach: `EveryPacketLeaves`,
`EveryPacketPops`, `RoundsGoOn` and `RunsToTheEnd` (liveness under fairness, `ENABLED`). The
three violated properties are counterexamples of TLC's. No module here declares a
`RECURSIVE` operator.

## 5. What is left

Liveness for every value of the constants, as above. The interval adjustment of the Python
simulator, which differs from component A in its containers only, has no model of its own.

### Not modelled

* `ns3/network` and `ns3/traffic-control/helper`: a copy of stock ns-3 (packets, buffers,
  addresses, sockets, devices, error models), by far the largest part of the source tree.
  No line of it is about PIFOs or load balancing. What the queue discs use of it is a packet with
  tags and a size, `Drop`, and `QueueDisc::Run`, and these are in the models.
* `ns3/scratch`: topologies, applications and statistics, no protocol of their own.
* The rank algorithms, the interval adjustment and the metrics of the Python
  simulator: ranks are any, the adjustment is that of component A with other containers,
  and nothing reads the metrics back.
* `sortedcontainers` (third party), the test benches (read as statements about the hardware)
  and the timing data.
* `DoPeek` and `CheckConfig` of the queue discs change no state.
* Rounding of doubles. Borders, loads and quantiles are exact in the models.
* Counters of the ns-3 code that only grow (`m_adjustCounter`, the acknowledgement
  pointers) are `int`s; 2^31 packets are out of a simulation's reach, and the
  models keep their remainders.
