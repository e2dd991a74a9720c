------------------------ MODULE WorkConservingQueue ------------------------
(***************************************************************************)
(* What a queue disc owes its caller, ns-3's QueueDisc::Run, whatever it   *)
(* does inside: a packet handed over is either refused, which counts as    *)
(* dropped, or held; a held packet leaves exactly once, sent or dropped;   *)
(* held packets are dropped only by the calls that evict in this queue     *)
(* disc; and a null answer to a dequeue means that nothing is held, since  *)
(* the caller then stops asking until the next enqueue.                    *)
(***************************************************************************)
CONSTANT Packet

VARIABLES
  evicting,  \* the calls that may drop held packets: never changes
  held,      \* the packets in the queue disc
  sent,      \* the packets DoDequeue returned
  dropped,   \* the packets passed to Drop
  ret        \* the last call and the packets it answered with

vars == <<evicting, held, sent, dropped, ret>>

Calls == {"enqueue", "dequeue"}

Return(call, packets) == [call |-> call, packets |-> packets]

Init ==
  /\ evicting \in SUBSET Calls
  /\ held = {}
  /\ sent = {}
  /\ dropped = {}
  /\ ret = Return("none", {})

New(k) == k \notin held \cup sent \cup dropped

\* The sets of held packets a call may drop.
Evictions(call) == IF call \in evicting THEN SUBSET held ELSE {{}}

Accept(k) ==
  \E lost \in Evictions("enqueue") :
    /\ New(k)
    /\ held' = (held \ lost) \cup {k}
    /\ dropped' = dropped \cup lost
    /\ ret' = Return("enqueue", {k})
    /\ UNCHANGED <<evicting, sent>>

Refuse(k) ==
  \E lost \in Evictions("enqueue") :
    /\ New(k)
    /\ held' = held \ lost
    /\ dropped' = dropped \cup lost \cup {k}
    /\ ret' = Return("enqueue", {})
    /\ UNCHANGED <<evicting, sent>>

Serve ==
  \E k \in held : \E lost \in Evictions("dequeue") :
    /\ k \notin lost
    /\ sent' = sent \cup {k}
    /\ dropped' = dropped \cup lost
    /\ held' = held \ ({k} \cup lost)
    /\ ret' = Return("dequeue", {k})
    /\ UNCHANGED evicting

Idle ==
  /\ held = {}
  /\ ret' = Return("dequeue", {})
  /\ UNCHANGED <<evicting, held, sent, dropped>>

Next == Serve \/ Idle \/ \E k \in Packet : Accept(k) \/ Refuse(k)

Spec == Init /\ [][Next]_vars
=============================================================================
