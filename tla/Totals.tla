------------------------------- MODULE Totals -------------------------------
(***************************************************************************)
(* Sums of natural-number functions over finite sets.  f summed over S is  *)
(* the number of pairs <<x, k>> with x in S and k in 1..f[x]: stated as a  *)
(* cardinality, a sum can be reasoned about with the facts on finite sets. *)
(***************************************************************************)
EXTENDS Integers, FiniteSets

Units(f, S) == UNION {{x} \X (1 .. f[x]) : x \in S}

Total(f, S) == Cardinality(Units(f, S))

\* A sum of integers, of which Total counts the positive ones only
SignedTotal(f, S) == Total(f, S) - Total([x \in S |-> -f[x]], S)

\* The bytes of a set of packets
Bytes(S) == Total([k \in S |-> k.size], S)
=============================================================================
