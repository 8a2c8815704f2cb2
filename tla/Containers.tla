----------------------------- MODULE Containers -----------------------------
(***************************************************************************)
(* Iteration over std::set and std::map, whose elements come in increasing *)
(* order.  (SequencesExt!SetToSortSeq enumerates every sequence over the   *)
(* set, too slow for the sets of queries the models use.)                  *)
(***************************************************************************)
EXTENDS Integers, Sequences, FiniteSets

\* The elements of a std::set<uint64_t>, by their rank.
InOrder(S) ==
  [i \in 1 .. Cardinality(S) |-> CHOOSE x \in S : Cardinality({y \in S : y < x}) = i - 1]
=============================================================================
