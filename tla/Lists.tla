------------------------------- MODULE Lists -------------------------------
(***************************************************************************)
(* Lists as the reports make them: sorted numbers, the elements of a list  *)
(* that pass a filter, and sums.                                           *)
(***************************************************************************)
EXTENDS Integers, Sequences, FiniteSets

(* A set of numbers, each at its rank.                                      *)
Ascending(S) ==
  [k \in 1 .. Cardinality(S) |-> CHOOSE x \in S : Cardinality({ y \in S : y <= x }) = k]

(* The elements at some places of a list, in their order.                   *)
Picked(list, places) ==
  LET order == Ascending(places)
  IN  [k \in DOMAIN order |-> list[order[k]]]

Total(values) ==
  LET upto[k \in 0 .. Len(values)] == IF k = 0 THEN 0 ELSE upto[k - 1] + values[k]
  IN  upto[Len(values)]
=============================================================================
