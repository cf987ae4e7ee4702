-------------------------------- MODULE Totals --------------------------------
(***************************************************************************)
(* Sums of natural numbers over finite sets, each as the number of the     *)
(* pieces it counts: what is true of a sum then follows from what is true  *)
(* of finite sets.                                                         *)
(***************************************************************************)
EXTENDS Integers, FiniteSets

(* n[x] pieces of each x in S. *)
Pieces(n, S) == UNION {{x} \X (1..n[x]) : x \in S}

(* The sum of n[x] over S. *)
SumOver(n, S) == Cardinality(Pieces(n, S))
==============================================================================
