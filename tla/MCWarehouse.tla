----------------------------- MODULE MCWarehouse -----------------------------
(* Small instances of Warehouse for TLC. *)
EXTENDS Warehouse, TLC

CONSTANTS b1, b2, s1, c1, c2

(* The first order asks for two units, the others for one. *)
TwoAndOnes == [o \in Order |-> [s \in Sku |-> IF o = 1 THEN 2 ELSE 1]]

Ones == [o \in Order |-> [s \in Sku |-> 1]]

(* The order of the codes is not that of the identifiers. *)
Walk == [b \in Bin |-> IF b = b1 THEN 1 ELSE 2]
Ids  == [b \in Bin |-> IF b = b1 THEN 2 ELSE 1]

Symmetry == Permutations(Scanner)
==============================================================================
