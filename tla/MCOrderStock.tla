----------------------------- MODULE MCOrderStock -----------------------------
(* Small instances of OrderStock for TLC. *)
EXTENDS OrderStock, TLC

CONSTANTS w1, w2, s1, s2, c1, c2

(* The first order asks for two units, the others for one, of one SKU. *)
OneSku == [o \in Order |-> [s \in Sku |-> IF o = 1 THEN 2 ELSE 1]]

(* Order 1 ships to the city of w1, the others to that of w2. *)
Cities == [o \in Order |-> IF o = 1 THEN {w1} ELSE Warehouse \ {w1}]

Codes == [w \in Warehouse |-> IF w = w1 THEN 1 ELSE 2]
Ranks == [p \in Pair |-> (IF p[1] = w1 THEN 0 ELSE 2) + (IF p[2] = s1 THEN 1 ELSE 2)]

Symmetry == Permutations(Request)
==============================================================================
