------------------------------- MODULE Balance -------------------------------
(***************************************************************************)
(* One row of inventory_balances and the single function through which    *)
(* every stock mutation of the code goes, inventory/service.py apply().   *)
(* A balance counts physical units, the part of them promised to orders,  *)
(* damaged units, and units returned by customers that wait for           *)
(* inspection.  A ledger entry is the vector of the four deltas.          *)
(*                                                                         *)
(* Pure definitions only: the modules with state extend this one.         *)
(***************************************************************************)
EXTENDS Integers

Balances == [on_hand : Nat, reserved : Nat, damaged : Nat, returned : Nat]

(* A ledger total may be anything a sum of integer deltas can be. *)
Deltas == [on_hand : Int, reserved : Int, damaged : Int, returned : Int]

(* The row lock_balances() inserts when a pair has none. *)
Zero == [on_hand |-> 0, reserved |-> 0, damaged |-> 0, returned |-> 0]

(* Component-wise sum: a balance after a delta, or two deltas together. *)
Plus(b, d) == [on_hand  |-> b.on_hand  + d.on_hand,
               reserved |-> b.reserved + d.reserved,
               damaged  |-> b.damaged  + d.damaged,
               returned |-> b.returned + d.returned]

(* The deltas the callers pass to apply(), one constructor per entry type. *)
Receipt(q)     == [on_hand |-> q, reserved |-> 0, damaged |-> 0, returned |-> 0]
Reserving(q)   == [on_hand |-> 0, reserved |-> q, damaged |-> 0, returned |-> 0]
Releasing(q)   == [on_hand |-> 0, reserved |-> -q, damaged |-> 0, returned |-> 0]
\* Mutant: a shipment that leaves the units on hand.
ShippingKeepsUnits(q) == [on_hand |-> 0, reserved |-> -q, damaged |-> 0, returned |-> 0]
Shipping(q)    == [on_hand |-> -q, reserved |-> -q, damaged |-> 0, returned |-> 0]
Adjustment(q)  == [on_hand |-> q, reserved |-> 0, damaged |-> 0, returned |-> 0]
Damaging(q)    == [on_hand |-> -q, reserved |-> 0, damaged |-> q, returned |-> 0]
WriteOff(q)    == [on_hand |-> 0, reserved |-> 0, damaged |-> -q, returned |-> 0]

(* The entry of an adjustment of q units; FOUND and LOST also stand for a   *)
(* correction up and down.                                                  *)
AdjustmentLine(reason, q) ==
  CASE reason = "DAMAGED"           -> Damaging(q)
    [] reason = "WRITE_OFF_DAMAGED" -> WriteOff(q)
    [] reason = "LOST"              -> Adjustment(-q)
    [] reason = "FOUND"             -> Adjustment(q)

\* Mutant: on_hand is not looked at.
SoundButOnHand(b) == b.reserved >= 0 /\ b.damaged >= 0 /\ b.returned >= 0

(* What a balance must satisfy: no count is negative and no unit is       *)
(* promised that is not there (the CHECK constraints of the table too).   *)
Sound(b) == /\ b.on_hand >= 0 /\ b.reserved >= 0
            /\ b.damaged >= 0 /\ b.returned >= 0
            /\ b.reserved <= b.on_hand

(* apply() raises INSUFFICIENT_STOCK or STOCK_RESERVED otherwise. *)
CanApply(b, d) == Sound(Plus(b, d))

(* The generated column "available". *)
Available(b) == b.on_hand - b.reserved
==============================================================================
