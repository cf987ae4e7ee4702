----------------------------- MODULE StockPromise -----------------------------
(***************************************************************************)
(* What the order and inventory services promise together, without        *)
(* transactions, locks or reservations in two tables: an order is open,    *)
(* holds all of its units in one warehouse, has left with them, or is      *)
(* closed; the units orders hold are always there; and a unit leaves       *)
(* either with the order that holds it or by a correction of free stock.   *)
(*                                                                         *)
(* One step is one commit.  A receipt, or the worker, can serve several    *)
(* orders in one commit, so a step moves any number of orders.             *)
(***************************************************************************)
EXTENDS Integers, FiniteSets

CONSTANTS Order, Warehouse, Sku, Need, None

VARIABLES
  phase,    \* of each order
  place,    \* the warehouse in which an order holds its units, or None
  stock     \* the physical units of each SKU in each warehouse

vars == <<phase, place, stock>>

Pair == Warehouse \X Sku

TypeOK ==
  /\ phase \in [Order -> {"open", "held", "shipped", "closed"}]
  /\ place \in [Order -> Warehouse \cup {None}]
  /\ stock \in [Pair -> Nat]

(* The units the orders os hold of a pair. *)
Units(os, at, p) == UNION {{o} \X (1..Need[o][p[2]]) : o \in {q \in os : at[q] = p[1]}}

Covered == \A p \in Pair : Cardinality(Units(Order, place, p)) <= stock[p]

(* Units are taken once and kept until the order ships or closes. *)
Move(o) ==
  \/ phase'[o] = phase[o] /\ place'[o] = place[o]
  \/ phase[o] = "open" /\ phase'[o] = "held" /\ place'[o] \in Warehouse
  \/ phase[o] \in {"open", "held"} /\ phase'[o] = "closed" /\ place'[o] = None
  \/ phase[o] = "held" /\ phase'[o] = "shipped" /\ place'[o] = None

(* Orders leave with exactly the units they held; stock is counted, not     *)
(* corrected, in such a step.                                               *)
Ship ==
  LET gone == {o \in Order : phase[o] = "held" /\ phase'[o] = "shipped"} IN
  /\ gone # {}
  /\ \A p \in Pair : stock'[p] = stock[p] - Cardinality(Units(gone, place, p))

(* Units arrive, are corrected, or only change hands. *)
Correct ==
  /\ \A o \in Order : phase'[o] = "shipped" => phase[o] = "shipped"
  /\ stock' \in [Pair -> Nat]

Init ==
  /\ phase = [o \in Order |-> "open"]
  /\ place = [o \in Order |-> None]
  /\ stock = [p \in Pair |-> 0]

Next ==
  /\ phase' \in [Order -> {"open", "held", "shipped", "closed"}]
  /\ place' \in [Order -> Warehouse \cup {None}]
  /\ \A o \in Order : Move(o)
  /\ Ship \/ Correct
  /\ Covered'

Spec == Init /\ [][Next]_vars
==============================================================================
