----------------------------- MODULE PickPromise -----------------------------
(***************************************************************************)
(* What a warehouse promises of the units of an order, whatever bins,      *)
(* waves, tasks and scanners it uses: every unit asked for is picked once  *)
(* or known to be missing, nothing is packed before everything is picked,  *)
(* and a parcel leaves only when every unit in it has been scanned.        *)
(***************************************************************************)
EXTENDS Integers

CONSTANTS Order, Sku, Need

VARIABLES
  phase,     \* how far each order is
  picked,    \* per order and SKU, the units picked
  missing,   \* the units that were not found and not looked for again
  scanned    \* the units scanned at the packing station

vars == <<phase, picked, missing, scanned>>

Nothing == [o \in Order |-> [s \in Sku |-> 0]]

Init == /\ phase = [o \in Order |-> "waiting"]
        /\ picked = Nothing /\ missing = Nothing /\ scanned = Nothing

Phase(os, from, to) ==
  /\ \A o \in os : phase[o] = from
  /\ phase' = [o \in Order |-> IF o \in os THEN to ELSE phase[o]]

(* A wave: the work on some orders starts. *)
Start(os) == Phase(os, "waiting", "picking") /\ UNCHANGED <<picked, missing, scanned>>

Accounted(o, s) == picked[o][s] + missing[o][s]

Pick(o, s, n) ==
  /\ phase[o] = "picking" /\ Accounted(o, s) + n <= Need[o][s]
  /\ picked' = [picked EXCEPT ![o][s] = @ + n]
  /\ UNCHANGED <<phase, missing, scanned>>

Miss(o, s, n) ==
  /\ phase[o] = "picking" /\ Accounted(o, s) + n <= Need[o][s]
  /\ missing' = [missing EXCEPT ![o][s] = @ + n]
  /\ UNCHANGED <<phase, picked, scanned>>

SearchAgain(o, s, n) ==
  /\ phase[o] = "picking" /\ n <= missing[o][s]
  /\ missing' = [missing EXCEPT ![o][s] = @ - n]
  /\ UNCHANGED <<phase, picked, scanned>>

Scan(o, s, n) ==
  /\ \/ /\ Phase({o}, "picking", "packing")
        /\ \A r \in Sku : picked[o][r] = Need[o][r]
     \/ phase[o] = "packing" /\ UNCHANGED phase
  /\ scanned[o][s] + n <= Need[o][s]
  /\ scanned' = [scanned EXCEPT ![o][s] = @ + n]
  /\ UNCHANGED <<picked, missing>>

Ready(o) ==
  /\ Phase({o}, "packing", "ready")
  /\ scanned[o] = Need[o] /\ picked[o] = Need[o]
  /\ UNCHANGED <<picked, missing, scanned>>

Ship(o) == Phase({o}, "ready", "shipped") /\ UNCHANGED <<picked, missing, scanned>>

Next == \/ \E os \in SUBSET Order : Start(os)
        \/ \E o \in Order : Ready(o) \/ Ship(o)
        \/ \E o \in Order, s \in Sku : \E n \in 1..Need[o][s] :
              Pick(o, s, n) \/ Miss(o, s, n) \/ SearchAgain(o, s, n) \/ Scan(o, s, n)

Spec == Init /\ [][Next]_vars
==============================================================================
