----------------------------- MODULE MCDelivery -----------------------------
(* Small instances of Delivery for TLC. *)
EXTENDS Delivery, TLC

CONSTANTS o1, o2, m1, m2

(* The first order is for two units. *)
TwoAndOne == [o \in Order |-> IF o = o1 THEN 2 ELSE 1]

Paid == [o \in Order |-> 2]

(* What a behaviour is about: the courier and the returns of one order, or *)
(* two orders whose packages go through two manifests.                     *)
VARIABLE story

MCInit == Init /\ story \in {"returns", "manifests"}

(* The other order and manifest stay out of the first story.  Of three     *)
(* returns the first one is rejected, and of one unit.                     *)
OneOrder ==
  /\ UNCHANGED <<status[o2], ship[o2], refreshing[o2], manifests[m2], handing[m2]>>
  /\ Len(returns'[o1]) = 3 => returns'[o1][1].status = "REJECTED" /\ returns'[o1][1].quantity = 1

(* Nothing comes back in the second, and a courier says one thing at most. *)
NoReturns ==
  /\ UNCHANGED returns
  /\ \A o \in Order :
       /\ ship'[o].provider # "simulator"
       /\ ship'[o].history \in {<<>>, <<"LABEL_READY">>, <<"IN_TRANSIT">>, <<"CANCELLED">>}
       /\ ship'[o].status \in Waiting \cup {"NONE", "HANDED_OVER", "IN_TRANSIT", "CANCELLED"}

MCNext ==
  /\ Next
  /\ story = "returns" => OneOrder
  /\ story = "manifests" => NoReturns
  /\ UNCHANGED story

MCSpec == MCInit /\ [][MCNext]_<<vars, story>>
=============================================================================
