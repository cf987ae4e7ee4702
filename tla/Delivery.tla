------------------------------ MODULE Delivery ------------------------------
(***************************************************************************)
(* From READY_TO_SHIP to the end of an order's returns: shipments and      *)
(* manifests (shipping/), what the courier reports about the parcel, and   *)
(* returns (returns/), with the balance of the one SKU the orders are for. *)
(*                                                                         *)
(* A handler locks its main row and takes effect as at its commit: it is   *)
(* one action.  Two are not.  Refreshing a shipment locks it, reads its    *)
(* order without a lock, asks the courier, and then works with the order   *)
(* as it was read, although it locks the row before writing it.  Handing   *)
(* over a manifest reads the list of its packages before it locks their    *)
(* orders one by one.                                                      *)
(*                                                                         *)
(* An order has at most one shipment that is not CANCELLED, and nothing    *)
(* reads a cancelled one again: ship[o] is the latest shipment of o.       *)
(***************************************************************************)
EXTENDS Balance, Totals, Sequences, SequencesExt

CONSTANTS
  Order,
  Units,       \* [Order -> Nat]: the units of the SKU an order is for
  Total,       \* [Order -> Nat]: what was paid for it
  Manifest,
  Providers,   \* of the courier accounts: "manual", "simulator", "biteship"
  Reports,     \* the statuses a Biteship courier reports
  None,        \* no manifest, no refresh under way
  MaxReports,  \* bound: a courier reports no more statuses of a parcel
  MaxReturns   \* bound: an order has no more returns

OrderStatuses == {"READY_TO_SHIP", "SHIPPED", "DELIVERED",
                  "RETURN_REQUESTED", "RETURNED", "REFUNDED"}

(* STATUS_RANK *)
Rank == [CREATED |-> 0, LABEL_READY |-> 1, HANDED_OVER |-> 2, IN_TRANSIT |-> 3,
         OUT_FOR_DELIVERY |-> 4, FAILED_DELIVERY |-> 4,
         DELIVERED |-> 9, RETURNED_TO_SENDER |-> 9, CANCELLED |-> 9]
Terminal == {"DELIVERED", "RETURNED_TO_SENDER", "CANCELLED"}
Waiting  == {"CREATED", "LABEL_READY"}

(* What is only told of a parcel the courier has. *)
Underway == {"IN_TRANSIT", "OUT_FOR_DELIVERY", "DELIVERED",
             "FAILED_DELIVERY", "RETURNED_TO_SENDER"}

ASSUME DeliveryAssumption ==
  /\ IsFiniteSet(Order)
  /\ Units \in [Order -> Nat \ {0}] /\ Total \in [Order -> Nat]
  /\ Providers \subseteq {"manual", "simulator", "biteship"}
  /\ Reports \subseteq DOMAIN Rank \ {"CREATED", "HANDED_OVER"}
  /\ None \notin Manifest \cup OrderStatuses \cup {"manual", "simulator", "biteship"}
  /\ MaxReports \in Nat /\ MaxReturns \in Nat

VARIABLES
  status,      \* the status of each order
  ship,        \* its latest shipment, with all the courier has reported of it
  manifests,   \* the status of each manifest
  returns,     \* the returns of each order
  bal,         \* the balance of the SKU
  refreshing,  \* the order status a running refresh has read, None if none runs
  handing      \* the orders a running handover has read from the manifest

vars == <<status, ship, manifests, returns, bal, refreshing, handing>>

Shipments == [status : DOMAIN Rank \cup {"NONE"}, provider : Providers \cup {None},
              resi : BOOLEAN, manifest : Manifest \cup {None}, history : Seq(DOMAIN Rank)]
NoShipment == [status |-> "NONE", provider |-> None, resi |-> FALSE,
               manifest |-> None, history |-> <<>>]

(* before: order_status_before; refund: refund_amount, 0 without a refund. *)
Returns == [status : {"REQUESTED", "APPROVED", "REJECTED", "RECEIVED", "INSPECTED", "CLOSED"},
            before : {"SHIPPED", "DELIVERED"},
            quantity : Nat, received : Nat, refund : Nat]

(* What the tables accept, and when their columns are filled. *)

ManifestStatuses == {"OPEN", "HANDED_OVER", "CANCELLED"}

(* shipments: a row has an account, and one that is not CANCELLED is the    *)
(* only one of its order.                                                   *)
ShipmentRow(x) ==
  /\ x \in Shipments
  /\ x.status = "NONE" => x = NoShipment
  /\ x.status # "NONE" => x.provider # None

(* returns: a refund is that of a return that has been resolved. *)
ReturnRow(r) ==
  /\ r \in Returns
  /\ r.refund > 0 => r.status = "CLOSED"

(* return_lines: no more comes in than was announced. *)
ReturnLineRow(r) ==
  /\ r.quantity > 0 /\ r.received <= r.quantity
  /\ r.received > 0 => r.status \in {"RECEIVED", "INSPECTED", "CLOSED"}

(* Nobody has locked the shipment of o; nobody has locked manifest m. *)
ShipmentFree(o) == refreshing[o] = None

\* Mutant: a handover does not lock its manifest.
ManifestFreeToScan(m) == TRUE

ManifestFree(m) == handing[m] = {}

-------------------------------------------------------------------------------
(* apply_status() on the shipment: does status "from" become "to"?          *)

\* Mutant: a parcel that was not handed over can be tracked.
AcceptsUnshipped(from, to) ==
  /\ from \notin Terminal /\ to # from
  /\ \/ Rank[to] >= Rank[from]
     \/ from = "FAILED_DELIVERY" /\ to \in {"IN_TRANSIT", "OUT_FOR_DELIVERY"}

(* Not back, but for a new attempt after a failed one; no tracking of a     *)
(* parcel the courier does not have (an error, which a refresh skips).      *)
Accepts(from, to) ==
  /\ from \notin Terminal /\ to # from
  /\ \/ Rank[to] >= Rank[from]
     \/ from = "FAILED_DELIVERY" /\ to \in {"IN_TRANSIT", "OUT_FOR_DELIVERY"}
  /\ ~(to \in Underway /\ from \in Waiting)

Advance(from, to) == IF Accepts(from, to) THEN to ELSE from

(* refresh() goes through a courier's history h by rank, and in the order   *)
(* it was told within a rank: what it comes to last of the reports in S.    *)
LastOf(h, S) ==
  CHOOSE i \in S : \A j \in S : Rank[h[j]] < Rank[h[i]] \/ (Rank[h[j]] = Rank[h[i]] /\ j <= i)

(* The status of a shipment after a refresh that gets history h. *)
Tracked(from, h) ==
  LET after[S \in SUBSET DOMAIN h] ==
        IF S = {} THEN from ELSE Advance(after[S \ {LastOf(h, S)}], h[LastOf(h, S)])
  IN  after[DOMAIN h]

-------------------------------------------------------------------------------
(* Returns of an order, and what becomes of it when its parcel arrives or   *)
(* comes back.  "seen" is the status of the order the transaction has read. *)

InReturn == {"REQUESTED", "APPROVED", "RECEIVED", "INSPECTED"}

\* Mutant: open returns are not looked for.
NoOpenReturn(o) == FALSE

HasOpenReturn(o) == \E i \in DOMAIN returns[o] : returns[o][i].status \in InReturn

Quantity(o) == [i \in DOMAIN returns[o] |-> returns[o][i].quantity]

\* Mutant: only the open returns count.
OpenQuantity(o) ==
  SumOver(Quantity(o), {i \in DOMAIN returns[o] : returns[o][i].status \in InReturn})

\* _returned_before()
ReturnedBefore(o) ==
  SumOver(Quantity(o), {i \in DOMAIN returns[o] : returns[o][i].status # "REJECTED"})

\* Mutant: any order can be returned.
AnyReturnable(seen) == TRUE

Returnable(seen) == seen \in {"SHIPPED", "DELIVERED"}

NewReturn(st, seen, q) ==
  [status |-> st, before |-> seen, quantity |-> q, received |-> 0, refund |-> 0]

(* create_rts(): the units not returned yet; nothing when a return is open. *)
ReturnsToSender(o, seen) == Returnable(seen) /\ ~HasOpenReturn(o)

(* ... and an error when no units are left. *)
NothingLeft(o) == ReturnedBefore(o) >= Units[o]

(* The order and its returns after apply_status() moved its shipment to st. *)
Follow(o, st, seen) ==
  LET back == st = "RETURNED_TO_SENDER" /\ ReturnsToSender(o, seen) /\ ~NothingLeft(o) IN
  /\ back => Len(returns[o]) < MaxReturns
  /\ returns' = IF ~back THEN returns ELSE
       [returns EXCEPT ![o] = Append(@, NewReturn("APPROVED", seen, Units[o] - ReturnedBefore(o)))]
  /\ status' = [status EXCEPT ![o] =
       IF back THEN "RETURN_REQUESTED"
       ELSE IF st = "DELIVERED" /\ seen = "SHIPPED" THEN "DELIVERED" ELSE @]

-------------------------------------------------------------------------------
(* Shipments. *)

(* create_shipment(), under the order's lock.  Biteship may not have given  *)
(* a waybill number (resi) yet.                                             *)
CreateShipment(o, p, resi) ==
  /\ status[o] = "READY_TO_SHIP"
  /\ ship[o].status \in {"NONE", "CANCELLED"}
  /\ resi \/ p = "biteship"
  /\ ship' = [ship EXCEPT ![o] =
       [NoShipment EXCEPT !.status = IF resi THEN "LABEL_READY" ELSE "CREATED",
                          !.provider = p, !.resi = resi]]
  /\ UNCHANGED <<status, manifests, returns, bal, refreshing, handing>>

CancelShipment(o) ==
  /\ ShipmentFree(o)
  /\ ship[o].status \in Waiting /\ ship[o].manifest = None
  /\ ship' = [ship EXCEPT ![o].status = "CANCELLED"]
  /\ UNCHANGED <<status, manifests, returns, bal, refreshing, handing>>

(* The orders os leave: handover() and the settlement of the reservations. *)
CanLeave(o) ==
  /\ status[o] = "READY_TO_SHIP"
  /\ ShipmentFree(o)
  /\ ship[o].status = "LABEL_READY" /\ ship[o].resi

Leave(os) ==
  LET d == Shipping(SumOver(Units, os)) IN
  /\ \A o \in os : CanLeave(o)
  /\ CanApply(bal, d)
  /\ bal' = Plus(bal, d)
  /\ ship' = [o \in Order |-> IF o \in os THEN [ship[o] EXCEPT !.status = "HANDED_OVER"]
                                          ELSE ship[o]]
  /\ status' = [o \in Order |-> IF o \in os THEN "SHIPPED" ELSE status[o]]

\* The order action "ship".
ShipOrder(o) ==
  /\ Leave({o})
  /\ UNCHANGED <<manifests, returns, refreshing, handing>>

(* The order action "deliver": the shipment follows if there is one and it  *)
(* has not ended.                                                           *)
DeliverOrder(o) ==
  /\ status[o] = "SHIPPED"
  /\ ShipmentFree(o)
  /\ status' = [status EXCEPT ![o] = "DELIVERED"]
  /\ ship' = [ship EXCEPT ![o].status = Advance(@, "DELIVERED")]
  /\ UNCHANGED <<manifests, returns, bal, refreshing, handing>>

(* A status typed in by a user; refused if it changes nothing or raises.   *)
ManualTracking(o, st) ==
  /\ ShipmentFree(o)
  /\ ship[o].provider \in {"manual", "simulator"}
  /\ Accepts(ship[o].status, st)
  /\ ~(st = "RETURNED_TO_SENDER" /\ ReturnsToSender(o, status[o]) /\ NothingLeft(o))
  /\ Follow(o, st, status[o])
  /\ ship' = [ship EXCEPT ![o].status = st]
  /\ UNCHANGED <<manifests, bal, refreshing, handing>>

(* refresh(), of a user, a courier's webhook or the worker, up to the call  *)
(* to the courier.  A manual account reports nothing.                       *)
StartRefresh(o) ==
  /\ ShipmentFree(o)
  /\ ship[o].provider \in {"simulator", "biteship"}
  /\ ship[o].status \notin Terminal
  /\ refreshing' = [refreshing EXCEPT ![o] = status[o]]
  /\ UNCHANGED <<status, ship, manifests, returns, bal, handing>>

(* The histories the courier of shipment x may answer with: it tells all    *)
(* again and maybe more.  The simulator goes through its steps once the     *)
(* parcel is handed over.                                                   *)
Steps == <<"IN_TRANSIT", "OUT_FOR_DELIVERY", "DELIVERED">>

Told(x) ==
  IF x.provider = "simulator"
  THEN {SubSeq(Steps, 1, n) : n \in IF x.status \in Waiting THEN {0} ELSE Len(x.history)..3}
  ELSE {h \in {x.history \o more : more \in BoundedSeq(Reports, MaxReports - Len(x.history))} :
          \A n \in 1..(Len(h) - 1) : h[n] \notin Terminal}

(* The rest of refresh(), with what it has read of the order. *)
FinishRefresh(o, h, resi) ==
  LET x  == ship[o]
      st == Tracked(x.status, h)
  IN
  /\ refreshing[o] # None
  /\ x.resi => resi
  /\ ship' = [ship EXCEPT ![o] = [@ EXCEPT !.status = st, !.history = h, !.resi = resi]]
  /\ Follow(o, st, refreshing[o])
  /\ refreshing' = [refreshing EXCEPT ![o] = None]
  /\ UNCHANGED <<manifests, bal, handing>>

(* The connection or the process is lost. *)
AbortRefresh(o) ==
  /\ refreshing[o] # None
  /\ refreshing' = [refreshing EXCEPT ![o] = None]
  /\ UNCHANGED <<status, ship, manifests, returns, bal, handing>>

-------------------------------------------------------------------------------
(* Manifests, all of one courier and one warehouse, under their lock. *)

CreateManifest(m) ==
  /\ manifests[m] = "NEW"
  /\ manifests' = [manifests EXCEPT ![m] = "OPEN"]
  /\ UNCHANGED <<status, ship, returns, bal, refreshing, handing>>

ManifestScan(m, o) ==
  /\ ManifestFree(m) /\ ShipmentFree(o)
  /\ manifests[m] = "OPEN"
  /\ ship[o].status = "LABEL_READY" /\ ship[o].manifest = None
  /\ ship' = [ship EXCEPT ![o].manifest = m]
  /\ UNCHANGED <<status, manifests, returns, bal, refreshing, handing>>

ManifestRemove(m, o) ==
  /\ ManifestFree(m) /\ ShipmentFree(o)
  /\ manifests[m] = "OPEN" /\ ship[o].manifest = m
  /\ ship' = [ship EXCEPT ![o].manifest = None]
  /\ UNCHANGED <<status, manifests, returns, bal, refreshing, handing>>

ManifestCancel(m) ==
  /\ ManifestFree(m)
  /\ manifests[m] = "OPEN"
  /\ \A o \in Order : ship[o].manifest = m => ShipmentFree(o)
  /\ ship' = [o \in Order |-> IF ship[o].manifest = m THEN [ship[o] EXCEPT !.manifest = None]
                                                      ELSE ship[o]]
  /\ manifests' = [manifests EXCEPT ![m] = "CANCELLED"]
  /\ UNCHANGED <<status, returns, bal, refreshing, handing>>

(* manifest_handover(): the packages are read, not locked. *)
StartHandover(m) ==
  LET os == {o \in Order : ship[o].manifest = m /\ ship[o].status = "LABEL_READY"} IN
  /\ ManifestFree(m)
  /\ manifests[m] = "OPEN" /\ os # {}
  /\ handing' = [handing EXCEPT ![m] = os]
  /\ UNCHANGED <<status, ship, manifests, returns, bal, refreshing>>

(* Every order read is shipped with the shipment it has now, or none is. *)
FinishHandover(m) ==
  /\ handing[m] # {}
  /\ Leave(handing[m])
  /\ manifests' = [manifests EXCEPT ![m] = "HANDED_OVER"]
  /\ handing' = [handing EXCEPT ![m] = {}]
  /\ UNCHANGED <<returns, refreshing>>

(* An error of one of the orders, or a lost connection. *)
AbortHandover(m) ==
  /\ handing[m] # {}
  /\ handing' = [handing EXCEPT ![m] = {}]
  /\ UNCHANGED <<status, ship, manifests, returns, bal, refreshing>>

-------------------------------------------------------------------------------
(* Returns, under the return's lock (and the order's where it is written). *)

\* create(), asked for by the seller.
RequestReturn(o, q) ==
  /\ Returnable(status[o]) /\ ~HasOpenReturn(o)
  /\ q \in 1..(Units[o] - ReturnedBefore(o))
  /\ Len(returns[o]) < MaxReturns
  /\ returns' = [returns EXCEPT ![o] = Append(@, NewReturn("REQUESTED", status[o], q))]
  /\ status' = [status EXCEPT ![o] = "RETURN_REQUESTED"]
  /\ UNCHANGED <<ship, manifests, bal, refreshing, handing>>

Approve(o, i) ==
  /\ returns[o][i].status = "REQUESTED"
  /\ returns' = [returns EXCEPT ![o][i].status = "APPROVED"]
  /\ UNCHANGED <<status, ship, manifests, bal, refreshing, handing>>

(* The order gets back the status it had at the request. *)
Reject(o, i) ==
  /\ returns[o][i].status = "REQUESTED"
  /\ returns' = [returns EXCEPT ![o][i].status = "REJECTED"]
  /\ status' = [status EXCEPT ![o] = returns[o][i].before]
  /\ UNCHANGED <<ship, manifests, bal, refreshing, handing>>

(* q units arrive in the warehouse, to be inspected. *)
Receive(o, i, q) ==
  /\ returns[o][i].status = "APPROVED" /\ q \in 1..returns[o][i].quantity
  /\ returns' = [returns EXCEPT ![o][i] = [@ EXCEPT !.status = "RECEIVED", !.received = q]]
  /\ bal' = Plus(bal, [Zero EXCEPT !.returned = q])
  /\ status' = [status EXCEPT ![o] = "RETURNED"]
  /\ UNCHANGED <<ship, manifests, refreshing, handing>>

(* restock of them can be sold again (with a task to put them away). *)
Inspect(o, i, restock) ==
  LET q == returns[o][i].received
      d == [Zero EXCEPT !.returned = -q, !.on_hand = restock, !.damaged = q - restock]
  IN
  /\ returns[o][i].status = "RECEIVED" /\ restock <= q
  /\ CanApply(bal, d)
  /\ bal' = Plus(bal, d)
  /\ returns' = [returns EXCEPT ![o][i].status = "INSPECTED"]
  /\ UNCHANGED <<status, ship, manifests, refreshing, handing>>

Refunded(o) == SumOver([i \in DOMAIN returns[o] |-> returns[o][i].refund], DOMAIN returns[o])

Refund(o, i, amount) ==
  /\ returns[o][i].status = "INSPECTED"
  /\ amount <= Total[o] - Refunded(o)
  /\ returns' = [returns EXCEPT ![o][i] = [@ EXCEPT !.status = "CLOSED", !.refund = amount]]
  /\ status' = [status EXCEPT ![o] = "REFUNDED"]
  /\ UNCHANGED <<ship, manifests, bal, refreshing, handing>>

(* With nothing, or with a replacement: a new order of its own. *)
Close(o, i) ==
  /\ returns[o][i].status = "INSPECTED"
  /\ returns' = [returns EXCEPT ![o][i].status = "CLOSED"]
  /\ UNCHANGED <<status, ship, manifests, bal, refreshing, handing>>

-------------------------------------------------------------------------------
(* Packed orders with their stock reserved. *)
Init ==
  /\ status = [o \in Order |-> "READY_TO_SHIP"]
  /\ ship = [o \in Order |-> NoShipment]
  /\ manifests = [m \in Manifest |-> "NEW"]
  /\ returns = [o \in Order |-> <<>>]
  /\ bal = [Zero EXCEPT !.on_hand = SumOver(Units, Order), !.reserved = SumOver(Units, Order)]
  /\ refreshing = [o \in Order |-> None]
  /\ handing = [m \in Manifest |-> {}]

Delivering(o) ==
  \/ CancelShipment(o) \/ ShipOrder(o) \/ DeliverOrder(o)
  \/ \E p \in Providers, resi \in BOOLEAN : CreateShipment(o, p, resi)
  \/ \E st \in Underway : ManualTracking(o, st)
  \/ StartRefresh(o) \/ AbortRefresh(o)
  \/ \E h \in Told(ship[o]), resi \in BOOLEAN : FinishRefresh(o, h, resi)

Handing(m) ==
  \/ CreateManifest(m) \/ ManifestCancel(m)
  \/ \E o \in Order : ManifestScan(m, o) \/ ManifestRemove(m, o)
  \/ StartHandover(m) \/ FinishHandover(m) \/ AbortHandover(m)

Returning(o) ==
  \/ \E q \in 1..Units[o] : RequestReturn(o, q)
  \/ \E i \in DOMAIN returns[o] :
       \/ Approve(o, i) \/ Reject(o, i) \/ Close(o, i)
       \/ \E q \in 1..Units[o] : Receive(o, i, q)
       \/ \E restock \in 0..returns[o][i].received : Inspect(o, i, restock)
       \/ \E amount \in 1..Total[o] : Refund(o, i, amount)

Next == \/ \E o \in Order : Delivering(o) \/ Returning(o)
        \/ \E m \in Manifest : Handing(m)

Spec == Init /\ [][Next]_vars

-------------------------------------------------------------------------------
TypeOK ==
  /\ status \in [Order -> OrderStatuses]
  /\ DOMAIN ship = Order /\ \A o \in Order : ShipmentRow(ship[o])
  /\ manifests \in [Manifest -> {"NEW"} \cup ManifestStatuses]
  /\ returns \in [Order -> Seq(Returns)]
  /\ \A o \in Order : \A i \in DOMAIN returns[o] :
        ReturnRow(returns[o][i]) /\ ReturnLineRow(returns[o][i])
  /\ bal \in Balances
  /\ refreshing \in [Order -> OrderStatuses \cup {None}]
  /\ handing \in [Manifest -> SUBSET Order]

(* An order and its parcel leave together: whatever the courier says, and   *)
(* however early it says it, nothing is in transit, delivered or on its way *)
(* back while its order still waits, and no order has left without one.     *)
OrderLeavesWithParcel ==
  \A o \in Order :
    IF status[o] = "READY_TO_SHIP"
    THEN ship[o].status \in Waiting \cup {"NONE", "CANCELLED"}
    ELSE ship[o].status \notin Waiting \cup {"NONE"}

(* A manifest that was handed over leaves no package behind, though its     *)
(* packages are read before their orders are locked.                        *)
ManifestTakesAll ==
  \A m \in Manifest : manifests[m] = "HANDED_OVER" =>
    ~\E o \in Order : ship[o].manifest = m /\ ship[o].status \in Waiting

(* "Satu order hanya boleh punya satu retur aktif", also when a refresh     *)
(* works with an order as it was before a return.                           *)
OneOpenReturn ==
  \A o \in Order : Cardinality({i \in DOMAIN returns[o] : returns[o][i].status \in InReturn}) <= 1

(* No unit comes back twice: what is on hand again, damaged or waits for    *)
(* inspection was shipped, over all returns of an order, rejected, closed   *)
(* or made by the courier behind the back of another.                       *)
NoUnitComesBackTwice ==
  LET shipped == SumOver(Units, {o \in Order : status[o] # "READY_TO_SHIP"})
      waiting == SumOver(Units, {o \in Order : status[o] = "READY_TO_SHIP"})
  IN  /\ bal.reserved = waiting
      /\ bal.on_hand - waiting + bal.returned + bal.damaged <= shipped

(* An order is not refunded more than was paid for it, over all its returns.*)
RefundedWithinTotal == \A o \in Order : Refunded(o) <= Total[o]

(* Neither units nor money come back twice, whatever a refresh has read of   *)
(* the order before.                                                         *)
NothingComesBackTwice == NoUnitComesBackTwice /\ RefundedWithinTotal

==============================================================================
