------------------------------ MODULE MCInsight ------------------------------
(* Small instances for TLC of parcels and, beside them, of what is learned   *)
(* from sales and parcels and of the assistant.                              *)
EXTENDS MCDelivery, Insight

CONSTANTS worker, hand, mug, cup, jne, order1, left, right

(* He may all, or not pick; or the subscription is suspended. *)
Everything == [may |-> {Registry[t].permission : t \in DOMAIN Registry},
               features |-> {"oms", "analytics", "ai"}, readOnly |-> FALSE]
RightsSeen == {Everything,
               [Everything EXCEPT !.may = @ \ {"order:fulfill"}, !.features = {"oms"}],
               [Everything EXCEPT !.readOnly = TRUE]}
Sayings == {[order |-> order1, words |-> {"cancel", "parcel"}], [order |-> Unnamed, words |-> {"late", "stock"}]}

Weights == [k \in 0..1 |-> 20 - k]

(* The story of MCDelivery tells what a behaviour is about; the other parts  *)
(* stand still.                                                              *)
ScansOf == [orders |-> {"value", "quantity"}, channel |-> {"spike", "silent"}, contact |-> {"repeat"}]

anomalyOnly  == <<placed, arrived, finding, decided, told, fresh>>
forecastOnly == <<sale, stock, row, build, warned, current>>

InsightInit ==
  /\ Init /\ AnomaliesInit /\ ForecastInit /\ CouriersInit /\ AssistantInit
  /\ story \in {"returns", "manifests", "rebuilds", "running out", "accounts", "parcels", "asking", "confirming", "both"} \cup DOMAIN ScansOf
  /\ stock = [i \in Ware |-> 9]
  /\ story \notin {"asking", "confirming", "both"} => rights = Everything /\ standing[order1] = "CREATED"
  /\ story = "asking" => ~rights.readOnly /\ standing[order1] = "CREATED"
  /\ IF story = "confirming" THEN \A w \in Window : Cardinality(screen[w]) = 1
     ELSE screen = [w \in Window |-> {}]

(* Single orders: none is cancelled when their size is looked at, and three  *)
(* make one contact conspicuous.  On a day the channel has no order, a       *)
(* single one, many, or both.                                                *)
OneScan ==
  /\ fresh' \subseteq ScansOf[story]
  /\ time' <= CASE story = "orders" -> 4 [] story = "contact" -> 3 [] story = "channel" -> 10
  /\ story # "channel" => UNCHANGED arrived
  /\ story = "channel" => UNCHANGED placed /\ \A d \in Days : arrived'[d] \in {0, 1, 6, 7}
  /\ story = "orders" => \A i \in DOMAIN placed' : ~placed'[i].cancelled
  /\ story = "contact" => Len(placed') <= 3 /\ \A i \in DOMAIN placed' : placed'[i].units = 1

(* Two that rebuild while no stock moves and one SKU is sold, or one, which  *)
(* takes no time, while one SKU runs out; rows are written in one order.     *)
OneConcern ==
  /\ \A k \in Builder : build'[k].wrote # {cup}
  /\ story = "rebuilds" => /\ time' <= 2 /\ UNCHANGED stock
                           /\ \A n \in DOMAIN sale' : sale'[n].ware = mug
  /\ story = "running out" => /\ time' <= 3 /\ build'[hand] = NoBuild /\ stock'[cup] # 0
                              /\ build[worker] # NoBuild => UNCHANGED <<time, stock, sale>>

(* At most two requests about accounts, which all stay active. *)
TwoChanges ==
  /\ Cardinality({c \in Account : edit'[c] # NoChange}) <= 2
  /\ \A c \in Account : edit'[c].row.active = edit'[c].row.exists
  /\ UNCHANGED parcel

(* The parcels of one carrier first. *)
InOrder ==
  /\ \A i \in DOMAIN parcel' :
       parcel'[i].status # "DELIVERED" => parcel'[i].days = 1 /\ parcel'[i].cost = 1
  /\ \A i, j \in DOMAIN parcel' : i < j /\ parcel'[j].carrier = jne => parcel'[i].carrier = jne

(* Two windows that ask, two that show an offer each, or one that does both.  *)
(* Read-only access makes no difference to a question.                        *)
OneWindow ==
  /\ story = "asking" => /\ standing' = standing /\ ~rights'.readOnly
                         /\ \A w \in Window : talk'[w].at # "acting"
  /\ story = "confirming" => \A w \in Window : talk'[w].at # "asked"
  /\ story = "both" => talk'[right] = Idle

InsightNext ==
  /\ UNCHANGED story
  /\ \/ /\ story \in {"returns", "manifests"} /\ MCNext
        /\ UNCHANGED <<time, anomalyOnly, forecastOnly, couriersVars, assistantVars>>
     \/ /\ story \in DOMAIN ScansOf /\ AnomaliesNext /\ OneScan
        /\ UNCHANGED <<vars, forecastOnly, couriersVars, assistantVars>>
     \/ /\ story \in {"rebuilds", "running out"} /\ ForecastNext /\ OneConcern
        /\ UNCHANGED <<vars, anomalyOnly, couriersVars, assistantVars>>
     \/ /\ story = "accounts" /\ CouriersNext /\ TwoChanges
        /\ UNCHANGED <<vars, time, anomalyOnly, forecastOnly, assistantVars>>
     \/ /\ story = "parcels" /\ CouriersNext /\ InOrder /\ UNCHANGED <<courierAcc, edit, crossed>>
        /\ UNCHANGED <<vars, time, anomalyOnly, forecastOnly, assistantVars>>
     \/ /\ story \in {"asking", "confirming", "both"} /\ AssistantNext /\ OneWindow
        /\ UNCHANGED <<vars, time, anomalyOnly, forecastOnly, couriersVars>>

InsightStories ==
  InsightInit /\ [][InsightNext]_<<vars, time, anomalyOnly, forecastOnly, couriersVars, assistantVars, story>>
=============================================================================
