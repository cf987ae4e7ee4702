------------------------------ MODULE Anomalies ------------------------------
(***************************************************************************)
(* Unusual things and who is told of them: app/modules/ai/anomaly.py, run  *)
(* by the worker (run_ai of app/workers/jobs.py), and the decisions users  *)
(* take (decide of app/modules/ai/router.py).                              *)
(*                                                                         *)
(* One tenant, one channel, one contact and one SKU of one price.  No      *)
(* behaviour is longer than the 21 and 90 days the scans look back.        *)
(***************************************************************************)
EXTENDS Clock, FiniteSets, Sequences

CONSTANTS
  Sizes,       \* units an order can have
  Price,       \* what one costs
  MinHistory,  \* orders before an order is compared (20)
  MinDays,     \* days before a day is compared (7)
  Busy,        \* orders of a day worth comparing (5)
  Repeats,     \* orders of one contact in a day that are many (4)
  Arrivals,    \* orders that come at once over the channel
  MaxOrders, MaxDaily  \* bounds

ASSUME AnomaliesAssumption ==
  /\ Sizes \subseteq Nat \ {0} /\ Arrivals \subseteq Nat \ {0}
  /\ {Price, MinHistory, MinDays, Busy, Repeats, MaxOrders, MaxDaily} \subseteq Nat \ {0}

VARIABLES
  placed,   \* the orders, as they were placed
  arrived,  \* how many orders the channel had on each day of Jakarta
  finding,  \* the table anomalies: the dedup_keys
  decided,  \* those somebody has acknowledged or dismissed
  told,     \* [finding -> Seq(Days)]: the days of Jakarta one was notified of it
  fresh     \* kinds that were looked for and nothing has happened since

anomalyVars == <<time, placed, arrived, finding, decided, told, fresh>>

Noon(t) == t % 3 # 0

AnomalyKind == {"value", "quantity", "spike", "silent", "repeat"}
DailyKind   == {"spike", "silent", "repeat"}

Keys == ({"value", "quantity"} \X (1..MaxOrders)) \cup (DailyKind \X Days)

(* What is found is about an order there is, or a day of UTC that has come. *)
Subject(k) == IF k[1] \in DailyKind THEN k[2] <= UtcDay(time) ELSE k[2] <= Len(placed)

Purchases == [at : 0..MaxTime, units : Sizes, cancelled : BOOLEAN]

AnomaliesTypeOK ==
  /\ time \in 0..MaxTime
  /\ placed \in Seq(Purchases) /\ Len(placed) <= MaxOrders
  /\ arrived \in [Days -> 0..MaxDaily]
  /\ finding \subseteq Keys /\ \A k \in finding : Subject(k)
  /\ decided \subseteq finding
  /\ DOMAIN told \subseteq Keys /\ \A k \in DOMAIN told : told[k] \in Seq(Days)
  /\ fresh \subseteq AnomalyKind

AnomaliesInit ==
  /\ time = 0 /\ placed = <<>> /\ fresh = {}
  /\ arrived = [d \in Days |-> 0]
  /\ finding = {} /\ decided = {} /\ told = <<>>

-----------------------------------------------------------------------------
(* The k-th smallest of the values vals[i], and twice their median. *)
Nth(vals, k) ==
  CHOOSE v \in {vals[i] : i \in DOMAIN vals} :
    /\ Cardinality({i \in DOMAIN vals : vals[i] < v}) < k
    /\ k <= Cardinality({i \in DOMAIN vals : vals[i] <= v})

TwiceMedian(vals) ==
  LET n == Cardinality(DOMAIN vals)
  IN  Nth(vals, (n + 1) \div 2) + Nth(vals, (n + 2) \div 2)

Distance(x, y) == IF x >= y THEN x - y ELSE y - x

(* mad(), four times. *)
FourMad(vals) ==
  TwiceMedian([i \in DOMAIN vals |-> Distance(2 * vals[i], TwiceMedian(vals))])

(* robust_z(x) >= z: x lies z scales above the median, the scale being       *)
(* 1.4826 times the MAD, or else a fifth of the median and no less than 1.   *)
RobustZ(x, vals, z) ==
  LET m == TwiceMedian(vals)
      d == FourMad(vals)
      least == IF m > 10 THEN m ELSE 10
  IN  /\ 2 * x >= m
      /\ IF d > 0 THEN (2 * x - m) * 20000 >= z * 14826 * d
         ELSE (2 * x - m) * 5 >= z * least

(* Orders until a day ago, and of the last two days. *)
History == {i \in DOMAIN placed : ~placed[i].cancelled /\ placed[i].at + 3 <= time}
Recent  == {i \in DOMAIN placed : ~placed[i].cancelled /\ placed[i].at + 6 >= time}

FarAbove(i) ==
  LET vals == [j \in History |-> placed[j].units * Price]
      x == placed[i].units * Price
  IN  /\ Cardinality(History) >= MinHistory
      /\ RobustZ(x, vals, 6)
      /\ 2 * x >= 3 * TwiceMedian(vals)

FarMore(i) ==
  LET m == TwiceMedian([j \in History |-> placed[j].units])
  IN  /\ Cardinality(History) >= MinHistory
      /\ placed[i].units >= 10 /\ placed[i].units >= 4 * m

Today == LocalDay(time)

(* The days before that have had an order at all. *)
Earlier == {d \in Days : d < Today /\ arrived[d] > 0}
PerDay  == [d \in Earlier |-> arrived[d]]

Spike ==
  /\ Cardinality(Earlier) >= MinDays
  /\ RobustZ(arrived[Today], PerDay, 5)
  /\ arrived[Today] >= TwiceMedian(PerDay) /\ arrived[Today] >= Busy

Silent ==
  /\ Cardinality(Earlier) >= MinDays
  /\ TwiceMedian(PerDay) >= 2 * Busy /\ arrived[Today] = 0
  /\ Noon(time)

ManyOrders ==
  Cardinality({i \in DOMAIN placed : ~placed[i].cancelled /\ placed[i].at + 3 >= time}) >= Repeats

-----------------------------------------------------------------------------
(* _record(): INSERT ... ON CONFLICT DO NOTHING. *)
Unheard(keys) == keys \ finding

TimesTold(k) == IF k \in DOMAIN told THEN told[k] ELSE <<>>

(* scan(), one of its queries: what it finds is recorded, and who has not    *)
(* been told is told (notify).                                               *)
Record(kinds, keys) ==
  /\ finding' = finding \cup keys
  /\ decided' = decided \ Unheard(keys)
  /\ told' = [k \in DOMAIN told \cup Unheard(keys) |->
                IF k \in Unheard(keys) THEN Append(TimesTold(k), Today) ELSE told[k]]
  /\ fresh' = fresh \cup kinds
  /\ UNCHANGED <<time, placed, arrived>>

\* Mutant: the key has no day.
DaylessKey(kind) == <<kind, 0>>

(* The dedup_key of what is found once a day: the day is that of UTC. *)
DailyKey(kind) == <<kind, UtcDay(time)>>

ScanOrders ==
  Record({"value", "quantity"},
         {<<"value", i>> : i \in {j \in Recent : FarAbove(j)}}
         \cup {<<"quantity", i>> : i \in {j \in Recent : FarMore(j)}})

ScanChannel ==
  Record({"spike", "silent"},
         {k \in {DailyKey("spike")} : Spike} \cup {k \in {DailyKey("silent")} : Silent})

ScanContact == Record({"repeat"}, {k \in {DailyKey("repeat")} : ManyOrders})

(* decide(): acknowledged or dismissed, which may be changed. *)
Decide(k) ==
  /\ decided' = decided \cup {k}
  /\ UNCHANGED <<time, placed, arrived, finding, told, fresh>>

-----------------------------------------------------------------------------
PlaceOrder(units) ==
  /\ Len(placed) < MaxOrders
  /\ placed' = Append(placed, [at |-> time, units |-> units, cancelled |-> FALSE])
  /\ fresh' = {}
  /\ UNCHANGED <<time, arrived, finding, decided, told>>

CancelPurchase(i) ==
  /\ ~placed[i].cancelled
  /\ placed' = [placed EXCEPT ![i].cancelled = TRUE]
  /\ fresh' = {}
  /\ UNCHANGED <<time, arrived, finding, decided, told>>

Arrive(n) ==
  /\ arrived[Today] + n <= MaxDaily
  /\ arrived' = [arrived EXCEPT ![Today] = @ + n]
  /\ fresh' = {}
  /\ UNCHANGED <<time, placed, finding, decided, told>>

PassTime ==
  /\ ClockTicks
  /\ fresh' = {}
  /\ UNCHANGED <<placed, arrived, finding, decided, told>>

AnomaliesNext ==
  \/ ScanOrders \/ ScanChannel \/ ScanContact \/ PassTime
  \/ \E k \in finding : Decide(k)
  \/ \E units \in Sizes : PlaceOrder(units)
  \/ \E i \in DOMAIN placed : CancelPurchase(i)
  \/ \E n \in Arrivals : Arrive(n)

AnomaliesSpec == AnomaliesInit /\ [][AnomaliesNext]_anomalyVars

-----------------------------------------------------------------------------
(***************************************************************************)
(* Nobody is told of a finding twice, and of none that is not recorded,    *)
(* however often it is found and whatever was decided about it.            *)
(***************************************************************************)
FindingsToldOnce ==
  DOMAIN told = finding /\ \A k \in finding : Len(told[k]) = 1

(***************************************************************************)
(* Large orders do not hide another one: an order of the last two days     *)
(* that is ten times as large as each of most orders before it has been    *)
(* told once it was looked for, whatever the others are (median, MAD).     *)
(***************************************************************************)
LargeOrdersAreSeen ==
  LET smaller(i) == {j \in History : placed[i].units >= 10 * placed[j].units}
  IN  "value" \in fresh /\ Cardinality(History) >= MinHistory
      => \A i \in Recent : 2 * Cardinality(smaller(i)) > Cardinality(History)
                          => <<"value", i>> \in DOMAIN told

(***************************************************************************)
(* A day on which the channel has far more orders than usual is told, when *)
(* it is looked for between 07:00 and 24:00 of Jakarta, and no more than   *)
(* twice: the finding is known by the day of UTC, which changes at 07:00.  *)
(***************************************************************************)
SpikesAreTold ==
  LET heard(d) == {k \in DOMAIN told : k[1] = "spike" /\ \E n \in DOMAIN told[k] : told[k][n] = d}
  IN  /\ \A d \in Days : Cardinality(heard(d)) <= 2
      /\ "spike" \in fresh /\ UtcDay(time) = Today /\ Spike => heard(Today) # {}

(* What is unusual is found, and told as often as it should be (scan). *)
FindingsHold == FindingsToldOnce /\ LargeOrdersAreSeen /\ SpikesAreTold
=============================================================================
