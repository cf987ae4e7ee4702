------------------------------- MODULE Forecast -------------------------------
(***************************************************************************)
(* What will be sold and what runs out: app/modules/ai/forecast.py, its    *)
(* job (run_ai of app/workers/jobs.py) and POST /ai/rebuild.               *)
(*                                                                         *)
(* One tenant, one warehouse.  A rebuild reads the sales in one query and  *)
(* writes a row for every SKU, the rows in any order; the worker's rebuild *)
(* and a user's may overlap, and a row that one of them has written stays  *)
(* locked until it commits.  The worker also tells of the SKUs that run    *)
(* out.  No behaviour has the 28 days of sales a weekly pattern needs.     *)
(***************************************************************************)
EXTENDS Clock, FiniteSets, Sequences, Totals

CONSTANTS
  Ware,      \* the SKUs
  Builder,   \* rebuilds at the same time
  Worker,    \* the one of them that is the worker
  Weight,    \* [0..History-1 -> Nat]: how much a sale of so many days ago counts
  Levels,    \* stock a SKU can have
  LeadTime, WarnAtMost, Horizon,
  MaxSales   \* bound

HistoryDays == Cardinality(DOMAIN Weight)

ASSUME ForecastAssumption ==
  /\ IsFiniteSet(Ware) /\ Worker \in Builder /\ Levels \subseteq Nat
  /\ {LeadTime, WarnAtMost, Horizon, MaxSales} \subseteq Nat
  /\ HistoryDays \in Nat \ {0} /\ DOMAIN Weight = 0..(HistoryDays - 1) /\ \A k \in DOMAIN Weight : Weight[k] \in Nat \ {0}

VARIABLES
  sale,     \* the orders, each of one unit
  stock,    \* what is available
  row,      \* demand_forecasts: the rate, and generated_at
  build,    \* the rebuilds under way
  warned,   \* the days a SKU has been told of
  current   \* the worker has told, and nothing has happened since

forecastVars == <<time, sale, stock, row, build, warned, current>>

Sales == [ware : Ware, day : Days]

(* A moment is the number of orders there were. *)
Moments == 0..MaxSales

(* began: now() of the transaction; rate: what was read and computed; wrote: *)
(* the rows it has locked.                                                   *)
Builds  == [at : {"nowhere", "began", "read"}, began : Moments, rate : [Ware -> Nat], wrote : SUBSET Ware]
NoBuild == [at |-> "nowhere", began |-> 0, rate |-> [i \in Ware |-> 0], wrote |-> {}]

ForecastTypeOK ==
  /\ time \in 0..MaxTime
  /\ sale \in Seq(Sales) /\ Len(sale) <= MaxSales
  /\ stock \in [Ware -> Levels]
  /\ row \in [Ware -> [rate : Nat, generated : Moments]]
  /\ build \in [Builder -> Builds]
  /\ \A b, c \in Builder : b # c => build[b].wrote \cap build[c].wrote = {}
  /\ warned \in [Ware -> Seq(Days)]
  /\ current \in BOOLEAN

(* A SKU that was never forecast has no row, and sells nothing. *)
ForecastInit ==
  /\ time = 0 /\ sale = <<>> /\ current = FALSE
  /\ stock \in [Ware -> Levels]
  /\ row = [i \in Ware |-> [rate |-> 0, generated |-> 0]]
  /\ build = [b \in Builder |-> NoBuild]
  /\ warned = [i \in Ware |-> <<>>]

-----------------------------------------------------------------------------
SumTo(f, n) == SumOver(f, 0..(n - 1))

(* _series(): the days i was sold on, and the units of it sold k days before *)
(* today, among the first n orders.                                          *)
DaysSold(i, n) == {sale[m].day : m \in {x \in 1..n : sale[x].ware = i}}

SoldBefore(i, n, today, k) ==
  Cardinality({m \in 1..n : sale[m].ware = i /\ sale[m].day + k = today})

Span(first, today) ==
  IF today + 1 - first > HistoryDays THEN HistoryDays ELSE today + 1 - first

WeightedMean(i, n, today, span) ==
  (100 * SumTo([k \in 0..(span - 1) |-> Weight[k] * SoldBefore(i, n, today, k)], span))
    \div SumTo(Weight, span)

(* fit(): the weighted mean of a day's sales since the first one, in         *)
(* hundredths; what is sold on a day after today does not count yet.         *)
Fit(i, n, today) ==
  LET days == DaysSold(i, n)
      first == CHOOSE d \in days : \A e \in days : d <= e
  IN  IF days = {} \/ first > today THEN 0 ELSE WeightedMean(i, n, today, Span(first, today))

NotWithin == Horizon + 1

(* days_until_out(), NotWithin if not within the horizon. *)
DaysUntilOut(i) ==
  LET n == (100 * stock[i] + row[i].rate - 1) \div row[i].rate
  IN  IF n > Horizon THEN NotWithin ELSE n

RiskOf(i) ==
  LET n == DaysUntilOut(i)
  IN  IF stock[i] = 0 THEN "habis"
      ELSE IF n # NotWithin /\ n <= LeadTime THEN "kritis"
      ELSE IF n # NotWithin /\ n <= LeadTime + 7 THEN "waspada"
      ELSE "aman"

Severity == [habis |-> 0, kritis |-> 1, waspada |-> 2, aman |-> 3]

(* The order of stockout_risk(): i may stand before j. *)
MayPrecede(i, j) ==
  \/ Severity[RiskOf(i)] < Severity[RiskOf(j)]
  \/ /\ Severity[RiskOf(i)] = Severity[RiskOf(j)]
     /\ DaysUntilOut(i) <= DaysUntilOut(j)

(* The lists it may return; what sells nothing is left out. *)
Listed == {i \in Ware : row[i].rate > 0}
AtMost(S) == IF Cardinality(S) > WarnAtMost THEN WarnAtMost ELSE Cardinality(S)
StockoutRisks ==
  {L \in SUBSET Listed : /\ Cardinality(L) = AtMost(Listed)
                         /\ \A i \in L, j \in Listed \ L : MayPrecede(i, j)}

-----------------------------------------------------------------------------
Begin(b) ==
  /\ build[b] = NoBuild
  /\ build' = [build EXCEPT ![b].at = "began", ![b].began = Len(sale)]
  /\ UNCHANGED <<time, sale, stock, row, warned, current>>

(* rebuild(): the sales, as they are when the query runs. *)
ReadSales(b) ==
  /\ build[b].at = "began"
  /\ build' = [build EXCEPT ![b].at = "read",
                            ![b].rate = [i \in Ware |-> Fit(i, Len(sale), UtcDay(time))]]
  /\ UNCHANGED <<time, sale, stock, row, warned, current>>

RowFree(b, i) == \A c \in Builder : i \notin build[c].wrote

(* INSERT ... ON CONFLICT DO UPDATE waits for a row somebody else has        *)
(* written.  Two rebuilds that wait for one another: one of them fails.      *)
WriteRow(b, i) ==
  /\ build[b].at = "read"
  /\ RowFree(b, i)
  /\ build' = [build EXCEPT ![b].wrote = @ \cup {i}]
  /\ UNCHANGED <<time, sale, stock, row, warned, current>>

\* Mutant: generated_at is the time of the commit.
StampedLate(b) ==
  [i \in Ware |-> IF i \in build[b].wrote THEN [rate |-> build[b].rate[i], generated |-> Len(sale)]
                  ELSE row[i]]

Stamped(b) ==
  [i \in Ware |-> IF i \in build[b].wrote THEN [rate |-> build[b].rate[i], generated |-> build[b].began]
                  ELSE row[i]]

CommitBuild(b) ==
  /\ b # Worker /\ build[b].wrote = Ware
  /\ row' = Stamped(b)
  /\ build' = [build EXCEPT ![b] = NoBuild]
  /\ current' = FALSE
  /\ UNCHANGED <<time, sale, stock, warned>>

AbortBuild(b) ==
  /\ build[b] # NoBuild
  /\ build' = [build EXCEPT ![b] = NoBuild]
  /\ UNCHANGED <<time, sale, stock, row, warned, current>>

(* run_ai(): the worker, which rebuilds every six hours only, tells of what  *)
(* runs out, once a day of UTC (dedup_key), and commits.  The list is worst  *)
(* first, and what follows the first SKU that is not critical is left.       *)
CommitAi ==
  /\ build[Worker].at = "began" \/ build[Worker].wrote = Ware
  /\ row' = Stamped(Worker)
  /\ build' = [build EXCEPT ![Worker] = NoBuild]
  /\ current' = TRUE
  /\ UNCHANGED <<time, sale, stock>>
  /\ \E list \in StockoutRisks' :
       LET news == {i \in list : /\ RiskOf(i)' \in {"habis", "kritis"}
                                 /\ \A n \in DOMAIN warned[i] : warned[i][n] # UtcDay(time)}
       IN  warned' = [i \in Ware |-> IF i \in news THEN Append(warned[i], UtcDay(time)) ELSE warned[i]]

-----------------------------------------------------------------------------
Sell(i) ==
  /\ Len(sale) < MaxSales
  /\ sale' = Append(sale, [ware |-> i, day |-> LocalDay(time)])
  /\ current' = FALSE
  /\ UNCHANGED <<time, stock, row, build, warned>>

MoveStock(i, n) ==
  /\ n # stock[i]
  /\ stock' = [stock EXCEPT ![i] = n]
  /\ current' = FALSE
  /\ UNCHANGED <<time, sale, row, build, warned>>

NextDay ==
  /\ ClockTicks
  /\ current' = FALSE
  /\ UNCHANGED <<sale, stock, row, build, warned>>

ForecastNext ==
  \/ CommitAi \/ NextDay
  \/ \E b \in Builder : Begin(b) \/ ReadSales(b) \/ CommitBuild(b) \/ AbortBuild(b)
  \/ \E b \in Builder, i \in Ware : WriteRow(b, i)
  \/ \E i \in Ware : Sell(i) \/ (\E n \in Levels : MoveStock(i, n))

ForecastSpec == ForecastInit /\ [][ForecastNext]_forecastVars

-----------------------------------------------------------------------------
(***************************************************************************)
(* A forecast counts every order there was at its generated_at, whichever  *)
(* rebuilds overlap: it is what the orders of that moment, or of a later   *)
(* one, say of some day since the beginning.                               *)
(***************************************************************************)
ForecastsCountSales ==
  \A i \in Ware :
    \E n \in row[i].generated..Len(sale), t \in 0..time : row[i].rate = Fit(i, n, UtcDay(t))

(***************************************************************************)
(* Who looks at his notifications misses no SKU that sells and that runs   *)
(* out before new stock can come, if there are no more of them than the    *)
(* worker tells of at once: it has been told today (run_ai).  The lead     *)
(* time is taken to be within the horizon.                                 *)
(***************************************************************************)
CriticalAreTold ==
  LET critical == {i \in Ware : row[i].rate > 0 /\ 100 * stock[i] <= LeadTime * row[i].rate}
  IN  current /\ LeadTime <= Horizon /\ Cardinality(critical) <= WarnAtMost
      => \A i \in critical : \E n \in DOMAIN warned[i] : warned[i][n] = UtcDay(time)

(* The rows tell of the sales there were, and those who need to know are     *)
(* told of them (rebuild, run_ai).                                           *)
ForecastsHold == ForecastsCountSales /\ CriticalAreTold
=============================================================================
