---------------------------- MODULE InsightProofs ----------------------------
(***************************************************************************)
(* What is learned from sales and orders, and the courier accounts: proofs *)
(* of what Forecast, Couriers and Anomalies promise, for all their         *)
(* constants.                                                              *)
(***************************************************************************)
EXTENDS Forecast, Couriers, Anomalies, SequenceTheorems, TotalsProofs

(* Days come in order. *)
LEMMA DayTypes ==
  /\ \A t \in Nat : UtcDay(t) \in Nat /\ LocalDay(t) \in Nat
                    /\ LocalDay(t) \in UtcDay(t)..(UtcDay(t) + 1)
  /\ \A t \in 0..MaxTime : UtcDay(t) \in Days /\ LocalDay(t) \in Days
  BY ClockAssumption DEF UtcDay, LocalDay, Days

LEMMA DaysAreNat == Days \subseteq Nat
  <1>1. LocalDay(MaxTime) \in Nat
    BY ClockAssumption, DayTypes
  <1> QED
    BY <1>1 DEF Days

LEMMA LaterDays ==
  ASSUME NEW s \in Nat, NEW t \in Nat, s <= t
  PROVE  UtcDay(s) <= UtcDay(t) /\ LocalDay(s) <= LocalDay(t)
  BY DEF UtcDay, LocalDay

-----------------------------------------------------------------------------
(***************************************************************************)
(* Forecast, for any numbers of SKUs, rebuilds, sales and days.            *)
(***************************************************************************)

(* A rate is what orders say that were there since, on a day that has come. *)
Counts(rate, i, since) ==
  \E n \in since..Len(sale), t \in 0..time : rate = Fit(i, n, UtcDay(t))

BuildsOK ==
  \A b \in Builder :
    /\ build[b].began <= Len(sale)
    /\ build[b].wrote # {} => build[b].at = "read"
    /\ build[b].at = "read" => \A i \in Ware : Counts(build[b].rate[i], i, build[b].began)

RowsOK == \A i \in Ware : Counts(row[i].rate, i, row[i].generated)

Critical == {i \in Ware : row[i].rate > 0 /\ 100 * stock[i] <= LeadTime * row[i].rate}

ForecastInv == ForecastTypeOK /\ BuildsOK /\ RowsOK /\ CriticalAreTold

-----------------------------------------------------------------------------
(* What one of the first n orders was. *)
LEMMA SoldTypes ==
  ASSUME ForecastTypeOK, NEW i, NEW n \in 0..Len(sale)
  PROVE  /\ \A m \in 1..n : sale[m].day \in Nat
         /\ \A today, k : SoldBefore(i, n, today, k) \in Nat
  <1>1. \A m \in 1..n : sale[m] \in Sales
    BY DEF ForecastTypeOK
  <1>2. \A m \in 1..n : sale[m].day \in Nat
    BY <1>1 DEF Sales, Days
  <1>3. ASSUME NEW today, NEW k PROVE SoldBefore(i, n, today, k) \in Nat
    <2>1. IsFiniteSet(1..n)
      BY FS_Interval
    <2>2. {m \in 1..n : sale[m].ware = i /\ sale[m].day + k = today} \in SUBSET (1..n)
      OBVIOUS
    <2> QED
      BY <2>1, <2>2, FS_Subset, FS_CardinalityType DEF SoldBefore
  <1> QED
    BY <1>2, <1>3

LEMMA ProductIsNat == \A x, y \in Nat : x * y \in Nat
  OBVIOUS

LEMMA QuotientIsNat == \A x, y \in Nat : y > 0 => (100 * x) \div y \in Nat
  OBVIOUS

(* A mean of sales is a number: weights are positive, and there is a day to *)
(* divide by.                                                               *)
LEMMA MeanIsNat ==
  ASSUME ForecastTypeOK, NEW i, NEW n \in 0..Len(sale), NEW today, NEW span \in 1..HistoryDays
  PROVE  WeightedMean(i, n, today, span) \in Nat
  <1> PICK S : S = 0..(span - 1)
    OBVIOUS
  <1> PICK units : units = [k \in S |-> Weight[k] * SoldBefore(i, n, today, k)]
    OBVIOUS
  <1>1. HistoryDays \in Nat /\ \A k \in S : Weight[k] \in Nat /\ Weight[k] > 0
    BY ForecastAssumption
  <1>2. IsFiniteSet(S) /\ 0 \in S
    <2>1. IsFiniteSet(0..(span - 1))
      BY <1>1, FS_Interval
    <2> QED
      BY <1>1, <2>1
  <1>3. \A k \in S : units[k] \in Nat
    BY <1>1, SoldTypes, ProductIsNat
  <1>4. Countable(units, S) /\ Countable(Weight, S)
    BY <1>1, <1>2, <1>3 DEF Countable
  <1>5. SumOver(units, S) \in Nat /\ SumOver(Weight, S) \in Nat
    BY <1>4, SumIsNat
  <1>6. SumOver(Weight, {0}) = Weight[0] /\ SumOver(Weight, {0}) <= SumOver(Weight, S)
    BY <1>1, <1>2, <1>4, SumOfOne, SumOfPart
  <1>7. SumOver(Weight, S) > 0
    BY <1>1, <1>2, <1>5, <1>6
  <1>8. WeightedMean(i, n, today, span) = (100 * SumOver(units, S)) \div SumOver(Weight, S)
    BY DEF WeightedMean, SumTo
  <1> QED
    BY <1>5, <1>7, <1>8, QuotientIsNat

LEMMA SpanTypes ==
  ASSUME NEW first \in Nat, NEW today \in Nat, first <= today
  PROVE  Span(first, today) \in 1..HistoryDays
  <1>1. HistoryDays \in Nat /\ HistoryDays > 0
    BY ForecastAssumption
  <1>2. CASE today + 1 - first > HistoryDays
    BY <1>1, <1>2 DEF Span
  <1>3. CASE ~(today + 1 - first > HistoryDays)
    BY <1>1, <1>3 DEF Span
  <1> QED
    BY <1>2, <1>3

LEMMA FitIsNat ==
  ASSUME ForecastTypeOK, NEW i, NEW n \in 0..Len(sale), NEW today \in Nat
  PROVE  Fit(i, n, today) \in Nat
  <1> PICK days : days = DaysSold(i, n)
    OBVIOUS
  <1> PICK first : first = CHOOSE d \in days : \A e \in days : d <= e
    OBVIOUS
  <1>1. Fit(i, n, today) = IF days = {} \/ first > today THEN 0
                           ELSE WeightedMean(i, n, today, Span(first, today))
    BY DEF Fit
  <1>2. ASSUME days # {}, ~(first > today)
        PROVE  WeightedMean(i, n, today, Span(first, today)) \in Nat
    <2>1. days \in SUBSET Nat
      BY SoldTypes DEF DaysSold
    <2>2. first \in days
      BY <1>2, <2>1, LeastExists
    <2>3. first \in Nat /\ first <= today
      BY <1>2, <2>1, <2>2
    <2>4. Span(first, today) \in 1..HistoryDays
      BY <2>3, SpanTypes
    <2> QED
      BY <2>4, MeanIsNat
  <1> QED
    BY <1>1, <1>2

(* What the first n orders say does not change any more. *)
LEMMA FitStays ==
  ASSUME NEW i, NEW n, NEW today, \A m \in 1..n : sale'[m] = sale[m]
  PROVE  Fit(i, n, today)' = Fit(i, n, today)
  <1>1. DaysSold(i, n)' = DaysSold(i, n)
    BY DEF DaysSold
  <1>2. \A k : SoldBefore(i, n, today, k)' = SoldBefore(i, n, today, k)
    <2> SUFFICES ASSUME NEW k PROVE SoldBefore(i, n, today, k)' = SoldBefore(i, n, today, k)
      OBVIOUS
    <2>1. {m \in 1..n : sale[m].ware = i /\ sale[m].day + k = today}'
            = {m \in 1..n : sale[m].ware = i /\ sale[m].day + k = today}
      OBVIOUS
    <2> QED
      BY <2>1 DEF SoldBefore
  <1>3. \A span : WeightedMean(i, n, today, span)' = WeightedMean(i, n, today, span)
    BY <1>2 DEF WeightedMean
  <1> QED
    BY <1>1, <1>3 DEF Fit

-----------------------------------------------------------------------------
(* Orders are only added, and time only passes. *)
Later ==
  /\ time' \in Nat /\ time <= time'
  /\ Len(sale') \in Nat /\ Len(sale) <= Len(sale')
  /\ \A m \in 1..Len(sale) : sale'[m] = sale[m]

CountsNext(rate, i, since) ==
  \E n \in since..Len(sale'), t \in 0..time' : rate = Fit(i, n, UtcDay(t))'

BuildsNext ==
  \A b \in Builder :
    /\ build'[b].began <= Len(sale')
    /\ build'[b].wrote # {} => build'[b].at = "read"
    /\ build'[b].at = "read" => \A i \in Ware : CountsNext(build'[b].rate[i], i, build'[b].began)

RowsNext == \A i \in Ware : CountsNext(row'[i].rate, i, row'[i].generated)

LEMMA BuildsPrimed == BuildsNext => BuildsOK'
  BY DEF BuildsNext, BuildsOK, CountsNext, Counts

LEMMA RowsPrimed == RowsNext => RowsOK'
  BY DEF RowsNext, RowsOK, CountsNext, Counts

LEMMA CountsStay ==
  ASSUME ForecastTypeOK, Later, NEW rate, NEW i, NEW since \in Nat, Counts(rate, i, since)
  PROVE  CountsNext(rate, i, since)
  <1>1. PICK n \in since..Len(sale), t \in 0..time : rate = Fit(i, n, UtcDay(t))
    BY DEF Counts
  <1>2. Len(sale) \in Nat /\ time \in Nat
    BY ClockAssumption DEF ForecastTypeOK
  <1>3. n \in since..Len(sale') /\ t \in 0..time' /\ 1..n \subseteq 1..Len(sale)
    BY <1>2 DEF Later
  <1>4. \A m \in 1..n : sale'[m] = sale[m]
    BY <1>3 DEF Later
  <1> PICK d : d = UtcDay(t)
    OBVIOUS
  <1>5. Fit(i, n, d)' = Fit(i, n, d)
    BY <1>4, FitStays
  <1>6. rate = Fit(i, n, UtcDay(t))'
    BY <1>1, <1>5
  <1> QED
    BY <1>3, <1>6 DEF CountsNext

(* What the rows and the rebuilds of others say stays true. *)
LEMMA RowsStay ==
  ASSUME ForecastTypeOK, Later, NEW r, \A i \in Ware : r[i] = row'[i],
         \A i \in Ware : r[i].generated \in Nat /\ Counts(r[i].rate, i, r[i].generated)
  PROVE  RowsNext
  <1> SUFFICES ASSUME NEW i \in Ware PROVE CountsNext(r[i].rate, i, r[i].generated)
    BY DEF RowsNext
  <1> QED
    BY CountsStay

LEMMA UnchangedRowsStay ==
  ASSUME ForecastTypeOK, Later, RowsOK, row' = row
  PROVE  RowsNext
  <1> PICK r : r = row
    OBVIOUS
  <1>1. \A i \in Ware : r[i].generated \in Nat /\ Counts(r[i].rate, i, r[i].generated)
    BY DEF RowsOK, ForecastTypeOK, Moments
  <1> QED
    BY <1>1, RowsStay

BuildStays(c) ==
  /\ c.began \in Nat /\ c.began <= Len(sale)
  /\ c.wrote # {} => c.at = "read"
  /\ c.at = "read" => \A i \in Ware : Counts(c.rate[i], i, c.began)

LEMMA BuildsStay ==
  ASSUME ForecastTypeOK, Later, NEW f, f = build', \A b \in Builder : BuildStays(f[b])
  PROVE  BuildsNext
  <1> SUFFICES ASSUME NEW b \in Builder
               PROVE  /\ f[b].began <= Len(sale')
                      /\ f[b].wrote # {} => f[b].at = "read"
                      /\ f[b].at = "read" => \A i \in Ware : CountsNext(f[b].rate[i], i, f[b].began)
    BY DEF BuildsNext
  <1> PICK c : c = f[b]
    OBVIOUS
  <1>1. Len(sale) \in Nat
    BY DEF ForecastTypeOK
  <1>2. BuildStays(c)
    OBVIOUS
  <1>3. c.began \in Nat /\ c.began <= Len(sale')
    BY <1>1, <1>2 DEF BuildStays, Later
  <1>4. ASSUME c.at = "read", NEW i \in Ware PROVE CountsNext(c.rate[i], i, c.began)
    <2>1. Counts(c.rate[i], i, c.began)
      BY <1>2, <1>4 DEF BuildStays
    <2> QED
      BY <1>3, <2>1, CountsStay
  <1> QED
    BY <1>2, <1>3, <1>4 DEF BuildStays

LEMMA EveryBuildStays ==
  ASSUME ForecastTypeOK, BuildsOK
  PROVE  \A b \in Builder : BuildStays(build[b])
  BY DEF ForecastTypeOK, BuildsOK, BuildStays, Builds, Moments

LEMMA NothingStays == ForecastTypeOK => BuildStays(NoBuild)
  BY DEF ForecastTypeOK, NoBuild, BuildStays

LEMMA StandingStill ==
  ASSUME ForecastTypeOK, UNCHANGED <<time, sale>>
  PROVE  Later
  BY ClockAssumption DEF ForecastTypeOK, Later

-----------------------------------------------------------------------------
(* Days of stock rounded up. *)
LEMMA QuotientBounds ==
  ASSUME NEW x \in Nat, NEW r \in Nat, r > 0
  PROVE  /\ x \div r \in Nat
         /\ (x \div r) * r <= x /\ x < (x \div r) * r + r
  OBVIOUS

LEMMA LessTimes ==
  ASSUME NEW q \in Nat, NEW t \in Nat, NEW r \in Nat, q <= t
  PROVE  q * r <= t * r
  OBVIOUS

LEMMA RoundedUp ==
  ASSUME NEW s \in Nat, NEW r \in Nat, r > 0, NEW t \in Nat
  PROVE  /\ (100 * s + r - 1) \div r \in Nat
         /\ ((100 * s + r - 1) \div r <= t) <=> (100 * s <= t * r)
  <1> PICK x : x = 100 * s + r - 1
    OBVIOUS
  <1>1. x \in Nat
    OBVIOUS
  <1> PICK q : q = x \div r
    OBVIOUS
  <1>2. q \in Nat /\ q * r <= x /\ x < q * r + r
    BY <1>1, QuotientBounds
  <1>3. ASSUME q <= t PROVE 100 * s <= t * r
    <2>1. q * r <= t * r
      BY <1>2, <1>3, LessTimes
    <2>2. q * r \in Nat /\ t * r \in Nat
      BY <1>2
    <2> QED
      BY <1>2, <2>1, <2>2
  <1>4. ASSUME ~(q <= t) PROVE ~(100 * s <= t * r)
    <2>1. t + 1 <= q
      BY <1>2, <1>4
    <2>2. (t + 1) * r <= q * r
      BY <1>2, <2>1, LessTimes
    <2>3. (t + 1) * r = t * r + r
      OBVIOUS
    <2>4. q * r \in Nat /\ t * r \in Nat
      BY <1>2
    <2> QED
      BY <1>2, <2>2, <2>3, <2>4
  <1> QED
    BY <1>2, <1>3, <1>4

(* What the list of risks is made from. *)
StockTypes ==
  /\ stock \in [Ware -> Nat]
  /\ row \in [Ware -> [rate : Nat, generated : Moments]]

(* Of what sells, what runs out before new stock can come has one of the two *)
(* worst risks, and nothing else has.                                        *)
LEMMA WorstRisks ==
  ASSUME StockTypes, LeadTime <= Horizon, NEW i \in Listed
  PROVE  /\ i \in Critical <=> RiskOf(i) \in {"habis", "kritis"}
         /\ RiskOf(i) \in {"habis", "kritis"} <=> Severity[RiskOf(i)] <= 1
         /\ Severity[RiskOf(i)] \in 0..3
  <1> PICK r : r = row[i].rate
    OBVIOUS
  <1> PICK s : s = stock[i]
    OBVIOUS
  <1>1. i \in Ware /\ r \in Nat /\ r > 0 /\ s \in Nat
    BY DEF StockTypes, Listed
  <1>2. LeadTime \in Nat /\ Horizon \in Nat
    BY ForecastAssumption
  <1> PICK n : n = (100 * s + r - 1) \div r
    OBVIOUS
  <1>3. n \in Nat /\ (n <= LeadTime <=> 100 * s <= LeadTime * r)
    BY <1>1, <1>2, RoundedUp
  <1>4. DaysUntilOut(i) = IF n > Horizon THEN NotWithin ELSE n
    BY DEF DaysUntilOut
  <1> PICK d : d = DaysUntilOut(i)
    OBVIOUS
  <1>5. (d # NotWithin /\ d <= LeadTime) <=> n <= LeadTime
    BY <1>2, <1>3, <1>4 DEF NotWithin
  <1>6. i \in Critical <=> n <= LeadTime
    BY <1>1, <1>3 DEF Critical
  <1>7. s = 0 => n <= LeadTime
    <2>1. LeadTime * r \in Nat
      BY <1>1, <1>2
    <2> QED
      BY <1>1, <1>3, <2>1
  <1>8. RiskOf(i) = IF s = 0 THEN "habis"
                    ELSE IF d # NotWithin /\ d <= LeadTime THEN "kritis"
                    ELSE IF d # NotWithin /\ d <= LeadTime + 7 THEN "waspada"
                    ELSE "aman"
    BY DEF RiskOf
  <1> PICK risk : risk = RiskOf(i)
    OBVIOUS
  <1>9. risk \in {"habis", "kritis", "waspada", "aman"}
    BY <1>8
  <1>10. risk \in {"habis", "kritis"} <=> n <= LeadTime
    BY <1>5, <1>7, <1>8
  <1>11. Severity["habis"] = 0 /\ Severity["kritis"] = 1 /\ Severity["waspada"] = 2 /\ Severity["aman"] = 3
    BY DEF Severity
  <1>12. (risk \in {"habis", "kritis"} <=> Severity[risk] <= 1) /\ Severity[risk] \in 0..3
    BY <1>9, <1>11
  <1> QED
    BY <1>6, <1>10, <1>12

(* What runs out first is on every list that may be returned, if there is    *)
(* room for all of it.                                                       *)
CriticalFirst ==
  StockTypes /\ LeadTime <= Horizon /\ Cardinality(Critical) <= WarnAtMost
    => \A list \in StockoutRisks : \A i \in Critical :
         i \in list /\ RiskOf(i) \in {"habis", "kritis"}

LEMMA CriticalIsListed == CriticalFirst
  <1> SUFFICES ASSUME StockTypes, LeadTime <= Horizon, Cardinality(Critical) <= WarnAtMost,
                      NEW list \in StockoutRisks, NEW i \in Critical
               PROVE  i \in list /\ RiskOf(i) \in {"habis", "kritis"}
    BY DEF CriticalFirst
  <1>1. Critical \in SUBSET Listed
    BY DEF Critical, Listed
  <1>2. IsFiniteSet(Listed) /\ WarnAtMost \in Nat
    <2>1. Listed \in SUBSET Ware
      BY DEF Listed
    <2> QED
      BY <2>1, ForecastAssumption, FS_Subset
  <1>3. IsFiniteSet(Critical) /\ Cardinality(Critical) \in Nat /\ Cardinality(Listed) \in Nat
    BY <1>1, <1>2, FS_Subset, FS_CardinalityType
  <1>4. RiskOf(i) \in {"habis", "kritis"} /\ Severity[RiskOf(i)] <= 1
    BY <1>1, WorstRisks
  <1>5. /\ list \in SUBSET Listed /\ Cardinality(list) = AtMost(Listed)
        /\ \A l \in list, j \in Listed \ list : MayPrecede(l, j)
    BY DEF StockoutRisks
  <1>6. SUFFICES ASSUME i \notin list PROVE FALSE
    BY <1>4
  <1>7. ASSUME NEW l \in list PROVE l \in Critical
    <2>1. l \in Listed /\ MayPrecede(l, i)
      BY <1>1, <1>5, <1>6
    <2>2. Severity[RiskOf(l)] \in 0..3 /\ Severity[RiskOf(i)] \in 0..3
      BY <1>1, <2>1, WorstRisks
    <2>3. Severity[RiskOf(l)] <= Severity[RiskOf(i)]
      BY <2>1, <2>2 DEF MayPrecede
    <2>4. Severity[RiskOf(l)] <= 1
      BY <1>4, <2>2, <2>3
    <2> QED
      BY <2>1, <2>4, WorstRisks
  <1>8. IsFiniteSet(list) /\ Cardinality(list) \in Nat
    BY <1>2, <1>5, FS_Subset, FS_CardinalityType
  <1>9. IsFiniteSet(list \cup {i}) /\ Cardinality(list \cup {i}) = Cardinality(list) + 1
    BY <1>6, <1>8, FS_AddElement
  <1>10. list \cup {i} \in SUBSET Critical /\ list \cup {i} \in SUBSET Listed
    BY <1>1, <1>7
  <1>11. Cardinality(list) + 1 <= Cardinality(Critical) /\ Cardinality(list) + 1 <= Cardinality(Listed)
    BY <1>2, <1>3, <1>9, <1>10, FS_Subset
  <1>12. Cardinality(list) = WarnAtMost \/ Cardinality(list) = Cardinality(Listed)
    BY <1>5 DEF AtMost
  <1> QED
    BY <1>2, <1>3, <1>8, <1>11, <1>12

LEMMA CriticalIsListedNext == CriticalFirst'
  BY CriticalIsListed, PTL

-----------------------------------------------------------------------------
(* Types, told of each part. *)
LEMMA ForecastParts ==
  ForecastTypeOK =>
    /\ time \in 0..MaxTime /\ time \in Nat /\ UtcDay(time) \in Days /\ LocalDay(time) \in Days
    /\ sale \in Seq(Sales) /\ Len(sale) \in Moments /\ Len(sale) \in Nat
    /\ StockTypes
  <1> SUFFICES ASSUME ForecastTypeOK
               PROVE  /\ time \in 0..MaxTime /\ time \in Nat /\ UtcDay(time) \in Days /\ LocalDay(time) \in Days
                      /\ sale \in Seq(Sales) /\ Len(sale) \in Moments /\ Len(sale) \in Nat
                      /\ StockTypes
    OBVIOUS
  <1>1. MaxSales \in Nat /\ Levels \subseteq Nat
    BY ForecastAssumption
  <1>2. time \in 0..MaxTime /\ time \in Nat
    BY ClockAssumption DEF ForecastTypeOK
  <1>3. UtcDay(time) \in Days /\ LocalDay(time) \in Days
    BY <1>2, DayTypes
  <1>4. sale \in Seq(Sales) /\ Len(sale) <= MaxSales
    BY DEF ForecastTypeOK
  <1>5. Len(sale) \in Moments /\ Len(sale) \in Nat
    BY <1>1, <1>4 DEF Moments
  <1>6. StockTypes
    BY <1>1 DEF ForecastTypeOK, StockTypes
  <1> QED
    BY <1>2, <1>3, <1>4, <1>5, <1>6

(* A list of critical SKUs is heeded only when the worker has just told.     *)
LEMMA NotCurrent == current' = FALSE => CriticalAreTold'
  BY DEF CriticalAreTold

LEMMA ToldStays ==
  ASSUME CriticalAreTold, UNCHANGED <<time, stock, row, warned, current>>
  PROVE  CriticalAreTold'
  BY DEF CriticalAreTold

(* A step that changes one rebuild only. *)
OneBuild(b, c) == build' = [build EXCEPT ![b] = c]

LEMMA OneBuildTypes ==
  ASSUME ForecastTypeOK, NEW b \in Builder, NEW c \in Builds, OneBuild(b, c),
         \A d \in Builder \ {b} : c.wrote \cap build[d].wrote = {}
  PROVE  /\ build' \in [Builder -> Builds]
         /\ \A d, e \in Builder : d # e => build'[d].wrote \cap build'[e].wrote = {}
  BY DEF ForecastTypeOK, OneBuild

LEMMA OneBuildStays ==
  ASSUME ForecastTypeOK, BuildsOK, Later, NEW b \in Builder, NEW c, OneBuild(b, c), BuildStays(c)
  PROVE  BuildsOK'
  <1> PICK f : f = build'
    OBVIOUS
  <1>1. \A d \in Builder : f[d] = IF d = b THEN c ELSE build[d]
    BY DEF OneBuild, ForecastTypeOK
  <1>2. \A d \in Builder : BuildStays(f[d])
    BY <1>1, EveryBuildStays
  <1> QED
    BY <1>2, BuildsStay, BuildsPrimed

LEMMA NoBuildType == ForecastTypeOK => NoBuild \in Builds /\ NoBuild.wrote = {}
  BY ForecastAssumption DEF NoBuild, Builds, Moments

(* A step of a rebuild that is not its commit. *)
OnlyBuild(b, c) == OneBuild(b, c) /\ UNCHANGED <<time, sale, stock, row, warned, current>>

LEMMA OnlyBuildKeeps ==
  ASSUME ForecastInv, NEW b \in Builder, NEW c \in Builds, OnlyBuild(b, c),
         \A d \in Builder \ {b} : c.wrote \cap build[d].wrote = {}, BuildStays(c)
  PROVE  ForecastInv'
  <1>1. ForecastTypeOK /\ BuildsOK /\ RowsOK /\ CriticalAreTold /\ OneBuild(b, c)
    BY DEF ForecastInv, OnlyBuild
  <1>2. Later
    BY <1>1, StandingStill DEF OnlyBuild
  <1>3. build' \in [Builder -> Builds] /\ \A d, e \in Builder : d # e => build'[d].wrote \cap build'[e].wrote = {}
    BY <1>1, OneBuildTypes
  <1>4. ForecastTypeOK'
    BY <1>1, <1>3 DEF ForecastTypeOK, OnlyBuild
  <1>5. BuildsOK'
    BY <1>1, <1>2, OneBuildStays
  <1>6. RowsOK'
    BY <1>1, <1>2, UnchangedRowsStay, RowsPrimed DEF OnlyBuild
  <1>7. CriticalAreTold'
    BY <1>1, ToldStays DEF OnlyBuild
  <1> QED
    BY <1>4, <1>5, <1>6, <1>7 DEF ForecastInv

LEMMA BeginKeeps ==
  ASSUME ForecastInv, NEW b \in Builder, Begin(b)
  PROVE  ForecastInv'
  <1>1. ForecastTypeOK /\ build[b] = NoBuild
    BY DEF ForecastInv, Begin
  <1> PICK c : c = [at |-> "began", began |-> Len(sale), rate |-> NoBuild.rate, wrote |-> {}]
    OBVIOUS
  <1>2. c \in Builds /\ BuildStays(c)
    BY <1>1, ForecastParts DEF Builds, BuildStays, NoBuild
  <1>3. OnlyBuild(b, c)
    <2> PICK f : f = [build EXCEPT ![b].at = "began", ![b].began = Len(sale)]
      OBVIOUS
    <2>1. f[b] = c
      <3>1. b \in DOMAIN build
        BY <1>1 DEF ForecastTypeOK
      <3> PICK old : old = build[b]
        OBVIOUS
      <3> PICK n : n = Len(sale)
        OBVIOUS
      <3>2. f[b] = [old EXCEPT !.at = "began", !.began = n]
        BY <3>1
      <3>3. old = [at |-> "nowhere", began |-> 0, rate |-> NoBuild.rate, wrote |-> {}]
        BY <1>1 DEF NoBuild
      <3> PICK e : e = [old EXCEPT !.at = "began", !.began = n]
        OBVIOUS
      <3>4. e = [at |-> "began", began |-> n, rate |-> NoBuild.rate, wrote |-> {}]
        BY ONLY e = [old EXCEPT !.at = "began", !.began = n], <3>3
      <3> QED
        BY <3>2, <3>4
    <2>2. f = [build EXCEPT ![b] = c]
      BY <2>1 DEF ForecastTypeOK
    <2> QED
      BY <2>2 DEF Begin, OnlyBuild, OneBuild
  <1> QED
    BY <1>2, <1>3, OnlyBuildKeeps

LEMMA ReadSalesKeeps ==
  ASSUME ForecastInv, NEW b \in Builder, ReadSales(b)
  PROVE  ForecastInv'
  <1>1. ForecastTypeOK /\ BuildsOK /\ build[b].at = "began" /\ build[b] \in Builds
    BY DEF ForecastInv, ReadSales, ForecastTypeOK
  <1>2. BuildStays(build[b])
    BY <1>1, EveryBuildStays
  <1>3. build[b].wrote = {} /\ build[b].began \in Moments /\ build[b].began \in Nat
        /\ build[b].began <= Len(sale)
    BY <1>1, <1>2 DEF BuildStays, Builds
  <1> PICK r : r = [i \in Ware |-> Fit(i, Len(sale), UtcDay(time))]
    OBVIOUS
  <1> PICK c : c = [at |-> "read", began |-> build[b].began, rate |-> r, wrote |-> {}]
    OBVIOUS
  <1>4. Len(sale) \in Nat /\ Len(sale) \in 0..Len(sale) /\ time \in Nat /\ UtcDay(time) \in Nat
    BY <1>1, ForecastParts, DayTypes
  <1>5. r \in [Ware -> Nat]
    BY <1>1, <1>4, FitIsNat
  <1>6. c \in Builds
    BY <1>3, <1>5 DEF Builds
  <1>7. \A i \in Ware : Counts(r[i], i, build[b].began)
    <2> SUFFICES ASSUME NEW i \in Ware PROVE Counts(r[i], i, build[b].began)
      OBVIOUS
    <2>1. Len(sale) \in build[b].began..Len(sale) /\ time \in 0..time
      BY <1>3, <1>4
    <2> QED
      BY <2>1 DEF Counts
  <1>8. BuildStays(c)
    BY <1>3, <1>7 DEF BuildStays
  <1>9. OnlyBuild(b, c)
    <2> PICK f : f = [build EXCEPT ![b].at = "read", ![b].rate = r]
      OBVIOUS
    <2>1. f[b] = c
      BY <1>1, <1>3 DEF ForecastTypeOK, Builds
    <2>2. f = [build EXCEPT ![b] = c]
      BY <2>1 DEF ForecastTypeOK
    <2> QED
      BY <2>2 DEF ReadSales, OnlyBuild, OneBuild
  <1> QED
    BY <1>6, <1>8, <1>9, OnlyBuildKeeps

LEMMA WriteRowKeeps ==
  ASSUME ForecastInv, NEW b \in Builder, NEW i \in Ware, WriteRow(b, i)
  PROVE  ForecastInv'
  <1>1. ForecastTypeOK /\ BuildsOK /\ build[b].at = "read" /\ build[b] \in Builds
    BY DEF ForecastInv, WriteRow, ForecastTypeOK
  <1>2. BuildStays(build[b])
    BY <1>1, EveryBuildStays
  <1> PICK c : c = [build[b] EXCEPT !.wrote = @ \cup {i}]
    OBVIOUS
  <1>3. c \in Builds /\ c.at = "read" /\ c.wrote = build[b].wrote \cup {i}
        /\ c.began = build[b].began /\ c.rate = build[b].rate
    BY <1>1 DEF Builds
  <1>4. BuildStays(c)
    BY <1>1, <1>2, <1>3 DEF BuildStays
  <1>5. \A d \in Builder \ {b} : c.wrote \cap build[d].wrote = {}
    BY <1>1, <1>3 DEF WriteRow, RowFree, ForecastTypeOK
  <1>6. OnlyBuild(b, c)
    BY DEF WriteRow, OnlyBuild, OneBuild
  <1> QED
    BY <1>3, <1>4, <1>5, <1>6, OnlyBuildKeeps

LEMMA AbortBuildKeeps ==
  ASSUME ForecastInv, NEW b \in Builder, AbortBuild(b)
  PROVE  ForecastInv'
  <1>1. ForecastTypeOK
    BY DEF ForecastInv
  <1>2. NoBuild \in Builds /\ NoBuild.wrote = {} /\ BuildStays(NoBuild)
    BY <1>1, NoBuildType, NothingStays
  <1>3. OnlyBuild(b, NoBuild)
    BY DEF AbortBuild, OnlyBuild, OneBuild
  <1> QED
    BY <1>2, <1>3, OnlyBuildKeeps

-----------------------------------------------------------------------------
(* The rows a rebuild leaves say what it has counted. *)
LEMMA StampedRows ==
  ASSUME ForecastTypeOK, BuildsOK, RowsOK, Later, NEW b \in Builder, row' = Stamped(b)
  PROVE  RowsOK' /\ row' \in [Ware -> [rate : Nat, generated : Moments]]
  <1> PICK c : c = build[b]
    OBVIOUS
  <1> PICK r : r = Stamped(b)
    OBVIOUS
  <1>1. c \in Builds /\ BuildStays(c)
    BY EveryBuildStays DEF ForecastTypeOK
  <1>2. \A i \in Ware : r[i] = IF i \in c.wrote THEN [rate |-> c.rate[i], generated |-> c.began] ELSE row[i]
    BY DEF Stamped
  <1>3. \A i \in Ware : row[i] \in [rate : Nat, generated : Moments]
    BY DEF ForecastTypeOK
  <1>4. ASSUME NEW i \in Ware
        PROVE  r[i] \in [rate : Nat, generated : Moments] /\ Counts(r[i].rate, i, r[i].generated)
    <2>1. CASE i \in c.wrote
      <3>1. r[i].rate = c.rate[i] /\ r[i].generated = c.began
            /\ r[i] = [rate |-> c.rate[i], generated |-> c.began]
        BY <1>2, <2>1
      <3>2. Counts(c.rate[i], i, c.began)
        BY <1>1, <2>1 DEF BuildStays
      <3>3. r[i] \in [rate : Nat, generated : Moments]
        BY <1>1, <3>1 DEF Builds
      <3> QED
        BY <3>1, <3>2, <3>3
    <2>2. CASE i \notin c.wrote
      <3>1. r[i] = row[i]
        BY <1>2, <2>2
      <3> QED
        BY <1>3, <3>1 DEF RowsOK
    <2> QED
      BY <2>1, <2>2
  <1>5. \A i \in Ware : r[i].generated \in Nat
    BY <1>4 DEF Moments
  <1>6. RowsNext
    BY <1>4, <1>5, RowsStay
  <1>7. row' \in [Ware -> [rate : Nat, generated : Moments]]
    BY <1>4 DEF Stamped
  <1> QED
    BY <1>6, <1>7, RowsPrimed

(* A commit of either kind, what is told set aside. *)
Committed(b) ==
  /\ row' = Stamped(b) /\ OneBuild(b, NoBuild)
  /\ UNCHANGED <<time, sale, stock>>

LEMMA CommitKeeps ==
  ASSUME ForecastInv, NEW b \in Builder, Committed(b),
         warned' \in [Ware -> Seq(Days)], current' \in BOOLEAN
  PROVE  ForecastTypeOK' /\ BuildsOK' /\ RowsOK'
  <1>1. ForecastTypeOK /\ BuildsOK /\ RowsOK /\ OneBuild(b, NoBuild)
    BY DEF ForecastInv, Committed
  <1>2. Later
    BY <1>1, StandingStill DEF Committed
  <1>3. NoBuild \in Builds /\ NoBuild.wrote = {} /\ BuildStays(NoBuild)
    BY <1>1, NoBuildType, NothingStays
  <1>4. build' \in [Builder -> Builds] /\ \A d, e \in Builder : d # e => build'[d].wrote \cap build'[e].wrote = {}
    BY <1>1, <1>3, OneBuildTypes
  <1>5. RowsOK' /\ row' \in [Ware -> [rate : Nat, generated : Moments]]
    BY <1>1, <1>2, StampedRows DEF Committed
  <1>6. BuildsOK'
    BY <1>1, <1>2, <1>3, OneBuildStays
  <1>7. ForecastTypeOK'
    BY <1>1, <1>4, <1>5 DEF ForecastTypeOK, Committed
  <1> QED
    BY <1>5, <1>6, <1>7

LEMMA CommitBuildKeeps ==
  ASSUME ForecastInv, NEW b \in Builder, CommitBuild(b)
  PROVE  ForecastInv'
  <1>1. Committed(b) /\ warned' \in [Ware -> Seq(Days)] /\ current' = FALSE
    BY DEF CommitBuild, Committed, OneBuild, ForecastInv, ForecastTypeOK
  <1>2. CriticalAreTold'
    BY <1>1, NotCurrent
  <1> QED
    BY <1>1, <1>2, CommitKeeps DEF ForecastInv

(* The worker's commit tells of everything critical there is room for. *)
LEMMA CommitAiKeeps ==
  ASSUME ForecastInv, CommitAi
  PROVE  ForecastInv'
  <1>1. Worker \in Builder /\ Committed(Worker) /\ current' = TRUE /\ ForecastTypeOK
    BY ForecastAssumption DEF CommitAi, Committed, OneBuild, ForecastInv
  <1>2. UtcDay(time) \in Days
    BY <1>1, ForecastParts
  <1>3. PICK list \in StockoutRisks' :
          LET news == {i \in list : /\ RiskOf(i)' \in {"habis", "kritis"}
                                    /\ \A n \in DOMAIN warned[i] : warned[i][n] # UtcDay(time)}
          IN  warned' = [i \in Ware |-> IF i \in news THEN Append(warned[i], UtcDay(time)) ELSE warned[i]]
    BY DEF CommitAi
  <1>4. PICK news : /\ news = {i \in list : /\ RiskOf(i)' \in {"habis", "kritis"}
                                            /\ \A n \in DOMAIN warned[i] : warned[i][n] # UtcDay(time)}
                    /\ warned' = [i \in Ware |-> IF i \in news THEN Append(warned[i], UtcDay(time)) ELSE warned[i]]
    BY <1>3
  <1>5. warned \in [Ware -> Seq(Days)]
    BY <1>1 DEF ForecastTypeOK
  <1>6. warned' \in [Ware -> Seq(Days)]
    BY <1>2, <1>4, <1>5
  <1>7. ForecastTypeOK' /\ BuildsOK' /\ RowsOK'
    BY <1>1, <1>6, CommitKeeps
  <1>8. CriticalAreTold'
    <2>1. SUFFICES ASSUME LeadTime <= Horizon, Cardinality(Critical') <= WarnAtMost, NEW i \in Critical'
                   PROVE  \E n \in DOMAIN warned'[i] : warned'[i][n] = UtcDay(time)'
      BY DEF CriticalAreTold, Critical
    <2>2. StockTypes'
      BY <1>7, ForecastAssumption DEF ForecastTypeOK, StockTypes
    <2>3. i \in list /\ RiskOf(i)' \in {"habis", "kritis"}
      BY <1>3, <2>1, <2>2, CriticalIsListedNext DEF CriticalFirst
    <2>4. i \in Ware /\ UtcDay(time)' = UtcDay(time)
      BY <1>1 DEF Critical, Committed
    <2> PICK d : d = UtcDay(time)
      OBVIOUS
    <2> PICK w : w = warned[i]
      OBVIOUS
    <2>5. w \in Seq(Days)
      BY <1>5, <2>4
    <2>6. CASE i \in news
      <3>1. warned'[i] = Append(w, d)
        BY <1>4, <2>4, <2>6
      <3>2. Len(w) + 1 \in DOMAIN Append(w, d) /\ Append(w, d)[Len(w) + 1] = d
        BY <1>2, <2>5
      <3> QED
        BY <2>4, <3>1, <3>2
    <2>7. CASE i \notin news
      <3>1. warned'[i] = w
        BY <1>4, <2>4, <2>7
      <3>2. \E n \in DOMAIN w : w[n] = d
        BY <1>4, <2>3, <2>7
      <3> QED
        BY <2>4, <3>1, <3>2
    <2> QED
      BY <2>6, <2>7
  <1> QED
    BY <1>7, <1>8 DEF ForecastInv

-----------------------------------------------------------------------------
(* Orders, stock and days. *)
Outside == current' = FALSE /\ row' = row /\ build' = build /\ warned' = warned

LEMMA OutsideKeeps ==
  ASSUME ForecastInv, Outside, Later, time' \in 0..MaxTime, sale' \in Seq(Sales),
         Len(sale') <= MaxSales, stock' \in [Ware -> Levels]
  PROVE  ForecastInv'
  <1>1. ForecastTypeOK /\ BuildsOK /\ RowsOK
    BY DEF ForecastInv
  <1>2. ForecastTypeOK'
    BY <1>1 DEF ForecastTypeOK, Outside
  <1>3. CriticalAreTold'
    BY NotCurrent DEF Outside
  <1>4. RowsOK'
    BY <1>1, UnchangedRowsStay, RowsPrimed DEF Outside
  <1> PICK f : f = build
    OBVIOUS
  <1>5. BuildsOK'
    BY <1>1, EveryBuildStays, BuildsStay, BuildsPrimed DEF Outside
  <1> QED
    BY <1>2, <1>3, <1>4, <1>5 DEF ForecastInv

LEMMA SellKeeps ==
  ASSUME ForecastInv, NEW i \in Ware, Sell(i)
  PROVE  ForecastInv'
  <1>1. ForecastTypeOK /\ time \in Nat /\ LocalDay(time) \in Days /\ sale \in Seq(Sales) /\ Len(sale) \in Nat
    BY ForecastParts DEF ForecastInv
  <1> PICK o : o = [ware |-> i, day |-> LocalDay(time)]
    OBVIOUS
  <1>2. o \in Sales
    BY <1>1 DEF Sales
  <1>3. sale' = Append(sale, o)
    BY DEF Sell
  <1>4. sale' \in Seq(Sales) /\ Len(sale') = Len(sale) + 1 /\ \A m \in 1..Len(sale) : sale'[m] = sale[m]
    BY <1>1, <1>2, <1>3
  <1>5. Len(sale') <= MaxSales
    BY <1>1, <1>4, ForecastAssumption DEF Sell
  <1>6. Later
    BY <1>1, <1>4 DEF Sell, Later
  <1>7. Outside /\ time' \in 0..MaxTime /\ stock' \in [Ware -> Levels]
    BY <1>1 DEF Sell, Outside, ForecastTypeOK
  <1> QED
    BY <1>4, <1>5, <1>6, <1>7, OutsideKeeps

LEMMA MoveStockKeeps ==
  ASSUME ForecastInv, NEW i \in Ware, NEW n \in Levels, MoveStock(i, n)
  PROVE  ForecastInv'
  <1>1. ForecastTypeOK
    BY DEF ForecastInv
  <1>2. Later
    BY <1>1, StandingStill DEF MoveStock
  <1>3. /\ Outside /\ time' \in 0..MaxTime /\ stock' \in [Ware -> Levels]
        /\ sale' \in Seq(Sales) /\ Len(sale') <= MaxSales
    BY <1>1 DEF MoveStock, Outside, ForecastTypeOK
  <1> QED
    BY <1>2, <1>3, OutsideKeeps

LEMMA NextDayKeeps ==
  ASSUME ForecastInv, NextDay
  PROVE  ForecastInv'
  <1>1. ForecastTypeOK /\ time \in Nat /\ Len(sale) \in Nat
    BY ForecastParts DEF ForecastInv
  <1>2. time' \in 0..MaxTime
    BY <1>1, ClockAssumption DEF NextDay, ClockTicks
  <1>3. Later
    BY <1>1 DEF NextDay, ClockTicks, Later
  <1>4. /\ Outside /\ stock' \in [Ware -> Levels]
        /\ sale' \in Seq(Sales) /\ Len(sale') <= MaxSales
    BY <1>1 DEF NextDay, Outside, ForecastTypeOK
  <1> QED
    BY <1>2, <1>3, <1>4, OutsideKeeps

LEMMA ForecastBegins == ForecastInit => ForecastInv
  <1> SUFFICES ASSUME ForecastInit PROVE ForecastInv
    OBVIOUS
  <1>1. /\ time = 0 /\ sale = <<>> /\ current = FALSE /\ stock \in [Ware -> Levels]
        /\ row = [i \in Ware |-> [rate |-> 0, generated |-> 0]]
        /\ build = [b \in Builder |-> NoBuild]
        /\ warned = [i \in Ware |-> <<>>]
    BY DEF ForecastInit
  <1>2. NoBuild \in Builds /\ NoBuild.at = "nowhere" /\ NoBuild.began = 0 /\ NoBuild.wrote = {}
    BY ForecastAssumption DEF NoBuild, Builds, Moments
  <1>3. 0 \in Moments /\ 0 \in 0..MaxTime /\ 0 \in 0..0 /\ Len(sale) = 0
    BY <1>1, ForecastAssumption, ClockAssumption DEF Moments
  <1>4. ForecastTypeOK
    <2>1. sale \in Seq(Sales) /\ Len(sale) <= MaxSales
      BY <1>1, <1>3, ForecastAssumption
    <2>2. row \in [Ware -> [rate : Nat, generated : Moments]]
      BY <1>1, <1>3
    <2>3. /\ build \in [Builder -> Builds]
          /\ \A b, c \in Builder : b # c => build[b].wrote \cap build[c].wrote = {}
      BY <1>1, <1>2
    <2>4. <<>> \in Seq(Days)
      OBVIOUS
    <2>5. warned \in [Ware -> Seq(Days)]
      BY <1>1, <2>4
    <2> QED
      BY <1>1, <1>3, <2>1, <2>2, <2>3, <2>5 DEF ForecastTypeOK
  <1>5. BuildsOK
    BY <1>1, <1>2, <1>3 DEF BuildsOK
  <1>6. RowsOK
    <2> SUFFICES ASSUME NEW i \in Ware PROVE Counts(0, i, 0)
      BY <1>1 DEF RowsOK
    <2>1. DaysSold(i, 0) = {}
      BY DEF DaysSold
    <2>2. \A today : Fit(i, 0, today) = 0
      BY <2>1 DEF Fit
    <2> QED
      BY <1>1, <1>3, <2>2 DEF Counts
  <1>7. CriticalAreTold
    BY <1>1 DEF CriticalAreTold
  <1> QED
    BY <1>4, <1>5, <1>6, <1>7 DEF ForecastInv

LEMMA ForecastStays ==
  ASSUME ForecastInv, UNCHANGED forecastVars
  PROVE  ForecastInv'
  <1>1. ForecastTypeOK /\ BuildsOK /\ RowsOK /\ CriticalAreTold
    BY DEF ForecastInv
  <1>2. UNCHANGED <<time, sale, stock, row, warned, current>> /\ build' = build
    BY DEF forecastVars
  <1>3. ForecastTypeOK'
    BY <1>1, <1>2 DEF ForecastTypeOK
  <1>4. Later
    BY <1>1, <1>2, StandingStill
  <1>5. RowsOK'
    BY <1>1, <1>2, <1>4, UnchangedRowsStay, RowsPrimed
  <1>6. CriticalAreTold'
    BY <1>1, <1>2, ToldStays
  <1> PICK f : f = build
    OBVIOUS
  <1>7. BuildsOK'
    BY <1>1, <1>2, <1>4, EveryBuildStays, BuildsStay, BuildsPrimed
  <1> QED
    BY <1>3, <1>5, <1>6, <1>7 DEF ForecastInv

LEMMA ForecastStep == ForecastInv /\ [ForecastNext]_forecastVars => ForecastInv'
  <1> SUFFICES ASSUME ForecastInv, [ForecastNext]_forecastVars PROVE ForecastInv'
    OBVIOUS
  <1>1. CASE CommitAi
    BY <1>1, CommitAiKeeps
  <1>2. CASE NextDay
    BY <1>2, NextDayKeeps
  <1>3. ASSUME NEW b \in Builder, Begin(b) \/ ReadSales(b) \/ CommitBuild(b) \/ AbortBuild(b)
        PROVE  ForecastInv'
    BY <1>3, BeginKeeps, ReadSalesKeeps, CommitBuildKeeps, AbortBuildKeeps
  <1>4. ASSUME NEW b \in Builder, NEW i \in Ware, WriteRow(b, i) PROVE ForecastInv'
    BY <1>4, WriteRowKeeps
  <1>5. ASSUME NEW i \in Ware, Sell(i) PROVE ForecastInv'
    BY <1>5, SellKeeps
  <1>6. ASSUME NEW i \in Ware, NEW n \in Levels, MoveStock(i, n) PROVE ForecastInv'
    BY <1>6, MoveStockKeeps
  <1>7. CASE UNCHANGED forecastVars
    BY <1>7, ForecastStays
  <1> QED
    BY <1>1, <1>2, <1>3, <1>4, <1>5, <1>6, <1>7 DEF ForecastNext

(* A forecast counts every order there was at its generated_at, whichever    *)
(* rebuilds overlap, and whoever looks at his notifications misses no SKU    *)
(* that runs out (rebuild, run_ai).                                          *)
THEOREM ForecastsCorrect == ForecastSpec => []ForecastsHold
  <1>1. ForecastInv => ForecastsHold
    BY DEF ForecastInv, RowsOK, Counts, ForecastsHold, ForecastsCountSales
  <1> QED
    BY <1>1, ForecastBegins, ForecastStep, PTL DEF ForecastSpec

(* The types of what forecasts are made from.                                *)
THEOREM ForecastTypes == ForecastSpec => []ForecastTypeOK
  <1>1. ForecastInv => ForecastTypeOK
    BY DEF ForecastInv
  <1> QED
    BY <1>1, ForecastBegins, ForecastStep, PTL DEF ForecastSpec

-----------------------------------------------------------------------------
(***************************************************************************)
(* Couriers: the default account, for any accounts and requests at once.   *)
(***************************************************************************)

DefaultOnes == {a \in Account : courierAcc[a].default}

(* Who has begun to take it from others, or has all of them. *)
TakesDefault(a) == edit[a].at \in {"waiting", "ready"} /\ edit[a].row.default

AccountsOK ==
  /\ courierAcc \in [Account -> AccountRow]
  /\ edit \in [Account -> Changes]
  /\ \A a \in Account : courierAcc[a].default => courierAcc[a].exists
  /\ \A a \in Account : edit[a].at # "nowhere" => edit[a].row.exists
  /\ \A a \in Account : edit[a].others \subseteq Existing

(* No two requests have locked a row. *)
LocksOK == \A a, c \in Account : a # c => Holds(a) \cap Holds(c) = {}

(* Who takes it takes it from all that have it. *)
TakesFromAll == \A a \in Account : TakesDefault(a) => DefaultOnes \subseteq edit[a].others \cup {a}

(* Of two requests that make accounts the default, one waits for the other.  *)
OneWaits ==
  \A a, c \in Account :
    a # c /\ courierAcc[a].exists /\ courierAcc[c].exists /\ TakesDefault(a) /\ TakesDefault(c)
    => c \in edit[a].others \/ a \in edit[c].others

OneHasIt == \A a, c \in DefaultOnes : a = c

DefaultInv == AccountsOK /\ LocksOK /\ (crossed \/ (TakesFromAll /\ OneWaits /\ OneHasIt))

(* A step that changes the request about a only. *)
OneEdit(a, c) == edit' = [edit EXCEPT ![a] = c] /\ UNCHANGED <<courierAcc, crossed>>

HoldsOf(c, a) ==
  (IF c.at = "nowhere" THEN {} ELSE {a} \cap Existing) \cup (IF c.at = "ready" THEN c.others ELSE {})

LEMMA OneEditKeeps ==
  ASSUME DefaultInv, NEW a \in Account, NEW c \in Changes, OneEdit(a, c),
         c.at # "nowhere" => c.row.exists, c.others \subseteq Existing,
         \A d \in Account \ {a} : HoldsOf(c, a) \cap Holds(d) = {},
         c.at \in {"waiting", "ready"} /\ c.row.default /\ ~crossed
           => /\ DefaultOnes \subseteq c.others \cup {a}
              /\ courierAcc[a].exists =>
                   \A d \in Account \ {a} : courierAcc[d].exists /\ TakesDefault(d)
                      => d \in c.others \/ a \in edit[d].others
  PROVE  DefaultInv'
  <1>1. AccountsOK /\ LocksOK
    BY DEF DefaultInv
  <1> PICK f : f = edit'
    OBVIOUS
  <1>2. /\ f \in [Account -> Changes] /\ f[a] = c
        /\ \A d \in Account \ {a} : f[d] = edit[d]
        /\ courierAcc' = courierAcc /\ crossed' = crossed
    BY <1>1 DEF OneEdit, AccountsOK
  <1>4. Existing' = Existing /\ DefaultOnes' = DefaultOnes
    BY <1>2 DEF Existing, DefaultOnes
  <1>3. AccountsOK'
    BY <1>1, <1>2, <1>4 DEF AccountsOK
  <1>5. Holds(a)' = HoldsOf(c, a) /\ \A d \in Account \ {a} : Holds(d)' = Holds(d)
    BY <1>2, <1>4 DEF Holds, HoldsOf
  <1>6. LocksOK'
    BY <1>1, <1>5 DEF LocksOK
  <1>7. ASSUME ~crossed PROVE TakesFromAll' /\ OneWaits' /\ OneHasIt'
    <2>1. TakesFromAll /\ OneWaits /\ OneHasIt
      BY <1>7 DEF DefaultInv
    <2>2. /\ TakesDefault(a)' <=> c.at \in {"waiting", "ready"} /\ c.row.default
          /\ \A d \in Account \ {a} : TakesDefault(d)' <=> TakesDefault(d)
      BY <1>2 DEF TakesDefault
    <2>3. TakesFromAll'
      BY <1>2, <1>4, <1>7, <2>1, <2>2 DEF TakesFromAll
    <2>4. OneWaits'
      BY <1>2, <1>7, <2>1, <2>2 DEF OneWaits
    <2>5. OneHasIt'
      BY <1>4, <2>1 DEF OneHasIt
    <2> QED
      BY <2>3, <2>4, <2>5
  <1> QED
    BY <1>2, <1>3, <1>6, <1>7 DEF DefaultInv

LEMMA DefaultsExist == AccountsOK => DefaultOnes \subseteq Existing
  BY DEF AccountsOK, DefaultOnes, Existing

(* A request that will insert an account holds nothing yet. *)
LEMMA InsertKeeps ==
  ASSUME DefaultInv, NEW a \in Account, ~courierAcc[a].exists, NEW c \in Changes, OneEdit(a, c),
         c.row.exists, c.at = "ready" => c.others = {}, c.others \subseteq Existing,
         c.row.default => DefaultOnes \subseteq c.others \cup {a}
  PROVE  DefaultInv'
  <1>1. HoldsOf(c, a) = {}
    BY DEF HoldsOf, Existing
  <1> QED
    BY <1>1, OneEditKeeps

LEMMA CreateAccountKeeps ==
  ASSUME DefaultInv, NEW a \in Account, NEW x \in BOOLEAN, NEW default \in BOOLEAN,
         CreateAccount(a, x, default)
  PROVE  DefaultInv'
  <1> PICK c : c = [at |-> IF default THEN "waiting" ELSE "ready",
                    row |-> [exists |-> TRUE, manual |-> x, active |-> TRUE, default |-> default],
                    others |-> IF default THEN AllOthers(a) ELSE {}]
    OBVIOUS
  <1>1. c \in Changes /\ c.others \subseteq Existing
    BY DEF Changes, AccountRow, AllOthers, Existing
  <1>2. OneEdit(a, c) /\ ~courierAcc[a].exists
    BY DEF CreateAccount, Will, OneEdit
  <1>3. c.row.default => DefaultOnes \subseteq c.others \cup {a}
    BY DefaultsExist DEF DefaultInv, AllOthers
  <1> QED
    BY <1>1, <1>2, <1>3, InsertKeeps

LEMMA CreateManualKeeps ==
  ASSUME DefaultInv, NEW a \in Account, CreateManual(a)
  PROVE  DefaultInv'
  <1> PICK first : first = (Existing = {})
    OBVIOUS
  <1>1. first \in BOOLEAN
    OBVIOUS
  <1> PICK c : c = [at |-> "ready",
                    row |-> [exists |-> TRUE, manual |-> TRUE, active |-> TRUE, default |-> first],
                    others |-> {}]
    OBVIOUS
  <1>2. c \in Changes
    BY <1>1 DEF Changes, AccountRow
  <1>3. OneEdit(a, c) /\ ~courierAcc[a].exists
    BY DEF CreateManual, Will, OneEdit
  <1>4. c.row.default => DefaultOnes \subseteq c.others \cup {a}
    BY DefaultsExist DEF DefaultInv
  <1> QED
    BY <1>2, <1>3, <1>4, InsertKeeps

LEMMA UpdateAccountKeeps ==
  ASSUME DefaultInv, NEW a \in Account, NEW x \in BOOLEAN, NEW default \in BOOLEAN,
         UpdateAccount(a, x, default)
  PROVE  DefaultInv'
  <1>1. AccountsOK /\ LocksOK /\ courierAcc[a].exists /\ Unheld({a}, a)
    BY DEF DefaultInv, UpdateAccount
  <1> PICK r : r = courierAcc[a]
    OBVIOUS
  <1>2. r \in AccountRow /\ r.exists
    BY <1>1 DEF AccountsOK
  <1> PICK s : s = [r EXCEPT !.active = x, !.default = (@ \/ default)]
    OBVIOUS
  <1>3. s \in AccountRow /\ s.exists /\ (s.default <=> r.default \/ default)
    BY <1>2 DEF AccountRow
  <1> PICK c : c = [at |-> IF default THEN "locked" ELSE "ready", row |-> s, others |-> {}]
    OBVIOUS
  <1>4. c \in Changes /\ c.row = s /\ c.others = {}
    BY <1>3 DEF Changes
  <1>5. OneEdit(a, c)
    BY DEF UpdateAccount, Will, OneEdit
  <1>6. HoldsOf(c, a) \subseteq {a}
    BY <1>4 DEF HoldsOf
  <1>7. \A d \in Account \ {a} : HoldsOf(c, a) \cap Holds(d) = {}
    BY <1>1, <1>6 DEF Unheld
  <1>8. ASSUME c.at \in {"waiting", "ready"}, c.row.default, ~crossed
        PROVE  /\ DefaultOnes \subseteq c.others \cup {a}
               /\ \A d \in Account \ {a} : courierAcc[d].exists /\ TakesDefault(d)
                    => d \in c.others \/ a \in edit[d].others
    <2>1. a \in DefaultOnes
      BY <1>3, <1>4, <1>8 DEF DefaultOnes
    <2>2. OneHasIt /\ TakesFromAll
      BY <1>8 DEF DefaultInv
    <2> QED
      BY <2>1, <2>2 DEF OneHasIt, TakesFromAll
  <1> QED
    BY <1>3, <1>4, <1>5, <1>7, <1>8, OneEditKeeps

LEMMA ClearOthersKeeps ==
  ASSUME DefaultInv, NEW a \in Account, ClearOthers(a)
  PROVE  DefaultInv'
  <1>1. AccountsOK /\ LocksOK /\ edit[a].at = "locked"
    BY DEF DefaultInv, ClearOthers
  <1> PICK c : c = [at |-> "waiting", row |-> edit[a].row, others |-> AllOthers(a)]
    OBVIOUS
  <1>2. c \in Changes /\ c.row.exists /\ c.others \subseteq Existing
    BY <1>1 DEF Changes, AccountsOK, AllOthers, Existing
  <1>3. OneEdit(a, c)
    BY DEF ClearOthers, Will, OneEdit
  <1>4. HoldsOf(c, a) = Holds(a)
    BY <1>1 DEF HoldsOf, Holds
  <1>5. DefaultOnes \subseteq c.others \cup {a}
    BY <1>1, DefaultsExist DEF AllOthers
  <1>6. \A d \in Account \ {a} : courierAcc[d].exists => d \in c.others
    BY DEF AllOthers, Existing
  <1> QED
    BY <1>1, <1>2, <1>3, <1>4, <1>5, <1>6, OneEditKeeps DEF LocksOK

LEMMA HaveOthersKeeps ==
  ASSUME DefaultInv, NEW a \in Account, HaveOthers(a)
  PROVE  DefaultInv'
  <1>1. AccountsOK /\ LocksOK /\ edit[a].at = "waiting" /\ Unheld(edit[a].others, a)
    BY DEF DefaultInv, HaveOthers
  <1> PICK c : c = [at |-> "ready", row |-> edit[a].row, others |-> edit[a].others]
    OBVIOUS
  <1>2. c \in Changes /\ c.row.exists /\ c.others \subseteq Existing
    BY <1>1 DEF Changes, AccountsOK
  <1>3. OneEdit(a, c)
    BY DEF HaveOthers, Will, OneEdit
  <1>4. HoldsOf(c, a) = Holds(a) \cup edit[a].others
    BY <1>1 DEF HoldsOf, Holds
  <1>5. \A d \in Account \ {a} : HoldsOf(c, a) \cap Holds(d) = {}
    BY <1>1, <1>4 DEF LocksOK, Unheld
  <1>6. ASSUME c.row.default, ~crossed
        PROVE  /\ DefaultOnes \subseteq c.others \cup {a}
               /\ courierAcc[a].exists =>
                    \A d \in Account \ {a} : courierAcc[d].exists /\ TakesDefault(d)
                      => d \in c.others \/ a \in edit[d].others
    <2>1. TakesDefault(a) /\ TakesFromAll /\ OneWaits
      BY <1>1, <1>6 DEF TakesDefault, DefaultInv
    <2> QED
      BY <2>1 DEF TakesFromAll, OneWaits
  <1> QED
    BY <1>2, <1>3, <1>5, <1>6, OneEditKeeps

LEMMA AbortAccountKeeps ==
  ASSUME DefaultInv, NEW a \in Account, AbortAccount(a)
  PROVE  DefaultInv'
  <1>1. NoChange \in Changes /\ NoChange.at = "nowhere" /\ NoChange.others = {} /\ HoldsOf(NoChange, a) = {}
    BY DEF NoChange, NoAccount, Changes, AccountRow, HoldsOf
  <1>2. OneEdit(a, NoChange)
    BY DEF AbortAccount, OneEdit
  <1> QED
    BY <1>1, <1>2, OneEditKeeps

LEMMA CommitAccountKeeps ==
  ASSUME DefaultInv, NEW a \in Account, CommitAccount(a)
  PROVE  DefaultInv'
  <1>1. AccountsOK /\ LocksOK /\ edit[a].at = "ready"
    BY DEF DefaultInv, CommitAccount
  <1> PICK r : r = edit[a].row
    OBVIOUS
  <1> PICK taken : taken = edit[a].others
    OBVIOUS
  <1>2. r \in AccountRow /\ r.exists /\ taken \in SUBSET Account
    BY <1>1 DEF AccountsOK, Changes
  <1> PICK acc : acc = courierAcc'
    OBVIOUS
  <1>3. acc = [c \in Account |-> IF c = a THEN r
                                 ELSE IF c \in taken THEN [courierAcc[c] EXCEPT !.default = FALSE]
                                 ELSE courierAcc[c]]
    BY DEF CommitAccount
  <1>4. ASSUME NEW c \in Account
        PROVE  /\ acc[c] \in AccountRow
               /\ acc[c].exists <=> (c = a \/ courierAcc[c].exists)
               /\ acc[c].default <=> IF c = a THEN r.default ELSE courierAcc[c].default /\ c \notin taken
    <2>1. courierAcc[c] \in AccountRow
      BY <1>1 DEF AccountsOK
    <2> PICK old : old = courierAcc[c]
      OBVIOUS
    <2>2. acc[c] = IF c = a THEN r ELSE IF c \in taken THEN [old EXCEPT !.default = FALSE] ELSE old
      BY <1>3
    <2>3. CASE c = a
      BY <1>2, <2>2, <2>3
    <2>4. CASE c # a /\ c \in taken
      BY <2>1, <2>2, <2>4 DEF AccountRow
    <2>5. CASE c # a /\ c \notin taken
      BY <2>1, <2>2, <2>5
    <2> QED
      BY <2>3, <2>4, <2>5
  <1> PICK f : f = edit'
    OBVIOUS
  <1>5. /\ f \in [Account -> Changes] /\ f[a] = NoChange /\ NoChange.at = "nowhere" /\ NoChange.others = {}
        /\ \A c \in Account \ {a} : f[c] = edit[c]
    BY <1>1 DEF CommitAccount, AccountsOK, NoChange, NoAccount, Changes, AccountRow
  <1>7. Existing' = Existing \cup {a}
    BY <1>4 DEF Existing
  <1>6. AccountsOK'
    <2>1. acc \in [Account -> AccountRow]
      BY <1>3, <1>4
    <2>2. \A c \in Account : acc[c].default => acc[c].exists
      BY <1>1, <1>2, <1>4 DEF AccountsOK
    <2>3. \A c \in Account : f[c].at # "nowhere" => f[c].row.exists
      BY <1>1, <1>5 DEF AccountsOK
    <2>4. \A c \in Account : f[c].others \subseteq Existing'
      BY <1>1, <1>5, <1>7 DEF AccountsOK
    <2> QED
      BY <1>5, <2>1, <2>2, <2>3, <2>4 DEF AccountsOK
  <1>8. Holds(a)' = {} /\ \A c \in Account \ {a} : Holds(c)' = Holds(c)
    BY <1>5, <1>7 DEF Holds
  <1>9. LocksOK'
    BY <1>1, <1>8 DEF LocksOK
  <1>10. ASSUME ~crossed' PROVE TakesFromAll' /\ OneWaits' /\ OneHasIt'
    <2>1. /\ ~crossed
          /\ \A c \in Account \ {a} : MakesDefault(a) /\ MakesDefault(c) => ~Unseen(a, c)
      BY <1>10 DEF CommitAccount
    <2>2. TakesFromAll /\ OneWaits /\ OneHasIt
      BY <2>1 DEF DefaultInv
    <2>3. DefaultOnes' = (IF r.default THEN {a} ELSE {}) \cup (DefaultOnes \ (taken \cup {a}))
      BY <1>4 DEF DefaultOnes
    <2>4. r.default => TakesDefault(a) /\ DefaultOnes \subseteq taken \cup {a}
      BY <1>1, <2>2 DEF TakesDefault, TakesFromAll
    <2>5. /\ r.default => DefaultOnes' = {a}
          /\ ~r.default => DefaultOnes' \subseteq DefaultOnes
      BY <2>3, <2>4
    <2>6. OneHasIt'
      BY <2>2, <2>5 DEF OneHasIt
    <2>7. ~TakesDefault(a)' /\ \A c \in Account \ {a} : TakesDefault(c)' <=> TakesDefault(c)
      BY <1>5 DEF TakesDefault
    <2>8. ASSUME NEW c \in Account, TakesDefault(c)'
          PROVE  DefaultOnes' \subseteq f[c].others \cup {c}
      <3>1. c # a /\ TakesDefault(c) /\ f[c] = edit[c] /\ DefaultOnes \subseteq edit[c].others \cup {c}
        BY <1>5, <2>2, <2>7, <2>8 DEF TakesFromAll
      <3>2. CASE ~r.default
        BY <2>5, <3>1, <3>2
      <3>3. CASE r.default
        <4>1. taken \subseteq Holds(a) /\ taken \subseteq Existing
          BY <1>1 DEF Holds, AccountsOK
        <4>2. courierAcc[c].exists => c \in Holds(c)
          BY <3>1 DEF Holds, TakesDefault, Existing
        <4>3. c \notin taken
          BY <1>1, <3>1, <4>1, <4>2 DEF LocksOK, Existing
        <4>4. a \in edit[c].others
          <5>1. CASE courierAcc[a].default
            BY <3>1, <5>1 DEF DefaultOnes
          <5>2. CASE courierAcc[c].default
            BY <2>4, <3>1, <3>3, <4>3, <5>2 DEF DefaultOnes
          <5>3. CASE ~courierAcc[a].default /\ ~courierAcc[c].default
            <6>1. MakesDefault(a) /\ MakesDefault(c)
              BY <2>4, <3>1, <3>3, <5>3 DEF MakesDefault, TakesDefault
            <6>2. CASE courierAcc[a].exists /\ courierAcc[c].exists
              BY <2>2, <2>4, <3>1, <3>3, <4>3, <6>2 DEF OneWaits
            <6>3. CASE Inserts(a) \/ Inserts(c)
              BY <2>1, <3>1, <4>3, <6>1, <6>3 DEF Unseen
            <6> QED
              BY <6>2, <6>3 DEF Inserts
          <5> QED
            BY <5>1, <5>2, <5>3
        <4> QED
          BY <2>5, <3>1, <3>3, <4>4
      <3> QED
        BY <3>2, <3>3
    <2>9. TakesFromAll'
      BY <2>8 DEF TakesFromAll
    <2>10. OneWaits'
      <3> SUFFICES ASSUME NEW c \in Account, NEW d \in Account, c # d, TakesDefault(c)', TakesDefault(d)',
                          acc[c].exists, acc[d].exists
                   PROVE  d \in f[c].others \/ c \in f[d].others
        BY DEF OneWaits
      <3>1. c # a /\ d # a /\ TakesDefault(c) /\ TakesDefault(d)
        BY <2>7
      <3>2. courierAcc[c].exists /\ courierAcc[d].exists
        BY <1>4, <3>1
      <3> QED
        BY <1>5, <2>2, <3>1, <3>2 DEF OneWaits
    <2> QED
      BY <2>6, <2>9, <2>10
  <1> QED
    BY <1>6, <1>9, <1>10 DEF DefaultInv

LEMMA AccountsBegin == CouriersInit => DefaultInv
  <1> SUFFICES ASSUME CouriersInit PROVE DefaultInv
    OBVIOUS
  <1>1. /\ courierAcc = [a \in Account |-> NoAccount] /\ edit = [a \in Account |-> NoChange]
        /\ NoAccount \in AccountRow /\ ~NoAccount.exists /\ ~NoAccount.default
        /\ NoChange \in Changes /\ NoChange.at = "nowhere" /\ NoChange.others = {}
    BY DEF CouriersInit, NoAccount, AccountRow, NoChange, Changes
  <1>2. AccountsOK
    BY <1>1 DEF AccountsOK
  <1>3. \A a \in Account : Holds(a) = {} /\ ~TakesDefault(a)
    BY <1>1 DEF Holds, TakesDefault
  <1>4. DefaultOnes = {}
    BY <1>1 DEF DefaultOnes
  <1> QED
    BY <1>2, <1>3, <1>4 DEF DefaultInv, LocksOK, TakesFromAll, OneWaits, OneHasIt

LEMMA AccountsStay == DefaultInv /\ UNCHANGED <<courierAcc, edit, crossed>> => DefaultInv'
  BY DEF DefaultInv, AccountsOK, LocksOK, TakesFromAll, OneWaits, OneHasIt, Holds, TakesDefault, Existing, DefaultOnes

LEMMA AccountsStep == DefaultInv /\ [CouriersNext]_couriersVars => DefaultInv'
  <1> SUFFICES ASSUME DefaultInv, [CouriersNext]_couriersVars PROVE DefaultInv'
    OBVIOUS
  <1>1. ASSUME NEW a \in Account, NEW x \in BOOLEAN, NEW default \in BOOLEAN,
               CreateAccount(a, x, default) \/ UpdateAccount(a, x, default)
        PROVE  DefaultInv'
    BY <1>1, CreateAccountKeeps, UpdateAccountKeeps
  <1>2. ASSUME NEW a \in Account,
               CreateManual(a) \/ ClearOthers(a) \/ HaveOthers(a) \/ CommitAccount(a) \/ AbortAccount(a)
        PROVE  DefaultInv'
    BY <1>2, CreateManualKeeps, ClearOthersKeeps, HaveOthersKeeps, CommitAccountKeeps, AbortAccountKeeps
  <1>3. ASSUME NEW p, Deliver(p) PROVE DefaultInv'
    BY <1>3, AccountsStay DEF Deliver
  <1>4. CASE UNCHANGED couriersVars
    BY <1>4, AccountsStay DEF couriersVars
  <1> QED
    BY <1>1, <1>2, <1>3, <1>4 DEF CouriersNext

(* The larger fraction has the larger whole part. *)
LEMMA QuotientGrows ==
  ASSUME NEW a \in Nat, NEW b \in Nat, NEW c \in Nat, NEW d \in Nat, b > 0, d > 0, a * d <= c * b
  PROVE  a \div b <= c \div d
  <1> PICK q : q = a \div b
    OBVIOUS
  <1> PICK r : r = c \div d
    OBVIOUS
  <1>1. q \in Nat /\ q * b <= a /\ r \in Nat /\ c < r * d + d
    BY QuotientBounds
  <1>2. SUFFICES ASSUME r + 1 <= q PROVE FALSE
    BY <1>1
  <1> PICK e : e = (r + 1) * d
    OBVIOUS
  <1>3. e = r * d + d /\ e \in Nat /\ c + 1 <= e
    BY <1>1
  <1>4. e <= q * d /\ q * d \in Nat
    BY <1>1, <1>2, LessTimes
  <1>5. (c + 1) * b <= (q * d) * b
    BY ONLY <1>1, <1>3, <1>4, LessTimes, c \in Nat, b \in Nat
  <1>6. (q * b) * d <= a * d /\ (q * d) * b = (q * b) * d
    BY ONLY <1>1, LessTimes, ProductIsNat, a \in Nat, b \in Nat, d \in Nat
  <1>7. (c + 1) * b = c * b + b /\ c * b \in Nat /\ a * d \in Nat /\ (q * b) * d \in Nat
    BY <1>1, ProductIsNat
  <1> QED
    BY <1>5, <1>6, <1>7

(* The part that arrived grows with what arrived, and falls with what failed. *)
LEMMA PartGrows ==
  ASSUME NEW g \in Nat, NEW h \in Nat, NEW b \in Nat, NEW e \in Nat, g <= h, e <= b
  PROVE  /\ (1000 * (g + 1)) \div (g + b + 2) <= (1000 * (h + 1)) \div (h + e + 2)
         /\ (1000 * (g + 1)) \div (g + b + 2) \in Nat
  <1> PICK x : x = g + 1
    OBVIOUS
  <1> PICK y : y = h + 1
    OBVIOUS
  <1> PICK m : m = b + 1
    OBVIOUS
  <1> PICK n : n = e + 1
    OBVIOUS
  <1>1. x \in Nat /\ y \in Nat /\ m \in Nat /\ n \in Nat /\ x <= y /\ n <= m /\ x > 0 /\ y > 0
    OBVIOUS
  <1>2. x * n <= y * n /\ n * y <= m * y
    BY ONLY <1>1, LessTimes
  <1>3. (1000 * x) * (y + n) = 1000 * (x * y + x * n) /\ (1000 * y) * (x + m) = 1000 * (x * y + m * y)
    BY <1>1
  <1>4. x * y \in Nat /\ x * n \in Nat /\ m * y \in Nat /\ y * n = n * y /\ n * y \in Nat
    BY <1>1, ProductIsNat
  <1>5. (1000 * x) * (y + n) <= (1000 * y) * (x + m)
    BY ONLY <1>2, <1>3, <1>4
  <1> PICK s : s = x + m
    OBVIOUS
  <1> PICK t : t = y + n
    OBVIOUS
  <1> PICK p : p = 1000 * x
    OBVIOUS
  <1> PICK r : r = 1000 * y
    OBVIOUS
  <1>6. s \in Nat /\ t \in Nat /\ p \in Nat /\ r \in Nat /\ s > 0 /\ t > 0 /\ p * t <= r * s
    BY <1>1, <1>5
  <1>7. p \div s <= r \div t /\ p \div s \in Nat
    BY ONLY <1>6, QuotientGrows, QuotientBounds
  <1>8. g + b + 2 = s /\ h + e + 2 = t
    OBVIOUS
  <1> QED
    BY <1>7, <1>8

(* What is lower among finitely many numbers is scaled higher. *)
LEMMA ScaledFalls ==
  ASSUME NEW D, IsFiniteSet(D), NEW f, \A i \in D : f[i] \in Nat, NEW c \in D, NEW d \in D, f[d] <= f[c],
         NEW all, all = {f[i] : i \in D}
  PROVE  Scaled(f[c], all) <= Scaled(f[d], all) /\ Scaled(f[c], all) \in Nat /\ Scaled(f[d], all) \in Nat
  <1>1. all \in SUBSET Nat /\ f[c] \in all /\ f[d] \in all
    OBVIOUS
  <1> PICK lo : lo = CHOOSE v \in all : \A w \in all : v <= w
    OBVIOUS
  <1> PICK hi : hi = CHOOSE v \in all : \A w \in all : w <= v
    OBVIOUS
  <1>2. lo \in all /\ \A w \in all : lo <= w
    <2>1. \E v \in all : \A w \in all : v <= w
      BY ONLY <1>1, LeastExists
    <2> QED
      BY <2>1
  <1>3. hi \in all /\ \A w \in all : w <= hi
    <2>1. \E m \in D : \A i \in D : f[i] <= f[m]
      BY LargestOfFinite
    <2>2. \E v \in all : \A w \in all : w <= v
      BY <2>1
    <2> QED
      BY <2>2
  <1> PICK u : u = f[c]
    OBVIOUS
  <1> PICK v : v = f[d]
    OBVIOUS
  <1>5. u \in Nat /\ v \in Nat /\ v <= u /\ u <= hi /\ hi \in Nat /\ lo \in Nat /\ lo <= hi
    BY <1>1, <1>2, <1>3
  <1>4. /\ Scaled(u, all) = IF hi = lo THEN 1000 ELSE (1000 * (hi - u)) \div (hi - lo)
        /\ Scaled(v, all) = IF hi = lo THEN 1000 ELSE (1000 * (hi - v)) \div (hi - lo)
    BY DEF Scaled
  <1>6. ASSUME hi = lo PROVE Scaled(u, all) = 1000 /\ Scaled(v, all) = 1000
    BY ONLY <1>4, <1>6
  <1>7. ASSUME hi # lo
        PROVE  Scaled(u, all) <= Scaled(v, all) /\ Scaled(u, all) \in Nat /\ Scaled(v, all) \in Nat
    <2>5. PICK s : s = hi - lo
      OBVIOUS
    <2>6. PICK p : p = 1000 * (hi - u)
      OBVIOUS
    <2>7. PICK q : q = 1000 * (hi - v)
      OBVIOUS
    <2>1. s \in Nat /\ s > 0 /\ p \in Nat /\ q \in Nat /\ p <= q
      BY ONLY <1>5, <1>7, <2>5, <2>6, <2>7
    <2>2. p * s <= q * s
      BY <2>1, LessTimes
    <2>3. p \div s <= q \div s /\ p \div s \in Nat /\ q \div s \in Nat
      BY ONLY <2>1, <2>2, QuotientGrows, QuotientBounds
    <2> QED
      BY ONLY <1>4, <1>7, <2>3, <2>5, <2>6, <2>7
  <1>8. Scaled(u, all) <= Scaled(v, all) /\ Scaled(u, all) \in Nat /\ Scaled(v, all) \in Nat
    BY ONLY <1>6, <1>7, 1000 \in Nat, 1000 <= 1000
  <1> QED
    BY <1>8

ParcelsOK == parcel \in Seq(Parcels) /\ Len(parcel) <= MaxParcels

(* Parcels that are looked at, and what is known of a carrier among them. *)
LEMMA BasisTypes ==
  ASSUME ParcelsOK, NEW city
  PROVE  /\ IsFiniteSet(Basis(city)) /\ Basis(city) \subseteq DOMAIN parcel
         /\ \A i \in Basis(city) : parcel[i].days \in Nat /\ parcel[i].cost \in Nat
  <1>1. parcel \in Seq(Parcels) /\ Len(parcel) \in Nat /\ DOMAIN parcel = 1..Len(parcel)
    BY DEF ParcelsOK
  <1>2. Basis(city) \in SUBSET DOMAIN parcel
    BY DEF Basis
  <1>3. IsFiniteSet(DOMAIN parcel)
    BY <1>1, FS_Interval
  <1>4. ASSUME NEW i \in DOMAIN parcel PROVE parcel[i].days \in Nat /\ parcel[i].cost \in Nat
    <2> PICK p : p = parcel[i]
      OBVIOUS
    <2>1. p \in Parcels
      BY <1>1
    <2>2. p.days \in Duration /\ p.cost \in Cost
      BY <2>1 DEF Parcels
    <2> QED
      BY <2>2, CouriersAssumption
  <1> QED
    BY <1>2, <1>3, <1>4, FS_Subset

(* The parcels S have been looked at. *)
Looked(S) == IsFiniteSet(S) /\ \A i \in S : parcel[i].days \in Nat /\ parcel[i].cost \in Nat

LEMMA MeansAreNat ==
  ASSUME NEW S, Looked(S), NEW c
  PROVE  /\ Cardinality(Finished(c, S, "DELIVERED")) \in Nat /\ Cardinality(Finished(c, S, "FAILED")) \in Nat
         /\ c \in Candidates(S) => AvgCost(c, S) \in Nat
         /\ c \in Timed(S) => AvgDays(c, S) \in Nat
         /\ c \in Candidates(S) => (c \in Timed(S) <=> Cardinality(Finished(c, S, "DELIVERED")) > 0)
  <1> PICK all : all = Of(c, S)
    OBVIOUS
  <1> PICK good : good = Finished(c, S, "DELIVERED")
    OBVIOUS
  <1>1. all \in SUBSET S /\ good \in SUBSET S /\ Finished(c, S, "FAILED") \in SUBSET S
    BY DEF Of, Finished
  <1>2. /\ IsFiniteSet(all) /\ Cardinality(all) \in Nat /\ IsFiniteSet(good) /\ Cardinality(good) \in Nat
        /\ Cardinality(Finished(c, S, "FAILED")) \in Nat
    BY <1>1, FS_Subset, FS_CardinalityType DEF Looked
  <1>3. Cardinality(all) > 0 <=> all # {}
    BY <1>2, FS_EmptySet
  <1>4. Cardinality(good) > 0 <=> good # {}
    BY <1>2, FS_EmptySet
  <1> PICK days : days = [i \in S |-> parcel[i].days]
    OBVIOUS
  <1> PICK cost : cost = [i \in S |-> parcel[i].cost]
    OBVIOUS
  <1>5. Countable(cost, all) /\ Countable(days, good)
    BY <1>1, <1>2 DEF Looked, Countable
  <1>6. SumOver(cost, all) \in Nat /\ SumOver(days, good) \in Nat
    BY <1>5, SumIsNat
  <1>7. ASSUME c \in Candidates(S) PROVE AvgCost(c, S) \in Nat
    <2>1. all # {}
      BY <1>7 DEF Candidates, Of
    <2>2. AvgCost(c, S) = (100 * SumOver(cost, all)) \div Cardinality(all)
      BY DEF AvgCost
    <2> QED
      BY <1>2, <1>3, <1>6, <2>1, <2>2, QuotientIsNat
  <1>8. ASSUME c \in Timed(S) PROVE AvgDays(c, S) \in Nat
    <2>1. good # {}
      BY <1>8 DEF Timed
    <2>2. AvgDays(c, S) = (100 * SumOver(days, good)) \div Cardinality(good)
      BY DEF AvgDays
    <2> QED
      BY <1>2, <1>4, <1>6, <2>1, <2>2, QuotientIsNat
  <1>9. c \in Candidates(S) => (c \in Timed(S) <=> good # {})
    BY DEF Timed
  <1> QED
    BY <1>2, <1>4, <1>7, <1>8, <1>9

LEMMA CandidatesAreFinite ==
  ASSUME NEW S, Looked(S)
  PROVE  IsFiniteSet(Candidates(S)) /\ IsFiniteSet(Timed(S))
  <1> PICK C : C = Candidates(S)
    OBVIOUS
  <1> PICK f : f = [i \in S |-> parcel[i].carrier]
    OBVIOUS
  <1>1. f \in Surjection(S, C)
    BY DEF Surjection, Candidates
  <1>2. IsFiniteSet(C)
    BY <1>1, FS_Surjection DEF Looked
  <1>3. Timed(S) \in SUBSET C
    BY DEF Timed
  <1> QED
    BY <1>2, <1>3, FS_Subset

(* A score is made from three numbers. *)
LEMMA ScoreOf ==
  ASSUME NEW S, Looked(S), NEW c \in Candidates(S)
  PROVE  /\ Reliability(c, S) \in Nat /\ Speed(c, S) \in Nat /\ Cheapness(c, S) \in Nat
         /\ Score(c, S) = (55 * Reliability(c, S) + 25 * Speed(c, S) + 20 * Cheapness(c, S)) \div 100
         /\ Score(c, S) \in Nat
  <1>1. Reliability(c, S) \in Nat
    BY MeansAreNat, PartGrows DEF Reliability
  <1>2. Speed(c, S) \in Nat
    <2> PICK T : T = Timed(S)
      OBVIOUS
    <2> PICK f : f = [d \in T |-> AvgDays(d, S)]
      OBVIOUS
    <2> PICK all : all = {AvgDays(d, S) : d \in T}
      OBVIOUS
    <2>1. IsFiniteSet(T) /\ \A d \in T : f[d] \in Nat /\ f[d] = AvgDays(d, S)
      BY CandidatesAreFinite, MeansAreNat
    <2>2. all = {f[d] : d \in T}
      BY <2>1
    <2>3. c \in T => f[c] <= f[c]
      BY <2>1
    <2>4. c \in T => Scaled(f[c], all) \in Nat
      BY ONLY <2>1, <2>2, <2>3, ScaledFalls
    <2>5. Speed(c, S) = IF c \notin T THEN 1000 ELSE Scaled(AvgDays(c, S), all)
      BY DEF Speed
    <2> QED
      BY <2>1, <2>4, <2>5
  <1>3. Cheapness(c, S) \in Nat
    <2> PICK T : T = Candidates(S)
      OBVIOUS
    <2> PICK f : f = [d \in T |-> AvgCost(d, S)]
      OBVIOUS
    <2> PICK all : all = {AvgCost(d, S) : d \in T}
      OBVIOUS
    <2>1. IsFiniteSet(T) /\ \A d \in T : f[d] \in Nat /\ f[d] = AvgCost(d, S)
      BY CandidatesAreFinite, MeansAreNat
    <2>2. all = {f[d] : d \in T}
      BY <2>1
    <2>3. c \in T /\ f[c] <= f[c]
      BY <2>1
    <2>4. Scaled(f[c], all) \in Nat
      BY ONLY <2>1, <2>2, <2>3, ScaledFalls
    <2>5. Cheapness(c, S) = Scaled(AvgCost(c, S), all)
      BY DEF Cheapness
    <2> QED
      BY <2>1, <2>3, <2>4, <2>5
  <1>4. Score(c, S) = (55 * Reliability(c, S) + 25 * Speed(c, S) + 20 * Cheapness(c, S)) \div 100
    BY DEF Score
  <1> QED
    BY <1>1, <1>2, <1>3, <1>4

(* Who is no worse than another is scored no lower, and higher when the part *)
(* that arrived is.                                                          *)
LEMMA NoWorseNoLower ==
  ASSUME NEW S, Looked(S), NEW c \in Candidates(S), NEW d \in Candidates(S), NoWorse(d, c, S)
  PROVE  /\ Score(d, S) >= Score(c, S)
         /\ Reliability(d, S) > Reliability(c, S) + 1 => Score(d, S) > Score(c, S)
  <1>1. /\ Cardinality(Finished(d, S, "DELIVERED")) >= Cardinality(Finished(c, S, "DELIVERED"))
        /\ Cardinality(Finished(d, S, "FAILED")) <= Cardinality(Finished(c, S, "FAILED"))
        /\ c \in Timed(S) /\ AvgDays(d, S) <= AvgDays(c, S) /\ AvgCost(d, S) <= AvgCost(c, S)
    BY DEF NoWorse
  <1>2. d \in Timed(S)
    BY <1>1, MeansAreNat
  <1>3. Reliability(d, S) >= Reliability(c, S)
    BY <1>1, MeansAreNat, PartGrows DEF Reliability
  <1>4. Speed(d, S) >= Speed(c, S)
    <2> PICK T : T = Timed(S)
      OBVIOUS
    <2> PICK f : f = [e \in T |-> AvgDays(e, S)]
      OBVIOUS
    <2> PICK all : all = {AvgDays(e, S) : e \in T}
      OBVIOUS
    <2>1. IsFiniteSet(T) /\ \A e \in T : f[e] \in Nat /\ f[e] = AvgDays(e, S)
      BY CandidatesAreFinite, MeansAreNat
    <2>2. all = {f[e] : e \in T} /\ f[d] <= f[c] /\ c \in T /\ d \in T
      BY <1>1, <1>2, <2>1
    <2>3. Scaled(f[c], all) <= Scaled(f[d], all) /\ Scaled(f[c], all) \in Nat /\ Scaled(f[d], all) \in Nat
      BY ONLY <2>1, <2>2, ScaledFalls
    <2>4. Speed(c, S) = Scaled(f[c], all) /\ Speed(d, S) = Scaled(f[d], all)
      BY <2>1, <2>2 DEF Speed
    <2> QED
      BY <2>3, <2>4
  <1>5. Cheapness(d, S) >= Cheapness(c, S)
    <2> PICK T : T = Candidates(S)
      OBVIOUS
    <2> PICK f : f = [e \in T |-> AvgCost(e, S)]
      OBVIOUS
    <2> PICK all : all = {AvgCost(e, S) : e \in T}
      OBVIOUS
    <2>1. IsFiniteSet(T) /\ \A e \in T : f[e] \in Nat /\ f[e] = AvgCost(e, S)
      BY CandidatesAreFinite, MeansAreNat
    <2>2. all = {f[e] : e \in T} /\ f[d] <= f[c] /\ c \in T /\ d \in T
      BY <1>1, <2>1
    <2>3. Scaled(f[c], all) <= Scaled(f[d], all) /\ Scaled(f[c], all) \in Nat /\ Scaled(f[d], all) \in Nat
      BY ONLY <2>1, <2>2, ScaledFalls
    <2>4. Cheapness(c, S) = Scaled(f[c], all) /\ Cheapness(d, S) = Scaled(f[d], all)
      BY <2>1, <2>2 DEF Cheapness
    <2> QED
      BY <2>3, <2>4
  <1> QED
    BY <1>3, <1>4, <1>5, ScoreOf

(* Whatever parcels there are. *)
LEMMA BestIsRecommended == ParcelsOK => NoBetterCourier
  <1> SUFFICES ASSUME ParcelsOK, NEW city \in City, NEW c \in Recommended(city),
                      NEW d \in Candidates(Basis(city)), NoWorse(d, c, Basis(city))
               PROVE  /\ d \in Recommended(city)
                      /\ Reliability(d, Basis(city)) <= Reliability(c, Basis(city)) + 1
    BY DEF NoBetterCourier
  <1> PICK S : S = Basis(city)
    OBVIOUS
  <1>1. Looked(S)
    BY BasisTypes DEF Looked
  <1>2. c \in Candidates(S) /\ \A e \in Candidates(S) : Score(c, S) >= Score(e, S)
    BY DEF Recommended
  <1>3. \A e \in Candidates(S) : Score(e, S) \in Nat /\ Reliability(e, S) \in Nat
    BY <1>1, ScoreOf
  <1>4. d \in Candidates(S) /\ NoWorse(d, c, S)
    OBVIOUS
  <1>5. Score(d, S) >= Score(c, S) /\ (Reliability(d, S) > Reliability(c, S) + 1 => Score(d, S) > Score(c, S))
    BY <1>1, <1>2, <1>4, NoWorseNoLower
  <1>6. \A e \in Candidates(S) : Score(d, S) >= Score(e, S)
    BY <1>2, <1>3, <1>4, <1>5
  <1>7. Reliability(d, S) <= Reliability(c, S) + 1
    BY <1>2, <1>3, <1>4, <1>5
  <1> QED
    BY <1>4, <1>6, <1>7 DEF Recommended

LEMMA ParcelsBegin == CouriersInit => ParcelsOK
  <1> SUFFICES ASSUME CouriersInit PROVE ParcelsOK
    OBVIOUS
  <1>1. parcel = <<>> /\ MaxParcels \in Nat
    BY CouriersAssumption DEF CouriersInit
  <1> QED
    BY <1>1 DEF ParcelsOK

LEMMA ParcelsStep == ParcelsOK /\ [CouriersNext]_couriersVars => ParcelsOK'
  <1> SUFFICES ASSUME ParcelsOK, [CouriersNext]_couriersVars PROVE ParcelsOK'
    OBVIOUS
  <1>1. ASSUME NEW p \in Parcels, Deliver(p) PROVE ParcelsOK'
    <2>1. parcel \in Seq(Parcels) /\ Len(parcel) \in Nat /\ Len(parcel) < MaxParcels /\ MaxParcels \in Nat
      BY <1>1, CouriersAssumption DEF ParcelsOK, Deliver
    <2>2. parcel' = Append(parcel, p)
      BY <1>1 DEF Deliver
    <2> QED
      BY <2>1, <2>2 DEF ParcelsOK
  <1>2. ASSUME UNCHANGED parcel PROVE ParcelsOK'
    BY <1>2 DEF ParcelsOK
  <1>3. (\E p \in Parcels : Deliver(p)) \/ UNCHANGED parcel
    BY DEF CouriersNext, couriersVars, CreateAccount, UpdateAccount, CreateManual, ClearOthers, HaveOthers,
           CommitAccount, AbortAccount
  <1> QED
    BY <1>1, <1>2, <1>3

(* A tenant has one default account at most, whichever requests make         *)
(* accounts the default at the same time, unless one of them inserts it      *)
(* (create_account, update_account); a courier that is no worse than a       *)
(* recommended one is recommended (recommend).                               *)
THEOREM CouriersCorrect == CouriersSpec => []CouriersHold
  <1>1. DefaultInv => OneDefaultAccount
    <2> SUFFICES ASSUME DefaultInv, ~crossed PROVE Cardinality(DefaultOnes) <= 1
      BY DEF OneDefaultAccount, DefaultOnes
    <2>1. DefaultOnes = {} \/ \E a : DefaultOnes = {a}
      BY DEF DefaultInv, OneHasIt
    <2>2. CASE DefaultOnes = {}
      <3>1. Cardinality(DefaultOnes) = 0
        BY <2>2, FS_EmptySet
      <3> QED
        BY <3>1
    <2>3. ASSUME NEW a, DefaultOnes = {a} PROVE Cardinality(DefaultOnes) <= 1
      <3>1. Cardinality(DefaultOnes) = 1
        BY <2>3, FS_Singleton
      <3> QED
        BY <3>1
    <2> QED
      BY <2>1, <2>2, <2>3
  <1>2. DefaultInv /\ ParcelsOK => CouriersHold
    BY <1>1, BestIsRecommended DEF CouriersHold
  <1> QED
    BY <1>2, AccountsBegin, AccountsStep, ParcelsBegin, ParcelsStep, PTL DEF CouriersSpec

CrossedOK == crossed \in BOOLEAN

(* Every account, request and parcel is well formed, and no two requests     *)
(* hold one row, for any numbers of accounts and parcels.                    *)
THEOREM CouriersTypes == CouriersSpec => []CouriersTypeOK
  <1>1. CouriersInit => CrossedOK
    BY DEF CouriersInit, CrossedOK
  <1>2. CrossedOK /\ [CouriersNext]_couriersVars => CrossedOK'
    BY Zenon DEF CouriersNext, couriersVars, CreateAccount, UpdateAccount, CreateManual, ClearOthers, HaveOthers,
           CommitAccount, AbortAccount, Deliver, CrossedOK
  <1>3. DefaultInv /\ ParcelsOK /\ CrossedOK => CouriersTypeOK
    BY DEF DefaultInv, AccountsOK, LocksOK, ParcelsOK, CrossedOK, CouriersTypeOK
  <1> QED
    BY <1>1, <1>2, <1>3, AccountsBegin, AccountsStep, ParcelsBegin, ParcelsStep, PTL DEF CouriersSpec

-----------------------------------------------------------------------------
(***************************************************************************)
(* Anomalies: who is told, for any numbers of orders and days.             *)
(***************************************************************************)

(* A daily finding was told on the day it is named for or the day after, as  *)
(* days of Jakarta begin before those of UTC, and none before its time.      *)
ToldInTime ==
  \A k \in DOMAIN told :
    /\ told[k][1] <= Today
    /\ k[1] = "spike" => told[k][1] \in k[2]..(k[2] + 1)

SpikeIsHeard ==
  "spike" \in fresh /\ UtcDay(time) = Today /\ Spike => \E k \in DOMAIN told : k[1] = "spike" /\ told[k][1] = Today

FindingsInv == AnomaliesTypeOK /\ FindingsToldOnce /\ LargeOrdersAreSeen /\ ToldInTime /\ SpikeIsHeard

LEMMA AnomalyDays ==
  AnomaliesTypeOK => /\ time \in Nat /\ Today \in Days /\ UtcDay(time) \in Days
                     /\ Today \in Nat /\ UtcDay(time) \in Nat /\ Today \in UtcDay(time)..(UtcDay(time) + 1)
  <1> SUFFICES ASSUME AnomaliesTypeOK
               PROVE  /\ time \in Nat /\ Today \in Days /\ UtcDay(time) \in Days
                      /\ Today \in Nat /\ UtcDay(time) \in Nat /\ Today \in UtcDay(time)..(UtcDay(time) + 1)
    OBVIOUS
  <1>1. time \in 0..MaxTime /\ time \in Nat
    BY ClockAssumption DEF AnomaliesTypeOK
  <1> QED
    BY <1>1, DayTypes DEF Today

IsNth(vals, k, v) ==
  /\ \E i \in DOMAIN vals : v = vals[i]
  /\ Cardinality({i \in DOMAIN vals : vals[i] < v}) < k
  /\ k <= Cardinality({i \in DOMAIN vals : vals[i] <= v})

(* The k-th smallest of finitely many numbers exists. *)
LEMMA NthExists ==
  ASSUME NEW vals, IsFiniteSet(DOMAIN vals), \A i \in DOMAIN vals : vals[i] \in Nat,
         NEW k \in 1..Cardinality(DOMAIN vals)
  PROVE  IsNth(vals, k, Nth(vals, k))
  <1> PICK D : D = DOMAIN vals
    OBVIOUS
  <1> PICK most : most = [v \in Nat |-> {i \in D : vals[i] <= v}]
    OBVIOUS
  <1> PICK less : less = [v \in Nat |-> {i \in D : vals[i] < v}]
    OBVIOUS
  <1>1. Cardinality(D) \in Nat /\ k \in Nat /\ 1 <= k /\ k <= Cardinality(D) /\ D # {}
    BY FS_CardinalityType, FS_EmptySet
  <1> PICK W : W = {v \in Nat : (\E i \in D : v = vals[i]) /\ k <= Cardinality(most[v])}
    OBVIOUS
  <1>2. W # {}
    <2>1. PICK m \in D : \A i \in D : vals[i] <= vals[m]
      BY <1>1, LargestOfFinite
    <2>2. most[vals[m]] = D
      BY <2>1
    <2> QED
      BY <1>1, <2>1, <2>2
  <1>3. PICK v \in W : \A w \in W : v <= w
    <2>1. W \in SUBSET Nat
      OBVIOUS
    <2> QED
      BY <1>2, <2>1, LeastExists
  <1>4. v \in Nat /\ (\E i \in D : v = vals[i]) /\ k <= Cardinality(most[v])
    BY <1>3
  <1>5. less[v] \in SUBSET D /\ IsFiniteSet(less[v]) /\ Cardinality(less[v]) \in Nat
    <2>1. less[v] \in SUBSET D
      BY <1>4
    <2> QED
      BY <2>1, FS_Subset, FS_CardinalityType
  <1>6. Cardinality(less[v]) < k
    <2>1. CASE less[v] = {}
      <3>1. Cardinality(less[v]) = 0
        BY <1>5, <2>1, FS_EmptySet
      <3> QED
        BY <1>1, <3>1
    <2>2. CASE less[v] # {}
      <3>1. PICK m \in less[v] : \A i \in less[v] : vals[i] <= vals[m]
        BY <1>5, <2>2, LargestOfFinite
      <3>2. m \in D /\ vals[m] \in Nat /\ vals[m] < v
        BY <1>4, <3>1
      <3>3. \A i \in D : vals[i] < v <=> vals[i] <= vals[m]
        BY <1>4, <3>1, <3>2
      <3>4. less[v] = most[vals[m]]
        BY <1>4, <3>2, <3>3
      <3>5. vals[m] \notin W
        BY <1>3, <1>4, <3>2
      <3>6. ~(k <= Cardinality(most[vals[m]]))
        BY <3>2, <3>5
      <3>7. ~(k <= Cardinality(less[v]))
        BY <3>4, <3>6
      <3> QED
        BY ONLY <1>1, <1>5, <3>7
    <2> QED
      BY <2>1, <2>2
  <1>7. IsNth(vals, k, v)
    BY <1>4, <1>6 DEF IsNth
  <1>8. Nth(vals, k) = CHOOSE w \in {vals[i] : i \in D} : IsNth(vals, k, w)
    BY DEF Nth, IsNth
  <1>9. v \in {vals[i] : i \in D}
    BY <1>4
  <1> QED
    BY <1>7, <1>8, <1>9

LEMMA HalfOf ==
  ASSUME NEW n \in Nat, n > 0
  PROVE  /\ (n + 1) \div 2 \in 1..n /\ (n + 2) \div 2 \in 1..n
         /\ 2 * ((n + 1) \div 2) <= n + 2 /\ 2 * ((n + 2) \div 2) <= n + 2
  OBVIOUS

(* A number in the middle is small when most are. *)
LEMMA NthIsSmall ==
  ASSUME NEW vals, IsFiniteSet(DOMAIN vals), \A i \in DOMAIN vals : vals[i] \in Nat,
         NEW k \in 1..Cardinality(DOMAIN vals), 2 * k <= Cardinality(DOMAIN vals) + 2,
         NEW T \in SUBSET DOMAIN vals, 2 * Cardinality(T) > Cardinality(DOMAIN vals),
         NEW c \in Nat, NEW x \in Nat, \A i \in T : vals[i] * c <= x
  PROVE  Nth(vals, k) \in Nat /\ Nth(vals, k) * c <= x
  <1> PICK v : v = Nth(vals, k)
    OBVIOUS
  <1> PICK less : less = {i \in DOMAIN vals : vals[i] < v}
    OBVIOUS
  <1>1. v \in Nat /\ Cardinality(less) < k
    BY NthExists DEF IsNth
  <1>2. /\ less \in SUBSET DOMAIN vals /\ IsFiniteSet(less) /\ Cardinality(less) \in Nat
        /\ Cardinality(T) \in Nat /\ Cardinality(DOMAIN vals) \in Nat
    BY FS_Subset, FS_CardinalityType
  <1>3. ASSUME T \in SUBSET less PROVE FALSE
    <2>1. Cardinality(T) <= Cardinality(less)
      BY <1>2, <1>3, FS_Subset
    <2> QED
      BY <1>1, <1>2, <2>1
  <1>4. PICK i \in T : v <= vals[i] /\ vals[i] \in Nat
    BY <1>1, <1>3
  <1>5. v * c <= vals[i] * c
    BY <1>1, <1>4, LessTimes
  <1>6. vals[i] * c <= x /\ v * c \in Nat /\ vals[i] * c \in Nat
    BY <1>1, <1>4, ProductIsNat
  <1> QED
    BY <1>1, <1>5, <1>6

LEMMA MedianIsSmall ==
  ASSUME NEW vals, IsFiniteSet(DOMAIN vals), \A i \in DOMAIN vals : vals[i] \in Nat,
         NEW T \in SUBSET DOMAIN vals, 2 * Cardinality(T) > Cardinality(DOMAIN vals),
         NEW c \in Nat, NEW x \in Nat, \A i \in T : vals[i] * c <= x
  PROVE  TwiceMedian(vals) \in Nat /\ TwiceMedian(vals) * c <= 2 * x
  <1> PICK n : n = Cardinality(DOMAIN vals)
    OBVIOUS
  <1>1. n \in Nat /\ n > 0
    <2>1. n \in Nat /\ Cardinality(T) \in Nat /\ Cardinality(T) <= n
      BY FS_Subset, FS_CardinalityType
    <2> QED
      BY <2>1
  <1> PICK a : a = Nth(vals, (n + 1) \div 2)
    OBVIOUS
  <1> PICK b : b = Nth(vals, (n + 2) \div 2)
    OBVIOUS
  <1>2. a \in Nat /\ a * c <= x
    BY <1>1, HalfOf, NthIsSmall
  <1>3. b \in Nat /\ b * c <= x
    BY <1>1, HalfOf, NthIsSmall
  <1>4. TwiceMedian(vals) = a + b
    BY DEF TwiceMedian
  <1>5. (a + b) * c = a * c + b * c /\ a * c \in Nat /\ b * c \in Nat
    BY <1>2, <1>3, ProductIsNat
  <1> QED
    BY <1>2, <1>3, <1>4, <1>5

(* What is ten times as large as most is far above them, by its distance     *)
(* from the median against the median of the distances.                      *)
LEMMA TenTimesIsFarAbove ==
  ASSUME NEW vals, IsFiniteSet(DOMAIN vals), \A i \in DOMAIN vals : vals[i] \in Nat,
         NEW T \in SUBSET DOMAIN vals, 2 * Cardinality(T) > Cardinality(DOMAIN vals),
         NEW x \in Nat, x >= 10, \A i \in T : vals[i] * 10 <= x
  PROVE  RobustZ(x, vals, 6) /\ 2 * x >= 3 * TwiceMedian(vals)
  <1> PICK m : m = TwiceMedian(vals)
    OBVIOUS
  <1>1. m \in Nat /\ m * 10 <= 2 * x
    BY MedianIsSmall
  <1>2. m * 5 <= x
    BY <1>1
  <1> PICK far : far = [i \in DOMAIN vals |-> Distance(2 * vals[i], m)]
    OBVIOUS
  <1>3. \A i \in DOMAIN vals : far[i] \in Nat
    BY <1>1 DEF Distance
  <1>4. \A i \in T : far[i] * 5 <= x
    <2> SUFFICES ASSUME NEW i \in T PROVE far[i] * 5 <= x
      OBVIOUS
    <2> PICK w : w = vals[i]
      OBVIOUS
    <2>1. w \in Nat /\ w * 10 <= x /\ far[i] = IF 2 * w >= m THEN 2 * w - m ELSE m - 2 * w
      BY DEF Distance
    <2> QED
      BY <1>1, <1>2, <2>1
  <1> PICK d : d = FourMad(vals)
    OBVIOUS
  <1>5. d = TwiceMedian(far)
    BY DEF FourMad
  <1>6. d \in Nat /\ d * 5 <= 2 * x
    BY <1>3, <1>4, <1>5, MedianIsSmall
  <1>7. 2 * x >= m /\ 2 * x >= 3 * m
    BY <1>1, <1>2
  <1>8. (2 * x - m) * 20000 >= 6 * 14826 * d
    BY <1>1, <1>2, <1>6
  <1>9. (2 * x - m) * 5 >= 6 * (IF m > 10 THEN m ELSE 10)
    BY <1>1, <1>2
  <1> QED
    BY <1>7, <1>8, <1>9 DEF RobustZ

(* A recent order is far above, when it is ten times as large as most orders *)
(* before it.                                                                *)
LEMMA LargeIsFarAbove ==
  ASSUME AnomaliesTypeOK, NEW i \in Recent, Cardinality(History) >= MinHistory,
         2 * Cardinality({j \in History : placed[i].units >= 10 * placed[j].units}) > Cardinality(History)
  PROVE  FarAbove(i)
  <1> PICK T : T = {j \in History : placed[i].units >= 10 * placed[j].units}
    OBVIOUS
  <1>1. /\ placed \in Seq(Purchases) /\ Len(placed) \in Nat /\ DOMAIN placed = 1..Len(placed)
        /\ Price \in Nat /\ Price > 0 /\ Sizes \subseteq Nat \ {0}
    BY AnomaliesAssumption DEF AnomaliesTypeOK
  <1>2. IsFiniteSet(History) /\ Cardinality(History) \in Nat
    <2>1. IsFiniteSet(1..Len(placed)) /\ History \in SUBSET (1..Len(placed))
      BY <1>1, FS_Interval DEF History
    <2> QED
      BY <2>1, FS_Subset, FS_CardinalityType
  <1>3. \A j \in DOMAIN placed : placed[j].units \in Nat /\ placed[j].units > 0
    <2> SUFFICES ASSUME NEW j \in DOMAIN placed PROVE placed[j].units \in Nat /\ placed[j].units > 0
      OBVIOUS
    <2> PICK p : p = placed[j]
      OBVIOUS
    <2>1. p \in Purchases
      BY <1>1
    <2>2. p.units \in Sizes
      BY <2>1 DEF Purchases
    <2>3. p.units \in Nat \ {0}
      BY ONLY <1>1, <2>2
    <2>4. p.units \in Nat /\ p.units > 0
      BY ONLY <2>3
    <2> QED
      BY <2>4
  <1> PICK vals : vals = [j \in History |-> placed[j].units * Price]
    OBVIOUS
  <1> PICK x : x = placed[i].units * Price
    OBVIOUS
  <1>4. \A j \in History : j \in DOMAIN placed /\ vals[j] = placed[j].units * Price /\ vals[j] \in Nat
    BY <1>1, <1>3, ProductIsNat DEF History
  <1>5. x \in Nat /\ i \in DOMAIN placed
    BY <1>1, <1>3, ProductIsNat DEF Recent
  <1>6. \A j \in T : vals[j] * 10 <= x
    <2> SUFFICES ASSUME NEW j \in T PROVE vals[j] * 10 <= x
      OBVIOUS
    <2> PICK u : u = placed[j].units
      OBVIOUS
    <2> PICK w : w = placed[i].units
      OBVIOUS
    <2>1. u \in Nat /\ w \in Nat /\ 10 * u <= w
      BY <1>3, <1>4, <1>5
    <2> PICK t : t = 10 * u
      OBVIOUS
    <2>2. t \in Nat /\ t <= w
      BY <2>1
    <2>4. t * Price <= w * Price
      BY ONLY <1>1, <2>1, <2>2, LessTimes
    <2>3. t * Price = (u * Price) * 10
      BY <1>1, <2>1
    <2> QED
      BY <1>4, <2>4, <2>3
  <1>7. x >= 10
    <2>1. PICK j : j \in T
      <3>1. 2 * Cardinality(T) > Cardinality(History)
        OBVIOUS
      <3>2. T # {}
        BY ONLY <1>2, <3>1, FS_EmptySet
      <3> QED
        BY <3>2
    <2> PICK u : u = placed[j].units
      OBVIOUS
    <2> PICK w : w = placed[i].units
      OBVIOUS
    <2>2. u \in Nat /\ u > 0 /\ w \in Nat /\ 10 * u <= w
      BY <1>3, <1>4, <1>5, <2>1
    <2>3. 1 * w <= Price * w
      BY <1>1, <2>2, LessTimes
    <2>4. Price * w = x /\ 1 * w = w
      BY <1>1, <2>2
    <2> QED
      BY <1>5, <2>2, <2>3, <2>4
  <1>8. DOMAIN vals = History /\ T \in SUBSET DOMAIN vals
    OBVIOUS
  <1>9. RobustZ(x, vals, 6) /\ 2 * x >= 3 * TwiceMedian(vals)
    BY <1>2, <1>4, <1>5, <1>6, <1>7, <1>8, TenTimesIsFarAbove
  <1> QED
    BY <1>9 DEF FarAbove

(* Today's recorded findings, each named for a day or an order there is. *)
Nameable(keys) == keys \subseteq {k \in Keys : Subject(k)} /\ \A k \in keys : k[1] = "spike" => k[2] = UtcDay(time)

LEMMA RecordKeeps ==
  ASSUME FindingsInv, NEW kinds \in SUBSET AnomalyKind, NEW keys, Nameable(keys), Record(kinds, keys),
         "spike" \in kinds /\ Spike => \E k \in keys : k[1] = "spike",
         "value" \in kinds => \A i \in Recent : FarAbove(i) => <<"value", i>> \in keys
  PROVE  FindingsInv'
  <1>1. AnomaliesTypeOK /\ FindingsToldOnce /\ LargeOrdersAreSeen /\ ToldInTime /\ SpikeIsHeard
    BY DEF FindingsInv
  <1> PICK d : d = Today
    OBVIOUS
  <1> PICK u : u = UtcDay(time)
    OBVIOUS
  <1>2. d \in Days /\ d \in Nat /\ u \in Nat /\ d \in u..(u + 1)
    BY <1>1, AnomalyDays
  <1> PICK new : new = Unheard(keys)
    OBVIOUS
  <1>3. new = keys \ finding /\ DOMAIN told = finding
    BY <1>1 DEF Unheard, FindingsToldOnce
  <1> PICK t : t = told'
    OBVIOUS
  <1>4. t = [k \in finding \cup new |-> IF k \in new THEN Append(TimesTold(k), d) ELSE told[k]]
    BY <1>3 DEF Record
  <1>5. \A k \in new : t[k] = <<d>>
    <2> SUFFICES ASSUME NEW k \in new PROVE t[k] = <<d>>
      OBVIOUS
    <2>1. TimesTold(k) = <<>>
      BY <1>3 DEF TimesTold
    <2> QED
      BY <1>4, <2>1
  <1>6. \A k \in finding : t[k] = told[k]
    BY <1>3, <1>4
  <1>7. DOMAIN t = finding \cup keys /\ finding' = finding \cup keys
    BY <1>3, <1>4 DEF Record
  <1>8. UNCHANGED <<time, placed, arrived>> /\ Today' = d /\ UtcDay(time)' = u /\ (Spike' <=> Spike)
    BY DEF Record, Today, Spike, Earlier, PerDay
  <1>9. keys \subseteq Keys /\ \A k \in keys : Subject(k)
    BY DEF Nameable
  <1>10. AnomaliesTypeOK'
    <2>1. \A k : Subject(k)' <=> Subject(k)
      BY <1>8 DEF Subject
    <2>2. finding' \subseteq Keys /\ \A k \in finding' : Subject(k)'
      BY <1>1, <1>7, <1>9, <2>1 DEF AnomaliesTypeOK
    <2>3. decided' \subseteq finding'
      BY <1>1, <1>7 DEF Record, AnomaliesTypeOK
    <2>4. \A k \in finding : told[k] \in Seq(Days)
      BY <1>1, <1>3 DEF AnomaliesTypeOK
    <2> PICK q : q = <<d>>
      OBVIOUS
    <2>8. q \in Seq(Days)
      BY <1>2
    <2>5. \A k \in DOMAIN t : t[k] \in Seq(Days)
      BY <2>8, <1>3, <1>5, <1>6, <1>7, <2>4
    <2>6. DOMAIN t \subseteq Keys
      BY <1>1, <1>7, <1>9 DEF AnomaliesTypeOK
    <2>7. fresh' \subseteq AnomalyKind
      BY <1>1 DEF Record, AnomaliesTypeOK
    <2> QED
      BY <1>1, <1>8, <2>2, <2>3, <2>5, <2>6, <2>7 DEF AnomaliesTypeOK
  <1>11. FindingsToldOnce'
    <2>1. \A k \in finding : Len(told[k]) = 1
      BY <1>1 DEF FindingsToldOnce
    <2>2. \A k \in finding \cup keys : Len(t[k]) = 1
      BY <1>3, <1>5, <1>6, <2>1
    <2> QED
      BY <1>7, <2>2 DEF FindingsToldOnce
  <1>12. ToldInTime'
    <2>1. \A k \in finding : told[k][1] <= d /\ (k[1] = "spike" => told[k][1] \in k[2]..(k[2] + 1))
      BY <1>1, <1>3 DEF ToldInTime
    <2>2. \A k \in new : t[k][1] = d /\ (k[1] = "spike" => k[2] = u)
      BY <1>3, <1>5 DEF Nameable
    <2>3. \A k \in DOMAIN t : t[k][1] <= d /\ (k[1] = "spike" => t[k][1] \in k[2]..(k[2] + 1))
      BY <1>2, <1>3, <1>6, <1>7, <2>1, <2>2
    <2> QED
      BY <1>8, <2>3 DEF ToldInTime
  <1>13. SpikeIsHeard'
    <2> SUFFICES ASSUME "spike" \in fresh', u = d, Spike
                 PROVE  \E k \in DOMAIN t : k[1] = "spike" /\ t[k][1] = d
      BY <1>8 DEF SpikeIsHeard
    <2>1. CASE "spike" \in fresh
      <3>1. PICK k \in DOMAIN told : k[1] = "spike" /\ told[k][1] = d
        BY <1>1, <2>1 DEF SpikeIsHeard
      <3> QED
        BY <1>3, <1>6, <1>7, <3>1
    <2>2. CASE "spike" \in kinds
      <3>1. PICK k \in keys : k[1] = "spike"
        BY <2>2
      <3>2. k[2] = u
        BY <3>1 DEF Nameable
      <3>3. CASE k \in new
        BY <1>5, <1>7, <3>1, <3>3
      <3>4. CASE k \notin new
        <4>1. k \in finding /\ t[k] = told[k]
          BY <1>3, <1>6, <3>4
        <4>2. told[k][1] <= d /\ told[k][1] \in u..(u + 1)
          BY <1>1, <1>3, <3>1, <3>2, <4>1 DEF ToldInTime
        <4>3. told[k][1] = d
          BY <1>2, <4>2
        <4> QED
          BY <1>7, <3>1, <4>1, <4>3
      <3> QED
        BY <3>3, <3>4
    <2> QED
      BY <2>1, <2>2 DEF Record
  <1>14. LargeOrdersAreSeen'
    <2>1. History' = History /\ Recent' = Recent /\ placed' = placed
      BY <1>8 DEF History, Recent
    <2> SUFFICES ASSUME "value" \in fresh', Cardinality(History) >= MinHistory, NEW i \in Recent,
                        2 * Cardinality({j \in History : placed[i].units >= 10 * placed[j].units}) > Cardinality(History)
                 PROVE  <<"value", i>> \in DOMAIN t
      BY <2>1 DEF LargeOrdersAreSeen
    <2>2. CASE "value" \in fresh
      <3>1. <<"value", i>> \in DOMAIN told
        BY <1>1, <2>2 DEF LargeOrdersAreSeen
      <3> QED
        BY <1>3, <1>7, <3>1
    <2>3. CASE "value" \in kinds
      <3>1. FarAbove(i)
        BY <1>1, LargeIsFarAbove
      <3> QED
        BY <1>7, <2>3, <3>1
    <2> QED
      BY <2>2, <2>3 DEF Record
  <1> QED
    BY <1>10, <1>11, <1>12, <1>13, <1>14 DEF FindingsInv

LEMMA ScanOrdersKeeps ==
  ASSUME FindingsInv, ScanOrders
  PROVE  FindingsInv'
  <1> PICK keys : keys = {<<"value", i>> : i \in {j \in Recent : FarAbove(j)}}
                         \cup {<<"quantity", i>> : i \in {j \in Recent : FarMore(j)}}
    OBVIOUS
  <1>1. Record({"value", "quantity"}, keys)
    BY DEF ScanOrders
  <1>2. \A k \in keys : \E i \in Recent : k = <<"value", i>> \/ k = <<"quantity", i>>
    OBVIOUS
  <1>3. Len(placed) \in Nat /\ DOMAIN placed = 1..Len(placed) /\ Len(placed) <= MaxOrders /\ MaxOrders \in Nat
    BY AnomaliesAssumption DEF FindingsInv, AnomaliesTypeOK
  <1>4. \A i \in Recent : i \in 1..MaxOrders /\ i <= Len(placed)
    BY <1>3 DEF Recent
  <1>5. Nameable(keys)
    BY <1>2, <1>4 DEF Nameable, Keys, Subject, DailyKind
  <1>6. "spike" \notin {"value", "quantity"} /\ {"value", "quantity"} \in SUBSET AnomalyKind
    BY DEF AnomalyKind
  <1>7. \A i \in Recent : FarAbove(i) => <<"value", i>> \in keys
    OBVIOUS
  <1> QED
    BY <1>1, <1>5, <1>6, <1>7, RecordKeeps

LEMMA DailyKeyIsNameable ==
  ASSUME FindingsInv, NEW kind \in DailyKind
  PROVE  /\ DailyKey(kind) \in Keys /\ Subject(DailyKey(kind))
         /\ DailyKey(kind)[1] = kind /\ DailyKey(kind)[2] = UtcDay(time)
  <1>1. UtcDay(time) \in Days /\ UtcDay(time) \in Nat
    BY AnomalyDays DEF FindingsInv
  <1> QED
    BY <1>1 DEF DailyKey, Keys, Subject

LEMMA ScanChannelKeeps ==
  ASSUME FindingsInv, ScanChannel
  PROVE  FindingsInv'
  <1> PICK keys : keys = {k \in {DailyKey("spike")} : Spike} \cup {k \in {DailyKey("silent")} : Silent}
    OBVIOUS
  <1>1. Record({"spike", "silent"}, keys)
    BY DEF ScanChannel
  <1>2. /\ "spike" \in DailyKind /\ "silent" \in DailyKind
        /\ {"spike", "silent"} \in SUBSET AnomalyKind /\ "value" \notin {"spike", "silent"}
    BY DEF DailyKind, AnomalyKind
  <1>3. \A k \in keys : k = DailyKey("spike") \/ k = DailyKey("silent")
    OBVIOUS
  <1>4. Nameable(keys)
    BY <1>2, <1>3, DailyKeyIsNameable DEF Nameable
  <1>5. Spike => DailyKey("spike") \in keys /\ DailyKey("spike")[1] = "spike"
    BY <1>2, DailyKeyIsNameable
  <1> QED
    BY <1>1, <1>2, <1>4, <1>5, RecordKeeps

LEMMA ScanContactKeeps ==
  ASSUME FindingsInv, ScanContact
  PROVE  FindingsInv'
  <1> PICK keys : keys = {k \in {DailyKey("repeat")} : ManyOrders}
    OBVIOUS
  <1>1. Record({"repeat"}, keys)
    BY DEF ScanContact
  <1>2. /\ "repeat" \in DailyKind /\ {"repeat"} \in SUBSET AnomalyKind
        /\ "spike" \notin {"repeat"} /\ "value" \notin {"repeat"}
    BY DEF DailyKind, AnomalyKind
  <1>3. \A k \in keys : k = DailyKey("repeat")
    OBVIOUS
  <1>4. Nameable(keys)
    BY <1>2, <1>3, DailyKeyIsNameable DEF Nameable
  <1> QED
    BY <1>1, <1>2, <1>4, RecordKeeps

(* What happens leaves the findings, and nothing is known to be up to date.  *)
LEMMA HappeningKeeps ==
  ASSUME FindingsInv, UNCHANGED <<finding, decided, told>>, fresh' = {},
         time' \in 0..MaxTime, time <= time', placed' \in Seq(Purchases), Len(placed') <= MaxOrders,
         Len(placed) <= Len(placed'), arrived' \in [Days -> 0..MaxDaily]
  PROVE  FindingsInv'
  <1>1. AnomaliesTypeOK /\ FindingsToldOnce /\ ToldInTime
    BY DEF FindingsInv
  <1>2. time \in Nat /\ time' \in Nat /\ Today \in Nat /\ UtcDay(time) \in Nat /\ Len(placed) \in Nat /\ Len(placed') \in Nat
    BY <1>1, AnomalyDays, ClockAssumption DEF AnomaliesTypeOK
  <1>3. Today' \in Nat /\ Today <= Today' /\ UtcDay(time)' \in Nat /\ UtcDay(time) <= UtcDay(time)'
    BY <1>2, LaterDays, DayTypes DEF Today
  <1>4. \A k \in Keys : k[2] \in Nat
    <2> SUFFICES ASSUME NEW k \in Keys PROVE k[2] \in Nat
      OBVIOUS
    <2>1. k[2] \in 1..MaxOrders \/ k[2] \in Days
      BY DEF Keys
    <2>2. MaxOrders \in Nat
      BY AnomaliesAssumption
    <2> QED
      BY <2>1, <2>2, DaysAreNat
  <1>5. \A k \in Keys : Subject(k) => Subject(k)'
    BY <1>2, <1>3, <1>4 DEF Subject
  <1>6. AnomaliesTypeOK'
    BY <1>1, <1>5 DEF AnomaliesTypeOK
  <1>7. \A k \in DOMAIN told : told[k][1] \in Nat
    <2> SUFFICES ASSUME NEW k \in DOMAIN told PROVE told[k][1] \in Nat
      OBVIOUS
    <2>1. told[k] \in Seq(Days) /\ Len(told[k]) = 1
      BY <1>1 DEF AnomaliesTypeOK, FindingsToldOnce
    <2> PICK q : q = told[k]
      OBVIOUS
    <2>2. q[1] \in Days
      BY <2>1
    <2> QED
      BY <2>2, DaysAreNat
  <1>8. ToldInTime'
    BY <1>1, <1>2, <1>3, <1>7 DEF ToldInTime
  <1>9. FindingsToldOnce' /\ SpikeIsHeard' /\ LargeOrdersAreSeen'
    BY <1>1 DEF FindingsToldOnce, SpikeIsHeard, LargeOrdersAreSeen
  <1> QED
    BY <1>6, <1>8, <1>9 DEF FindingsInv

LEMMA PlaceOrderKeeps ==
  ASSUME FindingsInv, NEW units \in Sizes, PlaceOrder(units)
  PROVE  FindingsInv'
  <1>1. /\ placed \in Seq(Purchases) /\ time \in 0..MaxTime /\ arrived \in [Days -> 0..MaxDaily]
        /\ time \in Nat /\ MaxOrders \in Nat
    BY ClockAssumption, AnomaliesAssumption DEF FindingsInv, AnomaliesTypeOK
  <1> PICK o : o = [at |-> time, units |-> units, cancelled |-> FALSE]
    OBVIOUS
  <1>2. o \in Purchases
    BY <1>1 DEF Purchases
  <1>3. placed' = Append(placed, o)
    BY DEF PlaceOrder
  <1>4. placed' \in Seq(Purchases) /\ Len(placed') = Len(placed) + 1 /\ Len(placed) \in Nat
    BY <1>1, <1>2, <1>3
  <1> QED
    BY <1>1, <1>4, HappeningKeeps DEF PlaceOrder

LEMMA CancelPurchaseKeeps ==
  ASSUME FindingsInv, NEW i \in DOMAIN placed, CancelPurchase(i)
  PROVE  FindingsInv'
  <1>1. /\ placed \in Seq(Purchases) /\ Len(placed) <= MaxOrders /\ Len(placed) \in Nat /\ i \in 1..Len(placed)
        /\ time \in 0..MaxTime /\ time \in Nat /\ arrived \in [Days -> 0..MaxDaily]
    BY ClockAssumption DEF FindingsInv, AnomaliesTypeOK
  <1> PICK p : p = placed[i]
    OBVIOUS
  <1>2. p \in Purchases
    BY <1>1
  <1> PICK o : o = [p EXCEPT !.cancelled = TRUE]
    OBVIOUS
  <1>3. o \in Purchases
    BY <1>2 DEF Purchases
  <1>4. placed' = [placed EXCEPT ![i] = o]
    BY DEF CancelPurchase
  <1>5. placed' \in Seq(Purchases) /\ Len(placed') = Len(placed)
    BY <1>1, <1>3, <1>4, ExceptSeq
  <1> QED
    BY <1>1, <1>5, HappeningKeeps DEF CancelPurchase

LEMMA ArriveKeeps ==
  ASSUME FindingsInv, NEW n \in Arrivals, Arrive(n)
  PROVE  FindingsInv'
  <1>1. /\ placed \in Seq(Purchases) /\ Len(placed) <= MaxOrders /\ Len(placed) \in Nat
        /\ time \in 0..MaxTime /\ time \in Nat /\ arrived \in [Days -> 0..MaxDaily] /\ Today \in Days
    BY ClockAssumption, AnomalyDays DEF FindingsInv, AnomaliesTypeOK
  <1> PICK m : m = arrived[Today] + n
    OBVIOUS
  <1>2. m \in 0..MaxDaily
    BY <1>1, AnomaliesAssumption DEF Arrive
  <1>3. arrived' = [arrived EXCEPT ![Today] = m]
    BY DEF Arrive
  <1>4. arrived' \in [Days -> 0..MaxDaily]
    BY <1>1, <1>2, <1>3
  <1> QED
    BY <1>1, <1>4, HappeningKeeps DEF Arrive

LEMMA PassTimeKeeps ==
  ASSUME FindingsInv, PassTime
  PROVE  FindingsInv'
  <1>1. /\ placed \in Seq(Purchases) /\ Len(placed) <= MaxOrders /\ Len(placed) \in Nat
        /\ time \in 0..MaxTime /\ time \in Nat /\ arrived \in [Days -> 0..MaxDaily] /\ MaxTime \in Nat
    BY ClockAssumption DEF FindingsInv, AnomaliesTypeOK
  <1>2. time' \in 0..MaxTime /\ time <= time'
    BY <1>1 DEF PassTime, ClockTicks
  <1> QED
    BY <1>1, <1>2, HappeningKeeps DEF PassTime

LEMMA DecideKeeps ==
  ASSUME FindingsInv, NEW k \in finding, Decide(k)
  PROVE  FindingsInv'
  <1>1. UNCHANGED <<time, placed, arrived, finding, told, fresh>> /\ decided' \subseteq finding
    BY DEF Decide, FindingsInv, AnomaliesTypeOK
  <1> QED
    BY <1>1 DEF FindingsInv, AnomaliesTypeOK, Subject, FindingsToldOnce, ToldInTime, SpikeIsHeard, Today, Spike,
                Earlier, PerDay, LargeOrdersAreSeen, History, Recent

LEMMA AnomaliesStay ==
  ASSUME FindingsInv, UNCHANGED anomalyVars
  PROVE  FindingsInv'
  <1>1. UNCHANGED <<time, placed, arrived, finding, decided, told, fresh>>
    BY DEF anomalyVars
  <1> QED
    BY <1>1 DEF FindingsInv, AnomaliesTypeOK, Subject, FindingsToldOnce, ToldInTime, SpikeIsHeard, Today, Spike,
                Earlier, PerDay, LargeOrdersAreSeen, History, Recent

LEMMA AnomaliesBegin == AnomaliesInit => FindingsInv
  <1> SUFFICES ASSUME AnomaliesInit PROVE FindingsInv
    OBVIOUS
  <1>1. /\ time = 0 /\ placed = <<>> /\ fresh = {} /\ arrived = [d \in Days |-> 0]
        /\ finding = {} /\ decided = {} /\ told = <<>>
    BY DEF AnomaliesInit
  <1>2. DOMAIN told = {}
    BY <1>1
  <1>3. MaxOrders \in Nat /\ MaxDaily \in Nat /\ MaxTime \in Nat
    BY AnomaliesAssumption, ClockAssumption
  <1>4. AnomaliesTypeOK
    BY <1>1, <1>2, <1>3 DEF AnomaliesTypeOK
  <1> QED
    BY <1>1, <1>2, <1>4 DEF FindingsInv, FindingsToldOnce, ToldInTime, SpikeIsHeard, LargeOrdersAreSeen

LEMMA AnomaliesStep == FindingsInv /\ [AnomaliesNext]_anomalyVars => FindingsInv'
  <1> SUFFICES ASSUME FindingsInv, [AnomaliesNext]_anomalyVars PROVE FindingsInv'
    OBVIOUS
  <1>1. CASE ScanOrders \/ ScanChannel \/ ScanContact \/ PassTime
    BY <1>1, ScanOrdersKeeps, ScanChannelKeeps, ScanContactKeeps, PassTimeKeeps
  <1>2. ASSUME NEW k \in finding, Decide(k) PROVE FindingsInv'
    BY <1>2, DecideKeeps
  <1>3. ASSUME NEW units \in Sizes, PlaceOrder(units) PROVE FindingsInv'
    BY <1>3, PlaceOrderKeeps
  <1>4. ASSUME NEW i \in DOMAIN placed, CancelPurchase(i) PROVE FindingsInv'
    BY <1>4, CancelPurchaseKeeps
  <1>5. ASSUME NEW n \in Arrivals, Arrive(n) PROVE FindingsInv'
    BY <1>5, ArriveKeeps
  <1>6. CASE UNCHANGED anomalyVars
    BY <1>6, AnomaliesStay
  <1> QED
    BY <1>1, <1>2, <1>3, <1>4, <1>5, <1>6 DEF AnomaliesNext

(* On each day of Jakarta at most two spikes are told: the one named for it, *)
(* and the one named for the day before.                                     *)
LEMMA FewAreHeard ==
  ASSUME FindingsInv, NEW d \in Days
  PROVE  Cardinality({k \in DOMAIN told : k[1] = "spike" /\ \E n \in DOMAIN told[k] : told[k][n] = d}) <= 2
  <1> PICK S : S = {k \in DOMAIN told : k[1] = "spike" /\ \E n \in DOMAIN told[k] : told[k][n] = d}
    OBVIOUS
  <1> PICK both : both = {<<"spike", d>>} \cup {<<"spike", d - 1>>}
    OBVIOUS
  <1>1. d \in Nat /\ Days \subseteq Nat
    BY DaysAreNat
  <1>2. S \in SUBSET both
    <2> SUFFICES ASSUME NEW k \in S PROVE k \in both
      OBVIOUS
    <2>1. k \in Keys /\ k[1] = "spike" /\ told[k] \in Seq(Days) /\ Len(told[k]) = 1
      BY DEF FindingsInv, AnomaliesTypeOK, FindingsToldOnce
    <2>2. k = <<"spike", k[2]>> /\ k[2] \in Days
      BY <2>1 DEF Keys, DailyKind
    <2>3. told[k][1] = d
      BY <2>1
    <2>4. d \in k[2]..(k[2] + 1)
      BY <2>1, <2>3 DEF FindingsInv, ToldInTime
    <2> PICK e : e = k[2]
      OBVIOUS
    <2>5. e \in Nat /\ d \in e..(e + 1)
      BY <1>1, <2>2, <2>4
    <2>6. e = d \/ e = d - 1
      BY <1>1, <2>5
    <2> QED
      BY <2>2, <2>6
  <1>3. IsFiniteSet(both) /\ Cardinality(both) <= 2
    <2>1. IsFiniteSet({<<"spike", d>>}) /\ Cardinality({<<"spike", d>>}) = 1
      BY FS_Singleton
    <2>2. IsFiniteSet(both) /\ (Cardinality(both) = 1 \/ Cardinality(both) = 1 + 1)
      BY <2>1, FS_AddElement
    <2> QED
      BY <2>2
  <1>4. Cardinality(S) <= Cardinality(both) /\ Cardinality(S) \in Nat /\ Cardinality(both) \in Nat
    BY <1>2, <1>3, FS_Subset, FS_CardinalityType
  <1> QED
    BY <1>3, <1>4

(* Nobody is told of a finding twice, and of none that is not recorded; an   *)
(* order ten times as large as most before it that is looked for is told;    *)
(* so is a spike between 07:00 and 24:00 of Jakarta, no more than twice      *)
(* (scan).                                                                   *)
THEOREM FindingsCorrect == AnomaliesSpec => []FindingsHold
  <1>1. ASSUME FindingsInv PROVE FindingsHold
    <2>1. \A d \in Days : Cardinality({k \in DOMAIN told : k[1] = "spike" /\ \E n \in DOMAIN told[k] : told[k][n] = d}) <= 2
      BY <1>1, FewAreHeard
    <2>2. ASSUME "spike" \in fresh, UtcDay(time) = Today, Spike
          PROVE  {k \in DOMAIN told : k[1] = "spike" /\ \E n \in DOMAIN told[k] : told[k][n] = Today} # {}
      <3>1. PICK k \in DOMAIN told : k[1] = "spike" /\ told[k][1] = Today
        BY <1>1, <2>2 DEF FindingsInv, SpikeIsHeard
      <3>2. told[k] \in Seq(Days) /\ Len(told[k]) = 1
        BY <1>1 DEF FindingsInv, AnomaliesTypeOK, FindingsToldOnce
      <3> QED
        BY <3>1, <3>2
    <2>3. FindingsToldOnce /\ LargeOrdersAreSeen
      BY <1>1 DEF FindingsInv
    <2> QED
      BY <2>1, <2>2, <2>3 DEF SpikesAreTold, FindingsHold
  <1> QED
    BY <1>1, AnomaliesBegin, AnomaliesStep, PTL DEF AnomaliesSpec
=============================================================================
