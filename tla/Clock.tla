-------------------------------- MODULE Clock --------------------------------
(***************************************************************************)
(* The days of app/modules/ai: the code takes the day from UTC, but counts *)
(* sales by the days of the tenant, here those of Jakarta (UTC+7).  A UTC  *)
(* day has three times: until 12:00, until 17:00, when the day of Jakarta  *)
(* ends, and until 24:00.                                                  *)
(***************************************************************************)
EXTENDS Naturals

CONSTANT MaxTime  \* bound
VARIABLE time

ASSUME ClockAssumption == MaxTime \in Nat

UtcDay(t)   == t \div 3
LocalDay(t) == (t + 1) \div 3
Days        == 0..LocalDay(MaxTime)

ClockTicks == time < MaxTime /\ time' = time + 1
=============================================================================
