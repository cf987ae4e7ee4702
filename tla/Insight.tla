------------------------------- MODULE Insight -------------------------------
(***************************************************************************)
(* Parcels and, beside them, what is learned from sales and parcels and    *)
(* the assistant: the AI job and its findings read the same clock and      *)
(* otherwise nothing the others write.                                     *)
(***************************************************************************)
EXTENDS Delivery, Anomalies, Forecast, Couriers, Assistant

InsightSpec == Spec /\ AnomaliesSpec /\ ForecastSpec /\ CouriersSpec /\ AssistantSpec

(* The types of all parts: every row is one its table accepts, every request *)
(* one its handler accepts.                                                  *)
InsightTypeOK == TypeOK /\ AnomaliesTypeOK /\ ForecastTypeOK /\ CouriersTypeOK /\ AssistantTypeOK
=============================================================================
