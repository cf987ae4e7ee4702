------------------------------- MODULE Platform -------------------------------
(***************************************************************************)
(* The parts around the flow of goods together: the subscription, the      *)
(* sessions of a user, an idempotency key, the scanner's queue and the     *)
(* master data.  They are tables and handlers of their own and share no    *)
(* state, so that the whole does what each of them does.                   *)
(***************************************************************************)
EXTENDS Billing, Sessions, Idempotency, ScanQueue, Catalog

PlatformSpec == BillingSpec /\ SessionsSpec /\ IdempotencySpec /\ ScanQueueSpec /\ CatalogSpec

(* The types of all parts: every row is one its table accepts, every request *)
(* one its handler accepts.                                                  *)
PlatformTypeOK == BillingTypeOK /\ SessionsTypeOK /\ IdempotencyTypeOK /\ ScanQueueTypeOK /\ CatalogTypeOK
=============================================================================
