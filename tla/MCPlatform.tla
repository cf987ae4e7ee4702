---------------------------- MODULE MCPlatform ----------------------------
(* Small instances for TLC of the parts around the flow of goods. *)
EXTENDS Platform

CONSTANTS a, b, u1, u2, w1, w2, monthly, c1, c2, c3

OneMonth == [o \in Offer |-> 1]

Kinds3 == [i \in Item |-> IF i \in {a, b} THEN "skus" ELSE IF i \in {u1, u2} THEN "users" ELSE "warehouses"]

OneOfEach == [k \in ItemKind |-> 1]

(* What a behaviour is about; the other parts stand still.  "billing" is one *)
(* plan and all that can happen to it, "checkouts" is about all plans, which *)
(* are bought and paid in a moment in which no time passes.  "sessions"      *)
(* is two requests, two tokens and all that can happen to an account,        *)
(* "revocations" is one request that revokes beside two that log in or       *)
(* refresh, and three tokens.  Items of several kinds do not affect one      *)
(* another.                                                                  *)
VARIABLE story

MCInit ==
  /\ BillingInit /\ SessionsInit /\ IdempotencyInit /\ ScanQueueInit /\ CatalogInit
  /\ story \in {"billing", "checkouts", "sessions", "revocations", "key", "scanner"} \cup ItemKind
  /\ story # "checkouts" => sub.offer = monthly

OfKind(kind) ==
  /\ \A i \in Item : KindOf[i] # kind => item'[i] = item[i]
  /\ \A e \in Editor : editor'[e].item \in {Noone} \cup {i \in Item : KindOf[i] = kind}
  /\ kind # "skus" => UNCHANGED job

OnePlan == {sub'.offer, holder'} \subseteq {monthly, Null}

TwoRequests == call'[c3] = Idle /\ token'[Tokens].state = "NONE"

Revocations ==
  /\ call'[c1].op \notin {"login", "refresh"}
  /\ \A c \in {c2, c3} : call'[c].op \in {"idle", "login", "refresh"}
  /\ wrong' = 0 /\ account'.active

MCNext ==
  /\ UNCHANGED story
  /\ \/ /\ story = "billing" /\ BillingNext /\ OnePlan
        /\ UNCHANGED <<sessionVars, idempotencyVars, scanVars, catalogVars>>
     \/ /\ story = "checkouts" /\ (TenantActs \/ PaymentActs)
        /\ UNCHANGED <<sessionVars, idempotencyVars, scanVars, catalogVars>>
     \/ /\ story \in {"sessions", "revocations"} /\ SessionsNext
        /\ IF story = "sessions" THEN TwoRequests ELSE Revocations
        /\ UNCHANGED <<billingVars, idempotencyVars, scanVars, catalogVars>>
     \/ /\ story = "key" /\ IdempotencyNext
        /\ UNCHANGED <<billingVars, sessionVars, scanVars, catalogVars>>
     \/ /\ story = "scanner" /\ ScanQueueNext
        /\ UNCHANGED <<billingVars, sessionVars, idempotencyVars, catalogVars>>
     \/ /\ story \in ItemKind /\ CatalogNext /\ OfKind(story)
        /\ UNCHANGED <<billingVars, sessionVars, idempotencyVars, scanVars>>

(* Fairness is about "billing" only: in the other stories the subscription,  *)
(* or its time, does not move, and no behaviour of theirs is fair.           *)
MCSpec == /\ MCInit
          /\ [][MCNext]_<<billingVars, sessionVars, idempotencyVars, scanVars, catalogVars, story>>
          /\ BillingFairness
=============================================================================
