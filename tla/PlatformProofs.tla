---------------------------- MODULE PlatformProofs ----------------------------
(***************************************************************************)
(* Theorems about the parts of the platform, for every value of their      *)
(* constants, each by an inductive invariant of its own: Billing,          *)
(* Sessions, Idempotency, Catalog and ScanQueue share no state.            *)
(***************************************************************************)
EXTENDS Platform, TotalsProofs

-----------------------------------------------------------------------------
(***************************************************************************)
(* Billing, for any numbers of plans and invoices.                         *)
(***************************************************************************)

(* The dates of the subscription: a period may have passed, a trial and a   *)
(* grace end when they pass.                                                *)
Latest == MaxAhead + Trial + Grace

SubscriptionOK ==
  /\ sub \in Subscriptions
  /\ sub.trial = Null \/ sub.trial \in 0..Latest
  /\ sub.period = Null \/ sub.period \in (-Grace)..Latest
  /\ sub.grace = Null \/ sub.grace \in 0..Latest

(* Two open invoices are the same. *)
OpenAlone == \A i, j \in Invoice : invoice[i].status = "OPEN" /\ invoice[j].status = "OPEN" => i = j

(* An invoice that is there is of an offer, and it is open alone, or paid   *)
(* once.                                                                    *)
InvoicesOK ==
  /\ invoice \in [Invoice -> InvoiceRow]
  /\ extended \in [Invoice -> Nat]
  /\ \A i \in Invoice : invoice[i].status # "NONE" => invoice[i].offer \in Offer
  /\ OpenAlone
  /\ PaidOnce

PaymentsOK == settled \subseteq Invoice /\ paying \subseteq Invoice

CheckoutsOK == holder \in Offer \cup {Null}

BillingInv == SubscriptionOK /\ InvoicesOK /\ PaymentsOK /\ CheckoutsOK

LEMMA BillingAtFirst == BillingInit => BillingInv
  <1> SUFFICES ASSUME BillingInit PROVE BillingInv
    OBVIOUS
  <1>1. SubscriptionOK
    <2>1. PICK o \in Offer : sub = [status |-> "TRIALING", offer |-> o, trial |-> Trial, period |-> Null,
                                    grace |-> Null, cancel |-> FALSE]
      BY DEF BillingInit
    <2>2. Trial \in Date /\ Null \in Date /\ Trial \in 0..Latest
      BY BillingAssumption DEF Date, Latest
    <2> QED
      BY <2>1, <2>2 DEF SubscriptionOK, Subscriptions, Status
  <1>2. InvoicesOK
    <2>1. NoInvoice \in InvoiceRow /\ NoInvoice.status = "NONE"
      BY DEF NoInvoice, InvoiceRow, Kinds
    <2> QED
      BY <2>1 DEF BillingInit, InvoicesOK, OpenAlone, PaidOnce
  <1>3. PaymentsOK
    BY DEF BillingInit, PaymentsOK
  <1>4. CheckoutsOK
    BY DEF BillingInit, CheckoutsOK
  <1> QED
    BY <1>1, <1>2, <1>3, <1>4 DEF BillingInv

-----------------------------------------------------------------------------
(* What does not change stays right. *)
LEMMA SubscriptionAlone ==
  ASSUME SubscriptionOK, sub' = sub
  PROVE  SubscriptionOK'
  BY DEF SubscriptionOK, Latest

LEMMA InvoicesAlone ==
  ASSUME InvoicesOK, invoice' = invoice, extended' = extended
  PROVE  InvoicesOK'
  BY DEF InvoicesOK, OpenAlone, PaidOnce

LEMMA CheckoutsAlone ==
  ASSUME CheckoutsOK, holder' = holder
  PROVE  CheckoutsOK'
  BY DEF CheckoutsOK

(* The new invoice is one that was not there: the least one exists. *)
LEMMA NewInvoice ==
  ASSUME Unused # {}, NEW rows, NEW kind, NEW offer
  PROVE  \E i \in Unused : NextInvoice(rows, kind, offer)
                             = [rows EXCEPT ![i] = [status |-> "OPEN", kind |-> kind, offer |-> offer]]
  <1>1. Unused \in SUBSET Nat
    BY BillingAssumption DEF Unused, Invoice
  <1>2. \E j \in Unused : \A k \in Unused : j <= k
    BY <1>1, LeastExists
  <1> QED
    BY <1>2 DEF NextInvoice

(* Invoices of which none is open and none other is paid. *)
NoneOpen(rows) ==
  /\ rows \in [Invoice -> InvoiceRow]
  /\ \A j \in Invoice :
       /\ rows[j].status # "OPEN"
       /\ rows[j].status = "PAID" <=> invoice[j].status = "PAID"
       /\ rows[j].status # "NONE" => rows[j].offer \in Offer

(* What becomes of the invoices when one is added and none of the others is *)
(* open.                                                                    *)
LEMMA OneMoreInvoice ==
  ASSUME InvoicesOK, NEW rows, NoneOpen(rows), NEW i \in Unused,
         NEW kind \in Kinds, NEW offer \in Offer,
         invoice' = [rows EXCEPT ![i] = [status |-> "OPEN", kind |-> kind, offer |-> offer]],
         extended' = extended
  PROVE  InvoicesOK'
  <1> PICK r : r = [status |-> "OPEN", kind |-> kind, offer |-> offer]
    OBVIOUS
  <1>1. r \in InvoiceRow /\ r.status = "OPEN" /\ r.offer \in Offer
    BY DEF InvoiceRow
  <1>2. i \in Invoice /\ invoice[i].status = "NONE"
    BY DEF Unused
  <1>3. /\ invoice' \in [Invoice -> InvoiceRow]
        /\ invoice'[i] = r /\ \A j \in Invoice \ {i} : invoice'[j] = rows[j]
    BY <1>1, <1>2 DEF NoneOpen
  <1>4. OpenAlone'
    BY <1>3 DEF OpenAlone, NoneOpen
  <1>5. PaidOnce'
    BY <1>1, <1>2, <1>3 DEF InvoicesOK, PaidOnce, NoneOpen
  <1>6. \A j \in Invoice : invoice'[j].status # "NONE" => invoice'[j].offer \in Offer
    BY <1>1, <1>3 DEF NoneOpen
  <1> QED
    BY <1>3, <1>4, <1>5, <1>6 DEF InvoicesOK

(* What becomes of the invoices when one of them is closed. *)
LEMMA InvoiceClosed ==
  ASSUME InvoicesOK, NEW i \in Invoice, NEW status \in {"PAID", "EXPIRED"},
         invoice[i].status \in {"OPEN", "EXPIRED"},
         invoice' = [invoice EXCEPT ![i].status = status],
         extended' = IF status = "PAID" THEN [extended EXCEPT ![i] = @ + 1] ELSE extended
  PROVE  InvoicesOK'
  <1> PICK r : r = [invoice[i] EXCEPT !.status = status]
    OBVIOUS
  <1>1. invoice[i] \in InvoiceRow
    BY DEF InvoicesOK
  <1>2. r \in InvoiceRow /\ r.status = status /\ r.offer = invoice[i].offer
    BY <1>1 DEF InvoiceRow
  <1>3. invoice' = [invoice EXCEPT ![i] = r]
    OBVIOUS
  <1>4. /\ invoice' \in [Invoice -> InvoiceRow]
        /\ invoice'[i] = r /\ \A j \in Invoice \ {i} : invoice'[j] = invoice[j]
    BY <1>2, <1>3 DEF InvoicesOK
  <1>5. OpenAlone'
    BY <1>2, <1>4 DEF InvoicesOK, OpenAlone
  <1>6. extended' \in [Invoice -> Nat] /\ PaidOnce'
    <2>1. extended[i] = 0
      BY DEF InvoicesOK, PaidOnce
    <2>2. CASE status = "PAID"
      <3>1. extended' = [extended EXCEPT ![i] = 1]
        BY <2>1, <2>2
      <3> QED
        BY <1>2, <1>4, <2>2, <3>1 DEF InvoicesOK, PaidOnce
    <2>3. CASE status = "EXPIRED"
      BY <1>2, <1>4, <2>1, <2>3 DEF InvoicesOK, PaidOnce
    <2> QED
      BY <2>2, <2>3
  <1>7. \A j \in Invoice : invoice'[j].status # "NONE" => invoice'[j].offer \in Offer
    BY <1>2, <1>4 DEF InvoicesOK
  <1> QED
    BY <1>4, <1>5, <1>6, <1>7 DEF InvoicesOK

-----------------------------------------------------------------------------
LEMMA FinishCheckoutKeeps ==
  ASSUME BillingInv, FinishCheckout
  PROVE  InvoicesOK' /\ CheckoutsOK'
  <1> PICK offer : offer = holder
    OBVIOUS
  <1> PICK kind : kind = Kind(offer)
    OBVIOUS
  <1> PICK rows : rows = Replaced(invoice)
    OBVIOUS
  <1>1. /\ holder # Null /\ Unused # {}
        /\ invoice' = NextInvoice(rows, kind, offer)
        /\ holder' = Null /\ extended' = extended
    BY DEF FinishCheckout
  <1>2. kind \in Kinds /\ offer \in Offer
    BY <1>1 DEF BillingInv, CheckoutsOK, Kind, Kinds
  <1>3. NoneOpen(rows)
    <2>1. ASSUME NEW j \in Invoice
          PROVE  /\ rows[j] \in InvoiceRow
                 /\ rows[j].status # "OPEN"
                 /\ rows[j].status = "PAID" <=> invoice[j].status = "PAID"
                 /\ rows[j].status # "NONE" => rows[j].offer \in Offer
      <3>1. invoice[j] \in InvoiceRow /\ (invoice[j].status # "NONE" => invoice[j].offer \in Offer)
        BY DEF BillingInv, InvoicesOK
      <3>2. CASE invoice[j].status = "OPEN"
        <4> PICK r : r = [invoice[j] EXCEPT !.status = "VOID"]
          OBVIOUS
        <4>1. r \in InvoiceRow /\ r.status = "VOID" /\ r.offer = invoice[j].offer
          BY <3>1 DEF InvoiceRow
        <4>2. rows[j] = r
          BY <3>2 DEF Replaced
        <4> QED
          BY <3>1, <3>2, <4>1, <4>2
      <3>3. CASE invoice[j].status # "OPEN"
        <4>1. rows[j] = invoice[j]
          BY <3>3 DEF Replaced
        <4> QED
          BY <3>1, <3>3, <4>1
      <3> QED
        BY <3>2, <3>3
    <2> QED
      BY <2>1 DEF Replaced, NoneOpen
  <1>4. PICK i \in Unused : invoice' = [rows EXCEPT ![i] = [status |-> "OPEN", kind |-> kind, offer |-> offer]]
    BY <1>1, NewInvoice
  <1>5. InvoicesOK'
    <2>1. InvoicesOK
      BY DEF BillingInv
    <2>2. /\ i \in Unused /\ extended' = extended
          /\ invoice' = [rows EXCEPT ![i] = [status |-> "OPEN", kind |-> kind, offer |-> offer]]
      BY <1>1, <1>4
    <2> QED
      BY ONLY <1>2, <1>3, <2>1, <2>2, OneMoreInvoice
  <1> QED
    BY <1>1, <1>5 DEF CheckoutsOK

LEMMA SetCancelKeeps ==
  ASSUME SubscriptionOK, NEW cancel \in BOOLEAN, SetCancel(cancel)
  PROVE  SubscriptionOK'
  BY DEF SetCancel, SubscriptionOK, Subscriptions, Latest

-----------------------------------------------------------------------------
LEMMA ApplyPaymentKeeps ==
  ASSUME SubscriptionOK, InvoicesOK, PaymentsOK, NEW i \in Invoice, ApplyPayment(i)
  PROVE  SubscriptionOK' /\ InvoicesOK'
  <1> PICK start : start = StartOfPeriod(invoice[i])
    OBVIOUS
  <1> PICK months : months = Months[invoice[i].offer]
    OBVIOUS
  <1> PICK until : until = start + months
    OBVIOUS
  <1>1. invoice[i].status \in {"OPEN", "EXPIRED"}
    BY DEF ApplyPayment, Payable
  <1>2. /\ invoice[i].offer \in Offer /\ months \in Nat
    BY <1>1, BillingAssumption DEF InvoicesOK
  <1>3. start \in Nat
    BY BillingAssumption DEF StartOfPeriod, Passed, SubscriptionOK, Latest
  <1>4. /\ until <= MaxAhead
        /\ invoice' = [invoice EXCEPT ![i].status = "PAID"]
        /\ sub' = [sub EXCEPT !.status = "ACTIVE", !.offer = invoice[i].offer, !.period = until,
                              !.grace = Null, !.cancel = FALSE]
        /\ extended' = [extended EXCEPT ![i] = @ + 1]
    BY DEF ApplyPayment
  <1>5. until \in 0..Latest
    BY <1>2, <1>3, <1>4, BillingAssumption DEF Latest
  <1>6. SubscriptionOK'
    <2>1. until \in (-Grace)..Latest /\ until \in Date /\ Null \in Date
      BY <1>5, BillingAssumption DEF Latest, Date
    <2> QED
      BY <1>2, <1>4, <2>1 DEF SubscriptionOK, Subscriptions, Status, Latest
  <1>7. InvoicesOK'
    BY <1>1, <1>4, InvoiceClosed
  <1> QED
    BY <1>6, <1>7

LEMMA NotifyFailedKeeps ==
  ASSUME InvoicesOK, NEW i \in Invoice, NotifyFailed(i)
  PROVE  InvoicesOK'
  BY InvoiceClosed DEF NotifyFailed

LEMMA OverrideKeeps ==
  ASSUME SubscriptionOK, NEW status \in {sub.status} \cup OverrideTo, NEW offer \in Offer,
         NEW trial \in {sub.trial, Trial}, NEW period \in {sub.period, 1},
         Override(status, offer, trial, period)
  PROVE  SubscriptionOK'
  <1> PICK grace : grace = IF status = "ACTIVE" THEN Null ELSE sub.grace
    OBVIOUS
  <1>1. sub' = [sub EXCEPT !.status = status, !.offer = offer, !.trial = trial, !.period = period,
                           !.grace = grace]
    BY DEF Override
  <1>2. /\ status \in Status
        /\ sub.trial \in Date /\ sub.period \in Date /\ sub.grace \in Date
    BY BillingAssumption DEF SubscriptionOK, Subscriptions
  <1>3. /\ trial \in Date /\ (trial = Null \/ trial \in 0..Latest)
    BY <1>2, BillingAssumption DEF SubscriptionOK, Date, Latest
  <1>4. /\ period \in Date /\ (period = Null \/ period \in (-Grace)..Latest)
    BY <1>2, BillingAssumption DEF SubscriptionOK, Date, Latest
  <1>5. /\ grace \in Date /\ (grace = Null \/ grace \in 0..Latest)
    BY <1>2 DEF SubscriptionOK, Date
  <1> QED
    BY <1>1, <1>2, <1>3, <1>4, <1>5 DEF SubscriptionOK, Subscriptions, Latest

(* What the job makes of a subscription. *)
LEMMA AfterDeadlineTypes ==
  ASSUME SubscriptionOK, sub' = AfterDeadline
  PROVE  SubscriptionOK'
  <1>1. sub.grace \in Date /\ Grace \in Date /\ Grace \in 0..Latest
    BY BillingAssumption DEF SubscriptionOK, Subscriptions, Date, Latest
  <1>2. CASE sub' = [sub EXCEPT !.status = "PAST_DUE", !.grace = Grace]
    BY <1>1, <1>2 DEF SubscriptionOK, Subscriptions, Status, Latest
  <1>3. CASE sub' = Ended
    BY <1>3 DEF Ended, SubscriptionOK, Subscriptions, Status, Latest
  <1>4. CASE PeriodOver /\ sub' = [sub EXCEPT !.status = "PAST_DUE", !.grace = sub.period + Grace]
    <2> PICK grace : grace = sub.period + Grace
      OBVIOUS
    <2>1. grace \in Date /\ grace \in 0..Latest
      BY <1>4, BillingAssumption DEF PeriodOver, Passed, SubscriptionOK, Date, Latest
    <2>2. sub' = [sub EXCEPT !.status = "PAST_DUE", !.grace = grace]
      BY <1>4
    <2> QED
      BY <2>1, <2>2 DEF SubscriptionOK, Subscriptions, Status, Latest
  <1>5. CASE sub' = [sub EXCEPT !.status = "SUSPENDED"]
    BY <1>5 DEF SubscriptionOK, Subscriptions, Status, Latest
  <1>6. CASE sub' = sub
    BY <1>6, SubscriptionAlone
  <1> QED
    BY <1>2, <1>3, <1>4, <1>5, <1>6 DEF AfterDeadline

LEMMA LifecycleKeeps ==
  ASSUME SubscriptionOK, InvoicesOK, Lifecycle
  PROVE  SubscriptionOK' /\ InvoicesOK'
  <1> PICK bill \in BOOLEAN : bill = (RenewalDue(AfterDeadline) /\ Open = {} /\ Unused # {})
    OBVIOUS
  <1> PICK offer : offer = sub.offer
    OBVIOUS
  <1>1. /\ sub' = AfterDeadline
        /\ invoice' = IF bill THEN NextInvoice(invoice, "RENEWAL", offer) ELSE invoice
        /\ extended' = extended
    BY DEF Lifecycle
  <1>2. SubscriptionOK'
    BY <1>1, AfterDeadlineTypes
  <1>3. CASE bill
    <2>1. NoneOpen(invoice)
      BY <1>3 DEF NoneOpen, Open, InvoicesOK
    <2>2. Unused # {}
      BY <1>3
    <2>3. PICK i \in Unused :
            invoice' = [invoice EXCEPT ![i] = [status |-> "OPEN", kind |-> "RENEWAL", offer |-> offer]]
      <3>1. PICK i \in Unused : NextInvoice(invoice, "RENEWAL", offer)
              = [invoice EXCEPT ![i] = [status |-> "OPEN", kind |-> "RENEWAL", offer |-> offer]]
        BY <2>2, NewInvoice
      <3>2. invoice' = NextInvoice(invoice, "RENEWAL", offer)
        BY <1>1, <1>3
      <3> QED
        BY <3>1, <3>2
    <2>4. "RENEWAL" \in Kinds /\ offer \in Offer
      BY DEF Kinds, SubscriptionOK, Subscriptions
    <2>5. InvoicesOK'
      BY <1>1, <2>1, <2>3, <2>4, OneMoreInvoice
    <2> QED
      BY <1>2, <2>5
  <1>4. CASE ~bill
    <2>1. InvoicesOK'
      BY <1>1, <1>4, InvoicesAlone
    <2> QED
      BY <1>2, <2>1
  <1> QED
    BY <1>3, <1>4

LEMMA TickKeeps ==
  ASSUME SubscriptionOK, Tick
  PROVE  SubscriptionOK'
  <1> PICK trial : trial = Later(sub.trial, 0)
    OBVIOUS
  <1> PICK period : period = Later(sub.period, -Grace)
    OBVIOUS
  <1> PICK grace : grace = Later(sub.grace, 0)
    OBVIOUS
  <1>1. sub' = [sub EXCEPT !.trial = trial, !.period = period, !.grace = grace]
    BY DEF Tick
  <1>2. Latest \in Nat /\ Grace \in Nat
    BY BillingAssumption DEF Latest
  <1>3. trial \in Date /\ (trial = Null \/ trial \in 0..Latest)
    BY <1>2 DEF Later, SubscriptionOK, Date
  <1>4. period \in Date /\ (period = Null \/ period \in (-Grace)..Latest)
    BY <1>2 DEF Later, SubscriptionOK, Date
  <1>5. grace \in Date /\ (grace = Null \/ grace \in 0..Latest)
    BY <1>2 DEF Later, SubscriptionOK, Date
  <1> QED
    BY <1>1, <1>3, <1>4, <1>5 DEF SubscriptionOK, Subscriptions, Latest

LEMMA BillingSteps == BillingInv /\ [BillingNext]_billingVars => BillingInv'
  <1> SUFFICES ASSUME BillingInv, [BillingNext]_billingVars PROVE BillingInv'
    OBVIOUS
  <1>0. SubscriptionOK /\ InvoicesOK /\ PaymentsOK /\ CheckoutsOK
    BY DEF BillingInv
  <1>1. ASSUME NEW o \in Offer, LockForCheckout(o) PROVE BillingInv'
    BY <1>0, <1>1, SubscriptionAlone, InvoicesAlone
       DEF LockForCheckout, BillingInv, PaymentsOK, CheckoutsOK
  <1>2. CASE FinishCheckout
    BY <1>0, <1>2, FinishCheckoutKeeps, SubscriptionAlone
       DEF FinishCheckout, BillingInv, PaymentsOK
  <1>3. CASE LeaveCheckout
    BY <1>0, <1>3, SubscriptionAlone, InvoicesAlone
       DEF LeaveCheckout, BillingInv, PaymentsOK, CheckoutsOK
  <1>4. ASSUME NEW cancel \in BOOLEAN, SetCancel(cancel) PROVE BillingInv'
    BY <1>0, <1>4, SetCancelKeeps, InvoicesAlone, CheckoutsAlone
       DEF SetCancel, BillingInv, PaymentsOK
  <1>7. ASSUME NEW i \in Invoice, Settle(i) \/ BeginPayment(i) \/ LeavePayment(i) PROVE BillingInv'
    BY <1>0, <1>7, SubscriptionAlone, InvoicesAlone, CheckoutsAlone
       DEF Settle, BeginPayment, LeavePayment, BillingInv, PaymentsOK
  <1>8. ASSUME NEW i \in Invoice, NotifyFailed(i) PROVE BillingInv'
    BY <1>0, <1>8, NotifyFailedKeeps, SubscriptionAlone, CheckoutsAlone
       DEF NotifyFailed, BillingInv, PaymentsOK
  <1>9. ASSUME NEW i \in Invoice, ApplyPayment(i) PROVE BillingInv'
    BY <1>0, <1>9, ApplyPaymentKeeps, CheckoutsAlone
       DEF ApplyPayment, BillingInv, PaymentsOK
  <1>10. ASSUME NEW status \in {sub.status} \cup OverrideTo, NEW offer \in Offer,
                NEW trial \in {sub.trial, Trial}, NEW period \in {sub.period, 1},
                Override(status, offer, trial, period)
         PROVE  BillingInv'
    <2>1. SubscriptionOK'
      BY <1>0, <1>10, OverrideKeeps
    <2> QED
      BY <1>0, <1>10, <2>1, InvoicesAlone, CheckoutsAlone DEF Override, BillingInv, PaymentsOK
  <1>11. CASE Lifecycle
    BY <1>0, <1>11, LifecycleKeeps, CheckoutsAlone DEF Lifecycle, BillingInv, PaymentsOK
  <1>12. CASE Tick
    BY <1>0, <1>12, TickKeeps, InvoicesAlone, CheckoutsAlone DEF Tick, BillingInv, PaymentsOK
  <1>13. CASE UNCHANGED billingVars
    BY <1>0, <1>13, SubscriptionAlone, InvoicesAlone, CheckoutsAlone
       DEF billingVars, BillingInv, PaymentsOK
  <1>14. CASE TenantActs
    BY <1>1, <1>2, <1>3, <1>4, <1>14 DEF TenantActs
  <1>15. CASE PaymentActs
    BY <1>7, <1>8, <1>9, <1>15 DEF PaymentActs
  <1>16. CASE OperatorActs
    BY <1>10, <1>16 DEF OperatorActs
  <1> QED
    BY <1>11, <1>12, <1>13, <1>14, <1>15, <1>16 DEF BillingNext

(***************************************************************************)
(* Every subscription, invoice and checkout of a tenant has its type, and  *)
(* no date runs away (checkout, apply_payment, override_subscription,      *)
(* run_lifecycle).                                                         *)
(***************************************************************************)
THEOREM BillingTypes == BillingSpec => []BillingTypeOK
  <1>1. BillingInv => BillingTypeOK
    <2> SUFFICES ASSUME BillingInv PROVE BillingTypeOK
      OBVIOUS
    <2>1. \A d \in {sub.trial, sub.period, sub.grace} :
            d = Null \/ d \in (-Grace)..(MaxAhead + Trial + Grace)
      BY BillingAssumption DEF BillingInv, SubscriptionOK, Latest
    <2> QED
      BY <2>1 DEF BillingInv, SubscriptionOK, InvoicesOK, PaymentsOK, CheckoutsOK, BillingTypeOK
  <1> QED
    BY <1>1, BillingAtFirst, BillingSteps, PTL DEF BillingSpec

(***************************************************************************)
(* One bill at a time, and each extends the subscription once: whatever    *)
(* checkouts, renewals and reports of payments come together (checkout,    *)
(* run_lifecycle, apply_payment).                                          *)
(***************************************************************************)
THEOREM InvoicesCorrect == BillingSpec => []InvoicesHold
  <1>1. OpenAlone => OneOpenInvoice
    <2> SUFFICES ASSUME OpenAlone PROVE OneOpenInvoice
      OBVIOUS
    <2>1. CASE Open = {}
      BY <2>1, FS_EmptySet DEF OneOpenInvoice
    <2>2. CASE Open # {}
      <3>1. PICK i : i \in Open
        BY <2>2
      <3>2. Open = {i}
        BY <3>1 DEF OpenAlone, Open
      <3> QED
        BY <3>2, FS_Singleton DEF OneOpenInvoice
    <2> QED
      BY <2>1, <2>2
  <1>2. BillingInv => InvoicesHold
    BY <1>1 DEF BillingInv, InvoicesOK, InvoicesHold
  <1> QED
    BY <1>2, BillingAtFirst, BillingSteps, PTL DEF BillingSpec

-----------------------------------------------------------------------------
(***************************************************************************)
(* Sessions, for any number of requests and tokens: what an UPDATE has     *)
(* found, and what a refresh or a login holds while it runs.               *)
(***************************************************************************)

Shape == [op : Ops, token : Token \cup {0}, seen : Nat, known : SUBSET Nat,
          off : BOOLEAN, targets : SUBSET Token, caught : SUBSET Token, covers : SUBSET Token]

Row == [active : BOOLEAN, version : Nat, failed : Nat, locked : BOOLEAN]

Typed ==
  /\ account \in Row
  /\ token \in [Token -> TokenRow]
  /\ call \in [Caller -> Shape]
  /\ access \subseteq Nat /\ over \subseteq Nat /\ ended \subseteq Token
  /\ overlapped \in BOOLEAN
  /\ wrong \in Nat

Issue(t) == token[t].state # "NONE"

(* A family is named after a token that was issued. *)
FamiliesIssued ==
  /\ \A t \in Token : Issue(t) => Issue(token[t].family)
  /\ \A f \in ended : Issue(f)

(* A refresh holds a good token, alone. *)
RefreshHolds ==
  \A c \in Caller : call[c].op = "refresh" =>
    /\ call[c].token \in Live
    /\ \A d \in Caller : call[d].op = "refresh" /\ call[d].token = call[c].token => d = c

(* What an UPDATE has reached is good, and its own.                          *)
CaughtOK ==
  \A c \in Caller : \A t \in call[c].caught :
    /\ t \in Live /\ ~HeldByRefresh(t)
    /\ \A d \in Caller \ {c} : t \notin call[d].caught

(* A token that an UPDATE has found and will pass over when it reaches it.   *)
Doomed(c, f) == \E u \in call[c].targets : u \notin Live /\ token[u].family = f

(* Of a family it covers an UPDATE has every good token, or one to come by   *)
(* which it will learn that it has not.                                      *)
FoundAll ==
  \A c \in Caller :
    /\ \A f \in call[c].covers \cup call[c].targets : Issue(f)
    /\ \A t \in Live : token[t].family \in call[c].covers =>
         t \in call[c].targets \cup call[c].caught \/ Doomed(c, token[t].family)

TokensInv == FamiliesIssued /\ RefreshHolds /\ CaughtOK /\ FoundAll /\ OneLivePerFamily /\ EndedStaysEnded

(* Until two revocations overlap the version only rises: a revocation under  *)
(* way has read the present one, and nothing was issued under a later one.   *)
Revokes(c) == call[c].op \in {"logoutAll", "deactivate", "revokingAll"}

VersionsInv == ~overlapped =>
  /\ \A v \in over : v < account.version
  /\ \A v \in access : v <= account.version
  /\ \A c \in Caller : call[c].op = "refresh" => call[c].seen <= account.version
  /\ \A c \in Caller : Revokes(c) => /\ call[c].seen = account.version
                                     /\ \A v \in call[c].known : v <= account.version

(* A login holds the account as it has read it. *)
AttemptsInv ==
  /\ account.failed = wrong /\ wrong < MaxFailed
  /\ account.locked => wrong = 0
  /\ \A c \in Caller : call[c].op = "login" => accountLock = c /\ call[c].seen = account.failed

Sound == Typed /\ TokensInv /\ VersionsInv /\ AttemptsInv

-----------------------------------------------------------------------------
LEMMA IdleShape == /\ Idle \in Shape
                   /\ Idle.op = "idle" /\ Idle.covers = {} /\ Idle.targets = {} /\ Idle.caught = {}
  BY DEF Idle, Shape, Ops

(* The next token is one that was not issued. *)
LEMMA NextIsNew ==
  ASSUME Unissued # {}
  PROVE  NextToken \in Token /\ ~Issue(NextToken)
  BY DEF NextToken, Unissued, Issue

(* A request at its beginning. *)
LEMMA RequestShape ==
  ASSUME NEW op \in Ops, NEW t \in Token \cup {0}, NEW seen \in Nat, NEW known \in SUBSET Nat, NEW off \in BOOLEAN
  PROVE  [Idle EXCEPT !.op = op, !.token = t, !.seen = seen, !.known = known, !.off = off] \in Shape
  BY DEF Idle, Shape

(* The types hold after every step. *)
LEMMA TypedKept ==
  ASSUME Typed, RefreshHolds, [SessionsNext]_sessionVars
  PROVE  Typed'
  <1> USE DEF Typed
  <1>1. CASE UNCHANGED sessionVars
    BY <1>1 DEF sessionVars
  <1>2. CASE LockoutEnds \/ Activate
    BY <1>2 DEF LockoutEnds, Activate, Row
  <1>3. ASSUME NEW c \in Caller, Leave(c)
        PROVE  call' \in [Caller -> Shape]
    BY <1>3, IdleShape DEF Leave
  <1>4. ASSUME NEW c \in Caller, BeginLogin(c) \/ BeginLogoutAll(c) \/ BeginDeactivate(c)
        PROVE  Typed'
    <2>1. account.version \in Nat /\ account.failed \in Nat
      BY DEF Row
    <2>2. CASE BeginLogin(c)
      <3>1. [Idle EXCEPT !.op = "login", !.seen = account.failed] \in Shape
        BY <2>1, IdleShape DEF Idle, Shape, Ops
      <3> QED
        BY <3>1, <2>2 DEF BeginLogin
    <2>3. CASE BeginLogoutAll(c)
      <3>1. [Idle EXCEPT !.op = "logoutAll", !.seen = account.version, !.known = access] \in Shape
        BY <2>1, IdleShape DEF Idle, Shape, Ops
      <3> QED
        BY <3>1, <2>3 DEF BeginLogoutAll
    <2>4. CASE BeginDeactivate(c)
      <3>1. [Idle EXCEPT !.op = "deactivate", !.seen = account.version, !.known = access, !.off = TRUE] \in Shape
        BY <2>1, IdleShape DEF Idle, Shape, Ops
      <3> QED
        BY <3>1, <2>4 DEF BeginDeactivate
    <2> QED
      BY <1>4, <2>2, <2>3, <2>4
  <1>5. ASSUME NEW c \in Caller, WrongPassword(c)
        PROVE  Typed'
    <2>1. call[c].seen \in Nat
      BY DEF Shape
    <2>2. account' \in Row
      <3>1. account' = Failed(call[c].seen)
        BY <1>5 DEF WrongPassword
      <3>2. [account EXCEPT !.failed = 0, !.locked = TRUE] \in Row
        BY DEF Row
      <3>3. [account EXCEPT !.failed = call[c].seen + 1] \in Row
        BY <2>1 DEF Row
      <3> QED
        BY <3>1, <3>2, <3>3 DEF Failed
    <2>3. wrong' \in Nat
      BY <1>5 DEF WrongPassword
    <2> QED
      BY <1>3, <1>5, <2>2, <2>3 DEF WrongPassword
  <1>6. ASSUME NEW c \in Caller, Login(c)
        PROVE  Typed'
    <2>1. token' \in [Token -> TokenRow]
      BY <1>6, NextIsNew DEF Login, Issued, TokenRow
    <2>2. account' \in Row /\ access' \subseteq Nat /\ wrong' \in Nat
      BY <1>6 DEF Login, Row
    <2> QED
      BY <1>3, <1>6, <2>1, <2>2 DEF Login
  <1>7. ASSUME NEW c \in Caller, Refresh(c)
        PROVE  Typed'
    <2>1. token' \in [Token -> TokenRow]
      <3> DEFINE old == call[c].token
      <3>1. NextToken \in Token /\ token' = Successor(old, NextToken)
        BY <1>7, NextIsNew DEF Refresh
      <3>2. [state |-> "LIVE", family |-> token[old].family] \in TokenRow
        BY <1>7 DEF Refresh, RefreshHolds, Live, TokenRow
      <3> QED
        BY <3>1, <3>2 DEF Successor, TokenRow
    <2>2. access' \subseteq Nat
      BY <1>7 DEF Refresh, Shape
    <2> QED
      BY <1>3, <1>7, <2>1, <2>2 DEF Refresh
  <1>8. ASSUME NEW c \in Caller, Abandon(c)
        PROVE  Typed'
    BY <1>3, <1>8 DEF Abandon
  <1>9. ASSUME NEW c \in Caller, NEW found \in SUBSET Token
        PROVE  Revoked(found) \in [Token -> TokenRow]
    BY DEF Revoked, TokenRow
  <1>10. ASSUME NEW c \in Caller, Revoke(c)
         PROVE  Typed'
    <2>1. call[c].caught \in SUBSET Token /\ call[c].covers \in SUBSET Token
      BY DEF Shape
    <2> QED
      BY <1>3, <1>9, <1>10, <2>1 DEF Revoke
  <1>11. ASSUME NEW c \in Caller, RevokeAll(c)
         PROVE  Typed'
    <2>1. /\ call[c].caught \in SUBSET Token /\ call[c].covers \in SUBSET Token
          /\ call[c].known \in SUBSET Nat /\ call[c].seen \in Nat /\ call[c].off \in BOOLEAN
      BY DEF Shape
    <2>2. account' \in Row
      <3>1. account' = [account EXCEPT !.version = call[c].seen + 1, !.active = @ /\ ~call[c].off]
        BY <1>11 DEF RevokeAll, Raised
      <3>2. call[c].seen + 1 \in Nat
        BY <2>1
      <3>3. (account.active /\ ~call[c].off) \in BOOLEAN
        OBVIOUS
      <3> QED
        BY <3>1, <3>2, <3>3, Zenon DEF Row
    <2>3. overlapped' \in BOOLEAN
      BY <1>11 DEF RevokeAll, Overlaps
    <2> QED
      BY <1>3, <1>9, <1>11, <2>1, <2>2, <2>3 DEF RevokeAll
  <1>12. ASSUME NEW c \in Caller, NEW op \in Ops, NEW families \in SUBSET Token, Find(c, op, families)
         PROVE  call' \in [Caller -> Shape]
    <2> DEFINE found == {t \in Live : token[t].family \in families}
    <2>1. call' = [call EXCEPT ![c] = [@ EXCEPT !.op = op, !.caught = {}, !.covers = families, !.targets = found]]
      BY <1>12 DEF Find
    <2>2. found \in SUBSET Token
      BY DEF Live
    <2> HIDE DEF found
    <2>3. [call[c] EXCEPT !.op = op, !.caught = {}, !.covers = families, !.targets = found] \in Shape
      BY <2>2 DEF Shape
    <2> QED
      BY <2>1, <2>3
  <1>13. ASSUME NEW c \in Caller, FindAll(c)
         PROVE  Typed'
    <2>1. {token[t].family : t \in Token \ Unissued} \in SUBSET Token
      BY DEF TokenRow
    <2>2. Find(c, "revokingAll", {token[t].family : t \in Token \ Unissued})
      BY <1>13 DEF FindAll
    <2>3. call' \in [Caller -> Shape]
      BY <1>12, <2>1, <2>2 DEF Ops
    <2> QED
      BY <1>13, <2>3 DEF FindAll
  <1>14. ASSUME NEW c \in Caller, NEW t \in Token, BeginRevoke(c, t)
         PROVE  Typed'
    <2>1. {token[t].family} \in SUBSET Token
      BY DEF TokenRow
    <2>2. call' \in [Caller -> Shape]
      BY <1>12, <1>14, <2>1 DEF BeginRevoke, Ops
    <2> QED
      BY <1>14, <2>2 DEF BeginRevoke
  <1>15. ASSUME NEW c \in Caller, NEW t \in Token, BeginRefresh(c, t)
         PROVE  Typed'
    <2>1. [Idle EXCEPT !.op = "refresh", !.token = t, !.seen = account.version] \in Shape
      BY IdleShape DEF Idle, Shape, Ops, Row
    <2> QED
      BY <1>15, <2>1 DEF BeginRefresh
  <1>16. ASSUME NEW c \in Caller, NEW t \in Token, Catch(c, t) \/ Miss(c, t)
         PROVE  Typed'
    <2>1. call[c] \in Shape
      OBVIOUS
    <2>2. CASE Catch(c, t)
      <3>1. [call[c] EXCEPT !.targets = @ \ {t}, !.caught = @ \cup {t}] \in Shape
        BY <2>1 DEF Shape
      <3>2. call' = [call EXCEPT ![c] = [call[c] EXCEPT !.targets = @ \ {t}, !.caught = @ \cup {t}]]
        BY <2>2 DEF Catch
      <3> QED
        BY <2>2, <3>1, <3>2 DEF Catch
    <2>3. CASE Miss(c, t)
      <3>1. [call[c] EXCEPT !.targets = @ \ {t}, !.covers = @ \ {token[t].family}] \in Shape
        BY <2>1 DEF Shape
      <3>2. call' = [call EXCEPT ![c] = [call[c] EXCEPT !.targets = @ \ {t}, !.covers = @ \ {token[t].family}]]
        BY <2>3 DEF Miss
      <3> QED
        BY <2>3, <3>1, <3>2 DEF Miss
    <2> QED
      BY <1>16, <2>2, <2>3
  <1> QED
    BY <1>1, <1>2, <1>4, <1>5, <1>6, <1>7, <1>8, <1>10, <1>11, <1>13, <1>14, <1>15, <1>16 DEF SessionsNext

-----------------------------------------------------------------------------
(* A request that begins or ends and changes no token. *)
LEMMA QuietKeepsTokens ==
  ASSUME Typed, TokensInv, NEW c \in Caller, NEW q \in Shape,
         q.op # "refresh", q.covers = {}, q.targets = {}, q.caught = {},
         call' = [call EXCEPT ![c] = q], token' = token, ended' = ended
  PROVE  TokensInv'
  <1>1. \A d \in Caller : call'[d] = IF d = c THEN q ELSE call[d]
    BY DEF Typed
  <1>2. FamiliesIssued' /\ OneLivePerFamily' /\ EndedStaysEnded'
    BY DEF TokensInv, FamiliesIssued, OneLivePerFamily, EndedStaysEnded, Live, Issue
  <1>3. RefreshHolds'
    BY <1>1 DEF TokensInv, RefreshHolds, Live
  <1>4. FoundAll'
    BY <1>1 DEF TokensInv, FoundAll, Doomed, Live, Issue
  <1>5. CaughtOK'
    BY <1>1 DEF TokensInv, CaughtOK, HeldByRefresh, Live
  <1> QED
    BY <1>2, <1>3, <1>4, <1>5 DEF TokensInv

(* A login begins a family of its own. *)
LEMMA LoginKeepsTokens ==
  ASSUME Typed, TokensInv, NEW c \in Caller, Login(c)
  PROVE  TokensInv'
  <1> PICK n : n = NextToken
    OBVIOUS
  <1> PICK r : r = [state |-> "LIVE", family |-> n]
    OBVIOUS
  <1>1. n \in Token /\ ~Issue(n)
    BY NextIsNew DEF Login
  <1>2. \A t \in Token : token'[t] = IF t = n THEN r ELSE token[t]
    BY <1>1 DEF Login, Issued, Typed
  <1>3. r.state = "LIVE" /\ r.family = n
    OBVIOUS
  <1>4. ended' = ended /\ call' = [call EXCEPT ![c] = Idle]
    BY DEF Login, Leave
  <1>5. \A d \in Caller : call'[d] = IF d = c THEN Idle ELSE call[d]
    BY <1>4 DEF Typed
  <1>6. \A t \in Token : token[t].family \in Token
    BY DEF Typed, TokenRow
  <1>7. Live' = Live \cup {n}
    BY <1>1, <1>2, <1>3 DEF Live
  <1>8. \A t \in Live : t \in Token /\ t # n /\ Issue(t) /\ token'[t] = token[t] /\ token[t].family # n
    BY <1>1, <1>2 DEF Live, Issue, TokensInv, FamiliesIssued
  <1>9. \A t \in Token : Issue(t) => Issue(t)' /\ token'[t] = token[t]
    BY <1>1, <1>2 DEF Issue
  <1>10. Issue(n)' /\ token'[n].family = n
    BY <1>1, <1>2, <1>3 DEF Issue
  <1>11. ended \subseteq Token /\ \A d \in Caller : call[d].covers \cup call[d].targets \cup call[d].caught \subseteq Token
    BY DEF Typed, Shape
  <1>12. FamiliesIssued'
    <2>1. ASSUME NEW t \in Token, Issue(t)'
          PROVE  Issue(token[t].family)'
      <3>1. CASE t = n
        BY <3>1, <1>10 DEF Issue
      <3>2. CASE t # n
        <4>1. token'[t] = token[t] /\ Issue(t)
          BY <2>1, <3>2, <1>2 DEF Issue
        <4>2. Issue(token[t].family) /\ token[t].family \in Token
          BY <4>1, <1>6 DEF TokensInv, FamiliesIssued
        <4>3. token'[token[t].family].state # "NONE"
          BY <4>2, <1>2, <1>3 DEF Issue
        <4> QED
          BY <4>1, <4>3 DEF Issue
      <3> QED
        BY <3>1, <3>2
    <2>2. \A f \in ended : Issue(f)'
      BY <1>9, <1>11 DEF TokensInv, FamiliesIssued
    <2> QED
      BY <2>1, <2>2, <1>4 DEF FamiliesIssued, Issue
  <1>13. OneLivePerFamily'
    BY <1>7, <1>8, <1>10 DEF TokensInv, OneLivePerFamily
  <1>14. EndedStaysEnded'
    BY <1>1, <1>4, <1>7, <1>8, <1>10 DEF TokensInv, EndedStaysEnded, FamiliesIssued
  <1>15. RefreshHolds'
    BY <1>5, <1>7, IdleShape DEF TokensInv, RefreshHolds
  <1>16. FoundAll'
    <2>1. ASSUME NEW d \in Caller, NEW f \in call'[d].covers \cup call'[d].targets
          PROVE  Issue(f)'
      BY <2>1, <1>5, <1>9, <1>11, IdleShape DEF TokensInv, FoundAll
    <2>2. ASSUME NEW d \in Caller, NEW t \in Live', token'[t].family \in call'[d].covers
          PROVE  t \in call'[d].targets \cup call'[d].caught \/ Doomed(d, token[t].family)'
      <3>1. d # c /\ call'[d] = call[d] /\ token'[t].family \in call[d].covers
        BY <2>2, <1>5, IdleShape
      <3>2. t \in Live /\ token'[t] = token[t]
        BY <2>2, <3>1, <1>1, <1>7, <1>8, <1>10 DEF TokensInv, FoundAll
      <3>3. CASE Doomed(d, token[t].family)
        <4>1. PICK u \in call[d].targets : u \notin Live /\ token[u].family = token[t].family
          BY <3>3 DEF Doomed
        <4>2. u \in Token /\ Issue(u)
          BY <4>1, <1>11 DEF TokensInv, FoundAll
        <4>3. u \notin Live' /\ token'[u].family = token'[t].family
          BY <4>1, <4>2, <3>2, <1>1, <1>7, <1>9
        <4> QED
          BY <4>1, <4>3, <3>1 DEF Doomed
      <3> QED
        BY <3>1, <3>2, <3>3 DEF TokensInv, FoundAll
    <2> QED
      BY <2>1, <2>2 DEF FoundAll, Issue
  <1>17. CaughtOK'
    BY <1>5, <1>7, IdleShape DEF TokensInv, CaughtOK, HeldByRefresh
  <1> QED
    BY <1>12, <1>13, <1>14, <1>15, <1>16, <1>17 DEF TokensInv

(* A refresh replaces the one good token of its family, which was not ended: *)
(* an UPDATE that covers the family has not reached it and will pass over it. *)
LEMMA RefreshKeepsTokens ==
  ASSUME Typed, TokensInv, NEW c \in Caller, Refresh(c)
  PROVE  TokensInv'
  <1> DEFINE n == NextToken
             old == call[c].token
             fam == token[old].family
             r == [state |-> "LIVE", family |-> fam]
  <1>1. n \in Token /\ ~Issue(n) /\ call[c].op = "refresh"
    BY NextIsNew DEF Refresh
  <1>2. old \in Token /\ token[old].state = "LIVE" /\ old # n /\ fam \in Token
    BY <1>1 DEF TokensInv, RefreshHolds, Live, Issue, Typed, TokenRow
  <1>3. \A t \in Token : /\ token'[t].state = IF t = n THEN "LIVE" ELSE IF t = old THEN "REVOKED" ELSE token[t].state
                         /\ token'[t].family = IF t = n THEN fam ELSE token[t].family
    BY <1>1, <1>2 DEF Refresh, Successor, Typed, TokenRow
  <1>4. Issue(fam)
    BY <1>2 DEF TokensInv, FamiliesIssued, Issue
  <1>5. \A d \in Caller : /\ old \notin call[d].caught
                          /\ call[d].op = "refresh" /\ d # c => call[d].token \in Live \ {old}
                          /\ fam \in call[d].covers => old \in call[d].targets \/ Doomed(d, fam)
    BY <1>1, <1>2 DEF TokensInv, FoundAll, CaughtOK, HeldByRefresh, RefreshHolds, Live
  <1>6. ended' = ended /\ call' = [call EXCEPT ![c] = Idle]
    BY DEF Refresh, Leave
  <1> HIDE DEF n, old, fam
  <1>7. \A d \in Caller : call'[d] = IF d = c THEN Idle ELSE call[d]
    BY <1>6 DEF Typed
  <1>8. Live' = (Live \ {old}) \cup {n}
    BY <1>1, <1>2, <1>3 DEF Live, Issue
  <1>9. \A t \in Token : Issue(t)' <=> Issue(t) \/ t = n
    BY <1>1, <1>2, <1>3 DEF Issue
  <1>10. \A t \in Live \ {old} : t \in Token /\ t # n /\ token'[t].family = token[t].family /\ token[t].family # fam
    <2>1. \A t \in Live \ {old} : token[t].family # fam
      BY <1>2 DEF TokensInv, OneLivePerFamily, Live, fam
    <2> QED
      BY <2>1, <1>1, <1>3 DEF Live, Issue
  <1>11. token'[n].family = fam
    BY <1>1, <1>3
  <1>12. ended \subseteq Token /\ \A d \in Caller : call[d].covers \cup call[d].targets \cup call[d].caught \subseteq Token
    BY DEF Typed, Shape
  <1>13. FamiliesIssued'
    <2>1. ASSUME NEW t \in Token, Issue(t)'
          PROVE  Issue(token[t].family)'
      <3>1. CASE t = n
        BY <3>1, <1>2, <1>4, <1>9, <1>11 DEF Issue
      <3>2. CASE t # n
        <4>1. token'[t].family = token[t].family /\ Issue(t)
          BY <2>1, <3>2, <1>3, <1>9
        <4>2. Issue(token[t].family) /\ token[t].family \in Token
          BY <4>1 DEF TokensInv, FamiliesIssued, Typed, TokenRow
        <4> QED
          BY <4>1, <4>2, <1>9 DEF Issue
      <3> QED
        BY <3>1, <3>2
    <2>2. \A f \in ended : Issue(f)'
      BY <1>9, <1>12 DEF TokensInv, FamiliesIssued
    <2> QED
      BY <2>1, <2>2, <1>6 DEF FamiliesIssued
  <1>14. OneLivePerFamily'
    BY <1>8, <1>10, <1>11 DEF TokensInv, OneLivePerFamily
  <1>15. EndedStaysEnded'
    <2>1. fam \notin ended
      BY <1>2 DEF TokensInv, EndedStaysEnded, Live, fam
    <2> QED
      BY <2>1, <1>6, <1>8, <1>10, <1>11 DEF TokensInv, EndedStaysEnded
  <1>16. RefreshHolds'
    BY <1>5, <1>7, <1>8, IdleShape DEF TokensInv, RefreshHolds
  <1>17. FoundAll'
    <2>1. ASSUME NEW d \in Caller, NEW f \in call'[d].covers \cup call'[d].targets
          PROVE  Issue(f)'
      BY <2>1, <1>7, <1>9, <1>12, IdleShape DEF TokensInv, FoundAll
    <2>2. \A d \in Caller, f \in Token : Doomed(d, f) /\ d # c => Doomed(d, f)'
      <3> SUFFICES ASSUME NEW d \in Caller, NEW f \in Token, d # c,
                          NEW u \in call[d].targets, u \notin Live, token[u].family = f
                   PROVE  Doomed(d, f)'
        BY DEF Doomed
      <3>1. u \in Token /\ Issue(u)
        BY <1>12 DEF TokensInv, FoundAll
      <3>2. u # n
        BY <3>1, <1>1 DEF Issue
      <3>3. u \notin Live' /\ token'[u].family = f /\ u \in call'[d].targets
        BY <3>1, <3>2, <1>3, <1>7, <1>8
      <3> QED
        BY <3>3 DEF Doomed
    <2>3. ASSUME NEW d \in Caller, NEW t \in Live', token'[t].family \in call'[d].covers
          PROVE  t \in call'[d].targets \cup call'[d].caught \/ Doomed(d, token[t].family)'
      <3>1. d # c /\ call'[d] = call[d] /\ token'[t].family \in call[d].covers
        BY <2>3, <1>7, IdleShape
      <3>2. CASE t = n
        <4>1. fam \in call[d].covers
          BY <3>1, <3>2, <1>11
        <4>2. CASE old \in call[d].targets
          <5>1. old \notin Live' /\ token'[old].family = fam /\ fam = token'[t].family
            BY <3>2, <1>2, <1>3, <1>8, <1>11 DEF fam
          <5> QED
            BY <4>2, <5>1, <3>1 DEF Doomed
        <4>3. CASE Doomed(d, fam)
          <5> PICK g \in Token : g = fam /\ g = token'[t].family
            BY <3>2, <1>2, <1>11
          <5>1. Doomed(d, g)'
            BY <4>3, <2>2, <3>1
          <5> QED
            BY <5>1 DEF Doomed
        <4> QED
          BY <4>1, <4>2, <4>3, <1>5
      <3>3. CASE t # n
        <4>1. t \in Live \ {old} /\ token'[t].family = token[t].family /\ token[t].family \in Token
          BY <2>3, <3>3, <1>8, <1>10 DEF Typed, TokenRow
        <4>2. t \in call[d].targets \cup call[d].caught \/ Doomed(d, token[t].family)
          BY <3>1, <4>1 DEF TokensInv, FoundAll
        <4>3. Doomed(d, token[t].family) => Doomed(d, token[t].family)'
          BY <2>2, <3>1, <4>1 DEF Doomed
        <4> QED
          BY <3>1, <4>2, <4>3
      <3> QED
        BY <3>2, <3>3
    <2> QED
      BY <2>1, <2>3 DEF FoundAll
  <1>18. CaughtOK'
    <2>1. \A d \in Caller : \A t \in call[d].caught : t \in Live'
      BY <1>5, <1>8 DEF TokensInv, CaughtOK
    <2> QED
      BY <2>1, <1>7, IdleShape DEF TokensInv, CaughtOK, HeldByRefresh
  <1> QED
    BY <1>13, <1>14, <1>15, <1>16, <1>17, <1>18 DEF TokensInv

(* A revocation ends every good token of the families it covers. *)
LEMMA RevokeKeepsTokens ==
  ASSUME Typed, TokensInv, NEW c \in Caller,
         Reached(c), token' = Revoked(call[c].caught), ended' = ended \cup call[c].covers, Leave(c)
  PROVE  TokensInv'
  <1> DEFINE found == call[c].caught
  <1>1. \A t \in Token : /\ token'[t].state = IF t \in found THEN "REVOKED" ELSE token[t].state
                         /\ token'[t].family = token[t].family
    BY DEF Revoked, Typed, TokenRow
  <1>2. Live' = Live \ found
    BY <1>1 DEF Live
  <1>3. \A t \in Token : Issue(t) => Issue(t)'
    BY <1>1 DEF Issue
  <1>4. \A d \in Caller : call'[d] = IF d = c THEN Idle ELSE call[d]
    BY DEF Leave, Typed
  <1>5. ended \subseteq Token /\ \A d \in Caller : call[d].covers \cup call[d].targets \cup call[d].caught \subseteq Token
    BY DEF Typed, Shape
  <1>6. \A d \in Caller : call[d].op = "refresh" => call[d].token \in Live \ found
    BY DEF CaughtOK, HeldByRefresh, TokensInv, RefreshHolds
  <1>7. \A t \in Token : token[t].family \in Token
    BY DEF Typed, TokenRow
  <1>8. FamiliesIssued'
    <2>1. ASSUME NEW t \in Token, Issue(t)'
          PROVE  Issue(token[t].family)'
      <3>1. Issue(t)
        BY <2>1, <1>1 DEF TokensInv, CaughtOK, Live, Issue
      <3>2. Issue(token[t].family) /\ token[t].family \in Token
        BY <3>1, <1>7 DEF TokensInv, FamiliesIssued
      <3> QED
        BY <3>2, <1>1, <1>3 DEF Issue
    <2>2. \A f \in ended' : Issue(f)'
      BY <1>3, <1>5 DEF TokensInv, FamiliesIssued, FoundAll
    <2> QED
      BY <2>1, <2>2 DEF FamiliesIssued
  <1>9. OneLivePerFamily'
    BY <1>1, <1>2 DEF TokensInv, OneLivePerFamily, Live
  <1>10. EndedStaysEnded'
    <2>1. \A t \in Live : token[t].family \in call[c].covers => t \in found
      BY DEF Reached, TokensInv, FoundAll, Doomed
    <2> QED
      BY <2>1, <1>1, <1>2 DEF TokensInv, EndedStaysEnded, Live
  <1>11. RefreshHolds'
    BY <1>2, <1>4, <1>6, IdleShape DEF TokensInv, RefreshHolds
  <1>12. FoundAll'
    <2>1. ASSUME NEW d \in Caller, NEW f \in call'[d].covers \cup call'[d].targets
          PROVE  Issue(f)'
      BY <2>1, <1>3, <1>4, <1>5, IdleShape DEF TokensInv, FoundAll
    <2>2. ASSUME NEW d \in Caller, NEW t \in Live', token'[t].family \in call'[d].covers
          PROVE  t \in call'[d].targets \cup call'[d].caught \/ Doomed(d, token[t].family)'
      <3>1. d # c /\ call'[d] = call[d] /\ token'[t].family \in call[d].covers
        BY <2>2, <1>4, IdleShape
      <3>2. t \in Live /\ token'[t].family = token[t].family
        BY <2>2, <1>1, <1>2 DEF Live
      <3>3. CASE Doomed(d, token[t].family)
        <4>1. PICK u \in call[d].targets : u \notin Live /\ token[u].family = token[t].family
          BY <3>3 DEF Doomed
        <4>2. u \notin Live' /\ token'[u].family = token'[t].family
          BY <4>1, <3>2, <1>1, <1>2, <1>5
        <4> QED
          BY <4>1, <4>2, <3>1 DEF Doomed
      <3> QED
        BY <3>1, <3>2, <3>3 DEF TokensInv, FoundAll
    <2> QED
      BY <2>1, <2>2 DEF FoundAll
  <1>13. CaughtOK'
    <2>1. ASSUME NEW d \in Caller, NEW t \in call'[d].caught
          PROVE  /\ d # c /\ call'[d] = call[d] /\ t \in call[d].caught
                 /\ t \in Live' /\ \A e \in Caller \ {d} : t \notin call'[e].caught
      <3>1. d # c /\ call'[d] = call[d] /\ t \in call[d].caught
        BY <2>1, <1>4, IdleShape
      <3>2. t \in Live /\ \A e \in Caller \ {d} : t \notin call[e].caught
        BY <3>1 DEF TokensInv, CaughtOK
      <3> QED
        BY <3>1, <3>2, <1>2, <1>4, IdleShape
    <2>2. \A t \in Token : HeldByRefresh(t)' => HeldByRefresh(t)
      BY <1>4, IdleShape DEF HeldByRefresh
    <2> QED
      BY <2>1, <2>2, <1>5 DEF TokensInv, CaughtOK
  <1> QED
    BY <1>8, <1>9, <1>10, <1>11, <1>12, <1>13 DEF TokensInv

(* An UPDATE finds the good tokens there are, and has reached none. *)
LEMMA FindKeepsTokens ==
  ASSUME Typed, TokensInv, NEW c \in Caller, NEW op, op # "refresh",
         NEW families \in SUBSET Token, \A f \in families : Issue(f),
         Find(c, op, families), token' = token, ended' = ended
  PROVE  TokensInv'
  <1> DEFINE targets == {t \in Live : token[t].family \in families}
  <1>1. /\ call'[c].op = op /\ call'[c].targets = targets /\ call'[c].covers = families /\ call'[c].caught = {}
        /\ \A d \in Caller \ {c} : call'[d] = call[d]
    BY DEF Find, Typed, Shape
  <1>2. \A t \in targets : t \in Live /\ Issue(t)
    BY DEF Live, Issue
  <1>3. \A t \in Live : token[t].family \in families => t \in targets
    OBVIOUS
  <1> HIDE DEF targets
  <1>4. FamiliesIssued' /\ OneLivePerFamily' /\ EndedStaysEnded' /\ Live' = Live
    BY DEF TokensInv, FamiliesIssued, OneLivePerFamily, EndedStaysEnded, Live, Issue
  <1>5. RefreshHolds'
    BY <1>1 DEF TokensInv, RefreshHolds, Live
  <1>6. CaughtOK'
    BY <1>1, <1>4 DEF TokensInv, CaughtOK, HeldByRefresh
  <1>7. FoundAll'
    <2>1. ASSUME NEW d \in Caller, NEW f \in call'[d].covers \cup call'[d].targets
          PROVE  Issue(f)
      BY <2>1, <1>1, <1>2 DEF TokensInv, FoundAll
    <2>2. ASSUME NEW d \in Caller, NEW t \in Live, token[t].family \in call'[d].covers
          PROVE  t \in call'[d].targets \cup call'[d].caught \/ Doomed(d, token[t].family)'
      <3>1. CASE d = c
        BY <2>2, <3>1, <1>1, <1>3
      <3>2. CASE d # c
        BY <2>2, <3>2, <1>1, <1>4 DEF TokensInv, FoundAll, Doomed
      <3> QED
        BY <3>1, <3>2
    <2> QED
      BY <2>1, <2>2, <1>4 DEF FoundAll, Issue
  <1> QED
    BY <1>4, <1>5, <1>6, <1>7 DEF TokensInv

(* An UPDATE reaches a good token, which is its own then, *)
LEMMA CatchKeepsTokens ==
  ASSUME Typed, TokensInv, NEW c \in Caller, NEW t \in Token, Catch(c, t)
  PROVE  TokensInv'
  <1>1. /\ t \in Live /\ ~HeldByRefresh(t) /\ \A d \in Caller : t \notin call[d].caught
        /\ t \in call[c].targets /\ token' = token /\ ended' = ended
    BY DEF Catch, Free
  <1>2. /\ call'[c].op = call[c].op /\ call'[c].token = call[c].token /\ call'[c].covers = call[c].covers
        /\ call'[c].targets = call[c].targets \ {t} /\ call'[c].caught = call[c].caught \cup {t}
        /\ \A d \in Caller \ {c} : call'[d] = call[d]
    BY DEF Catch, Typed, Shape
  <1>3. FamiliesIssued' /\ OneLivePerFamily' /\ EndedStaysEnded' /\ Live' = Live
    BY <1>1 DEF TokensInv, FamiliesIssued, OneLivePerFamily, EndedStaysEnded, Live, Issue
  <1>4. \A d \in Caller : call'[d].op = call[d].op /\ call'[d].token = call[d].token
    BY <1>2
  <1>5. RefreshHolds' /\ \A u \in Token : HeldByRefresh(u)' <=> HeldByRefresh(u)
    BY <1>3, <1>4 DEF TokensInv, RefreshHolds, HeldByRefresh
  <1>6. CaughtOK'
    <2>1. ASSUME NEW d \in Caller, NEW u \in call'[d].caught
          PROVE  u \in Live /\ ~HeldByRefresh(u) /\ \A e \in Caller \ {d} : u \notin call'[e].caught
      BY <2>1, <1>1, <1>2 DEF TokensInv, CaughtOK
    <2> QED
      BY <2>1, <1>3, <1>5 DEF CaughtOK, Live
  <1>7. FoundAll'
    <2>1. ASSUME NEW d \in Caller, NEW f \in call'[d].covers \cup call'[d].targets
          PROVE  Issue(f)
      BY <2>1, <1>2 DEF TokensInv, FoundAll
    <2>2. ASSUME NEW d \in Caller, NEW u \in Live, token[u].family \in call'[d].covers
          PROVE  u \in call'[d].targets \cup call'[d].caught \/ Doomed(d, token[u].family)'
      <3>1. u \in call[d].targets \cup call[d].caught \/ Doomed(d, token[u].family)
        BY <2>2, <1>2 DEF TokensInv, FoundAll
      <3>2. Doomed(d, token[u].family) => Doomed(d, token[u].family)'
        BY <1>1, <1>2, <1>3 DEF Doomed
      <3> QED
        BY <3>1, <3>2, <1>2
    <2> QED
      BY <2>1, <2>2, <1>1, <1>3 DEF FoundAll, Issue
  <1> QED
    BY <1>3, <1>5, <1>6, <1>7 DEF TokensInv

(* or passes over one that was replaced: it does not cover the family then. *)
LEMMA MissKeepsTokens ==
  ASSUME Typed, TokensInv, NEW c \in Caller, NEW t \in Token, Miss(c, t)
  PROVE  TokensInv'
  <1>1. t \notin Live /\ t \in call[c].targets /\ token' = token /\ ended' = ended
    BY DEF Miss
  <1>2. /\ call'[c].op = call[c].op /\ call'[c].token = call[c].token /\ call'[c].caught = call[c].caught
        /\ call'[c].targets = call[c].targets \ {t} /\ call'[c].covers = call[c].covers \ {token[t].family}
        /\ \A d \in Caller \ {c} : call'[d] = call[d]
    BY DEF Miss, Typed, Shape
  <1>3. FamiliesIssued' /\ OneLivePerFamily' /\ EndedStaysEnded' /\ Live' = Live
    BY <1>1 DEF TokensInv, FamiliesIssued, OneLivePerFamily, EndedStaysEnded, Live, Issue
  <1>4. \A d \in Caller : /\ call'[d].op = call[d].op /\ call'[d].token = call[d].token
                          /\ call'[d].caught = call[d].caught
    BY <1>2
  <1>5. RefreshHolds' /\ CaughtOK'
    BY <1>3, <1>4 DEF TokensInv, RefreshHolds, CaughtOK, HeldByRefresh
  <1>6. FoundAll'
    <2>1. ASSUME NEW d \in Caller, NEW f \in call'[d].covers \cup call'[d].targets
          PROVE  Issue(f)
      BY <2>1, <1>2 DEF TokensInv, FoundAll
    <2>2. ASSUME NEW d \in Caller, NEW u \in Live, token[u].family \in call'[d].covers
          PROVE  u \in call'[d].targets \cup call'[d].caught \/ Doomed(d, token[u].family)'
      <3>1. u \in call[d].targets \cup call[d].caught \/ Doomed(d, token[u].family)
        BY <2>2, <1>2 DEF TokensInv, FoundAll
      <3>2. Doomed(d, token[u].family) => Doomed(d, token[u].family)'
        BY <2>2, <1>1, <1>2, <1>3 DEF Doomed
      <3> QED
        BY <3>1, <3>2, <1>1, <1>2
    <2> QED
      BY <2>1, <2>2, <1>1, <1>3 DEF FoundAll, Issue
  <1> QED
    BY <1>3, <1>5, <1>6 DEF TokensInv

(* A refresh gets a good token that no UPDATE has reached. *)
LEMMA BeginRefreshKeepsTokens ==
  ASSUME Typed, TokensInv, NEW c \in Caller, NEW t \in Token, BeginRefresh(c, t)
  PROVE  TokensInv'
  <1> PICK q : q = [Idle EXCEPT !.op = "refresh", !.token = t, !.seen = account.version]
    OBVIOUS
  <1>1. q.op = "refresh" /\ q.token = t /\ q.covers = {} /\ q.targets = {} /\ q.caught = {}
    BY DEF Idle
  <1>2. \A d \in Caller : call'[d] = IF d = c THEN q ELSE call[d]
    BY DEF BeginRefresh, Typed
  <1>3. t \in Live /\ \A d \in Caller : t \notin call[d].caught
    BY DEF BeginRefresh, Free, Live
  <1>4. \A d \in Caller : call[d].op = "refresh" => call[d].token # t
    BY DEF BeginRefresh, Free, HeldByRefresh
  <1>5. token' = token /\ ended' = ended
    BY DEF BeginRefresh
  <1>6. FamiliesIssued' /\ OneLivePerFamily' /\ EndedStaysEnded' /\ Live' = Live
    BY <1>5 DEF TokensInv, FamiliesIssued, OneLivePerFamily, EndedStaysEnded, Live, Issue
  <1>7. RefreshHolds'
    <2>1. ASSUME NEW d \in Caller, call'[d].op = "refresh"
          PROVE  call'[d].token \in Live'
      BY <2>1, <1>1, <1>2, <1>3, <1>6 DEF TokensInv, RefreshHolds
    <2>2. ASSUME NEW d \in Caller, NEW e \in Caller, call'[d].op = "refresh", call'[e].op = "refresh",
                 call'[e].token = call'[d].token
          PROVE  e = d
      <3>1. CASE d = c \/ e = c
        BY <2>2, <3>1, <1>1, <1>2, <1>4
      <3>2. CASE d # c /\ e # c
        BY <2>2, <3>2, <1>2 DEF TokensInv, RefreshHolds
      <3> QED
        BY <3>1, <3>2
    <2> QED
      BY <2>1, <2>2 DEF RefreshHolds
  <1>8. FoundAll'
    <2>1. ASSUME NEW d \in Caller, NEW f \in call'[d].covers \cup call'[d].targets
          PROVE  Issue(f)
      BY <2>1, <1>1, <1>2 DEF TokensInv, FoundAll
    <2>2. ASSUME NEW d \in Caller, NEW u \in Live, token[u].family \in call'[d].covers
          PROVE  u \in call'[d].targets \cup call'[d].caught \/ Doomed(d, token[u].family)'
      <3>1. d # c /\ call'[d] = call[d]
        BY <2>2, <1>1, <1>2
      <3> QED
        BY <2>2, <3>1, <1>5, <1>6 DEF TokensInv, FoundAll, Doomed
    <2> QED
      BY <2>1, <2>2, <1>5, <1>6 DEF FoundAll, Issue
  <1>9. CaughtOK'
    <2>1. ASSUME NEW d \in Caller, NEW u \in call'[d].caught
          PROVE  d # c /\ u \in call[d].caught /\ u # t
      BY <2>1, <1>1, <1>2, <1>3
    <2>2. ASSUME NEW d \in Caller, NEW u \in call'[d].caught, NEW e \in Caller,
                 call'[e].op = "refresh", call'[e].token = u
          PROVE  FALSE
      <3>1. e # c /\ call'[e] = call[e]
        BY <2>1, <2>2, <1>1, <1>2
      <3> QED
        BY <2>1, <2>2, <3>1 DEF TokensInv, CaughtOK, HeldByRefresh
    <2> QED
      BY <2>1, <2>2, <1>1, <1>2, <1>6 DEF TokensInv, CaughtOK, HeldByRefresh
  <1> QED
    BY <1>6, <1>7, <1>8, <1>9 DEF TokensInv

(* What is known of the tokens stays true. *)
LEMMA TokensKept ==
  ASSUME Typed, TokensInv, [SessionsNext]_sessionVars
  PROVE  TokensInv'
  <1>1. CASE UNCHANGED sessionVars
    BY <1>1 DEF sessionVars,
       TokensInv, FamiliesIssued, RefreshHolds, CaughtOK, HeldByRefresh, FoundAll, Doomed,
       OneLivePerFamily, EndedStaysEnded, Live, Issue
  <1>2. CASE LockoutEnds \/ Activate
    BY <1>2 DEF LockoutEnds, Activate,
       TokensInv, FamiliesIssued, RefreshHolds, CaughtOK, HeldByRefresh, FoundAll, Doomed,
       OneLivePerFamily, EndedStaysEnded, Live, Issue
  <1>3. ASSUME NEW c \in Caller, BeginLogin(c) \/ BeginLogoutAll(c) \/ BeginDeactivate(c)
        PROVE  TokensInv'
    <2>1. PICK q \in Shape : /\ q.op # "refresh" /\ q.covers = {} /\ q.targets = {} /\ q.caught = {}
                             /\ call' = [call EXCEPT ![c] = q]
      <3>1. account.version \in Nat /\ account.failed \in Nat /\ access \in SUBSET Nat
        BY DEF Typed, Row
      <3> QED
        BY <1>3, <3>1 DEF BeginLogin, BeginLogoutAll, BeginDeactivate, Idle, Shape, Ops
    <2>2. token' = token /\ ended' = ended
      BY <1>3 DEF BeginLogin, BeginLogoutAll, BeginDeactivate
    <2> QED
      BY <2>1, <2>2, QuietKeepsTokens
  <1>4. ASSUME NEW c \in Caller, WrongPassword(c) \/ Abandon(c)
        PROVE  TokensInv'
    <2>1. call' = [call EXCEPT ![c] = Idle] /\ token' = token /\ ended' = ended
      BY <1>4 DEF WrongPassword, Abandon, Leave
    <2> QED
      BY <2>1, IdleShape, QuietKeepsTokens
  <1>5. ASSUME NEW c \in Caller, Revoke(c) \/ RevokeAll(c)
        PROVE  TokensInv'
    BY <1>5, RevokeKeepsTokens DEF Revoke, RevokeAll
  <1>6. ASSUME NEW c \in Caller, FindAll(c)
        PROVE  TokensInv'
    <2> DEFINE families == {token[t].family : t \in Token \ Unissued}
    <2>1. families \in SUBSET Token /\ \A f \in families : Issue(f)
      BY DEF Unissued, Issue, Typed, TokenRow, TokensInv, FamiliesIssued
    <2>2. Find(c, "revokingAll", families) /\ token' = token /\ ended' = ended
      BY <1>6 DEF FindAll
    <2> QED
      BY <2>1, <2>2, FindKeepsTokens
  <1>7. ASSUME NEW c \in Caller, NEW t \in Token, BeginRevoke(c, t)
        PROVE  TokensInv'
    <2>1. {token[t].family} \in SUBSET Token /\ Issue(token[t].family)
      BY <1>7 DEF BeginRevoke, Typed, TokenRow, TokensInv, FamiliesIssued, Issue
    <2>2. Find(c, "revoking", {token[t].family}) /\ token' = token /\ ended' = ended
      BY <1>7 DEF BeginRevoke
    <2> QED
      BY <2>1, <2>2, FindKeepsTokens
  <1> QED
    BY <1>1, <1>2, <1>3, <1>4, <1>5, <1>6, <1>7, LoginKeepsTokens, RefreshKeepsTokens,
       BeginRefreshKeepsTokens, CatchKeepsTokens, MissKeepsTokens DEF SessionsNext

-----------------------------------------------------------------------------
(* A request that begins or ends while the version stays. *)
LEMMA SteadyKeepsVersions ==
  ASSUME Typed, VersionsInv, NEW c \in Caller, NEW q,
         call' = [call EXCEPT ![c] = q],
         account'.version = account.version, over' = over, overlapped' = overlapped,
         ~overlapped => /\ \A v \in access' : v \in access \/ v <= account.version
                        /\ q.op = "refresh" => q.seen <= account.version
                        /\ q.op \in {"logoutAll", "deactivate", "revokingAll"}
                             => q.seen = account.version /\ \A v \in q.known : v <= account.version
  PROVE  VersionsInv'
  <1>1. \A d \in Caller : call'[d] = IF d = c THEN q ELSE call[d]
    BY DEF Typed
  <1> QED
    BY <1>1 DEF VersionsInv, Revokes

(* What is known of the versions stays true. *)
LEMMA VersionsKept ==
  ASSUME Typed, VersionsInv, [SessionsNext]_sessionVars
  PROVE  VersionsInv'
  <1>0. account.version \in Nat /\ account.failed \in Nat /\ account \in Row
    BY DEF Typed, Row
  <1>1. CASE UNCHANGED sessionVars
    BY <1>1 DEF sessionVars, VersionsInv, Revokes
  <1>2. CASE LockoutEnds \/ Activate
    <2>1. account'.version = account.version
      BY <1>0, <1>2 DEF LockoutEnds, Activate, Row
    <2> QED
      BY <1>2, <2>1 DEF LockoutEnds, Activate, VersionsInv, Revokes
  <1>3. ASSUME NEW c \in Caller, BeginLogin(c)
        PROVE  VersionsInv'
    <2> PICK q : q = [Idle EXCEPT !.op = "login", !.seen = account.failed]
      OBVIOUS
    <2>1. q.op = "login"
      BY DEF Idle
    <2> QED
      BY <1>3, <2>1, SteadyKeepsVersions DEF BeginLogin
  <1>4. ASSUME NEW c \in Caller, BeginLogoutAll(c)
        PROVE  VersionsInv'
    <2> PICK q : q = [Idle EXCEPT !.op = "logoutAll", !.seen = account.version, !.known = access]
      OBVIOUS
    <2>1. q.op = "logoutAll" /\ q.seen = account.version /\ q.known = access
      BY DEF Idle
    <2>2. ~overlapped => \A v \in access : v <= account.version
      BY DEF VersionsInv
    <2>3. /\ call' = [call EXCEPT ![c] = q] /\ account' = account /\ over' = over
          /\ overlapped' = overlapped /\ access' = access
      BY <1>4 DEF BeginLogoutAll
    <2> QED
      BY <2>1, <2>2, <2>3, SteadyKeepsVersions
  <1>5. ASSUME NEW c \in Caller, BeginDeactivate(c)
        PROVE  VersionsInv'
    <2> PICK q : q = [Idle EXCEPT !.op = "deactivate", !.seen = account.version, !.known = access, !.off = TRUE]
      OBVIOUS
    <2>1. q.op = "deactivate" /\ q.seen = account.version /\ q.known = access
      BY DEF Idle
    <2>2. ~overlapped => \A v \in access : v <= account.version
      BY DEF VersionsInv
    <2>3. /\ call' = [call EXCEPT ![c] = q] /\ account' = account /\ over' = over
          /\ overlapped' = overlapped /\ access' = access
      BY <1>5 DEF BeginDeactivate
    <2> QED
      BY <2>1, <2>2, <2>3, SteadyKeepsVersions
  <1>6. ASSUME NEW c \in Caller, NEW t \in Token, BeginRefresh(c, t)
        PROVE  VersionsInv'
    <2> PICK q : q = [Idle EXCEPT !.op = "refresh", !.token = t, !.seen = account.version]
      OBVIOUS
    <2>1. q.op = "refresh" /\ q.seen = account.version
      BY DEF Idle
    <2>2. /\ call' = [call EXCEPT ![c] = q] /\ account' = account /\ over' = over
          /\ overlapped' = overlapped /\ access' = access
      BY <1>6 DEF BeginRefresh
    <2>3. q.seen <= account.version /\ q.op \notin {"logoutAll", "deactivate", "revokingAll"}
      BY <1>0, <2>1
    <2>4. ~overlapped => \A v \in access' : v \in access \/ v <= account.version
      BY <2>2
    <2> QED
      BY <2>1, <2>2, <2>3, <2>4, SteadyKeepsVersions
  <1>7. ASSUME NEW c \in Caller, Revoke(c) \/ Abandon(c) \/ WrongPassword(c)
        PROVE  VersionsInv'
    <2>1. account'.version = account.version
      BY <1>0, <1>7 DEF Revoke, Abandon, WrongPassword, Failed, Row
    <2>2. call' = [call EXCEPT ![c] = Idle] /\ over' = over /\ overlapped' = overlapped /\ access' = access
      BY <1>7 DEF Revoke, Abandon, WrongPassword, Leave
    <2> QED
      BY <2>1, <2>2, IdleShape, SteadyKeepsVersions
  <1>8. ASSUME NEW c \in Caller, Login(c)
        PROVE  VersionsInv'
    <2>1. account'.version = account.version
      BY <1>0, <1>8 DEF Login, Row
    <2>2. /\ call' = [call EXCEPT ![c] = Idle] /\ over' = over /\ overlapped' = overlapped
          /\ access' = access \cup {account.version}
      BY <1>8 DEF Login, Leave
    <2>3. \A v \in access' : v \in access \/ v <= account.version
      BY <1>0, <2>2
    <2> QED
      BY <2>1, <2>2, <2>3, IdleShape, SteadyKeepsVersions
  <1>9. ASSUME NEW c \in Caller, Refresh(c)
        PROVE  VersionsInv'
    <2>1. /\ call' = [call EXCEPT ![c] = Idle] /\ over' = over /\ overlapped' = overlapped
          /\ account' = account /\ access' = access \cup {call[c].seen} /\ call[c].op = "refresh"
      BY <1>9 DEF Refresh, Leave
    <2>2. ~overlapped => call[c].seen <= account.version
      BY <2>1 DEF VersionsInv
    <2> QED
      BY <2>1, <2>2, IdleShape, SteadyKeepsVersions
  <1>10. ASSUME NEW c \in Caller, NEW op, NEW families, Find(c, op, families),
                Revokes(c) \/ op \notin {"refresh", "logoutAll", "deactivate", "revokingAll"}, op # "refresh",
                account' = account, over' = over, overlapped' = overlapped, access' = access
         PROVE  VersionsInv'
    <2>1. /\ call'[c].op = op /\ call'[c].seen = call[c].seen /\ call'[c].known = call[c].known
          /\ \A d \in Caller \ {c} : call'[d] = call[d]
      BY <1>10 DEF Find, Typed, Shape
    <2> QED
      BY <1>10, <2>1 DEF VersionsInv, Revokes
  <1>11. ASSUME NEW c \in Caller, FindAll(c) \/ \E t \in Token : BeginRevoke(c, t)
         PROVE  VersionsInv'
    BY <1>10, <1>11 DEF FindAll, BeginRevoke, Revokes
  <1>12. ASSUME NEW c \in Caller, RevokeAll(c)
         PROVE  VersionsInv'
    <2> SUFFICES ASSUME ~overlapped'
                 PROVE  VersionsInv'
      BY DEF VersionsInv
    <2>1. ~overlapped /\ \A d \in Caller \ {c} : ~Revokes(d)
      BY <1>12 DEF RevokeAll, Overlaps, Revokes
    <2>2. call[c].seen = account.version /\ \A v \in call[c].known : v <= account.version
      BY <1>12, <2>1 DEF VersionsInv, Revokes, RevokeAll
    <2>3. account'.version = account.version + 1
      BY <1>0, <1>12, <2>2 DEF RevokeAll, Raised, Row
    <2>4. \A d \in Caller : call'[d] = IF d = c THEN Idle ELSE call[d]
      BY <1>12 DEF RevokeAll, Leave, Typed
    <2>5. over' = over \cup call[c].known /\ access' = access
      BY <1>12 DEF RevokeAll
    <2>6. \A d \in Caller : call[d].seen \in Nat /\ call[d].known \subseteq Nat
      BY DEF Typed, Shape
    <2>7. over \subseteq Nat /\ access \subseteq Nat
      BY DEF Typed
    <2>8. \A v \in over' : v < account'.version
      <3>1. \A v \in over : v < account.version
        BY <2>1 DEF VersionsInv
      <3>2. \A v \in over \cup call[c].known : v \in Nat /\ v <= account.version
        <4>1. \A v \in over : v \in Nat /\ v <= account.version
          BY <1>0, <2>7, <3>1
        <4>2. \A v \in call[c].known : v \in Nat /\ v <= account.version
          BY <2>2, <2>6
        <4> QED
          BY <4>1, <4>2
      <3> QED
        BY <1>0, <2>3, <2>5, <3>2
    <2>9. \A v \in access' : v <= account'.version
      <3>1. \A v \in access : v <= account.version
        BY <2>1 DEF VersionsInv
      <3>2. \A v \in access : v \in Nat /\ v <= account.version + 1
        BY <1>0, <2>7, <3>1
      <3> QED
        BY <2>3, <2>5, <3>2
    <2>10. \A d \in Caller : call'[d].op = "refresh" => call'[d].seen <= account'.version
      BY <1>0, <2>1, <2>3, <2>4, <2>6, IdleShape DEF VersionsInv
    <2>11. \A d \in Caller : ~Revokes(d)'
      BY <2>1, <2>4, IdleShape DEF Revokes
    <2> QED
      BY <2>8, <2>9, <2>10, <2>11 DEF VersionsInv
  <1>13. ASSUME NEW c \in Caller, NEW t \in Token, Catch(c, t) \/ Miss(c, t)
         PROVE  VersionsInv'
    <2>1. \A d \in Caller : /\ call'[d].op = call[d].op /\ call'[d].seen = call[d].seen
                            /\ call'[d].known = call[d].known
      BY <1>13 DEF Catch, Miss, Typed, Shape
    <2>2. account' = account /\ over' = over /\ overlapped' = overlapped /\ access' = access
      BY <1>13 DEF Catch, Miss
    <2> QED
      BY <2>1, <2>2 DEF VersionsInv, Revokes
  <1> QED
    BY <1>1, <1>2, <1>3, <1>4, <1>5, <1>6, <1>7, <1>8, <1>9, <1>11, <1>12, <1>13 DEF SessionsNext

-----------------------------------------------------------------------------
(* Whoever does not log in leaves the attempts alone. *)
LEMMA OthersKeepAttempts ==
  ASSUME Typed, AttemptsInv, NEW c \in Caller, call'[c].op # "login",
         \A d \in Caller \ {c} : call'[d] = call[d],
         account'.failed = account.failed, account'.locked = account.locked, wrong' = wrong,
         accountLock' = accountLock \/ (accountLock = c /\ accountLock' = Nobody)
  PROVE  AttemptsInv'
  BY DEF AttemptsInv

(* What is known of the attempts stays true. *)
LEMMA AttemptsKept ==
  ASSUME Typed, AttemptsInv, [SessionsNext]_sessionVars
  PROVE  AttemptsInv'
  <1>0. account.version \in Nat /\ account.failed \in Nat /\ account.locked \in BOOLEAN /\ account \in Row
    BY DEF Typed, Row
  <1>1. CASE UNCHANGED sessionVars
    BY <1>1 DEF sessionVars, AttemptsInv
  <1>2. CASE LockoutEnds \/ Activate
    <2>1. account'.failed = account.failed /\ (account'.locked => account.locked)
      BY <1>0, <1>2 DEF LockoutEnds, Activate, Row
    <2> QED
      BY <1>2, <2>1 DEF LockoutEnds, Activate, AttemptsInv
  <1>3. ASSUME NEW c \in Caller, BeginLogin(c)
        PROVE  AttemptsInv'
    <2> PICK q : q = [Idle EXCEPT !.op = "login", !.seen = account.failed]
      OBVIOUS
    <2>1. q.op = "login" /\ q.seen = account.failed
      BY DEF Idle
    <2>2. \A d \in Caller : call'[d] = IF d = c THEN q ELSE call[d]
      BY <1>3 DEF BeginLogin, Typed
    <2>3. \A d \in Caller : call[d].op # "login"
      BY <1>3, SessionsAssumption DEF BeginLogin, AttemptsInv
    <2>4. accountLock' = c /\ account' = account /\ wrong' = wrong
      BY <1>3 DEF BeginLogin, HeldBy
    <2> QED
      BY <2>1, <2>2, <2>3, <2>4 DEF AttemptsInv
  <1>4. ASSUME NEW c \in Caller, NEW op \in Ops \ {"login"}, NEW families,
               \/ BeginLogoutAll(c) \/ BeginDeactivate(c)
               \/ \E t \in Token : BeginRefresh(c, t)
               \/ /\ Find(c, op, families)
                  /\ UNCHANGED <<account, accountLock, wrong>>
        PROVE  AttemptsInv'
    <2>1. account' = account /\ accountLock' = accountLock /\ wrong' = wrong
      BY <1>4 DEF BeginLogoutAll, BeginDeactivate, BeginRefresh
    <2>2. \A d \in Caller \ {c} : call'[d] = call[d]
      BY <1>4 DEF BeginLogoutAll, BeginDeactivate, BeginRefresh, Find, Typed
    <2>3. call'[c].op # "login"
      <3>1. CASE BeginLogoutAll(c)
        <4>1. [Idle EXCEPT !.op = "logoutAll", !.seen = account.version, !.known = access].op = "logoutAll"
          BY DEF Idle
        <4> QED
          BY <3>1, <4>1 DEF BeginLogoutAll, Typed
      <3>2. CASE BeginDeactivate(c)
        <4>1. [Idle EXCEPT !.op = "deactivate", !.seen = account.version, !.known = access, !.off = TRUE].op = "deactivate"
          BY DEF Idle
        <4> QED
          BY <3>2, <4>1 DEF BeginDeactivate, Typed
      <3>4. CASE \E t \in Token : BeginRefresh(c, t)
        <4> PICK t \in Token : BeginRefresh(c, t)
          BY <3>4
        <4>1. [Idle EXCEPT !.op = "refresh", !.token = t, !.seen = account.version].op = "refresh"
          BY DEF Idle
        <4> QED
          BY <4>1 DEF BeginRefresh, Typed
      <3>3. CASE Find(c, op, families)
        BY <3>3 DEF Find, Typed, Shape
      <3> QED
        BY <1>4, <3>1, <3>2, <3>3, <3>4
    <2> QED
      BY <2>1, <2>2, <2>3, OthersKeepAttempts
  <1>5. ASSUME NEW c \in Caller, FindAll(c) \/ \E t \in Token : BeginRevoke(c, t)
        PROVE  AttemptsInv'
    BY <1>4, <1>5 DEF FindAll, BeginRevoke, Ops
  <1>6. ASSUME NEW c \in Caller, Leave(c)
        PROVE  /\ \A d \in Caller \ {c} : call'[d] = call[d]
               /\ call'[c].op # "login"
               /\ accountLock' = accountLock \/ (accountLock = c /\ accountLock' = Nobody)
    BY <1>6, IdleShape DEF Leave, Typed
  <1>7. ASSUME NEW c \in Caller, Refresh(c) \/ Revoke(c) \/ RevokeAll(c) \/ Abandon(c)
        PROVE  AttemptsInv'
    <2>1. account'.failed = account.failed /\ account'.locked = account.locked /\ wrong' = wrong
      BY <1>0, <1>7 DEF Refresh, Revoke, RevokeAll, Abandon, Row
    <2>2. Leave(c)
      BY <1>7 DEF Refresh, Revoke, RevokeAll, Abandon
    <2> QED
      BY <1>6, <2>1, <2>2, OthersKeepAttempts
  <1>8. ASSUME NEW c \in Caller, Login(c) \/ WrongPassword(c)
        PROVE  AttemptsInv'
    <2>1. accountLock = c /\ call[c].seen = account.failed /\ Leave(c)
      BY <1>8 DEF AttemptsInv, Login, WrongPassword
    <2>2. \A d \in Caller : call'[d].op # "login"
      BY <1>6, <2>1, SessionsAssumption DEF AttemptsInv
    <2>3. /\ account'.failed = wrong' /\ wrong' < MaxFailed
          /\ account'.locked => wrong' = 0
      <3>1. CASE Login(c)
        BY <1>0, <3>1, SessionsAssumption DEF Login, Row
      <3>2. CASE WrongPassword(c)
        <4>1. account' = Failed(account.failed) /\ wrong' = IF account'.locked THEN 0 ELSE wrong + 1
          BY <3>2, <2>1 DEF WrongPassword
        <4>2. CASE account.locked
          BY <4>1, <4>2, SessionsAssumption DEF Failed, AttemptsInv
        <4>3. CASE ~account.locked /\ account.failed + 1 >= MaxFailed
          BY <1>0, <4>1, <4>3, SessionsAssumption DEF Failed, Row
        <4>4. CASE ~account.locked /\ ~(account.failed + 1 >= MaxFailed)
          <5>1. account'.failed = account.failed + 1 /\ account'.locked = account.locked
            BY <1>0, <4>1, <4>4 DEF Failed, Row
          <5> QED
            BY <1>0, <4>1, <4>4, <5>1, SessionsAssumption DEF AttemptsInv
        <4> QED
          BY <4>2, <4>3, <4>4
      <3> QED
        BY <1>8, <3>1, <3>2
    <2> QED
      BY <2>2, <2>3 DEF AttemptsInv
  <1>9. ASSUME NEW c \in Caller, NEW t \in Token, Catch(c, t) \/ Miss(c, t)
        PROVE  AttemptsInv'
    <2>1. \A d \in Caller : call'[d].op = call[d].op /\ call'[d].seen = call[d].seen
      BY <1>9 DEF Catch, Miss, Typed, Shape
    <2>2. account' = account /\ accountLock' = accountLock /\ wrong' = wrong
      BY <1>9 DEF Catch, Miss
    <2> QED
      BY <2>1, <2>2 DEF AttemptsInv
  <1> QED
    BY <1>1, <1>2, <1>3, <1>4, <1>5, <1>7, <1>8, <1>9, IdleShape DEF SessionsNext, Ops

-----------------------------------------------------------------------------
LEMMA SoundAtFirst == SessionsInit => Sound
  <1> SUFFICES ASSUME SessionsInit PROVE Sound
    OBVIOUS
  <1>1. Typed
    BY IdleShape DEF SessionsInit, Typed, Row, TokenRow
  <1>2. \A c \in Caller : call[c] = Idle
    BY DEF SessionsInit
  <1>3. \A t \in Token : token[t].state = "NONE"
    BY DEF SessionsInit
  <1>4. TokensInv
    BY <1>2, <1>3, IdleShape
       DEF SessionsInit, TokensInv, FamiliesIssued, RefreshHolds, CaughtOK, FoundAll, OneLivePerFamily,
           EndedStaysEnded, Live, Issue
  <1>5. VersionsInv
    BY <1>2, IdleShape DEF SessionsInit, VersionsInv, Revokes
  <1>6. AttemptsInv
    BY <1>2, IdleShape, SessionsAssumption DEF SessionsInit, AttemptsInv
  <1> QED
    BY <1>1, <1>4, <1>5, <1>6 DEF Sound

(* The invariant. *)
THEOREM SoundAlways == SessionsSpec => []Sound
  <1>1. Sound /\ [SessionsNext]_sessionVars => Sound'
    BY TypedKept, TokensKept, VersionsKept, AttemptsKept DEF Sound, TokensInv
  <1> QED
    BY <1>1, SoundAtFirst, PTL DEF SessionsSpec

(* Of two refreshes with one token the second finds it replaced, and no      *)
(* refresh brings back a family that a revocation has ended, however many    *)
(* requests there are: RefreshTokensHold for every value of the constants.   *)
THEOREM RefreshTokensSafe == SessionsSpec => []RefreshTokensHold
  <1>1. Sound => RefreshTokensHold
    BY DEF Sound, TokensInv, RefreshTokensHold
  <1> QED
    BY <1>1, SoundAlways, PTL

(* An access token from before a revocation is refused after it, unless      *)
(* revocations overlapped: OldAccessEnds for every value of the constants.   *)
THEOREM OldAccessRefused == SessionsSpec => []OldAccessEnds
  <1>1. Sound => OldAccessEnds
    BY DEF Sound, Typed, Row, VersionsInv, OldAccessEnds
  <1> QED
    BY <1>1, SoundAlways, PTL

(* Every wrong password counts, whatever logins run at the same time:        *)
(* AttemptsAreCounted for every value of the constants.                      *)
THEOREM AttemptsCounted == SessionsSpec => []AttemptsAreCounted
  <1>1. Sound => AttemptsAreCounted
    BY DEF Sound, AttemptsInv, AttemptsAreCounted
  <1> QED
    BY <1>1, SoundAlways, PTL

-----------------------------------------------------------------------------
(* The versions stay within their bound: a revocation reads one that may     *)
(* still rise, and raises the one it has read, once.                         *)
InTime(q) ==
  /\ q.known \subseteq Version
  /\ q.op = "refresh" => q.seen \in Version
  /\ q.op \in {"logoutAll", "deactivate", "revokingAll"} => q.seen < MaxVersion
  /\ q.op \in {"idle", "revoking"} => q.seen = 0

Within ==
  /\ account.version \in Version
  /\ accountLock \in Caller \cup {Nobody}
  /\ access \subseteq Version /\ over \subseteq Version
  /\ \A c \in Caller : InTime(call[c])

LEMMA InTimeKept ==
  ASSUME Typed, Within, NEW c \in Caller, NEW q, InTime(q), call' = [call EXCEPT ![c] = q]
  PROVE  \A d \in Caller : InTime(call'[d])
  <1>1. \A d \in Caller : call'[d] = IF d = c THEN q ELSE call[d]
    BY DEF Typed
  <1> QED
    BY <1>1 DEF Within

LEMMA LeaveInTime ==
  ASSUME Typed, Within, NEW c \in Caller, Leave(c)
  PROVE  accountLock' \in Caller \cup {Nobody} /\ \A d \in Caller : InTime(call'[d])
  <1>1. InTime(Idle)
    BY DEF InTime, Idle
  <1> QED
    BY <1>1, InTimeKept DEF Leave, Within

LEMMA FindInTime ==
  ASSUME Typed, Within, NEW c \in Caller, NEW op, NEW families, Find(c, op, families),
         (call[c].op = "idle" /\ op = "revoking") \/ (call[c].op \in {"logoutAll", "deactivate"} /\ op = "revokingAll")
  PROVE  \A d \in Caller : InTime(call'[d])
  <1> PICK found : found = {t \in Live : token[t].family \in families}
    OBVIOUS
  <1> PICK q : q = [call[c] EXCEPT !.op = op, !.caught = {}, !.covers = families, !.targets = found]
    OBVIOUS
  <1>1. call' = [call EXCEPT ![c] = q]
    BY DEF Find
  <1>2. call[c] \in Shape
    BY DEF Typed
  <1>3. q.op = op /\ q.seen = call[c].seen /\ q.known = call[c].known
    BY <1>2 DEF Shape
  <1>4. InTime(call[c])
    BY DEF Within
  <1>5. InTime(q)
    BY <1>3, <1>4 DEF InTime
  <1> QED
    BY <1>1, <1>5, InTimeKept

LEMMA WithinKept ==
  ASSUME Sound, Within, [SessionsNext]_sessionVars
  PROVE  Within'
  <1>0. Typed /\ account.version \in Nat /\ MaxVersion \in Nat
    BY SessionsAssumption DEF Sound, Typed, Row
  <1>1. CASE UNCHANGED sessionVars
    BY <1>1 DEF sessionVars, Within, InTime
  <1>2. CASE LockoutEnds \/ Activate
    <2>1. account'.version = account.version /\ UNCHANGED <<accountLock, call, access, over>>
      BY <1>0, <1>2 DEF LockoutEnds, Activate, Typed, Row
    <2> QED
      BY <2>1 DEF Within, InTime
  <1>3. ASSUME NEW c \in Caller, BeginLogin(c) PROVE Within'
    <2> PICK q : q = [Idle EXCEPT !.op = "login", !.seen = account.failed]
      OBVIOUS
    <2>1. InTime(q)
      BY DEF InTime, Idle
    <2>2. \A d \in Caller : InTime(call'[d])
      BY <1>0, <1>3, <2>1, InTimeKept DEF BeginLogin
    <2>3. accountLock' = c /\ UNCHANGED <<account, access, over>>
      BY <1>3 DEF BeginLogin, HeldBy
    <2> QED
      BY <2>2, <2>3 DEF Within
  <1>4. ASSUME NEW c \in Caller, WrongPassword(c) PROVE Within'
    <2>1. account'.version = account.version
      BY <1>0, <1>4 DEF WrongPassword, Failed, Typed, Row
    <2>2. Leave(c) /\ UNCHANGED <<access, over>>
      BY <1>4 DEF WrongPassword
    <2> QED
      BY <1>0, <2>1, <2>2, LeaveInTime DEF Within
  <1>5. ASSUME NEW c \in Caller, Login(c) PROVE Within'
    <2>1. account'.version = account.version /\ access' = access \cup {account.version}
      BY <1>0, <1>5 DEF Login, Typed, Row
    <2>2. Leave(c) /\ over' = over
      BY <1>5 DEF Login
    <2> QED
      BY <1>0, <2>1, <2>2, LeaveInTime DEF Within
  <1>6. ASSUME NEW c \in Caller, Refresh(c) PROVE Within'
    <2>1. call[c].seen \in Version
      BY <1>6 DEF Refresh, Within, InTime
    <2>2. Leave(c) /\ access' = access \cup {call[c].seen} /\ UNCHANGED <<account, over>>
      BY <1>6 DEF Refresh
    <2> QED
      BY <1>0, <2>1, <2>2, LeaveInTime DEF Within
  <1>7. ASSUME NEW c \in Caller, Revoke(c) \/ Abandon(c) PROVE Within'
    <2>1. Leave(c) /\ UNCHANGED <<account, access, over>>
      BY <1>7 DEF Revoke, Abandon
    <2> QED
      BY <1>0, <2>1, LeaveInTime DEF Within
  <1>8. ASSUME NEW c \in Caller, BeginLogoutAll(c) \/ BeginDeactivate(c) PROVE Within'
    <2>1. PICK q : /\ call' = [call EXCEPT ![c] = q]
                   /\ q.op \in {"logoutAll", "deactivate"} /\ q.seen = account.version /\ q.known = access
      <3>1. CASE BeginLogoutAll(c)
        <4> PICK q : q = [Idle EXCEPT !.op = "logoutAll", !.seen = account.version, !.known = access]
          OBVIOUS
        <4>1. q.op = "logoutAll" /\ q.seen = account.version /\ q.known = access
          BY DEF Idle
        <4> QED
          BY <3>1, <4>1 DEF BeginLogoutAll
      <3>2. CASE BeginDeactivate(c)
        <4> PICK q : q = [Idle EXCEPT !.op = "deactivate", !.seen = account.version, !.known = access, !.off = TRUE]
          OBVIOUS
        <4>1. q.op = "deactivate" /\ q.seen = account.version /\ q.known = access
          BY DEF Idle
        <4> QED
          BY <3>2, <4>1 DEF BeginDeactivate
      <3> QED
        BY <1>8, <3>1, <3>2
    <2>2. account.version < MaxVersion /\ UNCHANGED <<account, accountLock, access, over>>
      BY <1>8 DEF BeginLogoutAll, BeginDeactivate
    <2>3. InTime(q)
      BY <2>1, <2>2 DEF InTime, Within
    <2>4. \A d \in Caller : InTime(call'[d])
      BY <1>0, <2>1, <2>3, InTimeKept
    <2> QED
      BY <2>2, <2>4 DEF Within
  <1>9. ASSUME NEW c \in Caller, FindAll(c) PROVE Within'
    <2>1. \A d \in Caller : InTime(call'[d])
      BY <1>0, <1>9, FindInTime DEF FindAll
    <2> QED
      BY <1>9, <2>1 DEF FindAll, Within
  <1>10. ASSUME NEW c \in Caller, RevokeAll(c) PROVE Within'
    <2>1. call[c].seen < MaxVersion /\ call[c].known \subseteq Version /\ call[c].seen \in Nat
      BY <1>0, <1>10 DEF RevokeAll, Within, InTime, Typed, Shape
    <2>2. account'.version = call[c].seen + 1
      BY <1>0, <1>10 DEF RevokeAll, Raised, Typed, Row
    <2>3. account'.version \in Version
      BY <1>0, <2>1, <2>2 DEF Version
    <2>4. Leave(c) /\ access' = access /\ over' = over \cup call[c].known
      BY <1>10 DEF RevokeAll
    <2> QED
      BY <1>0, <2>1, <2>3, <2>4, LeaveInTime DEF Within
  <1>11. ASSUME NEW c \in Caller, NEW t \in Token, BeginRefresh(c, t) PROVE Within'
    <2> PICK q : q = [Idle EXCEPT !.op = "refresh", !.token = t, !.seen = account.version]
      OBVIOUS
    <2>1. InTime(q)
      BY DEF InTime, Idle, Within
    <2>2. \A d \in Caller : InTime(call'[d])
      BY <1>0, <1>11, <2>1, InTimeKept DEF BeginRefresh
    <2> QED
      BY <1>11, <2>2 DEF BeginRefresh, Within
  <1>12. ASSUME NEW c \in Caller, NEW t \in Token, BeginRevoke(c, t) PROVE Within'
    <2>1. \A d \in Caller : InTime(call'[d])
      BY <1>0, <1>12, FindInTime, IdleShape DEF BeginRevoke
    <2> QED
      BY <1>12, <2>1 DEF BeginRevoke, Within
  <1>13. ASSUME NEW c \in Caller, NEW t \in Token, Catch(c, t) \/ Miss(c, t) PROVE Within'
    <2>1. \A d \in Caller : /\ call'[d].op = call[d].op /\ call'[d].seen = call[d].seen
                            /\ call'[d].known = call[d].known
      BY <1>0, <1>13 DEF Catch, Miss, Typed, Shape
    <2>2. UNCHANGED <<account, accountLock, access, over>>
      BY <1>13 DEF Catch, Miss
    <2> QED
      BY <2>1, <2>2 DEF Within, InTime
  <1> QED
    BY <1>1, <1>2, <1>3, <1>4, <1>5, <1>6, <1>7, <1>8, <1>9, <1>10, <1>11, <1>12, <1>13 DEF SessionsNext

(* Every row of the user, every token and every request is well formed, for  *)
(* any numbers of requests and tokens.                                       *)
THEOREM SessionsTypes == SessionsSpec => []SessionsTypeOK
  <1>1. SessionsInit => Within
    BY SessionsAssumption DEF SessionsInit, Within, InTime, Idle, Version
  <1>2. Sound /\ Within => SessionsTypeOK
    <2> SUFFICES ASSUME Sound, Within PROVE SessionsTypeOK
      OBVIOUS
    <2>1. Typed /\ AttemptsInv /\ MaxFailed \in Nat /\ MaxVersion \in Nat
      BY SessionsAssumption DEF Sound
    <2>2. account.failed \in 0..(MaxFailed - 1)
      BY <2>1 DEF AttemptsInv, Typed
    <2>3. account \in Accounts
      BY <2>1, <2>2 DEF Within, Typed, Row, Accounts
    <2>4. ASSUME NEW c \in Caller PROVE call[c] \in Calls
      <3>1. call[c] \in Shape /\ InTime(call[c])
        BY <2>1 DEF Typed, Within
      <3>2. call[c].seen \in Version \cup 0..(MaxFailed - 1)
        <4>1. CASE call[c].op = "login"
          BY <2>1, <2>2, <4>1 DEF AttemptsInv
        <4>2. CASE call[c].op # "login"
          BY <2>1, <3>1, <4>2 DEF InTime, Shape, Ops, Version
        <4> QED
          BY <4>1, <4>2
      <3> QED
        BY <3>1, <3>2 DEF InTime, Shape, Calls
    <2>5. call \in [Caller -> Calls]
      BY <2>1, <2>4 DEF Typed
    <2> QED
      BY <2>1, <2>3, <2>5 DEF SessionsTypeOK, Typed, Within
  <1>3. Within /\ Sound /\ [SessionsNext]_sessionVars => Within'
    BY WithinKept
  <1> QED
    BY <1>1, <1>2, <1>3, SoundAlways, PTL DEF SessionsSpec

-----------------------------------------------------------------------------
(***************************************************************************)
(* Idempotency, for any number of senders, bodies and repetitions: who     *)
(* works without having inserted the key has found it purged.              *)
(***************************************************************************)

(* A request that is under way knows what it asks for. *)
Asked == \A s \in Sender : sender[s].at # "nowhere" => sender[s].body \in Body

(* The row is inserted by the one request that works for it, while there is  *)
(* no committed one.                                                         *)
OneInserts ==
  /\ \A s \in Sender : sender[s].owns => inserting = s /\ sender[s].at = "working"
  /\ inserting # Nothing => keyRow = Nothing /\ sender[inserting].owns

(* As long as the key is kept: its row stands for the only thing done, and   *)
(* nobody works without it.                                                  *)
RowTells ==
  /\ keyRow = Nothing => did = <<>>
  /\ keyRow # Nothing => Len(did) = 1 /\ did[keyRow.answer] = keyRow.body
  /\ \A s \in Sender : /\ sender[s].at = "working" => sender[s].owns
                       /\ sender[s].at = "found" => keyRow # Nothing

Kept ==
  /\ IdempotencyTypeOK
  /\ Asked
  /\ OneInserts
  /\ FoundKeysAreAnswered
  /\ AnswersAreTrue
  /\ ~purged => RowTells

(* A request that is not under way, whatever it is going to ask for. *)
LEMMA NotSentTypes ==
  ASSUME NEW b \in Body \cup {Nothing}
  PROVE  LET q == [NotSent EXCEPT !.body = b]
         IN  q \in Requests /\ q.at = "nowhere" /\ ~q.owns /\ q.body = b
  <1>1. NotSent \in Requests
    BY IdempotencyAssumption DEF NotSent, Requests, Answer
  <1>2. NotSent.at = "nowhere" /\ ~NotSent.owns
    BY DEF NotSent
  <1> QED
    BY <1>1, <1>2 DEF Requests

(* The invariant holds at first. *)
LEMMA KeptAtFirst == IdempotencyInit => Kept
  <1> SUFFICES ASSUME IdempotencyInit PROVE Kept
    OBVIOUS
  <1>1. IdempotencyTypeOK
    <2>1. NotSent \in Requests
      BY IdempotencyAssumption DEF NotSent, Requests, Answer
    <2>2. did \in Seq(Body) /\ Len(did) <= MaxMade
      BY IdempotencyAssumption DEF IdempotencyInit
    <2> QED
      BY <2>1, <2>2 DEF IdempotencyInit, IdempotencyTypeOK, KeyRows
  <1>2. Asked /\ OneInserts /\ FoundKeysAreAnswered /\ AnswersAreTrue
    BY IdempotencyAssumption
       DEF IdempotencyInit, NotSent, Asked, OneInserts, FoundKeysAreAnswered, AnswersAreTrue
  <1>3. RowTells
    BY DEF IdempotencyInit, NotSent, RowTells
  <1> QED
    BY <1>1, <1>2, <1>3 DEF Kept

(* What the request of one sender becomes leaves the others alone. *)
LEMMA SenderTypes ==
  ASSUME IdempotencyTypeOK, NEW s \in Sender, NEW q \in Requests
  PROVE  [sender EXCEPT ![s] = q] \in [Sender -> Requests]
  BY DEF IdempotencyTypeOK

LEMMA SendKeeps ==
  ASSUME Kept, NEW s \in Sender, NEW body \in Body, Send(s, body)
  PROVE  Kept'
  <1> DEFINE q == [sender[s] EXCEPT !.at = "sent", !.body = body]
  <1> USE IdempotencyAssumption
  <1>0. /\ sender' = [sender EXCEPT ![s] = q]
        /\ keyRow' = keyRow /\ inserting' = inserting /\ did' = did /\ purged' = purged
        /\ sender[s] \in Requests /\ sender[s].at = "nowhere"
    BY DEF Send, Kept, IdempotencyTypeOK
  <1>1. q \in Requests /\ q.at = "sent" /\ q.body = body /\ q.owns = sender[s].owns
    BY <1>0 DEF Requests
  <1>2. ~sender[s].owns
    BY <1>0 DEF Kept, OneInserts
  <1>3. \A r \in Sender : sender'[r] = IF r = s THEN q ELSE sender[r]
    BY <1>0 DEF Kept, IdempotencyTypeOK
  <1> HIDE DEF q
  <1>4. IdempotencyTypeOK'
    BY <1>0, <1>1, SenderTypes DEF Kept, IdempotencyTypeOK
  <1>5. Asked' /\ AnswersAreTrue'
    BY <1>0, <1>1, <1>3 DEF Kept, Asked, AnswersAreTrue
  <1>6. OneInserts'
    BY <1>0, <1>1, <1>2, <1>3 DEF Kept, OneInserts, IdempotencyTypeOK
  <1>7. FoundKeysAreAnswered' /\ (~purged' => RowTells')
    BY <1>0, <1>1, <1>3 DEF Kept, FoundKeysAreAnswered, RowTells
  <1> QED
    BY <1>4, <1>5, <1>6, <1>7 DEF Kept

LEMMA InsertKeeps ==
  ASSUME Kept, NEW s \in Sender, InsertKey(s)
  PROVE  Kept'
  <1> USE IdempotencyAssumption
  <1>0. /\ keyRow' = keyRow /\ did' = did /\ purged' = purged
        /\ sender[s] \in Requests /\ sender[s].at = "sent" /\ inserting = Nothing
        /\ sender \in [Sender -> Requests]
    BY DEF InsertKey, NobodyInserts, Kept, IdempotencyTypeOK
  <1>1. CASE keyRow = Nothing
    <2> DEFINE q == [sender[s] EXCEPT !.at = "working", !.owns = TRUE]
    <2>1. inserting' = s /\ sender' = [sender EXCEPT ![s] = q]
      BY <1>0, <1>1 DEF InsertKey
    <2>2. q \in Requests /\ q.at = "working" /\ q.owns /\ q.body = sender[s].body
      BY <1>0 DEF Requests
    <2>3. \A r \in Sender : sender'[r] = IF r = s THEN q ELSE sender[r]
      BY <1>0, <2>1
    <2> HIDE DEF q
    <2>4. \A r \in Sender : ~sender[r].owns
      BY <1>0 DEF Kept, OneInserts
    <2>5. IdempotencyTypeOK'
      BY <1>0, <2>1, <2>2, SenderTypes DEF Kept, IdempotencyTypeOK
    <2>6. Asked' /\ AnswersAreTrue'
      BY <1>0, <2>2, <2>3 DEF Kept, Asked, AnswersAreTrue
    <2>7. OneInserts'
      BY <1>0, <1>1, <2>1, <2>2, <2>3, <2>4 DEF OneInserts
    <2>8. FoundKeysAreAnswered' /\ (~purged' => RowTells')
      BY <1>0, <2>2, <2>3 DEF Kept, FoundKeysAreAnswered, RowTells
    <2> QED
      BY <2>5, <2>6, <2>7, <2>8 DEF Kept
  <1>2. CASE keyRow # Nothing
    <2> DEFINE q == [sender[s] EXCEPT !.at = "found"]
    <2>1. inserting' = inserting /\ sender' = [sender EXCEPT ![s] = q]
      BY <1>0, <1>2 DEF InsertKey
    <2>2. q \in Requests /\ q.at = "found" /\ q.owns = sender[s].owns /\ q.body = sender[s].body
      BY <1>0 DEF Requests
    <2>3. \A r \in Sender : sender'[r] = IF r = s THEN q ELSE sender[r]
      BY <1>0, <2>1
    <2> HIDE DEF q
    <2>4. \A r \in Sender : ~sender[r].owns
      BY <1>0 DEF Kept, OneInserts
    <2>5. IdempotencyTypeOK'
      BY <1>0, <2>1, <2>2, SenderTypes DEF Kept, IdempotencyTypeOK
    <2>6. Asked' /\ AnswersAreTrue'
      BY <1>0, <2>2, <2>3 DEF Kept, Asked, AnswersAreTrue
    <2>7. OneInserts'
      BY <1>0, <2>1, <2>2, <2>3, <2>4 DEF OneInserts
    <2>8. FoundKeysAreAnswered' /\ (~purged' => RowTells')
      BY <1>0, <1>2, <2>2, <2>3 DEF Kept, FoundKeysAreAnswered, RowTells
    <2> QED
      BY <2>5, <2>6, <2>7, <2>8 DEF Kept
  <1> QED
    BY <1>1, <1>2

LEMMA LookKeeps ==
  ASSUME Kept, NEW s \in Sender, LookAtKey(s)
  PROVE  Kept'
  <1> USE IdempotencyAssumption
  <1>0. /\ keyRow' = keyRow /\ did' = did /\ purged' = purged /\ inserting' = inserting
        /\ sender[s] \in Requests /\ sender[s].at = "found" /\ ~sender[s].owns
        /\ sender \in [Sender -> Requests] /\ keyRow \in KeyRows /\ sender[s].body \in Body
    BY DEF LookAtKey, Kept, IdempotencyTypeOK, OneInserts, Asked
  <1>1. PICK q \in Requests :
          /\ sender' = [sender EXCEPT ![s] = q]
          /\ q.body = sender[s].body /\ ~q.owns
          /\ \/ q.at = "working" /\ keyRow = Nothing
             \/ q.at = "refused"
             \/ /\ q.at = "answered" /\ keyRow # Nothing
                /\ keyRow.body = q.body /\ q.answer = keyRow.answer
    <2>1. CASE keyRow = Nothing
      <3> DEFINE q == [sender[s] EXCEPT !.at = "working"]
      <3>1. q \in Requests /\ q.body = sender[s].body /\ q.owns = sender[s].owns /\ q.at = "working"
        BY <1>0 DEF Requests
      <3>2. sender' = [sender EXCEPT ![s] = q]
        BY <1>0, <2>1 DEF LookAtKey
      <3> QED
        BY <1>0, <2>1, <3>1, <3>2
    <2>2. CASE keyRow # Nothing /\ (~SameRequest(keyRow, sender[s].body) \/ keyRow.answer = 0)
      <3> DEFINE q == [sender[s] EXCEPT !.at = "refused"]
      <3>1. q \in Requests /\ q.body = sender[s].body /\ q.owns = sender[s].owns /\ q.at = "refused"
        BY <1>0 DEF Requests
      <3>2. sender' = [sender EXCEPT ![s] = q]
        BY <1>0, <2>2 DEF LookAtKey
      <3> QED
        BY <1>0, <3>1, <3>2
    <2>3. CASE keyRow # Nothing /\ SameRequest(keyRow, sender[s].body) /\ keyRow.answer # 0
      <3> DEFINE q == [sender[s] EXCEPT !.at = "answered", !.answer = keyRow.answer]
      <3>1. keyRow.answer \in Answer
        BY <1>0, <2>3 DEF KeyRows
      <3>2. /\ q \in Requests /\ q.body = sender[s].body /\ q.owns = sender[s].owns
            /\ q.at = "answered" /\ q.answer = keyRow.answer
        BY <1>0, <3>1 DEF Requests
      <3>3. sender' = [sender EXCEPT ![s] = q]
        BY <1>0, <2>3 DEF LookAtKey
      <3> QED
        BY <1>0, <2>3, <3>2, <3>3 DEF SameRequest
    <2> QED
      BY <2>1, <2>2, <2>3
  <1>2. \A r \in Sender : sender'[r] = IF r = s THEN q ELSE sender[r]
    BY <1>0, <1>1
  <1>3. IdempotencyTypeOK'
    BY <1>0, <1>1, SenderTypes DEF Kept, IdempotencyTypeOK
  <1>4. Asked'
    BY <1>0, <1>1, <1>2 DEF Kept, Asked
  <1>5. OneInserts'
    BY <1>0, <1>1, <1>2 DEF Kept, OneInserts, IdempotencyTypeOK
  <1>6. AnswersAreTrue'
    BY <1>0, <1>1, <1>2 DEF Kept, AnswersAreTrue, FoundKeysAreAnswered, RowTells
  <1>7. FoundKeysAreAnswered' /\ (~purged' => RowTells')
    BY <1>0, <1>1, <1>2 DEF Kept, FoundKeysAreAnswered, RowTells
  <1> QED
    BY <1>3, <1>4, <1>5, <1>6, <1>7 DEF Kept

LEMMA CompleteKeeps ==
  ASSUME Kept, NEW s \in Sender, Complete(s)
  PROVE  Kept'
  <1> USE IdempotencyAssumption
  <1> DEFINE n == Len(did) + 1
             b == sender[s].body
  <1>0. /\ did' = Append(did, b) /\ purged' = purged /\ keyRow' = Completed(s, n)
        /\ inserting' = IF sender[s].owns THEN Nothing ELSE inserting
        /\ sender[s] \in Requests /\ sender[s].at = "working"
        /\ sender \in [Sender -> Requests] /\ keyRow \in KeyRows /\ b \in Body
        /\ did \in Seq(Body) /\ Len(did) < MaxMade /\ Len(did) <= MaxMade
    BY DEF Complete, Kept, IdempotencyTypeOK, Asked
  <1>1. /\ did' \in Seq(Body) /\ Len(did') = n /\ did'[n] = b /\ n \in Answer /\ n \in DOMAIN did'
        /\ \A i \in DOMAIN did : i \in DOMAIN did' /\ did'[i] = did[i]
    BY <1>0 DEF Answer
  <1>2. PICK q \in Requests :
          /\ sender' = [sender EXCEPT ![s] = q]
          /\ q.body = b /\ ~q.owns
          /\ q.at = "nowhere" \/ (q.at = "answered" /\ q.answer = n)
    <2> DEFINE told == [sender[s] EXCEPT !.at = "answered", !.owns = FALSE, !.answer = n]
               lost == [NotSent EXCEPT !.body = b]
    <2>1. told \in Requests /\ told.body = b /\ ~told.owns /\ told.at = "answered" /\ told.answer = n
      BY <1>0, <1>1 DEF Requests
    <2>2. lost \in Requests /\ lost.body = b /\ ~lost.owns /\ lost.at = "nowhere"
      BY <1>0, NotSentTypes
    <2>3. \/ sender' = [sender EXCEPT ![s] = told]
          \/ sender' = [sender EXCEPT ![s] = lost]
      BY DEF Complete
    <2> HIDE DEF told, lost
    <2> QED
      BY <2>1, <2>2, <2>3
  <1>3. \A r \in Sender : sender'[r] = IF r = s THEN q ELSE sender[r]
    BY <1>0, <1>2
  <1>4. /\ keyRow' \in KeyRows
        /\ keyRow' # Nothing => keyRow'.answer \in DOMAIN did'
        /\ sender[s].owns => keyRow' # Nothing /\ keyRow'.answer = n /\ keyRow'.body = b
        /\ ~sender[s].owns => (keyRow' = Nothing <=> keyRow = Nothing)
    <2>1. CASE sender[s].owns
      <3>1. keyRow' = [body |-> b, answer |-> n]
        BY <1>0, <2>1 DEF Completed
      <3>2. [body |-> b, answer |-> n] \in [body : Body, answer : Answer]
        BY <1>0, <1>1
      <3>3. keyRow' # Nothing
        BY <3>1, <3>2 DEF Answer
      <3> QED
        BY <1>1, <2>1, <3>1, <3>2, <3>3 DEF KeyRows
    <2>2. CASE ~sender[s].owns /\ keyRow # Nothing
      <3>1. keyRow \in [body : Body, answer : Answer]
        BY <1>0, <2>2 DEF KeyRows
      <3>2. keyRow' = [keyRow EXCEPT !.answer = n]
        BY <1>0, <2>2 DEF Completed
      <3>3. keyRow' \in [body : Body, answer : Answer] /\ keyRow'.answer = n
        BY <1>1, <3>1, <3>2
      <3> QED
        BY <1>1, <2>2, <3>3 DEF KeyRows, Answer
    <2>3. CASE ~sender[s].owns /\ keyRow = Nothing
      BY <1>0, <2>3 DEF Completed, KeyRows
    <2> QED
      BY <2>1, <2>2, <2>3
  <1> HIDE DEF n, b
  <1>5. IdempotencyTypeOK'
    <2>1. sender' \in [Sender -> Requests]
      BY <1>2, SenderTypes DEF Kept
    <2>2. inserting' \in Sender \cup {Nothing}
      BY <1>0 DEF Kept, IdempotencyTypeOK
    <2>3. Len(did') <= MaxMade
      BY <1>0, <1>1 DEF n
    <2> QED
      BY <1>0, <1>1, <1>4, <2>1, <2>2, <2>3 DEF Kept, IdempotencyTypeOK
  <1>6. Asked'
    BY <1>0, <1>2, <1>3 DEF Kept, Asked
  <1>7. OneInserts'
    BY <1>0, <1>2, <1>3, <1>4 DEF Kept, OneInserts, IdempotencyTypeOK
  <1>8. ~purged => sender[s].owns /\ keyRow = Nothing /\ did = <<>>
    BY <1>0 DEF Kept, RowTells, OneInserts
  <1>9. AnswersAreTrue'
    BY <1>0, <1>1, <1>2, <1>3 DEF Kept, AnswersAreTrue
  <1>10. ~purged' => RowTells'
    <2> SUFFICES ASSUME ~purged PROVE RowTells'
      BY <1>0
    <2>1. n = 1
      BY <1>8 DEF n
    <2>2. \A r \in Sender : r # s => ~sender[r].owns
      BY <1>8 DEF Kept, OneInserts
    <2> QED
      BY <1>0, <1>1, <1>2, <1>3, <1>4, <1>8, <2>1, <2>2 DEF Kept, RowTells
  <1> QED
    BY <1>4, <1>5, <1>6, <1>7, <1>9, <1>10 DEF Kept, FoundKeysAreAnswered

LEMMA FailKeeps ==
  ASSUME Kept, NEW s \in Sender, FailWork(s)
  PROVE  Kept'
  <1> USE IdempotencyAssumption
  <1> DEFINE q == [NotSent EXCEPT !.body = sender[s].body]
  <1>0. /\ sender' = [sender EXCEPT ![s] = q]
        /\ inserting' = IF inserting = s THEN Nothing ELSE inserting
        /\ keyRow' = keyRow /\ did' = did /\ purged' = purged
        /\ sender[s] \in Requests /\ sender \in [Sender -> Requests]
    BY DEF FailWork, Kept, IdempotencyTypeOK
  <1>1. q \in Requests /\ q.at = "nowhere" /\ ~q.owns
    <2>1. sender[s].body \in Body \cup {Nothing}
      BY <1>0 DEF Requests
    <2> QED
      BY <2>1, NotSentTypes
  <1>2. \A r \in Sender : sender'[r] = IF r = s THEN q ELSE sender[r]
    BY <1>0
  <1> HIDE DEF q
  <1>3. IdempotencyTypeOK'
    BY <1>0, <1>1, SenderTypes DEF Kept, IdempotencyTypeOK
  <1>4. Asked' /\ AnswersAreTrue'
    BY <1>0, <1>1, <1>2 DEF Kept, Asked, AnswersAreTrue
  <1>5. OneInserts'
    BY <1>0, <1>1, <1>2 DEF Kept, OneInserts, IdempotencyTypeOK
  <1>6. FoundKeysAreAnswered' /\ (~purged' => RowTells')
    BY <1>0, <1>1, <1>2 DEF Kept, FoundKeysAreAnswered, RowTells
  <1> QED
    BY <1>3, <1>4, <1>5, <1>6 DEF Kept

LEMMA PurgeKeeps ==
  ASSUME Kept, Purge
  PROVE  Kept'
  <1>1. keyRow' = Nothing /\ purged' = TRUE /\ inserting' = inserting /\ sender' = sender /\ did' = did
    BY DEF Purge
  <1> QED
    BY <1>1 DEF Kept, IdempotencyTypeOK, KeyRows, Asked, OneInserts, FoundKeysAreAnswered, AnswersAreTrue

LEMMA StutterKeeps ==
  ASSUME Kept, UNCHANGED idempotencyVars
  PROVE  Kept'
  BY DEF idempotencyVars, Kept, IdempotencyTypeOK, Asked, OneInserts, FoundKeysAreAnswered, AnswersAreTrue, RowTells

LEMMA KeptForever == IdempotencySpec => []Kept
  <1>1. Kept /\ [IdempotencyNext]_idempotencyVars => Kept'
    <2> SUFFICES ASSUME Kept, [IdempotencyNext]_idempotencyVars PROVE Kept'
      OBVIOUS
    <2>1. CASE Purge
      BY <2>1, PurgeKeeps
    <2>2. ASSUME NEW s \in Sender, InsertKey(s) PROVE Kept'
      BY <2>2, InsertKeeps
    <2>3. ASSUME NEW s \in Sender, LookAtKey(s) PROVE Kept'
      BY <2>3, LookKeeps
    <2>4. ASSUME NEW s \in Sender, Complete(s) PROVE Kept'
      BY <2>4, CompleteKeeps
    <2>5. ASSUME NEW s \in Sender, FailWork(s) PROVE Kept'
      BY <2>5, FailKeeps
    <2>6. ASSUME NEW s \in Sender, NEW body \in Body, Send(s, body) PROVE Kept'
      BY <2>6, SendKeeps
    <2>7. CASE UNCHANGED idempotencyVars
      BY <2>7, StutterKeeps
    <2> QED
      BY <2>1, <2>2, <2>3, <2>4, <2>5, <2>6, <2>7 DEF IdempotencyNext
  <1> QED
    BY <1>1, KeptAtFirst, PTL DEF IdempotencySpec

-----------------------------------------------------------------------------
(* What is asked with one key is done once while the key is kept, by however *)
(* many senders and however often it is repeated.                            *)
LEMMA KeyDoneOnce == IdempotencySpec => []DoneOnce
  <1>1. RowTells => Len(did) <= 1
    <2>1. RowTells => did = <<>> \/ Len(did) = 1
      BY DEF RowTells
    <2>2. did = <<>> \/ Len(did) = 1 => Len(did) <= 1
      OBVIOUS
    <2> QED
      BY <2>1, <2>2
  <1>2. Kept => DoneOnce
    BY <1>1 DEF Kept, DoneOnce
  <1> QED
    BY <1>2, KeptForever, PTL

(* A sender is told of what was done, and while the key is kept of what it   *)
(* asked for.                                                                *)
LEMMA AnswersTrue == IdempotencySpec => []AnswersAreTrue
  <1>1. Kept => AnswersAreTrue
    BY DEF Kept
  <1> QED
    BY <1>1, KeptForever, PTL

(* A committed key has the answer to what was done. *)
LEMMA FoundAnswered == IdempotencySpec => []FoundKeysAreAnswered
  <1>1. Kept => FoundKeysAreAnswered
    BY DEF Kept
  <1> QED
    BY <1>1, KeptForever, PTL

(* A request may be repeated with its key. *)
THEOREM KeyServes == IdempotencySpec => []KeyHolds
  <1>1. DoneOnce /\ AnswersAreTrue /\ FoundKeysAreAnswered => KeyHolds
    BY DEF KeyHolds
  <1> QED
    BY <1>1, KeyDoneOnce, AnswersTrue, FoundAnswered, PTL

(* The rows and the requests keep their types. *)
THEOREM IdempotencyTypes == IdempotencySpec => []IdempotencyTypeOK
  <1>1. Kept => IdempotencyTypeOK
    BY DEF Kept
  <1> QED
    BY <1>1, KeptForever, PTL

-----------------------------------------------------------------------------
(***************************************************************************)
(* Catalog, for any numbers of things, editors and imports.                *)
(***************************************************************************)

(* As long as nobody has overtaken him, an editor who has passed the limit  *)
(* may still write.                                                         *)
RoomLeft ==
  \A e \in Editor : editor[e].wants # "nothing" =>
    /\ editor[e].item \in Item
    /\ \A kind \in ItemKind \ raced : KindOf[editor[e].item] = kind => WithinLimit(kind)

(* An import holds only SKUs there are, but for those of a file of products *)
(* that it is going to create.                                              *)
ToBeMade(j, i) ==
  /\ job[j].kind = "products" /\ job[j].status = "PREVIEW"
  /\ job[j].by # Noone => i \in job[j].missing

SkusThere == \A j \in Job : \A i \in job[j].good : item[i] # "NONE" \/ ToBeMade(j, i)

(* The imports that have received a SKU. *)
Received(i) == {j \in Job : job[j].status = "COMMITTED" /\ job[j].kind = "stock" /\ i \in job[j].good}

(* What the two say together: an import that is applied counts once.        *)
Imported ==
  /\ \A i \in Sku : received[i] = Cardinality(Received(i))
  /\ \A j \in Job : job[j].status = "COMMITTED" => \A i \in job[j].good : item[i] # "NONE"

CatalogInv ==
  /\ CatalogTypeOK
  /\ RoomLeft /\ LimitHolds
  /\ SkusThere /\ Imported

LEMMA ImportedTells == Imported => ImportedOnce
  <1> SUFFICES ASSUME Imported PROVE ImportedOnce
    OBVIOUS
  <1> SUFFICES ASSUME NEW i \in Sku
               PROVE  LET told(kind) == {j \in Job : job[j].status = "COMMITTED" /\ job[j].kind = kind
                                                                           /\ i \in job[j].good}
                      IN  /\ received[i] = Cardinality(told("stock"))
                          /\ told("products") \cup told("stock") # {} => item[i] # "NONE"
    BY DEF ImportedOnce
  <1>1. received[i] = Cardinality(Received(i))
    BY DEF Imported
  <1> QED
    BY <1>1 DEF Imported, Received

(* The counts are of finite sets. *)
LEMMA ActiveFinite ==
  \A kind : IsFiniteSet(ActiveOf(kind)) /\ Cardinality(ActiveOf(kind)) \in Nat
  <1> SUFFICES ASSUME NEW kind PROVE IsFiniteSet(ActiveOf(kind)) /\ Cardinality(ActiveOf(kind)) \in Nat
    OBVIOUS
  <1>1. ActiveOf(kind) \in SUBSET Item /\ IsFiniteSet(Item)
    BY CatalogAssumption DEF ActiveOf
  <1> QED
    BY <1>1, FS_Subset, FS_CardinalityType

(* What becomes active after something else is the same or less. *)
LEMMA FewerActive ==
  ASSUME CatalogTypeOK, NEW kind, NEW S \in SUBSET ActiveOf(kind)
  PROVE  Cardinality(S) \in Nat /\ Cardinality(S) <= Cardinality(ActiveOf(kind))
  BY ActiveFinite, FS_Subset, FS_CardinalityType

LEMMA CatalogAtFirst == CatalogInit => CatalogInv
  <1> SUFFICES ASSUME CatalogInit PROVE CatalogInv
    OBVIOUS
  <1>1. CatalogTypeOK
    BY DEF CatalogInit, CatalogTypeOK, NoEdit, Edits, NoJob, Jobs
  <1>2. RoomLeft
    BY DEF CatalogInit, NoEdit, RoomLeft
  <1>3. LimitHolds
    <2>1. \A kind : ActiveOf(kind) = {}
      BY DEF CatalogInit, ActiveOf
    <2> QED
      BY <2>1, FS_EmptySet, CatalogAssumption DEF LimitHolds
  <1>4. SkusThere
    BY DEF CatalogInit, NoJob, SkusThere, ToBeMade
  <1>5. Imported
    <2>1. \A i \in Sku : Received(i) = {}
      BY DEF CatalogInit, NoJob, Received
    <2> QED
      BY <2>1, FS_EmptySet DEF CatalogInit, NoJob, Imported
  <1> QED
    BY <1>1, <1>2, <1>3, <1>4, <1>5 DEF CatalogInv

-----------------------------------------------------------------------------
(* The imports are the same. *)
LEMMA ImportsAlone ==
  ASSUME CatalogInv, job' = job, received' = received,
         \A i \in Item : item[i] # "NONE" => item'[i] # "NONE"
  PROVE  SkusThere' /\ Imported'
  <1>1. \A j \in Job : job[j].good \subseteq Item
    BY DEF CatalogInv, CatalogTypeOK, Jobs, Sku
  <1>2. SkusThere'
    BY <1>1 DEF CatalogInv, SkusThere, ToBeMade
  <1>3. \A i \in Sku : received'[i] = Cardinality(Received(i)')
    BY DEF CatalogInv, Imported, Received
  <1>4. \A j \in Job : job'[j].status = "COMMITTED" => \A i \in job'[j].good : item'[i] # "NONE"
    BY <1>1 DEF CatalogInv, Imported
  <1> QED
    BY <1>2, <1>3, <1>4 DEF Imported

(* What is active is the same. *)
LEMMA ActiveAlone ==
  ASSUME CatalogInv, item' = item, \A kind \in ItemKind : kind \in raced => kind \in raced'
  PROVE  /\ LimitHolds'
         /\ \A e \in Editor : editor'[e] = editor[e] /\ editor[e].wants # "nothing" =>
              /\ editor'[e].item \in Item
              /\ \A kind \in ItemKind \ raced' : KindOf[editor'[e].item] = kind => WithinLimit(kind)'
  <1>1. \A kind : ActiveOf(kind)' = ActiveOf(kind)
    BY DEF ActiveOf
  <1>2. LimitHolds'
    BY <1>1 DEF CatalogInv, LimitHolds
  <1>3. \A kind : WithinLimit(kind)' <=> WithinLimit(kind)
    BY <1>1 DEF WithinLimit
  <1>4. \A kind \in ItemKind \ raced' : kind \notin raced
    OBVIOUS
  <1> QED
    BY <1>2, <1>3, <1>4 DEF CatalogInv, RoomLeft

LEMMA PassesKeeps ==
  ASSUME CatalogInv, NEW e \in Editor, NEW i \in Item, NEW wants \in {"create", "activate"},
         Passes(e, i, wants)
  PROVE  CatalogInv'
  <1>0. /\ WithinLimit(KindOf[i])
        /\ editor' = [editor EXCEPT ![e] = [wants |-> wants, item |-> i]]
        /\ item' = item /\ job' = job /\ received' = received /\ raced' = raced
    BY DEF Passes
  <1>1. [wants |-> wants, item |-> i] \in Edits
    BY DEF Edits
  <1>2. CatalogTypeOK'
    BY <1>0, <1>1 DEF CatalogInv, CatalogTypeOK
  <1>3. /\ editor'[e].item = i
        /\ \A d \in Editor \ {e} : editor'[d] = editor[d]
    BY <1>0 DEF CatalogInv, CatalogTypeOK
  <1>4. WithinLimit(KindOf[i])'
    BY <1>0 DEF WithinLimit, ActiveOf
  <1>5. RoomLeft'
    BY <1>0, <1>3, <1>4, ActiveAlone DEF RoomLeft
  <1>6. LimitHolds'
    BY <1>0, ActiveAlone
  <1>7. SkusThere' /\ Imported'
    BY <1>0, ImportsAlone
  <1> QED
    BY <1>2, <1>5, <1>6, <1>7 DEF CatalogInv

LEMMA WithdrawKeeps ==
  ASSUME CatalogInv, NEW e \in Editor, Withdraw(e)
  PROVE  CatalogInv'
  <1>0. /\ editor' = [editor EXCEPT ![e] = NoEdit]
        /\ item' = item /\ job' = job /\ received' = received /\ raced' = raced
    BY DEF Withdraw
  <1>1. NoEdit \in Edits /\ NoEdit.wants = "nothing"
    BY DEF Edits, NoEdit
  <1>2. CatalogTypeOK'
    BY <1>0, <1>1 DEF CatalogInv, CatalogTypeOK
  <1>3. /\ editor'[e].wants = "nothing"
        /\ \A d \in Editor \ {e} : editor'[d] = editor[d]
    BY <1>0, <1>1 DEF CatalogInv, CatalogTypeOK
  <1>4. RoomLeft'
    BY <1>0, <1>3, ActiveAlone DEF RoomLeft
  <1>5. LimitHolds'
    BY <1>0, ActiveAlone
  <1>6. SkusThere' /\ Imported'
    BY <1>0, ImportsAlone
  <1> QED
    BY <1>2, <1>4, <1>5, <1>6 DEF CatalogInv

LEMMA WriteKeeps ==
  ASSUME CatalogInv, NEW e \in Editor, Write(e)
  PROVE  CatalogInv'
  <1> PICK i : i = editor[e].item
    OBVIOUS
  <1>0. /\ editor[e].wants # "nothing"
        /\ item' = [item EXCEPT ![i] = "ACTIVE"]
        /\ raced' = IF Races(e, KindOf[i]) THEN raced \cup {KindOf[i]} ELSE raced
        /\ editor' = [editor EXCEPT ![e] = NoEdit]
        /\ job' = job /\ received' = received
    BY DEF Write
  <1>1. i \in Item /\ KindOf[i] \in ItemKind /\ Limit \in [ItemKind -> Nat]
    BY <1>0, CatalogAssumption DEF CatalogInv, RoomLeft
  <1>2. NoEdit \in Edits /\ NoEdit.wants = "nothing"
    BY DEF Edits, NoEdit
  <1>3. CatalogTypeOK'
    BY <1>0, <1>1, <1>2 DEF CatalogInv, CatalogTypeOK
  <1>4. \A kind \in ItemKind : kind # KindOf[i] => ActiveOf(kind)' = ActiveOf(kind)
    BY <1>0, <1>1 DEF ActiveOf, CatalogInv, CatalogTypeOK
  <1>5. /\ editor'[e].wants = "nothing"
        /\ \A d \in Editor \ {e} : editor'[d] = editor[d]
    BY <1>0, <1>2 DEF CatalogInv, CatalogTypeOK
  <1>6. LimitHolds'
    <2> SUFFICES ASSUME NEW kind \in ItemKind, kind \notin raced'
                 PROVE  Cardinality(ActiveOf(kind)') <= Limit[kind]
      BY DEF LimitHolds
    <2>1. kind \notin raced
      BY <1>0
    <2>2. CASE kind # KindOf[i]
      BY <1>4, <2>1, <2>2 DEF CatalogInv, LimitHolds
    <2>3. CASE kind = KindOf[i]
      <3>1. Cardinality(ActiveOf(kind)) + 1 <= Limit[kind]
        BY <1>0, <2>1, <2>3 DEF CatalogInv, RoomLeft, WithinLimit
      <3>2. ActiveOf(kind)' \in SUBSET (ActiveOf(kind) \cup {i})
        BY <1>0, <1>1 DEF ActiveOf, CatalogInv, CatalogTypeOK
      <3> PICK S : S = ActiveOf(kind)
        OBVIOUS
      <3>a. IsFiniteSet(S) /\ Cardinality(S) \in Nat
        BY ActiveFinite
      <3>b. IsFiniteSet(S \cup {i}) /\ (Cardinality(S \cup {i}) = Cardinality(S)
                                          \/ Cardinality(S \cup {i}) = Cardinality(S) + 1)
        BY <3>a, FS_AddElement
      <3>3. /\ IsFiniteSet(ActiveOf(kind) \cup {i})
            /\ Cardinality(ActiveOf(kind) \cup {i}) <= Cardinality(ActiveOf(kind)) + 1
        BY <3>a, <3>b
      <3>4. /\ Cardinality(ActiveOf(kind)') <= Cardinality(ActiveOf(kind) \cup {i})
            /\ IsFiniteSet(ActiveOf(kind)')
        BY <3>2, <3>3, FS_Subset
      <3>5. Cardinality(ActiveOf(kind)') \in Nat /\ Cardinality(ActiveOf(kind) \cup {i}) \in Nat
        BY <3>3, <3>4, FS_CardinalityType
      <3> QED
        BY <1>1, <3>1, <3>3, <3>4, <3>5, ActiveFinite
    <2> QED
      BY <2>2, <2>3
  <1>7. RoomLeft'
    <2> SUFFICES ASSUME NEW d \in Editor, editor'[d].wants # "nothing"
                 PROVE  /\ editor'[d].item \in Item
                        /\ \A kind \in ItemKind \ raced' : KindOf[editor'[d].item] = kind => WithinLimit(kind)'
      BY DEF RoomLeft
    <2>1. d # e /\ editor'[d] = editor[d]
      BY <1>5
    <2>2. editor[d].item \in Item
      BY <2>1 DEF CatalogInv, RoomLeft
    <2> SUFFICES ASSUME NEW kind \in ItemKind \ raced', KindOf[editor[d].item] = kind
                 PROVE  WithinLimit(kind)'
      BY <2>1, <2>2
    <2>3. kind # KindOf[i] /\ kind \notin raced
      BY <1>0, <2>1 DEF Races
    <2>4. WithinLimit(kind)
      BY <2>1, <2>3 DEF CatalogInv, RoomLeft
    <2> QED
      BY <1>4, <2>3, <2>4 DEF WithinLimit
  <1>8. \A k \in Item : item[k] # "NONE" => item'[k] # "NONE"
    BY <1>0 DEF CatalogInv, CatalogTypeOK
  <1>9. SkusThere' /\ Imported'
    BY <1>0, <1>8, ImportsAlone
  <1> QED
    BY <1>3, <1>6, <1>7, <1>9 DEF CatalogInv

LEMMA DeactivateKeeps ==
  ASSUME CatalogInv, NEW i \in Item, Deactivate(i)
  PROVE  CatalogInv'
  <1>0. /\ item' = [item EXCEPT ![i] = "INACTIVE"]
        /\ editor' = editor /\ job' = job /\ received' = received /\ raced' = raced
    BY DEF Deactivate
  <1>1. CatalogTypeOK'
    BY <1>0 DEF CatalogInv, CatalogTypeOK
  <1>2. \A kind : ActiveOf(kind)' \in SUBSET ActiveOf(kind)
    BY <1>0 DEF ActiveOf, CatalogInv, CatalogTypeOK
  <1>3. \A kind : /\ Cardinality(ActiveOf(kind)') \in Nat
                  /\ Cardinality(ActiveOf(kind)') <= Cardinality(ActiveOf(kind))
    BY <1>2, FewerActive DEF CatalogInv
  <1>4. LimitHolds'
    BY <1>0, <1>3, ActiveFinite, CatalogAssumption DEF CatalogInv, LimitHolds
  <1>5. RoomLeft'
    <2> SUFFICES ASSUME NEW d \in Editor, editor[d].wants # "nothing"
                 PROVE  /\ editor[d].item \in Item
                        /\ \A kind \in ItemKind \ raced : KindOf[editor[d].item] = kind => WithinLimit(kind)'
      BY <1>0 DEF RoomLeft
    <2>1. editor[d].item \in Item
      BY DEF CatalogInv, RoomLeft
    <2> SUFFICES ASSUME NEW kind \in ItemKind \ raced, KindOf[editor[d].item] = kind
                 PROVE  WithinLimit(kind)'
      BY <2>1
    <2>2. Cardinality(ActiveOf(kind)) + 1 <= Limit[kind]
      BY DEF CatalogInv, RoomLeft, WithinLimit
    <2>3. Limit[kind] \in Nat
      BY CatalogAssumption
    <2> QED
      BY <1>3, <2>2, <2>3, ActiveFinite DEF WithinLimit
  <1>6. \A k \in Item : item[k] # "NONE" => item'[k] # "NONE"
    BY <1>0 DEF CatalogInv, CatalogTypeOK
  <1>7. SkusThere' /\ Imported'
    BY <1>0, <1>6, ImportsAlone
  <1> QED
    BY <1>1, <1>4, <1>5, <1>7 DEF CatalogInv

-----------------------------------------------------------------------------
(* The limits when only imports change. *)
LEMMA EditsAlone ==
  ASSUME CatalogInv, item' = item, editor' = editor, raced' = raced
  PROVE  RoomLeft' /\ LimitHolds'
  <1>1. LimitHolds'
    BY ActiveAlone
  <1>2. RoomLeft'
    BY ActiveAlone DEF RoomLeft
  <1> QED
    BY <1>1, <1>2

(* An import that is not committed, before and after, has received nothing. *)
LEMMA NothingReceived ==
  ASSUME CatalogInv, NEW j \in Job, job[j].status # "COMMITTED", job'[j].status # "COMMITTED",
         \A k \in Job \ {j} : job'[k] = job[k],
         received' = received, item' = item
  PROVE  Imported'
  <1>1. \A i \in Sku : Received(i)' = Received(i)
    BY DEF Received
  <1>2. \A i \in Sku : received'[i] = Cardinality(Received(i)')
    BY <1>1 DEF CatalogInv, Imported
  <1>3. \A k \in Job : job'[k].status = "COMMITTED" => \A i \in job'[k].good : item'[i] # "NONE"
    BY DEF CatalogInv, Imported
  <1> QED
    BY <1>2, <1>3 DEF Imported

LEMMA PreviewRow ==
  ASSUME NEW kind \in {"products", "stock"}, NEW good \in SUBSET Sku, NEW errors \in BOOLEAN
  PROVE  [status |-> "PREVIEW", kind |-> kind, good |-> good, errors |-> errors, by |-> Noone,
          missing |-> {}]
         = [NoJob EXCEPT !.status = "PREVIEW", !.kind = kind, !.good = good, !.errors = errors]
  <1> PICK r : r = [NoJob EXCEPT !.status = "PREVIEW", !.kind = kind, !.good = good, !.errors = errors]
    OBVIOUS
  <1>1. r = [status |-> "PREVIEW", kind |-> kind, good |-> good, errors |-> errors, by |-> Noone,
             missing |-> {}]
    BY DEF NoJob
  <1> QED
    BY <1>1

LEMMA PreviewKeeps ==
  ASSUME CatalogInv, NEW j \in Job, NEW kind \in {"products", "stock"}, NEW lines \in SUBSET Sku,
         NEW bad \in BOOLEAN, Preview(j, kind, lines, bad)
  PROVE  CatalogInv'
  <1> PICK good : good = Valid(kind, lines)
    OBVIOUS
  <1> PICK errors : errors = (bad \/ good # lines)
    OBVIOUS
  <1> PICK r : r = [status |-> "PREVIEW", kind |-> kind, good |-> good, errors |-> errors, by |-> Noone,
                    missing |-> {}]
    OBVIOUS
  <1>0. /\ job[j].status = "NONE"
        /\ job' = [job EXCEPT ![j] = r]
        /\ item' = item /\ editor' = editor /\ received' = received /\ raced' = raced
    <2>1. r = [NoJob EXCEPT !.status = "PREVIEW", !.kind = kind, !.good = good, !.errors = errors]
      BY PreviewRow, errors \in BOOLEAN, good \in SUBSET Sku DEF Valid, ActiveOf
    <2>2. /\ job[j].status = "NONE"
          /\ job' = [job EXCEPT ![j] = [NoJob EXCEPT !.status = "PREVIEW", !.kind = kind, !.good = good,
                                                     !.errors = errors]]
          /\ item' = item /\ editor' = editor /\ received' = received /\ raced' = raced
      BY DEF Preview
    <2> QED
      BY <2>1, <2>2
  <1>1. /\ good \in SUBSET Sku
        /\ kind = "stock" => \A i \in good : item[i] = "ACTIVE"
    BY DEF Valid, ActiveOf
  <1>2. /\ r.status = "PREVIEW" /\ r.kind = kind /\ r.good = good /\ r.errors = errors
        /\ r.by = Noone /\ r.missing = {}
    OBVIOUS
  <1>3. errors \in BOOLEAN
    OBVIOUS
  <1>4. r \in Jobs
    <2>1. kind \in {"products", "stock"} /\ Noone \in Editor \cup {Noone} /\ {} \in SUBSET Sku
      OBVIOUS
    <2> QED
      BY <1>1, <1>3, <2>1 DEF Jobs
  <1>5. job'[j] = r /\ \A k \in Job \ {j} : job'[k] = job[k]
    BY <1>0 DEF CatalogInv, CatalogTypeOK
  <1>6. CatalogTypeOK'
    <2>1. job' \in [Job -> Jobs]
      BY <1>0, <1>4 DEF CatalogInv, CatalogTypeOK
    <2>2. r.by = Noone
      BY <1>2
    <2> QED
      BY <1>0, <1>5, <2>1, <2>2 DEF CatalogInv, CatalogTypeOK
  <1>7. SkusThere'
    <2>1. ASSUME NEW i \in job'[j].good
          PROVE  item[i] # "NONE" \/ kind = "products"
      <3>1. job'[j].good = good
        BY <1>2, <1>5
      <3>2. i \in good
        BY <2>1, <3>1
      <3> QED
        BY <1>1, <3>2
    <2>2. r.kind = kind /\ r.status = "PREVIEW" /\ r.by = Noone
      BY <1>2
    <2> QED
      BY <1>0, <1>5, <2>1, <2>2 DEF CatalogInv, SkusThere, ToBeMade
  <1>8. Imported'
    BY <1>0, <1>2, <1>5, NothingReceived
  <1> QED
    BY <1>0, <1>6, <1>7, <1>8, EditsAlone DEF CatalogInv

(* Who holds an import, and for what, does not matter to what it has done.  *)
TakenBy(j, by, missing) ==
  /\ job'[j] \in Jobs
  /\ job'[j].status = job[j].status /\ job'[j].kind = job[j].kind /\ job'[j].good = job[j].good
  /\ job'[j].by = by /\ job'[j].missing = missing
  /\ \A k \in Job \ {j} : job'[k] = job[k]
  /\ job' \in [Job -> Jobs]

LEMMA HeldTypes ==
  ASSUME CatalogInv, NEW j \in Job, NEW by \in Editor \cup {Noone}, NEW missing \in SUBSET job[j].good,
         job' = [job EXCEPT ![j].by = by, ![j].missing = missing]
  PROVE  TakenBy(j, by, missing)
  <1> PICK r : r = [job[j] EXCEPT !.by = by, !.missing = missing]
    OBVIOUS
  <1>1. job[j] \in Jobs
    BY DEF CatalogInv, CatalogTypeOK
  <1>2. /\ r \in Jobs
        /\ r.status = job[j].status /\ r.kind = job[j].kind /\ r.good = job[j].good
        /\ r.by = by /\ r.missing = missing
    BY <1>1 DEF Jobs
  <1>3. job'[j] = r /\ \A k \in Job \ {j} : job'[k] = job[k]
    BY DEF CatalogInv, CatalogTypeOK
  <1>4. job' \in [Job -> Jobs]
    BY <1>2, <1>3 DEF CatalogInv, CatalogTypeOK
  <1> QED
    BY <1>2, <1>3, <1>4 DEF TakenBy

LEMMA HeldOrNot ==
  ASSUME CatalogInv, NEW j \in Job, NEW by \in Editor \cup {Noone}, NEW missing \in SUBSET job[j].good,
         job[j].status = "PREVIEW", TakenBy(j, by, missing),
         by # Noone => \A i \in job[j].good : item[i] = "NONE" => i \in missing,
         item' = item, editor' = editor, received' = received, raced' = raced
  PROVE  CatalogInv'
  <1>1. CatalogTypeOK'
    BY DEF TakenBy, CatalogInv, CatalogTypeOK
  <1>2. SkusThere'
    <2>1. ASSUME NEW i \in job[j].good
          PROVE  item[i] # "NONE" \/ (job[j].kind = "products" /\ (by # Noone => i \in missing))
      BY <2>1 DEF CatalogInv, SkusThere, ToBeMade
    <2>2. ASSUME NEW k \in Job \ {j}, NEW i \in job'[k].good
          PROVE  item[i] # "NONE" \/ ToBeMade(k, i)'
      BY <2>2 DEF TakenBy, CatalogInv, SkusThere, ToBeMade
    <2>3. ASSUME NEW i \in job'[j].good
          PROVE  item[i] # "NONE" \/ ToBeMade(j, i)'
      BY <2>1, <2>3 DEF TakenBy, ToBeMade
    <2> QED
      BY <2>2, <2>3 DEF SkusThere
  <1>3. Imported'
    BY NothingReceived DEF TakenBy
  <1> QED
    BY <1>1, <1>2, <1>3, EditsAlone DEF CatalogInv

LEMMA BeginCommitKeeps ==
  ASSUME CatalogInv, NEW e \in Editor, NEW j \in Job, NEW skipErrors \in BOOLEAN,
         BeginCommit(e, j, skipErrors)
  PROVE  CatalogInv'
  <1> PICK missing : missing = {i \in job[j].good : item[i] = "NONE"}
    OBVIOUS
  <1>1. /\ job[j].status = "PREVIEW"
        /\ job' = [job EXCEPT ![j].by = e, ![j].missing = missing]
        /\ item' = item /\ editor' = editor /\ received' = received /\ raced' = raced
    BY DEF BeginCommit, Untaken
  <1>2. /\ missing \in SUBSET job[j].good
        /\ \A i \in job[j].good : item[i] = "NONE" => i \in missing
    OBVIOUS
  <1>3. TakenBy(j, e, missing)
    BY <1>1, <1>2, HeldTypes
  <1> QED
    BY <1>1, <1>2, <1>3, HeldOrNot

LEMMA RollBackImportKeeps ==
  ASSUME CatalogInv, NEW j \in Job, RollBackImport(j)
  PROVE  CatalogInv'
  <1>1. /\ job[j].status = "PREVIEW"
        /\ job' = [job EXCEPT ![j].by = Noone, ![j].missing = {}]
        /\ item' = item /\ editor' = editor /\ received' = received /\ raced' = raced
    BY DEF RollBackImport, CatalogInv, CatalogTypeOK
  <1>2. {} \in SUBSET job[j].good
    OBVIOUS
  <1>3. TakenBy(j, Noone, {})
    BY <1>1, <1>2, HeldTypes
  <1> QED
    BY <1>1, <1>2, <1>3, HeldOrNot

(* An import that is committed. *)
LEMMA CommittedTypes ==
  ASSUME CatalogInv, NEW j \in Job, job[j].by # Noone,
         job' = [job EXCEPT ![j].status = "COMMITTED", ![j].by = Noone, ![j].missing = {}]
  PROVE  /\ job' \in [Job -> Jobs]
         /\ \A k \in Job \ {j} : job'[k] = job[k]
         /\ job[j].status = "PREVIEW" /\ job'[j].status = "COMMITTED" /\ job'[j].by = Noone
         /\ job'[j].kind = job[j].kind /\ job'[j].good = job[j].good
         /\ job[j].missing \in SUBSET job[j].good /\ job[j].good \in SUBSET Sku
         /\ \A k \in Job : job'[k].by # Noone => job'[k].status = "PREVIEW" /\ job'[k].missing \subseteq job'[k].good
  <1> PICK r : r = [job[j] EXCEPT !.status = "COMMITTED", !.by = Noone, !.missing = {}]
    OBVIOUS
  <1>1. job[j] \in Jobs
    BY DEF CatalogInv, CatalogTypeOK
  <1>2. /\ r \in Jobs
        /\ r.status = "COMMITTED" /\ r.kind = job[j].kind /\ r.good = job[j].good /\ r.by = Noone
    BY <1>1 DEF Jobs
  <1>3. job'[j] = r /\ \A k \in Job \ {j} : job'[k] = job[k]
    BY DEF CatalogInv, CatalogTypeOK
  <1>4. job' \in [Job -> Jobs]
    BY <1>2, <1>3 DEF CatalogInv, CatalogTypeOK
  <1>5. job[j].status = "PREVIEW" /\ job[j].missing \in SUBSET job[j].good /\ job[j].good \in SUBSET Sku
    BY <1>1 DEF CatalogInv, CatalogTypeOK, Jobs
  <1>6. \A k \in Job : job'[k].by # Noone => job'[k].status = "PREVIEW" /\ job'[k].missing \subseteq job'[k].good
    BY <1>2, <1>3 DEF CatalogInv, CatalogTypeOK
  <1> QED
    BY <1>2, <1>3, <1>4, <1>5, <1>6

LEMMA CommitProductsKeeps ==
  ASSUME CatalogInv, NEW j \in Job, CommitProducts(j)
  PROVE  CatalogInv'
  <1>0. /\ job[j].by # Noone /\ job[j].kind = "products"
        /\ item' = [i \in Item |-> IF i \in job[j].missing THEN "ACTIVE" ELSE item[i]]
        /\ raced' = raced \cup {"skus"}
        /\ job' = [job EXCEPT ![j].status = "COMMITTED", ![j].by = Noone, ![j].missing = {}]
        /\ editor' = editor /\ received' = received
    BY DEF CommitProducts
  <1>1. /\ job' \in [Job -> Jobs]
        /\ \A k \in Job \ {j} : job'[k] = job[k]
        /\ job[j].status = "PREVIEW" /\ job'[j].status = "COMMITTED" /\ job'[j].by = Noone
        /\ job'[j].kind = job[j].kind /\ job'[j].good = job[j].good
        /\ job[j].missing \in SUBSET job[j].good /\ job[j].good \in SUBSET Sku
        /\ \A k \in Job : job'[k].by # Noone => job'[k].status = "PREVIEW" /\ job'[k].missing \subseteq job'[k].good
    BY ONLY <1>0, CatalogInv, CommittedTypes
  <1>2. item' \in [Item -> {"NONE", "ACTIVE", "INACTIVE"}]
    BY <1>0 DEF CatalogInv, CatalogTypeOK
  <1>3. CatalogTypeOK'
    BY <1>0, <1>1, <1>2 DEF CatalogInv, CatalogTypeOK, ItemKind
  <1>4. \A kind \in ItemKind \ raced' : kind \notin raced /\ ActiveOf(kind)' = ActiveOf(kind)
    BY <1>0, <1>1 DEF ActiveOf, Sku
  <1>5. LimitHolds'
    BY <1>4 DEF CatalogInv, LimitHolds
  <1>6. RoomLeft'
    BY <1>0, <1>4 DEF CatalogInv, RoomLeft, WithinLimit
  <1>7. /\ \A i \in Item : item[i] # "NONE" => item'[i] # "NONE"
        /\ \A i \in job[j].missing : item'[i] # "NONE"
    BY <1>0, <1>1 DEF Sku
  <1>8. \A k \in Job : job[k].good \in SUBSET Item
    BY DEF CatalogInv, CatalogTypeOK, Jobs, Sku
  <1>9. \A i \in job[j].good : item'[i] # "NONE"
    BY <1>0, <1>1, <1>7, <1>8 DEF CatalogInv, SkusThere, ToBeMade
  <1>10. SkusThere'
    BY <1>1, <1>7, <1>8, <1>9 DEF CatalogInv, SkusThere, ToBeMade
  <1>11. Imported'
    <2>1. \A i \in Sku : Received(i)' = Received(i)
      BY <1>0, <1>1 DEF Received
    <2>2. \A i \in Sku : received'[i] = Cardinality(Received(i)')
      BY <1>0, <2>1 DEF CatalogInv, Imported
    <2>3. \A k \in Job : job'[k].status = "COMMITTED" => \A i \in job'[k].good : item'[i] # "NONE"
      BY <1>1, <1>7, <1>8, <1>9 DEF CatalogInv, Imported
    <2> QED
      BY <2>2, <2>3 DEF Imported
  <1> QED
    BY <1>3, <1>5, <1>6, <1>10, <1>11 DEF CatalogInv

LEMMA CommitStockKeeps ==
  ASSUME CatalogInv, NEW j \in Job, CommitStock(j)
  PROVE  CatalogInv'
  <1>0. /\ job[j].by # Noone /\ job[j].kind = "stock"
        /\ received' = [i \in Sku |-> IF i \in job[j].good THEN received[i] + 1 ELSE received[i]]
        /\ job' = [job EXCEPT ![j].status = "COMMITTED", ![j].by = Noone, ![j].missing = {}]
        /\ item' = item /\ editor' = editor /\ raced' = raced
    BY DEF CommitStock
  <1>1. /\ job' \in [Job -> Jobs]
        /\ \A k \in Job \ {j} : job'[k] = job[k]
        /\ job[j].status = "PREVIEW" /\ job'[j].status = "COMMITTED" /\ job'[j].by = Noone
        /\ job'[j].kind = job[j].kind /\ job'[j].good = job[j].good
        /\ job[j].missing \in SUBSET job[j].good /\ job[j].good \in SUBSET Sku
        /\ \A k \in Job : job'[k].by # Noone => job'[k].status = "PREVIEW" /\ job'[k].missing \subseteq job'[k].good
    BY ONLY <1>0, CatalogInv, CommittedTypes
  <1>2. received' \in [Sku -> Nat]
    BY <1>0 DEF CatalogInv, CatalogTypeOK
  <1>3. CatalogTypeOK'
    BY <1>0, <1>1, <1>2 DEF CatalogInv, CatalogTypeOK
  <1>4. \A i \in job[j].good : item[i] # "NONE"
    BY <1>0 DEF CatalogInv, SkusThere, ToBeMade
  <1>5. SkusThere'
    BY <1>0, <1>1, <1>4 DEF CatalogInv, SkusThere, ToBeMade
  <1>6. \A k \in Job : job'[k].status = "COMMITTED" => \A i \in job'[k].good : item'[i] # "NONE"
    BY <1>0, <1>1, <1>4 DEF CatalogInv, Imported
  <1>7. ASSUME NEW i \in Sku PROVE received'[i] = Cardinality(Received(i)')
    <2>1. received[i] = Cardinality(Received(i))
      BY DEF CatalogInv, Imported
    <2>2. CASE i \notin job[j].good
      <3>1. Received(i)' = Received(i)
        BY <1>1, <2>2 DEF Received
      <3> QED
        BY <1>0, <2>1, <2>2, <3>1
    <2>3. CASE i \in job[j].good
      <3>1. Received(i)' = Received(i) \cup {j} /\ j \notin Received(i)
        BY <1>0, <1>1, <2>3 DEF Received
      <3>2. Received(i) \in SUBSET Job /\ IsFiniteSet(Job)
        BY CatalogAssumption DEF Received
      <3>3. IsFiniteSet(Received(i))
        BY <3>2, FS_Subset
      <3>4. Cardinality(Received(i) \cup {j}) = Cardinality(Received(i)) + 1
        BY <3>1, <3>3, FS_AddElement
      <3> QED
        BY <1>0, <2>1, <2>3, <3>1, <3>4
    <2> QED
      BY <2>2, <2>3
  <1>8. Imported'
    BY <1>6, <1>7 DEF Imported
  <1> QED
    BY <1>0, <1>3, <1>5, <1>8, EditsAlone DEF CatalogInv

-----------------------------------------------------------------------------
LEMMA CatalogStays ==
  ASSUME CatalogInv, UNCHANGED catalogVars
  PROVE  CatalogInv'
  BY DEF catalogVars, CatalogInv, CatalogTypeOK, RoomLeft, WithinLimit, ActiveOf, LimitHolds,
         SkusThere, ToBeMade, Imported, Received

LEMMA CatalogSteps == CatalogInv /\ [CatalogNext]_catalogVars => CatalogInv'
  <1> SUFFICES ASSUME CatalogInv, [CatalogNext]_catalogVars PROVE CatalogInv'
    OBVIOUS
  <1>1. ASSUME NEW e \in Editor, NEW i \in Item,
               CreateSku(e, i) \/ CreateUser(e, i) \/ CreateWarehouse(e, i)
        PROVE  CatalogInv'
    <2>1. Passes(e, i, "create")
      BY <1>1 DEF CreateSku, CreateUser, CreateWarehouse
    <2> QED
      BY <2>1, PassesKeeps
  <1>2. ASSUME NEW e \in Editor, NEW i \in Item,
               UpdateSku(e, i) \/ UpdateUser(e, i) \/ UpdateWarehouse(e, i)
        PROVE  CatalogInv'
    <2>1. Passes(e, i, "activate")
      BY <1>2 DEF UpdateSku, UpdateUser, UpdateWarehouse
    <2> QED
      BY <2>1, PassesKeeps
  <1>3. ASSUME NEW e \in Editor, Write(e) \/ Withdraw(e) PROVE CatalogInv'
    BY <1>3, WriteKeeps, WithdrawKeeps
  <1>4. ASSUME NEW i \in Item, Deactivate(i) PROVE CatalogInv'
    BY <1>4, DeactivateKeeps
  <1>5. ASSUME NEW j \in Job, NEW kind \in {"products", "stock"}, NEW lines \in SUBSET Sku,
               NEW bad \in BOOLEAN, Preview(j, kind, lines, bad)
        PROVE  CatalogInv'
    BY <1>5, PreviewKeeps
  <1>6. ASSUME NEW j \in Job, NEW e \in Editor, NEW skipErrors \in BOOLEAN, BeginCommit(e, j, skipErrors)
        PROVE  CatalogInv'
    BY <1>6, BeginCommitKeeps
  <1>7. ASSUME NEW j \in Job, CommitProducts(j) \/ CommitStock(j) \/ RollBackImport(j)
        PROVE  CatalogInv'
    BY <1>7, CommitProductsKeeps, CommitStockKeeps, RollBackImportKeeps
  <1>8. CASE UNCHANGED catalogVars
    BY <1>8, CatalogStays
  <1> QED
    BY <1>1, <1>2, <1>3, <1>4, <1>5, <1>6, <1>7, <1>8 DEF CatalogNext

(***************************************************************************)
(* A plan is kept to, but for what was counted at once or came from a      *)
(* file, and an import is applied once, as a whole or not at all           *)
(* (enforce_limit, preview, commit of imports).                            *)
(***************************************************************************)
THEOREM CatalogCorrect == CatalogSpec => []CatalogHolds
  <1>1. CatalogInv => CatalogHolds
    BY ImportedTells DEF CatalogInv, CatalogHolds
  <1> QED
    BY <1>1, CatalogAtFirst, CatalogSteps, PTL DEF CatalogSpec

-----------------------------------------------------------------------------
(***************************************************************************)
(* ScanQueue: what is scanned out of reach, for any scans and tabs.        *)
(***************************************************************************)

Waits(x, q) == \E i \in DOMAIN q : q[i] = x

(* The server applies a scan and keeps its key in one transaction; a key     *)
(* that was purged allows the scan to be applied again.                      *)
ServerOK ==
  \A x \in Scan :
    /\ x \notin expired => applied[x] = (IF x \in kept THEN 1 ELSE 0)
    /\ x \in kept => applied[x] > 0

AnswersOK == \A a \in answers : a.ok => applied[a.scan] > 0

(* What is told is true, but of a scan the device could not store, and no    *)
(* scan is stored before it was sent at once.                                *)
DeviceOK ==
  /\ \A x \in Scan : shown[x] = "sent" => applied[x] > 0
  /\ \A x \in Scan : shown[x] = "queued" => x \in unwritten \/ Waits(x, queue)
  /\ \A i \in DOMAIN queue : shown[queue[i]] \notin {"nothing", "sending"}

ScanInv == ScanQueueTypeOK /\ ServerOK /\ AnswersOK /\ DeviceOK

(* A queue from which one scan was taken. *)
LEMMA TakenFromSequence ==
  ASSUME NEW S, NEW q \in Seq(S), NEW i \in 1..Len(q),
         \A j, k \in 1..Len(q) : q[j] = q[k] => j = k,
         NEW r, r = [j \in 1..(Len(q) - 1) |-> IF j < i THEN q[j] ELSE q[j + 1]]
  PROVE  /\ r \in Seq(S)
         /\ \A j, k \in DOMAIN r : r[j] = r[k] => j = k
         /\ \A x : x # q[i] /\ Waits(x, q) => Waits(x, r)
         /\ \A j \in DOMAIN r : \E k \in DOMAIN q : r[j] = q[k]
  <1> PICK n : n = Len(q)
    OBVIOUS
  <1>1. n \in Nat /\ i \in 1..n /\ DOMAIN q = 1..n
    OBVIOUS
  <1>2. DOMAIN r = 1..(n - 1) /\ \A j \in 1..(n - 1) : r[j] = IF j < i THEN q[j] ELSE q[j + 1]
    OBVIOUS
  <1>3. ASSUME NEW j \in 1..(n - 1) PROVE r[j] \in S
    <2>1. j \in 1..n /\ j + 1 \in 1..n
      BY <1>1
    <2> QED
      BY <1>1, <1>2, <2>1
  <1>4. r \in Seq(S) /\ DOMAIN r = 1..(n - 1)
    <2>1. n - 1 \in Nat
      BY <1>1
    <2>2. r \in [1..(n - 1) -> S]
      BY <1>3
    <2> QED
      BY <2>1, <2>2 DEF Seq
  <1>5. \A j \in 1..(n - 1) : r[j] = IF j < i THEN q[j] ELSE q[j + 1]
    BY <1>2
  <1>6. \A j, k \in DOMAIN r : r[j] = r[k] => j = k
    <2> SUFFICES ASSUME NEW j \in 1..(n - 1), NEW k \in 1..(n - 1), r[j] = r[k] PROVE j = k
      BY <1>4
    <2>1. r[j] = (IF j < i THEN q[j] ELSE q[j + 1]) /\ r[k] = (IF k < i THEN q[k] ELSE q[k + 1])
      BY <1>5
    <2>2. j \in 1..n /\ k \in 1..n /\ j + 1 \in 1..n /\ k + 1 \in 1..n
      BY <1>1
    <2>3. \A l, m \in 1..n : q[l] = q[m] => l = m
      BY <1>1
    <2>4. CASE j < i /\ k < i
      BY <2>1, <2>2, <2>3, <2>4
    <2>5. CASE j < i /\ ~(k < i)
      <3>1. j = k + 1
        BY <2>1, <2>2, <2>3, <2>5
      <3> QED
        BY <1>1, <2>5, <3>1
    <2>6. CASE ~(j < i) /\ k < i
      <3>1. j + 1 = k
        BY <2>1, <2>2, <2>3, <2>6
      <3> QED
        BY <1>1, <2>6, <3>1
    <2>7. CASE ~(j < i) /\ ~(k < i)
      <3>1. j + 1 = k + 1
        BY <2>1, <2>2, <2>3, <2>7
      <3> QED
        BY <3>1
    <2> QED
      BY <2>4, <2>5, <2>6, <2>7
  <1>7. ASSUME NEW x, x # q[i], Waits(x, q) PROVE Waits(x, r)
    <2>1. PICK k \in 1..n : q[k] = x
      BY <1>1, <1>7 DEF Waits
    <2>2. CASE k < i
      <3>2. k \in 1..(n - 1)
        BY <1>1, <2>1, <2>2
      <3>1. k \in 1..(n - 1) /\ r[k] = x
        BY <1>5, <2>1, <2>2, <3>2
      <3> QED
        BY <1>4, <3>1 DEF Waits
    <2>3. CASE ~(k < i)
      <3>1. k - 1 \in 1..(n - 1) /\ ~(k - 1 < i) /\ (k - 1) + 1 = k
        BY <1>1, <1>7, <2>1, <2>3
      <3>2. r[k - 1] = x
        BY <1>5, <2>1, <3>1
      <3> QED
        BY <1>4, <3>1, <3>2 DEF Waits
    <2> QED
      BY <2>2, <2>3
  <1>8. \A j \in DOMAIN r : \E k \in DOMAIN q : r[j] = q[k]
    <2> SUFFICES ASSUME NEW j \in 1..(n - 1) PROVE \E k \in 1..n : r[j] = q[k]
      BY <1>1, <1>4
    <2>1. j \in 1..n /\ j + 1 \in 1..n
      BY <1>1
    <2> QED
      BY <1>5, <2>1
  <1> QED
    BY <1>4, <1>6, <1>7, <1>8

LEMMA UnqueuedKeeps ==
  ASSUME ScanQueueTypeOK, NEW t \in Tab, NEW r, r = Unqueued(t)
  PROVE  /\ r \in Seq(Scan)
         /\ \A j, k \in DOMAIN r : r[j] = r[k] => j = k
         /\ \A x : x # Head(flushing[t]) /\ Waits(x, queue) => Waits(x, r)
         /\ \A j \in DOMAIN r : \E k \in DOMAIN queue : r[j] = queue[k]
  <1> PICK x : x = Head(flushing[t])
    OBVIOUS
  <1>1. queue \in Seq(Scan) /\ \A j, k \in DOMAIN queue : queue[j] = queue[k] => j = k
    BY DEF ScanQueueTypeOK
  <1>2. CASE \A i \in DOMAIN queue : queue[i] # x
    BY <1>1, <1>2 DEF Unqueued
  <1>3. CASE ~\A i \in DOMAIN queue : queue[i] # x
    <2> PICK q : q = queue
      OBVIOUS
    <2> PICK i : i = Position(x)
      OBVIOUS
    <2>1. i \in DOMAIN q /\ q[i] = x
      BY <1>3 DEF Position
    <2>2. r = [j \in 1..(Len(q) - 1) |-> IF j < i THEN q[j] ELSE q[j + 1]]
      BY <1>3 DEF Unqueued
    <2>3. q \in Seq(Scan) /\ i \in 1..Len(q)
      BY <1>1, <2>1
    <2>4. \A j, k \in 1..Len(q) : q[j] = q[k] => j = k
      BY <1>1
    <2>5. /\ r \in Seq(Scan)
          /\ \A j, k \in DOMAIN r : r[j] = r[k] => j = k
          /\ \A y : y # q[i] /\ Waits(y, q) => Waits(y, r)
          /\ \A j \in DOMAIN r : \E k \in DOMAIN q : r[j] = q[k]
      BY ONLY <2>2, <2>3, <2>4, TakenFromSequence
    <2> QED
      BY <2>1, <2>5
  <1> QED
    BY <1>2, <1>3

-----------------------------------------------------------------------------
(* The types of what is on the way. *)
RequestsOK(w) == w \subseteq [scan : Scan, by : Asker]
RepliesOK(as) == as \subseteq [scan : Scan, by : Asker \ {Forgotten}, ok : BOOLEAN]

LEMMA SentTypes == \A x \in Scan, by \in Asker : Sent(x, by) \in [scan : Scan, by : Asker]
  BY DEF Sent

LEMMA ForgetTypes ==
  ASSUME ScanQueueTypeOK, NEW by, Forget(by)
  PROVE  RequestsOK(wire') /\ answers' \subseteq answers
  <1>1. RequestsOK(wire) /\ Forgotten \in Asker
    BY DEF ScanQueueTypeOK, RequestsOK, Asker
  <1> QED
    BY <1>1, SentTypes DEF Forget, RequestsOK

LEMMA ForgetScanTypes ==
  ASSUME ScanQueueTypeOK, NEW x \in Scan, ForgetScan(x)
  PROVE  RequestsOK(wire') /\ answers' \subseteq answers
  <1>1. RequestsOK(wire) /\ Forgotten \in Asker
    BY DEF ScanQueueTypeOK, RequestsOK, Asker
  <1> QED
    BY <1>1, SentTypes DEF ForgetScan, RequestsOK

(* A step of the device: the server stands still, and answers are lost only. *)
DeviceStep ==
  /\ UNCHANGED <<kept, applied, expired>>
  /\ RequestsOK(wire') /\ answers' \subseteq answers /\ unwritten' \subseteq Scan

LEMMA DeviceKeeps ==
  ASSUME ScanInv, DeviceStep, DeviceOK', flushing' \in [Tab -> Seq(Scan)], shown' \in [Scan -> ShownAs],
         queue' \in Seq(Scan), \A i, j \in DOMAIN queue' : queue'[i] = queue'[j] => i = j
  PROVE  ScanInv'
  <1>1. ScanQueueTypeOK /\ ServerOK /\ AnswersOK
    BY DEF ScanInv
  <1>2. ScanQueueTypeOK'
    BY <1>1 DEF ScanQueueTypeOK, DeviceStep, RequestsOK
  <1>3. ServerOK' /\ AnswersOK'
    BY <1>1 DEF ServerOK, AnswersOK, DeviceStep
  <1> QED
    BY <1>2, <1>3 DEF ScanInv

(* The user is told something else of one scan. *)
LEMMA ToldOf ==
  ASSUME ScanInv, NEW x \in Scan, NEW s \in ShownAs, shown' = [shown EXCEPT ![x] = s],
         UNCHANGED <<queue, applied>>, unwritten \subseteq unwritten', s = "queued" => x \in unwritten', s = "sent" => applied[x] > 0,
         s \in {"nothing", "sending"} => \A i \in DOMAIN queue : queue[i] # x
  PROVE  DeviceOK' /\ shown' \in [Scan -> ShownAs]
  <1>1. ScanQueueTypeOK /\ DeviceOK
    BY DEF ScanInv
  <1>2. shown \in [Scan -> ShownAs] /\ \A i \in DOMAIN queue : queue[i] \in Scan
    BY <1>1 DEF ScanQueueTypeOK
  <1> PICK f : f = shown'
    OBVIOUS
  <1>3. f \in [Scan -> ShownAs] /\ \A y \in Scan : f[y] = IF y = x THEN s ELSE shown[y]
    BY <1>2
  <1>4. /\ \A y \in Scan : f[y] = "sent" => applied[y] > 0
        /\ \A y \in Scan : f[y] = "queued" => y \in unwritten' \/ Waits(y, queue)
    BY <1>1, <1>3 DEF DeviceOK
  <1>5. \A i \in DOMAIN queue : f[queue[i]] \notin {"nothing", "sending"}
    BY <1>1, <1>2, <1>3 DEF DeviceOK
  <1> QED
    BY <1>3, <1>4, <1>5 DEF DeviceOK

LEMMA SendScanKeeps ==
  ASSUME ScanInv, NEW x \in Scan, SendScan(x)
  PROVE  ScanInv'
  <1>1. ScanQueueTypeOK /\ DeviceOK
    BY DEF ScanInv
  <1>2. \A i \in DOMAIN queue : queue[i] # x
    BY <1>1 DEF SendScan, DeviceOK
  <1>3. DeviceOK' /\ shown' \in [Scan -> ShownAs]
    BY <1>2, ToldOf DEF SendScan, ShownAs
  <1>4. Hand \in Asker
    BY DEF Asker
  <1>5. DeviceStep
    BY <1>1, <1>4, SentTypes DEF SendScan, DeviceStep, RequestsOK, ScanQueueTypeOK
  <1> QED
    BY <1>1, <1>3, <1>5, DeviceKeeps DEF SendScan, ScanQueueTypeOK

LEMMA ScanAnsweredKeeps ==
  ASSUME ScanInv, NEW x \in Scan, NEW ok \in BOOLEAN, ScanAnswered(x, ok)
  PROVE  ScanInv'
  <1>1. ScanQueueTypeOK /\ AnswersOK
    BY DEF ScanInv
  <1> PICK s : s = IF ok THEN "sent" ELSE "refused"
    OBVIOUS
  <1> PICK a : a = [scan |-> x, by |-> Hand, ok |-> ok]
    OBVIOUS
  <1>2. a \in answers /\ a.ok = ok /\ a.scan = x
    BY DEF ScanAnswered
  <1>3. ok => applied[x] > 0
    BY <1>1, <1>2 DEF AnswersOK
  <1>4. s \in ShownAs /\ s # "queued" /\ s \notin {"nothing", "sending"} /\ (s = "sent" => ok)
    BY DEF ShownAs
  <1>5. shown' = [shown EXCEPT ![x] = s] /\ UNCHANGED <<queue, applied, unwritten>>
    BY DEF ScanAnswered
  <1>6. DeviceOK' /\ shown' \in [Scan -> ShownAs]
    BY <1>3, <1>4, <1>5, ToldOf
  <1>7. DeviceStep
    BY <1>1 DEF ScanAnswered, DeviceStep, RequestsOK, ScanQueueTypeOK
  <1> QED
    BY <1>1, <1>6, <1>7, DeviceKeeps DEF ScanAnswered, ScanQueueTypeOK

LEMMA LeavePageKeeps ==
  ASSUME ScanInv, NEW x \in Scan, LeavePage(x)
  PROVE  ScanInv'
  <1>1. ScanQueueTypeOK
    BY DEF ScanInv
  <1>2. DeviceOK' /\ shown' \in [Scan -> ShownAs]
    BY ToldOf DEF LeavePage, ShownAs
  <1>3. DeviceStep
    BY <1>1, ForgetScanTypes DEF LeavePage, DeviceStep, ScanQueueTypeOK
  <1> QED
    BY <1>1, <1>2, <1>3, DeviceKeeps DEF LeavePage, ScanQueueTypeOK

LEMMA QueueScanKeeps ==
  ASSUME ScanInv, NEW x \in Scan, NEW stored \in BOOLEAN, QueueScan(x, stored)
  PROVE  ScanInv'
  <1>1. ScanQueueTypeOK /\ DeviceOK
    BY DEF ScanInv
  <1>2. DeviceStep
    BY <1>1, ForgetScanTypes DEF QueueScan, DeviceStep, ScanQueueTypeOK
  <1>3. CASE ~stored
    <2>1. /\ shown' = [shown EXCEPT ![x] = "queued"] /\ UNCHANGED <<queue, applied>>
          /\ unwritten' = unwritten \cup {x}
      BY <1>3 DEF QueueScan, Written
    <2>2. DeviceOK' /\ shown' \in [Scan -> ShownAs]
      BY <2>1, ToldOf DEF ShownAs
    <2> QED
      BY <1>1, <1>2, <2>1, <2>2, DeviceKeeps DEF QueueScan, ScanQueueTypeOK
  <1>4. CASE stored
    <2> PICK f : f = shown'
      OBVIOUS
    <2> PICK q : q = queue'
      OBVIOUS
    <2>1. f = [shown EXCEPT ![x] = "queued"] /\ q = Append(queue, x) /\ shown[x] = "sending"
          /\ unwritten' = unwritten
      BY <1>4 DEF QueueScan, Written
    <2>2. /\ queue \in Seq(Scan) /\ Len(queue) \in Nat /\ DOMAIN queue = 1..Len(queue)
          /\ shown \in [Scan -> ShownAs]
          /\ \A i, j \in DOMAIN queue : queue[i] = queue[j] => i = j
      BY <1>1 DEF ScanQueueTypeOK
    <2>3. /\ q \in Seq(Scan) /\ DOMAIN q = 1..(Len(queue) + 1) /\ q[Len(queue) + 1] = x
          /\ \A i \in DOMAIN queue : q[i] = queue[i]
      BY <2>1, <2>2
    <2>4. f \in [Scan -> ShownAs] /\ \A y \in Scan : f[y] = IF y = x THEN "queued" ELSE shown[y]
      BY <2>1, <2>2 DEF ShownAs
    <2>5. \A i \in DOMAIN queue : queue[i] # x /\ queue[i] \in Scan
      BY <1>1, <2>1, <2>2 DEF DeviceOK
    <2>6. \A i \in DOMAIN q : i \in DOMAIN queue \/ i = Len(queue) + 1
      BY <2>2, <2>3
    <2>7. \A i, j \in DOMAIN q : q[i] = q[j] => i = j
      BY <2>2, <2>3, <2>5, <2>6
    <2>8. \A y \in Scan : f[y] = "sent" => applied[y] > 0
      BY <1>1, <2>4 DEF DeviceOK
    <2>9. \A y \in Scan : f[y] = "queued" => y \in unwritten \/ Waits(y, q)
      <3> SUFFICES ASSUME NEW y \in Scan, f[y] = "queued", y \notin unwritten
                   PROVE  \E i \in DOMAIN q : q[i] = y
        BY DEF Waits
      <3>1. CASE y = x
        BY <2>2, <2>3, <3>1
      <3>2. CASE y # x
        <4>1. Waits(y, queue)
          BY <1>1, <2>4, <3>2 DEF DeviceOK
        <4> QED
          BY <2>2, <2>3, <4>1 DEF Waits
      <3> QED
        BY <3>1, <3>2
    <2>10. \A i \in DOMAIN q : f[q[i]] \notin {"nothing", "sending"}
      BY <1>1, <2>3, <2>4, <2>5, <2>6 DEF DeviceOK
    <2>11. DeviceOK'
      BY <2>8, <2>9, <2>10 DEF QueueScan, DeviceOK
    <2> QED
      BY <1>1, <1>2, <2>3, <2>4, <2>7, <2>11, DeviceKeeps DEF QueueScan, ScanQueueTypeOK
  <1> QED
    BY <1>3, <1>4

LEMMA StartFlushKeeps ==
  ASSUME ScanInv, NEW t \in Tab, StartFlush(t)
  PROVE  ScanInv'
  <1>1. ScanQueueTypeOK /\ DeviceOK
    BY DEF ScanInv
  <1>2. queue \in Seq(Scan) /\ queue # <<>> /\ Head(queue) \in Scan /\ t \in Asker
    BY <1>1 DEF ScanQueueTypeOK, StartFlush, Asker
  <1>3. DeviceStep
    BY <1>1, <1>2, SentTypes DEF StartFlush, DeviceStep, RequestsOK, ScanQueueTypeOK
  <1>4. DeviceOK'
    BY <1>1 DEF DeviceOK, StartFlush
  <1>5. flushing' \in [Tab -> Seq(Scan)]
    BY <1>1, <1>2 DEF StartFlush, ScanQueueTypeOK
  <1> QED
    BY <1>1, <1>3, <1>4, <1>5, DeviceKeeps DEF StartFlush, ScanQueueTypeOK

LEMMA StopFlushKeeps ==
  ASSUME ScanInv, NEW t \in Tab, StopFlush(t)
  PROVE  ScanInv'
  <1>1. ScanQueueTypeOK /\ DeviceOK
    BY DEF ScanInv
  <1>2. DeviceStep
    BY <1>1, ForgetTypes DEF StopFlush, DeviceStep, ScanQueueTypeOK
  <1>3. DeviceOK'
    BY <1>1 DEF DeviceOK, StopFlush
  <1>4. <<>> \in Seq(Scan)
    OBVIOUS
  <1>5. flushing' \in [Tab -> Seq(Scan)]
    BY <1>1, <1>4 DEF StopFlush, ScanQueueTypeOK
  <1> QED
    BY <1>1, <1>2, <1>3, <1>5, DeviceKeeps DEF StopFlush, ScanQueueTypeOK

LEMMA FlushAnsweredKeeps ==
  ASSUME ScanInv, NEW t \in Tab, NEW ok \in BOOLEAN, NEW stored \in BOOLEAN, FlushAnswered(t, ok, stored)
  PROVE  ScanInv'
  <1>1. ScanQueueTypeOK /\ AnswersOK /\ DeviceOK
    BY DEF ScanInv
  <1> PICK x : x = Head(flushing[t])
    OBVIOUS
  <1> PICK rest : rest = Tail(flushing[t])
    OBVIOUS
  <1>2. flushing[t] \in Seq(Scan) /\ flushing[t] # <<>> /\ flushing \in [Tab -> Seq(Scan)]
    BY <1>1 DEF ScanQueueTypeOK, FlushAnswered
  <1>3. x \in Scan /\ rest \in Seq(Scan) /\ (rest # <<>> => Head(rest) \in Scan) /\ t \in Asker
    BY <1>2 DEF Asker
  <1> PICK a : a = [scan |-> x, by |-> t, ok |-> ok]
    OBVIOUS
  <1>4. a \in answers /\ a.ok = ok /\ a.scan = x
    BY DEF FlushAnswered
  <1>5. ok => applied[x] > 0
    BY <1>1, <1>4 DEF AnswersOK
  <1> PICK s : s = IF ok THEN "sent" ELSE "refused"
    OBVIOUS
  <1>6. s \in ShownAs /\ s # "queued" /\ s \notin {"nothing", "sending"} /\ (s = "sent" => ok)
    BY DEF ShownAs
  <1> PICK q : q = Written(Unqueued(t), stored)
    OBVIOUS
  <1>7. /\ q \in Seq(Scan)
        /\ \A j, k \in DOMAIN q : q[j] = q[k] => j = k
        /\ \A y : y # x /\ Waits(y, queue) => Waits(y, q)
        /\ \A j \in DOMAIN q : \E k \in DOMAIN queue : q[j] = queue[k]
    <2>1. CASE stored
      BY <1>1, <2>1, UnqueuedKeeps DEF Written
    <2>2. CASE ~stored
      BY <1>1, <2>2 DEF Written, ScanQueueTypeOK
    <2> QED
      BY <2>1, <2>2
  <1> PICK f : f = [shown EXCEPT ![x] = s]
    OBVIOUS
  <1>8. /\ queue' = q /\ shown' = f /\ flushing' = [flushing EXCEPT ![t] = rest]
        /\ wire' = (IF rest = <<>> THEN wire ELSE wire \cup {Sent(Head(rest), t)})
        /\ answers' \subseteq answers /\ UNCHANGED <<kept, applied, expired, unwritten>>
    BY DEF FlushAnswered
  <1>9. f \in [Scan -> ShownAs] /\ \A y \in Scan : f[y] = IF y = x THEN s ELSE shown[y]
    BY <1>1, <1>3, <1>6 DEF ScanQueueTypeOK
  <1>10. DeviceStep
    BY <1>1, <1>3, <1>8, SentTypes DEF DeviceStep, RequestsOK, ScanQueueTypeOK
  <1>11. \A y \in Scan : f[y] = "sent" => applied[y] > 0
    BY <1>1, <1>5, <1>6, <1>9 DEF DeviceOK
  <1>12. \A y \in Scan : f[y] = "queued" => y \in unwritten \/ Waits(y, q)
    BY <1>1, <1>6, <1>7, <1>9 DEF DeviceOK
  <1>13. \A i \in DOMAIN q : f[q[i]] \notin {"nothing", "sending"}
    <2> SUFFICES ASSUME NEW i \in DOMAIN q PROVE f[q[i]] \notin {"nothing", "sending"}
      OBVIOUS
    <2>1. PICK k \in DOMAIN queue : q[i] = queue[k]
      BY <1>7
    <2>2. q[i] \in Scan /\ shown[q[i]] \notin {"nothing", "sending"}
      BY <1>1, <1>7, <2>1 DEF DeviceOK
    <2> QED
      BY <1>6, <1>9, <2>2
  <1>14. DeviceOK'
    BY <1>8, <1>11, <1>12, <1>13 DEF DeviceOK
  <1>15. flushing' \in [Tab -> Seq(Scan)]
    BY <1>2, <1>3, <1>8
  <1> QED
    BY <1>7, <1>8, <1>9, <1>10, <1>14, <1>15, DeviceKeeps

-----------------------------------------------------------------------------
(* Answers of the server. *)
LEMMA AnsweredTypes ==
  ASSUME ScanQueueTypeOK, NEW r \in wire, NEW ok \in BOOLEAN, Answered(r, ok)
  PROVE  /\ r.scan \in Scan
         /\ RepliesOK(answers')
         /\ \A a \in answers' : a \in answers \/ (a.scan = r.scan /\ a.ok = ok)
  <1>1. r \in [scan : Scan, by : Asker] /\ RepliesOK(answers)
    BY DEF ScanQueueTypeOK, RepliesOK
  <1>2. CASE r.by = Forgotten
    BY <1>1, <1>2 DEF Answered
  <1>3. CASE r.by # Forgotten
    <2> PICK n : n = [scan |-> r.scan, by |-> r.by, ok |-> ok]
      OBVIOUS
    <2>1. n \in [scan : Scan, by : Asker \ {Forgotten}, ok : BOOLEAN] /\ n.scan = r.scan /\ n.ok = ok
      BY <1>1, <1>3
    <2>2. answers' = answers \cup {n}
      BY <1>3 DEF Answered
    <2> QED
      BY <1>1, <2>1, <2>2 DEF RepliesOK
  <1> QED
    BY <1>2, <1>3

LEMMA ApplyKeeps ==
  ASSUME ScanInv, NEW r \in wire, NEW ok \in BOOLEAN, Apply(r, ok)
  PROVE  ScanInv'
  <1>1. ScanQueueTypeOK /\ ServerOK /\ AnswersOK /\ DeviceOK
    BY DEF ScanInv
  <1> PICK x : x = r.scan
    OBVIOUS
  <1>2. /\ x \in Scan /\ RepliesOK(answers')
        /\ \A a \in answers' : a \in answers \/ (a.scan = x /\ a.ok = ok)
    BY <1>1, AnsweredTypes DEF Apply
  <1> PICK g : g = applied'
    OBVIOUS
  <1>3. g = IF x \in kept THEN applied ELSE [applied EXCEPT ![x] = @ + 1]
    BY DEF Apply, Known
  <1>4. applied \in [Scan -> Nat]
    BY <1>1 DEF ScanQueueTypeOK
  <1>5. /\ g \in [Scan -> Nat] /\ \A y \in Scan : g[y] >= applied[y]
        /\ \A y \in Scan \ {x} : g[y] = applied[y]
        /\ g[x] = IF x \in kept THEN applied[x] ELSE applied[x] + 1
    <2>1. CASE x \in kept
      BY <1>3, <1>4, <2>1
    <2>2. CASE x \notin kept
      BY <1>2, <1>3, <1>4, <2>2
    <2> QED
      BY <2>1, <2>2
  <1>6. kept' = kept \cup {x} /\ UNCHANGED <<queue, flushing, shown, expired, unwritten>> /\ wire' \subseteq wire
    BY DEF Apply
  <1>7. ScanQueueTypeOK'
    BY <1>1, <1>2, <1>5, <1>6 DEF ScanQueueTypeOK, RepliesOK
  <1>8. g[x] > 0
    BY <1>1, <1>2, <1>4, <1>5 DEF ServerOK
  <1>9. ServerOK'
    <2> SUFFICES ASSUME NEW y \in Scan
                 PROVE  /\ y \notin expired => g[y] = (IF y \in kept \cup {x} THEN 1 ELSE 0)
                        /\ y \in kept \cup {x} => g[y] > 0
      BY <1>6 DEF ServerOK
    <2>1. CASE y = x
      BY <1>1, <1>2, <1>4, <1>5, <1>8, <2>1 DEF ServerOK
    <2>2. CASE y # x
      BY <1>1, <1>5, <2>2 DEF ServerOK
    <2> QED
      BY <2>1, <2>2
  <1>10. AnswersOK'
    <2> SUFFICES ASSUME NEW a \in answers', a.ok PROVE g[a.scan] > 0
      BY DEF AnswersOK
    <2>1. CASE a \in answers
      <3>1. a.scan \in Scan /\ applied[a.scan] > 0
        BY <1>1, <2>1 DEF AnswersOK, ScanQueueTypeOK
      <3> QED
        BY <1>4, <1>5, <3>1
    <2>2. CASE a.scan = x
      BY <1>8, <2>2
    <2> QED
      BY <1>2, <2>1, <2>2
  <1>11. DeviceOK'
    <2>1. \A y \in Scan : shown[y] = "sent" => g[y] > 0
      BY <1>1, <1>4, <1>5 DEF DeviceOK
    <2> QED
      BY <1>1, <1>6, <2>1 DEF DeviceOK
  <1> QED
    BY <1>7, <1>9, <1>10, <1>11 DEF ScanInv

LEMMA RefuseKeeps ==
  ASSUME ScanInv, NEW r \in wire, Refuse(r)
  PROVE  ScanInv'
  <1>1. ScanQueueTypeOK /\ ServerOK /\ AnswersOK /\ DeviceOK
    BY DEF ScanInv
  <1>2. RepliesOK(answers') /\ \A a \in answers' : a \in answers \/ a.ok = FALSE
    BY <1>1, AnsweredTypes DEF Refuse
  <1>3. UNCHANGED <<queue, flushing, shown, kept, applied, expired, unwritten>> /\ wire' \subseteq wire
    BY DEF Refuse
  <1>4. ScanQueueTypeOK'
    BY <1>1, <1>2, <1>3 DEF ScanQueueTypeOK, RepliesOK
  <1> QED
    BY <1>1, <1>2, <1>3, <1>4 DEF ScanInv, ServerOK, AnswersOK, DeviceOK

LEMMA PurgeKeyKeeps ==
  ASSUME ScanInv, NEW x \in Scan, PurgeKey(x)
  PROVE  ScanInv'
  <1>1. ScanQueueTypeOK /\ ServerOK /\ AnswersOK /\ DeviceOK
    BY DEF ScanInv
  <1>2. /\ UNCHANGED <<queue, flushing, shown, wire, answers, applied, unwritten>>
        /\ kept' = kept \ {x} /\ expired' = expired \cup {x}
    BY DEF PurgeKey
  <1>3. ScanQueueTypeOK'
    BY <1>1, <1>2 DEF ScanQueueTypeOK
  <1>4. ServerOK' /\ AnswersOK' /\ DeviceOK'
    BY <1>1, <1>2 DEF ServerOK, AnswersOK, DeviceOK
  <1> QED
    BY <1>3, <1>4 DEF ScanInv

LEMMA ScansBegin == ScanQueueInit => ScanInv
  <1> SUFFICES ASSUME ScanQueueInit PROVE ScanInv
    OBVIOUS
  <1>1. /\ queue = <<>> /\ flushing = [t \in Tab |-> <<>>] /\ shown = [x \in Scan |-> "nothing"]
        /\ wire = {} /\ answers = {} /\ kept = {} /\ expired = {} /\ unwritten = {} /\ applied = [x \in Scan |-> 0]
    BY DEF ScanQueueInit
  <1>2. <<>> \in Seq(Scan) /\ DOMAIN queue = {}
    BY <1>1
  <1>3. ScanQueueTypeOK
    BY <1>1, <1>2 DEF ScanQueueTypeOK, ShownAs
  <1> QED
    BY <1>1, <1>2, <1>3 DEF ScanInv, ServerOK, AnswersOK, DeviceOK

LEMMA ScansStay ==
  ASSUME ScanInv, UNCHANGED scanVars
  PROVE  ScanInv'
  BY DEF scanVars, ScanInv, ScanQueueTypeOK, ServerOK, AnswersOK, DeviceOK

LEMMA ScansStep == ScanInv /\ [ScanQueueNext]_scanVars => ScanInv'
  <1> SUFFICES ASSUME ScanInv, [ScanQueueNext]_scanVars PROVE ScanInv'
    OBVIOUS
  <1>1. ASSUME NEW x \in Scan, SendScan(x) \/ LeavePage(x) \/ PurgeKey(x) PROVE ScanInv'
    BY <1>1, SendScanKeeps, LeavePageKeeps, PurgeKeyKeeps
  <1>2. ASSUME NEW x \in Scan, NEW yes \in BOOLEAN, ScanAnswered(x, yes) \/ QueueScan(x, yes) PROVE ScanInv'
    BY <1>2, ScanAnsweredKeeps, QueueScanKeeps
  <1>3. ASSUME NEW t \in Tab, StartFlush(t) \/ StopFlush(t) PROVE ScanInv'
    BY <1>3, StartFlushKeeps, StopFlushKeeps
  <1>4. ASSUME NEW t \in Tab, NEW ok \in BOOLEAN, NEW yes \in BOOLEAN, FlushAnswered(t, ok, yes) PROVE ScanInv'
    BY <1>4, FlushAnsweredKeeps
  <1>5. ASSUME NEW r \in wire, Refuse(r) PROVE ScanInv'
    BY <1>5, RefuseKeeps
  <1>6. ASSUME NEW r \in wire, NEW ok \in BOOLEAN, Apply(r, ok) PROVE ScanInv'
    BY <1>6, ApplyKeeps
  <1>7. CASE UNCHANGED scanVars
    BY <1>7, ScansStay
  <1> QED
    BY <1>1, <1>2, <1>3, <1>4, <1>5, <1>6, <1>7 DEF ScanQueueNext, Serve

(* A scan is applied once as long as its key is kept, through lost answers,  *)
(* closed tabs and two tabs that flush at once, and what the user was told   *)
(* of it is true unless the device could not store it (sendOrQueue,          *)
(* writeQueue, flushQueue, scan_event).                                      *)
THEOREM ScansCorrect == ScanQueueSpec => []ScansHold
  <1>1. ASSUME ScanInv PROVE ScansHold
    <2>1. ServerOK /\ DeviceOK
      BY <1>1 DEF ScanInv
    <2>2. \A x \in Scan : x \notin expired => applied[x] = 0 \/ applied[x] = 1
      BY <2>1 DEF ServerOK
    <2>3. \A x \in Scan : x \notin expired => applied[x] <= 1
      BY <2>2
    <2>4. \A x \in Scan : shown[x] = "sent" => applied[x] > 0
      BY <2>1 DEF DeviceOK
    <2>5. \A x \in Scan : shown[x] = "queued" /\ x \notin unwritten => \E i \in DOMAIN queue : queue[i] = x
      BY <2>1 DEF DeviceOK, Waits
    <2> QED
      BY <2>3, <2>4, <2>5 DEF ScansHold
  <1> QED
    BY <1>1, ScansBegin, ScansStep, PTL DEF ScanQueueSpec

-----------------------------------------------------------------------------
(* All parts of the platform keep their types, for all values of all their   *)
(* constants: PlatformTypeOK.                                                *)
THEOREM PlatformTypes == PlatformSpec => []PlatformTypeOK
  <1>1. CatalogInv => CatalogTypeOK
    BY DEF CatalogInv
  <1>2. CatalogSpec => []CatalogTypeOK
    BY <1>1, CatalogAtFirst, CatalogSteps, PTL DEF CatalogSpec
  <1>3. ScanInv => ScanQueueTypeOK
    BY DEF ScanInv
  <1>4. ScanQueueSpec => []ScanQueueTypeOK
    BY <1>3, ScansBegin, ScansStep, PTL DEF ScanQueueSpec
  <1>5. PlatformTypeOK <=> (BillingTypeOK /\ SessionsTypeOK /\ IdempotencyTypeOK /\ ScanQueueTypeOK /\ CatalogTypeOK)
    BY DEF PlatformTypeOK
  <1> QED
    BY <1>2, <1>4, <1>5, BillingTypes, SessionsTypes, IdempotencyTypes, PTL DEF PlatformSpec
=============================================================================
