------------------------------- MODULE Billing -------------------------------
(***************************************************************************)
(* The subscription of one tenant and its invoices: app/modules/billing    *)
(* and the operator's part of app/modules/platform/router.py.              *)
(*                                                                         *)
(* Five parties change them: the tenant (checkout, cancel, resume, pay),   *)
(* the payment provider, which tells of a payment as often as it likes,    *)
(* the operator (mark paid, override), the worker's lifecycle job and the  *)
(* clock.  A payment locks its invoice and then the subscription; a        *)
(* checkout locks the subscription and then the open invoices.             *)
(*                                                                         *)
(* A handler of the tenant decides on the row it has locked: what was read *)
(* of the subscription before, to find out what the tenant may do, is kept *)
(* by nobody (entitlements.load), and the locking read is a new one.       *)
(*                                                                         *)
(* Dates are distances from now; a date that has passed counts down to     *)
(* -Grace at most, beyond which it makes no difference.                    *)
(***************************************************************************)
EXTENDS Integers, FiniteSets

CONSTANTS
  Offer,     \* a plan with a billing cycle
  Months,    \* [Offer -> Nat]: the length of its period
  Contract,  \* the offers without a price
  Trial,     \* length of the trial
  Grace,     \* grace_days
  Notice,    \* renewal_notice_days
  Invoices,  \* bound: how many invoices there can be
  OverrideTo, \* bound: the operator sets one of these
  MaxAhead,  \* bound: periods are not paid further ahead
  Null

Invoice == 1..Invoices

Status == {"TRIALING", "ACTIVE", "PAST_DUE", "SUSPENDED", "CANCELLED"}

ASSUME BillingAssumption ==
  /\ Months \in [Offer -> Nat \ {0}] /\ Contract \subseteq Offer
  /\ Trial \in Nat /\ Grace \in Nat /\ Notice \in Nat /\ MaxAhead \in Nat \ {0}
  /\ Invoices \in Nat /\ OverrideTo \subseteq Status
  /\ Null \notin Int /\ Null \notin Offer

VARIABLES
  sub,        \* the subscription
  invoice,    \* the invoices
  settled,    \* the invoices whose money has arrived at the provider or the bank
  extended,   \* how often each has extended the subscription
  paying,     \* the invoices a payment holds locked
  holder      \* the offer of the checkout that has locked the subscription

billingVars == <<sub, invoice, settled, extended, paying, holder>>

Date == Int \cup {Null}

Kinds == {"NEW", "RENEWAL", "CHANGE"}

Subscriptions == [status : Status, offer : Offer, trial : Date, period : Date, grace : Date,
                  cancel : BOOLEAN]

InvoiceRow == [status : {"NONE", "OPEN", "PAID", "EXPIRED", "VOID"},
               kind : Kinds, offer : Offer \cup {Null}]
NoInvoice  == [status |-> "NONE", kind |-> "NEW", offer |-> Null]

BillingTypeOK ==
  /\ sub \in Subscriptions
  /\ \A d \in {sub.trial, sub.period, sub.grace} : d = Null \/ d \in (-Grace)..(MaxAhead + Trial + Grace)
  /\ invoice \in [Invoice -> InvoiceRow]
  /\ settled \subseteq Invoice
  /\ extended \in [Invoice -> Nat]
  /\ paying \subseteq Invoice
  /\ holder \in Offer \cup {Null}

(* start_trial() at signup. *)
BillingInit ==
  /\ sub \in {[status |-> "TRIALING", offer |-> o, trial |-> Trial, period |-> Null, grace |-> Null,
               cancel |-> FALSE] : o \in Offer \ Contract}
  /\ invoice = [i \in Invoice |-> NoInvoice]
  /\ settled = {}
  /\ extended = [i \in Invoice |-> 0]
  /\ paying = {} /\ holder = Null

-----------------------------------------------------------------------------
Open   == {i \in Invoice : invoice[i].status = "OPEN"}
Unused == {i \in Invoice : invoice[i].status = "NONE"}

(* create_invoice(): the next number. *)
NextInvoice(rows, kind, offer) ==
  LET i == CHOOSE j \in Unused : \A k \in Unused : j <= k
  IN  [rows EXCEPT ![i] = [status |-> "OPEN", kind |-> kind, offer |-> offer]]

Passed(d) == d # Null /\ d <= 0

-----------------------------------------------------------------------------
(***************************************************************************)
(* The tenant.                                                             *)
(***************************************************************************)
(* The kind of an invoice, by the subscription that is locked. *)
Kind(offer) == CASE sub.status # "ACTIVE" -> "NEW"
                 [] sub.offer = offer     -> "RENEWAL"
                 [] OTHER                 -> "CHANGE"

LockForCheckout(offer) ==
  /\ holder = Null
  /\ holder' = offer
  /\ UNCHANGED <<sub, invoice, settled, extended, paying>>

(* The open invoices become VOID, once nobody else has them locked.  The     *)
(* payment link is made before the commit.                                   *)
Replaced(rows) == [i \in Invoice |-> IF rows[i].status = "OPEN" THEN [rows[i] EXCEPT !.status = "VOID"]
                                                                ELSE rows[i]]

FinishCheckout ==
  /\ holder # Null
  /\ Open \cap paying = {}
  /\ Unused # {}
  /\ invoice' = NextInvoice(Replaced(invoice), Kind(holder), holder)
  /\ holder' = Null
  /\ UNCHANGED <<sub, settled, extended, paying>>

(* A refusal, a lost connection, an unreachable provider, or the end of a    *)
(* deadlock with a payment.                                                  *)
LeaveCheckout ==
  /\ holder # Null
  /\ holder' = Null
  /\ UNCHANGED <<sub, invoice, settled, extended, paying>>

(* cancel() and resume() *)
SetCancel(cancel) ==
  /\ holder = Null
  /\ sub.status = "ACTIVE"
  /\ sub' = [sub EXCEPT !.cancel = cancel]
  /\ UNCHANGED <<invoice, settled, extended, paying, holder>>

-----------------------------------------------------------------------------
(***************************************************************************)
(* The provider, or the bank.                                              *)
(***************************************************************************)
Settle(i) ==
  /\ invoice[i].status \in {"OPEN", "EXPIRED", "VOID"} /\ i \notin settled
  /\ settled' = settled \cup {i}
  /\ UNCHANGED <<sub, invoice, extended, paying, holder>>

(* midtrans_webhook() with an outcome of FAILED: declined or run out, or a   *)
(* notification that comes late.                                             *)
NotifyFailed(i) ==
  /\ invoice[i].status = "OPEN" /\ i \notin paying
  /\ invoice' = [invoice EXCEPT ![i].status = "EXPIRED"]
  /\ UNCHANGED <<sub, settled, extended, paying, holder>>

(* midtrans_webhook() with an outcome of PAID, or mark_paid(): the invoice   *)
(* is locked.                                                                *)
BeginPayment(i) ==
  /\ i \in settled /\ i \notin paying
  /\ paying' = paying \cup {i}
  /\ UNCHANGED <<sub, invoice, settled, extended, holder>>

(* The new period begins where a running one ends. *)
StartOfPeriod(row) ==
  IF row.kind = "RENEWAL" /\ sub.status = "ACTIVE" /\ sub.period # Null /\ ~Passed(sub.period)
  THEN sub.period
  ELSE 0

\* Mutant: an invoice that was paid before is paid again.
AnyButVoid(i) == invoice[i].status # "VOID"

\* Mutant: what has run out at the provider cannot be paid any more.
OnlyOpen(i) == invoice[i].status = "OPEN"

Payable(i) == invoice[i].status \in {"OPEN", "EXPIRED"}

(* apply_payment(), once the subscription is free. *)
ApplyPayment(i) ==
  /\ i \in paying /\ holder = Null
  /\ Payable(i)
  /\ StartOfPeriod(invoice[i]) + Months[invoice[i].offer] <= MaxAhead
  /\ invoice' = [invoice EXCEPT ![i].status = "PAID"]
  /\ sub' = [sub EXCEPT !.status = "ACTIVE", !.offer = invoice[i].offer,
                        !.period = StartOfPeriod(invoice[i]) + Months[invoice[i].offer],
                        !.grace = Null, !.cancel = FALSE]
  /\ extended' = [extended EXCEPT ![i] = @ + 1]
  /\ paying' = paying \ {i}
  /\ UNCHANGED <<settled, holder>>

(* Paid already, VOID, a lost connection, or the end of a deadlock. *)
LeavePayment(i) ==
  /\ i \in paying
  /\ paying' = paying \ {i}
  /\ UNCHANGED <<sub, invoice, settled, extended, holder>>

-----------------------------------------------------------------------------
(***************************************************************************)
(* The operator: override_subscription().                                  *)
(***************************************************************************)
Override(status, offer, trial, period) ==
  /\ holder = Null
  /\ sub' = [sub EXCEPT !.status = status, !.offer = offer, !.trial = trial, !.period = period,
                        !.grace = IF status = "ACTIVE" THEN Null ELSE @]
  /\ UNCHANGED <<invoice, settled, extended, paying, holder>>

-----------------------------------------------------------------------------
(***************************************************************************)
(* The worker: run_lifecycle().  A subscription somebody has locked is     *)
(* left for the next run.                                                  *)
(***************************************************************************)
TrialOver == sub.status = "TRIALING" /\ Passed(sub.trial)

PeriodOver == sub.status = "ACTIVE" /\ Passed(sub.period)

\* Mutant: the grace of a trial, which has no period, never ends.
GraceOfPeriodOver == sub.status = "PAST_DUE" /\ Passed(sub.period) /\ Passed(sub.grace)

GraceOver == sub.status = "PAST_DUE" /\ Passed(sub.grace)

\* Mutant: the status of an invoice.
EndedAsExpired == [sub EXCEPT !.status = "EXPIRED"]

Ended == [sub EXCEPT !.status = "CANCELLED"]

AfterDeadline ==
  CASE TrialOver                -> [sub EXCEPT !.status = "PAST_DUE", !.grace = Grace]
    [] PeriodOver /\ sub.cancel  -> Ended
    [] PeriodOver /\ ~sub.cancel -> [sub EXCEPT !.status = "PAST_DUE", !.grace = sub.period + Grace]
    [] GraceOver                -> [sub EXCEPT !.status = "SUSPENDED"]
    [] OTHER                    -> sub

RenewalDue(s) ==
  /\ s.status \in {"ACTIVE", "PAST_DUE"} /\ ~s.cancel
  /\ s.period # Null /\ s.period <= Notice
  /\ s.offer \notin Contract

Lifecycle ==
  LET bill == RenewalDue(AfterDeadline) /\ Open = {} /\ Unused # {}
  IN  /\ holder = Null
      /\ AfterDeadline # sub \/ bill
      /\ sub' = AfterDeadline
      /\ invoice' = IF bill THEN NextInvoice(invoice, "RENEWAL", sub.offer) ELSE invoice
      /\ UNCHANGED <<settled, extended, paying, holder>>

Later(d, floor) == IF d = Null \/ d = floor THEN d ELSE d - 1

Tick ==
  /\ sub' = [sub EXCEPT !.trial = Later(@, 0), !.period = Later(@, -Grace), !.grace = Later(@, 0)]
  /\ sub' # sub
  /\ UNCHANGED <<invoice, settled, extended, paying, holder>>

-----------------------------------------------------------------------------
TenantActs ==
  \/ \E o \in Offer \ Contract : LockForCheckout(o)
  \/ FinishCheckout \/ LeaveCheckout
  \/ \E cancel \in BOOLEAN : SetCancel(cancel)

PaymentActs ==
  \E i \in Invoice :
    \/ Settle(i) \/ NotifyFailed(i)
    \/ BeginPayment(i) \/ ApplyPayment(i) \/ LeavePayment(i)

OperatorActs ==
  \E status \in {sub.status} \cup OverrideTo, offer \in Offer,
     trial \in {sub.trial, Trial}, period \in {sub.period, 1} : Override(status, offer, trial, period)

BillingNext == TenantActs \/ PaymentActs \/ OperatorActs \/ Lifecycle \/ Tick

BillingSpec == BillingInit /\ [][BillingNext]_billingVars

(* The provider repeats itself until it is answered, the worker runs every   *)
(* thirty seconds, requests end and time passes.  The subscription may be    *)
(* locked at many of these moments, but not always.                          *)
BillingFairness ==
  /\ WF_billingVars(Tick) /\ SF_billingVars(Lifecycle)
  /\ \A i \in Invoice : SF_billingVars(BeginPayment(i) /\ holder = Null) /\ SF_billingVars(ApplyPayment(i))
  /\ WF_billingVars(FinishCheckout \/ LeaveCheckout)

-----------------------------------------------------------------------------
(***************************************************************************)
(* A tenant never has two bills to pay at once, whatever checkouts and     *)
(* renewals come together (checkout, run_lifecycle).                       *)
(***************************************************************************)
OneOpenInvoice == Cardinality(Open) <= 1

(***************************************************************************)
(* "Pembayaran ganda tidak memperpanjang langganan dua kali": an invoice   *)
(* extends the subscription once, when it becomes PAID, however often its  *)
(* payment is reported, and by whom.                                       *)
(***************************************************************************)
PaidOnce ==
  \A i \in Invoice : extended[i] = IF invoice[i].status = "PAID" THEN 1 ELSE 0

(***************************************************************************)
(* One bill at a time, and each pays for one period: also when a checkout  *)
(* replaces an invoice that is being paid.                                 *)
(***************************************************************************)
InvoicesHold == OneOpenInvoice /\ PaidOnce

(***************************************************************************)
(* Money that has arrived is credited, through deadlocks and failures, to  *)
(* an invoice that was not replaced in the meantime.  (One that was, a     *)
(* VOID one, is refused for good: apply_payment.)                          *)
(***************************************************************************)
MoneyIsCredited ==
  \A i \in Invoice : i \in settled ~> invoice[i].status \in {"PAID", "VOID"}

(***************************************************************************)
(* A grace period ends: with a payment, with read-only access or by the    *)
(* operator's hand, although the job skips a subscription in use.          *)
(***************************************************************************)
GraceEnds == sub.status = "PAST_DUE" /\ sub.grace # Null ~> sub.status # "PAST_DUE"
=============================================================================
