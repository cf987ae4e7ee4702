------------------------------ MODULE OrderStock ------------------------------
(***************************************************************************)
(* Orders, their stock reservations and the inventory balances, as the    *)
(* concurrent database transactions of the API and of the worker see      *)
(* them.                                                                   *)
(*                                                                         *)
(* Every request and every worker job is one PostgreSQL transaction at    *)
(* READ COMMITTED.  Its row locks (SELECT ... FOR UPDATE) last until it    *)
(* ends, so at most one uncommitted version of a row exists, the one its   *)
(* lock holder wrote.  A row is therefore modelled as a committed version, *)
(* which every other transaction reads, and a working version, equal to    *)
(* the committed one whenever the row is not locked.  A balance has one    *)
(* more version: the attributes of the ORM object in memory, which the     *)
(* session writes to its working row only when it flushes (autoflush is    *)
(* off) and which lock_balances() overwrites with the row it reads.        *)
(*                                                                         *)
(* A transaction advances by the steps between which others can be seen:  *)
(* an unlocked read, each row lock it waits for, each write.  It can be    *)
(* rolled back at any of them: an AppError, a statement timeout, a         *)
(* deadlock victim, a crash.                                               *)
(***************************************************************************)
EXTENDS Balance, FiniteSets

CONSTANTS
  Warehouse,     \* the active warehouses of one tenant
  Sku,
  NumOrders,     \* orders are numbered by the tenant's order counter
  Need,          \* [1..NumOrders -> [Sku -> Nat]]: the quantities an order asks for
  SameCity,      \* [1..NumOrders -> SUBSET Warehouse]: warehouses in its city
  Code,          \* [Warehouse -> Nat]: the alphabetical rank of the warehouse code
  LockRank,      \* [Warehouse \X Sku -> Nat]: the sort key of lock_balances()
  Request,       \* the API's connections: requests that can run at once
  Worker,        \* the one session that holds the maintenance advisory lock
  None,          \* no order, no warehouse, no session
  Quantities,    \* the quantities receipts and adjustments are made with
  Reasons,       \* the reason codes adjustments are made with
  RetryLimit,    \* how many orders retry_holds() tries after a receipt
  WorkerLimit,   \* and how many when the worker calls it
  ExpireLimit,   \* how many overdue orders the worker reads at a time
  MaxUnits       \* bound: no receipt or adjustment brings in more units of a pair

Order   == 1..NumOrders
Pair    == Warehouse \X Sku
Session == Request \cup {Worker}

ASSUME ConstantsAssumption ==
  /\ NumOrders \in Nat /\ MaxUnits \in Nat
  /\ RetryLimit \in Nat /\ WorkerLimit \in Nat /\ ExpireLimit \in Nat
  /\ Need \in [Order -> [Sku -> Nat]]
  /\ \A o \in Order : \E s \in Sku : Need[o][s] > 0
  /\ SameCity \in [Order -> SUBSET Warehouse]
  /\ Code \in [Warehouse -> Nat]
  /\ LockRank \in [Pair -> Nat]
  /\ Worker \notin Request
  /\ None \notin Warehouse \cup Session \cup Order
  /\ Quantities \subseteq Nat \ {0}
  /\ Reasons \subseteq {"FOUND", "LOST", "DAMAGED", "WRITE_OFF_DAMAGED"}

VARIABLES
  ord,     \* committed orders, each with its batch of reservations
  ordW,    \* the working version of each order
  bal,     \* committed balances
  row,     \* the working (flushed) version of each balance
  mem,     \* the ORM attributes of each balance, in its holder's session
  led,     \* per pair, the sum of the committed ledger entries
  ledW,    \* the same with the entries of the running transactions
  olock,   \* the session that holds the row lock of an order, or None
  block,   \* the session that holds the row lock of a balance, or None
  tx,      \* what each session is doing
  due,     \* the orders whose reservation deadline has passed
  stale    \* the waiting orders whose row nobody has changed for 30 days

dbVars == <<ord, bal, led>>
vars   == <<ord, ordW, bal, row, mem, led, ledW, olock, block, tx, due, stale>>

-------------------------------------------------------------------------------
(* An order with its reservations.  "NEW" is an order not inserted yet.  All *)
(* reservations of an order are made, settled and dated together, so they    *)
(* are one batch: its status, its warehouse and whether it has a deadline.   *)

Statuses == {"NEW", "CREATED", "PAID", "ALLOCATED", "PICKING", "PACKING",
             "READY_TO_SHIP", "SHIPPED", "DELIVERED", "FAILED", "CANCELLED"}

OrderRecords ==
  [status  : Statuses,
   payment : {"UNPAID", "PAID", "FAILED"},
   stock   : {"PENDING", "RESERVED", "OUT_OF_STOCK", "RELEASED", "CONSUMED"},
   wh      : Warehouse \cup {None},
   hold    : {"NONE", "ACTIVE", "RELEASED", "EXPIRED", "CONSUMED"},
   at      : Warehouse \cup {None},
   expires : BOOLEAN]

Fresh == [status |-> "NEW", payment |-> "UNPAID", stock |-> "PENDING",
          wh |-> None, hold |-> "NONE", at |-> None, expires |-> FALSE]

(* The statuses each action of the order state machine starts from. *)
From(a) == CASE a = "mark_paid"   -> {"CREATED"}
             [] a = "reserve"     -> {"CREATED", "PAID"}
             [] a = "allocate"    -> {"PAID"}
             [] a = "mark_failed" -> {"CREATED", "PAID"}
             [] a = "cancel"      -> {"CREATED", "PAID", "ALLOCATED"}
             [] a = "ship"        -> {"READY_TO_SHIP"}

ReservingActions == {"mark_paid", "reserve", "allocate"}
SettlingActions  == {"cancel", "mark_failed", "ship"}
Jobs == ReservingActions \cup SettlingActions \cup
        {"idle", "create", "create_paid", "receipt", "adjust", "retry", "expire"}

Steps == {"idle", "choose", "lock", "recheck", "pay", "settle", "apply", "flush",
          "next", "expire", "raise", "commit"}

(* A transaction: the job it runs, the step it is at, the order it works on *)
(* and the warehouse it tries, the candidate warehouses left, the balances  *)
(* it still has to lock and the step after that, the orders it still has to *)
(* visit, the stock lines it posts (Zero where it posts none).              *)
Transactions ==
  [job   : Jobs,
   pc    : Steps,
   cur   : Order \cup {None},
   wh    : Warehouse \cup {None},
   cand  : SUBSET (Warehouse \X Warehouse),
   want  : SUBSET Pair,
   then  : {"idle", "recheck", "settle", "apply"},
   todo  : SUBSET Order,
   lines : [Pair -> Deltas]]

NoLines == [p \in Pair |-> Zero]

Idle == [job |-> "idle", pc |-> "idle", cur |-> None, wh |-> None, cand |-> {},
         want |-> {}, then |-> "idle", todo |-> {}, lines |-> NoLines]

(* The version of a row that transaction t reads. *)
RowSeen(t, p)   == IF block[p] = t THEN row[p] ELSE bal[p]
OrderSeen(t, o) == IF olock[o] = t THEN ordW[o] ELSE ord[o]

(* The balances order o needs in warehouse w, and its units there. *)
NeededSkus(o)   == {s \in Sku : Need[o][s] > 0}
NeededPairs(o, w) == {w} \X NeededSkus(o)

(* apply() for each pair d gives a delta for: the balances b after it, and   *)
(* whether none of the calls raises.                                        *)
Posted(b, d)  == [p \in Pair |-> IF p \in DOMAIN d THEN Plus(b[p], d[p]) ELSE b[p]]
CanPost(b, d) == \A p \in DOMAIN d : CanApply(b[p], d[p])

(* A flush writes what session t has in memory, m, to its working rows. *)
Flushed(t, m) == [p \in Pair |-> IF block[p] = t THEN m[p] ELSE row[p]]

Begin(t, r) == /\ tx[t] = Idle
               /\ tx' = [tx EXCEPT ![t] = r]
Goto(t, r)  == tx' = [tx EXCEPT ![t] = r]

-------------------------------------------------------------------------------
(* reserve_order() and the candidates it tries. *)

(* Sum of a function of the SKUs an order needs: its total in a warehouse. *)
Total(o, f) == LET sum[S \in SUBSET NeededSkus(o)] ==
                     IF S = {} THEN 0
                     ELSE LET s == CHOOSE s \in S : TRUE IN f[s] + sum[S \ {s}]
               IN  sum[NeededSkus(o)]

(* Unlocked read: the warehouses whose available stock covers the whole     *)
(* order, sorted by same city first, then the largest total, then the code. *)
(* The sorted list is kept as its order: <<v, w>> when v is not after w.    *)
Candidates(t, o) ==
  LET avail(w) == [s \in Sku |-> Available(RowSeen(t, <<w, s>>))]
      fit == {w \in Warehouse : \A s \in NeededSkus(o) : avail(w)[s] >= Need[o][s]}
      far(w) == IF w \in SameCity[o] THEN 0 ELSE 1
      total == [w \in fit |-> Total(o, avail(w))]
  IN  {e \in fit \X fit :
         LET v == e[1] w == e[2] IN
         \/ far(v) < far(w)
         \/ far(v) = far(w) /\ total[v] > total[w]
         \/ far(v) = far(w) /\ total[v] = total[w] /\ Code[v] <= Code[w]}

(* The best candidate left, and those left when w is not enough after all.  *)
Best(c, w)    == <<w, w>> \in c /\ \A e \in c : <<w, e[1]>> \in c
Without(c, w) == {e \in c : w \notin {e[1], e[2]}}

(* Where a job goes on once reserve_order() has returned got. *)
Continue(job, got) == CASE job = "create_paid" -> "pay"
                        [] job = "retry"       -> "next"
                        [] ~got /\ job \in {"reserve", "allocate"} -> "raise"
                        [] OTHER -> "commit"

\* Mutant: the paid order is left where it is.
AllocatedForgotten(o) == o

(* A paid order whose stock is reserved moves on to the warehouse. *)
Allocated(o) == IF o.status = "PAID" THEN [o EXCEPT !.status = "ALLOCATED"] ELSE o

(* New reservations at w: only an unpaid order's have a deadline. *)
Reserved(o, w, job) ==
  [o EXCEPT !.stock = "RESERVED", !.wh = w, !.hold = "ACTIVE", !.at = w,
            !.expires = job # "create_paid" /\ o.payment # "PAID"]

OutOfStock(o) == [o EXCEPT !.stock = "OUT_OF_STOCK", !.wh = None]

(* Go and lock the best of the candidates c, or report the order out of    *)
(* stock when none is left.                                                *)
Attempt(t, c) ==
  LET x == tx[t] IN
  \/ /\ c = {}
     /\ ordW' = [ordW EXCEPT ![x.cur] = OutOfStock(@)]
     /\ Goto(t, [x EXCEPT !.pc = Continue(x.job, FALSE), !.cand = {}, !.wh = None])
  \/ \E w \in Warehouse :
        /\ Best(c, w)
        /\ Goto(t, [x EXCEPT !.pc = "lock", !.then = "recheck", !.wh = w,
                             !.want = NeededPairs(x.cur, w), !.cand = c])
        /\ UNCHANGED ordW

\* Mutant: an order that holds stock reserves again.
ChooseAgain(t) ==
  /\ tx[t].pc = "choose"
  /\ Attempt(t, Candidates(t, tx[t].cur))
  /\ UNCHANGED <<ord, bal, row, mem, led, ledW, olock, block, due, stale>>

(* reserve_order() starts: an order that already holds stock keeps it. *)
Choose(t) ==
  LET x == tx[t] IN
  /\ x.pc = "choose"
  /\ \/ /\ ordW[x.cur].hold = "ACTIVE"
        /\ ordW' = [ordW EXCEPT ![x.cur] = Allocated(@)]
        /\ Goto(t, [x EXCEPT !.pc = Continue(x.job, TRUE)])
     \/ /\ ordW[x.cur].hold # "ACTIVE"
        /\ Attempt(t, Candidates(t, x.cur))
  /\ UNCHANGED <<ord, bal, row, mem, led, ledW, olock, block, due, stale>>

(* The balance lock_balances() locks next. *)
First(p, want) == p \in want /\ \A q \in want : LockRank[p] <= LockRank[q]

(* lock_balances(): the rows one by one in the order of their sort key;    *)
(* the locked row replaces whatever the session had in memory.             *)
Lock(t) ==
  LET x == tx[t] IN
  /\ x.pc = "lock"
  /\ \E p \in x.want :
        /\ First(p, x.want)
        /\ block[p] \in {None, t}
        /\ block' = [block EXCEPT ![p] = t]
        /\ mem' = [mem EXCEPT ![p] = row[p]]
        /\ Goto(t, [x EXCEPT !.want = @ \ {p},
                             !.pc = IF x.want = {p} THEN x.then ELSE "lock"])
  /\ UNCHANGED <<ord, ordW, bal, row, led, ledW, olock, due, stale>>

(* With the balances locked the stock is checked again: another order may  *)
(* have taken it since the unlocked read.                                  *)
Recheck(t) ==
  LET x == tx[t]
      ps == NeededPairs(x.cur, x.wh)
      d == [p \in ps |-> Reserving(Need[x.cur][p[2]])]
  IN
  /\ x.pc = "recheck"
  /\ \/ /\ \A p \in ps : Available(mem[p]) >= Need[x.cur][p[2]]
        /\ CanPost(mem, d)
        /\ mem' = Posted(mem, d)
        /\ row' = Flushed(t, mem')
        /\ ledW' = Posted(ledW, d)
        /\ ordW' = [ordW EXCEPT ![x.cur] = Allocated(Reserved(@, x.wh, x.job))]
        /\ Goto(t, [x EXCEPT !.pc = Continue(x.job, TRUE), !.cand = {}, !.wh = None])
     \/ /\ \E p \in ps : Available(mem[p]) < Need[x.cur][p[2]]
        /\ Attempt(t, Without(x.cand, x.wh))
        /\ UNCHANGED <<row, mem, ledW>>
  /\ UNCHANGED <<ord, bal, led, olock, block, due, stale>>

-------------------------------------------------------------------------------
(* Requests on orders. *)

(* Payment recorded: from here on the reservation has no deadline. *)
Paid(o) == [o EXCEPT !.status = "PAID", !.payment = "PAID",
                     !.expires = FALSE]

(* POST /orders.  The upsert of the order counter serialises the creations  *)
(* of a tenant until commit, so numbers are used in order.                  *)
StartCreate(t, paid) ==
  \E o \in Order :
    /\ ord[o].status = "NEW" /\ olock[o] = None
    /\ \A q \in 1..(o - 1) : ord[q].status # "NEW"
    /\ olock' = [olock EXCEPT ![o] = t]
    /\ ordW' = [ordW EXCEPT ![o].status = "CREATED"]
    /\ Begin(t, [Idle EXCEPT !.job = IF paid THEN "create_paid" ELSE "create",
                             !.pc = "choose", !.cur = o])
    /\ UNCHANGED <<ord, bal, row, mem, led, ledW, block, due, stale>>

(* An order inserted as paid runs mark_paid in the same transaction. *)
Pay(t) ==
  LET x == tx[t] IN
  /\ x.pc = "pay"
  /\ ordW' = [ordW EXCEPT ![x.cur] = Paid(@)]
  /\ Goto(t, [x EXCEPT !.job = "mark_paid", !.pc = "choose"])
  /\ UNCHANGED <<ord, bal, row, mem, led, ledW, olock, block, due, stale>>

(* POST /orders/{id}/actions/{a} and POST /inventory/reserve lock the order *)
(* and check its status.                                                    *)
StartReserving(t, o, a) ==
  /\ ord[o].status \in From(a) /\ olock[o] = None
  /\ olock' = [olock EXCEPT ![o] = t]
  /\ ordW' = [ordW EXCEPT ![o] = IF a = "mark_paid" THEN Paid(@) ELSE @]
  /\ Begin(t, [Idle EXCEPT !.job = a, !.pc = "choose", !.cur = o])
  /\ UNCHANGED <<ord, bal, row, mem, led, ledW, block, due, stale>>

(* The balances an order's active reservations are on. *)
HeldPairs(o) == IF ordW[o].hold = "ACTIVE" THEN NeededPairs(o, ordW[o].at) ELSE {}

(* _settle_reservations() first locks the balances the order holds stock of. *)
ToSettle(x, o) ==
  IF ordW[o].hold = "ACTIVE"
  THEN [x EXCEPT !.cur = o, !.pc = "lock", !.then = "settle", !.want = HeldPairs(o)]
  ELSE [x EXCEPT !.cur = o, !.pc = "settle"]

StartSettling(t, o, a) ==
  /\ ord[o].status \in From(a) /\ olock[o] = None
  /\ a = "ship" => ord[o].stock = "RESERVED"
  /\ olock' = [olock EXCEPT ![o] = t]
  /\ Begin(t, ToSettle([Idle EXCEPT !.job = a], o))
  /\ UNCHANGED <<ord, ordW, bal, row, mem, led, ledW, block, due, stale>>

(* The order after its reservations are settled by job: shipped, or given   *)
(* back.  Without active reservations only the status changes.              *)
Outcome(job) == CASE job = "ship"   -> "CONSUMED"
                  [] job = "expire" -> "EXPIRED"
                  [] OTHER          -> "RELEASED"

Settled(o, job) ==
  LET held == o.hold = "ACTIVE" IN
  [o EXCEPT !.hold    = IF held THEN Outcome(job) ELSE @,
            !.stock   = CASE ~held -> @ [] job = "ship" -> "CONSUMED" [] OTHER -> "RELEASED",
            !.status  = CASE job = "ship" -> "SHIPPED" [] job = "mark_failed" -> "FAILED"
                          [] OTHER -> "CANCELLED",
            !.payment = IF job = "mark_failed" THEN "FAILED" ELSE @]

Settle(t) ==
  LET x == tx[t]
      d == [p \in HeldPairs(x.cur) |->
              IF x.job = "ship" THEN Shipping(Need[x.cur][p[2]])
                                ELSE Releasing(Need[x.cur][p[2]])]
  IN
  /\ x.pc = "settle"
  /\ CanPost(mem, d)
  /\ mem' = Posted(mem, d)
  /\ row' = Flushed(t, mem')
  /\ ledW' = Posted(ledW, d)
  /\ ordW' = [ordW EXCEPT ![x.cur] = Settled(@, x.job)]
  /\ Goto(t, [x EXCEPT !.pc = IF x.job = "expire" THEN "expire" ELSE "commit", !.cur = None])
  /\ UNCHANGED <<ord, bal, led, olock, block, due, stale>>

(* The status changes of picking, packing and delivery, under the order's   *)
(* lock and without any effect on reservations or balances here.            *)
Advance(o) ==
  LET after == CASE ord[o].status = "ALLOCATED" -> "PICKING"
                 [] ord[o].status = "PICKING"   -> "PACKING"
                 [] ord[o].status = "PACKING"   -> "READY_TO_SHIP"
                 [] ord[o].status = "SHIPPED"   -> "DELIVERED"
  IN
  /\ ord[o].status \in {"ALLOCATED", "PICKING", "PACKING", "SHIPPED"} /\ olock[o] = None
  /\ ord[o].status = "ALLOCATED" => ord[o].stock = "RESERVED"
  /\ ord' = [ord EXCEPT ![o].status = after]
  /\ ordW' = [ordW EXCEPT ![o].status = after]
  /\ UNCHANGED <<bal, row, mem, led, ledW, olock, block, tx, due, stale>>

-------------------------------------------------------------------------------
(* Stock coming in or corrected. *)

(* The units of a pair in the building, for the bound. *)
Physical(p) == bal[p].on_hand + bal[p].damaged

(* A receipt, a completed inbound document or a stock import: several       *)
(* balances at once.                                                        *)
StartReceipt(t, ps) ==
  \E q \in [ps -> Quantities] :
    /\ ps # {}
    /\ \A p \in ps : Physical(p) + q[p] <= MaxUnits
    /\ Begin(t, [Idle EXCEPT !.job = "receipt", !.pc = "lock", !.then = "apply",
                             !.want = ps,
                             !.lines = [p \in Pair |-> IF p \in ps THEN Receipt(q[p]) ELSE Zero]])
    /\ UNCHANGED <<ord, ordW, bal, row, mem, led, ledW, olock, block, due, stale>>

(* POST /inventory/adjustments. *)
StartAdjust(t, p) ==
  \E reason \in Reasons, q \in Quantities :
    /\ reason = "FOUND" => Physical(p) + q <= MaxUnits
    /\ Begin(t, [Idle EXCEPT !.job = "adjust", !.pc = "lock", !.then = "apply",
                             !.want = {p},
                             !.lines = [NoLines EXCEPT ![p] = AdjustmentLine(reason, q)]])
    /\ UNCHANGED <<ord, ordW, bal, row, mem, led, ledW, olock, block, due, stale>>

Entries(x) == [p \in {q \in Pair : x.lines[q] # Zero} |-> x.lines[p]]

(* apply() on each line.  A receipt leaves the new balances in memory and   *)
(* goes on to retry_holds(); an adjustment flushes and is done.             *)
Post(t) ==
  LET x == tx[t] IN
  /\ x.pc = "apply"
  /\ CanPost(mem, Entries(x))
  /\ mem' = Posted(mem, Entries(x))
  /\ ledW' = Posted(ledW, Entries(x))
  /\ row' = IF x.job = "adjust" THEN Flushed(t, mem') ELSE row
  /\ Goto(t, [x EXCEPT !.lines = NoLines,
                       !.pc = IF x.job = "adjust" THEN "commit" ELSE "flush"])
  /\ UNCHANGED <<ord, ordW, bal, led, olock, block, due, stale>>

(* retry_holds(): flush, then select and lock the waiting orders that       *)
(* nobody else has locked, the oldest of them up to the caller's limit.     *)
Waiting(o) == o.stock = "OUT_OF_STOCK" /\ o.status \in {"CREATED", "PAID"}

LimitOf(job) == IF job = "expire" THEN WorkerLimit ELSE RetryLimit

Oldest(os, limit) == {o \in os : Cardinality({q \in os : q < o}) < limit}

\* Mutant: without the flush before the select.
RetryHoldsUnflushed(t) ==
  LET x == tx[t]
      picked == Oldest({o \in Order : olock[o] \in {None, t} /\ Waiting(OrderSeen(t, o))},
                       LimitOf(x.job))
  IN
  /\ x.pc = "flush"
  /\ olock' = [o \in Order |-> IF o \in picked THEN t ELSE olock[o]]
  /\ Goto(t, [x EXCEPT !.job = "retry", !.pc = "next", !.todo = picked])
  /\ UNCHANGED <<ord, ordW, bal, row, mem, led, ledW, block, due, stale>>

RetryHolds(t) ==
  LET x == tx[t]
      picked == Oldest({o \in Order : olock[o] \in {None, t} /\ Waiting(OrderSeen(t, o))},
                       LimitOf(x.job))
  IN
  /\ x.pc = "flush"
  /\ row' = Flushed(t, mem)
  /\ olock' = [o \in Order |-> IF o \in picked THEN t ELSE olock[o]]
  /\ Goto(t, [x EXCEPT !.job = "retry", !.pc = "next", !.todo = picked])
  /\ UNCHANGED <<ord, ordW, bal, mem, led, ledW, block, due, stale>>

(* The oldest order first. *)
NextHold(t) ==
  LET x == tx[t] IN
  /\ x.pc = "next"
  /\ \/ /\ x.todo = {}
        /\ Goto(t, [x EXCEPT !.pc = "commit", !.cur = None])
     \/ \E o \in x.todo :
          /\ \A q \in x.todo : o <= q
          /\ Goto(t, [x EXCEPT !.cur = o, !.todo = @ \ {o}, !.pc = "choose"])
  /\ UNCHANGED <<ord, ordW, bal, row, mem, led, ledW, olock, block, due, stale>>

-------------------------------------------------------------------------------
(* The worker's maintenance job: expire reservations, then retry the orders *)
(* that wait for stock, in one transaction.                                 *)

\* Mutant: the comparison with the deadline is turned around.
NotYetDue == {o \in Order \ due : ord[o].hold = "ACTIVE" /\ ord[o].expires}

(* The orders whose reservation has expired, in the committed tables. *)
Overdue == due

(* The ids are read without a lock: ExpireLimit of them, in no order. *)
StartMaintenance ==
  /\ \E ids \in SUBSET Overdue :
        /\ Cardinality(ids) <= ExpireLimit
        /\ ids # Overdue => Cardinality(ids) = ExpireLimit
        /\ Begin(Worker, [Idle EXCEPT !.job = "expire", !.pc = "expire", !.todo = ids])
  /\ UNCHANGED <<ord, ordW, bal, row, mem, led, ledW, olock, block, due, stale>>

\* Mutant: what the ids said when they were read is trusted.
NotRechecked(o) == TRUE

(* Checked under the order's lock. *)
StillUnpaid(o) == ord[o].status = "CREATED" /\ ord[o].payment # "PAID"

\* Mutant: asked of every waiting order instead of any.
NoneIsStale == \A o \in Order : Waiting(ord[o]) => o \notin stale

(* _retry_holds(): the worker retries the orders of a tenant only when the  *)
(* row of one of those that wait was changed within the last 30 days.       *)
StillTried == \E o \in Order : Waiting(ord[o]) /\ o \notin stale

(* One of the ids, in no particular order: skipped when somebody else has   *)
(* the order locked, otherwise locked and, if it still is unpaid, settled.  *)
ExpireNext ==
  LET x == tx[Worker] IN
  /\ x.pc = "expire"
  /\ \/ /\ x.todo = {}
        /\ Goto(Worker, [x EXCEPT !.pc = IF StillTried THEN "flush" ELSE "commit"])
        /\ UNCHANGED olock
     \/ \E o \in x.todo :
          LET y == [x EXCEPT !.todo = @ \ {o}] IN
          \/ /\ olock[o] # None
             /\ Goto(Worker, y)
             /\ UNCHANGED olock
          \/ /\ olock[o] = None
             /\ olock' = [olock EXCEPT ![o] = Worker]
             /\ Goto(Worker, IF StillUnpaid(o) THEN ToSettle(y, o) ELSE y)
  /\ UNCHANGED <<ord, ordW, bal, row, mem, led, ledW, block, due, stale>>

-------------------------------------------------------------------------------
(* The end of a transaction, and time. *)

(* COMMIT flushes first, then publishes the working versions and unlocks. *)
Commit(t) ==
  /\ tx[t].pc = "commit"
  /\ ord' = [o \in Order |-> IF olock[o] = t THEN ordW[o] ELSE ord[o]]
  /\ row' = Flushed(t, mem)
  /\ bal' = [p \in Pair |-> IF block[p] = t THEN mem[p] ELSE bal[p]]
  /\ led' = [p \in Pair |-> IF block[p] = t THEN ledW[p] ELSE led[p]]
  /\ due' = {o \in due : olock[o] = t => ordW[o].hold = "ACTIVE" /\ ordW[o].expires}
  /\ stale' = {o \in stale : olock[o] = t => ordW[o] = ord[o]}
  /\ olock' = [o \in Order |-> IF olock[o] = t THEN None ELSE olock[o]]
  /\ block' = [p \in Pair |-> IF block[p] = t THEN None ELSE block[p]]
  /\ tx' = [tx EXCEPT ![t] = Idle]
  /\ UNCHANGED <<ordW, mem, ledW>>

(* ROLLBACK drops them. *)
Undo(t) ==
  /\ ordW' = [o \in Order |-> IF olock[o] = t THEN ord[o] ELSE ordW[o]]
  /\ row' = [p \in Pair |-> IF block[p] = t THEN bal[p] ELSE row[p]]
  /\ mem' = [p \in Pair |-> IF block[p] = t THEN bal[p] ELSE mem[p]]
  /\ ledW' = [p \in Pair |-> IF block[p] = t THEN led[p] ELSE ledW[p]]
  /\ olock' = [o \in Order |-> IF olock[o] = t THEN None ELSE olock[o]]
  /\ block' = [p \in Pair |-> IF block[p] = t THEN None ELSE block[p]]
  /\ tx' = [tx EXCEPT ![t] = Idle]
  /\ UNCHANGED <<ord, bal, led, due, stale>>

(* An AppError: the requested stock is not there, or apply() refuses. *)
Raise(t) ==
  /\ \/ tx[t].pc = "raise"
     \/ /\ tx[t].pc = "apply"
        /\ ~CanPost(mem, Entries(tx[t]))
  /\ Undo(t)

(* Anything else that ends a transaction before its commit. *)
Crash(t) == tx[t] # Idle /\ Undo(t)

(* The deadline of a reservation passes. *)
TimeOut(o) ==
  /\ ord[o].hold = "ACTIVE" /\ ord[o].expires /\ o \notin due
  /\ due' = due \cup {o}
  /\ UNCHANGED <<ord, ordW, bal, row, mem, led, ledW, olock, block, tx, stale>>

(* Thirty days pass and nobody changes the row of a waiting order.  Nothing *)
(* asks for the age of the others.                                          *)
GrowsOld(o) ==
  /\ Waiting(ord[o]) /\ o \notin stale
  /\ stale' = stale \cup {o}
  /\ UNCHANGED <<ord, ordW, bal, row, mem, led, ledW, olock, block, tx, due>>

-------------------------------------------------------------------------------
(* Nothing has been ordered and no stock has been received. *)
Init ==
  /\ ord = [o \in Order |-> Fresh] /\ ordW = ord
  /\ bal = [p \in Pair |-> Zero] /\ row = bal /\ mem = bal
  /\ led = bal /\ ledW = bal
  /\ olock = [o \in Order |-> None]
  /\ block = [p \in Pair |-> None]
  /\ tx = [t \in Session |-> Idle]
  /\ due = {} /\ stale = {}

(* A new request of a user. *)
Submit(t) ==
  \/ \E paid \in BOOLEAN : StartCreate(t, paid)
  \/ \E o \in Order, a \in ReservingActions : StartReserving(t, o, a)
  \/ \E o \in Order, a \in SettlingActions : StartSettling(t, o, a)
  \/ \E ps \in SUBSET Pair : StartReceipt(t, ps)
  \/ \E p \in Pair : StartAdjust(t, p)

(* The next step of a running transaction. *)
Run(t) == \/ Choose(t) \/ Lock(t) \/ Recheck(t) \/ Pay(t) \/ Settle(t) \/ Post(t)
          \/ RetryHolds(t) \/ NextHold(t) \/ Commit(t) \/ Raise(t)

Next ==
  \/ \E t \in Request : Submit(t)
  \/ \E o \in Order : Advance(o) \/ TimeOut(o) \/ GrowsOld(o)
  \/ StartMaintenance \/ ExpireNext
  \/ \E t \in Session : Run(t) \/ Crash(t)

Spec == Init /\ [][Next]_vars

(* The worker's loop never stops calling the job and a started transaction  *)
(* goes on; users need not submit anything.  PostgreSQL queues the waiters  *)
(* for a row lock, so a waiter gets it (strong fairness).  A job that       *)
(* crashes is run again, and it is assumed not to crash for ever.           *)
WorkerCommits == tx[Worker] # Idle /\ tx'[Worker] = Idle => Commit(Worker)

FairSpec ==
  /\ Spec
  /\ \A t \in Session : WF_vars(Run(t)) /\ SF_vars(Lock(t))
  /\ WF_vars(StartMaintenance) /\ WF_vars(ExpireNext)
  /\ <>[][WorkerCommits]_vars

-------------------------------------------------------------------------------
TypeOK ==
  /\ ord \in [Order -> OrderRecords] /\ ordW \in [Order -> OrderRecords]
  /\ bal \in [Pair -> Balances] /\ row \in [Pair -> Balances] /\ mem \in [Pair -> Balances]
  /\ led \in [Pair -> Deltas] /\ ledW \in [Pair -> Deltas]
  /\ olock \in [Order -> Session \cup {None}]
  /\ block \in [Pair -> Session \cup {None}]
  /\ due \subseteq Order /\ stale \subseteq Order
  /\ tx \in [Session -> Transactions]

(* The units promised to orders out of the balance p, each named by its     *)
(* order and a number.                                                      *)
Promised(os, p) ==
  UNION {{o} \X (1..Need[o][p[2]]) : o \in {q \in Order : os[q].hold = "ACTIVE" /\ os[q].at = p[1]}}

(* Stock is never sold twice: in every committed state the reserved count   *)
(* of a balance is exactly the number of units its active reservations      *)
(* promise, and it is covered by physical stock.  Reserve, release, expire  *)
(* and ship keep the two tables together whatever the interleaving of the   *)
(* unlocked candidate read, the row locks, payments and rollbacks.          *)
NeverOversold ==
  \A p \in Pair : /\ bal[p].reserved = Cardinality(Promised(ord, p))
                  /\ bal[p].reserved <= bal[p].on_hand

(* reconcile(): the stored balance is the sum of the committed ledger.      *)
(* Fails as soon as a session locks a balance again before it has flushed   *)
(* what it applied to it.                                                   *)
LedgerReconciles == bal = led

(* What the reservations table accepts: a reservation names a warehouse. *)
ReservationRow(x) == x.hold # "NONE" => x.at # None

(* An order's three statuses tell one story: stock_status, the reservations *)
(* and the status agree, so the warehouse never works on an order without   *)
(* stock and a finished order holds none.                                   *)
StatusesAgree ==
  \A o \in Order :
    LET x == ord[o] IN
    /\ x.stock = "RESERVED" <=> x.hold = "ACTIVE"
    /\ ReservationRow(x)
    /\ x.hold = "ACTIVE" => x.wh = x.at
    /\ x.stock = "OUT_OF_STOCK" => x.wh = None
    /\ x.status \in {"ALLOCATED", "PICKING", "PACKING", "READY_TO_SHIP"} => x.hold = "ACTIVE"
    /\ x.status \in {"SHIPPED", "DELIVERED"} => x.hold = "CONSUMED"
    /\ x.status = "PAID" => x.stock = "OUT_OF_STOCK"
    /\ x.status \in {"FAILED", "CANCELLED"} => x.hold \notin {"ACTIVE", "CONSUMED"}

(* The expiry job against a payment: stock that has been paid for is given  *)
(* up only by a person (cancelled, failed) or shipped, never by a deadline, *)
(* even when the worker had read the order's id before the payment.         *)
PaidStockNeverExpires ==
  [][\A o \in Order :
       /\ ord[o].payment = "PAID" /\ ord[o].hold = "ACTIVE" => ord'[o].hold # "EXPIRED"
       /\ ord'[o].payment = "PAID" /\ ord'[o].hold = "ACTIVE" => ~ord'[o].expires]_vars

(* t waits for a row lock that u holds. *)
WaitsFor(t, u) ==
  /\ tx[t].pc = "lock" /\ t # u
  /\ \E p \in tx[t].want : First(p, tx[t].want) /\ block[p] = u

(* No set of transactions waits in a circle. *)
NoDeadlock ==
  \A S \in SUBSET Session \ {{}} : \E t \in S : \A u \in S : ~WaitsFor(t, u)

(* The orders and balances implement the promise of StockPromise. *)
Phase(o) == CASE o.status \in {"SHIPPED", "DELIVERED"} -> "shipped"
              [] o.status \in {"FAILED", "CANCELLED"}  -> "closed"
              [] o.hold = "ACTIVE"                     -> "held"
              [] OTHER                                 -> "open"

Promise == INSTANCE StockPromise WITH
  phase <- [o \in Order |-> Phase(ord[o])],
  place <- [o \in Order |-> IF ord[o].hold = "ACTIVE" THEN ord[o].at ELSE None],
  stock <- [p \in Pair |-> bal[p].on_hand]

(* Every commit is one legal step of the promise: each order moves at most  *)
(* once and forward, ships exactly what it held, and all held units are     *)
(* there.                                                                   *)
KeepsPromise == Promise!Spec

(* Users leave the order alone from some point on: the worker skips an      *)
(* order somebody else has locked.                                          *)
Undisturbed(o) == <>[](olock[o] \in {None, Worker})

(* A reservation past its deadline is released, or stops having one because *)
(* the order was paid: the worker gets there however its limited, unordered *)
(* id list, its skip_locked read and the users' transactions interleave.    *)
(* An id that is always locked may fill the list, so users have to leave    *)
(* all the orders alone that are overdue together.                          *)
DueIsReleased ==
  (\A o \in Order : Undisturbed(o)) => \A o \in Order : o \in due ~> o \notin due

(* The stock order o waits for is there. *)
Servable(o) == \E w \in Warehouse : \A s \in Sku : Available(bal[<<w, s>>]) >= Need[o][s]

(* Order o waits although its stock is there. *)
LeftWaiting(o) == Waiting(ord[o]) /\ Servable(o)

(* The worker's list has a place for o, and the worker still tries orders. *)
InLine(o) ==
  /\ o \in Oldest({q \in Order : Waiting(ord[q])}, WorkerLimit)
  /\ \E q \in Order : Waiting(ord[q]) /\ q \notin stale

(* The queue is fair at its head ("order paling lama dilayani dulu"): an    *)
(* order that is among the WorkerLimit oldest waiting ones and whose stock  *)
(* is there is served in the end, also when the stock came by an adjustment *)
(* and no receipt retries it, unless all waiting orders have been left      *)
(* untouched for 30 days.                                                   *)
FirstInLineIsServed ==
  \A o \in Order : Undisturbed(o) =>
     (LeftWaiting(o) /\ InLine(o) ~> ~(LeftWaiting(o) /\ InLine(o)))

(* What the worker's docstring promises ("Jaring pengaman: order yang       *)
(* tertahan dicoba ulang berkala, walau stok masuk lewat jalur lain"): no   *)
(* order is left waiting while its stock is there.  Older orders that       *)
(* cannot be served keep the places of the list, and 30 days without a      *)
(* change end the retries.                                                  *)
WaitingIsServed ==
  \A o \in Order : Undisturbed(o) => (LeftWaiting(o) ~> ~LeftWaiting(o))
==============================================================================
