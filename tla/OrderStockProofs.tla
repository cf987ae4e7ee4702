--------------------------- MODULE OrderStockProofs ---------------------------
(***************************************************************************)
(* Theorems about OrderStock for all numbers of orders, warehouses, SKUs   *)
(* and sessions, whatever the quantities.                                  *)
(***************************************************************************)
EXTENDS OrderStock, FiniteSetTheorems, TLAPS

-------------------------------------------------------------------------------
(* Types.  The type invariant is made inductive by what the steps of a      *)
(* transaction need to know of the order and the warehouse they work on.    *)

Working(x) == \/ x.pc \in {"choose", "recheck", "pay", "settle"}
              \/ x.pc = "lock" /\ x.then \in {"recheck", "settle"}

Targeting(x) == \/ x.pc = "recheck"
                \/ x.pc = "lock" /\ x.then = "recheck"

Sane(x) == /\ Working(x) => x.cur \in Order
           /\ Targeting(x) => x.wh \in Warehouse

(* An order that holds stock holds it in a warehouse.                       *)
Orders == {o \in OrderRecords : o.hold = "ACTIVE" => o.at \in Warehouse}

RowsOK ==
  /\ ord \in [Order -> Orders] /\ ordW \in [Order -> Orders]
  /\ bal \in [Pair -> Balances] /\ row \in [Pair -> Balances] /\ mem \in [Pair -> Balances]
  /\ led \in [Pair -> Deltas] /\ ledW \in [Pair -> Deltas]
  /\ olock \in [Order -> Session \cup {None}]
  /\ block \in [Pair -> Session \cup {None}]
  /\ due \subseteq Order /\ stale \subseteq Order

TypeInv == /\ RowsOK
           /\ tx \in [Session -> Transactions]
           /\ \A t \in Session : Sane(tx[t])

(* The inductive invariant implies the checked type invariant.               *)
LEMMA TypeInvTypes == TypeInv => TypeOK
  BY DEF TypeInv, RowsOK, Orders, TypeOK

(* A step of session t that leaves the others alone keeps the transactions  *)
(* well typed.                                                              *)
LEMMA TxStep ==
  ASSUME TypeInv, NEW t \in Session, NEW r \in Transactions, Sane(r),
         tx' = [tx EXCEPT ![t] = r]
  PROVE  tx' \in [Session -> Transactions] /\ \A u \in Session : Sane(tx'[u])
PROOF
  <1>1. tx \in [Session -> Transactions] /\ \A u \in Session : Sane(tx[u])
    BY DEF TypeInv
  <1>2. \A u \in Session : tx'[u] = IF u = t THEN r ELSE tx[u]
    BY <1>1
  <1> QED
    BY <1>1, <1>2

(* A session without a transaction is well typed.                            *)
LEMMA IdleType == Idle \in Transactions /\ Sane(Idle)
PROOF
  <1>1. Zero \in Deltas
    BY DEF Zero, Deltas
  <1>2. Idle \in Transactions
    BY <1>1 DEF Idle, NoLines, Transactions, Jobs, Steps
  <1>3. Sane(Idle)
    BY DEF Sane, Working, Targeting, Idle
  <1> QED
    BY <1>2, <1>3

(* The initial states are well typed.                                        *)
THEOREM TypeInit == Init => TypeInv
PROOF
  <1> SUFFICES ASSUME Init PROVE TypeInv
    OBVIOUS
  <1>1. Fresh \in Orders
    BY DEF Fresh, Orders, OrderRecords, Statuses
  <1>2. Zero \in Balances /\ Zero \in Deltas
    BY DEF Zero, Balances, Deltas
  <1>3. tx \in [Session -> Transactions] /\ \A t \in Session : tx[t] = Idle
    BY IdleType DEF Init
  <1>4. RowsOK
    BY <1>1, <1>2 DEF RowsOK, Init
  <1> QED
    BY <1>3, <1>4, IdleType DEF TypeInv

(* The helpers that build orders and balances keep them well typed.         *)
LEMMA OrderTypes ==
  ASSUME NEW o \in Orders
  PROVE  /\ Allocated(o) \in Orders
         /\ OutOfStock(o) \in Orders
         /\ Paid(o) \in Orders
         /\ [o EXCEPT !.status = "CREATED"] \in Orders
         /\ \A w \in Warehouse, job \in Jobs : Reserved(o, w, job) \in Orders
         /\ \A job \in Jobs : Settled(o, job) \in Orders
PROOF
  <1>1. Allocated(o) \in Orders
    BY DEF Allocated, Orders, OrderRecords, Statuses
  <1>2. OutOfStock(o) \in Orders
    BY DEF OutOfStock, Orders, OrderRecords
  <1>3. Paid(o) \in Orders
    BY DEF Paid, Orders, OrderRecords, Statuses
  <1>4. [o EXCEPT !.status = "CREATED"] \in Orders
    BY DEF Orders, OrderRecords, Statuses
  <1>5. ASSUME NEW w \in Warehouse, NEW job \in Jobs PROVE Reserved(o, w, job) \in Orders
    BY DEF Reserved, Orders, OrderRecords
  <1>6. ASSUME NEW job \in Jobs PROVE Settled(o, job) \in Orders
    BY DEF Settled, Outcome, Orders, OrderRecords, Statuses
  <1> QED
    BY <1>1, <1>2, <1>3, <1>4, <1>5, <1>6

(* apply() keeps balances natural when it accepts, and totals integer.       *)
LEMMA PostedTypes ==
  ASSUME NEW b, NEW d, \A p \in DOMAIN d \cap Pair : d[p] \in Deltas
  PROVE  /\ b \in [Pair -> Balances] /\ CanPost(b, d) => Posted(b, d) \in [Pair -> Balances]
         /\ b \in [Pair -> Deltas] => Posted(b, d) \in [Pair -> Deltas]
  BY DEF CanPost, CanApply, Sound, Posted, Plus, Balances, Deltas

(* What an order needs in a warehouse is a set of balances.                  *)
LEMMA NeededTypes ==
  ASSUME NEW o \in Order, NEW w
  PROVE  /\ NeededPairs(o, w) \subseteq {w} \X Sku
         /\ w \in Warehouse => NeededPairs(o, w) \subseteq Pair
         /\ \A p \in NeededPairs(o, w) : Need[o][p[2]] \in Nat
PROOF
  <1>1. NeededPairs(o, w) \subseteq {w} \X Sku
    BY DEF NeededPairs, NeededSkus
  <1>2. Need[o] \in [Sku -> Nat]
    BY ConstantsAssumption
  <1> QED
    BY <1>1, <1>2 DEF Pair

(* Every entry a caller of apply() makes is a vector of four deltas.         *)
LEMMA EntryTypes ==
  ASSUME NEW q \in Nat
  PROVE  /\ Receipt(q) \in Deltas /\ Reserving(q) \in Deltas
         /\ Releasing(q) \in Deltas /\ Shipping(q) \in Deltas
         /\ \A r \in Reasons : AdjustmentLine(r, q) \in Deltas
PROOF
  <1>1. Receipt(q) \in Deltas /\ Reserving(q) \in Deltas
        /\ Releasing(q) \in Deltas /\ Shipping(q) \in Deltas
    BY DEF Receipt, Reserving, Releasing, Shipping, Zero, Deltas
  <1>2. Adjustment(q) \in Deltas /\ Adjustment(-q) \in Deltas
        /\ Damaging(q) \in Deltas /\ WriteOff(q) \in Deltas
    BY DEF Adjustment, Damaging, WriteOff, Zero, Deltas
  <1> QED
    BY <1>1, <1>2, ConstantsAssumption DEF AdjustmentLine

(* A job goes on to a step after reserve_order() returned.                   *)
LEMMA ContinueStep ==
  ASSUME NEW job \in Jobs, NEW got \in BOOLEAN
  PROVE  Continue(job, got) \in {"pay", "next", "raise", "commit"}
  BY DEF Continue

(* Going for the best candidate, or giving up, is well typed.                *)
LEMMA AttemptTypes ==
  ASSUME TypeInv, NEW t \in Session, NEW c \in SUBSET (Warehouse \X Warehouse),
         Working(tx[t]), Attempt(t, c)
  PROVE  /\ ordW' \in [Order -> Orders]
         /\ tx' \in [Session -> Transactions] /\ \A u \in Session : Sane(tx'[u])
PROOF
  <1> DEFINE x == tx[t]
  <1>1. x \in Transactions /\ x.cur \in Order /\ x.job \in Jobs /\ ordW \in [Order -> Orders]
    BY DEF TypeInv, RowsOK, Sane, Transactions
  <1> HIDE DEF x
  <1>2. CASE /\ ordW' = [ordW EXCEPT ![x.cur] = OutOfStock(@)]
             /\ tx' = [tx EXCEPT ![t] = [x EXCEPT !.pc = Continue(x.job, FALSE),
                                                  !.cand = {}, !.wh = None]]
    <2> DEFINE pc == Continue(x.job, FALSE)
               r == [x EXCEPT !.pc = pc, !.cand = {}, !.wh = None]
    <2>1. pc \in {"pay", "next", "raise", "commit"}
      BY <1>1, ContinueStep
    <2> HIDE DEF pc
    <2>2. pc \in Steps
      BY <2>1 DEF Steps
    <2>3. r \in Transactions
      BY <1>1, <2>2 DEF Transactions
    <2>4. r.pc = pc /\ r.cur = x.cur
      BY <1>1 DEF Transactions
    <2>5. Sane(r)
      BY <1>1, <2>1, <2>4 DEF Sane, Working, Targeting
    <2>6. ordW' \in [Order -> Orders]
      BY <1>1, <1>2, OrderTypes
    <2> QED
      BY <1>2, <2>3, <2>5, <2>6, TxStep DEF pc
  <1>3. ASSUME NEW w \in Warehouse, UNCHANGED ordW,
               tx' = [tx EXCEPT ![t] = [x EXCEPT !.pc = "lock", !.then = "recheck", !.wh = w,
                                                 !.want = NeededPairs(x.cur, w), !.cand = c]]
        PROVE  /\ ordW' \in [Order -> Orders]
               /\ tx' \in [Session -> Transactions] /\ \A u \in Session : Sane(tx'[u])
    <2> DEFINE want == NeededPairs(x.cur, w)
               r == [x EXCEPT !.pc = "lock", !.then = "recheck", !.wh = w,
                              !.want = want, !.cand = c]
    <2>1. want \in SUBSET Pair
      BY <1>1, NeededTypes
    <2> HIDE DEF want
    <2>2. r \in Transactions
      BY <1>1, <2>1 DEF Transactions, Steps
    <2>3. r.wh = w /\ r.cur = x.cur
      BY <1>1 DEF Transactions
    <2>4. Sane(r)
      BY <1>1, <2>3 DEF Sane
    <2> QED
      BY <1>1, <1>3, <2>2, <2>4, TxStep DEF want
  <1> QED
    BY <1>2, <1>3 DEF Attempt, Goto, x

(* What an action must show when it moves one transaction.                  *)
LEMMA TypeStep ==
  ASSUME TypeInv, NEW t \in Session, NEW r \in Transactions, Sane(r),
         tx' = [tx EXCEPT ![t] = r], RowsOK'
  PROVE  TypeInv'
  BY TxStep DEF TypeInv

(* What a session may use of its own transaction.                            *)
LEMMA Own ==
  ASSUME TypeInv, NEW t \in Session
  PROVE  tx[t] \in Transactions /\ tx[t].job \in Jobs /\ Sane(tx[t]) /\ RowsOK
PROOF
  <1>1. tx[t] \in Transactions /\ Sane(tx[t]) /\ RowsOK
    BY DEF TypeInv
  <1>2. \A x \in Transactions : x.job \in Jobs
    BY DEF Transactions
  <1> QED
    BY <1>1, <1>2

(* The unlocked read of reserve_order() is well typed.                       *)
LEMMA ChooseTypes == ASSUME TypeInv, NEW t \in Session, Choose(t) PROVE TypeInv'
PROOF
  <1> DEFINE x == tx[t]
  <1>1. x \in Transactions /\ x.job \in Jobs /\ Sane(x) /\ RowsOK
    BY Own
  <1>2. x.pc = "choose" /\ x.cur \in Order /\ Working(x)
    BY <1>1 DEF Choose, Sane, Working
  <1>3. UNCHANGED <<ord, bal, row, mem, led, ledW, olock, block, due, stale>>
    BY DEF Choose
  <1>4. CASE /\ ordW' = [ordW EXCEPT ![x.cur] = Allocated(@)]
             /\ tx' = [tx EXCEPT ![t] = [x EXCEPT !.pc = Continue(x.job, TRUE)]]
    <2> DEFINE pc == Continue(x.job, TRUE)
               r == [x EXCEPT !.pc = pc]
    <2> HIDE DEF x
    <2>1. pc \in {"pay", "next", "raise", "commit"}
      BY <1>1, ContinueStep
    <2> HIDE DEF pc
    <2>2. r \in Transactions
      BY <1>1, <2>1 DEF Transactions, Steps
    <2>3. r.pc = pc /\ r.cur = x.cur
      BY <1>1 DEF Transactions
    <2>4. Sane(r)
      BY <1>2, <2>1, <2>3 DEF Sane, Working, Targeting
    <2>5. RowsOK'
      BY <1>1, <1>2, <1>3, <1>4, OrderTypes DEF RowsOK
    <2> QED
      BY <1>4, <2>2, <2>4, <2>5, TypeStep DEF pc, x
  <1>5. CASE Attempt(t, Candidates(t, x.cur))
    <2>1. Candidates(t, x.cur) \in SUBSET (Warehouse \X Warehouse)
      BY DEF Candidates
    <2>2. /\ ordW' \in [Order -> Orders]
          /\ tx' \in [Session -> Transactions] /\ \A u \in Session : Sane(tx'[u])
      BY <1>2, <1>5, <2>1, AttemptTypes
    <2> QED
      BY <1>1, <1>3, <2>2 DEF TypeInv, RowsOK
  <1> QED
    BY <1>4, <1>5 DEF Choose, Goto

(* A row lock of lock_balances() is well typed.                              *)
LEMMA LockTypes == ASSUME TypeInv, NEW t \in Session, Lock(t) PROVE TypeInv'
PROOF
  <1> DEFINE x == tx[t]
  <1>1. x \in Transactions /\ x.job \in Jobs /\ Sane(x) /\ RowsOK
    BY Own
  <1>2. PICK p \in x.want :
          /\ block' = [block EXCEPT ![p] = t]
          /\ mem' = [mem EXCEPT ![p] = row[p]]
          /\ tx' = [tx EXCEPT ![t] = [x EXCEPT !.want = @ \ {p},
                                               !.pc = IF x.want = {p} THEN x.then ELSE "lock"]]
    BY DEF Lock, Goto
  <1>3. x.pc = "lock" /\ UNCHANGED <<ord, ordW, bal, row, led, ledW, olock, due, stale>>
    BY DEF Lock
  <1> HIDE DEF x
  <1>4. p \in Pair /\ x.then \in {"idle", "recheck", "settle", "apply"}
    BY <1>1 DEF Transactions
  <1> DEFINE pc == IF x.want = {p} THEN x.then ELSE "lock"
             r == [x EXCEPT !.want = @ \ {p}, !.pc = pc]
  <1>5. pc \in Steps /\ (pc = x.then \/ pc = "lock")
    BY <1>4 DEF Steps
  <1> HIDE DEF pc
  <1>6. r \in Transactions
    BY <1>1, <1>5 DEF Transactions
  <1>7. r.pc = pc /\ r.cur = x.cur /\ r.wh = x.wh /\ r.then = x.then
    BY <1>1 DEF Transactions
  <1>8. Sane(r)
    BY <1>1, <1>3, <1>4, <1>5, <1>7 DEF Sane, Working, Targeting
  <1>9. RowsOK'
    BY <1>1, <1>2, <1>3, <1>4 DEF RowsOK
  <1> QED
    BY <1>2, <1>6, <1>8, <1>9, TypeStep DEF pc, x

(* The locked recheck of reserve_order() is well typed.                      *)
LEMMA RecheckTypes == ASSUME TypeInv, NEW t \in Session, Recheck(t) PROVE TypeInv'
PROOF
  <1> DEFINE x == tx[t]
             d == [p \in NeededPairs(x.cur, x.wh) |-> Reserving(Need[x.cur][p[2]])]
  <1>1. x \in Transactions /\ x.job \in Jobs /\ Sane(x) /\ RowsOK
    BY Own
  <1>2. x.pc = "recheck" /\ UNCHANGED <<ord, bal, led, olock, block, due, stale>>
    BY DEF Recheck
  <1>3. x.cur \in Order /\ x.wh \in Warehouse /\ Working(x)
    BY <1>1, <1>2 DEF Sane, Working, Targeting
  <1>4. CASE /\ CanPost(mem, d)
             /\ mem' = Posted(mem, d)
             /\ row' = Flushed(t, mem')
             /\ ledW' = Posted(ledW, d)
             /\ ordW' = [ordW EXCEPT ![x.cur] = Allocated(Reserved(@, x.wh, x.job))]
             /\ tx' = [tx EXCEPT ![t] = [x EXCEPT !.pc = Continue(x.job, TRUE),
                                                  !.cand = {}, !.wh = None]]
    <2> HIDE DEF x
    <2> DEFINE pc == Continue(x.job, TRUE)
               r == [x EXCEPT !.pc = pc, !.cand = {}, !.wh = None]
    <2>1. pc \in {"pay", "next", "raise", "commit"}
      BY <1>1, ContinueStep
    <2> HIDE DEF pc
    <2>2. r \in Transactions
      BY <1>1, <2>1 DEF Transactions, Steps
    <2>3. r.pc = pc /\ r.cur = x.cur
      BY <1>1 DEF Transactions
    <2>4. Sane(r)
      BY <1>3, <2>1, <2>3 DEF Sane, Working, Targeting
    <2>5. \A p \in DOMAIN d \cap Pair : d[p] \in Deltas
      BY <1>3, NeededTypes, EntryTypes
    <2> HIDE DEF d
    <2>6. mem' \in [Pair -> Balances] /\ ledW' \in [Pair -> Deltas]
      BY <1>1, <1>4, <2>5, PostedTypes DEF RowsOK
    <2>7. ordW' \in [Order -> Orders]
      BY <1>1, <1>3, <1>4, OrderTypes DEF RowsOK
    <2>8. row' \in [Pair -> Balances]
      BY <1>1, <1>4, <2>6 DEF RowsOK, Flushed
    <2>9. RowsOK'
      BY <1>1, <1>2, <2>6, <2>7, <2>8 DEF RowsOK
    <2> QED
      BY <1>4, <2>2, <2>4, <2>9, TypeStep DEF pc, x
  <1>5. CASE Attempt(t, Without(x.cand, x.wh)) /\ UNCHANGED <<row, mem, ledW>>
    <2>1. Without(x.cand, x.wh) \in SUBSET (Warehouse \X Warehouse)
      BY <1>1 DEF Without, Transactions
    <2>2. /\ ordW' \in [Order -> Orders]
          /\ tx' \in [Session -> Transactions] /\ \A u \in Session : Sane(tx'[u])
      BY <1>3, <1>5, <2>1, AttemptTypes
    <2> QED
      BY <1>1, <1>2, <1>5, <2>2 DEF TypeInv, RowsOK
  <1> QED
    BY <1>4, <1>5 DEF Recheck, Goto

(* POST /orders is well typed.                                               *)
LEMMA CreateTypes ==
  ASSUME TypeInv, NEW t \in Session, NEW paid \in BOOLEAN, StartCreate(t, paid)
  PROVE  TypeInv'
PROOF
  <1> DEFINE job == IF paid THEN "create_paid" ELSE "create"
  <1>1. PICK o \in Order :
          /\ olock' = [olock EXCEPT ![o] = t]
          /\ ordW' = [ordW EXCEPT ![o].status = "CREATED"]
          /\ tx' = [tx EXCEPT ![t] = [Idle EXCEPT !.job = job, !.pc = "choose", !.cur = o]]
          /\ UNCHANGED <<ord, bal, row, mem, led, ledW, block, due, stale>>
    BY DEF StartCreate, Begin
  <1>2. job \in Jobs
    BY DEF Jobs
  <1> HIDE DEF job
  <1> DEFINE r == [Idle EXCEPT !.job = job, !.pc = "choose", !.cur = o]
  <1>3. r \in Transactions /\ r.cur = o /\ r.pc = "choose"
    BY <1>2, IdleType DEF Transactions, Steps
  <1>4. Sane(r)
    BY <1>3 DEF Sane, Targeting
  <1>5. RowsOK'
    BY <1>1, OrderTypes DEF TypeInv, RowsOK
  <1> QED
    BY <1>1, <1>3, <1>4, <1>5, TypeStep

(* The payment of a new order is well typed.                                 *)
LEMMA PayTypes == ASSUME TypeInv, NEW t \in Session, Pay(t) PROVE TypeInv'
PROOF
  <1> DEFINE x == tx[t]
             r == [x EXCEPT !.job = "mark_paid", !.pc = "choose"]
  <1>1. x \in Transactions /\ Sane(x) /\ RowsOK
    BY Own
  <1>2. /\ x.pc = "pay"
        /\ ordW' = [ordW EXCEPT ![x.cur] = Paid(@)]
        /\ tx' = [tx EXCEPT ![t] = r]
        /\ UNCHANGED <<ord, bal, row, mem, led, ledW, olock, block, due, stale>>
    BY DEF Pay, Goto
  <1>3. x.cur \in Order
    BY <1>1, <1>2 DEF Sane, Working
  <1>4. RowsOK'
    BY <1>1, <1>2, <1>3, OrderTypes DEF RowsOK
  <1> HIDE DEF x
  <1>5. r \in Transactions /\ r.cur = x.cur /\ r.pc = "choose"
    BY <1>1 DEF Transactions, Steps, Jobs, ReservingActions
  <1>6. Sane(r)
    BY <1>3, <1>5 DEF Sane, Targeting
  <1> QED
    BY <1>2, <1>4, <1>5, <1>6, TypeStep DEF x

(* The actions that reserve are well typed.                                  *)
LEMMA ReservingTypes ==
  ASSUME TypeInv, NEW t \in Session, NEW o \in Order, NEW a \in ReservingActions,
         StartReserving(t, o, a)
  PROVE  TypeInv'
PROOF
  <1> DEFINE r == [Idle EXCEPT !.job = a, !.pc = "choose", !.cur = o]
  <1>1. /\ olock' = [olock EXCEPT ![o] = t]
        /\ ordW' = [ordW EXCEPT ![o] = IF a = "mark_paid" THEN Paid(@) ELSE @]
        /\ tx' = [tx EXCEPT ![t] = r]
        /\ UNCHANGED <<ord, bal, row, mem, led, ledW, block, due, stale>>
    BY DEF StartReserving, Begin
  <1>2. a \in Jobs
    BY DEF Jobs
  <1>3. r \in Transactions /\ r.cur = o /\ r.pc = "choose"
    BY <1>2, IdleType DEF Transactions, Steps
  <1>4. Sane(r)
    BY <1>3 DEF Sane, Targeting
  <1>5. RowsOK'
    BY <1>1, OrderTypes DEF TypeInv, RowsOK
  <1> QED
    BY <1>1, <1>3, <1>4, <1>5, TypeStep

(* A transaction that goes to settle an order is well typed.                 *)
LEMMA ToSettleTypes ==
  ASSUME RowsOK, NEW x \in Transactions, NEW o \in Order
  PROVE  ToSettle(x, o) \in Transactions /\ Sane(ToSettle(x, o))
PROOF
  <1> DEFINE want == HeldPairs(o)
             r1 == [x EXCEPT !.cur = o, !.pc = "lock", !.then = "settle", !.want = want]
             r2 == [x EXCEPT !.cur = o, !.pc = "settle"]
  <1>1. want \in SUBSET Pair
    BY NeededTypes DEF HeldPairs, RowsOK, Orders
  <1> HIDE DEF want
  <1>2. r1 \in Transactions /\ r1.cur = o /\ r1.pc = "lock" /\ r1.then = "settle"
    BY <1>1 DEF Transactions, Steps
  <1>3. r2 \in Transactions /\ r2.cur = o /\ r2.pc = "settle"
    BY DEF Transactions, Steps
  <1>4. Sane(r1) /\ Sane(r2)
    BY <1>2, <1>3 DEF Sane, Targeting
  <1> QED
    BY <1>2, <1>3, <1>4 DEF ToSettle, want

(* The actions that settle are well typed.                                   *)
LEMMA SettlingTypes ==
  ASSUME TypeInv, NEW t \in Session, NEW o \in Order, NEW a \in SettlingActions,
         StartSettling(t, o, a)
  PROVE  TypeInv'
PROOF
  <1> DEFINE i == [Idle EXCEPT !.job = a]
             r == ToSettle(i, o)
  <1>1. /\ olock' = [olock EXCEPT ![o] = t]
        /\ tx' = [tx EXCEPT ![t] = r]
        /\ UNCHANGED <<ord, ordW, bal, row, mem, led, ledW, block, due, stale>>
    BY DEF StartSettling, Begin
  <1>2. a \in Jobs
    BY DEF Jobs
  <1>3. i \in Transactions
    BY <1>2, IdleType DEF Transactions
  <1>4. r \in Transactions /\ Sane(r)
    BY <1>3, ToSettleTypes DEF TypeInv
  <1>5. RowsOK'
    BY <1>1 DEF TypeInv, RowsOK
  <1> QED
    BY <1>1, <1>4, <1>5, TypeStep

(* _settle_reservations() is well typed.                                     *)
LEMMA SettleTypes == ASSUME TypeInv, NEW t \in Session, Settle(t) PROVE TypeInv'
PROOF
  <1> DEFINE x == tx[t]
             d == [p \in HeldPairs(x.cur) |->
                     IF x.job = "ship" THEN Shipping(Need[x.cur][p[2]])
                                       ELSE Releasing(Need[x.cur][p[2]])]
             pc == IF x.job = "expire" THEN "expire" ELSE "commit"
             r == [x EXCEPT !.pc = pc, !.cur = None]
  <1>1. x \in Transactions /\ x.job \in Jobs /\ Sane(x) /\ RowsOK
    BY Own
  <1>2. /\ x.pc = "settle"
        /\ CanPost(mem, d)
        /\ mem' = Posted(mem, d)
        /\ row' = Flushed(t, mem')
        /\ ledW' = Posted(ledW, d)
        /\ ordW' = [ordW EXCEPT ![x.cur] = Settled(@, x.job)]
        /\ tx' = [tx EXCEPT ![t] = r]
        /\ UNCHANGED <<ord, bal, led, olock, block, due, stale>>
    BY DEF Settle, Goto
  <1>3. x.cur \in Order
    BY <1>1, <1>2 DEF Sane, Working
  <1> HIDE DEF x
  <1>4. \A p \in DOMAIN d \cap Pair : d[p] \in Deltas
    <2>1. \A p \in HeldPairs(x.cur) : Need[x.cur][p[2]] \in Nat
      BY <1>3, NeededTypes DEF HeldPairs
    <2> QED
      BY <2>1, EntryTypes
  <1> HIDE DEF d
  <1>5. mem' \in [Pair -> Balances] /\ ledW' \in [Pair -> Deltas]
    BY <1>1, <1>2, <1>4, PostedTypes DEF RowsOK
  <1>6. ordW' \in [Order -> Orders]
    BY <1>1, <1>2, <1>3, OrderTypes DEF RowsOK
  <1>7. row' \in [Pair -> Balances]
    BY <1>1, <1>2, <1>5 DEF RowsOK, Flushed
  <1>8. RowsOK'
    BY <1>1, <1>2, <1>5, <1>6, <1>7 DEF RowsOK
  <1>9. pc \in Steps /\ (pc = "expire" \/ pc = "commit")
    BY DEF Steps
  <1> HIDE DEF pc
  <1>10. r \in Transactions /\ r.pc = pc
    BY <1>1, <1>9 DEF Transactions
  <1>11. Sane(r)
    BY <1>9, <1>10 DEF Sane, Working, Targeting
  <1> QED
    BY <1>2, <1>8, <1>10, <1>11, TypeStep DEF x

(* The status changes of the warehouse are well typed.                       *)
LEMMA AdvanceTypes == ASSUME TypeInv, NEW o \in Order, Advance(o) PROVE TypeInv'
PROOF
  <1>1. PICK s \in Statuses :
          /\ ord' = [ord EXCEPT ![o].status = s]
          /\ ordW' = [ordW EXCEPT ![o].status = s]
    BY DEF Advance, Statuses
  <1>2. UNCHANGED <<bal, row, mem, led, ledW, olock, block, tx, due, stale>>
    BY DEF Advance
  <1>3. \A x \in Orders : [x EXCEPT !.status = s] \in Orders
    BY DEF Orders, OrderRecords
  <1> QED
    BY <1>1, <1>2, <1>3 DEF TypeInv, RowsOK

(* A transaction that is to post stock lines is well typed.                  *)
LEMMA EntryTransaction ==
  ASSUME NEW ps \in SUBSET Pair, NEW ls \in [Pair -> Deltas], NEW job \in Jobs
  PROVE  LET r == [Idle EXCEPT !.job = job, !.pc = "lock", !.then = "apply",
                               !.want = ps, !.lines = ls]
         IN  r \in Transactions /\ Sane(r)
PROOF
  <1> DEFINE r == [Idle EXCEPT !.job = job, !.pc = "lock", !.then = "apply",
                               !.want = ps, !.lines = ls]
  <1>1. r \in Transactions
    BY IdleType DEF Transactions, Steps
  <1>2. r.pc = "lock" /\ r.then = "apply"
    BY IdleType DEF Transactions
  <1>3. Sane(r)
    BY <1>2 DEF Sane, Working, Targeting
  <1> QED
    BY <1>1, <1>3

(* A receipt is well typed.                                                  *)
LEMMA ReceiptTypes ==
  ASSUME TypeInv, NEW t \in Session, NEW ps \in SUBSET Pair, StartReceipt(t, ps)
  PROVE  TypeInv'
PROOF
  <1>1. PICK q \in [ps -> Quantities] :
          /\ tx' = [tx EXCEPT ![t] =
                      [Idle EXCEPT !.job = "receipt", !.pc = "lock", !.then = "apply",
                                   !.want = ps,
                                   !.lines = [p \in Pair |-> IF p \in ps THEN Receipt(q[p]) ELSE Zero]]]
          /\ UNCHANGED <<ord, ordW, bal, row, mem, led, ledW, olock, block, due, stale>>
    BY DEF StartReceipt, Begin
  <1> DEFINE ls == [p \in Pair |-> IF p \in ps THEN Receipt(q[p]) ELSE Zero]
  <1>2. ls \in [Pair -> Deltas]
    <2>1. Zero \in Deltas
      BY DEF Zero, Deltas
    <2> QED
      BY <2>1, EntryTypes, ConstantsAssumption
  <1> HIDE DEF ls
  <1>3. "receipt" \in Jobs
    BY DEF Jobs
  <1>4. RowsOK'
    BY <1>1 DEF TypeInv, RowsOK
  <1> QED
    BY <1>1, <1>2, <1>3, <1>4, EntryTransaction, TypeStep DEF ls

(* An adjustment is well typed.                                              *)
LEMMA AdjustTypes ==
  ASSUME TypeInv, NEW t \in Session, NEW p \in Pair, StartAdjust(t, p)
  PROVE  TypeInv'
PROOF
  <1>1. PICK reason \in Reasons, q \in Quantities :
          /\ tx' = [tx EXCEPT ![t] =
                      [Idle EXCEPT !.job = "adjust", !.pc = "lock", !.then = "apply",
                                   !.want = {p},
                                   !.lines = [NoLines EXCEPT ![p] = AdjustmentLine(reason, q)]]]
          /\ UNCHANGED <<ord, ordW, bal, row, mem, led, ledW, olock, block, due, stale>>
    BY DEF StartAdjust, Begin
  <1> DEFINE ls == [NoLines EXCEPT ![p] = AdjustmentLine(reason, q)]
             ps == {p}
  <1>2. ls \in [Pair -> Deltas] /\ ps \in SUBSET Pair
    <2>1. NoLines \in [Pair -> Deltas]
      BY DEF NoLines, Zero, Deltas
    <2> QED
      BY <2>1, EntryTypes, ConstantsAssumption
  <1> HIDE DEF ls, ps
  <1>3. "adjust" \in Jobs
    BY DEF Jobs
  <1>4. RowsOK'
    BY <1>1 DEF TypeInv, RowsOK
  <1> QED
    BY <1>1, <1>2, <1>3, <1>4, EntryTransaction, TypeStep DEF ls, ps

(* Posting the lines is well typed.                                          *)
LEMMA PostTypes == ASSUME TypeInv, NEW t \in Session, Post(t) PROVE TypeInv'
PROOF
  <1> DEFINE x == tx[t]
             pc == IF x.job = "adjust" THEN "commit" ELSE "flush"
             r == [x EXCEPT !.lines = NoLines, !.pc = pc]
  <1>1. x \in Transactions /\ Sane(x) /\ RowsOK
    BY Own
  <1>2. /\ CanPost(mem, Entries(x))
        /\ mem' = Posted(mem, Entries(x))
        /\ ledW' = Posted(ledW, Entries(x))
        /\ row' = IF x.job = "adjust" THEN Flushed(t, mem') ELSE row
        /\ tx' = [tx EXCEPT ![t] = r]
        /\ UNCHANGED <<ord, ordW, bal, led, olock, block, due, stale>>
    BY DEF Post, Goto
  <1> HIDE DEF x
  <1>3. x.lines \in [Pair -> Deltas] /\ NoLines \in [Pair -> Deltas]
    BY <1>1 DEF Transactions, NoLines, Zero, Deltas
  <1>4. \A p \in DOMAIN Entries(x) \cap Pair : Entries(x)[p] \in Deltas
    BY <1>3 DEF Entries
  <1>5. mem' \in [Pair -> Balances] /\ ledW' \in [Pair -> Deltas]
    BY <1>1, <1>2, <1>4, PostedTypes DEF RowsOK
  <1>6. row' \in [Pair -> Balances]
    BY <1>1, <1>2, <1>5 DEF RowsOK, Flushed
  <1>7. RowsOK'
    BY <1>1, <1>2, <1>5, <1>6 DEF RowsOK
  <1>8. pc \in Steps /\ (pc = "commit" \/ pc = "flush")
    BY DEF Steps
  <1> HIDE DEF pc
  <1>9. r \in Transactions /\ r.pc = pc
    BY <1>1, <1>3, <1>8 DEF Transactions
  <1>10. Sane(r)
    BY <1>8, <1>9 DEF Sane, Working, Targeting
  <1> QED
    BY <1>2, <1>7, <1>9, <1>10, TypeStep DEF x

(* The start of retry_holds() is well typed.                                 *)
LEMMA RetryHoldsTypes == ASSUME TypeInv, NEW t \in Session, RetryHolds(t) PROVE TypeInv'
PROOF
  <1> DEFINE x == tx[t]
             picked == Oldest({o \in Order : olock[o] \in {None, t} /\ Waiting(OrderSeen(t, o))},
                             LimitOf(tx[t].job))
             r == [x EXCEPT !.job = "retry", !.pc = "next", !.todo = picked]
  <1>1. x \in Transactions /\ Sane(x) /\ RowsOK
    BY Own
  <1>2. picked \in SUBSET Order
    BY DEF Oldest
  <1>3. /\ row' = Flushed(t, mem)
        /\ olock' = [o \in Order |-> IF o \in picked THEN t ELSE olock[o]]
        /\ tx' = [tx EXCEPT ![t] = r]
        /\ UNCHANGED <<ord, ordW, bal, mem, led, ledW, block, due, stale>>
    BY DEF RetryHolds, Goto
  <1> HIDE DEF x, picked
  <1>4. r \in Transactions /\ r.pc = "next"
    BY <1>1, <1>2 DEF Transactions, Steps, Jobs
  <1>5. Sane(r)
    BY <1>4 DEF Sane, Working, Targeting
  <1>6. RowsOK'
    BY <1>1, <1>3 DEF RowsOK, Flushed
  <1> QED
    BY <1>3, <1>4, <1>5, <1>6, TypeStep DEF x

(* The loop of retry_holds() is well typed.                                  *)
LEMMA NextHoldTypes == ASSUME TypeInv, NEW t \in Session, NextHold(t) PROVE TypeInv'
PROOF
  <1> DEFINE x == tx[t]
  <1>1. x \in Transactions /\ Sane(x) /\ RowsOK
    BY Own
  <1>2. UNCHANGED <<ord, ordW, bal, row, mem, led, ledW, olock, block, due, stale>>
    BY DEF NextHold
  <1>3. RowsOK'
    BY <1>1, <1>2 DEF RowsOK
  <1>4. CASE tx' = [tx EXCEPT ![t] = [x EXCEPT !.pc = "commit", !.cur = None]]
    <2> DEFINE r == [x EXCEPT !.pc = "commit", !.cur = None]
    <2> HIDE DEF x
    <2>1. r \in Transactions /\ r.pc = "commit"
      BY <1>1 DEF Transactions, Steps
    <2>2. Sane(r)
      BY <2>1 DEF Sane, Working, Targeting
    <2> QED
      BY <1>3, <1>4, <2>1, <2>2, TypeStep DEF x
  <1>5. ASSUME NEW o \in x.todo,
               tx' = [tx EXCEPT ![t] = [x EXCEPT !.cur = o, !.todo = @ \ {o}, !.pc = "choose"]]
        PROVE  TypeInv'
    <2> DEFINE r == [x EXCEPT !.cur = o, !.todo = @ \ {o}, !.pc = "choose"]
    <2> HIDE DEF x
    <2>1. o \in Order
      BY <1>1 DEF Transactions
    <2>2. r \in Transactions /\ r.pc = "choose" /\ r.cur = o
      BY <1>1, <2>1 DEF Transactions, Steps
    <2>3. Sane(r)
      BY <2>1, <2>2 DEF Sane, Targeting
    <2> QED
      BY <1>3, <1>5, <2>2, <2>3, TypeStep DEF x
  <1> QED
    BY <1>4, <1>5 DEF NextHold, Goto

(* The start of the maintenance job is well typed.                           *)
LEMMA MaintenanceTypes == ASSUME TypeInv, StartMaintenance PROVE TypeInv'
PROOF
  <1> PICK todo \in SUBSET Overdue : Begin(Worker, [Idle EXCEPT !.job = "expire", !.pc = "expire", !.todo = todo])
    BY DEF StartMaintenance
  <1> DEFINE r == [Idle EXCEPT !.job = "expire", !.pc = "expire", !.todo = todo]
  <1>1. Worker \in Session
    BY DEF Session
  <1>2. /\ tx' = [tx EXCEPT ![Worker] = r]
        /\ UNCHANGED <<ord, ordW, bal, row, mem, led, ledW, olock, block, due, stale>>
    BY DEF StartMaintenance, Begin
  <1>3. todo \in SUBSET Order /\ RowsOK'
    BY <1>2 DEF TypeInv, RowsOK, Overdue
  <1>4. r \in Transactions /\ r.pc = "expire"
    BY <1>3, IdleType DEF Transactions, Steps, Jobs
  <1>5. Sane(r)
    BY <1>4 DEF Sane, Working, Targeting
  <1> QED
    BY <1>1, <1>2, <1>3, <1>4, <1>5, TypeStep

(* The loop of expire_reservations() is well typed.                          *)
LEMMA ExpireTypes == ASSUME TypeInv, ExpireNext PROVE TypeInv'
PROOF
  <1> DEFINE x == tx[Worker]
  <1>1. Worker \in Session
    BY DEF Session
  <1>2. x \in Transactions /\ Sane(x) /\ RowsOK
    BY <1>1, Own
  <1>3. x.pc = "expire" /\ UNCHANGED <<ord, ordW, bal, row, mem, led, ledW, block, due, stale>>
    BY DEF ExpireNext
  <1>4. ASSUME NEW pc \in {"flush", "commit"}, UNCHANGED olock,
               tx' = [tx EXCEPT ![Worker] = [x EXCEPT !.pc = pc]]
        PROVE  TypeInv'
    <2> DEFINE r == [x EXCEPT !.pc = pc]
    <2> HIDE DEF x
    <2>1. r \in Transactions /\ r.pc = pc
      BY <1>2 DEF Transactions, Steps
    <2>2. Sane(r)
      BY <2>1 DEF Sane, Working, Targeting
    <2>3. RowsOK'
      BY <1>2, <1>3, <1>4 DEF RowsOK
    <2> QED
      BY <1>1, <1>4, <2>1, <2>2, <2>3, TypeStep DEF x
  <1>5. ASSUME NEW o \in x.todo, NEW r,
               olock' = olock \/ olock' = [olock EXCEPT ![o] = Worker],
               tx' = [tx EXCEPT ![Worker] = r],
               \/ r = [x EXCEPT !.todo = @ \ {o}]
               \/ r = ToSettle([x EXCEPT !.todo = @ \ {o}], o)
        PROVE  TypeInv'
    <2> DEFINE y == [x EXCEPT !.todo = @ \ {o}]
    <2>1. RowsOK'
      BY <1>1, <1>2, <1>3, <1>5 DEF RowsOK
    <2>2. y \in Transactions /\ y.pc = x.pc /\ o \in Order
      <3> HIDE DEF x
      <3> QED
        BY <1>2 DEF Transactions
    <2>3. Sane(y)
      BY <1>3, <2>2 DEF Sane, Working, Targeting
    <2> HIDE DEF y
    <2>4. ToSettle(y, o) \in Transactions /\ Sane(ToSettle(y, o))
      BY <1>2, <2>2, ToSettleTypes
    <2>5. r \in Transactions /\ Sane(r)
      BY <1>5, <2>2, <2>3, <2>4 DEF y
    <2> QED
      BY <1>1, <1>5, <2>1, <2>5, TypeStep
  <1>6. ASSUME NEW o \in x.todo, NEW y, y = [x EXCEPT !.todo = @ \ {o}],
               \/ tx' = [tx EXCEPT ![Worker] = y] /\ UNCHANGED olock
               \/ /\ olock' = [olock EXCEPT ![o] = Worker]
                  /\ tx' = [tx EXCEPT ![Worker] = IF StillUnpaid(o) THEN ToSettle(y, o) ELSE y]
        PROVE  TypeInv'
    <2>1. CASE tx' = [tx EXCEPT ![Worker] = y]
      BY <1>5, <1>6, <2>1
    <2>2. CASE tx' = [tx EXCEPT ![Worker] = ToSettle(y, o)]
      BY <1>5, <1>6, <2>2
    <2> QED
      BY <1>6, <2>1, <2>2
  <1>7. \/ \E pc \in {"flush", "commit"} :
              tx' = [tx EXCEPT ![Worker] = [x EXCEPT !.pc = pc]] /\ UNCHANGED olock
        \/ \E o \in x.todo :
              LET y == [x EXCEPT !.todo = @ \ {o}] IN
              \/ tx' = [tx EXCEPT ![Worker] = y] /\ UNCHANGED olock
              \/ /\ olock' = [olock EXCEPT ![o] = Worker]
                 /\ tx' = [tx EXCEPT ![Worker] = IF StillUnpaid(o) THEN ToSettle(y, o) ELSE y]
    BY DEF ExpireNext, Goto
  <1> HIDE DEF x
  <1> QED
    BY <1>4, <1>6, <1>7

(* COMMIT is well typed.                                                     *)
LEMMA CommitTypes == ASSUME TypeInv, NEW t \in Session, Commit(t) PROVE TypeInv'
PROOF
  <1>1. RowsOK'
    BY DEF TypeInv, RowsOK, Commit, Flushed
  <1>2. tx' = [tx EXCEPT ![t] = Idle]
    BY DEF Commit
  <1> QED
    BY <1>1, <1>2, IdleType, TypeStep

(* ROLLBACK is well typed.                                                   *)
LEMMA UndoTypes == ASSUME TypeInv, NEW t \in Session, Undo(t) PROVE TypeInv'
PROOF
  <1>1. RowsOK'
    BY DEF TypeInv, RowsOK, Undo
  <1>2. tx' = [tx EXCEPT ![t] = Idle]
    BY DEF Undo
  <1> QED
    BY <1>1, <1>2, IdleType, TypeStep

(* Every step keeps the types.                                               *)
LEMMA TypeNext == TypeInv /\ [Next]_vars => TypeInv'
PROOF
  <1> SUFFICES ASSUME TypeInv, [Next]_vars PROVE TypeInv'
    OBVIOUS
  <1>1. ASSUME NEW t \in Request, Submit(t) PROVE TypeInv'
    BY <1>1, CreateTypes, ReservingTypes, SettlingTypes, ReceiptTypes, AdjustTypes
       DEF Submit, Session
  <1>2. ASSUME NEW o \in Order, Advance(o) \/ TimeOut(o) \/ GrowsOld(o) PROVE TypeInv'
    <2>1. CASE TimeOut(o) \/ GrowsOld(o)
      BY <2>1 DEF TimeOut, GrowsOld, TypeInv, RowsOK
    <2> QED
      BY <1>2, <2>1, AdvanceTypes
  <1>3. CASE StartMaintenance \/ ExpireNext
    BY <1>3, MaintenanceTypes, ExpireTypes
  <1>4. ASSUME NEW t \in Session, Run(t) \/ Crash(t) PROVE TypeInv'
    <2>1. Raise(t) \/ Crash(t) => Undo(t)
      BY DEF Raise, Crash
    <2> QED
      BY <1>4, <2>1, ChooseTypes, LockTypes, RecheckTypes, PayTypes, SettleTypes, PostTypes,
         RetryHoldsTypes, NextHoldTypes, CommitTypes, UndoTypes DEF Run
  <1>5. CASE UNCHANGED vars
    BY <1>5 DEF vars, TypeInv, RowsOK
  <1> QED
    BY <1>1, <1>2, <1>3, <1>4, <1>5 DEF Next

(* Whatever the transactions do, every row is a well formed record: no      *)
(* balance is ever negative, in the tables or in a session's memory.        *)
THEOREM TypeCorrect == Spec => []TypeOK
PROOF
  <1>1. Spec => []TypeInv
    BY TypeInit, TypeNext, PTL DEF Spec
  <1> QED
    BY <1>1, TypeInvTypes, PTL

-------------------------------------------------------------------------------
(* What a session holds while it works: its row locks, and what they        *)
(* guarantee about the versions of the rows.  From it follow the agreement  *)
(* of balances and ledger and of payments and deadlines.                    *)

Settling(x) == \/ x.pc = "settle"
               \/ x.pc = "lock" /\ x.then = "settle"

Posting(x) == \/ x.pc = "apply"
              \/ x.pc = "lock" /\ x.then = "apply"

(* Session t, at x, has locked the balances ps or is about to.              *)
Has(t, x, ps) == \A p \in ps : \/ block[p] = t
                               \/ x.pc = "lock" /\ p \in x.want

(* A session works on orders it has locked, posts to balances it has        *)
(* locked, reserves for an order without stock, and gives up an order for   *)
(* its deadline only when that is not paid.                                 *)
Owns(t, x) ==
  /\ Working(x) => olock[x.cur] = t
  /\ x.job = "retry" => \A o \in x.todo : olock[o] = t
  /\ x.pc = "next" => x.job = "retry"
  /\ x.pc = "expire" => x.job = "expire"
  /\ Targeting(x) => Has(t, x, NeededPairs(x.cur, x.wh)) /\ ordW[x.cur].hold # "ACTIVE"
  /\ Settling(x) => Has(t, x, HeldPairs(x.cur))
  /\ Settling(x) /\ x.job = "expire" => ord[x.cur].payment # "PAID"
  /\ Posting(x) => Has(t, x, {p \in Pair : x.lines[p] # Zero})
  /\ \A p \in Pair : x.lines[p].reserved = 0

(* The versions of a balance: an unlocked one has only one, the ledger      *)
(* follows the committed balance and the one in memory, and memory and      *)
(* working row differ only before a flush.                                  *)
BalanceVersions(p) ==
  /\ block[p] = None => row[p] = bal[p] /\ mem[p] = bal[p] /\ ledW[p] = led[p]
  /\ bal[p] = led[p] /\ mem[p] = ledW[p]
  /\ row[p] # mem[p] => tx[block[p]].pc = "flush"

Undated(o) == o.payment = "PAID" /\ o.hold = "ACTIVE" => ~o.expires

OrderVersions(o) ==
  /\ olock[o] = None => ordW[o] = ord[o]
  /\ Undated(ord[o]) /\ Undated(ordW[o])
  /\ ord[o].payment = "PAID" /\ ord[o].hold = "ACTIVE" => ordW[o].hold # "EXPIRED"

Owned == /\ \A t \in Session : Owns(t, tx[t])
         /\ \A p \in Pair : BalanceVersions(p)
         /\ \A o \in Order : OrderVersions(o)

-------------------------------------------------------------------------------
(* What a session's step must leave alone: the transactions of the others   *)
(* and the rows they have locked.                                           *)
Frame(t) ==
  \A u \in Session \ {t} :
    /\ tx'[u] = tx[u]
    /\ \A o \in Order : olock[o] = u => /\ olock'[o] = u
                                        /\ ordW'[o] = ordW[o] /\ ord'[o] = ord[o]
    /\ \A p \in Pair : block[p] = u => /\ block'[p] = u
                                       /\ row'[p] = row[p] /\ mem'[p] = mem[p]

(* Owns() of the transaction after a step.                                  *)
LEMMA OwnsNext ==
  ASSUME NEW t, NEW x, tx'[t] = x, Owns(t, x)'
  PROVE  Owns(t, tx[t])'
  BY DEF Owns, Has, HeldPairs

(* A step of another session leaves a session what it owns.                  *)
LEMMA Framed ==
  ASSUME TypeInv, NEW t, NEW u \in Session \ {t}, Owns(u, tx[u]), Frame(t)
  PROVE  Owns(u, tx[u])'
PROOF
  <1>1. PICK x \in Transactions : x = tx[u]
    BY Own
  <1>2. Sane(x) /\ RowsOK /\ Owns(u, x)
    BY <1>1, Own
  <1>3. /\ tx'[u] = x
        /\ \A o \in Order : olock[o] = u => olock'[o] = u /\ ordW'[o] = ordW[o] /\ ord'[o] = ord[o]
        /\ \A p \in Pair : block[p] = u => block'[p] = u
    BY <1>1 DEF Frame
  <1>4. x.todo \subseteq Order
    BY DEF Transactions
  <1>5. \A ps \in SUBSET Pair : Has(u, x, ps) => Has(u, x, ps)'
    BY <1>3 DEF Has
  <1>6. Working(x) => olock'[x.cur] = u /\ ordW'[x.cur] = ordW[x.cur] /\ ord'[x.cur] = ord[x.cur]
    BY <1>2, <1>3 DEF Sane, Owns
  <1>7. ASSUME Targeting(x)
        PROVE  Has(u, x, NeededPairs(x.cur, x.wh))' /\ ordW'[x.cur].hold # "ACTIVE"
    <2>1. Working(x) /\ NeededPairs(x.cur, x.wh) \subseteq Pair
      BY <1>2, <1>7, NeededTypes DEF Sane, Working, Targeting
    <2>2. Has(u, x, NeededPairs(x.cur, x.wh)) /\ ordW[x.cur].hold # "ACTIVE"
      BY <1>2, <1>7 DEF Owns
    <2>3. Has(u, x, NeededPairs(x.cur, x.wh))'
      BY <1>3, <2>1, <2>2 DEF Has
    <2> QED
      BY <1>6, <2>1, <2>2, <2>3
  <1>8. ASSUME Settling(x)
        PROVE  Has(u, x, HeldPairs(x.cur))' /\ (x.job = "expire" => ord'[x.cur].payment # "PAID")
    <2>1. Working(x) /\ x.cur \in Order
      BY <1>2, <1>8 DEF Sane, Working, Settling
    <2>2. HeldPairs(x.cur) \subseteq Pair
      BY <1>2, <2>1, NeededTypes DEF HeldPairs, RowsOK, Orders
    <2>3. HeldPairs(x.cur)' = HeldPairs(x.cur)
      BY <1>6, <2>1 DEF HeldPairs
    <2>4. Has(u, x, HeldPairs(x.cur))
      BY <1>2, <1>8 DEF Owns
    <2>5. Has(u, x, HeldPairs(x.cur))'
      BY <1>3, <2>2, <2>3, <2>4 DEF Has
    <2> QED
      BY <1>2, <1>6, <1>8, <2>1, <2>5 DEF Owns
  <1>9. Posting(x) => Has(u, x, {p \in Pair : x.lines[p] # Zero})'
    BY <1>2, <1>3, <1>4 DEF Owns, Has
  <1>10. Owns(u, x)'
    BY <1>2, <1>3, <1>4, <1>6, <1>7, <1>8, <1>9 DEF Owns
  <1> QED
    BY <1>3, <1>10, OwnsNext

(* What a step of session t must show to keep Owned.                         *)
LEMMA OwnedStep ==
  ASSUME TypeInv, Owned, NEW t \in Session, NEW r, tx' = [tx EXCEPT ![t] = r],
         Frame(t), Owns(t, r)',
         \A p \in Pair : BalanceVersions(p)', \A o \in Order : OrderVersions(o)'
  PROVE  Owned'
PROOF
  <1>1. tx'[t] = r
    BY DEF TypeInv
  <1>2. \A u \in Session : Owns(u, tx[u])'
    <2> TAKE u \in Session
    <2>1. CASE u = t
      BY <1>1, <2>1, OwnsNext
    <2>2. CASE u # t
      BY <2>2, Framed DEF Owned
    <2> QED
      BY <2>1, <2>2
  <1> QED
    BY <1>2 DEF Owned

(* None is no session, no order and no warehouse.                            *)
LEMMA NoneIsNobody == None \notin Session /\ None \notin Order /\ None \notin Warehouse
  BY ConstantsAssumption

(* A step that touches no balance, outside of retry_holds()'s flush.        *)
LEMMA BalancesKept ==
  ASSUME TypeInv, Owned, NEW t \in Session, NEW r, tx' = [tx EXCEPT ![t] = r],
         tx[t].pc # "flush", UNCHANGED <<bal, row, mem, led, ledW, block>>
  PROVE  \A p \in Pair : BalanceVersions(p)'
PROOF
  <1> SUFFICES ASSUME NEW p \in Pair PROVE BalanceVersions(p)'
    OBVIOUS
  <1>1. BalanceVersions(p)
    BY DEF Owned
  <1>2. row[p] # mem[p] => tx'[block[p]] = tx[block[p]]
    BY <1>1 DEF BalanceVersions, TypeInv, RowsOK
  <1> QED
    BY <1>1, <1>2 DEF BalanceVersions

(* A step that posts d to balances it has locked, and flushes or goes on to *)
(* a flush.                                                                 *)
LEMMA BalancesPosted ==
  ASSUME TypeInv, Owned, NEW t \in Session, NEW r, tx' = [tx EXCEPT ![t] = r], NEW d,
         \A p \in DOMAIN d \cap Pair : block[p] = t,
         mem' = Posted(mem, d), ledW' = Posted(ledW, d),
         \/ row' = Flushed(t, mem') /\ tx[t].pc # "flush"
         \/ row' = row /\ r.pc = "flush",
         UNCHANGED <<bal, led, block>>
  PROVE  \A p \in Pair : BalanceVersions(p)'
PROOF
  <1> SUFFICES ASSUME NEW p \in Pair PROVE BalanceVersions(p)'
    OBVIOUS
  <1>1. BalanceVersions(p) /\ None \notin Session
    BY NoneIsNobody DEF Owned
  <1>2. mem'[p] = ledW'[p] /\ bal'[p] = led'[p]
    BY <1>1 DEF BalanceVersions, Posted
  <1>3. CASE block[p] = t
    <2>1. row'[p] = mem'[p] \/ tx'[t].pc = "flush"
      BY <1>3 DEF Flushed, TypeInv
    <2> QED
      BY <1>1, <1>2, <1>3, <2>1 DEF BalanceVersions
  <1>4. CASE block[p] # t
    <2>1. row'[p] = row[p] /\ mem'[p] = mem[p] /\ ledW'[p] = ledW[p]
      BY <1>4 DEF Flushed, Posted
    <2>2. row[p] # mem[p] => tx'[block[p]] = tx[block[p]]
      BY <1>1, <1>4 DEF BalanceVersions, TypeInv, RowsOK
    <2> QED
      BY <1>1, <1>2, <2>1, <2>2 DEF BalanceVersions
  <1> QED
    BY <1>3, <1>4

(* A step that writes y to one order, which it has locked or locks.         *)
LEMMA OrderWritten ==
  ASSUME TypeInv, Owned, NEW t \in Session, NEW o \in Order, NEW y,
         ordW' = [ordW EXCEPT ![o] = y], UNCHANGED ord,
         olock' = [olock EXCEPT ![o] = t], olock[o] \in {None, t},
         Undated(y), ord[o].payment = "PAID" /\ ord[o].hold = "ACTIVE" => y.hold # "EXPIRED"
  PROVE  \A q \in Order : OrderVersions(q)'
PROOF
  <1> SUFFICES ASSUME NEW q \in Order PROVE OrderVersions(q)'
    OBVIOUS
  <1>1. OrderVersions(q) /\ None \notin Session
    BY NoneIsNobody DEF Owned
  <1>2. /\ ordW'[q] = IF q = o THEN y ELSE ordW[q]
        /\ olock'[q] = IF q = o THEN t ELSE olock[q]
        /\ ord'[q] = ord[q]
    BY DEF TypeInv, RowsOK
  <1>3. Undated(ord'[q]) /\ Undated(ordW'[q])
    BY <1>1, <1>2 DEF OrderVersions
  <1> QED
    BY <1>1, <1>2, <1>3 DEF OrderVersions

(* A step that writes no order but may lock some.                           *)
LEMMA OrdersKept ==
  ASSUME Owned, UNCHANGED <<ord, ordW>>,
         \A o \in Order : olock'[o] = None => olock[o] = None
  PROVE  \A q \in Order : OrderVersions(q)'
  BY DEF Owned, OrderVersions, Undated

(* The order helpers, field by field.                                       *)
LEMMA OrderFields ==
  ASSUME NEW o \in Orders, NEW w, NEW job
  PROVE  /\ LET y == Allocated(o) IN
            y.hold = o.hold /\ y.at = o.at /\ y.payment = o.payment /\ y.expires = o.expires
         /\ LET y == OutOfStock(o) IN
            y.hold = o.hold /\ y.at = o.at /\ y.payment = o.payment /\ y.expires = o.expires
         /\ LET y == Paid(o) IN y.hold = o.hold /\ y.at = o.at /\ y.expires = FALSE
         /\ LET y == Reserved(o, w, job) IN
            /\ y.hold = "ACTIVE" /\ y.at = w /\ y.payment = o.payment
            /\ y.expires => y.payment # "PAID"
         /\ LET y == Settled(o, job) IN
            /\ y.hold # "ACTIVE" /\ y.at = o.at
            /\ y.hold = "EXPIRED" => o.hold = "EXPIRED" \/ job = "expire"
PROOF
  <1>1. LET y == Allocated(o) IN
        y.hold = o.hold /\ y.at = o.at /\ y.payment = o.payment /\ y.expires = o.expires
    BY DEF Allocated, Orders, OrderRecords
  <1>2. LET y == OutOfStock(o) IN
        y.hold = o.hold /\ y.at = o.at /\ y.payment = o.payment /\ y.expires = o.expires
    BY DEF OutOfStock, Orders, OrderRecords
  <1>3. LET y == Paid(o) IN y.hold = o.hold /\ y.at = o.at /\ y.expires = FALSE
    BY DEF Paid, Orders, OrderRecords
  <1>4. LET y == Reserved(o, w, job) IN
        /\ y.hold = "ACTIVE" /\ y.at = w /\ y.payment = o.payment
        /\ y.expires => y.payment # "PAID"
    BY DEF Reserved, Orders, OrderRecords
  <1>5. LET y == Settled(o, job) IN
        /\ y.hold # "ACTIVE" /\ y.at = o.at
        /\ y.hold = "EXPIRED" => o.hold = "EXPIRED" \/ job = "expire"
    BY DEF Settled, Outcome, Orders, OrderRecords
  <1> QED
    BY <1>1, <1>2, <1>3, <1>4, <1>5

(* A new reservation of a paid order has no deadline.                        *)
LEMMA ReservedUndated ==
  ASSUME NEW o \in Orders, NEW w, NEW job
  PROVE  Reserved(o, w, job).hold = "ACTIVE" /\ Undated(Reserved(o, w, job))
  BY DEF Reserved, Undated, Orders, OrderRecords

(* Only retry_holds() goes on to a next order.                               *)
LEMMA ContinueNext ==
  ASSUME NEW job \in Jobs, NEW got \in BOOLEAN
  PROVE  Continue(job, got) = "next" => job = "retry"
  BY DEF Continue

(* Going for the best candidate, or giving up, keeps Owned.                  *)
LEMMA AttemptOwned ==
  ASSUME TypeInv, Owned, NEW t \in Session, NEW c \in SUBSET (Warehouse \X Warehouse),
         Working(tx[t]), tx[t].pc # "flush", ordW[tx[t].cur].hold # "ACTIVE", Attempt(t, c),
         UNCHANGED <<ord, bal, row, mem, led, ledW, olock, block>>
  PROVE  Owned'
PROOF
  <1> PICK x \in Transactions : x = tx[t]
    BY Own
  <1>1. Sane(x) /\ RowsOK /\ Owns(t, x) /\ x.job \in Jobs
    BY Own DEF Owned
  <1>2. x.cur \in Order /\ olock[x.cur] = t /\ None \notin Session
    BY <1>1, NoneIsNobody DEF Sane, Owns
  <1>3. CASE /\ ordW' = [ordW EXCEPT ![x.cur] = OutOfStock(@)]
             /\ tx' = [tx EXCEPT ![t] = [x EXCEPT !.pc = Continue(x.job, FALSE),
                                                  !.cand = {}, !.wh = None]]
    <2> DEFINE pc == Continue(x.job, FALSE)
               r == [x EXCEPT !.pc = pc, !.cand = {}, !.wh = None]
               y == OutOfStock(ordW[x.cur])
    <2>1. pc \in {"pay", "next", "raise", "commit"} /\ (pc = "next" => x.job = "retry")
      BY <1>1, ContinueStep, ContinueNext
    <2> HIDE DEF pc
    <2>2. r.pc = pc /\ r.cur = x.cur /\ r.job = x.job /\ r.todo = x.todo /\ r.lines = x.lines
      BY DEF Transactions
    <2>3. Owns(t, r)'
      BY <1>1, <1>2, <2>1, <2>2 DEF Owns, Working, Targeting, Settling, Posting
    <2>4. Frame(t)
      BY <1>1, <1>2, <1>3 DEF Frame, RowsOK, TypeInv
    <2>5. ordW[x.cur] \in Orders /\ OrderVersions(x.cur)
      BY <1>1, <1>2 DEF RowsOK, Owned
    <2>6. y.hold = ordW[x.cur].hold /\ Undated(y)
      BY <2>5, OrderFields DEF OrderVersions, Undated
    <2>7. \A q \in Order : OrderVersions(q)'
      <3> HIDE DEF y
      <3>1. olock' = [olock EXCEPT ![x.cur] = t]
        BY <1>1, <1>2 DEF RowsOK
      <3> QED
        BY <1>2, <1>3, <2>5, <2>6, <3>1, OrderWritten DEF y, OrderVersions
    <2>8. \A p \in Pair : BalanceVersions(p)'
      BY <1>3, BalancesKept
    <2> QED
      BY <1>3, <2>3, <2>4, <2>7, <2>8, OwnedStep DEF pc
  <1>4. ASSUME NEW w \in Warehouse, UNCHANGED ordW,
               tx' = [tx EXCEPT ![t] = [x EXCEPT !.pc = "lock", !.then = "recheck", !.wh = w,
                                                 !.want = NeededPairs(x.cur, w), !.cand = c]]
        PROVE  Owned'
    <2> DEFINE want == NeededPairs(x.cur, w)
               r == [x EXCEPT !.pc = "lock", !.then = "recheck", !.wh = w,
                              !.want = want, !.cand = c]
    <2> HIDE DEF want
    <2>1. /\ r.pc = "lock" /\ r.then = "recheck" /\ r.cur = x.cur /\ r.wh = w
          /\ r.want = want /\ r.job = x.job /\ r.todo = x.todo /\ r.lines = x.lines
      BY DEF Transactions
    <2> HIDE DEF r
    <2>2. Has(t, r, want)'
      BY <2>1 DEF Has
    <2>3. Owns(t, r)'
      BY <1>1, <1>2, <1>4, <2>1, <2>2 DEF Owns, Working, Targeting, Settling, Posting, want
    <2>4. Frame(t)
      BY <1>1, <1>4 DEF Frame, TypeInv
    <2>5. \A q \in Order : OrderVersions(q)'
      BY <1>4, OrdersKept
    <2>6. \A p \in Pair : BalanceVersions(p)'
      BY <1>4, BalancesKept
    <2> QED
      BY <1>4, <2>3, <2>4, <2>5, <2>6, OwnedStep DEF r, want
  <1> QED
    BY <1>3, <1>4 DEF Attempt, Goto

(* The unlocked read of reserve_order() keeps Owned.                         *)
LEMMA ChooseOwned == ASSUME TypeInv, Owned, NEW t \in Session, Choose(t) PROVE Owned'
PROOF
  <1> PICK x \in Transactions : x = tx[t]
    BY Own
  <1>1. Sane(x) /\ RowsOK /\ Owns(t, x) /\ x.job \in Jobs /\ x.pc = "choose"
    BY Own DEF Owned, Choose
  <1>2. Working(x) /\ x.cur \in Order /\ olock[x.cur] = t /\ None \notin Session
    BY <1>1, NoneIsNobody DEF Sane, Owns, Working
  <1>3. UNCHANGED <<ord, bal, row, mem, led, ledW, olock, block, due, stale>>
    BY DEF Choose
  <1>4. CASE /\ ordW' = [ordW EXCEPT ![x.cur] = Allocated(@)]
             /\ tx' = [tx EXCEPT ![t] = [x EXCEPT !.pc = Continue(x.job, TRUE)]]
    <2> DEFINE pc == Continue(x.job, TRUE)
               r == [x EXCEPT !.pc = pc]
               y == Allocated(ordW[x.cur])
    <2>1. pc \in {"pay", "next", "raise", "commit"} /\ (pc = "next" => x.job = "retry")
      BY <1>1, ContinueStep, ContinueNext
    <2> HIDE DEF pc
    <2>2. r.pc = pc /\ r.cur = x.cur /\ r.job = x.job /\ r.todo = x.todo /\ r.lines = x.lines
      BY DEF Transactions
    <2>3. Owns(t, r)'
      BY <1>1, <1>2, <1>3, <2>1, <2>2 DEF Owns, Working, Targeting, Settling, Posting
    <2>4. Frame(t)
      BY <1>1, <1>2, <1>3, <1>4 DEF Frame, RowsOK, TypeInv
    <2>5. ordW[x.cur] \in Orders /\ OrderVersions(x.cur)
      BY <1>1, <1>2 DEF RowsOK, Owned
    <2>6. y.hold = ordW[x.cur].hold /\ Undated(y)
      BY <2>5, OrderFields DEF OrderVersions, Undated
    <2>7. \A q \in Order : OrderVersions(q)'
      <3> HIDE DEF y
      <3>1. olock' = [olock EXCEPT ![x.cur] = t]
        BY <1>1, <1>2, <1>3 DEF RowsOK
      <3> QED
        BY <1>2, <1>3, <1>4, <2>5, <2>6, <3>1, OrderWritten DEF y, OrderVersions
    <2>8. \A p \in Pair : BalanceVersions(p)'
      BY <1>1, <1>3, <1>4, BalancesKept
    <2> QED
      BY <1>4, <2>3, <2>4, <2>7, <2>8, OwnedStep DEF pc
  <1>5. CASE ordW[x.cur].hold # "ACTIVE" /\ Attempt(t, Candidates(t, x.cur))
    <2>1. Candidates(t, x.cur) \in SUBSET (Warehouse \X Warehouse)
      BY DEF Candidates
    <2> QED
      BY <1>1, <1>2, <1>3, <1>5, <2>1, AttemptOwned
  <1> QED
    BY <1>4, <1>5 DEF Choose, Goto

(* A row lock keeps Owned: no unflushed memory is overwritten.               *)
LEMMA LockOwned == ASSUME TypeInv, Owned, NEW t \in Session, Lock(t) PROVE Owned'
PROOF
  <1> PICK x \in Transactions : x = tx[t]
    BY Own
  <1>1. Sane(x) /\ RowsOK /\ Owns(t, x) /\ x.pc = "lock" /\ None \notin Session
    BY Own, NoneIsNobody DEF Owned, Lock
  <1>2. PICK p \in x.want :
          /\ block[p] \in {None, t}
          /\ block' = [block EXCEPT ![p] = t]
          /\ mem' = [mem EXCEPT ![p] = row[p]]
          /\ tx' = [tx EXCEPT ![t] = [x EXCEPT !.want = @ \ {p},
                                               !.pc = IF x.want = {p} THEN x.then ELSE "lock"]]
    BY DEF Lock, Goto
  <1>3. UNCHANGED <<ord, ordW, bal, row, led, ledW, olock, due, stale>>
    BY DEF Lock
  <1>4. p \in Pair /\ x.then \in {"idle", "recheck", "settle", "apply"}
    BY DEF Transactions
  <1> DEFINE pc == IF x.want = {p} THEN x.then ELSE "lock"
             r == [x EXCEPT !.want = @ \ {p}, !.pc = pc]
  <1>5. /\ r.want = x.want \ {p} /\ r.pc = pc /\ r.cur = x.cur /\ r.wh = x.wh
        /\ r.then = x.then /\ r.job = x.job /\ r.todo = x.todo /\ r.lines = x.lines
    BY DEF Transactions
  <1>6. Frame(t)
    BY <1>1, <1>2, <1>3, <1>4 DEF Frame, TypeInv, RowsOK
  <1>7. \A ps \in SUBSET Pair : Has(t, x, ps) => Has(t, r, ps)'
    <2> HIDE DEF r
    <2>1. x.want = {p} \/ (r.pc = "lock" /\ r.want = x.want \ {p})
      BY <1>5
    <2>2. block'[p] = t /\ \A q \in Pair : block[q] = t => block'[q] = t
      BY <1>1, <1>2, <1>4 DEF RowsOK
    <2> QED
      BY <2>1, <2>2 DEF Has
  <1>8. Owns(t, r)'
    <2> HIDE DEF r
    <2>1. (Working(r) => Working(x)) /\ (Targeting(r) => Targeting(x)) /\ (Settling(r) => Settling(x))
          /\ (Posting(r) => Posting(x)) /\ r.pc # "next" /\ r.pc # "expire"
      BY <1>1, <1>4, <1>5 DEF Working, Targeting, Settling, Posting
    <2>2. Targeting(r) => Has(t, r, NeededPairs(x.cur, x.wh))'
      <3>1. Targeting(x) => NeededPairs(x.cur, x.wh) \in SUBSET Pair
        BY <1>1, NeededTypes DEF Sane, Working, Targeting
      <3> QED
        BY <1>1, <1>7, <2>1, <3>1 DEF Owns
    <2>3. Settling(r) => Has(t, r, HeldPairs(x.cur))'
      <3>1. Settling(x) => HeldPairs(x.cur) \in SUBSET Pair
        BY <1>1, NeededTypes DEF Sane, Working, Settling, HeldPairs, RowsOK, Orders
      <3>2. HeldPairs(x.cur)' = HeldPairs(x.cur)
        BY <1>3 DEF HeldPairs
      <3>3. Settling(r) => \A q \in HeldPairs(x.cur) :
                             block'[q] = t \/ (r.pc = "lock" /\ q \in r.want)
        BY <1>1, <1>7, <2>1, <3>1 DEF Owns, Has
      <3> QED
        BY <3>2, <3>3 DEF Has
    <2>4. Posting(r) => Has(t, r, {q \in Pair : x.lines[q] # Zero})'
      BY <1>1, <1>7, <2>1 DEF Owns
    <2> QED
      BY <1>1, <1>3, <1>5, <2>1, <2>2, <2>3, <2>4 DEF Owns
  <1>9. \A q \in Pair : BalanceVersions(q)'
    <2> TAKE q \in Pair
    <2>1. BalanceVersions(q)
      BY DEF Owned
    <2>2. row[q] # mem[q] => tx[block[q]].pc = "flush" /\ block[q] # t
      BY <1>1, <2>1 DEF BalanceVersions
    <2>3. row[q] # mem[q] => block[q] \in Session
      BY <2>1, <1>1 DEF BalanceVersions, RowsOK
    <2>4. row[q] # mem[q] => q # p /\ tx'[block[q]] = tx[block[q]] /\ block'[q] = block[q]
      BY <1>1, <1>2, <2>2, <2>3 DEF TypeInv, RowsOK
    <2>5. mem'[q] = mem[q]
      BY <1>1, <1>2, <1>4, <2>4 DEF RowsOK
    <2>6. block'[q] = None => block[q] = None
      BY <1>1, <1>2 DEF RowsOK
    <2> QED
      BY <1>3, <2>1, <2>4, <2>5, <2>6 DEF BalanceVersions
  <1>10. \A o \in Order : OrderVersions(o)'
    BY <1>3, OrdersKept
  <1> QED
    BY <1>2, <1>6, <1>8, <1>9, <1>10, OwnedStep

(* The locked recheck of reserve_order() keeps Owned.                        *)
LEMMA RecheckOwned == ASSUME TypeInv, Owned, NEW t \in Session, Recheck(t) PROVE Owned'
PROOF
  <1> PICK x \in Transactions : x = tx[t]
    BY Own
  <1> DEFINE d == [p \in NeededPairs(x.cur, x.wh) |-> Reserving(Need[x.cur][p[2]])]
  <1>1. Sane(x) /\ RowsOK /\ Owns(t, x) /\ x.job \in Jobs /\ x.pc = "recheck"
    BY Own DEF Owned, Recheck
  <1>2. /\ Working(x) /\ Targeting(x) /\ x.cur \in Order /\ x.wh \in Warehouse
        /\ olock[x.cur] = t /\ ordW[x.cur].hold # "ACTIVE" /\ None \notin Session
    BY <1>1, NoneIsNobody DEF Sane, Owns, Working, Targeting
  <1>3. UNCHANGED <<ord, bal, led, olock, block, due, stale>>
    BY DEF Recheck
  <1>4. CASE /\ mem' = Posted(mem, d)
             /\ row' = Flushed(t, mem')
             /\ ledW' = Posted(ledW, d)
             /\ ordW' = [ordW EXCEPT ![x.cur] = Allocated(Reserved(@, x.wh, x.job))]
             /\ tx' = [tx EXCEPT ![t] = [x EXCEPT !.pc = Continue(x.job, TRUE),
                                                  !.cand = {}, !.wh = None]]
    <2> DEFINE pc == Continue(x.job, TRUE)
               r == [x EXCEPT !.pc = pc, !.cand = {}, !.wh = None]
               z == Reserved(ordW[x.cur], x.wh, x.job)
               y == Allocated(z)
    <2>1. pc \in {"pay", "next", "raise", "commit"} /\ (pc = "next" => x.job = "retry")
      BY <1>1, ContinueStep, ContinueNext
    <2> HIDE DEF pc
    <2>2. r.pc = pc /\ r.cur = x.cur /\ r.job = x.job /\ r.todo = x.todo /\ r.lines = x.lines
      BY DEF Transactions
    <2>3. Owns(t, r)'
      BY <1>1, <1>2, <1>3, <2>1, <2>2 DEF Owns, Working, Targeting, Settling, Posting
    <2>4. \A p \in DOMAIN d \cap Pair : block[p] = t
      BY <1>1, <1>2 DEF Owns, Has
    <2> HIDE DEF d
    <2>5. Frame(t)
      BY <1>1, <1>2, <1>3, <1>4, <2>4 DEF Frame, RowsOK, TypeInv, Posted, Flushed
    <2>6. ordW[x.cur] \in Orders /\ OrderVersions(x.cur)
      BY <1>1, <1>2 DEF RowsOK, Owned
    <2>7. z \in Orders
      BY <1>1, <1>2, <2>6, OrderTypes
    <2>8. z.hold = "ACTIVE" /\ Undated(z)
      BY <2>6, ReservedUndated
    <2>9. y.hold = "ACTIVE" /\ Undated(y)
      <3> HIDE DEF z
      <3> QED
        BY <2>7, <2>8, OrderFields DEF Undated
    <2>10. \A q \in Order : OrderVersions(q)'
      <3> HIDE DEF y
      <3>1. olock' = [olock EXCEPT ![x.cur] = t]
        BY <1>1, <1>2, <1>3 DEF RowsOK
      <3> QED
        BY <1>2, <1>3, <1>4, <2>9, <3>1, OrderWritten DEF y
    <2>11. \A p \in Pair : BalanceVersions(p)'
      BY <1>1, <1>3, <1>4, <2>4, BalancesPosted
    <2> QED
      BY <1>4, <2>3, <2>5, <2>10, <2>11, OwnedStep DEF pc
  <1>5. CASE Attempt(t, Without(x.cand, x.wh)) /\ UNCHANGED <<row, mem, ledW>>
    <2>1. Without(x.cand, x.wh) \in SUBSET (Warehouse \X Warehouse)
      BY DEF Without, Transactions
    <2> QED
      BY <1>1, <1>2, <1>3, <1>5, <2>1, AttemptOwned
  <1> QED
    BY <1>4, <1>5 DEF Recheck, Goto

(* A session without a transaction posts nothing.                            *)
LEMMA IdleLines == \A p \in Pair : Idle.lines[p].reserved = 0
  BY DEF Idle, NoLines, Zero

(* A request that locks order o, writes y to it and goes on to reserve.     *)
LEMMA StartOwned ==
  ASSUME TypeInv, Owned, NEW t \in Session, NEW o \in Order, NEW job \in Jobs, NEW y,
         job # "retry", tx[t] = Idle, olock[o] = None,
         tx' = [tx EXCEPT ![t] = [Idle EXCEPT !.job = job, !.pc = "choose", !.cur = o]],
         olock' = [olock EXCEPT ![o] = t], ordW' = [ordW EXCEPT ![o] = y],
         Undated(y), y.hold = ordW[o].hold,
         UNCHANGED <<ord, bal, row, mem, led, ledW, block>>
  PROVE  Owned'
PROOF
  <1> DEFINE r == [Idle EXCEPT !.job = job, !.pc = "choose", !.cur = o]
  <1>1. r.job = job /\ r.pc = "choose" /\ r.cur = o /\ r.lines = Idle.lines /\ tx[t].pc # "flush"
    BY DEF Idle
  <1>2. None \notin Session /\ olock'[o] = t
    BY NoneIsNobody DEF TypeInv, RowsOK
  <1>3. Owns(t, r)'
    <2> HIDE DEF r
    <2> QED
      BY <1>1, <1>2, IdleLines DEF Owns, Targeting, Settling, Posting
  <1>4. Frame(t)
    BY <1>2 DEF Frame, TypeInv, RowsOK
  <1>5. \A q \in Order : OrderVersions(q)'
    BY OrderWritten DEF Owned, OrderVersions
  <1>6. \A p \in Pair : BalanceVersions(p)'
    BY <1>1, BalancesKept
  <1> QED
    BY <1>3, <1>4, <1>5, <1>6, OwnedStep

(* POST /orders keeps Owned.                                                 *)
LEMMA CreateOwned ==
  ASSUME TypeInv, Owned, NEW t \in Session, NEW paid \in BOOLEAN, StartCreate(t, paid)
  PROVE  Owned'
PROOF
  <1> DEFINE job == IF paid THEN "create_paid" ELSE "create"
  <1>1. PICK o \in Order :
          /\ olock[o] = None
          /\ olock' = [olock EXCEPT ![o] = t]
          /\ ordW' = [ordW EXCEPT ![o].status = "CREATED"]
          /\ tx[t] = Idle
          /\ tx' = [tx EXCEPT ![t] = [Idle EXCEPT !.job = job, !.pc = "choose", !.cur = o]]
          /\ UNCHANGED <<ord, bal, row, mem, led, ledW, block, due, stale>>
    BY DEF StartCreate, Begin
  <1>2. job \in Jobs /\ job # "retry"
    BY DEF Jobs
  <1> HIDE DEF job
  <1> DEFINE z == ordW[o]
             y == [z EXCEPT !.status = "CREATED"]
  <1>3. z \in Orders /\ Undated(z)
    BY DEF TypeInv, RowsOK, Owned, OrderVersions
  <1>4. y.hold = z.hold /\ y.payment = z.payment /\ y.expires = z.expires
    <2> HIDE DEF z
    <2> QED
      BY <1>3 DEF Orders, OrderRecords
  <1>5. Undated(y)
    BY <1>3, <1>4 DEF Undated
  <1>6. ordW' = [ordW EXCEPT ![o] = y]
    BY <1>1
  <1> HIDE DEF y
  <1> QED
    BY <1>1, <1>2, <1>4, <1>5, <1>6, StartOwned

(* A paid order has no deadline.                                             *)
LEMMA PaidUndated ==
  ASSUME NEW o \in Orders
  PROVE  Paid(o).hold = o.hold /\ Undated(Paid(o))
  BY DEF Paid, Undated, Orders, OrderRecords

(* The actions that reserve keep Owned.                                      *)
LEMMA ReservingOwned ==
  ASSUME TypeInv, Owned, NEW t \in Session, NEW o \in Order, NEW a \in ReservingActions,
         StartReserving(t, o, a)
  PROVE  Owned'
PROOF
  <1> DEFINE y == IF a = "mark_paid" THEN Paid(ordW[o]) ELSE ordW[o]
  <1>1. /\ olock[o] = None
        /\ olock' = [olock EXCEPT ![o] = t]
        /\ ordW' = [ordW EXCEPT ![o] = y]
        /\ tx[t] = Idle
        /\ tx' = [tx EXCEPT ![t] = [Idle EXCEPT !.job = a, !.pc = "choose", !.cur = o]]
        /\ UNCHANGED <<ord, bal, row, mem, led, ledW, block, due, stale>>
    BY DEF StartReserving, Begin
  <1>2. a \in Jobs /\ a # "retry"
    BY DEF Jobs, ReservingActions
  <1>3. ordW[o] \in Orders /\ Undated(ordW[o])
    BY DEF TypeInv, RowsOK, Owned, OrderVersions
  <1>4. y.hold = ordW[o].hold /\ Undated(y)
    BY <1>3, PaidUndated
  <1> HIDE DEF y
  <1> QED
    BY <1>1, <1>2, <1>4, StartOwned

(* The payment of a new order keeps Owned.                                   *)
LEMMA PayOwned == ASSUME TypeInv, Owned, NEW t \in Session, Pay(t) PROVE Owned'
PROOF
  <1> PICK x \in Transactions : x = tx[t]
    BY Own
  <1> DEFINE r == [x EXCEPT !.job = "mark_paid", !.pc = "choose"]
             y == Paid(ordW[x.cur])
  <1>1. Sane(x) /\ RowsOK /\ Owns(t, x)
    BY Own DEF Owned
  <1>2. /\ x.pc = "pay"
        /\ ordW' = [ordW EXCEPT ![x.cur] = y]
        /\ tx' = [tx EXCEPT ![t] = r]
        /\ UNCHANGED <<ord, bal, row, mem, led, ledW, olock, block, due, stale>>
    BY DEF Pay, Goto
  <1>3. x.cur \in Order /\ olock[x.cur] = t
    BY <1>1, <1>2 DEF Sane, Owns, Working
  <1>4. ordW[x.cur] \in Orders /\ OrderVersions(x.cur)
    BY <1>1, <1>3 DEF RowsOK, Owned
  <1>5. y.hold = ordW[x.cur].hold /\ Undated(y)
    BY <1>4, PaidUndated
  <1> HIDE DEF y
  <1>6. r.job = "mark_paid" /\ r.pc = "choose" /\ r.cur = x.cur /\ r.lines = x.lines
    BY DEF Transactions
  <1>7. Owns(t, r)'
    <2> HIDE DEF r
    <2> QED
      BY <1>1, <1>2, <1>3, <1>6 DEF Owns, Targeting, Settling, Posting
  <1>8. Frame(t)
    BY <1>1, <1>2, <1>3 DEF Frame, TypeInv, RowsOK
  <1>9. \A q \in Order : OrderVersions(q)'
    <2>1. olock' = [olock EXCEPT ![x.cur] = t]
      BY <1>1, <1>2, <1>3 DEF RowsOK
    <2> QED
      BY <1>2, <1>3, <1>4, <1>5, <2>1, OrderWritten DEF OrderVersions
  <1>10. \A p \in Pair : BalanceVersions(p)'
    BY <1>2, BalancesKept
  <1> QED
    BY <1>2, <1>7, <1>8, <1>9, <1>10, OwnedStep

(* Going to settle a locked order that, for a deadline, is not paid.        *)
LEMMA ToSettleOwned ==
  ASSUME NEW x \in Transactions, NEW t, NEW o \in Order, NEW r, r = ToSettle(x, o),
         olock'[o] = t, ordW' = ordW,
         x.job = "expire" => ord'[o].payment # "PAID",
         x.job # "retry", \A p \in Pair : x.lines[p].reserved = 0
  PROVE  Owns(t, r)'
PROOF
  <1> PICK want : want = HeldPairs(o)
    OBVIOUS
  <1>1. HeldPairs(o)' = want
    BY DEF HeldPairs
  <1>2. CASE ordW[o].hold = "ACTIVE"
    <2>1. r = [x EXCEPT !.cur = o, !.pc = "lock", !.then = "settle", !.want = want]
      BY <1>2 DEF ToSettle
    <2>2. /\ r.cur = o /\ r.pc = "lock" /\ r.then = "settle" /\ r.want = want
          /\ r.job = x.job /\ r.lines = x.lines
      BY <2>1 DEF Transactions
    <2>3. Has(t, r, HeldPairs(r.cur))'
      BY <1>1, <2>2 DEF Has
    <2> QED
      BY <2>2, <2>3 DEF Owns, Working, Targeting, Settling, Posting
  <1>3. CASE ordW[o].hold # "ACTIVE"
    <2>1. r = [x EXCEPT !.cur = o, !.pc = "settle"]
      BY <1>3 DEF ToSettle
    <2>2. r.cur = o /\ r.pc = "settle" /\ r.job = x.job /\ r.lines = x.lines
      BY <2>1 DEF Transactions
    <2>3. want = {}
      BY <1>3 DEF HeldPairs
    <2>4. Has(t, r, HeldPairs(r.cur))'
      BY <1>1, <2>2, <2>3 DEF Has
    <2> QED
      BY <2>2, <2>4 DEF Owns, Working, Targeting, Settling, Posting
  <1> QED
    BY <1>2, <1>3

(* The actions that settle keep Owned.                                       *)
LEMMA SettlingOwned ==
  ASSUME TypeInv, Owned, NEW t \in Session, NEW o \in Order, NEW a \in SettlingActions,
         StartSettling(t, o, a)
  PROVE  Owned'
PROOF
  <1> DEFINE i == [Idle EXCEPT !.job = a]
  <1> PICK r : r = ToSettle(i, o)
    OBVIOUS
  <1>1. /\ olock[o] = None
        /\ olock' = [olock EXCEPT ![o] = t]
        /\ tx[t] = Idle
        /\ tx' = [tx EXCEPT ![t] = r]
        /\ UNCHANGED <<ord, ordW, bal, row, mem, led, ledW, block, due, stale>>
    BY DEF StartSettling, Begin
  <1>2. a \in Jobs /\ a # "retry" /\ a # "expire"
    BY DEF Jobs, SettlingActions
  <1>3. i \in Transactions /\ i.job = a /\ i.lines = Idle.lines
    BY <1>2, IdleType DEF Transactions
  <1>4. olock'[o] = t /\ None \notin Session /\ tx[t].pc # "flush"
    BY <1>1, NoneIsNobody DEF TypeInv, RowsOK, Idle
  <1> HIDE DEF i
  <1>5. Owns(t, r)'
    BY <1>1, <1>2, <1>3, <1>4, IdleLines, ToSettleOwned
  <1>6. Frame(t)
    BY <1>1, <1>4 DEF Frame, TypeInv, RowsOK
  <1>7. \A q \in Order : OrderVersions(q)'
    BY <1>1, <1>4, OrdersKept DEF TypeInv, RowsOK
  <1>8. \A p \in Pair : BalanceVersions(p)'
    BY <1>1, <1>4, BalancesKept
  <1> QED
    BY <1>1, <1>5, <1>6, <1>7, <1>8, OwnedStep

(* A settled order holds nothing and expires only by the expiry job.         *)
LEMMA SettledFields ==
  ASSUME NEW o \in Orders, NEW job
  PROVE  /\ Undated(Settled(o, job)) /\ Settled(o, job).hold # "ACTIVE"
         /\ Settled(o, job).hold = "EXPIRED" => o.hold = "EXPIRED" \/ job = "expire"
  BY DEF Settled, Outcome, Undated, Orders, OrderRecords

(* _settle_reservations() keeps Owned.                                       *)
LEMMA SettleOwned == ASSUME TypeInv, Owned, NEW t \in Session, Settle(t) PROVE Owned'
PROOF
  <1> PICK x \in Transactions : x = tx[t]
    BY Own
  <1> DEFINE d == [p \in HeldPairs(x.cur) |->
                     IF x.job = "ship" THEN Shipping(Need[x.cur][p[2]])
                                       ELSE Releasing(Need[x.cur][p[2]])]
             pc == IF x.job = "expire" THEN "expire" ELSE "commit"
             r == [x EXCEPT !.pc = pc, !.cur = None]
             y == Settled(ordW[x.cur], x.job)
  <1>1. Sane(x) /\ RowsOK /\ Owns(t, x) /\ None \notin Session
    BY Own, NoneIsNobody DEF Owned
  <1>2. /\ x.pc = "settle"
        /\ mem' = Posted(mem, d)
        /\ row' = Flushed(t, mem')
        /\ ledW' = Posted(ledW, d)
        /\ ordW' = [ordW EXCEPT ![x.cur] = y]
        /\ tx' = [tx EXCEPT ![t] = r]
        /\ UNCHANGED <<ord, bal, led, olock, block, due, stale>>
    BY DEF Settle, Goto
  <1>3. /\ x.cur \in Order /\ olock[x.cur] = t
        /\ x.job = "expire" => ord[x.cur].payment # "PAID"
    BY <1>1, <1>2 DEF Sane, Owns, Working, Settling
  <1>4. \A p \in DOMAIN d \cap Pair : block[p] = t
    BY <1>1, <1>2 DEF Owns, Has, Settling
  <1>5. ordW[x.cur] \in Orders /\ OrderVersions(x.cur)
    BY <1>1, <1>3 DEF RowsOK, Owned
  <1>6. Undated(y) /\ (y.hold = "EXPIRED" => ordW[x.cur].hold = "EXPIRED" \/ x.job = "expire")
    BY <1>5, SettledFields
  <1> HIDE DEF d, y
  <1>7. pc # "next" /\ ((pc = "expire" /\ x.job = "expire") \/ pc = "commit")
    OBVIOUS
  <1> HIDE DEF pc
  <1>8. r.pc = pc /\ r.job = x.job /\ r.todo = x.todo /\ r.lines = x.lines
    BY DEF Transactions
  <1>9. Owns(t, r)'
    <2> HIDE DEF r
    <2> QED
      BY <1>1, <1>2, <1>7, <1>8 DEF Owns, Working, Targeting, Settling, Posting
  <1>10. Frame(t)
    BY <1>1, <1>2, <1>3, <1>4 DEF Frame, RowsOK, TypeInv, Posted, Flushed
  <1>11. \A q \in Order : OrderVersions(q)'
    <2>1. olock' = [olock EXCEPT ![x.cur] = t]
      BY <1>1, <1>2, <1>3 DEF RowsOK
    <2>2. ord[x.cur].payment = "PAID" /\ ord[x.cur].hold = "ACTIVE" => y.hold # "EXPIRED"
      BY <1>3, <1>5, <1>6 DEF OrderVersions
    <2> QED
      BY <1>2, <1>3, <1>6, <2>1, <2>2, OrderWritten
  <1>12. \A p \in Pair : BalanceVersions(p)'
    BY <1>2, <1>4, BalancesPosted
  <1> QED
    BY <1>2, <1>9, <1>10, <1>11, <1>12, OwnedStep

(* The status changes of the warehouse keep Owned.                           *)
LEMMA AdvanceOwned == ASSUME TypeInv, Owned, NEW o \in Order, Advance(o) PROVE Owned'
PROOF
  <1>1. PICK s \in Statuses :
          /\ olock[o] = None
          /\ ord' = [ord EXCEPT ![o].status = s]
          /\ ordW' = [ordW EXCEPT ![o].status = s]
    BY DEF Advance, Statuses
  <1>2. UNCHANGED <<bal, row, mem, led, ledW, olock, block, tx, due, stale>>
    BY DEF Advance
  <1>3. None \notin Session
    BY NoneIsNobody
  <1>4. ASSUME NEW t \in Session PROVE Owns(t, tx[t])'
    <2>1. Frame(None)
      BY <1>1, <1>2, <1>3 DEF Frame, TypeInv, RowsOK
    <2> QED
      BY <1>3, <2>1, Framed DEF Owned
  <1>5. \A p \in Pair : BalanceVersions(p)'
    BY <1>2 DEF Owned, BalanceVersions
  <1>6. ASSUME NEW q \in Order PROVE OrderVersions(q)'
    <2>1. OrderVersions(q) /\ ord[q] \in Orders /\ ordW[q] \in Orders
      BY DEF Owned, TypeInv, RowsOK
    <2>2. CASE q # o
      BY <1>1, <1>2, <2>1, <2>2 DEF OrderVersions, Undated
    <2>3. CASE q = o
      <3> PICK z \in Orders : z = ord[o] /\ z = ordW[o]
        BY <1>1, <2>1, <2>3 DEF OrderVersions
      <3>1. ord'[q] = [z EXCEPT !.status = s] /\ ordW'[q] = [z EXCEPT !.status = s]
        BY <1>1, <2>3 DEF TypeInv, RowsOK
      <3> PICK y : y = [z EXCEPT !.status = s]
        OBVIOUS
      <3>2. y.hold = z.hold /\ y.payment = z.payment /\ y.expires = z.expires
        BY DEF Orders, OrderRecords
      <3>3. Undated(z) /\ (z.payment = "PAID" /\ z.hold = "ACTIVE" => z.hold # "EXPIRED")
        BY <2>1, <2>3 DEF OrderVersions
      <3> QED
        BY <3>1, <3>2, <3>3 DEF OrderVersions, Undated
    <2> QED
      BY <2>2, <2>3
  <1> QED
    BY <1>4, <1>5, <1>6 DEF Owned

(* A receipt or an adjustment starts: it will post ls to the balances ps.   *)
LEMMA EntryOwned ==
  ASSUME TypeInv, Owned, NEW t \in Session, NEW ps \in SUBSET Pair, NEW ls \in [Pair -> Deltas],
         NEW job \in Jobs, job # "retry", tx[t] = Idle,
         \A p \in Pair : ls[p].reserved = 0 /\ (p \notin ps => ls[p] = Zero),
         tx' = [tx EXCEPT ![t] = [Idle EXCEPT !.job = job, !.pc = "lock", !.then = "apply",
                                              !.want = ps, !.lines = ls]],
         UNCHANGED <<ord, ordW, bal, row, mem, led, ledW, olock, block, due, stale>>
  PROVE  Owned'
PROOF
  <1> DEFINE r == [Idle EXCEPT !.job = job, !.pc = "lock", !.then = "apply",
                               !.want = ps, !.lines = ls]
  <1>1. /\ r.job = job /\ r.pc = "lock" /\ r.then = "apply" /\ r.want = ps /\ r.lines = ls
        /\ tx[t].pc # "flush"
    BY DEF Idle
  <1>2. Owns(t, r)'
    <2> HIDE DEF r
    <2>1. Has(t, r, {p \in Pair : r.lines[p] # Zero})'
      BY <1>1 DEF Has
    <2> QED
      BY <1>1, <2>1 DEF Owns, Working, Targeting, Settling
  <1>3. Frame(t)
    BY DEF Frame, TypeInv
  <1>4. \A q \in Order : OrderVersions(q)'
    BY OrdersKept
  <1>5. \A p \in Pair : BalanceVersions(p)'
    BY <1>1, BalancesKept
  <1> QED
    BY <1>2, <1>3, <1>4, <1>5, OwnedStep

(* A receipt keeps Owned.                                                    *)
LEMMA ReceiptOwned ==
  ASSUME TypeInv, Owned, NEW t \in Session, NEW ps \in SUBSET Pair, StartReceipt(t, ps)
  PROVE  Owned'
PROOF
  <1>1. PICK q \in [ps -> Quantities] :
          /\ tx[t] = Idle
          /\ tx' = [tx EXCEPT ![t] =
                      [Idle EXCEPT !.job = "receipt", !.pc = "lock", !.then = "apply",
                                   !.want = ps,
                                   !.lines = [p \in Pair |-> IF p \in ps THEN Receipt(q[p]) ELSE Zero]]]
          /\ UNCHANGED <<ord, ordW, bal, row, mem, led, ledW, olock, block, due, stale>>
    BY DEF StartReceipt, Begin
  <1> DEFINE ls == [p \in Pair |-> IF p \in ps THEN Receipt(q[p]) ELSE Zero]
  <1>2. ls \in [Pair -> Deltas]
    <2>1. Zero \in Deltas
      BY DEF Zero, Deltas
    <2> QED
      BY <2>1, EntryTypes, ConstantsAssumption
  <1>3. \A p \in Pair : ls[p].reserved = 0 /\ (p \notin ps => ls[p] = Zero)
    BY DEF Receipt, Zero
  <1> HIDE DEF ls
  <1>4. "receipt" \in Jobs
    BY DEF Jobs
  <1> QED
    BY <1>1, <1>2, <1>3, <1>4, EntryOwned DEF ls

(* An adjustment keeps Owned.                                                *)
LEMMA AdjustOwned ==
  ASSUME TypeInv, Owned, NEW t \in Session, NEW p \in Pair, StartAdjust(t, p)
  PROVE  Owned'
PROOF
  <1>1. PICK reason \in Reasons, q \in Quantities :
          /\ tx[t] = Idle
          /\ tx' = [tx EXCEPT ![t] =
                      [Idle EXCEPT !.job = "adjust", !.pc = "lock", !.then = "apply",
                                   !.want = {p},
                                   !.lines = [NoLines EXCEPT ![p] = AdjustmentLine(reason, q)]]]
          /\ UNCHANGED <<ord, ordW, bal, row, mem, led, ledW, olock, block, due, stale>>
    BY DEF StartAdjust, Begin
  <1> DEFINE ls == [NoLines EXCEPT ![p] = AdjustmentLine(reason, q)]
             ps == {p}
  <1>2. ls \in [Pair -> Deltas] /\ ps \in SUBSET Pair
    <2>1. NoLines \in [Pair -> Deltas]
      BY DEF NoLines, Zero, Deltas
    <2> QED
      BY <2>1, EntryTypes, ConstantsAssumption
  <1>3. AdjustmentLine(reason, q).reserved = 0
    BY ConstantsAssumption DEF AdjustmentLine, Adjustment, Damaging, WriteOff
  <1>4. \A r \in Pair : ls[r].reserved = 0 /\ (r \notin ps => ls[r] = Zero)
    BY <1>3 DEF NoLines, Zero
  <1> HIDE DEF ls, ps
  <1>5. "adjust" \in Jobs
    BY DEF Jobs
  <1>6. tx' = [tx EXCEPT ![t] = [Idle EXCEPT !.job = "adjust", !.pc = "lock", !.then = "apply",
                                             !.want = ps, !.lines = ls]]
    BY <1>1 DEF ls, ps
  <1>7. tx[t] = Idle /\ UNCHANGED <<ord, ordW, bal, row, mem, led, ledW, olock, block, due, stale>>
    BY <1>1
  <1> QED
    BY <1>2, <1>4, <1>5, <1>6, <1>7, EntryOwned

(* Posting the lines keeps Owned.                                            *)
LEMMA PostOwned == ASSUME TypeInv, Owned, NEW t \in Session, Post(t) PROVE Owned'
PROOF
  <1> PICK x \in Transactions : x = tx[t]
    BY Own
  <1> DEFINE d == Entries(x)
             pc == IF x.job = "adjust" THEN "commit" ELSE "flush"
             r == [x EXCEPT !.lines = NoLines, !.pc = pc]
  <1>1. Sane(x) /\ RowsOK /\ Owns(t, x)
    BY Own DEF Owned
  <1>2. /\ x.pc = "apply"
        /\ mem' = Posted(mem, d)
        /\ ledW' = Posted(ledW, d)
        /\ row' = IF x.job = "adjust" THEN Flushed(t, mem') ELSE row
        /\ tx' = [tx EXCEPT ![t] = r]
        /\ UNCHANGED <<ord, ordW, bal, led, olock, block, due, stale>>
    BY DEF Post, Goto
  <1>3. \A p \in DOMAIN d \cap Pair : block[p] = t
    BY <1>1, <1>2 DEF Owns, Has, Posting, Entries
  <1> HIDE DEF d
  <1>4. pc = "commit" \/ pc = "flush"
    OBVIOUS
  <1>5. r.pc = pc /\ r.job = x.job /\ r.todo = x.todo /\ r.lines = NoLines
    BY DEF Transactions
  <1>6. row' = Flushed(t, mem') \/ (row' = row /\ r.pc = "flush")
    BY <1>2, <1>5
  <1> HIDE DEF pc
  <1>7. Owns(t, r)'
    <2> HIDE DEF r
    <2>1. \A p \in Pair : NoLines[p].reserved = 0
      BY DEF NoLines, Zero
    <2> QED
      BY <1>1, <1>2, <1>4, <1>5, <2>1 DEF Owns, Working, Targeting, Settling, Posting
  <1>8. Frame(t)
    BY <1>1, <1>2, <1>3 DEF Frame, RowsOK, TypeInv, Posted, Flushed
  <1>9. \A q \in Order : OrderVersions(q)'
    BY <1>2, OrdersKept
  <1>10. \A p \in Pair : BalanceVersions(p)'
    <2> HIDE DEF r
    <2> QED
      BY <1>2, <1>3, <1>6, BalancesPosted
  <1> QED
    BY <1>2, <1>7, <1>8, <1>9, <1>10, OwnedStep

(* The start of retry_holds() keeps Owned: it flushes everything.            *)
LEMMA RetryHoldsOwned == ASSUME TypeInv, Owned, NEW t \in Session, RetryHolds(t) PROVE Owned'
PROOF
  <1> PICK x \in Transactions : x = tx[t]
    BY Own
  <1> PICK picked :
        picked = Oldest({o \in Order : olock[o] \in {None, t} /\ Waiting(OrderSeen(t, o))},
                             LimitOf(tx[t].job))
    OBVIOUS
  <1> DEFINE r == [x EXCEPT !.job = "retry", !.pc = "next", !.todo = picked]
  <1>1. Sane(x) /\ RowsOK /\ Owns(t, x) /\ None \notin Session
    BY Own, NoneIsNobody DEF Owned
  <1>2. \A o \in picked : o \in Order /\ olock[o] \in {None, t}
    BY DEF Oldest
  <1>3. /\ x.pc = "flush"
        /\ row' = Flushed(t, mem)
        /\ olock' = [o \in Order |-> IF o \in picked THEN t ELSE olock[o]]
        /\ tx' = [tx EXCEPT ![t] = r]
        /\ UNCHANGED <<ord, ordW, bal, mem, led, ledW, block, due, stale>>
    BY DEF RetryHolds, Goto
  <1>4. r.job = "retry" /\ r.pc = "next" /\ r.todo = picked /\ r.lines = x.lines
    BY DEF Transactions
  <1>5. Owns(t, r)'
    <2> HIDE DEF r
    <2> QED
      BY <1>1, <1>2, <1>3, <1>4 DEF Owns, Working, Targeting, Settling, Posting
  <1>6. Frame(t)
    BY <1>1, <1>2, <1>3 DEF Frame, RowsOK, TypeInv, Flushed
  <1>7. \A q \in Order : OrderVersions(q)'
    BY <1>1, <1>2, <1>3, OrdersKept DEF RowsOK
  <1>8. \A p \in Pair : BalanceVersions(p)'
    <2> HIDE DEF r
    <2> TAKE p \in Pair
    <2>1. BalanceVersions(p)
      BY DEF Owned
    <2>2. row'[p] = IF block[p] = t THEN mem[p] ELSE row[p]
      BY <1>3 DEF Flushed
    <2>3. row'[p] # mem'[p] => tx'[block[p]] = tx[block[p]]
      BY <1>1, <1>3, <2>1, <2>2 DEF BalanceVersions, TypeInv, RowsOK
    <2> QED
      BY <1>1, <1>3, <2>1, <2>2, <2>3 DEF BalanceVersions
  <1> QED
    BY <1>3, <1>5, <1>6, <1>7, <1>8, OwnedStep

(* A step that moves its transaction and nothing else.                      *)
LEMMA MoveOwned ==
  ASSUME TypeInv, Owned, NEW t \in Session, NEW r, tx' = [tx EXCEPT ![t] = r],
         tx[t].pc # "flush", Owns(t, r)',
         UNCHANGED <<ord, ordW, bal, row, mem, led, ledW, olock, block>>
  PROVE  Owned'
PROOF
  <1>1. Frame(t)
    BY DEF Frame, TypeInv
  <1> QED
    BY <1>1, OrdersKept, BalancesKept, OwnedStep

(* The loop of retry_holds() keeps Owned.                                    *)
LEMMA NextHoldOwned == ASSUME TypeInv, Owned, NEW t \in Session, NextHold(t) PROVE Owned'
PROOF
  <1> PICK x \in Transactions : x = tx[t]
    BY Own
  <1>1. Sane(x) /\ RowsOK /\ Owns(t, x) /\ x.pc = "next" /\ x.todo \subseteq Order
    BY Own DEF Owned, NextHold, Transactions
  <1>2. UNCHANGED <<ord, ordW, bal, row, mem, led, ledW, olock, block, due, stale>>
    BY DEF NextHold
  <1>3. CASE tx' = [tx EXCEPT ![t] = [x EXCEPT !.pc = "commit", !.cur = None]]
    <2> DEFINE r == [x EXCEPT !.pc = "commit", !.cur = None]
    <2>1. r.job = x.job /\ r.pc = "commit" /\ r.todo = x.todo /\ r.lines = x.lines
      BY DEF Transactions
    <2> HIDE DEF r
    <2>2. Owns(t, r)'
      BY <1>1, <1>2, <2>1 DEF Owns, Working, Targeting, Settling, Posting
    <2> QED
      BY <1>1, <1>2, <1>3, <2>2, MoveOwned DEF r
  <1>4. ASSUME NEW o \in x.todo,
               tx' = [tx EXCEPT ![t] = [x EXCEPT !.cur = o, !.todo = @ \ {o}, !.pc = "choose"]]
        PROVE  Owned'
    <2> DEFINE r == [x EXCEPT !.cur = o, !.todo = @ \ {o}, !.pc = "choose"]
    <2>1. /\ r.job = x.job /\ r.pc = "choose" /\ r.todo = x.todo \ {o} /\ r.lines = x.lines
          /\ r.cur = o
      BY DEF Transactions
    <2> HIDE DEF r
    <2>2. Owns(t, r)'
      BY <1>1, <1>2, <2>1 DEF Owns, Working, Targeting, Settling, Posting
    <2> QED
      BY <1>1, <1>2, <1>4, <2>2, MoveOwned DEF r
  <1> QED
    BY <1>3, <1>4 DEF NextHold, Goto

(* The start of the maintenance job keeps Owned.                             *)
LEMMA MaintenanceOwned == ASSUME TypeInv, Owned, StartMaintenance PROVE Owned'
PROOF
  <1> PICK todo : Begin(Worker, [Idle EXCEPT !.job = "expire", !.pc = "expire", !.todo = todo])
    BY DEF StartMaintenance
  <1> DEFINE r == [Idle EXCEPT !.job = "expire", !.pc = "expire", !.todo = todo]
  <1>1. Worker \in Session
    BY DEF Session
  <1>2. /\ tx[Worker] = Idle
        /\ tx' = [tx EXCEPT ![Worker] = r]
        /\ UNCHANGED <<ord, ordW, bal, row, mem, led, ledW, olock, block, due, stale>>
    BY DEF StartMaintenance, Begin
  <1>3. r.job = "expire" /\ r.pc = "expire" /\ r.lines = Idle.lines /\ Idle.pc # "flush"
    BY DEF Idle
  <1> HIDE DEF r
  <1>4. Owns(Worker, r)'
    BY <1>2, <1>3, IdleLines DEF Owns, Working, Targeting, Settling, Posting
  <1> QED
    BY <1>1, <1>2, <1>3, <1>4, MoveOwned

(* expire_reservations() settles only orders still unpaid under the lock.    *)
LEMMA ExpireOwned == ASSUME TypeInv, Owned, ExpireNext PROVE Owned'
PROOF
  <1>1. Worker \in Session /\ None \notin Session
    BY NoneIsNobody DEF Session
  <1> PICK x \in Transactions : x = tx[Worker]
    BY <1>1, Own
  <1>2. Sane(x) /\ RowsOK /\ Owns(Worker, x) /\ x.pc = "expire" /\ x.todo \subseteq Order
    BY <1>1, Own DEF Owned, ExpireNext, Transactions
  <1>3. UNCHANGED <<ord, ordW, bal, row, mem, led, ledW, block, due, stale>>
    BY DEF ExpireNext
  <1>4. ASSUME NEW pc \in {"flush", "commit"}, UNCHANGED olock,
               tx' = [tx EXCEPT ![Worker] = [x EXCEPT !.pc = pc]]
        PROVE  Owned'
    <2> DEFINE r == [x EXCEPT !.pc = pc]
    <2>1. r.job = x.job /\ r.pc = pc /\ r.todo = x.todo /\ r.lines = x.lines
      BY DEF Transactions
    <2> HIDE DEF r
    <2>2. Owns(Worker, r)'
      BY <1>2, <1>3, <1>4, <2>1 DEF Owns, Working, Targeting, Settling, Posting
    <2> QED
      BY <1>1, <1>2, <1>3, <1>4, <2>2, MoveOwned DEF r
  <1>5. ASSUME NEW o \in x.todo, NEW y, y = [x EXCEPT !.todo = @ \ {o}], NEW r,
               tx' = [tx EXCEPT ![Worker] = r],
               \/ r = y /\ (olock' = olock \/ (olock' = [olock EXCEPT ![o] = Worker] /\ olock[o] = None))
               \/ /\ r = ToSettle(y, o) /\ StillUnpaid(o)
                  /\ olock[o] = None /\ olock' = [olock EXCEPT ![o] = Worker]
        PROVE  Owned'
    <2>1. /\ y.job = x.job /\ y.pc = "expire" /\ y.todo = x.todo \ {o} /\ y.lines = x.lines
          /\ y \in Transactions
      BY <1>2, <1>5 DEF Transactions
    <2>2. o \in Order /\ \A q \in Order : /\ olock'[q] = None => olock[q] = None
                                          /\ olock[q] # None => olock'[q] = olock[q]
      BY <1>2, <1>5 DEF RowsOK
    <2>3. Owns(Worker, y)'
      BY <1>1, <1>2, <1>3, <2>1, <2>2 DEF Owns, Working, Targeting, Settling, Posting
    <2>4. ASSUME r = ToSettle(y, o), StillUnpaid(o), olock[o] = None,
                 olock' = [olock EXCEPT ![o] = Worker]
          PROVE  Owns(Worker, r)'
      <3>1. olock'[o] = Worker /\ ord'[o].payment # "PAID"
        BY <1>2, <1>3, <2>2, <2>4 DEF RowsOK, StillUnpaid
      <3>2. x.job = "expire" /\ \A p \in Pair : x.lines[p].reserved = 0
        BY <1>2 DEF Owns
      <3> QED
        BY <1>3, <2>1, <2>2, <2>4, <3>1, <3>2, ToSettleOwned
    <2>5. Owns(Worker, r)'
      BY <1>5, <2>3, <2>4
    <2>6. Frame(Worker)
      BY <1>1, <1>2, <1>3, <1>5, <2>2 DEF Frame, RowsOK, TypeInv
    <2>7. \A q \in Order : OrderVersions(q)'
      BY <1>3, <2>2, OrdersKept
    <2>8. \A p \in Pair : BalanceVersions(p)'
      BY <1>1, <1>2, <1>3, <1>5, BalancesKept
    <2> QED
      BY <1>1, <1>5, <2>5, <2>6, <2>7, <2>8, OwnedStep
  <1>6. ASSUME NEW o \in x.todo, NEW y, y = [x EXCEPT !.todo = @ \ {o}],
               \/ tx' = [tx EXCEPT ![Worker] = y] /\ UNCHANGED olock
               \/ /\ olock[o] = None
                  /\ olock' = [olock EXCEPT ![o] = Worker]
                  /\ tx' = [tx EXCEPT ![Worker] = IF StillUnpaid(o) THEN ToSettle(y, o) ELSE y]
        PROVE  Owned'
    <2>1. CASE tx' = [tx EXCEPT ![Worker] = y]
      BY <1>5, <1>6, <2>1
    <2> PICK r : r = ToSettle(y, o)
      OBVIOUS
    <2>2. CASE /\ StillUnpaid(o) /\ tx' = [tx EXCEPT ![Worker] = r]
               /\ olock[o] = None /\ olock' = [olock EXCEPT ![o] = Worker]
      BY <1>5, <1>6, <2>2
    <2> QED
      BY <1>6, <2>1, <2>2
  <1>7. \/ \E pc \in {"flush", "commit"} :
              tx' = [tx EXCEPT ![Worker] = [x EXCEPT !.pc = pc]] /\ UNCHANGED olock
        \/ \E o \in x.todo :
              LET y == [x EXCEPT !.todo = @ \ {o}] IN
              \/ tx' = [tx EXCEPT ![Worker] = y] /\ UNCHANGED olock
              \/ /\ olock[o] = None
                 /\ olock' = [olock EXCEPT ![o] = Worker]
                 /\ tx' = [tx EXCEPT ![Worker] = IF StillUnpaid(o) THEN ToSettle(y, o) ELSE y]
    BY DEF ExpireNext, Goto
  <1> QED
    BY <1>4, <1>6, <1>7

(* COMMIT keeps Owned: it publishes and unlocks all rows together.           *)
LEMMA CommitOwned == ASSUME TypeInv, Owned, NEW t \in Session, Commit(t) PROVE Owned'
PROOF
  <1> DEFINE r == Idle
  <1>1. /\ ord' = [o \in Order |-> IF olock[o] = t THEN ordW[o] ELSE ord[o]]
        /\ row' = [p \in Pair |-> IF block[p] = t THEN mem[p] ELSE row[p]]
        /\ bal' = [p \in Pair |-> IF block[p] = t THEN mem[p] ELSE bal[p]]
        /\ led' = [p \in Pair |-> IF block[p] = t THEN ledW[p] ELSE led[p]]
        /\ olock' = [o \in Order |-> IF olock[o] = t THEN None ELSE olock[o]]
        /\ block' = [p \in Pair |-> IF block[p] = t THEN None ELSE block[p]]
        /\ tx' = [tx EXCEPT ![t] = r]
        /\ UNCHANGED <<ordW, mem, ledW>>
    BY DEF Commit, Flushed
  <1>2. r.pc = "idle" /\ r.job = "idle" /\ r.lines = Idle.lines
    BY DEF Idle
  <1> HIDE DEF r
  <1>3. Owns(t, r)'
    BY <1>2, IdleLines DEF Owns, Working, Targeting, Settling, Posting
  <1>4. Frame(t)
    BY <1>1 DEF Frame, TypeInv
  <1>5. \A q \in Order : OrderVersions(q)'
    <2> TAKE q \in Order
    <2>1. OrderVersions(q)
      BY DEF Owned
    <2> QED
      BY <1>1, <2>1 DEF OrderVersions
  <1>6. \A p \in Pair : BalanceVersions(p)'
    <2> TAKE p \in Pair
    <2>1. BalanceVersions(p) /\ block[p] \in Session \cup {None} /\ None \notin Session
      BY NoneIsNobody DEF Owned, TypeInv, RowsOK
    <2>2. CASE block[p] = t
      BY <1>1, <2>1, <2>2 DEF BalanceVersions
    <2>3. CASE block[p] # t
      <3>1. row[p] # mem[p] => tx'[block[p]] = tx[block[p]]
        BY <1>1, <2>1, <2>3 DEF BalanceVersions, TypeInv
      <3> QED
        BY <1>1, <2>1, <2>3, <3>1 DEF BalanceVersions
    <2> QED
      BY <2>2, <2>3
  <1> QED
    BY <1>1, <1>3, <1>4, <1>5, <1>6, OwnedStep

(* ROLLBACK keeps Owned: it drops all versions together.                     *)
LEMMA UndoOwned == ASSUME TypeInv, Owned, NEW t \in Session, Undo(t) PROVE Owned'
PROOF
  <1> DEFINE r == Idle
  <1>1. /\ ordW' = [o \in Order |-> IF olock[o] = t THEN ord[o] ELSE ordW[o]]
        /\ row' = [p \in Pair |-> IF block[p] = t THEN bal[p] ELSE row[p]]
        /\ mem' = [p \in Pair |-> IF block[p] = t THEN bal[p] ELSE mem[p]]
        /\ ledW' = [p \in Pair |-> IF block[p] = t THEN led[p] ELSE ledW[p]]
        /\ olock' = [o \in Order |-> IF olock[o] = t THEN None ELSE olock[o]]
        /\ block' = [p \in Pair |-> IF block[p] = t THEN None ELSE block[p]]
        /\ tx' = [tx EXCEPT ![t] = r]
        /\ UNCHANGED <<ord, bal, led>>
    BY DEF Undo
  <1>2. r.pc = "idle" /\ r.job = "idle" /\ r.lines = Idle.lines
    BY DEF Idle
  <1> HIDE DEF r
  <1>3. Owns(t, r)'
    BY <1>2, IdleLines DEF Owns, Working, Targeting, Settling, Posting
  <1>4. Frame(t)
    BY <1>1 DEF Frame, TypeInv
  <1>5. \A q \in Order : OrderVersions(q)'
    <2> TAKE q \in Order
    <2>1. OrderVersions(q)
      BY DEF Owned
    <2> QED
      BY <1>1, <2>1 DEF OrderVersions
  <1>6. \A p \in Pair : BalanceVersions(p)'
    <2> TAKE p \in Pair
    <2>1. BalanceVersions(p) /\ block[p] \in Session \cup {None} /\ None \notin Session
      BY NoneIsNobody DEF Owned, TypeInv, RowsOK
    <2>2. CASE block[p] = t
      BY <1>1, <2>1, <2>2 DEF BalanceVersions
    <2>3. CASE block[p] # t
      <3>1. row[p] # mem[p] => tx'[block[p]] = tx[block[p]]
        BY <1>1, <2>1, <2>3 DEF BalanceVersions, TypeInv
      <3> QED
        BY <1>1, <2>1, <2>3, <3>1 DEF BalanceVersions
    <2> QED
      BY <2>2, <2>3
  <1> QED
    BY <1>1, <1>3, <1>4, <1>5, <1>6, OwnedStep

-------------------------------------------------------------------------------
(* Nobody owns anything at first, and all versions agree.                    *)
THEOREM OwnedInit == Init => Owned
PROOF
  <1> SUFFICES ASSUME Init PROVE Owned
    OBVIOUS
  <1>1. ASSUME NEW t \in Session PROVE Owns(t, tx[t])
    <2> PICK r : r = Idle
      OBVIOUS
    <2>1. r.pc = "idle" /\ r.job = "idle" /\ tx[t] = r /\ \A p \in Pair : r.lines[p].reserved = 0
      BY IdleLines DEF Init, Idle
    <2> QED
      BY <2>1 DEF Owns, Working, Targeting, Settling, Posting
  <1>2. \A p \in Pair : BalanceVersions(p)
    BY DEF Init, BalanceVersions
  <1>3. \A o \in Order : OrderVersions(o)
    BY DEF Init, OrderVersions, Undated, Fresh
  <1> QED
    BY <1>1, <1>2, <1>3 DEF Owned

(* Every step keeps what the sessions own.                                   *)
THEOREM OwnedNext == TypeInv /\ Owned /\ [Next]_vars => Owned'
PROOF
  <1> SUFFICES ASSUME TypeInv, Owned, [Next]_vars PROVE Owned'
    OBVIOUS
  <1>1. ASSUME NEW t \in Request, Submit(t) PROVE Owned'
    BY <1>1, CreateOwned, ReservingOwned, SettlingOwned, ReceiptOwned, AdjustOwned
       DEF Submit, Session
  <1>2. ASSUME UNCHANGED <<ord, ordW, bal, row, mem, led, ledW, olock, block, tx>> PROVE Owned'
    BY <1>2 DEF Owned, Owns, Has, HeldPairs, BalanceVersions, OrderVersions, Undated
  <1>3. ASSUME NEW o \in Order, Advance(o) \/ TimeOut(o) \/ GrowsOld(o) PROVE Owned'
    <2>1. CASE TimeOut(o) \/ GrowsOld(o)
      BY <1>2, <2>1 DEF TimeOut, GrowsOld
    <2> QED
      BY <1>3, <2>1, AdvanceOwned
  <1>4. CASE StartMaintenance \/ ExpireNext
    BY <1>4, MaintenanceOwned, ExpireOwned
  <1>5. ASSUME NEW t \in Session, Run(t) \/ Crash(t) PROVE Owned'
    <2>1. Raise(t) \/ Crash(t) => Undo(t)
      BY DEF Raise, Crash
    <2> QED
      BY <1>5, <2>1, ChooseOwned, LockOwned, RecheckOwned, PayOwned, SettleOwned, PostOwned,
         RetryHoldsOwned, NextHoldOwned, CommitOwned, UndoOwned DEF Run
  <1>6. CASE UNCHANGED vars
    BY <1>2, <1>6 DEF vars
  <1> QED
    BY <1>1, <1>3, <1>4, <1>5, <1>6 DEF Next

(* Types and ownership are invariants of the specification.                  *)
LEMMA InvariantOwned == Spec => [](TypeInv /\ Owned)
PROOF
  <1>1. Init => TypeInv /\ Owned
    BY TypeInit, OwnedInit
  <1>2. TypeInv /\ Owned /\ [Next]_vars => (TypeInv /\ Owned)'
    BY TypeNext, OwnedNext
  <1> QED
    BY <1>1, <1>2, PTL DEF Spec

(* The stored balance is the sum of its ledger in every committed state: no *)
(* session ever locks a balance again over entries it has not flushed.      *)
THEOREM LedgerCorrect == Spec => []LedgerReconciles
PROOF
  <1>1. TypeInv /\ Owned => LedgerReconciles
    BY DEF TypeInv, RowsOK, Owned, BalanceVersions, LedgerReconciles
  <1> QED
    BY <1>1, InvariantOwned, PTL

(* Only a commit and a status change write committed orders.                *)
LEMMA CommittedHold ==
  ASSUME TypeInv, [Next]_vars, NEW o \in Order
  PROVE  ord'[o].hold \in {ord[o].hold, ordW[o].hold}
PROOF
  <1>1. ord[o] \in Orders
    BY DEF TypeInv, RowsOK
  <1>2. CASE UNCHANGED ord
    BY <1>2
  <1>3. ASSUME NEW t \in Session, Commit(t) PROVE ord'[o].hold \in {ord[o].hold, ordW[o].hold}
    BY <1>3 DEF Commit
  <1>4. ASSUME NEW q \in Order, Advance(q) PROVE ord'[o].hold \in {ord[o].hold, ordW[o].hold}
    <2>1. PICK s \in Statuses : ord' = [ord EXCEPT ![q].status = s]
      BY <1>4 DEF Advance, Statuses
    <2>2. \A z \in Orders : [z EXCEPT !.status = s].hold = z.hold
      BY DEF Orders, OrderRecords
    <2> QED
      BY <1>1, <2>1, <2>2 DEF TypeInv, RowsOK
  <1>5. ASSUME NEW t \in Request, Submit(t) PROVE UNCHANGED ord
    BY <1>5 DEF Submit, StartCreate, StartReserving, StartSettling, StartReceipt, StartAdjust
  <1>6. ASSUME NEW t \in Session, Run(t) \/ Crash(t), ~Commit(t) PROVE UNCHANGED ord
    BY <1>6 DEF Run, Choose, Lock, Recheck, Pay, Settle, Post, RetryHolds, NextHold, Raise, Crash, Undo
  <1>7. ASSUME StartMaintenance \/ ExpireNext \/ UNCHANGED vars \/ \E q \in Order : TimeOut(q) \/ GrowsOld(q)
        PROVE  UNCHANGED ord
    BY <1>7 DEF StartMaintenance, ExpireNext, TimeOut, GrowsOld, vars
  <1> QED
    BY <1>2, <1>3, <1>4, <1>5, <1>6, <1>7 DEF Next

(* Paid stock is never given up for its deadline, and a paid reservation    *)
(* has none, however the worker's reads and the payment interleave.         *)
THEOREM PaidStockCorrect == Spec => PaidStockNeverExpires
PROOF
  <1> DEFINE Safe == \A o \in Order :
               /\ ord[o].payment = "PAID" /\ ord[o].hold = "ACTIVE" => ord'[o].hold # "EXPIRED"
               /\ ord'[o].payment = "PAID" /\ ord'[o].hold = "ACTIVE" => ~ord'[o].expires
  <1>1. (TypeInv /\ Owned) /\ (TypeInv /\ Owned)' /\ [Next]_vars => [Safe]_vars
    <2> SUFFICES ASSUME TypeInv, Owned, Owned', [Next]_vars, NEW o \in Order
                 PROVE  /\ ord[o].payment = "PAID" /\ ord[o].hold = "ACTIVE" => ord'[o].hold # "EXPIRED"
                        /\ ord'[o].payment = "PAID" /\ ord'[o].hold = "ACTIVE" => ~ord'[o].expires
      OBVIOUS
    <2>1. OrderVersions(o) /\ Undated(ord[o])'
      BY DEF Owned, OrderVersions
    <2> QED
      BY <2>1, CommittedHold DEF OrderVersions, Undated
  <1> QED
    BY <1>1, InvariantOwned, PTL DEF PaidStockNeverExpires, Spec

-------------------------------------------------------------------------------
(* Stock is never sold twice: what the reservations promise is what the     *)
(* balances count as reserved, in the committed tables and in the versions  *)
(* the sessions work on.                                                    *)

(* An order with this record holds stock of the pair p.                     *)
Holds(r, p) == r.hold = "ACTIVE" /\ r.at = p[1]

Counts(os, b, p) == /\ IsFiniteSet(Promised(os, p))
                    /\ b[p].reserved = Cardinality(Promised(os, p))
                    /\ b[p].reserved <= b[p].on_hand

(* The two versions of the tables count alike, and an order whose versions  *)
(* differ in what it holds of a pair has both rows locked.                  *)
Counted(p) ==
  /\ Counts(ord, bal, p) /\ Counts(ordW, mem, p)
  /\ \A o \in Order :
       Need[o][p[2]] > 0 /\ Holds(ord[o], p) # Holds(ordW[o], p)
         => olock[o] # None /\ block[p] = olock[o]

AllCounted == \A p \in Pair : Counted(p)

-------------------------------------------------------------------------------
(* Counting promises.                                                       *)

(* An order promises as many units of a pair as it needs.                    *)
LEMMA OneOrder ==
  ASSUME NEW o, NEW n \in Nat
  PROVE  IsFiniteSet({o} \X (1..n)) /\ Cardinality({o} \X (1..n)) = n
PROOF
  <1>1. IsFiniteSet(1..n) /\ Cardinality(1..n) = n
    BY FS_Interval
  <1>2. IsFiniteSet({o}) /\ Cardinality({o}) = 1
    BY FS_Singleton
  <1>3. /\ IsFiniteSet({o} \X (1..n))
        /\ Cardinality({o} \X (1..n)) = Cardinality({o}) * Cardinality(1..n)
    BY <1>1, <1>2, FS_Product
  <1>4. 1 * n = n
    OBVIOUS
  <1> QED
    BY <1>1, <1>2, <1>3, <1>4

(* A promised unit is an order that holds stock of p, and a number.          *)
LEMMA PromisedElement ==
  ASSUME NEW os, NEW p
  PROVE  Promised(os, p) =
           {e \in Order \X Nat : Holds(os[e[1]], p) /\ e[2] \in 1..Need[e[1]][p[2]]}
  BY DEF Promised, Holds

(* The same orders hold stock of p: the same units are promised.            *)
LEMMA PromisedSame ==
  ASSUME NEW p \in Pair, NEW os, NEW ps,
         \A o \in Order : Need[o][p[2]] > 0 => Holds(os[o], p) = Holds(ps[o], p)
  PROVE  Promised(os, p) = Promised(ps, p)
PROOF
  <1>1. \A o \in Order : Need[o][p[2]] \in Nat
    BY ConstantsAssumption DEF Pair
  <1>2. \A o \in Order, n \in Nat : n \in 1..Need[o][p[2]] => Need[o][p[2]] > 0
    BY <1>1
  <1> QED
    BY <1>2, PromisedElement

(* One order more holds stock of p: its units are promised in addition.     *)
LEMMA PromisedAdded ==
  ASSUME NEW p \in Pair, NEW os, NEW ps, NEW o \in Order,
         \A q \in Order \ {o} : Holds(os[q], p) = Holds(ps[q], p),
         ~Holds(os[o], p), Holds(ps[o], p)
  PROVE  /\ Promised(ps, p) = Promised(os, p) \cup ({o} \X (1..Need[o][p[2]]))
         /\ Promised(os, p) \cap ({o} \X (1..Need[o][p[2]])) = {}
PROOF
  <1>1. Need[o][p[2]] \in Nat
    BY ConstantsAssumption DEF Pair
  <1> QED
    BY <1>1, PromisedElement

(* One order more, and its units added to the reserved count.                *)
LEMMA CountsAdded ==
  ASSUME NEW p \in Pair, NEW os, NEW ps, NEW b, NEW c, NEW o \in Order, b[p] \in Balances,
         Counts(os, b, p), \A q \in Order \ {o} : Holds(os[q], p) = Holds(ps[q], p),
         ~Holds(os[o], p), Holds(ps[o], p),
         c[p].reserved = b[p].reserved + Need[o][p[2]], c[p].reserved <= c[p].on_hand
  PROVE  Counts(ps, c, p)
PROOF
  <1> DEFINE n == Need[o][p[2]]
             new == {o} \X (1..n)
  <1>1. n \in Nat
    BY ConstantsAssumption DEF Pair
  <1>2. IsFiniteSet(new) /\ Cardinality(new) = n
    BY <1>1, OneOrder
  <1>3. Promised(ps, p) = Promised(os, p) \cup new /\ Promised(os, p) \cap new = {}
    BY PromisedAdded
  <1>4. IsFiniteSet(Promised(os, p)) /\ b[p].reserved = Cardinality(Promised(os, p))
    BY DEF Counts
  <1> HIDE DEF n, new
  <1>5. /\ IsFiniteSet(Promised(ps, p))
        /\ Cardinality(Promised(ps, p)) = Cardinality(Promised(os, p)) + Cardinality(new) - Cardinality({})
    BY <1>2, <1>3, <1>4, FS_Union
  <1>6. Cardinality({}) = 0 /\ Cardinality(Promised(os, p)) \in Nat
    BY <1>4, FS_EmptySet, FS_CardinalityType
  <1>7. c[p].reserved = Cardinality(Promised(ps, p))
    BY <1>1, <1>2, <1>4, <1>5, <1>6 DEF n
  <1> QED
    BY <1>5, <1>7 DEF Counts

(* One order less, and its units taken from the reserved count.              *)
LEMMA CountsRemoved ==
  ASSUME NEW p \in Pair, NEW os, NEW ps, NEW b, NEW c, NEW o \in Order, b[p] \in Balances,
         Counts(os, b, p), \A q \in Order \ {o} : Holds(os[q], p) = Holds(ps[q], p),
         Holds(os[o], p), ~Holds(ps[o], p),
         c[p].reserved = b[p].reserved - Need[o][p[2]], c[p].reserved <= c[p].on_hand
  PROVE  Counts(ps, c, p)
PROOF
  <1> DEFINE n == Need[o][p[2]]
             new == {o} \X (1..n)
  <1>1. n \in Nat
    BY ConstantsAssumption DEF Pair
  <1>2. IsFiniteSet(new) /\ Cardinality(new) = n
    BY <1>1, OneOrder
  <1>3. Promised(os, p) = Promised(ps, p) \cup new /\ Promised(ps, p) \cap new = {}
    BY PromisedAdded
  <1>4. IsFiniteSet(Promised(os, p)) /\ b[p].reserved = Cardinality(Promised(os, p))
    BY DEF Counts
  <1> HIDE DEF n, new
  <1>5. IsFiniteSet(Promised(ps, p))
    BY <1>3, <1>4, FS_Subset
  <1>6. Cardinality(Promised(os, p)) = Cardinality(Promised(ps, p)) + Cardinality(new) - Cardinality({})
    BY <1>2, <1>3, <1>5, FS_Union
  <1>7. Cardinality({}) = 0 /\ Cardinality(Promised(ps, p)) \in Nat
    BY <1>5, FS_EmptySet, FS_CardinalityType
  <1>8. c[p].reserved = Cardinality(Promised(ps, p))
    BY <1>1, <1>2, <1>4, <1>6, <1>7 DEF n
  <1> QED
    BY <1>5, <1>8 DEF Counts

(* The same orders hold stock and the reserved count is the same.            *)
LEMMA CountsSame ==
  ASSUME NEW p \in Pair, NEW os, NEW ps, NEW b, NEW c, Counts(os, b, p),
         \A o \in Order : Need[o][p[2]] > 0 => Holds(os[o], p) = Holds(ps[o], p),
         c[p].reserved = b[p].reserved, c[p].reserved <= c[p].on_hand
  PROVE  Counts(ps, c, p)
PROOF
  <1>1. Promised(os, p) = Promised(ps, p)
    BY PromisedSame
  <1> QED
    BY <1>1 DEF Counts

-------------------------------------------------------------------------------
(* The steps.                                                               *)

(* Counted(p) of the next state, from its versions of the rows.              *)
LEMMA CountedNext ==
  ASSUME NEW p \in Pair, NEW os, NEW ws, NEW b, NEW m,
         os = ord', ws = ordW', b = bal', m = mem',
         Counts(os, b, p), Counts(ws, m, p),
         \A o \in Order : Need[o][p[2]] > 0 /\ Holds(os[o], p) # Holds(ws[o], p)
                            => olock'[o] # None /\ block'[p] = olock'[o]
  PROVE  Counted(p)'
  BY DEF Counted, Counts, Promised, Holds

(* A step that changes neither what orders hold nor what is reserved, and   *)
(* only adds row locks.                                                     *)
LEMMA QuietCounted ==
  ASSUME AllCounted,
         \A o \in Order : /\ ord'[o].hold = ord[o].hold /\ ord'[o].at = ord[o].at
                          /\ ordW'[o].hold = ordW[o].hold /\ ordW'[o].at = ordW[o].at
                          /\ olock[o] # None => olock'[o] = olock[o],
         \A p \in Pair : /\ bal'[p] = bal[p] /\ mem'[p].reserved = mem[p].reserved
                         /\ mem'[p].reserved <= mem'[p].on_hand
                         /\ block[p] # None => block'[p] = block[p]
  PROVE  AllCounted'
PROOF
  <1> SUFFICES ASSUME NEW p \in Pair PROVE Counted(p)'
    BY DEF AllCounted
  <1> PICK os, ws, b, m : os = ord' /\ ws = ordW' /\ b = bal' /\ m = mem'
    OBVIOUS
  <1>1. Counted(p)
    BY DEF AllCounted
  <1>2. \A o \in Order : Holds(os[o], p) = Holds(ord[o], p) /\ Holds(ws[o], p) = Holds(ordW[o], p)
    BY DEF Holds
  <1>3. Counts(os, b, p)
    BY <1>1, <1>2, CountsSame DEF Counted, Counts
  <1>4. Counts(ws, m, p)
    BY <1>1, <1>2, CountsSame DEF Counted
  <1> QED
    BY <1>1, <1>2, <1>3, <1>4, CountedNext DEF Counted

(* A quiet step that touches no balance at all.                             *)
LEMMA OrdersOnlyCounted ==
  ASSUME AllCounted, UNCHANGED <<bal, mem, block>>,
         \A o \in Order : /\ ord'[o].hold = ord[o].hold /\ ord'[o].at = ord[o].at
                          /\ ordW'[o].hold = ordW[o].hold /\ ordW'[o].at = ordW[o].at
                          /\ olock[o] # None => olock'[o] = olock[o]
  PROVE  AllCounted'
PROOF
  <1>1. \A p \in Pair : mem[p].reserved <= mem[p].on_hand
    BY DEF AllCounted, Counted, Counts
  <1> QED
    BY <1>1, QuietCounted

(* A new request changes no count.                                           *)
LEMMA StartsCounted ==
  ASSUME TypeInv, AllCounted, NEW t \in Session, Submit(t)
  PROVE  AllCounted'
PROOF
  <1>1. \A o \in Order : ordW[o] \in Orders
    BY DEF TypeInv, RowsOK
  <1>2. UNCHANGED <<ord, bal, mem, block>>
    BY DEF Submit, StartCreate, StartReserving, StartSettling, StartReceipt, StartAdjust
  <1>3. ASSUME NEW o \in Order, NEW y, y.hold = ordW[o].hold, y.at = ordW[o].at,
               ordW' = [ordW EXCEPT ![o] = y], olock[o] = None, olock' = [olock EXCEPT ![o] = t]
        PROVE  AllCounted'
    BY <1>2, <1>3, OrdersOnlyCounted DEF TypeInv, RowsOK
  <1>4. ASSUME NEW paid \in BOOLEAN, StartCreate(t, paid) PROVE AllCounted'
    <2>1. PICK o \in Order : /\ olock[o] = None /\ olock' = [olock EXCEPT ![o] = t]
                             /\ ordW' = [ordW EXCEPT ![o].status = "CREATED"]
      BY <1>4 DEF StartCreate
    <2> PICK z \in Orders : z = ordW[o]
      BY <1>1
    <2> DEFINE y == [z EXCEPT !.status = "CREATED"]
    <2>2. y.hold = z.hold /\ y.at = z.at
      BY DEF Orders, OrderRecords
    <2>3. ordW' = [ordW EXCEPT ![o] = y]
      BY <2>1
    <2> HIDE DEF y
    <2> QED
      BY <1>3, <2>1, <2>2, <2>3
  <1>5. ASSUME NEW o \in Order, NEW a \in ReservingActions, StartReserving(t, o, a) PROVE AllCounted'
    <2> PICK y : y = IF a = "mark_paid" THEN Paid(ordW[o]) ELSE ordW[o]
      OBVIOUS
    <2>1. /\ olock[o] = None /\ olock' = [olock EXCEPT ![o] = t]
          /\ ordW' = [ordW EXCEPT ![o] = y]
      BY <1>5 DEF StartReserving
    <2>2. y.hold = ordW[o].hold /\ y.at = ordW[o].at
      BY <1>1, OrderFields
    <2> QED
      BY <1>3, <2>1, <2>2
  <1>6. ASSUME NEW o \in Order, NEW a \in SettlingActions, StartSettling(t, o, a) PROVE AllCounted'
    <2>1. olock[o] = None /\ olock' = [olock EXCEPT ![o] = t] /\ UNCHANGED ordW
      BY <1>6 DEF StartSettling
    <2> QED
      BY <1>2, <2>1, OrdersOnlyCounted DEF TypeInv, RowsOK
  <1>7. ASSUME UNCHANGED <<ordW, olock>> PROVE AllCounted'
    BY <1>2, <1>7, OrdersOnlyCounted
  <1>8. ASSUME \/ \E ps \in SUBSET Pair : StartReceipt(t, ps)
               \/ \E p \in Pair : StartAdjust(t, p)
        PROVE  UNCHANGED <<ordW, olock>>
    BY <1>8 DEF StartReceipt, StartAdjust
  <1> QED
    BY <1>4, <1>5, <1>6, <1>7, <1>8 DEF Submit

(* Going for the best candidate, or giving up, changes no count.             *)
LEMMA AttemptCounted ==
  ASSUME TypeInv, AllCounted, NEW t \in Session, tx[t].cur \in Order, NEW c, Attempt(t, c),
         UNCHANGED <<ord, bal, mem, olock, block>>
  PROVE  AllCounted'
PROOF
  <1> PICK o \in Order : o = tx[t].cur
    OBVIOUS
  <1> PICK y : y = OutOfStock(ordW[o])
    OBVIOUS
  <1>1. ordW[o] \in Orders
    BY DEF TypeInv, RowsOK
  <1>2. y.hold = ordW[o].hold /\ y.at = ordW[o].at
    BY <1>1, OrderFields
  <1>3. ordW' = ordW \/ ordW' = [ordW EXCEPT ![o] = y]
    BY DEF Attempt
  <1> QED
    BY <1>2, <1>3, OrdersOnlyCounted DEF TypeInv, RowsOK

(* The unlocked read of reserve_order() changes no count.                    *)
LEMMA ChooseCounted ==
  ASSUME TypeInv, AllCounted, NEW t \in Session, Choose(t) PROVE AllCounted'
PROOF
  <1>1. tx[t].cur \in Order /\ UNCHANGED <<ord, bal, mem, olock, block>>
    BY Own DEF Choose, Sane, Working
  <1>2. CASE Attempt(t, Candidates(t, tx[t].cur))
    BY <1>1, <1>2, AttemptCounted
  <1>3. CASE ordW' = [ordW EXCEPT ![tx[t].cur] = Allocated(@)]
    <2> PICK o \in Order : o = tx[t].cur
      BY <1>1
    <2> PICK y : y = Allocated(ordW[o])
      OBVIOUS
    <2>1. ordW[o] \in Orders
      BY DEF TypeInv, RowsOK
    <2>2. y.hold = ordW[o].hold /\ y.at = ordW[o].at /\ ordW' = [ordW EXCEPT ![o] = y]
      BY <1>3, <2>1, OrderFields
    <2> QED
      BY <1>1, <2>2, OrdersOnlyCounted DEF TypeInv, RowsOK
  <1> QED
    BY <1>2, <1>3 DEF Choose

(* A payment changes no count.                                               *)
LEMMA PayCounted ==
  ASSUME TypeInv, AllCounted, NEW t \in Session, Pay(t) PROVE AllCounted'
PROOF
  <1>1. PICK o \in Order : o = tx[t].cur
    BY Own DEF Pay, Sane, Working
  <1> PICK y : y = Paid(ordW[o])
    OBVIOUS
  <1>2. ordW' = [ordW EXCEPT ![o] = y] /\ UNCHANGED <<ord, bal, mem, olock, block>>
    BY <1>1 DEF Pay
  <1>3. ordW[o] \in Orders
    BY DEF TypeInv, RowsOK
  <1>4. y.hold = ordW[o].hold /\ y.at = ordW[o].at
    BY <1>3, OrderFields
  <1> QED
    BY <1>2, <1>4, OrdersOnlyCounted DEF TypeInv, RowsOK

(* A row lock changes no count: the row it reads is the one in memory.       *)
LEMMA LockCounted ==
  ASSUME TypeInv, Owned, AllCounted, NEW t \in Session, Lock(t) PROVE AllCounted'
PROOF
  <1> PICK x \in Transactions : x = tx[t]
    BY Own
  <1>1. UNCHANGED <<ord, ordW, bal, row, olock>> /\ tx[t].pc = "lock" /\ None \notin Session
    BY NoneIsNobody DEF Lock
  <1>2. PICK p \in x.want : /\ block[p] \in {None, t}
                            /\ block' = [block EXCEPT ![p] = t]
                            /\ mem' = [mem EXCEPT ![p] = row[p]]
    BY DEF Lock
  <1>3. ASSUME NEW q \in Pair
        PROVE  /\ mem'[q].reserved = mem[q].reserved
               /\ mem'[q].reserved <= mem'[q].on_hand
               /\ block[q] # None => block'[q] = block[q]
    <2>1. BalanceVersions(q) /\ Counted(q) /\ RowsOK
      BY DEF Owned, AllCounted, TypeInv
    <2>2. q = p => row[q] = mem[q]
      <3>1. ASSUME q = p, row[q] # mem[q] PROVE FALSE
        BY <1>1, <1>2, <2>1, <3>1 DEF BalanceVersions
      <3> QED
        BY <3>1
    <2>3. mem'[q] = mem[q]
      BY <1>2, <2>1, <2>2 DEF RowsOK
    <2>4. mem[q].reserved <= mem[q].on_hand
      BY <2>1 DEF Counted, Counts
    <2>5. block[q] # None => block'[q] = block[q]
      BY <1>2, <2>1 DEF RowsOK
    <2> QED
      BY <2>3, <2>4, <2>5
  <1> QED
    BY <1>1, <1>3, QuietCounted

(* A step of session t that writes y to the order it has locked and posts d *)
(* to balances it has locked: it is enough to count pair by pair what the   *)
(* order holds before and after.                                            *)
LEMMA WrittenCounted ==
  ASSUME TypeInv, AllCounted, NEW t \in Session, NEW o \in Order, NEW y, NEW m,
         olock[o] = t, ordW' = [ordW EXCEPT ![o] = y], mem' = m,
         UNCHANGED <<ord, bal, olock, block>>,
         \A p \in Pair : Counts(ordW', m, p),
         \A p \in Pair : Need[o][p[2]] > 0 /\ Holds(y, p) # Holds(ordW[o], p) => block[p] = t
  PROVE  AllCounted'
PROOF
  <1> SUFFICES ASSUME NEW p \in Pair PROVE Counted(p)'
    BY DEF AllCounted
  <1> PICK os, ws, b : os = ord' /\ ws = ordW' /\ b = bal'
    OBVIOUS
  <1>1. Counted(p) /\ t # None
    BY NoneIsNobody DEF AllCounted
  <1>2. Counts(os, b, p)
    BY <1>1 DEF Counted, Counts, Promised
  <1>3. Counts(ws, m, p)
    OBVIOUS
  <1>4. \A q \in Order : ws[q] = IF q = o THEN y ELSE ordW[q]
    BY DEF TypeInv, RowsOK
  <1>5. ASSUME NEW q \in Order, Need[q][p[2]] > 0, Holds(os[q], p) # Holds(ws[q], p)
        PROVE  olock[q] # None /\ block[p] = olock[q]
    <2>1. CASE Holds(ord[q], p) # Holds(ordW[q], p)
      BY <1>1, <1>5, <2>1 DEF Counted
    <2>2. CASE Holds(ord[q], p) = Holds(ordW[q], p)
      <3>1. Holds(ordW[q], p) # Holds(ws[q], p)
        BY <1>5, <2>2 DEF Holds
      <3>2. q = o
        BY <1>4, <3>1 DEF Holds
      <3> QED
        BY <1>1, <1>4, <1>5, <3>1, <3>2
    <2> QED
      BY <2>1, <2>2
  <1>6. \A q \in Order : Need[q][p[2]] > 0 /\ Holds(os[q], p) # Holds(ws[q], p)
                         => olock'[q] # None /\ block'[p] = olock'[q]
    BY <1>5
  <1>7. m = mem' /\ os = ord' /\ ws = ordW' /\ b = bal'
    OBVIOUS
  <1> QED
    BY <1>2, <1>3, <1>6, <1>7, CountedNext

(* A step that reserves the whole order o at warehouse w.                   *)
LEMMA ReservedCounted ==
  ASSUME TypeInv, AllCounted, NEW t \in Session, NEW o \in Order, NEW w \in Warehouse, NEW y,
         olock[o] = t, ordW[o].hold # "ACTIVE", y.hold = "ACTIVE", y.at = w,
         NEW d, DOMAIN d = NeededPairs(o, w),
         \A p \in NeededPairs(o, w) : d[p].reserved = Need[o][p[2]],
         CanPost(mem, d), mem' = Posted(mem, d),
         ordW' = [ordW EXCEPT ![o] = y], UNCHANGED <<ord, bal, olock, block>>,
         \A p \in NeededPairs(o, w) : block[p] = t
  PROVE  AllCounted'
PROOF
  <1> PICK m : m = mem'
    OBVIOUS
  <1>1. \A p \in Pair : Need[o][p[2]] \in Nat /\ (p \in NeededPairs(o, w) <=> p[1] = w /\ Need[o][p[2]] > 0)
    BY ConstantsAssumption DEF Pair, NeededPairs, NeededSkus
  <1>2. ASSUME NEW p \in Pair PROVE Counts(ordW', m, p)
    <2> PICK ws : ws = ordW'
      OBVIOUS
    <2>1. Counted(p) /\ mem[p] \in Balances
      BY DEF AllCounted, TypeInv, RowsOK
    <2>2. \A q \in Order : ws[q] = IF q = o THEN y ELSE ordW[q]
      BY DEF TypeInv, RowsOK
    <2>3. \A q \in Order \ {o} : Holds(ordW[q], p) = Holds(ws[q], p)
      BY <2>2
    <2>4. CASE p \in NeededPairs(o, w)
      <3>1. m[p] = Plus(mem[p], d[p]) /\ Sound(Plus(mem[p], d[p])) /\ d[p].reserved = Need[o][p[2]]
        BY <2>4 DEF Posted, CanPost, CanApply
      <3>2. m[p].reserved = mem[p].reserved + d[p].reserved /\ m[p].reserved <= m[p].on_hand
        BY <3>1 DEF Plus, Sound
      <3>3. ~Holds(ordW[o], p) /\ Holds(ws[o], p)
        BY <1>1, <2>2, <2>4 DEF Holds
      <3>4. Counts(ws, m, p)
        BY <2>1, <2>3, <3>1, <3>2, <3>3, CountsAdded DEF Counted
      <3> QED
        BY <3>4
    <2>5. CASE p \notin NeededPairs(o, w)
      <3>1. m[p] = mem[p]
        BY <2>5 DEF Posted
      <3>2. Need[o][p[2]] > 0 => Holds(ordW[o], p) = Holds(ws[o], p)
        BY <1>1, <2>2, <2>5 DEF Holds
      <3>3. \A q \in Order : Need[q][p[2]] > 0 => Holds(ordW[q], p) = Holds(ws[q], p)
        BY <2>3, <3>2
      <3>4. Counts(ordW, mem, p)
        BY <2>1 DEF Counted
      <3>5. m[p].reserved = mem[p].reserved /\ m[p].reserved <= m[p].on_hand
        BY <3>1, <3>4 DEF Counts
      <3>6. Promised(ordW, p) = Promised(ws, p)
        BY <3>3, PromisedSame
      <3>7. Counts(ws, m, p)
        BY <3>4, <3>5, <3>6 DEF Counts
      <3> QED
        BY <3>7
    <2> QED
      BY <2>4, <2>5
  <1>3. \A p \in Pair : Need[o][p[2]] > 0 /\ Holds(y, p) # Holds(ordW[o], p) => block[p] = t
    BY <1>1 DEF Holds
  <1> QED
    BY <1>2, <1>3, WrittenCounted

(* A step that gives up what order o holds.                                 *)
LEMMA GivenUpCounted ==
  ASSUME TypeInv, AllCounted, NEW t \in Session, NEW o \in Order, NEW y,
         olock[o] = t, y.hold # "ACTIVE",
         NEW d, DOMAIN d = HeldPairs(o), \A p \in HeldPairs(o) : d[p].reserved = -Need[o][p[2]],
         CanPost(mem, d), mem' = Posted(mem, d),
         ordW' = [ordW EXCEPT ![o] = y], UNCHANGED <<ord, bal, olock, block>>,
         \A p \in HeldPairs(o) : block[p] = t
  PROVE  AllCounted'
PROOF
  <1> PICK m : m = mem'
    OBVIOUS
  <1>1. \A p \in Pair : /\ Need[o][p[2]] \in Nat
                        /\ p \in HeldPairs(o) <=> Holds(ordW[o], p) /\ Need[o][p[2]] > 0
    BY ConstantsAssumption DEF Pair, HeldPairs, NeededPairs, NeededSkus, Holds
  <1>2. ASSUME NEW p \in Pair PROVE Counts(ordW', m, p)
    <2> PICK ws : ws = ordW'
      OBVIOUS
    <2>1. Counted(p) /\ mem[p] \in Balances
      BY DEF AllCounted, TypeInv, RowsOK
    <2>2. \A q \in Order : ws[q] = IF q = o THEN y ELSE ordW[q]
      BY DEF TypeInv, RowsOK
    <2>3. \A q \in Order \ {o} : Holds(ordW[q], p) = Holds(ws[q], p)
      BY <2>2
    <2>4. CASE p \in HeldPairs(o)
      <3>1. m[p] = Plus(mem[p], d[p]) /\ Sound(Plus(mem[p], d[p])) /\ d[p].reserved = -Need[o][p[2]]
        BY <2>4 DEF Posted, CanPost, CanApply
      <3>2. m[p].reserved = mem[p].reserved + d[p].reserved /\ m[p].reserved <= m[p].on_hand
        BY <3>1 DEF Plus, Sound
      <3>3. m[p].reserved = mem[p].reserved - Need[o][p[2]]
        BY <1>1, <2>1, <3>1, <3>2 DEF Balances
      <3>4. Holds(ordW[o], p) /\ ~Holds(ws[o], p)
        BY <1>1, <2>2, <2>4 DEF Holds
      <3>5. Counts(ws, m, p)
        BY <2>1, <2>3, <3>2, <3>3, <3>4, CountsRemoved DEF Counted
      <3> QED
        BY <3>5
    <2>5. CASE p \notin HeldPairs(o)
      <3>1. m[p] = mem[p]
        BY <2>5 DEF Posted
      <3>2. Need[o][p[2]] > 0 => Holds(ordW[o], p) = Holds(ws[o], p)
        BY <1>1, <2>2, <2>5 DEF Holds
      <3>3. \A q \in Order : Need[q][p[2]] > 0 => Holds(ordW[q], p) = Holds(ws[q], p)
        BY <2>3, <3>2
      <3>4. Counts(ordW, mem, p)
        BY <2>1 DEF Counted
      <3>5. m[p].reserved = mem[p].reserved /\ m[p].reserved <= m[p].on_hand
        BY <3>1, <3>4 DEF Counts
      <3>6. Counts(ws, m, p)
        BY <3>3, <3>4, <3>5, CountsSame
      <3> QED
        BY <3>6
    <2> QED
      BY <2>4, <2>5
  <1>3. \A p \in Pair : Need[o][p[2]] > 0 /\ Holds(y, p) # Holds(ordW[o], p) => block[p] = t
    BY <1>1 DEF Holds
  <1> QED
    BY <1>2, <1>3, WrittenCounted

(* The locked recheck reserves what the order needs, or nothing.             *)
LEMMA RecheckCounted ==
  ASSUME TypeInv, Owned, AllCounted, NEW t \in Session, Recheck(t) PROVE AllCounted'
PROOF
  <1> PICK x \in Transactions : x = tx[t]
    BY Own
  <1>1. Sane(x) /\ RowsOK /\ Owns(t, x) /\ x.pc = "recheck"
    BY Own DEF Owned, Recheck
  <1>2. /\ x.cur \in Order /\ x.wh \in Warehouse
        /\ olock[x.cur] = t /\ ordW[x.cur].hold # "ACTIVE"
        /\ \A p \in NeededPairs(x.cur, x.wh) : block[p] = t
    BY <1>1 DEF Sane, Owns, Working, Targeting, Has
  <1>3. UNCHANGED <<ord, bal, olock, block>>
    BY DEF Recheck
  <1>4. PICK d : d = [p \in NeededPairs(x.cur, x.wh) |-> Reserving(Need[x.cur][p[2]])]
    OBVIOUS
  <1>5. PICK y : y = Allocated(Reserved(ordW[x.cur], x.wh, x.job))
    OBVIOUS
  <1>6. CASE CanPost(mem, d) /\ mem' = Posted(mem, d) /\ ordW' = [ordW EXCEPT ![x.cur] = y]
    <2> PICK z : z = Reserved(ordW[x.cur], x.wh, x.job)
      OBVIOUS
    <2>1. PICK u \in Orders : u = ordW[x.cur]
      BY <1>1, <1>2 DEF RowsOK
    <2>5. x.job \in Jobs
      BY Own
    <2>2. z \in Orders /\ z.hold = "ACTIVE" /\ z.at = x.wh
      <3>1. z \in Orders
        BY <1>2, <2>1, <2>5, OrderTypes
      <3>2. z.hold = "ACTIVE" /\ z.at = x.wh
        BY <2>1 DEF Reserved, Orders, OrderRecords
      <3> QED
        BY <3>1, <3>2
    <2>3. y.hold = "ACTIVE" /\ y.at = x.wh
      BY <1>5, <2>2, OrderFields
    <2>4. /\ DOMAIN d = NeededPairs(x.cur, x.wh)
          /\ \A p \in NeededPairs(x.cur, x.wh) : d[p].reserved = Need[x.cur][p[2]]
      BY <1>4 DEF Reserving
    <2> QED
      BY <1>2, <1>3, <1>6, <2>3, <2>4, ReservedCounted
  <1>7. CASE Attempt(t, Without(x.cand, x.wh)) /\ UNCHANGED mem
    BY <1>2, <1>3, <1>7, AttemptCounted
  <1> QED
    BY <1>4, <1>5, <1>6, <1>7 DEF Recheck

(* Settling gives up exactly what the order held.                            *)
LEMMA SettleCounted ==
  ASSUME TypeInv, Owned, AllCounted, NEW t \in Session, Settle(t) PROVE AllCounted'
PROOF
  <1> PICK x \in Transactions : x = tx[t]
    BY Own
  <1>1. Sane(x) /\ RowsOK /\ Owns(t, x) /\ x.pc = "settle"
    BY Own DEF Owned, Settle
  <1>2. x.cur \in Order /\ olock[x.cur] = t /\ \A p \in HeldPairs(x.cur) : block[p] = t
    BY <1>1 DEF Sane, Owns, Working, Settling, Has
  <1>3. PICK d : d = [p \in HeldPairs(x.cur) |->
                        IF x.job = "ship" THEN Shipping(Need[x.cur][p[2]])
                                          ELSE Releasing(Need[x.cur][p[2]])]
    OBVIOUS
  <1>4. PICK y : y = Settled(ordW[x.cur], x.job)
    OBVIOUS
  <1>5. /\ CanPost(mem, d) /\ mem' = Posted(mem, d) /\ ordW' = [ordW EXCEPT ![x.cur] = y]
        /\ UNCHANGED <<ord, bal, olock, block>>
    BY <1>3, <1>4 DEF Settle
  <1>6. y.hold # "ACTIVE"
    <2>1. PICK u \in Orders : u = ordW[x.cur]
      BY <1>1, <1>2 DEF RowsOK
    <2> QED
      BY <1>4, <2>1, SettledFields
  <1>7. DOMAIN d = HeldPairs(x.cur) /\ \A p \in HeldPairs(x.cur) : d[p].reserved = -Need[x.cur][p[2]]
    BY <1>3 DEF Shipping, Releasing
  <1> QED
    BY <1>2, <1>5, <1>6, <1>7, GivenUpCounted

(* Receipts and adjustments leave the reserved count and stay sound.         *)
LEMMA PostCounted ==
  ASSUME TypeInv, Owned, AllCounted, NEW t \in Session, Post(t) PROVE AllCounted'
PROOF
  <1> PICK x \in Transactions : x = tx[t]
    BY Own
  <1> PICK d : d = Entries(x)
    OBVIOUS
  <1>1. RowsOK /\ \A p \in Pair : x.lines[p].reserved = 0
    BY Own DEF Owned, Owns
  <1>2. CanPost(mem, d) /\ mem' = Posted(mem, d) /\ UNCHANGED <<ord, ordW, bal, olock, block>>
    BY DEF Post
  <1>3. \A p \in DOMAIN d : p \in Pair /\ d[p].reserved = 0
    BY <1>1 DEF Entries
  <1>4. ASSUME NEW p \in Pair
        PROVE  mem'[p].reserved = mem[p].reserved /\ mem'[p].reserved <= mem'[p].on_hand
    <2>1. mem[p] \in Balances /\ mem[p].reserved <= mem[p].on_hand
      BY <1>1 DEF RowsOK, AllCounted, Counted, Counts
    <2>2. CASE p \in DOMAIN d
      <3>1. mem'[p] = Plus(mem[p], d[p]) /\ Sound(Plus(mem[p], d[p])) /\ d[p].reserved = 0
        BY <1>2, <1>3, <2>2 DEF Posted, CanPost, CanApply
      <3>2. mem'[p].reserved = mem[p].reserved + d[p].reserved /\ mem'[p].reserved <= mem'[p].on_hand
        BY <3>1 DEF Plus, Sound
      <3> QED
        BY <2>1, <3>1, <3>2 DEF Balances
    <2>3. CASE p \notin DOMAIN d
      BY <1>2, <2>1, <2>3 DEF Posted
    <2> QED
      BY <2>2, <2>3
  <1> QED
    BY <1>2, <1>4, QuietCounted

(* The start of retry_holds() changes no count.                              *)
LEMMA RetryHoldsCounted ==
  ASSUME TypeInv, AllCounted, NEW t \in Session, RetryHolds(t) PROVE AllCounted'
PROOF
  <1> PICK picked :
        picked = Oldest({o \in Order : olock[o] \in {None, t} /\ Waiting(OrderSeen(t, o))},
                             LimitOf(tx[t].job))
    OBVIOUS
  <1>1. \A o \in picked : olock[o] \in {None, t}
    BY DEF Oldest
  <1>2. /\ olock' = [o \in Order |-> IF o \in picked THEN t ELSE olock[o]]
        /\ UNCHANGED <<ord, ordW, bal, mem, block>>
    BY DEF RetryHolds
  <1> QED
    BY <1>1, <1>2, OrdersOnlyCounted

(* The loop of expire_reservations() changes no count by itself.             *)
LEMMA ExpireCounted ==
  ASSUME TypeInv, AllCounted, ExpireNext PROVE AllCounted'
PROOF
  <1>1. UNCHANGED <<ord, ordW, bal, mem, block>>
    BY DEF ExpireNext
  <1>2. \/ UNCHANGED olock
        \/ \E o \in Order : olock[o] = None /\ olock' = [olock EXCEPT ![o] = Worker]
    <2>1. \A x \in Transactions : x.todo \subseteq Order
      BY DEF Transactions
    <2>2. tx[Worker].todo \subseteq Order
      BY <2>1, Own DEF Session
    <2> QED
      BY <2>2 DEF ExpireNext
  <1> QED
    BY <1>1, <1>2, OrdersOnlyCounted DEF TypeInv, RowsOK

(* The status changes of the warehouse change no count.                      *)
LEMMA AdvanceCounted ==
  ASSUME TypeInv, Owned, AllCounted, NEW o \in Order, Advance(o) PROVE AllCounted'
PROOF
  <1>1. PICK s \in Statuses :
          /\ ord' = [ord EXCEPT ![o].status = s] /\ ordW' = [ordW EXCEPT ![o].status = s]
          /\ UNCHANGED <<bal, mem, olock, block>>
    BY DEF Advance, Statuses
  <1>2. \A z \in Orders : LET y == [z EXCEPT !.status = s] IN y.hold = z.hold /\ y.at = z.at
    BY DEF Orders, OrderRecords
  <1>3. ord \in [Order -> Orders] /\ ordW \in [Order -> Orders]
    BY DEF TypeInv, RowsOK
  <1>4. \A q \in Order : /\ ord'[q].hold = ord[q].hold /\ ord'[q].at = ord[q].at
                         /\ ordW'[q].hold = ordW[q].hold /\ ordW'[q].at = ordW[q].at
    BY <1>1, <1>2, <1>3
  <1> QED
    BY <1>1, <1>4, OrdersOnlyCounted

(* A session that ends takes its versions of order and balance together:    *)
(* where they differ it has both rows locked.                               *)
LEMMA CommitCounted ==
  ASSUME TypeInv, Owned, AllCounted, NEW t \in Session, Commit(t) PROVE AllCounted'
PROOF
  <1> SUFFICES ASSUME NEW p \in Pair PROVE Counted(p)'
    BY DEF AllCounted
  <1> PICK os, ws, b, m : os = ord' /\ ws = ordW' /\ b = bal' /\ m = mem'
    OBVIOUS
  <1>1. Counted(p) /\ BalanceVersions(p) /\ None \notin Session
    BY NoneIsNobody DEF AllCounted, Owned
  <1>2. /\ \A o \in Order : /\ os[o] = IF olock[o] = t THEN ordW[o] ELSE ord[o]
                            /\ olock'[o] = IF olock[o] = t THEN None ELSE olock[o]
        /\ b[p] = IF block[p] = t THEN mem[p] ELSE bal[p]
        /\ block'[p] = IF block[p] = t THEN None ELSE block[p]
        /\ ws = ordW /\ m = mem
    BY DEF Commit
  <1>3. \A o \in Order : Need[o][p[2]] > 0 /\ Holds(ord[o], p) # Holds(ordW[o], p)
                           => olock[o] # None /\ block[p] = olock[o]
    BY <1>1 DEF Counted
  <1>4. Counts(ord, bal, p) /\ Counts(ordW, mem, p)
    BY <1>1 DEF Counted
  <1>5. Counts(os, b, p)
    <2>1. CASE block[p] = t
      <3>1. ASSUME NEW o \in Order, Need[o][p[2]] > 0 PROVE Holds(ordW[o], p) = Holds(os[o], p)
        BY <1>2, <1>3, <2>1, <3>1
      <3>2. Promised(ordW, p) = Promised(os, p)
        BY <3>1, PromisedSame
      <3> QED
        BY <1>2, <1>4, <2>1, <3>2 DEF Counts
    <2>2. CASE block[p] # t
      <3>1. ASSUME NEW o \in Order, Need[o][p[2]] > 0 PROVE Holds(ord[o], p) = Holds(os[o], p)
        BY <1>2, <1>3, <2>2, <3>1
      <3>2. Promised(ord, p) = Promised(os, p)
        BY <3>1, PromisedSame
      <3> QED
        BY <1>2, <1>4, <2>2, <3>2 DEF Counts
    <2> QED
      BY <2>1, <2>2
  <1>6. Counts(ws, m, p)
    BY <1>2, <1>4
  <1>7. \A o \in Order : Need[o][p[2]] > 0 /\ Holds(os[o], p) # Holds(ws[o], p)
                           => olock'[o] # None /\ block'[p] = olock'[o]
    BY <1>1, <1>2, <1>3
  <1> QED
    BY <1>5, <1>6, <1>7, CountedNext

(* ROLLBACK drops both versions together, as COMMIT publishes both.          *)
LEMMA UndoCounted ==
  ASSUME TypeInv, Owned, AllCounted, NEW t \in Session, Undo(t) PROVE AllCounted'
PROOF
  <1> SUFFICES ASSUME NEW p \in Pair PROVE Counted(p)'
    BY DEF AllCounted
  <1> PICK os, ws, b, m : os = ord' /\ ws = ordW' /\ b = bal' /\ m = mem'
    OBVIOUS
  <1>1. Counted(p) /\ BalanceVersions(p) /\ None \notin Session
    BY NoneIsNobody DEF AllCounted, Owned
  <1>2. /\ \A o \in Order : /\ ws[o] = IF olock[o] = t THEN ord[o] ELSE ordW[o]
                            /\ olock'[o] = IF olock[o] = t THEN None ELSE olock[o]
        /\ m[p] = IF block[p] = t THEN bal[p] ELSE mem[p]
        /\ block'[p] = IF block[p] = t THEN None ELSE block[p]
        /\ os = ord /\ b = bal
    BY DEF Undo
  <1>3. \A o \in Order : Need[o][p[2]] > 0 /\ Holds(ord[o], p) # Holds(ordW[o], p)
                           => olock[o] # None /\ block[p] = olock[o]
    BY <1>1 DEF Counted
  <1>4. Counts(ord, bal, p) /\ Counts(ordW, mem, p)
    BY <1>1 DEF Counted
  <1>5. Counts(ws, m, p)
    <2>1. CASE block[p] = t
      <3>1. ASSUME NEW o \in Order, Need[o][p[2]] > 0 PROVE Holds(ord[o], p) = Holds(ws[o], p)
        BY <1>2, <1>3, <2>1, <3>1
      <3>2. Promised(ord, p) = Promised(ws, p)
        BY <3>1, PromisedSame
      <3> QED
        BY <1>2, <1>4, <2>1, <3>2 DEF Counts
    <2>2. CASE block[p] # t
      <3>1. ASSUME NEW o \in Order, Need[o][p[2]] > 0 PROVE Holds(ordW[o], p) = Holds(ws[o], p)
        BY <1>2, <1>3, <2>2, <3>1
      <3>2. Promised(ordW, p) = Promised(ws, p)
        BY <3>1, PromisedSame
      <3> QED
        BY <1>2, <1>4, <2>2, <3>2 DEF Counts
    <2> QED
      BY <2>1, <2>2
  <1>6. Counts(os, b, p)
    BY <1>2, <1>4
  <1>7. \A o \in Order : Need[o][p[2]] > 0 /\ Holds(os[o], p) # Holds(ws[o], p)
                           => olock'[o] # None /\ block'[p] = olock'[o]
    BY <1>1, <1>2, <1>3
  <1> QED
    BY <1>5, <1>6, <1>7, CountedNext

-------------------------------------------------------------------------------
(* Nothing is promised and nothing reserved at first.                       *)
THEOREM CountedInit == Init => AllCounted
PROOF
  <1> SUFFICES ASSUME Init, NEW p \in Pair PROVE Counted(p)
    BY DEF AllCounted
  <1>1. \A o \in Order : ord[o] = Fresh /\ ordW[o] = Fresh
    BY DEF Init
  <1>2. Promised(ord, p) = {} /\ Promised(ordW, p) = {}
    BY <1>1 DEF Promised, Fresh
  <1>3. bal[p] = Zero /\ mem[p] = Zero
    BY DEF Init
  <1>4. Counts(ord, bal, p) /\ Counts(ordW, mem, p)
    BY <1>2, <1>3, FS_EmptySet DEF Counts, Zero
  <1> QED
    BY <1>1, <1>4 DEF Counted

(* Every step keeps the count, in a state where rows are owned as they      *)
(* should be.                                                               *)
THEOREM CountedNextStep == TypeInv /\ Owned /\ AllCounted /\ [Next]_vars => AllCounted'
PROOF
  <1> SUFFICES ASSUME TypeInv, Owned, AllCounted, [Next]_vars PROVE AllCounted'
    OBVIOUS
  <1>1. ASSUME NEW t \in Request, Submit(t) PROVE AllCounted'
    BY <1>1, StartsCounted DEF Session
  <1>2. ASSUME UNCHANGED <<ord, ordW, bal, mem, olock, block>> PROVE AllCounted'
    BY <1>2, OrdersOnlyCounted
  <1>3. ASSUME NEW o \in Order, Advance(o) \/ TimeOut(o) \/ GrowsOld(o) PROVE AllCounted'
    <2>1. CASE TimeOut(o) \/ GrowsOld(o)
      BY <1>2, <2>1 DEF TimeOut, GrowsOld
    <2> QED
      BY <1>3, <2>1, AdvanceCounted
  <1>4. CASE StartMaintenance \/ ExpireNext
    <2>1. CASE StartMaintenance
      BY <1>2, <2>1 DEF StartMaintenance
    <2> QED
      BY <1>4, <2>1, ExpireCounted
  <1>5. ASSUME NEW t \in Session, Run(t) \/ Crash(t) PROVE AllCounted'
    <2>1. Raise(t) \/ Crash(t) => Undo(t)
      BY DEF Raise, Crash
    <2>2. CASE NextHold(t)
      BY <1>2, <2>2 DEF NextHold
    <2> QED
      BY <1>5, <2>1, <2>2, ChooseCounted, LockCounted, RecheckCounted, PayCounted, SettleCounted,
         PostCounted, RetryHoldsCounted, CommitCounted, UndoCounted DEF Run
  <1>6. CASE UNCHANGED vars
    BY <1>2, <1>6 DEF vars
  <1> QED
    BY <1>1, <1>3, <1>4, <1>5, <1>6 DEF Next

(* Stock is never sold twice, whatever the number of orders, warehouses,    *)
(* SKUs and sessions, the quantities and the interleaving.                  *)
THEOREM OversoldCorrect == Spec => []NeverOversold
PROOF
  <1>1. Init => AllCounted
    BY CountedInit
  <1>2. AllCounted => NeverOversold
    BY DEF AllCounted, Counted, Counts, NeverOversold
  <1>3. TypeInv /\ Owned /\ AllCounted /\ [Next]_vars => AllCounted'
    BY CountedNextStep
  <1> QED
    BY <1>1, <1>2, <1>3, InvariantOwned, PTL DEF Spec

-------------------------------------------------------------------------------
(***************************************************************************)
(* The three statuses of an order agree, and every commit is one step of   *)
(* StockPromise: OrderStock implements what its services promise.          *)
(***************************************************************************)

(* The invariant.                                                           *)

Gone == {"SHIPPED", "DELIVERED"}

(* The statuses of one version of an order agree...                         *)
Tells(x) ==
  /\ x.stock = "RESERVED" <=> x.hold = "ACTIVE"
  /\ ReservationRow(x)
  /\ x.hold = "ACTIVE" => x.wh = x.at
  /\ x.stock = "OUT_OF_STOCK" => x.wh = None
  /\ x.status \in {"ALLOCATED", "PICKING", "PACKING", "READY_TO_SHIP"} => x.hold = "ACTIVE"
  /\ x.status \in Gone <=> x.hold = "CONSUMED"
  /\ x.status \in {"FAILED", "CANCELLED"} => x.hold # "ACTIVE"

(* ... except that a paid order may still have to be served.                *)
Served(x) == x.status = "PAID" => x.stock = "OUT_OF_STOCK"

(* StockPromise counts as this module does.                                  *)
LEMMA SameCount == \A S : Promise!Cardinality(S) = Cardinality(S)
  BY DEF Promise!Cardinality, Cardinality

(* What StockPromise sees of a version of an order, and its moves.           *)
Place(x) == IF x.hold = "ACTIVE" THEN x.at ELSE None

Moved(x, y) ==
  \/ Phase(y) = Phase(x) /\ Place(y) = Place(x)
  \/ Phase(x) = "open" /\ Phase(y) = "held" /\ Place(y) \in Warehouse
  \/ Phase(x) \in {"open", "held"} /\ Phase(y) = "closed" /\ Place(y) = None
  \/ Phase(x) = "held" /\ Phase(y) = "shipped" /\ Place(y) = None

Leaves(x, y) == Phase(y) = "shipped" /\ Phase(x) # "shipped"

(* A session that looks for stock for the order it works on.                *)
Choosing(x) == x.pc = "choose" \/ Targeting(x)

(* A session that has settled the order it ships.                            *)
Shipped(x) == x.job = "ship" /\ x.pc = "commit"

Story(o) ==
  /\ Tells(ord[o]) /\ Served(ord[o])
  /\ Tells(ordW[o])
  /\ Served(ordW[o]) \/ (olock[o] \in Session /\ Choosing(tx[olock[o]]) /\ tx[olock[o]].cur = o)
  /\ Moved(ord[o], ordW[o])
  /\ Leaves(ord[o], ordW[o]) => olock[o] \in Session /\ Shipped(tx[olock[o]])

(* The units of p that the shipment of order o takes.                        *)
Shipment(o, p) == IF Holds(ord[o], p) THEN Need[o][p[2]] ELSE 0

(* What session t, at x, knows: it holds locks only while it works, it      *)
(* serves open orders, and a shipment is all its transaction does.          *)
Knows(t, x) ==
  /\ x.job = "idle" => /\ x.pc = "idle"
                       /\ \A o \in Order : olock[o] # t
                       /\ \A p \in Pair : block[p] # t
  /\ Choosing(x) => ordW[x.cur].status \in {"CREATED", "PAID"}
  /\ x.pc = "pay" \/ (Choosing(x) /\ x.job = "create_paid") => ordW[x.cur].status = "CREATED"
  /\ x.job = "retry" => \A o \in x.todo : /\ ordW[o].status \in {"CREATED", "PAID"}
                                          /\ Working(x) => x.cur # o
  /\ Settling(x) => ordW[x.cur] = ord[x.cur] /\ ordW[x.cur].status \notin Gone
  /\ Settling(x) /\ x.job = "ship" => ordW[x.cur].hold = "ACTIVE"
  /\ x.job = "ship" =>
       /\ Settling(x) \/ x.pc = "commit"
       /\ \A o, q \in Order : olock[o] = t /\ olock[q] = t => o = q
       /\ \A o \in Order, p \in Pair : olock[o] = t /\ block[p] = t =>
             mem[p].on_hand = IF x.pc = "commit" THEN bal[p].on_hand - Shipment(o, p)
                                                 ELSE bal[p].on_hand

Told == /\ \A t \in Session : Knows(t, tx[t])
        /\ \A o \in Order : Story(o)

-------------------------------------------------------------------------------
(* Steps, sessions and orders.                                              *)

(* A step that leaves session u and the rows it has locked alone.           *)
Spared(u) ==
  /\ tx'[u] = tx[u]
  /\ \A o \in Order : /\ olock'[o] = u <=> olock[o] = u
                      /\ olock[o] = u => ord'[o] = ord[o] /\ ordW'[o] = ordW[o]
  /\ \A p \in Pair : /\ block'[p] = u <=> block[p] = u
                     /\ block[p] = u => bal'[p] = bal[p] /\ mem'[p] = mem[p]

(* Knows() of the transaction after a step.                                 *)
LEMMA KnowsNext ==
  ASSUME NEW t, NEW x, tx'[t] = x, Knows(t, x)'
  PROVE  Knows(t, tx[t])'
  BY DEF Knows

(* What a session knows outlasts the steps of the others.                   *)
LEMMA KnowsSpared ==
  ASSUME TypeInv, Owned, NEW u \in Session, Knows(u, tx[u]), Spared(u)
  PROVE  Knows(u, tx[u])'
PROOF
  <1> PICK x \in Transactions : x = tx[u]
    BY Own
  <1>1. Sane(x) /\ RowsOK /\ Owns(u, x) /\ Knows(u, x) /\ x.todo \subseteq Order
    BY Own DEF Owned, Transactions
  <1>2. /\ tx'[u] = x
        /\ \A o \in Order : /\ olock'[o] = u <=> olock[o] = u
                            /\ olock[o] = u => ord'[o] = ord[o] /\ ordW'[o] = ordW[o]
        /\ \A p \in Pair : /\ block'[p] = u <=> block[p] = u
                           /\ block[p] = u => bal'[p] = bal[p] /\ mem'[p] = mem[p]
    BY DEF Spared
  <1>3. Working(x) => ord'[x.cur] = ord[x.cur] /\ ordW'[x.cur] = ordW[x.cur]
    BY <1>1, <1>2 DEF Sane, Owns
  <1>4. Choosing(x) \/ x.pc = "pay" \/ Settling(x) => Working(x)
    BY DEF Choosing, Settling, Working, Targeting
  <1>5. /\ Choosing(x) => ordW'[x.cur].status \in {"CREATED", "PAID"}
        /\ x.pc = "pay" \/ (Choosing(x) /\ x.job = "create_paid") => ordW'[x.cur].status = "CREATED"
    BY <1>1, <1>3, <1>4 DEF Knows
  <1>6. x.job = "retry" => \A o \in x.todo : /\ ordW'[o].status \in {"CREATED", "PAID"}
                                             /\ Working(x) => x.cur # o
    BY <1>1, <1>2 DEF Knows, Owns
  <1>7. /\ Settling(x) => ordW'[x.cur] = ord'[x.cur] /\ ordW'[x.cur].status \notin Gone
        /\ Settling(x) /\ x.job = "ship" => ordW'[x.cur].hold = "ACTIVE"
    BY <1>1, <1>3, <1>4 DEF Knows
  <1>8. x.job = "ship" =>
          /\ Settling(x) \/ x.pc = "commit"
          /\ \A o, q \in Order : olock'[o] = u /\ olock'[q] = u => o = q
    BY <1>1, <1>2 DEF Knows
  <1>9. ASSUME x.job = "ship", NEW o \in Order, NEW p \in Pair, olock'[o] = u, block'[p] = u
        PROVE  mem'[p].on_hand = IF x.pc = "commit" THEN bal'[p].on_hand - Shipment(o, p)'
                                                    ELSE bal'[p].on_hand
    <2>1. mem'[p] = mem[p] /\ bal'[p] = bal[p] /\ ord'[o] = ord[o] /\ olock[o] = u /\ block[p] = u
      BY <1>2, <1>9
    <2>2. Shipment(o, p)' = Shipment(o, p)
      BY <2>1 DEF Shipment
    <2> QED
      BY <1>1, <1>9, <2>1, <2>2 DEF Knows
  <1>10. x.job = "idle" => /\ x.pc = "idle"
                           /\ \A o \in Order : olock'[o] # u
                           /\ \A p \in Pair : block'[p] # u
    BY <1>1, <1>2 DEF Knows
  <1>11. Knows(u, x)'
    BY <1>5, <1>6, <1>7, <1>8, <1>9, <1>10 DEF Knows
  <1> QED
    BY <1>2, <1>11, KnowsNext

(* What a step of session t must show to keep Told.                          *)
LEMMA ToldStep ==
  ASSUME TypeInv, Owned, Told, NEW t \in Session, NEW r, tx' = [tx EXCEPT ![t] = r],
         \A u \in Session \ {t} : Spared(u), Knows(t, r)', \A o \in Order : Story(o)'
  PROVE  Told'
PROOF
  <1>1. tx'[t] = r
    BY DEF TypeInv
  <1>2. ASSUME NEW u \in Session PROVE Knows(u, tx[u])'
    <2>1. CASE u = t
      BY <1>1, <2>1, KnowsNext
    <2>2. CASE u # t
      BY <2>2, KnowsSpared DEF Told
    <2> QED
      BY <2>1, <2>2
  <1> QED
    BY <1>2 DEF Told

(* A step that writes no order, may lock some for t, and goes on choosing   *)
(* where t was choosing.                                                    *)
LEMMA StoriesKept ==
  ASSUME TypeInv, Owned, Told, NEW t \in Session, NEW r, tx' = [tx EXCEPT ![t] = r],
         UNCHANGED <<ord, ordW>>,
         \A o \in Order : olock'[o] = olock[o] \/ (olock[o] = None /\ olock'[o] = t),
         Choosing(tx[t]) => Choosing(r) /\ r.cur = tx[t].cur,
         tx[t].pc # "commit"
  PROVE  \A o \in Order : Story(o)'
PROOF
  <1> SUFFICES ASSUME NEW o \in Order PROVE Story(o)'
    OBVIOUS
  <1>1. Story(o) /\ OrderVersions(o) /\ None \notin Session
    BY NoneIsNobody DEF Told, Owned
  <1>2. tx'[t] = r /\ \A u \in Session \ {t} : tx'[u] = tx[u]
    BY DEF TypeInv
  <1>3. ord'[o] = ord[o] /\ ordW'[o] = ordW[o]
    OBVIOUS
  <1>4. CASE olock[o] = None
    <2>1. ordW[o] = ord[o]
      BY <1>1, <1>4 DEF OrderVersions
    <2>2. Served(ordW[o]) /\ ~Leaves(ord[o], ordW[o])
      BY <1>1, <2>1 DEF Story, Leaves
    <2> QED
      BY <1>1, <1>3, <2>2 DEF Story
  <1>5. CASE olock[o] = t
    <2>1. olock'[o] = t
      BY <1>1, <1>5
    <2>2. ~Leaves(ord[o], ordW[o])
      BY <1>1, <1>5 DEF Story, Shipped
    <2>3. Served(ordW[o]) \/ (Choosing(r) /\ r.cur = o)
      BY <1>1, <1>5 DEF Story
    <2> QED
      BY <1>1, <1>2, <1>3, <2>1, <2>2, <2>3 DEF Story
  <1>6. CASE olock[o] # None /\ olock[o] # t
    <2>1. olock'[o] = olock[o]
      BY <1>6
    <2>2. olock[o] \in Session => tx'[olock'[o]] = tx[olock[o]]
      BY <1>2, <1>6, <2>1
    <2>3. olock[o] \in Session
      BY <1>6 DEF TypeInv, RowsOK
    <2> QED
      BY <1>1, <1>3, <2>1, <2>2, <2>3 DEF Story
  <1> QED
    BY <1>4, <1>5, <1>6

(* A step that writes y to the order t works on.                             *)
LEMMA StoryWritten ==
  ASSUME TypeInv, Owned, Told, NEW t \in Session, NEW r, tx' = [tx EXCEPT ![t] = r],
         NEW o \in Order, NEW y, ordW' = [ordW EXCEPT ![o] = y], UNCHANGED ord,
         olock' = [olock EXCEPT ![o] = t], olock[o] \in {None, t},
         Tells(y), Served(y) \/ (Choosing(r) /\ r.cur = o), Moved(ord[o], y),
         Leaves(ord[o], y) => Shipped(r),
         Choosing(tx[t]) => tx[t].cur = o, tx[t].pc # "commit"
  PROVE  \A q \in Order : Story(q)'
PROOF
  <1> SUFFICES ASSUME NEW q \in Order PROVE Story(q)'
    OBVIOUS
  <1>1. Story(q) /\ None \notin Session
    BY NoneIsNobody DEF Told
  <1>2. tx'[t] = r /\ \A u \in Session \ {t} : tx'[u] = tx[u]
    BY DEF TypeInv
  <1>3. /\ ordW'[q] = IF q = o THEN y ELSE ordW[q]
        /\ olock'[q] = IF q = o THEN t ELSE olock[q]
        /\ ord'[q] = ord[q]
    BY DEF TypeInv, RowsOK
  <1>4. CASE q = o
    BY <1>1, <1>2, <1>3, <1>4 DEF Story
  <1>5. CASE q # o /\ olock[q] = t
    <2>1. Served(ordW[q]) /\ ~Leaves(ord[q], ordW[q])
      BY <1>1, <1>5 DEF Story, Shipped
    <2> QED
      BY <1>1, <1>3, <1>5, <2>1 DEF Story
  <1>6. CASE q # o /\ olock[q] # t
    <2>1. olock'[q] = olock[q] /\ ordW'[q] = ordW[q]
      BY <1>3, <1>6
    <2>2. olock[q] \in Session => tx'[olock'[q]] = tx[olock[q]]
      BY <1>2, <1>6, <2>1
    <2> QED
      BY <1>1, <1>3, <2>1, <2>2 DEF Story
  <1> QED
    BY <1>4, <1>5, <1>6

-------------------------------------------------------------------------------
(* What the steps write.                                                    *)

(* A version that looks the same to StockPromise is the same move.          *)
LEMMA MovedSame ==
  ASSUME NEW x, NEW y, NEW z, Moved(x, z), Phase(y) = Phase(z), Place(y) = Place(z)
  PROVE  Moved(x, y) /\ (Leaves(x, y) <=> Leaves(x, z))
  BY DEF Moved, Leaves

(* The paid order whose stock is reserved.                                   *)
LEMMA AllocatedTells ==
  ASSUME NEW z \in Orders, NEW y, y = Allocated(z), Tells(z), z.hold = "ACTIVE",
         z.status \in {"CREATED", "PAID"}
  PROVE  /\ Tells(y) /\ Served(y) /\ Phase(y) = "held" /\ Phase(z) = "held"
         /\ Place(y) = Place(z) /\ (z.status = "CREATED" => y.status = "CREATED")
PROOF
  <1>1. /\ y.stock = z.stock /\ y.hold = z.hold /\ y.at = z.at /\ y.wh = z.wh
        /\ y.status = IF z.status = "PAID" THEN "ALLOCATED" ELSE z.status
    BY DEF Allocated, Orders, OrderRecords
  <1> QED
    BY <1>1 DEF Tells, Served, Phase, Place, Gone, ReservationRow

(* The order for which there is no stock.                                    *)
LEMMA OutOfStockTells ==
  ASSUME NEW z \in Orders, NEW y, y = OutOfStock(z), Tells(z), z.hold # "ACTIVE",
         z.status \in {"CREATED", "PAID"}
  PROVE  /\ Tells(y) /\ Served(y) /\ Phase(y) = "open" /\ Phase(z) = "open"
         /\ Place(y) = Place(z) /\ y.status = z.status
PROOF
  <1>1. /\ y.stock = "OUT_OF_STOCK" /\ y.hold = z.hold /\ y.at = z.at /\ y.wh = None
        /\ y.status = z.status
    BY DEF OutOfStock, Orders, OrderRecords
  <1> QED
    BY <1>1 DEF Tells, Served, Phase, Place, Gone, ReservationRow

(* The order that has been paid.                                             *)
LEMMA PaidTells ==
  ASSUME NEW z \in Orders, NEW y, y = Paid(z), Tells(z), z.status = "CREATED"
  PROVE  /\ Tells(y) /\ Phase(y) = Phase(z) /\ Place(y) = Place(z) /\ y.status = "PAID"
         /\ Phase(z) # "shipped"
PROOF
  <1>1. /\ y.stock = z.stock /\ y.hold = z.hold /\ y.at = z.at /\ y.wh = z.wh
        /\ y.status = "PAID"
    BY DEF Paid, Orders, OrderRecords
  <1> QED
    BY <1>1 DEF Tells, Phase, Place, Gone, ReservationRow

(* The order that has just been inserted.                                    *)
LEMMA CreatedTells ==
  ASSUME NEW z \in Orders, NEW y, y = [z EXCEPT !.status = "CREATED"], Tells(z), z.status = "NEW"
  PROVE  /\ Tells(y) /\ Served(y) /\ Phase(y) = Phase(z) /\ Place(y) = Place(z)
         /\ y.status = "CREATED" /\ Phase(z) # "shipped"
PROOF
  <1>1. /\ y.stock = z.stock /\ y.hold = z.hold /\ y.at = z.at /\ y.wh = z.wh
        /\ y.status = "CREATED"
    BY DEF Orders, OrderRecords
  <1> QED
    BY <1>1 DEF Tells, Served, Phase, Place, Gone, ReservationRow

(* The order whose stock is reserved at w.                                   *)
LEMMA ReservedTells ==
  ASSUME NEW z \in Orders, NEW w \in Warehouse, NEW job, NEW y, y = Allocated(Reserved(z, w, job)),
         Tells(z), z.hold # "ACTIVE", z.status \in {"CREATED", "PAID"}
  PROVE  /\ Tells(y) /\ Served(y) /\ Phase(y) = "held" /\ Place(y) = w
         /\ Phase(z) = "open" /\ Place(z) = None /\ (z.status = "CREATED" => y.status = "CREATED")
PROOF
  <1> PICK v : v = Reserved(z, w, job)
    OBVIOUS
  <1>1. /\ v.stock = "RESERVED" /\ v.hold = "ACTIVE" /\ v.at = w /\ v.wh = w
        /\ v.status = z.status
        /\ v \in OrderRecords
    BY DEF Reserved, Orders, OrderRecords
  <1>2. /\ y.stock = v.stock /\ y.hold = v.hold /\ y.at = v.at /\ y.wh = v.wh
        /\ y.status = IF v.status = "PAID" THEN "ALLOCATED" ELSE v.status
    BY <1>1 DEF Allocated, OrderRecords
  <1>3. w # None
    BY NoneIsNobody
  <1> QED
    BY <1>1, <1>2, <1>3 DEF Tells, Served, Phase, Place, Gone, ReservationRow

(* The order whose reservations are settled.                                 *)
LEMMA SettledTells ==
  ASSUME NEW z \in Orders, NEW job, NEW y, y = Settled(z, job), Tells(z), z.status \notin Gone,
         job = "ship" => z.hold = "ACTIVE"
  PROVE  /\ Tells(y) /\ Served(y) /\ Moved(z, y) /\ (Leaves(z, y) => job = "ship")
         /\ (job = "ship" => Phase(z) = "held")
PROOF
  <1>1. /\ y.hold = IF z.hold = "ACTIVE" THEN Outcome(job) ELSE z.hold
        /\ y.stock = IF z.hold # "ACTIVE" THEN z.stock
                     ELSE IF job = "ship" THEN "CONSUMED" ELSE "RELEASED"
        /\ y.at = z.at /\ y.wh = z.wh
        /\ y.status = IF job = "ship" THEN "SHIPPED"
                      ELSE IF job = "mark_failed" THEN "FAILED" ELSE "CANCELLED"
    BY DEF Settled, Orders, OrderRecords
  <1>2. Outcome(job) \in {"CONSUMED", "EXPIRED", "RELEASED"} /\ (Outcome(job) = "CONSUMED" <=> job = "ship")
    BY DEF Outcome
  <1>3. Tells(y) /\ Served(y)
    BY <1>1, <1>2 DEF Tells, Served, Gone, ReservationRow
  <1>4. /\ Phase(y) = IF job = "ship" THEN "shipped" ELSE "closed"
        /\ Place(y) = None
    BY <1>1, <1>2, <1>3 DEF Phase, Place, Tells
  <1>5. Phase(z) = "closed" \/ Phase(z) = "held" \/ Phase(z) = "open"
    BY DEF Phase, Gone
  <1>6. Phase(z) = "closed" => Place(z) = None
    BY DEF Phase, Place, Tells, Gone
  <1>7. job = "ship" => Phase(z) = "held"
    BY DEF Phase, Tells, Gone
  <1> QED
    BY <1>3, <1>4, <1>5, <1>6, <1>7 DEF Moved, Leaves

-------------------------------------------------------------------------------
(* The steps of a transaction.                                              *)

(* Going for the best candidate, or giving up, keeps Told.                   *)
LEMMA AttemptTold ==
  ASSUME TypeInv, Owned, Told, NEW t \in Session, NEW c, Working(tx[t]),
         Choosing(tx[t]), tx[t].pc \in {"choose", "recheck"}, ordW[tx[t].cur].hold # "ACTIVE",
         Attempt(t, c), UNCHANGED <<ord, bal, mem, olock, block>>
  PROVE  Told'
PROOF
  <1> PICK x \in Transactions : x = tx[t]
    BY Own
  <1>1. Sane(x) /\ RowsOK /\ Owns(t, x) /\ Knows(t, x) /\ x.todo \subseteq Order /\ x.job \in Jobs
    BY Own DEF Owned, Told, Transactions
  <1>2. x.cur \in Order /\ olock[x.cur] = t
    BY <1>1 DEF Sane, Owns
  <1>3. PICK z \in Orders : z = ordW[x.cur]
    BY <1>1, <1>2 DEF RowsOK
  <1>4. Tells(z) /\ z.status \in {"CREATED", "PAID"} /\ Moved(ord[x.cur], z)
        /\ (x.job = "create_paid" => z.status = "CREATED") /\ x.job # "ship"
    BY <1>1, <1>2, <1>3 DEF Told, Story, Knows, Choosing, Settling, Targeting
  <1>5. CASE /\ ordW' = [ordW EXCEPT ![x.cur] = OutOfStock(@)]
             /\ tx' = [tx EXCEPT ![t] = [x EXCEPT !.pc = Continue(x.job, FALSE),
                                                  !.cand = {}, !.wh = None]]
    <2> PICK pc : pc = Continue(x.job, FALSE)
      OBVIOUS
    <2> PICK r : r = [x EXCEPT !.pc = pc, !.cand = {}, !.wh = None]
      OBVIOUS
    <2> PICK y : y = OutOfStock(z)
      OBVIOUS
    <2>1. pc \in {"pay", "next", "raise", "commit"} /\ (pc = "pay" => x.job = "create_paid")
      BY <1>1 DEF Continue
    <2>2. r.pc = pc /\ r.cur = x.cur /\ r.job = x.job /\ r.todo = x.todo
      BY DEF Transactions
    <2>3. /\ Tells(y) /\ Served(y) /\ Phase(y) = Phase(z) /\ Place(y) = Place(z)
          /\ y.status = z.status /\ Phase(z) = "open"
      BY <1>3, <1>4, OutOfStockTells
    <2>4. Moved(ord[x.cur], y) /\ ~Leaves(ord[x.cur], y)
      BY <1>4, <2>3, MovedSame DEF Leaves
    <2>5. /\ ordW' = [ordW EXCEPT ![x.cur] = y] /\ tx' = [tx EXCEPT ![t] = r]
          /\ olock' = [olock EXCEPT ![x.cur] = t]
      BY <1>1, <1>2, <1>3, <1>5 DEF RowsOK
    <2>6. \A q \in Order : Story(q)'
      <3>1. olock[x.cur] \in {None, t} /\ tx[t].pc # "commit" /\ tx[t].cur = x.cur /\ UNCHANGED ord
        BY <1>2
      <3> QED
        BY <1>2, <2>3, <2>4, <2>5, <3>1, StoryWritten
    <2>7. \A u \in Session \ {t} : Spared(u)
      BY <1>1, <1>2, <2>5 DEF Spared, RowsOK, TypeInv
    <2>8. ordW'[x.cur] = y /\ \A q \in Order : q # x.cur => ordW'[q] = ordW[q]
      BY <1>1, <1>2, <2>5 DEF RowsOK
    <2>9. Knows(t, r)'
      <3>1. /\ ~Choosing(r) /\ ~Settling(r) /\ r.job # "ship" /\ (r.pc = "pay" => y.status = "CREATED")
            /\ r.job # "idle"
        BY <1>1, <1>4, <2>1, <2>2, <2>3 DEF Choosing, Settling, Targeting, Knows
      <3>2. r.job = "retry" => \A o \in r.todo : /\ ordW'[o].status \in {"CREATED", "PAID"}
                                                 /\ x.cur # o
        BY <1>1, <1>2, <2>2, <2>8 DEF Knows
      <3> QED
        BY <2>2, <2>8, <3>1, <3>2 DEF Knows
    <2> QED
      BY <2>5, <2>6, <2>7, <2>9, ToldStep
  <1>6. ASSUME NEW w \in Warehouse, UNCHANGED ordW,
               tx' = [tx EXCEPT ![t] = [x EXCEPT !.pc = "lock", !.then = "recheck", !.wh = w,
                                                 !.want = NeededPairs(x.cur, w), !.cand = c]]
        PROVE  Told'
    <2> PICK r : r = [x EXCEPT !.pc = "lock", !.then = "recheck", !.wh = w,
                               !.want = NeededPairs(x.cur, w), !.cand = c]
      OBVIOUS
    <2>1. r.pc = "lock" /\ r.then = "recheck" /\ r.cur = x.cur /\ r.job = x.job /\ r.todo = x.todo
      BY DEF Transactions
    <2>2. tx' = [tx EXCEPT ![t] = r]
      BY <1>6
    <2>3. \A q \in Order : Story(q)'
      <3>1. Choosing(r) /\ r.cur = tx[t].cur
        BY <2>1 DEF Choosing, Targeting
      <3>2. UNCHANGED <<ord, ordW>> /\ UNCHANGED olock /\ tx[t].pc # "commit"
        BY <1>6
      <3> QED
        BY <2>2, <3>1, <3>2, StoriesKept
    <2>4. \A u \in Session \ {t} : Spared(u)
      BY <1>6, <2>2 DEF Spared, TypeInv
    <2>5. Knows(t, r)'
      BY <1>1, <1>4, <1>6, <2>1 DEF Knows, Choosing, Settling, Targeting, Working
    <2> QED
      BY <2>2, <2>3, <2>4, <2>5, ToldStep
  <1> QED
    BY <1>5, <1>6 DEF Attempt, Goto

(* The unlocked read of reserve_order() keeps Told.                          *)
LEMMA ChooseTold == ASSUME TypeInv, Owned, Told, NEW t \in Session, Choose(t) PROVE Told'
PROOF
  <1> PICK x \in Transactions : x = tx[t]
    BY Own
  <1>1. /\ Sane(x) /\ RowsOK /\ Owns(t, x) /\ Knows(t, x) /\ x.todo \subseteq Order /\ x.job \in Jobs
        /\ x.pc = "choose"
    BY Own DEF Owned, Told, Transactions, Choose
  <1>2. Working(x) /\ Choosing(x) /\ x.cur \in Order /\ olock[x.cur] = t
    BY <1>1 DEF Sane, Owns, Working, Choosing
  <1>3. PICK z \in Orders : z = ordW[x.cur]
    BY <1>1, <1>2 DEF RowsOK
  <1>4. Tells(z) /\ z.status \in {"CREATED", "PAID"} /\ Moved(ord[x.cur], z)
        /\ (x.job = "create_paid" => z.status = "CREATED") /\ x.job # "ship"
    BY <1>1, <1>2, <1>3 DEF Told, Story, Knows, Choosing, Settling, Targeting
  <1>5. UNCHANGED <<ord, bal, mem, olock, block>>
    BY DEF Choose
  <1>6. CASE /\ z.hold = "ACTIVE"
             /\ ordW' = [ordW EXCEPT ![x.cur] = Allocated(@)]
             /\ tx' = [tx EXCEPT ![t] = [x EXCEPT !.pc = Continue(x.job, TRUE)]]
    <2> PICK pc : pc = Continue(x.job, TRUE)
      OBVIOUS
    <2> PICK r : r = [x EXCEPT !.pc = pc]
      OBVIOUS
    <2> PICK y : y = Allocated(z)
      OBVIOUS
    <2>1. pc \in {"pay", "next", "raise", "commit"} /\ (pc = "pay" => x.job = "create_paid")
      BY <1>1 DEF Continue
    <2>2. r.pc = pc /\ r.cur = x.cur /\ r.job = x.job /\ r.todo = x.todo
      BY DEF Transactions
    <2>3. /\ Tells(y) /\ Served(y) /\ Phase(y) = Phase(z) /\ Place(y) = Place(z)
          /\ (z.status = "CREATED" => y.status = "CREATED") /\ Phase(z) = "held"
      BY <1>3, <1>4, <1>6, AllocatedTells
    <2>4. Moved(ord[x.cur], y) /\ ~Leaves(ord[x.cur], y)
      BY <1>4, <2>3, MovedSame DEF Leaves
    <2>5. /\ ordW' = [ordW EXCEPT ![x.cur] = y] /\ tx' = [tx EXCEPT ![t] = r]
          /\ olock' = [olock EXCEPT ![x.cur] = t]
      BY <1>1, <1>2, <1>3, <1>5, <1>6 DEF RowsOK
    <2>6. \A q \in Order : Story(q)'
      BY <1>1, <1>2, <1>5, <2>3, <2>4, <2>5, StoryWritten
    <2>7. \A u \in Session \ {t} : Spared(u)
      BY <1>1, <1>2, <1>5, <2>5 DEF Spared, RowsOK, TypeInv
    <2>8. ordW'[x.cur] = y /\ \A q \in Order : q # x.cur => ordW'[q] = ordW[q]
      BY <1>1, <1>2, <2>5 DEF RowsOK
    <2>9. Knows(t, r)'
      <3>1. /\ ~Choosing(r) /\ ~Settling(r) /\ r.job # "ship" /\ (r.pc = "pay" => y.status = "CREATED")
            /\ r.job # "idle"
        BY <1>1, <1>4, <2>1, <2>2, <2>3 DEF Choosing, Settling, Targeting, Knows
      <3>2. r.job = "retry" => \A o \in r.todo : /\ ordW'[o].status \in {"CREATED", "PAID"}
                                                 /\ x.cur # o
        BY <1>1, <1>2, <2>2, <2>8 DEF Knows
      <3> QED
        BY <2>2, <2>8, <3>1, <3>2 DEF Knows
    <2> QED
      BY <2>5, <2>6, <2>7, <2>9, ToldStep
  <1>7. CASE z.hold # "ACTIVE" /\ Attempt(t, Candidates(t, x.cur))
    BY <1>1, <1>2, <1>3, <1>5, <1>7, AttemptTold
  <1> QED
    BY <1>3, <1>6, <1>7 DEF Choose, Goto

(* The locked recheck of reserve_order() keeps Told.                         *)
LEMMA RecheckTold == ASSUME TypeInv, Owned, Told, NEW t \in Session, Recheck(t) PROVE Told'
PROOF
  <1> PICK x \in Transactions : x = tx[t]
    BY Own
  <1>1. /\ Sane(x) /\ RowsOK /\ Owns(t, x) /\ Knows(t, x) /\ x.todo \subseteq Order /\ x.job \in Jobs
        /\ x.pc = "recheck"
    BY Own DEF Owned, Told, Transactions, Recheck
  <1>2. /\ Working(x) /\ Targeting(x) /\ Choosing(x) /\ x.cur \in Order /\ x.wh \in Warehouse
        /\ olock[x.cur] = t /\ ordW[x.cur].hold # "ACTIVE"
        /\ \A p \in NeededPairs(x.cur, x.wh) : block[p] = t
    BY <1>1 DEF Sane, Owns, Working, Choosing, Targeting, Has
  <1>3. PICK z \in Orders : z = ordW[x.cur]
    BY <1>1, <1>2 DEF RowsOK
  <1>4. Tells(z) /\ z.status \in {"CREATED", "PAID"} /\ Moved(ord[x.cur], z)
        /\ (x.job = "create_paid" => z.status = "CREATED") /\ x.job # "ship"
    BY <1>1, <1>2, <1>3 DEF Told, Story, Knows, Choosing, Settling, Targeting
  <1>5. UNCHANGED <<ord, bal, olock, block>>
    BY DEF Recheck
  <1> DEFINE d == [p \in NeededPairs(x.cur, x.wh) |-> Reserving(Need[x.cur][p[2]])]
  <1>6. CASE /\ mem' = Posted(mem, d)
             /\ ordW' = [ordW EXCEPT ![x.cur] = Allocated(Reserved(@, x.wh, x.job))]
             /\ tx' = [tx EXCEPT ![t] = [x EXCEPT !.pc = Continue(x.job, TRUE),
                                                  !.cand = {}, !.wh = None]]
    <2> PICK pc : pc = Continue(x.job, TRUE)
      OBVIOUS
    <2> PICK r : r = [x EXCEPT !.pc = pc, !.cand = {}, !.wh = None]
      OBVIOUS
    <2> PICK y : y = Allocated(Reserved(z, x.wh, x.job))
      OBVIOUS
    <2>1. pc \in {"pay", "next", "raise", "commit"} /\ (pc = "pay" => x.job = "create_paid")
      BY <1>1 DEF Continue
    <2>2. r.pc = pc /\ r.cur = x.cur /\ r.job = x.job /\ r.todo = x.todo
      BY DEF Transactions
    <2>3. /\ Tells(y) /\ Served(y) /\ Phase(y) = "held" /\ Place(y) = x.wh
          /\ Phase(z) = "open" /\ Place(z) = None /\ (z.status = "CREATED" => y.status = "CREATED")
      BY <1>2, <1>3, <1>4, ReservedTells
    <2>4. Moved(ord[x.cur], y) /\ ~Leaves(ord[x.cur], y)
      BY <1>2, <1>4, <2>3 DEF Moved, Leaves
    <2>5. /\ ordW' = [ordW EXCEPT ![x.cur] = y] /\ tx' = [tx EXCEPT ![t] = r]
          /\ olock' = [olock EXCEPT ![x.cur] = t]
      BY <1>1, <1>2, <1>3, <1>5, <1>6 DEF RowsOK
    <2>6. \A q \in Order : Story(q)'
      BY <1>1, <1>2, <1>5, <2>3, <2>4, <2>5, StoryWritten
    <2>7. \A p \in Pair : block[p] # t => mem'[p] = mem[p]
      BY <1>2, <1>6 DEF Posted
    <2>8. \A u \in Session \ {t} : Spared(u)
      BY <1>1, <1>2, <1>5, <2>5, <2>7 DEF Spared, RowsOK, TypeInv
    <2>9. ordW'[x.cur] = y /\ \A q \in Order : q # x.cur => ordW'[q] = ordW[q]
      BY <1>1, <1>2, <2>5 DEF RowsOK
    <2>10. Knows(t, r)'
      <3>1. /\ ~Choosing(r) /\ ~Settling(r) /\ r.job # "ship" /\ (r.pc = "pay" => y.status = "CREATED")
            /\ r.job # "idle"
        BY <1>1, <1>4, <2>1, <2>2, <2>3 DEF Choosing, Settling, Targeting, Knows
      <3>2. r.job = "retry" => \A o \in r.todo : /\ ordW'[o].status \in {"CREATED", "PAID"}
                                                 /\ x.cur # o
        BY <1>1, <1>2, <2>2, <2>9 DEF Knows
      <3> QED
        BY <2>2, <2>9, <3>1, <3>2 DEF Knows
    <2> QED
      BY <2>5, <2>6, <2>8, <2>10, ToldStep
  <1>7. CASE Attempt(t, Without(x.cand, x.wh)) /\ UNCHANGED mem
    BY <1>1, <1>2, <1>3, <1>5, <1>7, AttemptTold
  <1> QED
    BY <1>6, <1>7 DEF Recheck, Goto

(* A row lock keeps Told: the balance it reads is the one the session had.   *)
LEMMA LockTold == ASSUME TypeInv, Owned, Told, NEW t \in Session, Lock(t) PROVE Told'
PROOF
  <1> PICK x \in Transactions : x = tx[t]
    BY Own
  <1>1. /\ Sane(x) /\ RowsOK /\ Owns(t, x) /\ Knows(t, x) /\ x.pc = "lock" /\ None \notin Session
        /\ x.want \subseteq Pair
    BY Own, NoneIsNobody DEF Owned, Told, Lock, Transactions
  <1>2. PICK p \in x.want :
          /\ block[p] \in {None, t}
          /\ block' = [block EXCEPT ![p] = t]
          /\ mem' = [mem EXCEPT ![p] = row[p]]
          /\ tx' = [tx EXCEPT ![t] = [x EXCEPT !.want = @ \ {p},
                                               !.pc = IF x.want = {p} THEN x.then ELSE "lock"]]
    BY DEF Lock, Goto
  <1>3. UNCHANGED <<ord, ordW, bal, olock>>
    BY DEF Lock
  <1> PICK pc : pc = IF x.want = {p} THEN x.then ELSE "lock"
    OBVIOUS
  <1> PICK r : r = [x EXCEPT !.want = @ \ {p}, !.pc = pc]
    OBVIOUS
  <1>4. /\ r.pc = pc /\ r.cur = x.cur /\ r.then = x.then /\ r.job = x.job /\ r.todo = x.todo
        /\ tx' = [tx EXCEPT ![t] = r] /\ x.then \in {"idle", "recheck", "settle", "apply"}
    BY <1>2 DEF Transactions
  <1>5. /\ Choosing(r) <=> Choosing(x)
        /\ Settling(r) <=> Settling(x)
        /\ Working(r) => Working(x)
        /\ r.pc # "pay" /\ r.pc # "commit"
    BY <1>1, <1>4 DEF Choosing, Settling, Targeting, Working
  <1>6. p \in Pair /\ mem'[p] = mem[p] /\ (block[p] # t => mem[p] = bal[p])
    <2>1. BalanceVersions(p)
      BY <1>1 DEF Owned
    <2>2. CASE block[p] = None
      BY <1>1, <1>2, <2>1, <2>2 DEF BalanceVersions, RowsOK
    <2>3. CASE block[p] = t
      BY <1>1, <1>2, <2>1, <2>3 DEF BalanceVersions, RowsOK
    <2> QED
      BY <1>1, <1>2, <2>2, <2>3
  <1>7. \A q \in Pair : /\ mem'[q] = mem[q]
                        /\ block'[q] = IF q = p THEN t ELSE block[q]
    BY <1>1, <1>2, <1>6 DEF RowsOK
  <1>8. \A q \in Order : Story(q)'
    BY <1>1, <1>3, <1>4, <1>5, StoriesKept
  <1>9. \A u \in Session \ {t} : Spared(u)
    BY <1>1, <1>2, <1>3, <1>4, <1>7 DEF Spared, TypeInv
  <1>10. ASSUME x.job = "ship"
         PROVE  /\ Settling(r)
                /\ \A o, q \in Order : olock'[o] = t /\ olock'[q] = t => o = q
                /\ \A o \in Order, q \in Pair : olock'[o] = t /\ block'[q] = t =>
                      mem'[q].on_hand = bal'[q].on_hand
    <2>1. Settling(x)
      BY <1>1, <1>10 DEF Knows
    <2>2. \A o \in Order, q \in Pair : olock[o] = t /\ block[q] = t =>
                      mem[q].on_hand = bal[q].on_hand
      BY <1>1, <1>10 DEF Knows
    <2>3. \A o, q \in Order : olock[o] = t /\ olock[q] = t => o = q
      BY <1>1, <1>10 DEF Knows
    <2> QED
      BY <1>3, <1>5, <1>6, <1>7, <2>1, <2>2, <2>3
  <1>11. Knows(t, r)'
    <2>1. /\ Choosing(r) => ordW'[r.cur].status \in {"CREATED", "PAID"}
          /\ Choosing(r) /\ r.job = "create_paid" => ordW'[r.cur].status = "CREATED"
      BY <1>1, <1>3, <1>4, <1>5 DEF Knows
    <2>2. r.job = "retry" => \A o \in r.todo : /\ ordW'[o].status \in {"CREATED", "PAID"}
                                               /\ Working(r) => r.cur # o
      BY <1>1, <1>3, <1>4, <1>5 DEF Knows
    <2>3. /\ Settling(r) => ordW'[r.cur] = ord'[r.cur] /\ ordW'[r.cur].status \notin Gone
          /\ Settling(r) /\ r.job = "ship" => ordW'[r.cur].hold = "ACTIVE"
      BY <1>1, <1>3, <1>4, <1>5 DEF Knows
    <2>4. r.job # "idle"
      BY <1>1, <1>4 DEF Knows
    <2> QED
      BY <1>4, <1>5, <1>10, <2>1, <2>2, <2>3, <2>4 DEF Knows
  <1> QED
    BY <1>4, <1>8, <1>9, <1>11, ToldStep

(* A session without a transaction knows nothing, and has locked nothing.   *)
LEMMA IdleKnows ==
  ASSUME TypeInv, Told, NEW t \in Session, tx[t] = Idle
  PROVE  (\A o \in Order : olock[o] # t) /\ (\A p \in Pair : block[p] # t)
PROOF
  <1>1. Idle.job = "idle" /\ Knows(t, Idle)
    BY DEF Told, Idle
  <1> QED
    BY <1>1 DEF Knows

(* A request that locks order o, writes y to it and goes on to reserve.     *)
LEMMA StartTold ==
  ASSUME TypeInv, Owned, Told, NEW t \in Session, NEW o \in Order, NEW job, NEW y, NEW r,
         job \notin {"retry", "ship", "idle"}, tx[t] = Idle, olock[o] = None,
         r = [Idle EXCEPT !.job = job, !.pc = "choose", !.cur = o], tx' = [tx EXCEPT ![t] = r],
         olock' = [olock EXCEPT ![o] = t], ordW' = [ordW EXCEPT ![o] = y],
         Tells(y), Phase(y) = Phase(ord[o]), Place(y) = Place(ord[o]),
         y.status \in {"CREATED", "PAID"}, job = "create_paid" => y.status = "CREATED",
         UNCHANGED <<ord, bal, mem, block>>
  PROVE  Told'
PROOF
  <1>1. r.job = job /\ r.pc = "choose" /\ r.cur = o /\ tx[t].pc = "idle"
    BY DEF Idle
  <1>2. None \notin Session /\ RowsOK
    BY NoneIsNobody DEF TypeInv
  <1>3. Choosing(r) /\ ~Settling(r) /\ ~Choosing(tx[t])
    BY <1>1 DEF Choosing, Settling, Targeting
  <1>4. Moved(ord[o], y) /\ ~Leaves(ord[o], y)
    BY DEF Moved, Leaves
  <1>5. \A q \in Order : Story(q)'
    BY <1>1, <1>3, <1>4, StoryWritten
  <1>6. \A u \in Session \ {t} : Spared(u)
    BY <1>2 DEF Spared, TypeInv, RowsOK
  <1>7. ordW'[o] = y
    BY <1>2 DEF RowsOK
  <1>8. Knows(t, r)'
    BY <1>1, <1>3, <1>7 DEF Knows
  <1> QED
    BY <1>5, <1>6, <1>8, ToldStep

(* POST /orders keeps Told.                                                  *)
LEMMA CreateTold ==
  ASSUME TypeInv, Owned, Told, NEW t \in Session, NEW paid \in BOOLEAN, StartCreate(t, paid)
  PROVE  Told'
PROOF
  <1> PICK job : job = IF paid THEN "create_paid" ELSE "create"
    OBVIOUS
  <1> PICK o \in Order :
          /\ ord[o].status = "NEW" /\ olock[o] = None
          /\ olock' = [olock EXCEPT ![o] = t]
          /\ ordW' = [ordW EXCEPT ![o].status = "CREATED"]
          /\ tx[t] = Idle
          /\ tx' = [tx EXCEPT ![t] = [Idle EXCEPT !.job = job, !.pc = "choose", !.cur = o]]
          /\ UNCHANGED <<ord, bal, mem, block>>
    BY DEF StartCreate, Begin
  <1>1. Story(o) /\ ordW[o] = ord[o] /\ RowsOK
    BY DEF TypeInv, Owned, OrderVersions, Told
  <1> PICK z \in Orders : z = ord[o]
    BY <1>1 DEF RowsOK
  <1> PICK y : y = [z EXCEPT !.status = "CREATED"]
    OBVIOUS
  <1>2. ordW' = [ordW EXCEPT ![o] = y]
    BY <1>1
  <1>3. Tells(y) /\ Phase(y) = Phase(z) /\ Place(y) = Place(z) /\ y.status = "CREATED"
    BY <1>1, CreatedTells DEF Story
  <1>4. job \notin {"retry", "ship", "idle"}
    OBVIOUS
  <1> QED
    BY <1>2, <1>3, <1>4, StartTold

(* The actions that reserve keep Told.                                       *)
LEMMA ReservingTold ==
  ASSUME TypeInv, Owned, Told, NEW t \in Session, NEW o \in Order, NEW a \in ReservingActions,
         StartReserving(t, o, a)
  PROVE  Told'
PROOF
  <1>1. /\ ord[o].status \in From(a) /\ olock[o] = None
        /\ olock' = [olock EXCEPT ![o] = t]
        /\ ordW' = [ordW EXCEPT ![o] = IF a = "mark_paid" THEN Paid(@) ELSE @]
        /\ tx[t] = Idle
        /\ tx' = [tx EXCEPT ![t] = [Idle EXCEPT !.job = a, !.pc = "choose", !.cur = o]]
        /\ UNCHANGED <<ord, bal, mem, block>>
    BY DEF StartReserving, Begin
  <1>2. Story(o) /\ ordW[o] = ord[o] /\ RowsOK
    BY <1>1 DEF TypeInv, Owned, OrderVersions, Told
  <1> PICK z \in Orders : z = ord[o]
    BY <1>2 DEF RowsOK
  <1> PICK y : y = IF a = "mark_paid" THEN Paid(z) ELSE z
    OBVIOUS
  <1>3. ordW' = [ordW EXCEPT ![o] = y]
    BY <1>1, <1>2
  <1>4. z.status \in {"CREATED", "PAID"} /\ (a = "mark_paid" => z.status = "CREATED")
    BY <1>1 DEF From, ReservingActions
  <1>5. Tells(y) /\ Phase(y) = Phase(z) /\ Place(y) = Place(z) /\ y.status \in {"CREATED", "PAID"}
    BY <1>2, <1>4, PaidTells DEF Story
  <1>6. a \notin {"retry", "ship", "idle", "create_paid"}
    BY DEF ReservingActions
  <1> QED
    BY <1>1, <1>3, <1>5, <1>6, StartTold

(* The payment of a new order keeps Told.                                    *)
LEMMA PayTold == ASSUME TypeInv, Owned, Told, NEW t \in Session, Pay(t) PROVE Told'
PROOF
  <1> PICK x \in Transactions : x = tx[t]
    BY Own
  <1> PICK r : r = [x EXCEPT !.job = "mark_paid", !.pc = "choose"]
    OBVIOUS
  <1>1. Sane(x) /\ RowsOK /\ Owns(t, x) /\ Knows(t, x)
    BY Own DEF Owned, Told
  <1>2. /\ x.pc = "pay"
        /\ ordW' = [ordW EXCEPT ![x.cur] = Paid(@)]
        /\ tx' = [tx EXCEPT ![t] = r]
        /\ UNCHANGED <<ord, bal, mem, olock, block>>
    BY DEF Pay, Goto
  <1>3. x.cur \in Order /\ olock[x.cur] = t /\ Working(x)
    BY <1>1, <1>2 DEF Sane, Owns, Working
  <1> PICK z \in Orders : z = ordW[x.cur]
    BY <1>1, <1>3 DEF RowsOK
  <1> PICK y : y = Paid(z)
    OBVIOUS
  <1>4. Tells(z) /\ z.status = "CREATED" /\ Moved(ord[x.cur], z)
    BY <1>1, <1>2, <1>3 DEF Told, Story, Knows
  <1>5. r.job = "mark_paid" /\ r.pc = "choose" /\ r.cur = x.cur
    BY DEF Transactions
  <1>6. Tells(y) /\ Phase(y) = Phase(z) /\ Place(y) = Place(z) /\ y.status = "PAID" /\ Phase(z) # "shipped"
    BY <1>4, PaidTells
  <1>7. Moved(ord[x.cur], y) /\ ~Leaves(ord[x.cur], y)
    BY <1>4, <1>6, MovedSame DEF Leaves
  <1>8. /\ ordW' = [ordW EXCEPT ![x.cur] = y] /\ olock' = [olock EXCEPT ![x.cur] = t]
    BY <1>1, <1>2, <1>3 DEF RowsOK
  <1>9. Choosing(r) /\ ~Settling(r) /\ ~Choosing(x)
    BY <1>2, <1>5 DEF Choosing, Settling, Targeting
  <1>10. \A q \in Order : Story(q)'
    <2>1. olock[x.cur] \in {None, t} /\ tx[t].pc # "commit" /\ ~Choosing(tx[t]) /\ UNCHANGED ord
      BY <1>2, <1>3, <1>9
    <2>2. tx' = [tx EXCEPT ![t] = r]
      BY <1>2
    <2>3. /\ Tells(y) /\ (Served(y) \/ (Choosing(r) /\ r.cur = x.cur))
          /\ Moved(ord[x.cur], y) /\ (Leaves(ord[x.cur], y) => Shipped(r))
      BY <1>5, <1>6, <1>7, <1>9
    <2> QED
      BY <1>3, <1>8, <2>1, <2>2, <2>3, StoryWritten
  <1>11. \A u \in Session \ {t} : Spared(u)
    BY <1>1, <1>2, <1>3, <1>8 DEF Spared, RowsOK, TypeInv
  <1>12. ordW'[x.cur] = y
    BY <1>1, <1>3, <1>8 DEF RowsOK
  <1>13. Knows(t, r)'
    BY <1>5, <1>6, <1>9, <1>12 DEF Knows
  <1> QED
    BY <1>2, <1>10, <1>11, <1>13, ToldStep

(* A step to settle an order: StoriesKept and what the session knows.       *)
LEMMA ToSettleKnows ==
  ASSUME NEW x \in Transactions, NEW t, NEW o \in Order, NEW r, r = ToSettle(x, o),
         ordW' = ordW, ord' = ord, ordW[o] = ord[o], ordW[o].status \notin Gone,
         x.job \notin {"retry", "idle"},
         x.job = "ship" =>
           /\ ordW[o].hold = "ACTIVE"
           /\ \A q \in Order : olock'[q] = t => q = o
           /\ \A p \in Pair : block'[p] # t
  PROVE  Knows(t, r)' /\ ~Choosing(r) /\ r.pc # "commit"
PROOF
  <1>1. /\ r.cur = o /\ r.job = x.job /\ r.todo = x.todo /\ Settling(r) /\ ~Choosing(r)
        /\ r.pc # "pay" /\ r.pc # "commit"
    <2>1. CASE ordW[o].hold = "ACTIVE"
      <3>1. r = [x EXCEPT !.cur = o, !.pc = "lock", !.then = "settle", !.want = HeldPairs(o)]
        BY <2>1 DEF ToSettle
      <3> QED
        BY <3>1 DEF Transactions, Settling, Choosing, Targeting
    <2>2. CASE ordW[o].hold # "ACTIVE"
      <3>1. r = [x EXCEPT !.cur = o, !.pc = "settle"]
        BY <2>2 DEF ToSettle
      <3> QED
        BY <3>1 DEF Transactions, Settling, Choosing, Targeting
    <2> QED
      BY <2>1, <2>2
  <1> QED
    BY <1>1 DEF Knows

(* The actions that settle keep Told.                                        *)
LEMMA SettlingTold ==
  ASSUME TypeInv, Owned, Told, NEW t \in Session, NEW o \in Order, NEW a \in SettlingActions,
         StartSettling(t, o, a)
  PROVE  Told'
PROOF
  <1> PICK x : x = [Idle EXCEPT !.job = a]
    OBVIOUS
  <1> PICK r : r = ToSettle(x, o)
    OBVIOUS
  <1>1. /\ ord[o].status \in From(a) /\ olock[o] = None
        /\ a = "ship" => ord[o].stock = "RESERVED"
        /\ olock' = [olock EXCEPT ![o] = t]
        /\ tx[t] = Idle /\ tx' = [tx EXCEPT ![t] = r]
        /\ UNCHANGED <<ord, ordW, bal, mem, block>>
    BY DEF StartSettling, Begin
  <1>2. Story(o) /\ ordW[o] = ord[o] /\ RowsOK /\ None \notin Session
    BY <1>1, NoneIsNobody DEF TypeInv, Owned, OrderVersions, Told
  <1>3. a \in Jobs /\ a \notin {"retry", "idle"} /\ ord[o].status \notin Gone
    BY <1>1 DEF Jobs, SettlingActions, From, Gone
  <1>4. x \in Transactions /\ x.job = a
    BY <1>3, IdleType DEF Transactions
  <1>5. a = "ship" => ord[o].hold = "ACTIVE"
    BY <1>1, <1>2 DEF Story, Tells
  <1>6. /\ \A q \in Order : olock'[q] = t => q = o
        /\ \A p \in Pair : block'[p] # t
    BY <1>1, <1>2, IdleKnows DEF RowsOK
  <1>7. Knows(t, r)' /\ ~Choosing(r)
    BY <1>1, <1>2, <1>3, <1>4, <1>5, <1>6, ToSettleKnows
  <1>8. tx[t].pc = "idle" /\ ~Choosing(tx[t])
    BY <1>1 DEF Idle, Choosing, Targeting
  <1>9. \A q \in Order : olock'[q] = olock[q] \/ (olock[q] = None /\ olock'[q] = t)
    BY <1>1, <1>2 DEF RowsOK
  <1>10. \A q \in Order : Story(q)'
    BY <1>1, <1>8, <1>9, StoriesKept
  <1>11. \A u \in Session \ {t} : Spared(u)
    BY <1>1, <1>2 DEF Spared, TypeInv, RowsOK
  <1> QED
    BY <1>1, <1>7, <1>10, <1>11, ToldStep

(* The physical units of a balance after an entry.                           *)
LEMMA PlusOnHand ==
  ASSUME NEW b, NEW d PROVE Plus(b, d).on_hand = b.on_hand + d.on_hand
  BY DEF Plus

(* Settling keeps Told: what is shipped is what the committed order holds.   *)
LEMMA SettleTold == ASSUME TypeInv, Owned, Told, NEW t \in Session, Settle(t) PROVE Told'
PROOF
  <1> PICK x \in Transactions : x = tx[t]
    BY Own
  <1> PICK d : d = [p \in HeldPairs(x.cur) |->
                      IF x.job = "ship" THEN Shipping(Need[x.cur][p[2]])
                                        ELSE Releasing(Need[x.cur][p[2]])]
    OBVIOUS
  <1> PICK r : r = [x EXCEPT !.pc = IF x.job = "expire" THEN "expire" ELSE "commit", !.cur = None]
    OBVIOUS
  <1>1. /\ Sane(x) /\ RowsOK /\ Owns(t, x) /\ Knows(t, x) /\ x.todo \subseteq Order /\ x.pc = "settle"
        /\ Settling(x) /\ Working(x) /\ ~Choosing(x)
    BY Own DEF Owned, Told, Transactions, Settle, Settling, Working, Choosing, Targeting
  <1>2. x.cur \in Order /\ olock[x.cur] = t /\ \A p \in HeldPairs(x.cur) : block[p] = t
    BY <1>1 DEF Sane, Owns, Has
  <1> PICK z \in Orders : z = ordW[x.cur]
    BY <1>1, <1>2 DEF RowsOK
  <1> PICK y : y = Settled(z, x.job)
    OBVIOUS
  <1>3. /\ mem' = Posted(mem, d) /\ ordW' = [ordW EXCEPT ![x.cur] = y]
        /\ tx' = [tx EXCEPT ![t] = r] /\ UNCHANGED <<ord, bal, olock, block>>
    BY DEF Settle, Goto
  <1>4. Tells(z) /\ z = ord[x.cur] /\ z.status \notin Gone /\ (x.job = "ship" => z.hold = "ACTIVE")
    BY <1>1, <1>2 DEF Told, Story, Knows
  <1>5. Tells(y) /\ Served(y) /\ Moved(z, y) /\ (Leaves(z, y) => x.job = "ship")
    BY <1>4, SettledTells
  <1>6. /\ r.job = x.job /\ r.todo = x.todo
        /\ r.pc = IF x.job = "expire" THEN "expire" ELSE "commit"
    BY DEF Transactions
  <1>7. ~Choosing(r) /\ ~Settling(r) /\ ~Working(r) /\ r.pc # "pay" /\ (x.job = "ship" => Shipped(r))
    BY <1>6 DEF Choosing, Settling, Working, Targeting, Shipped
  <1>8. \A q \in Order : Story(q)'
    <2>1. /\ olock' = [olock EXCEPT ![x.cur] = t] /\ olock[x.cur] \in {None, t}
          /\ ~Choosing(tx[t]) /\ tx[t].pc # "commit" /\ UNCHANGED ord
      BY <1>1, <1>2, <1>3 DEF RowsOK
    <2>2. Moved(ord[x.cur], y) /\ (Leaves(ord[x.cur], y) => Shipped(r))
      BY <1>4, <1>5, <1>7
    <2>3. tx' = [tx EXCEPT ![t] = r] /\ ordW' = [ordW EXCEPT ![x.cur] = y]
      BY <1>3
    <2> QED
      BY <1>2, <1>5, <2>1, <2>2, <2>3, StoryWritten
  <1>9. \A p \in Pair : mem'[p] = IF p \in HeldPairs(x.cur) THEN Plus(mem[p], d[p]) ELSE mem[p]
    BY <1>3 DEF Posted
  <1>10. \A u \in Session \ {t} : Spared(u)
    BY <1>1, <1>2, <1>3, <1>9 DEF Spared, RowsOK, TypeInv
  <1>11. ASSUME x.job = "ship", NEW o \in Order, NEW p \in Pair, olock[o] = t, block[p] = t
         PROVE  mem'[p].on_hand = bal[p].on_hand - Shipment(o, p)
    <2>1. o = x.cur /\ mem[p].on_hand = bal[p].on_hand
      BY <1>1, <1>2, <1>11 DEF Knows
    <2>2. Need[o][p[2]] \in Nat /\ bal[p].on_hand \in Nat
      BY <1>1, ConstantsAssumption DEF Pair, RowsOK, Balances
    <2>3. p \in HeldPairs(x.cur) <=> Holds(z, p) /\ Need[o][p[2]] > 0
      BY <1>4, <1>11, <2>1 DEF HeldPairs, NeededPairs, NeededSkus, Holds, Pair
    <2>4. Shipment(o, p) = IF Holds(z, p) THEN Need[o][p[2]] ELSE 0
      BY <1>4, <2>1 DEF Shipment
    <2>5. CASE p \in HeldPairs(x.cur)
      <3>1. d[p].on_hand = -Need[o][p[2]]
        BY <1>11, <2>1, <2>5 DEF Shipping
      <3>2. mem'[p] = Plus(mem[p], d[p])
        BY <1>9, <2>5
      <3>3. mem'[p].on_hand = mem[p].on_hand + d[p].on_hand
        <4>1. PICK b, e : b = mem[p] /\ e = d[p]
          OBVIOUS
        <4>2. Plus(b, e).on_hand = b.on_hand + e.on_hand
          BY ONLY PlusOnHand
        <4>3. mem'[p] = Plus(b, e)
          BY <3>2, <4>1
        <4> QED
          BY ONLY <4>1, <4>2, <4>3
      <3> QED
        BY <2>1, <2>2, <2>3, <2>4, <2>5, <3>1, <3>3
    <2>6. CASE p \notin HeldPairs(x.cur)
      BY <1>9, <2>1, <2>2, <2>3, <2>4, <2>6
    <2> QED
      BY <2>5, <2>6
  <1>12. Knows(t, r)'
    <2>1. \A q \in Order : q # x.cur => ordW'[q] = ordW[q]
      BY <1>1, <1>2, <1>3 DEF RowsOK
    <2>2. r.job = "retry" => \A o \in r.todo : ordW'[o].status \in {"CREATED", "PAID"}
      BY <1>1, <1>6, <2>1 DEF Knows
    <2>3. x.job # "idle"
      BY <1>1 DEF Knows
    <2>4. \A o \in Order, p \in Pair : Shipment(o, p)' = Shipment(o, p)
      BY <1>3 DEF Shipment
    <2>5. r.job = "ship" =>
            /\ r.pc = "commit"
            /\ \A o, q \in Order : olock'[o] = t /\ olock'[q] = t => o = q
            /\ \A o \in Order, p \in Pair : olock'[o] = t /\ block'[p] = t =>
                  mem'[p].on_hand = bal'[p].on_hand - Shipment(o, p)'
      BY <1>1, <1>3, <1>6, <1>11, <2>4 DEF Knows
    <2> QED
      BY <1>6, <1>7, <2>2, <2>3, <2>5 DEF Knows
  <1> QED
    BY <1>3, <1>8, <1>10, <1>12, ToldStep

(* A step that writes no row, and may lock orders for t.                     *)
LEMMA MoveTold ==
  ASSUME TypeInv, Owned, Told, NEW t \in Session, NEW r, tx' = [tx EXCEPT ![t] = r],
         UNCHANGED <<ord, ordW, bal, mem, block>>,
         \A o \in Order : olock'[o] = olock[o] \/ (olock[o] = None /\ olock'[o] = t),
         ~Choosing(tx[t]), tx[t].pc # "commit", Knows(t, r)'
  PROVE  Told'
PROOF
  <1>1. \A o \in Order : Story(o)'
    BY StoriesKept
  <1>2. \A u \in Session \ {t} : Spared(u)
    BY NoneIsNobody DEF Spared, TypeInv
  <1> QED
    BY <1>1, <1>2, ToldStep

(* A receipt or an adjustment that starts keeps Told.                        *)
LEMMA EntryTold ==
  ASSUME TypeInv, Owned, Told, NEW t \in Session,
         \/ \E ps \in SUBSET Pair : StartReceipt(t, ps)
         \/ \E p \in Pair : StartAdjust(t, p)
  PROVE  Told'
PROOF
  <1>0. \E job \in {"receipt", "adjust"} : \E want, lines :
          /\ tx[t] = Idle
          /\ tx' = [tx EXCEPT ![t] = [Idle EXCEPT !.job = job, !.pc = "lock", !.then = "apply",
                                                  !.want = want, !.lines = lines]]
          /\ UNCHANGED <<ord, ordW, bal, mem, olock, block>>
    <2>1. CASE \E ps \in SUBSET Pair : StartReceipt(t, ps)
      BY <2>1 DEF StartReceipt, Begin
    <2>2. CASE \E p \in Pair : StartAdjust(t, p)
      BY <2>2 DEF StartAdjust, Begin
    <2> QED
      BY <2>1, <2>2
  <1>j. PICK job \in {"receipt", "adjust"} : \E want, lines :
          /\ tx[t] = Idle
          /\ tx' = [tx EXCEPT ![t] = [Idle EXCEPT !.job = job, !.pc = "lock", !.then = "apply",
                                                  !.want = want, !.lines = lines]]
          /\ UNCHANGED <<ord, ordW, bal, mem, olock, block>>
    BY <1>0
  <1>1. PICK want, lines :
          /\ tx[t] = Idle
          /\ tx' = [tx EXCEPT ![t] = [Idle EXCEPT !.job = job, !.pc = "lock", !.then = "apply",
                                                  !.want = want, !.lines = lines]]
          /\ UNCHANGED <<ord, ordW, bal, mem, olock, block>>
    BY <1>j
  <1> PICK r : r = [Idle EXCEPT !.job = job, !.pc = "lock", !.then = "apply",
                                !.want = want, !.lines = lines]
    OBVIOUS
  <1>2. r.job = job /\ r.pc = "lock" /\ r.then = "apply" /\ tx[t].pc = "idle"
    BY <1>1 DEF Idle
  <1>3. ~Choosing(tx[t]) /\ ~Choosing(r) /\ ~Settling(r)
    BY <1>2 DEF Choosing, Settling, Targeting
  <1>4. Knows(t, r)'
    BY <1>2, <1>3 DEF Knows
  <1> QED
    BY <1>1, <1>2, <1>3, <1>4, MoveTold

(* Posting stock lines keeps Told.                                           *)
LEMMA PostTold == ASSUME TypeInv, Owned, Told, NEW t \in Session, Post(t) PROVE Told'
PROOF
  <1> PICK x \in Transactions : x = tx[t]
    BY Own
  <1> PICK r : r = [x EXCEPT !.lines = NoLines, !.pc = IF x.job = "adjust" THEN "commit" ELSE "flush"]
    OBVIOUS
  <1>1. RowsOK /\ Owns(t, x) /\ Knows(t, x) /\ x.pc = "apply"
    BY Own DEF Owned, Told, Post
  <1>2. /\ mem' = Posted(mem, Entries(x)) /\ tx' = [tx EXCEPT ![t] = r]
        /\ UNCHANGED <<ord, ordW, bal, olock, block>>
    BY DEF Post, Goto
  <1>3. \A p \in Pair : block[p] # t => mem'[p] = mem[p]
    BY <1>1, <1>2 DEF Owns, Posting, Has, Posted, Entries
  <1>4. r.job = x.job /\ r.todo = x.todo /\ r.pc \in {"commit", "flush"}
    BY DEF Transactions
  <1>5. /\ ~Choosing(x) /\ ~Choosing(r) /\ ~Settling(x) /\ ~Settling(r) /\ ~Working(r)
        /\ r.pc # "pay"
    BY <1>1, <1>4 DEF Choosing, Settling, Working, Targeting
  <1>6. Knows(t, r)'
    BY <1>1, <1>2, <1>4, <1>5 DEF Knows
  <1>7. \A q \in Order : Story(q)'
    BY <1>1, <1>2, <1>5, StoriesKept
  <1>8. \A u \in Session \ {t} : Spared(u)
    BY <1>2, <1>3 DEF Spared, TypeInv
  <1> QED
    BY <1>2, <1>6, <1>7, <1>8, ToldStep

(* The start of retry_holds() keeps Told: it takes waiting orders only.      *)
LEMMA RetryHoldsTold == ASSUME TypeInv, Owned, Told, NEW t \in Session, RetryHolds(t) PROVE Told'
PROOF
  <1> PICK x \in Transactions : x = tx[t]
    BY Own
  <1> PICK picked :
        picked = Oldest({o \in Order : olock[o] \in {None, t} /\ Waiting(OrderSeen(t, o))},
                             LimitOf(tx[t].job))
    OBVIOUS
  <1> PICK r : r = [x EXCEPT !.job = "retry", !.pc = "next", !.todo = picked]
    OBVIOUS
  <1>1. RowsOK /\ Knows(t, x) /\ x.pc = "flush"
    BY Own DEF Told, RetryHolds
  <1>2. /\ olock' = [o \in Order |-> IF o \in picked THEN t ELSE olock[o]]
        /\ tx' = [tx EXCEPT ![t] = r] /\ UNCHANGED <<ord, ordW, bal, mem, block>>
    BY DEF RetryHolds, Goto
  <1>3. ASSUME NEW o \in picked
        PROVE  o \in Order /\ olock[o] \in {None, t} /\ ordW[o].status \in {"CREATED", "PAID"}
    <2>1. o \in Order /\ olock[o] \in {None, t} /\ OrderSeen(t, o).status \in {"CREATED", "PAID"}
      BY DEF Oldest, Waiting
    <2>2. OrderSeen(t, o) = ordW[o]
      BY <2>1 DEF OrderSeen, Owned, OrderVersions
    <2> QED
      BY <2>1, <2>2
  <1>4. r.job = "retry" /\ r.pc = "next" /\ r.todo = picked
    BY DEF Transactions
  <1>5. ~Choosing(x) /\ ~Choosing(r) /\ ~Settling(r) /\ ~Working(r)
    BY <1>1, <1>4 DEF Choosing, Settling, Working, Targeting
  <1>6. Knows(t, r)'
    BY <1>2, <1>3, <1>4, <1>5 DEF Knows
  <1>7. \A o \in Order : olock'[o] = olock[o] \/ (olock[o] = None /\ olock'[o] = t)
    BY <1>2, <1>3
  <1> QED
    BY <1>1, <1>2, <1>5, <1>6, <1>7, MoveTold

(* The loop of retry_holds() keeps Told.                                     *)
LEMMA NextHoldTold == ASSUME TypeInv, Owned, Told, NEW t \in Session, NextHold(t) PROVE Told'
PROOF
  <1> PICK x \in Transactions : x = tx[t]
    BY Own
  <1>1. /\ RowsOK /\ Knows(t, x) /\ Owns(t, x) /\ x.pc = "next" /\ x.job = "retry"
        /\ x.todo \subseteq Order
    BY Own DEF Owned, Owns, Told, NextHold, Transactions
  <1>2. UNCHANGED <<ord, ordW, bal, mem, olock, block>> /\ ~Choosing(x)
    BY <1>1 DEF NextHold, Choosing, Targeting
  <1>3. CASE tx' = [tx EXCEPT ![t] = [x EXCEPT !.pc = "commit", !.cur = None]]
    <2> PICK r : r = [x EXCEPT !.pc = "commit", !.cur = None]
      OBVIOUS
    <2>1. r.job = "retry" /\ r.pc = "commit" /\ r.todo = x.todo
      BY <1>1 DEF Transactions
    <2>2. Knows(t, r)'
      BY <1>1, <1>2, <2>1 DEF Knows, Working, Choosing, Settling, Targeting
    <2> QED
      BY <1>1, <1>2, <1>3, <2>2, MoveTold
  <1>4. ASSUME NEW o \in x.todo,
               tx' = [tx EXCEPT ![t] = [x EXCEPT !.cur = o, !.todo = @ \ {o}, !.pc = "choose"]]
        PROVE  Told'
    <2> PICK r : r = [x EXCEPT !.cur = o, !.todo = @ \ {o}, !.pc = "choose"]
      OBVIOUS
    <2>1. r.job = "retry" /\ r.pc = "choose" /\ r.todo = x.todo \ {o} /\ r.cur = o
      BY <1>1 DEF Transactions
    <2>2. Knows(t, r)'
      BY <1>1, <1>2, <2>1 DEF Knows, Settling
    <2> QED
      BY <1>1, <1>2, <1>4, <2>2, MoveTold
  <1> QED
    BY <1>3, <1>4 DEF NextHold, Goto

(* The start of the maintenance job keeps Told.                              *)
LEMMA MaintenanceTold == ASSUME TypeInv, Owned, Told, StartMaintenance PROVE Told'
PROOF
  <1> PICK todo : Begin(Worker, [Idle EXCEPT !.job = "expire", !.pc = "expire", !.todo = todo])
    BY DEF StartMaintenance
  <1> PICK r : r = [Idle EXCEPT !.job = "expire", !.pc = "expire", !.todo = todo]
    OBVIOUS
  <1>1. /\ tx[Worker] = Idle /\ tx' = [tx EXCEPT ![Worker] = r] /\ Worker \in Session
        /\ UNCHANGED <<ord, ordW, bal, mem, olock, block>>
    BY DEF StartMaintenance, Begin, Session
  <1>2. r.job = "expire" /\ r.pc = "expire" /\ tx[Worker].pc = "idle"
    BY <1>1 DEF Idle
  <1>3. ~Choosing(tx[Worker]) /\ ~Choosing(r) /\ ~Settling(r)
    BY <1>2 DEF Choosing, Settling, Targeting
  <1>4. Knows(Worker, r)'
    BY <1>2, <1>3 DEF Knows
  <1> QED
    BY <1>1, <1>2, <1>3, <1>4, MoveTold

(* expire_reservations() settles open orders only.                           *)
LEMMA ExpireTold == ASSUME TypeInv, Owned, Told, ExpireNext PROVE Told'
PROOF
  <1>1. Worker \in Session
    BY DEF Session
  <1> PICK x \in Transactions : x = tx[Worker]
    BY <1>1, Own
  <1>2. /\ RowsOK /\ Knows(Worker, x) /\ x.pc = "expire" /\ x.job = "expire"
        /\ x.todo \subseteq Order /\ ~Choosing(tx[Worker])
    BY <1>1, Own DEF Owned, Owns, Told, ExpireNext, Transactions, Choosing, Targeting
  <1>3. UNCHANGED <<ord, ordW, bal, mem, block>>
    BY DEF ExpireNext
  <1>4. ASSUME NEW r, tx' = [tx EXCEPT ![Worker] = r], r.job = "expire", r.pc \in {"flush", "commit", "expire"},
               \A o \in Order : olock'[o] = olock[o] \/ (olock[o] = None /\ olock'[o] = Worker)
        PROVE  Told'
    <2>1. Knows(Worker, r)'
      BY <1>4 DEF Knows, Choosing, Settling, Targeting
    <2> QED
      BY <1>1, <1>2, <1>3, <1>4, <2>1, MoveTold
  <1>5. ASSUME NEW pc \in {"flush", "commit"}, UNCHANGED olock,
               tx' = [tx EXCEPT ![Worker] = [x EXCEPT !.pc = pc]]
        PROVE  Told'
    <2> PICK r : r = [x EXCEPT !.pc = pc]
      OBVIOUS
    <2>1. r.job = "expire" /\ r.pc = pc
      BY <1>2 DEF Transactions
    <2> QED
      BY <1>4, <1>5, <2>1
  <1>6. ASSUME NEW o \in x.todo, NEW y, y = [x EXCEPT !.todo = @ \ {o}],
               \/ tx' = [tx EXCEPT ![Worker] = y] /\ UNCHANGED olock
               \/ /\ olock[o] = None
                  /\ olock' = [olock EXCEPT ![o] = Worker]
                  /\ tx' = [tx EXCEPT ![Worker] = IF StillUnpaid(o) THEN ToSettle(y, o) ELSE y]
        PROVE  Told'
    <2>1. y.job = "expire" /\ y.pc = "expire" /\ y \in Transactions /\ o \in Order
      BY <1>2, <1>6 DEF Transactions
    <2>2. \A q \in Order : olock'[q] = olock[q] \/ (olock[q] = None /\ olock'[q] = Worker)
      BY <1>2, <1>6 DEF RowsOK
    <2>3. CASE tx' = [tx EXCEPT ![Worker] = y]
      BY <1>4, <2>1, <2>2, <2>3
    <2> PICK r : r = ToSettle(y, o)
      OBVIOUS
    <2>4. CASE /\ StillUnpaid(o) /\ olock[o] = None /\ tx' = [tx EXCEPT ![Worker] = r]
      <3>1. ordW[o] = ord[o] /\ ord[o].status \notin Gone
        BY <2>1, <2>4 DEF Owned, OrderVersions, StillUnpaid, Gone
      <3>2. Knows(Worker, r)'
        BY <1>3, <2>1, <3>1, ToSettleKnows
      <3> QED
        BY <1>1, <1>2, <1>3, <2>2, <2>4, <3>2, MoveTold
    <2> QED
      BY <1>6, <2>3, <2>4
  <1>7. \/ \E pc \in {"flush", "commit"} :
              tx' = [tx EXCEPT ![Worker] = [x EXCEPT !.pc = pc]] /\ UNCHANGED olock
        \/ \E o \in x.todo :
              LET y == [x EXCEPT !.todo = @ \ {o}] IN
              \/ tx' = [tx EXCEPT ![Worker] = y] /\ UNCHANGED olock
              \/ /\ olock[o] = None
                 /\ olock' = [olock EXCEPT ![o] = Worker]
                 /\ tx' = [tx EXCEPT ![Worker] = IF StillUnpaid(o) THEN ToSettle(y, o) ELSE y]
    BY DEF ExpireNext, Goto
  <1> QED
    BY <1>5, <1>6, <1>7

(* COMMIT keeps Told: the version it publishes tells the whole story.        *)
LEMMA CommitTold == ASSUME TypeInv, Owned, Told, NEW t \in Session, Commit(t) PROVE Told'
PROOF
  <1> PICK r : r = Idle
    OBVIOUS
  <1>1. /\ \A o \in Order : /\ ord'[o] = IF olock[o] = t THEN ordW[o] ELSE ord[o]
                            /\ olock'[o] = IF olock[o] = t THEN None ELSE olock[o]
        /\ \A p \in Pair : /\ bal'[p] = IF block[p] = t THEN mem[p] ELSE bal[p]
                           /\ block'[p] = IF block[p] = t THEN None ELSE block[p]
        /\ tx' = [tx EXCEPT ![t] = r] /\ UNCHANGED <<ordW, mem>>
    BY DEF Commit
  <1>2. None \notin Session /\ tx[t].pc = "commit" /\ ~Choosing(tx[t]) /\ RowsOK
    BY NoneIsNobody DEF Commit, Choosing, Targeting, TypeInv
  <1>3. r.pc = "idle" /\ r.job = "idle"
    BY DEF Idle
  <1>4. Knows(t, r)'
    BY <1>1, <1>2, <1>3 DEF Knows, Choosing, Settling, Targeting
  <1>5. \A u \in Session \ {t} : Spared(u)
    BY <1>1, <1>2 DEF Spared, TypeInv
  <1>6. ASSUME NEW o \in Order PROVE Story(o)'
    <2>1. Story(o)
      BY DEF Told
    <2>2. CASE olock[o] = t
      <3>1. ord'[o] = ordW[o] /\ ordW'[o] = ordW[o]
        BY <1>1, <2>2
      <3>2. Tells(ordW[o]) /\ Served(ordW[o])
        BY <1>2, <2>1, <2>2 DEF Story
      <3>3. Moved(ordW[o], ordW[o]) /\ ~Leaves(ordW[o], ordW[o])
        BY DEF Moved, Leaves
      <3> QED
        BY <3>1, <3>2, <3>3 DEF Story
    <2>3. CASE olock[o] # t
      <3>1. olock'[o] = olock[o] /\ ord'[o] = ord[o] /\ ordW'[o] = ordW[o]
        BY <1>1, <2>3
      <3>2. olock[o] \in Session => tx'[olock'[o]] = tx[olock[o]]
        BY <1>1, <2>3, <3>1 DEF TypeInv
      <3> QED
        BY <2>1, <3>1, <3>2 DEF Story
    <2> QED
      BY <2>2, <2>3
  <1> QED
    BY <1>1, <1>4, <1>5, <1>6, ToldStep

(* ROLLBACK keeps Told: the committed version told it before.                *)
LEMMA UndoTold == ASSUME TypeInv, Owned, Told, NEW t \in Session, Undo(t) PROVE Told'
PROOF
  <1> PICK r : r = Idle
    OBVIOUS
  <1>1. /\ \A o \in Order : /\ ordW'[o] = IF olock[o] = t THEN ord[o] ELSE ordW[o]
                            /\ olock'[o] = IF olock[o] = t THEN None ELSE olock[o]
        /\ \A p \in Pair : /\ mem'[p] = IF block[p] = t THEN bal[p] ELSE mem[p]
                           /\ block'[p] = IF block[p] = t THEN None ELSE block[p]
        /\ tx' = [tx EXCEPT ![t] = r] /\ UNCHANGED <<ord, bal>>
    BY DEF Undo
  <1>2. None \notin Session /\ RowsOK
    BY NoneIsNobody DEF TypeInv
  <1>3. r.pc = "idle" /\ r.job = "idle"
    BY DEF Idle
  <1>4. Knows(t, r)'
    BY <1>1, <1>2, <1>3 DEF Knows, Choosing, Settling, Targeting
  <1>5. \A u \in Session \ {t} : Spared(u)
    BY <1>1, <1>2 DEF Spared, TypeInv
  <1>6. ASSUME NEW o \in Order PROVE Story(o)'
    <2>1. Story(o)
      BY DEF Told
    <2>2. CASE olock[o] = t
      <3>1. ord'[o] = ord[o] /\ ordW'[o] = ord[o]
        BY <1>1, <2>2
      <3>2. Tells(ord[o]) /\ Served(ord[o])
        BY <2>1 DEF Story
      <3>3. Moved(ord[o], ord[o]) /\ ~Leaves(ord[o], ord[o])
        BY DEF Moved, Leaves
      <3> QED
        BY <3>1, <3>2, <3>3 DEF Story
    <2>3. CASE olock[o] # t
      <3>1. olock'[o] = olock[o] /\ ord'[o] = ord[o] /\ ordW'[o] = ordW[o]
        BY <1>1, <2>3
      <3>2. olock[o] \in Session => tx'[olock'[o]] = tx[olock[o]]
        BY <1>1, <2>3, <3>1 DEF TypeInv
      <3> QED
        BY <2>1, <3>1, <3>2 DEF Story
    <2> QED
      BY <2>2, <2>3
  <1> QED
    BY <1>1, <1>4, <1>5, <1>6, ToldStep

(* The status changes of the warehouse keep the story.                       *)
LEMMA AdvancedTells ==
  ASSUME NEW z \in Orders, NEW s, NEW y, y = [z EXCEPT !.status = s], Tells(z),
         \/ /\ z.status \in {"ALLOCATED", "PICKING", "PACKING"}
            /\ s \in {"PICKING", "PACKING", "READY_TO_SHIP"}
         \/ z.status = "SHIPPED" /\ s = "DELIVERED"
  PROVE  Tells(y) /\ Served(y) /\ Phase(y) = Phase(z) /\ Place(y) = Place(z)
PROOF
  <1>1. /\ y.stock = z.stock /\ y.hold = z.hold /\ y.at = z.at /\ y.wh = z.wh
        /\ y.status = s
    BY DEF Orders, OrderRecords
  <1> QED
    BY <1>1 DEF Tells, Served, Phase, Place, Gone, ReservationRow

(* What such a step does to the committed orders.                            *)
LEMMA AdvanceStep ==
  ASSUME TypeInv, Owned, Told, NEW o \in Order, Advance(o)
  PROVE  \E y : /\ Tells(y) /\ Served(y) /\ Phase(y) = Phase(ord[o]) /\ Place(y) = Place(ord[o])
                /\ ord' = [ord EXCEPT ![o] = y] /\ ordW' = [ordW EXCEPT ![o] = y]
                /\ olock[o] = None /\ UNCHANGED <<bal, mem, olock, block, tx>>
PROOF
  <1>1. PICK s : /\ ord' = [ord EXCEPT ![o].status = s] /\ ordW' = [ordW EXCEPT ![o].status = s]
                 /\ \/ /\ ord[o].status \in {"ALLOCATED", "PICKING", "PACKING"}
                       /\ s \in {"PICKING", "PACKING", "READY_TO_SHIP"}
                    \/ ord[o].status = "SHIPPED" /\ s = "DELIVERED"
                 /\ olock[o] = None /\ UNCHANGED <<bal, mem, olock, block, tx>>
    BY DEF Advance
  <1> PICK z \in Orders : z = ord[o]
    BY DEF TypeInv, RowsOK
  <1> PICK y : y = [z EXCEPT !.status = s]
    OBVIOUS
  <1>2. ordW[o] = z /\ Tells(z)
    BY <1>1 DEF Owned, OrderVersions, Told, Story
  <1>3. Tells(y) /\ Served(y) /\ Phase(y) = Phase(z) /\ Place(y) = Place(z)
    BY <1>1, <1>2, AdvancedTells
  <1>4. ord' = [ord EXCEPT ![o] = y] /\ ordW' = [ordW EXCEPT ![o] = y]
    BY <1>1, <1>2
  <1> QED
    BY <1>1, <1>3, <1>4

LEMMA AdvanceTold == ASSUME TypeInv, Owned, Told, NEW o \in Order, Advance(o) PROVE Told'
PROOF
  <1>1. PICK y : /\ Tells(y) /\ Served(y) /\ Phase(y) = Phase(ord[o]) /\ Place(y) = Place(ord[o])
                 /\ ord' = [ord EXCEPT ![o] = y] /\ ordW' = [ordW EXCEPT ![o] = y]
                 /\ olock[o] = None /\ UNCHANGED <<bal, mem, olock, block, tx>>
    BY AdvanceStep
  <1>2. \A q \in Order : /\ ord'[q] = IF q = o THEN y ELSE ord[q]
                        /\ ordW'[q] = IF q = o THEN y ELSE ordW[q]
    BY <1>1 DEF TypeInv, RowsOK
  <1>3. ASSUME NEW u \in Session PROVE Knows(u, tx[u])'
    <2>1. Spared(u)
      BY <1>1, <1>2, NoneIsNobody DEF Spared
    <2> QED
      BY <2>1, KnowsSpared DEF Told
  <1>4. ASSUME NEW q \in Order PROVE Story(q)'
    <2>1. Story(q) /\ olock'[q] = olock[q] /\ tx' = tx
      BY <1>1 DEF Told
    <2>2. CASE q = o
      <3>1. Moved(y, y) /\ ~Leaves(y, y)
        BY DEF Moved, Leaves
      <3> QED
        BY <1>1, <1>2, <2>2, <3>1 DEF Story
    <2>3. CASE q # o
      BY <1>2, <2>1, <2>3 DEF Story
    <2> QED
      BY <2>2, <2>3
  <1> QED
    BY <1>3, <1>4 DEF Told

-------------------------------------------------------------------------------
(* Nothing is told at first.                                                *)
THEOREM ToldInit == Init => Told
PROOF
  <1> SUFFICES ASSUME Init PROVE Told
    OBVIOUS
  <1>1. ASSUME NEW t \in Session PROVE Knows(t, tx[t])
    <2> PICK r : r = Idle
      OBVIOUS
    <2>1. r.pc = "idle" /\ r.job = "idle" /\ tx[t] = r
      BY DEF Init, Idle
    <2> QED
      BY <2>1, NoneIsNobody DEF Knows, Choosing, Settling, Targeting, Init
  <1>2. Tells(Fresh) /\ Served(Fresh) /\ Moved(Fresh, Fresh) /\ ~Leaves(Fresh, Fresh)
    BY DEF Tells, Served, Moved, Leaves, Fresh, Gone, ReservationRow
  <1>3. \A o \in Order : ord[o] = Fresh /\ ordW[o] = Fresh
    BY DEF Init
  <1> QED
    BY <1>1, <1>2, <1>3 DEF Told, Story

(* Every step keeps Told.                                                    *)
THEOREM ToldNext == TypeInv /\ Owned /\ Told /\ [Next]_vars => Told'
PROOF
  <1> SUFFICES ASSUME TypeInv, Owned, Told, [Next]_vars PROVE Told'
    OBVIOUS
  <1>1. ASSUME NEW t \in Request, Submit(t) PROVE Told'
    BY <1>1, CreateTold, ReservingTold, SettlingTold, EntryTold DEF Submit, Session
  <1>2. ASSUME UNCHANGED <<ord, ordW, bal, mem, olock, block, tx>> PROVE Told'
    <2>1. ASSUME NEW u \in Session PROVE Knows(u, tx[u])'
      <3>1. Spared(u)
        BY <1>2 DEF Spared
      <3> QED
        BY <3>1, KnowsSpared DEF Told
    <2>2. ASSUME NEW o \in Order PROVE Story(o)'
      BY <1>2 DEF Told, Story
    <2> QED
      BY <2>1, <2>2 DEF Told
  <1>3. ASSUME NEW o \in Order, Advance(o) \/ TimeOut(o) \/ GrowsOld(o) PROVE Told'
    <2>1. CASE TimeOut(o) \/ GrowsOld(o)
      BY <1>2, <2>1 DEF TimeOut, GrowsOld
    <2> QED
      BY <1>3, <2>1, AdvanceTold
  <1>4. CASE StartMaintenance \/ ExpireNext
    BY <1>4, MaintenanceTold, ExpireTold
  <1>5. ASSUME NEW t \in Session, Run(t) \/ Crash(t) PROVE Told'
    <2>1. Raise(t) \/ Crash(t) => Undo(t)
      BY DEF Raise, Crash
    <2> QED
      BY <1>5, <2>1, ChooseTold, LockTold, RecheckTold, PayTold, SettleTold, PostTold,
         RetryHoldsTold, NextHoldTold, CommitTold, UndoTold DEF Run
  <1>6. CASE UNCHANGED vars
    BY <1>2, <1>6 DEF vars
  <1> QED
    BY <1>1, <1>3, <1>4, <1>5, <1>6 DEF Next

(* Types, ownership, counts and stories are invariants together.             *)
LEMMA AllInvariants == Spec => [](TypeInv /\ Owned /\ AllCounted /\ Told)
PROOF
  <1>1. Init => TypeInv /\ Owned /\ AllCounted /\ Told
    BY TypeInit, OwnedInit, CountedInit, ToldInit
  <1>2. TypeInv /\ Owned /\ AllCounted /\ Told /\ [Next]_vars => (TypeInv /\ Owned /\ AllCounted /\ Told)'
    BY TypeNext, OwnedNext, CountedNextStep, ToldNext
  <1> QED
    BY <1>1, <1>2, PTL DEF Spec

(* The three statuses of an order agree in every committed state: the       *)
(* warehouse never works on an order without stock, a finished order holds  *)
(* none, and a paid order either has moved on or waits for stock.           *)
THEOREM StatusesCorrect == Spec => []StatusesAgree
PROOF
  <1>1. Told => StatusesAgree
    BY DEF Told, Story, Tells, Served, Gone, StatusesAgree
  <1> QED
    BY <1>1, AllInvariants, PTL

-------------------------------------------------------------------------------
(* The refinement.                                                          *)

Phases == {"open", "held", "shipped", "closed"}

(* What StockPromise sees of a version of an order has its type.             *)
LEMMA SeenTypes ==
  ASSUME NEW x \in Orders
  PROVE  Phase(x) \in Phases /\ Place(x) \in Warehouse \cup {None}
  BY DEF Phase, Place, Phases, Orders

(* The units of p that order o holds, as StockPromise counts them.           *)
LEMMA UnitsOf ==
  ASSUME TypeInv, NEW p \in Pair, NEW o \in Order, NEW f,
         f = [q \in Order |-> Place(ord[q])]
  PROVE  Cardinality(Promise!Units({o}, f, p)) = Shipment(o, p)
PROOF
  <1>1. p[1] # None /\ Need[o][p[2]] \in Nat
    BY ConstantsAssumption DEF Pair
  <1>2. f[o] = p[1] <=> Holds(ord[o], p)
    BY <1>1 DEF Place, Holds
  <1>3. CASE Holds(ord[o], p)
    <2>1. {q \in {o} : f[q] = p[1]} = {o}
      BY <1>2, <1>3
    <2>2. Promise!Units({o}, f, p) = {o} \X (1..Need[o][p[2]])
      BY <2>1 DEF Promise!Units
    <2> QED
      BY <1>1, <1>3, <2>2, OneOrder DEF Shipment
  <1>4. CASE ~Holds(ord[o], p)
    <2>1. {q \in {o} : f[q] = p[1]} = {}
      BY <1>2, <1>4
    <2>2. Promise!Units({o}, f, p) = {}
      BY <2>1 DEF Promise!Units
    <2> QED
      BY <1>4, <2>2, FS_EmptySet DEF Shipment
  <1> QED
    BY <1>3, <1>4

(* All units that orders hold of p are those their reservations promise.     *)
LEMMA UnitsPromised ==
  ASSUME NEW os, NEW p \in Pair, NEW f, f = [q \in Order |-> Place(os[q])]
  PROVE  Promise!Units(Order, f, p) = Promised(os, p)
PROOF
  <1>1. p[1] # None
    BY ConstantsAssumption DEF Pair
  <1>2. \A q \in Order : f[q] = p[1] <=> os[q].hold = "ACTIVE" /\ os[q].at = p[1]
    BY <1>1 DEF Place
  <1>3. {q \in Order : f[q] = p[1]} = {q \in Order : os[q].hold = "ACTIVE" /\ os[q].at = p[1]}
    BY <1>2
  <1> QED
    BY <1>3 DEF Promise!Units, Promised

(* Committed orders change in a commit, or without StockPromise noticing.   *)
LEMMA CommittedMoves ==
  ASSUME TypeInv, Owned, Told, [Next]_vars
  PROVE  \/ \E t \in Session : Commit(t)
         \/ /\ \A o \in Order : Phase(ord'[o]) = Phase(ord[o]) /\ Place(ord'[o]) = Place(ord[o])
            /\ UNCHANGED bal
PROOF
  <1> DEFINE Same == /\ \A o \in Order : Phase(ord'[o]) = Phase(ord[o]) /\ Place(ord'[o]) = Place(ord[o])
                     /\ UNCHANGED bal
  <1>1. UNCHANGED <<ord, bal>> => Same
    OBVIOUS
  <1>2. ASSUME NEW o \in Order, Advance(o) PROVE Same
    <2>1. PICK y : /\ Phase(y) = Phase(ord[o]) /\ Place(y) = Place(ord[o])
                   /\ ord' = [ord EXCEPT ![o] = y] /\ UNCHANGED bal
      BY <1>2, AdvanceStep
    <2> QED
      BY <2>1 DEF TypeInv, RowsOK
  <1> HIDE DEF Same
  <1>3. ASSUME NEW t \in Request, Submit(t) PROVE Same
    BY <1>1, <1>3 DEF Submit, StartCreate, StartReserving, StartSettling, StartReceipt, StartAdjust
  <1>4. ASSUME NEW t \in Session, Run(t) \/ Crash(t), ~Commit(t) PROVE Same
    BY <1>1, <1>4
       DEF Run, Choose, Lock, Recheck, Pay, Settle, Post, RetryHolds, NextHold, Raise, Crash, Undo
  <1>5. ASSUME StartMaintenance \/ ExpireNext \/ UNCHANGED vars \/ \E q \in Order : TimeOut(q) \/ GrowsOld(q)
        PROVE  Same
    BY <1>1, <1>5 DEF StartMaintenance, ExpireNext, TimeOut, GrowsOld, vars
  <1>6. (\E t \in Session : Commit(t)) \/ Same
    BY <1>2, <1>3, <1>4, <1>5 DEF Next
  <1> QED
    BY <1>6 DEF Same

(* What a commit does to one order and to one balance.                       *)
LEMMA CommitMoves ==
  ASSUME TypeInv, Owned, Told, NEW t \in Session, Commit(t), NEW o \in Order
  PROVE  /\ Moved(ord[o], ord'[o])
         /\ Leaves(ord[o], ord'[o]) =>
              /\ Phase(ord[o]) = "held" /\ tx[t].job = "ship" /\ olock[o] = t /\ ord'[o] = ordW[o]
PROOF
  <1>1. Story(o) /\ ord'[o] = IF olock[o] = t THEN ordW[o] ELSE ord[o]
    BY DEF Commit, Told
  <1>2. CASE olock[o] = t
    BY <1>1, <1>2 DEF Story, Moved, Leaves, Shipped
  <1>3. CASE olock[o] # t
    BY <1>1, <1>3 DEF Moved, Leaves
  <1> QED
    BY <1>2, <1>3

(* The commit of a shipment takes from every balance what its order held    *)
(* there.                                                                   *)
LEMMA ShipmentTaken ==
  ASSUME TypeInv, Owned, AllCounted, Told, NEW t \in Session, Commit(t), NEW o \in Order,
         Leaves(ord[o], ord'[o]), NEW p \in Pair
  PROVE  bal'[p].on_hand = bal[p].on_hand - Shipment(o, p)
PROOF
  <1>1. tx[t].job = "ship" /\ olock[o] = t /\ ord'[o] = ordW[o] /\ tx[t].pc = "commit"
    BY CommitMoves DEF Commit
  <1>2. Knows(t, tx[t]) /\ Counted(p) /\ None \notin Session /\ Tells(ordW[o])
    BY NoneIsNobody DEF Told, Story, AllCounted
  <1>3. bal'[p] = IF block[p] = t THEN mem[p] ELSE bal[p]
    BY DEF Commit
  <1>4. CASE block[p] = t
    BY <1>1, <1>2, <1>3, <1>4 DEF Knows
  <1>5. CASE block[p] # t
    <2>1. ~Holds(ordW[o], p)
      BY <1>1, <1>2 DEF Leaves, Holds, Tells, Gone, Phase
    <2>2. Need[o][p[2]] > 0 => ~Holds(ord[o], p)
      BY <1>1, <1>2, <1>5, <2>1 DEF Counted
    <2>3. Need[o][p[2]] \in Nat /\ bal[p].on_hand \in Nat
      BY ConstantsAssumption DEF Pair, TypeInv, RowsOK, Balances
    <2>4. Shipment(o, p) = 0
      BY <2>2, <2>3 DEF Shipment
    <2> QED
      BY <1>3, <1>5, <2>3, <2>4
  <1> QED
    BY <1>4, <1>5

(* Every commit is one legal step of the promise.                            *)
LEMMA CommitPromised ==
  ASSUME TypeInv, Owned, AllCounted, Told, NEW t \in Session, Commit(t), TypeInv', NeverOversold'
  PROVE  Promise!Next
PROOF
  <1> PICK os, b : os = ord' /\ b = bal'
    OBVIOUS
  <1> PICK f, g, s : /\ f = [o \in Order |-> Phase(ord[o])]
                     /\ g = [o \in Order |-> Place(ord[o])]
                     /\ s = [p \in Pair |-> bal[p].on_hand]
    OBVIOUS
  <1> PICK ff, gg, ss : /\ ff = [o \in Order |-> Phase(os[o])]
                        /\ gg = [o \in Order |-> Place(os[o])]
                        /\ ss = [p \in Pair |-> b[p].on_hand]
    OBVIOUS
  <1>1. os \in [Order -> Orders] /\ b \in [Pair -> Balances]
    BY DEF TypeInv, RowsOK
  <1>2. ff \in [Order -> Phases] /\ gg \in [Order -> Warehouse \cup {None}] /\ ss \in [Pair -> Nat]
    BY <1>1, SeenTypes DEF Balances
  <1>3. ASSUME NEW o \in Order
        PROVE  \/ ff[o] = f[o] /\ gg[o] = g[o]
               \/ f[o] = "open" /\ ff[o] = "held" /\ gg[o] \in Warehouse
               \/ f[o] \in {"open", "held"} /\ ff[o] = "closed" /\ gg[o] = None
               \/ f[o] = "held" /\ ff[o] = "shipped" /\ gg[o] = None
    <2>1. Moved(ord[o], os[o])
      BY CommitMoves
    <2> QED
      BY <2>1 DEF Moved
  <1>4. ASSUME NEW p \in Pair PROVE Cardinality(Promise!Units(Order, gg, p)) <= ss[p]
    <2>1. Promise!Units(Order, gg, p) = Promised(os, p)
      BY UnitsPromised
    <2>2. b[p].reserved = Cardinality(Promised(os, p)) /\ b[p].reserved <= b[p].on_hand
      BY DEF NeverOversold, Promised
    <2> QED
      BY <2>1, <2>2
  <1>7. ASSUME ff \in [Order -> Phases], gg \in [Order -> Warehouse \cup {None}],
               \A o \in Order : (\/ (ff[o] = f[o] /\ gg[o] = g[o])
                                \/ (f[o] = "open" /\ ff[o] = "held" /\ gg[o] \in Warehouse)
                                \/ (f[o] \in {"open", "held"} /\ ff[o] = "closed" /\ gg[o] = None)
                                \/ (f[o] = "held" /\ ff[o] = "shipped" /\ gg[o] = None)),
               (\/ \E gone : /\ gone = {o \in Order : f[o] = "held" /\ ff[o] = "shipped"}
                            /\ gone # {}
                            /\ \A p \in Pair : ss[p] = s[p] - Cardinality(Promise!Units(gone, g, p))
                \/ ((\A o \in Order : ff[o] = "shipped" => f[o] = "shipped") /\ ss \in [Pair -> Nat])),
               \A p \in Pair : Cardinality(Promise!Units(Order, gg, p)) <= ss[p]
        PROVE  Promise!Next
    <2>1. Phases = {"open", "held", "shipped", "closed"} /\ Promise!Pair = Pair
      BY DEF Phases, Promise!Pair, Pair
    <2>2. ff = [o \in Order |-> Phase(ord[o])]'
      OBVIOUS
    <2>3. gg = [o \in Order |-> IF ord[o].hold = "ACTIVE" THEN ord[o].at ELSE None]'
      BY DEF Place
    <2>4. ss = [p \in Pair |-> bal[p].on_hand]'
      OBVIOUS
    <2>5. g = [o \in Order |-> IF ord[o].hold = "ACTIVE" THEN ord[o].at ELSE None]
      BY DEF Place
    <2>6. \A o \in Order : Promise!Move(o)
      BY <1>7, <2>2, <2>3, <2>5 DEF Promise!Move
    <2>7. Promise!Covered'
      BY <1>7, <2>1, <2>3, <2>4, SameCount DEF Promise!Covered
    <2>8. Promise!Ship \/ Promise!Correct
      <3>1. CASE (\A o \in Order : ff[o] = "shipped" => f[o] = "shipped") /\ ss \in [Pair -> Nat]
        BY <3>1, <2>1, <2>2, <2>4 DEF Promise!Correct
      <3>2. ASSUME NEW gone, gone = {o \in Order : f[o] = "held" /\ ff[o] = "shipped"}, gone # {},
                   \A p \in Pair : ss[p] = s[p] - Cardinality(Promise!Units(gone, g, p))
            PROVE  Promise!Ship
        <4>1. gone = {o \in Order : /\ [q \in Order |-> Phase(ord[q])][o] = "held"
                                    /\ [q \in Order |-> Phase(ord[q])]'[o] = "shipped"}
          BY <3>2, <2>2
        <4>2. \A p \in Pair : ss[p] = s[p] - Promise!Cardinality(Promise!Units(gone, g, p))
          BY <3>2, SameCount
        <4> QED
          BY <3>2, <2>1, <2>4, <2>5, <4>1, <4>2 DEF Promise!Ship
      <3>3. CASE \E gone : /\ gone = {o \in Order : f[o] = "held" /\ ff[o] = "shipped"}
                           /\ gone # {}
                           /\ \A p \in Pair : ss[p] = s[p] - Cardinality(Promise!Units(gone, g, p))
        <4> PICK gone : /\ gone = {o \in Order : f[o] = "held" /\ ff[o] = "shipped"}
                        /\ gone # {}
                        /\ \A p \in Pair : ss[p] = s[p] - Cardinality(Promise!Units(gone, g, p))
          BY <3>3
        <4>1. Promise!Ship
          BY <3>2
        <4> QED
          BY <4>1
      <3> QED
        BY <1>7, <3>1, <3>3
    <2> QED
      BY <1>7, <2>1, <2>2, <2>3, <2>6, <2>7, <2>8 DEF Promise!Next
  <1>5. CASE \A o \in Order : ~Leaves(ord[o], os[o])
    <2>1. \A o \in Order : ff[o] = "shipped" => f[o] = "shipped"
      BY <1>5 DEF Leaves
    <2> QED
      BY <1>2, <1>3, <1>4, <1>7, <2>1
  <1>6. ASSUME NEW o \in Order, Leaves(ord[o], os[o]) PROVE Promise!Next
    <2> PICK gone : gone = {q \in Order : f[q] = "held" /\ ff[q] = "shipped"}
      OBVIOUS
    <2>1. gone = {o}
      <3>1. \A q \in Order : Leaves(ord[q], os[q]) => q = o
        BY <1>6, CommitMoves DEF Told, Knows
      <3>2. Phase(ord[o]) = "held" /\ Phase(os[o]) = "shipped"
        BY <1>6, CommitMoves DEF Leaves
      <3> QED
        BY <3>1, <3>2 DEF Leaves
    <2>2. ASSUME NEW p \in Pair PROVE ss[p] = s[p] - Cardinality(Promise!Units(gone, g, p))
      <3>1. b[p].on_hand = bal[p].on_hand - Shipment(o, p)
        BY <1>6, ShipmentTaken
      <3>2. Cardinality(Promise!Units({o}, g, p)) = Shipment(o, p)
        BY UnitsOf
      <3> QED
        BY <2>1, <3>1, <3>2
    <2>3. gone # {}
      BY <2>1
    <2> QED
      BY <1>2, <1>3, <1>4, <1>7, <2>2, <2>3
  <1> QED
    BY <1>5, <1>6

(* The orders and balances start as the promise does.                        *)
LEMMA PromiseInit == Init => Promise!Init
PROOF
  <1> SUFFICES ASSUME Init PROVE Promise!Init
    OBVIOUS
  <1>1. /\ \A o \in Order : ord[o] = Fresh
        /\ \A p \in Pair : bal[p] = Zero
    BY DEF Init
  <1>2. Fresh.hold = "NONE" /\ Phase(Fresh) = "open" /\ Zero.on_hand = 0
    BY DEF Fresh, Phase, Zero
  <1> QED
    BY <1>1, <1>2 DEF Promise!Init, Promise!Pair, Pair

(* OrderStock implements StockPromise: an order takes its units once, in    *)
(* one warehouse, and keeps them until it ships with exactly these or is    *)
(* closed, and all units held are there, for any numbers of orders,         *)
(* warehouses, SKUs and sessions and whatever their interleaving.           *)
THEOREM PromiseKept == Spec => KeepsPromise
PROOF
  <1> DEFINE Inv == TypeInv /\ Owned /\ AllCounted /\ Told
  <1>1. Inv /\ Inv' /\ [Next]_vars => [Promise!Next]_(Promise!vars)
    <2> SUFFICES ASSUME Inv, Inv', [Next]_vars PROVE [Promise!Next]_(Promise!vars)
      OBVIOUS
    <2>1. NeverOversold'
      BY DEF AllCounted, Counted, Counts, NeverOversold
    <2>2. ASSUME NEW t \in Session, Commit(t) PROVE Promise!Next
      BY <2>1, <2>2, CommitPromised
    <2>3. CASE /\ \A o \in Order : Phase(ord'[o]) = Phase(ord[o]) /\ Place(ord'[o]) = Place(ord[o])
               /\ UNCHANGED bal
      BY <2>3 DEF Promise!vars, Place
    <2> QED
      BY <2>2, <2>3, CommittedMoves
  <1> QED
    BY <1>1, PromiseInit, AllInvariants, PTL DEF Spec, KeepsPromise, Promise!Spec
==============================================================================
