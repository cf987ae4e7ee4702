------------------------------ MODULE Warehouse ------------------------------
(***************************************************************************)
(* The work in one warehouse: stock in bins, inbound documents and         *)
(* putaway, waves of pick tasks, picks reported short, the packing station *)
(* and cycle counts, all against the balance of the warehouse.             *)
(*                                                                         *)
(* A handler first locks its main row (task, document, count, order) and   *)
(* then the balances and bins it changes, so it takes effect as if it ran  *)
(* at its commit: it is one action, enabled when the rows it locks are     *)
(* free.  The exception is the wave of a task.  It is read and counted     *)
(* without a lock while other tasks of the wave are being worked on, so    *)
(* the handlers that use it (pick, short, pick again) are two actions: one *)
(* that locks, checks and reads the wave, and the commit.                  *)
(*                                                                         *)
(* Allocate and Ship stand for the parts of OrderStock a warehouse sees:   *)
(* an order that got its stock, and one handed over to a courier.          *)
(***************************************************************************)
EXTENDS Balance, Totals, Sequences, SequencesExt

CONSTANTS
  Bin,         \* the active bins of the warehouse
  WalkRank,    \* [Bin -> Nat]: the rank of the bin's code, the picker's path
  IdRank,      \* [Bin -> Nat]: the rank of the bin's identifier
  Sku,
  NumOrders,   \* orders are numbered as they are placed
  Need,        \* [1..NumOrders -> [Sku -> Nat]]: the items of an order
  Scanner,     \* the requests that can pick at once
  Inbound,     \* inbound documents
  Count,       \* cycle counts
  None,        \* no bin (the receiving area), no result yet
  Quantities,  \* the quantities of receipts, adjustments and putaways
  Reasons,     \* the reason codes of adjustments
  MaxUnits,    \* bound: no more units of a SKU than this are brought in
  MaxTasks     \* bound: no more pick tasks are made

Order == 1..NumOrders
Place == Bin \X Sku

ASSUME WarehouseAssumption ==
  /\ NumOrders \in Nat /\ MaxUnits \in Nat /\ MaxTasks \in Nat
  /\ IsFiniteSet(Bin) /\ IsFiniteSet(Sku)
  /\ WalkRank \in [Bin -> Nat] /\ IdRank \in [Bin -> Nat]
  /\ \A a, b \in Bin : WalkRank[a] = WalkRank[b] => a = b
  /\ Need \in [Order -> [Sku -> Nat]]
  /\ \A o \in Order : \E s \in Sku : Need[o][s] > 0
  /\ None \notin Bin \cup Nat \cup {"OPEN", "DONE"}
  /\ Quantities \subseteq Nat \ {0}
  /\ Reasons \subseteq {"DAMAGED", "WRITE_OFF_DAMAGED", "LOST", "FOUND"}

VARIABLES
  status,   \* the status of each order, "NEW" until it has its stock
  bal,      \* the warehouse's balance of each SKU
  bin,      \* the stock of each SKU in each bin
  tasks,    \* the pick tasks, each with the exception raised for it
  waves,    \* the status of each wave
  packed,   \* the units scanned at the packing station, per order and SKU
  docs,     \* the inbound documents, each with its putaway tasks
  counts,   \* the cycle counts
  scan      \* what each scanner has locked, read and not yet committed

vars == <<status, bal, bin, tasks, waves, packed, docs, counts, scan>>

BinRecords == [quantity : Nat, allocated : Nat]

(* exc: the MISSING exception of a task that is SHORT, and how it ended. *)
Tasks == [order : Order, sku : Sku, from : Bin \cup {None}, wave : Nat,
          quantity : Nat, done : Nat,
          status : {"OPEN", "IN_PROGRESS", "DONE", "SHORT"},
          exc : {"NONE", "OPEN", "NOTED", "REPICKED"}]

(* A document's lines; placed counts what its putaway tasks have placed.  *)
(* The tasks exist once it is COMPLETED, one for each SKU received.       *)
Documents == [status : {"RECEIVING", "COMPLETED", "CANCELLED"},
              received : [Sku -> Nat], damaged : [Sku -> Nat], placed : [Sku -> Nat]]

(* lines: what was counted at the places ps, that have a line. *)
CountRecords(ps) == [status : {"NEW", "OPEN", "SUBMITTED", "APPROVED", "CANCELLED"},
                     scope : SUBSET Bin, lines : [ps -> Nat \cup {None}]]

(* What the tables accept, and when their columns are filled: a commit that *)
(* breaks a CHECK or a key of the schema is an error no handler expects.    *)

\* bin_stock
BinRows == {r \in BinRecords : r.allocated <= r.quantity}

\* wms_tasks, of type PICK: the wave is that of the task and has its row.
TaskRow(k, ws) ==
  /\ k.quantity > 0 /\ k.done <= k.quantity
  /\ k.wave \in DOMAIN ws

\* waves
WaveStatus == {"OPEN", "DONE", "CANCELLED"}

\* inbound_receipts and their lines; putaway tasks are of what was received.
DocumentRow(d) ==
  /\ d \in Documents
  /\ \A s \in Sku : /\ d.placed[s] <= d.received[s]
                    /\ d.placed[s] > 0 => d.status = "COMPLETED"

\* cycle_counts and their lines, one for a place of the scope.
CountRow(n) ==
  /\ DOMAIN n.lines \subseteq Place /\ n \in CountRecords(DOMAIN n.lines)
  /\ \A p \in DOMAIN n.lines : p[1] \in n.scope
  /\ n.status \in {"SUBMITTED", "APPROVED"} => \A p \in DOMAIN n.lines : n.lines[p] # None

\* pack_progress: a row for an item of the order, once it is scanned.
PackRow(o, row) ==
  /\ row \in [Sku -> Nat]
  /\ \A s \in Sku : row[s] <= Need[o][s]

\* wms_exceptions: a MISSING one is of a task that is SHORT.
ExceptionRow(k) == k.exc # "NONE" <=> k.status = "SHORT"

Remaining(k) == k.quantity - k.done
IsOpen(k)    == k.status \in {"OPEN", "IN_PROGRESS"}

(* Task k is to pick SKU s for order o. *)
IsFor(k, o, s) == k.order = o /\ k.sku = s

\* Mutant: what the tasks are for counts, picked or not.
PickedOrPlanned(o, s) ==
  SumOver([i \in DOMAIN tasks |-> IF IsFor(tasks[i], o, s) THEN tasks[i].quantity ELSE 0], DOMAIN tasks)

\* picked_by_item()
Picked(o, s) ==
  SumOver([i \in DOMAIN tasks |-> IF IsFor(tasks[i], o, s) THEN tasks[i].done ELSE 0], DOMAIN tasks)

\* sum_bins()
InBins(s) == SumOver([b \in Bin |-> bin[<<b, s>>].quantity], Bin)

-------------------------------------------------------------------------------
(* What a scanner does between its first lock and its commit: the task (or *)
(* the task of the exception) and the bins it has locked, the quantity it  *)
(* picks, and the status it is going to give the wave, None if it keeps it.*)
Scans == [job : {"idle", "pick", "short", "repick"}, task : Nat, qty : Nat,
          locked : SUBSET Place, wave : {None, "OPEN", "DONE"}]
Free == [job |-> "idle", task |-> 0, qty |-> 0, locked |-> {}, wave |-> None]

TaskFree(i)  == \A c \in Scanner : scan[c].task # i
Unlocked(ps) == \A c \in Scanner : scan[c].locked \cap ps = {}

(* The bin row task k takes from; none when it takes from the receiving area. *)
Source(k) == IF k.from = None THEN {} ELSE {<<k.from, k.sku>>}

-------------------------------------------------------------------------------
(* allocate_pick(): bins in the order of their codes, what they do not have *)
(* from the receiving area.                                                 *)

FreeIn(p) == bin[p].quantity - bin[p].allocated

(* The bins of SKU s, apart from those in ex, that have units to allocate. *)
Usable(s, ex) == {p \in Place : p[2] = s /\ p[1] \notin ex /\ FreeIn(p) > 0}

(* The demands of a wave come one after the other, an order's at its place *)
(* after the earlier orders'; the free units of the bins us lie one after  *)
(* the other too.  An order gets from a bin what the two intervals share.  *)

(* Units free in the bins us before place p. *)
FreeBefore(p, us) ==
  SumOver([q \in Place |-> FreeIn(q)], {q \in us : WalkRank[q[1]] < WalkRank[p[1]]})

(* The part of n units of a SKU, asked for after before other units, that *)
(* is allocated in p.                                                     *)
Share(p, before, n, us) ==
  LET free == FreeBefore(p, us) IN
  Cardinality(((before + 1)..(before + n)) \cap ((free + 1)..(free + FreeIn(p))))

(* The tasks made for n units of SKU s of order o, from the bins us. *)
NewTasks(o, s, before, n, us, w) ==
  LET task(b, q) == [order |-> o, sku |-> s, from |-> b, wave |-> w, quantity |-> q,
                     done |-> 0, status |-> "OPEN", exc |-> "NONE"]
      share == [p \in us |-> Share(p, before, n, us)]
      rest == n - SumOver(share, us)
  IN  {task(p[1], share[p]) : p \in {q \in us : share[q] > 0}}
        \cup (IF rest > 0 THEN {task(None, rest)} ELSE {})

(* What the tasks ks are to take from place p. *)
Taking(ks, p) ==
  SumOver([i \in DOMAIN ks |-> IF Source(ks[i]) = {p} THEN ks[i].quantity ELSE 0], DOMAIN ks)

(* The bins once the tasks ks are allocated in them. *)
Allocating(ks) == [p \in Place |-> [bin[p] EXCEPT !.allocated = @ + Taking(ks, p)]]

-------------------------------------------------------------------------------
(* Orders as the warehouse sees them. *)

Ordered(o) == {s \in Sku : Need[o][s] > 0}

(* Every balance an order touches changes by d(s) at once. *)
PostOrder(o, d(_)) ==
  /\ \A s \in Ordered(o) : CanApply(bal[s], d(s))
  /\ bal' = [s \in Sku |-> IF s \in Ordered(o) THEN Plus(bal[s], d(s)) ELSE bal[s]]

(* A paid order got its reservation in this warehouse. *)
Allocate(o) ==
  /\ status[o] = "NEW"
  /\ PostOrder(o, LAMBDA s : Reserving(Need[o][s]))
  /\ status' = [status EXCEPT ![o] = "ALLOCATED"]
  /\ UNCHANGED <<bin, tasks, waves, packed, docs, counts, scan>>

(* Its parcel was handed over. *)
Ship(o) ==
  /\ status[o] = "READY_TO_SHIP"
  /\ PostOrder(o, LAMBDA s : Shipping(Need[o][s]))
  /\ status' = [status EXCEPT ![o] = "SHIPPED"]
  /\ UNCHANGED <<bin, tasks, waves, packed, docs, counts, scan>>

(* POST /wms/waves with the orders os, or start_picking for one order: each *)
(* order in turn gets its tasks.                                            *)
CreateWave(os) ==
  LET w == Len(waves) + 1
      before(o, s) == SumOver([q \in Order |-> Need[q][s]], {q \in os : q < o})
      made(o) == UNION {NewTasks(o, s, before(o, s), Need[o][s], Usable(s, {}), w) : s \in Sku}
      new == SetToSeq(UNION {made(o) : o \in os})
  IN
  /\ os # {} /\ \A o \in os : status[o] = "ALLOCATED"
  /\ Unlocked(UNION {Usable(s, {}) : s \in UNION {Ordered(o) : o \in os}})
  /\ Len(tasks) + Len(new) <= MaxTasks
  /\ tasks' = tasks \o new
  /\ bin' = Allocating(new)
  /\ waves' = Append(waves, "OPEN")
  /\ status' = [o \in Order |-> IF o \in os THEN "PICKING" ELSE status[o]]
  /\ UNCHANGED <<bal, packed, docs, counts, scan>>

-------------------------------------------------------------------------------
(* Picking. *)

\* Mutant: the other tasks of the order are counted, not those of the wave.
ClosedForOrder(i) ==
  LET k == tasks[i] IN
  IF /\ \A j \in DOMAIN tasks \ {i} : tasks[j].order = k.order => ~IsOpen(tasks[j])
     /\ waves[k.wave] = "OPEN"
  THEN "DONE" ELSE None

(* _close_wave_if_done(): the status task i's wave gets when i is closed.   *)
(* The other tasks are counted, and the wave read, as they are committed.   *)
ClosedWave(i) ==
  LET w == tasks[i].wave IN
  IF /\ \A j \in DOMAIN tasks \ {i} : tasks[j].wave = w => ~IsOpen(tasks[j])
     /\ waves[w] = "OPEN"
  THEN "DONE" ELSE None

(* confirm_pick() of q units of task i. *)
Pick(c, i, q) ==
  LET k == tasks[i] IN
  /\ scan[c] = Free
  /\ TaskFree(i) /\ Unlocked(Source(k))
  /\ IsOpen(k) /\ q \in 1..Remaining(k)
  /\ \A p \in Source(k) : bin[p].allocated >= q /\ bin[p].quantity >= q
  /\ scan' = [scan EXCEPT ![c] =
       [job |-> "pick", task |-> i, qty |-> q, locked |-> Source(k),
        wave |-> IF q = Remaining(k) THEN ClosedWave(i) ELSE None]]
  /\ UNCHANGED <<status, bal, bin, tasks, waves, packed, docs, counts>>

(* short_pick(): the units of task i still to pick are not there. *)
Short(c, i) ==
  /\ scan[c] = Free
  /\ TaskFree(i) /\ Unlocked(Source(tasks[i]))
  /\ IsOpen(tasks[i])
  /\ scan' = [scan EXCEPT ![c] =
       [job |-> "short", task |-> i, qty |-> Remaining(tasks[i]),
        locked |-> Source(tasks[i]), wave |-> ClosedWave(i)]]
  /\ UNCHANGED <<status, bal, bin, tasks, waves, packed, docs, counts>>

(* The bins repick() leaves out: the one where the units were missing. *)
Excluded(k) == {k.from} \ {None}

(* The status repick() gives the wave w of its new tasks. *)
ReopenedWave(w) == IF waves[w] = "DONE" THEN "OPEN" ELSE None

(* resolve with REPICK, up to the commit: the exception and the bins are    *)
(* locked, the order and the wave are not.                                  *)
Repick(c, i) ==
  LET k == tasks[i] IN
  /\ scan[c] = Free
  /\ TaskFree(i) /\ k.exc = "OPEN"
  /\ status[k.order] \in {"PICKING", "PACKING"}
  /\ Unlocked(Usable(k.sku, Excluded(k)))
  /\ scan' = [scan EXCEPT ![c] =
       [job |-> "repick", task |-> i, qty |-> Remaining(k),
        locked |-> Usable(k.sku, Excluded(k)),
        wave |-> ReopenedWave(k.wave)]]
  /\ UNCHANGED <<status, bal, bin, tasks, waves, packed, docs, counts>>

(* resolve with NOTE: the units are not looked for any more. *)
ResolveWithNote(i) ==
  /\ TaskFree(i) /\ tasks[i].exc = "OPEN"
  /\ tasks' = [tasks EXCEPT ![i].exc = "NOTED"]
  /\ UNCHANGED <<status, bal, bin, waves, packed, docs, counts, scan>>

(* The three handlers commit. *)
EndScan(c) ==
  /\ LET x == scan[c] w == tasks[x.task].wave IN
     waves' = IF x.wave = None THEN waves ELSE [waves EXCEPT ![w] = x.wave]
  /\ scan' = [scan EXCEPT ![c] = Free]
  /\ UNCHANGED <<status, bal, packed, docs, counts>>

PickedFrom(b, q) == [b EXCEPT !.quantity = @ - q, !.allocated = @ - q]

CommitPick(c) ==
  LET x == scan[c] IN
  /\ x.job = "pick"
  /\ tasks' = [tasks EXCEPT ![x.task].done = @ + x.qty,
                            ![x.task].status = IF x.qty = Remaining(tasks[x.task])
                                               THEN "DONE" ELSE "IN_PROGRESS"]
  /\ bin' = [p \in Place |-> IF p \in x.locked THEN PickedFrom(bin[p], x.qty) ELSE bin[p]]
  /\ EndScan(c)

\* Mutant: the units stay allocated.
ReleasedFromKept(b, q) == b

ReleasedFrom(b, q) == [b EXCEPT !.allocated = IF @ > q THEN @ - q ELSE 0]

CommitShort(c) ==
  LET x == scan[c] IN
  /\ x.job = "short"
  /\ tasks' = [tasks EXCEPT ![x.task].status = "SHORT", ![x.task].exc = "OPEN"]
  /\ bin' = [p \in Place |-> IF p \in x.locked THEN ReleasedFrom(bin[p], x.qty) ELSE bin[p]]
  /\ EndScan(c)

CommitRepick(c) ==
  LET x == scan[c]
      k == tasks[x.task]
      new == SetToSeq(NewTasks(k.order, k.sku, 0, x.qty, x.locked, k.wave))
  IN
  /\ x.job = "repick"
  /\ Len(tasks) + Len(new) <= MaxTasks
  /\ tasks' = [tasks EXCEPT ![x.task].exc = "REPICKED"] \o new
  /\ bin' = Allocating(new)
  /\ EndScan(c)

(* A timeout, a crash or a lost connection before the commit. *)
Rollback(c) ==
  /\ scan[c] # Free
  /\ scan' = [scan EXCEPT ![c] = Free]
  /\ UNCHANGED <<status, bal, bin, tasks, waves, packed, docs, counts>>

-------------------------------------------------------------------------------
(* Packing station, under the order's lock. *)

\* scan(): q units of SKU s; the first scan needs everything picked.
PackScan(o, s, q) ==
  /\ \/ /\ status[o] = "PICKING"
        /\ \A r \in Ordered(o) : Picked(o, r) >= Need[o][r]
     \/ status[o] = "PACKING"
  /\ s \in Ordered(o) /\ packed[o][s] + q <= Need[o][s]
  /\ packed' = [packed EXCEPT ![o][s] = @ + q]
  /\ status' = [status EXCEPT ![o] = "PACKING"]
  /\ UNCHANGED <<bal, bin, tasks, waves, docs, counts, scan>>

(* complete(); the weight is right or a reason is given. *)
PackComplete(o) ==
  /\ status[o] = "PACKING"
  /\ \A s \in Ordered(o) : packed[o][s] >= Need[o][s]
  /\ status' = [status EXCEPT ![o] = "READY_TO_SHIP"]
  /\ UNCHANGED <<bal, bin, tasks, waves, packed, docs, counts, scan>>

-------------------------------------------------------------------------------
(* Stock coming in, put away and corrected.  The balance is locked first.  *)

(* The units of SKU s in the building, for the bound. *)
Physical(s) == bal[s].on_hand + bal[s].damaged

PutInto(p, q) == bin' = [bin EXCEPT ![p].quantity = @ + q]

(* The units of SKU s without a bin. *)
Unplaced(s) == bal[s].on_hand - InBins(s)

\* inbound.receive(): a scan of q good or damaged units.
ReceiveScan(d, s, q, damaged) ==
  /\ docs[d].status = "RECEIVING"
  /\ Physical(s) + docs[d].received[s] + docs[d].damaged[s] + q <= MaxUnits
  /\ docs' = IF damaged THEN [docs EXCEPT ![d].damaged[s] = @ + q]
                        ELSE [docs EXCEPT ![d].received[s] = @ + q]
  /\ UNCHANGED <<status, bal, bin, tasks, waves, packed, counts, scan>>

\* inbound.complete(): the lines are posted and the putaway tasks made.
CompleteInbound(d) ==
  LET line(s) == Plus(Receipt(docs[d].received[s]),
                      [Zero EXCEPT !.damaged = docs[d].damaged[s]])
  IN
  /\ docs[d].status = "RECEIVING"
  /\ \E s \in Sku : line(s) # Zero
  /\ bal' = [s \in Sku |-> Plus(bal[s], line(s))]
  /\ docs' = [docs EXCEPT ![d].status = "COMPLETED"]
  /\ UNCHANGED <<status, bin, tasks, waves, packed, counts, scan>>

CancelInbound(d) ==
  /\ docs[d].status = "RECEIVING"
  /\ docs' = [docs EXCEPT ![d].status = "CANCELLED"]
  /\ UNCHANGED <<status, bal, bin, tasks, waves, packed, counts, scan>>

(* putaway(): at most the units that are in no bin yet. *)
Putaway(p, q) ==
  /\ q <= Unplaced(p[2])
  /\ Unlocked({p})
  /\ PutInto(p, q)

PutawayTask(d, p, q) ==
  /\ docs[d].status = "COMPLETED"
  /\ q <= docs[d].received[p[2]] - docs[d].placed[p[2]]
  /\ Putaway(p, q)
  /\ docs' = [docs EXCEPT ![d].placed[p[2]] = @ + q]
  /\ UNCHANGED <<status, bal, tasks, waves, packed, counts, scan>>

FreePutaway(p, q) ==
  /\ Putaway(p, q)
  /\ UNCHANGED <<status, bal, tasks, waves, packed, docs, counts, scan>>

(* POST /inventory/receipts, into a bin or not. *)
ReceiveStock(s, q, b) ==
  /\ Physical(s) + q <= MaxUnits
  /\ bal' = [bal EXCEPT ![s] = Plus(@, Receipt(q))]
  /\ IF b = None THEN UNCHANGED bin
     ELSE Unlocked({<<b, s>>}) /\ PutInto(<<b, s>>, q)
  /\ UNCHANGED <<status, tasks, waves, packed, docs, counts, scan>>

\* Mutant: no bin needs to be named.
AdjustBinUnnamed(s, b, phys) ==
  \/ /\ b \in Bin
     /\ Unlocked({<<b, s>>})
     /\ bin[<<b, s>>].quantity + phys >= bin[<<b, s>>].allocated
     /\ PutInto(<<b, s>>, phys)
  \/ b = None /\ UNCHANGED bin

(* POST /inventory/adjustments: a bin may be named; without one, stock can  *)
(* be taken only from what is in no bin.                                    *)
AdjustBin(s, b, phys) ==
  \/ /\ b \in Bin
     /\ Unlocked({<<b, s>>})
     /\ bin[<<b, s>>].quantity + phys >= bin[<<b, s>>].allocated
     /\ PutInto(<<b, s>>, phys)
  \/ /\ b = None
     /\ phys < 0 => bal[s].on_hand + phys >= InBins(s)
     /\ UNCHANGED bin

Adjust(s, reason, q, b) ==
  LET line == AdjustmentLine(reason, q) IN
  /\ reason = "FOUND" => Physical(s) + q <= MaxUnits
  /\ CanApply(bal[s], line)
  /\ bal' = [bal EXCEPT ![s] = Plus(@, line)]
  /\ AdjustBin(s, b, line.on_hand)
  /\ UNCHANGED <<status, tasks, waves, packed, docs, counts, scan>>

-------------------------------------------------------------------------------
(* Cycle counts, under the count's lock. *)

(* A line for each place of the scope that has stock. *)
CreateCount(n, bs) ==
  /\ counts[n].status = "NEW" /\ bs # {}
  /\ counts' = [counts EXCEPT ![n] =
       [status |-> "OPEN", scope |-> bs,
        lines |-> [p \in {q \in Place : q[1] \in bs /\ bin[q].quantity > 0} |-> None]]]
  /\ UNCHANGED <<status, bal, bin, tasks, waves, packed, docs, scan>>

(* A result, on the line of the place or on a new one. *)
RecordCount(n, p, q) ==
  /\ counts[n].status = "OPEN" /\ p[1] \in counts[n].scope
  /\ counts' = [counts EXCEPT ![n].lines =
       [r \in DOMAIN @ \cup {p} |-> IF r = p THEN q ELSE @[r]]]
  /\ UNCHANGED <<status, bal, bin, tasks, waves, packed, docs, scan>>

SubmitCount(n) ==
  LET lines == counts[n].lines IN
  /\ counts[n].status = "OPEN"
  /\ DOMAIN lines # {} /\ \A p \in DOMAIN lines : lines[p] # None
  /\ counts' = [counts EXCEPT ![n].status = "SUBMITTED"]
  /\ UNCHANGED <<status, bal, bin, tasks, waves, packed, docs, scan>>

\* Mutant: whatever was counted is taken over.
AcceptedAlways(p, q) == TRUE

(* A count cannot take away what pick tasks were given. *)
Accepted(p, q) == q >= bin[p].allocated

(* Each line, in the order of the identifiers, brings its bin to what was   *)
(* counted and the balance by as much; all of them or none.                 *)
ApproveCount(n) ==
  LET lines == counts[n].lines
      (* What the lines of the places ps add. *)
      added(ps) == SumOver(lines, ps) - SumOver([p \in Place |-> bin[p].quantity], ps)
      (* The places of SKU s up to the line of p. *)
      upTo(p) == {r \in DOMAIN lines : r[2] = p[2] /\ IdRank[r[1]] <= IdRank[p[1]]}
  IN
  /\ counts[n].status = "SUBMITTED"
  /\ Unlocked(DOMAIN lines)
  /\ \A p \in DOMAIN lines : lines[p] # bin[p].quantity =>
        /\ Accepted(p, lines[p])
        /\ CanApply(bal[p[2]], Adjustment(added(upTo(p))))
  /\ bin' = [p \in Place |-> IF p \in DOMAIN lines THEN [bin[p] EXCEPT !.quantity = lines[p]]
                                                   ELSE bin[p]]
  /\ bal' = [s \in Sku |-> Plus(bal[s], Adjustment(added({r \in DOMAIN lines : r[2] = s})))]
  /\ counts' = [counts EXCEPT ![n].status = "APPROVED"]
  /\ UNCHANGED <<status, tasks, waves, packed, docs, scan>>

CancelCount(n) ==
  /\ counts[n].status \in {"OPEN", "SUBMITTED"}
  /\ counts' = [counts EXCEPT ![n].status = "CANCELLED"]
  /\ UNCHANGED <<status, bal, bin, tasks, waves, packed, docs, scan>>

-------------------------------------------------------------------------------
(* An empty warehouse, with inbound documents that nothing was scanned for. *)
Init ==
  /\ status = [o \in Order |-> "NEW"]
  /\ bal = [s \in Sku |-> Zero]
  /\ bin = [p \in Place |-> [quantity |-> 0, allocated |-> 0]]
  /\ tasks = <<>> /\ waves = <<>>
  /\ packed = [o \in Order |-> [s \in Sku |-> 0]]
  /\ docs = [d \in Inbound |->
       LET nothing == [s \in Sku |-> 0] IN
       [status |-> "RECEIVING", received |-> nothing, damaged |-> nothing, placed |-> nothing]]
  /\ counts = [n \in Count |-> [status |-> "NEW", scope |-> {}, lines |-> <<>>]]
  /\ scan = [c \in Scanner |-> Free]

Picking(c) ==
  \/ \E i \in DOMAIN tasks : \/ \E q \in 1..tasks[i].quantity : Pick(c, i, q)
                             \/ Short(c, i) \/ Repick(c, i)
  \/ CommitPick(c) \/ CommitShort(c) \/ CommitRepick(c)
  \/ Rollback(c)

Fulfilling ==
  \/ \E o \in Order : \/ Allocate(o) \/ Ship(o) \/ PackComplete(o)
                      \/ \E s \in Sku : \E q \in 1..Need[o][s] : PackScan(o, s, q)
  \/ \E os \in SUBSET Order : CreateWave(os)
  \/ \E i \in DOMAIN tasks : ResolveWithNote(i)

Receiving ==
  \/ \E d \in Inbound : \/ CompleteInbound(d) \/ CancelInbound(d)
                        \/ \E s \in Sku, q \in Quantities, damaged \in BOOLEAN :
                             ReceiveScan(d, s, q, damaged)
                        \/ \E p \in Place, q \in Quantities : PutawayTask(d, p, q)
  \/ \E p \in Place, q \in Quantities : FreePutaway(p, q)
  \/ \E s \in Sku, q \in Quantities, b \in Bin \cup {None} :
        \/ ReceiveStock(s, q, b)
        \/ \E reason \in Reasons : Adjust(s, reason, q, b)

Counting ==
  \E n \in Count : \/ SubmitCount(n) \/ ApproveCount(n) \/ CancelCount(n)
                   \/ \E bs \in SUBSET Bin : CreateCount(n, bs)
                   \/ \E p \in Place, q \in 0..MaxUnits : RecordCount(n, p, q)

Next == (\E c \in Scanner : Picking(c)) \/ Fulfilling \/ Receiving \/ Counting

Spec == Init /\ [][Next]_vars

-------------------------------------------------------------------------------
TypeOK ==
  /\ status \in [Order -> {"NEW", "ALLOCATED", "PICKING", "PACKING", "READY_TO_SHIP", "SHIPPED"}]
  /\ bal \in [Sku -> Balances]
  /\ bin \in [Place -> BinRows]
  /\ tasks \in Seq(Tasks)
  /\ \A i \in DOMAIN tasks : TaskRow(tasks[i], waves) /\ ExceptionRow(tasks[i])
  /\ waves \in Seq(WaveStatus)
  /\ DOMAIN packed = Order /\ \A o \in Order : PackRow(o, packed[o])
  /\ DOMAIN docs = Inbound /\ \A d \in Inbound : DocumentRow(docs[d])
  /\ DOMAIN counts = Count /\ \A n \in Count : CountRow(counts[n])
  /\ scan \in [Scanner -> Scans]

(* The units of SKU s of shipped orders. *)
Shipped(s) == SumOver([o \in Order |-> Need[o][s]], {o \in Order : status[o] = "SHIPPED"})

(* What the tasks ks still have to take from place p. *)
Left(k) == IF IsOpen(k) THEN Remaining(k) ELSE 0
ToTake(ks, p) ==
  SumOver([i \in DOMAIN ks |-> IF Source(ks[i]) = {p} THEN Left(ks[i]) ELSE 0], DOMAIN ks)

(* A bin's allocated count is exactly what its open pick tasks still have   *)
(* to take, and it is there: whatever is picked in parts, reported short,   *)
(* picked again from elsewhere, counted or corrected meanwhile, no pick     *)
(* task finds its bin without the units it was given.                       *)
AllocationsMatchTasks ==
  \A p \in Place :
    /\ bin[p].allocated = ToTake(tasks, p)
    /\ bin[p].allocated <= bin[p].quantity

(* "total isi bin tidak pernah melebihi stok fisik": what the bins hold is  *)
(* part of what the balance has on hand.                                    *)
BinsWithinStock == \A s \in Sku : InBins(s) <= bal[s].on_hand

(* What the code does keep: the bins never hold more than is on hand or has *)
(* left with a courier.  Putaways and adjustments check against the balance *)
(* under its lock while picks change the bins without it.                   *)
BinsBacked == \A s \in Sku : InBins(s) <= bal[s].on_hand + Shipped(s)

(* The bins agree with the tasks and with the balance, whatever is counted,  *)
(* corrected or put away while an order is picked.                           *)
BinsHold == AllocationsMatchTasks /\ BinsBacked

InWave(w) == {i \in DOMAIN tasks : tasks[i].wave = w}
Quiet(w)  == \A c \in Scanner : scan[c] # Free => tasks[scan[c].task].wave # w

(* "status == DONE" once the last task of a wave is picked: when nobody is   *)
(* working on it, a wave is DONE exactly when none of its tasks is left to   *)
(* do.  So it is with one scanner.  Two that finish the last tasks together  *)
(* each count the task of the other, and the wave stays OPEN.                *)
WaveTellsOpenTasks ==
  \A w \in DOMAIN waves :
    Quiet(w) => (waves[w] = "DONE" <=> \A i \in InWave(w) : ~IsOpen(tasks[i]))

(* Task i looks again for what an earlier task of its wave did not find.    *)
LooksAgain(i) ==
  \E j \in InWave(tasks[i].wave) :
    j < i /\ IsFor(tasks[j], tasks[i].order, tasks[i].sku) /\ tasks[j].exc = "REPICKED"

(* What the code does keep, whoever picks, reports short or picks again at   *)
(* the same time: no wave is DONE too early.  A task of a DONE wave that is  *)
(* still to do was made while the wave was being closed, to look again for   *)
(* units that were missing.                                                  *)
DoneIsNotEarly ==
  \A w \in DOMAIN waves :
    waves[w] = "DONE" => \A i \in InWave(w) : IsOpen(tasks[i]) => LooksAgain(i)

(* The warehouse implements the promise of PickPromise. *)
PickPhase(o) == CASE status[o] \in {"NEW", "ALLOCATED"} -> "waiting"
                  [] status[o] = "PICKING"              -> "picking"
                  [] status[o] = "PACKING"              -> "packing"
                  [] status[o] = "READY_TO_SHIP"        -> "ready"
                  [] status[o] = "SHIPPED"              -> "shipped"

(* Units of order o not found, and not looked for again. *)
Lost(k) == IF k.exc \in {"OPEN", "NOTED"} THEN Remaining(k) ELSE 0
Missing(o, s) ==
  SumOver([i \in DOMAIN tasks |-> IF IsFor(tasks[i], o, s) THEN Lost(tasks[i]) ELSE 0], DOMAIN tasks)

Promise == INSTANCE PickPromise WITH
  phase   <- [o \in Order |-> PickPhase(o)],
  picked  <- [o \in Order |-> [s \in Sku |-> Picked(o, s)]],
  missing <- [o \in Order |-> [s \in Sku |-> Missing(o, s)]],
  scanned <- packed

(* No unit of an order is picked twice or forgotten, none is picked once    *)
(* packing has begun, and every parcel is complete.                         *)
KeepsPickPromise == Promise!Spec
==============================================================================
