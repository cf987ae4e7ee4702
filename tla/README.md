# Nexvora in TLA+

Nexvora is a multi-tenant fulfilment service: sellers' orders reserve stock in
warehouses, warehouse staff receive, put away, pick, pack and hand over, couriers
deliver, returns come back. The API (`src/apps/api/app`, FastAPI, async SQLAlchemy,
PostgreSQL) does the work; a worker process runs periodic jobs on the same
database; the web application (`src/apps/web`) is a client of the API.

Everything interesting happens in concurrent database transactions. An HTTP request
is one transaction (`core/db.py:31-35`), a worker job is one transaction under an
advisory lock (`workers/jobs.py:155-179`); PostgreSQL runs them at READ COMMITTED,
so a plain `SELECT` sees whatever is committed at that moment and only rows read
`FOR UPDATE` are safe to decide on. The models follow that: they are about which
reads are locked, in which order locks are taken, what is visible to whom before a
commit, and what a rollback, a crash or a repeated call leaves behind.

## 1. Inventory of the system

| component | state it keeps | operations | talks to |
|---|---|---|---|
| Inventory (`modules/inventory`) | balance row per warehouse and SKU: on_hand, reserved, damaged, returned; append-only ledger | `lock_balances`, `apply`, receipts, adjustments, `reconcile` | called by orders, warehouse, returns, imports; calls `retry_holds` |
| Orders (`modules/orders`) | order: status, payment_status, stock_status, warehouse; reservations with deadline | `create_order`, `run_action` (mark_paid, reserve, allocate, start_picking … ship, deliver, cancel, mark_failed), `expire_reservations`, `retry_holds` | inventory; called by warehouse and shipping; emits events |
| Warehouse (`modules/wms`) | inbound documents, bin stock with allocation, tasks, waves, packages, counts, exceptions | receive, complete, putaway, pick, short, repick, pack scan, pack complete, count, approve | inventory and orders |
| Shipping (`modules/shipping`) | shipment status, courier events, manifests | create, cancel, refresh, poll, webhook, hand-over, manual status | orders (ship, deliver), external courier |
| Returns (`modules/returns`) | return status and per-line quantities | create, decide, receive, inspect, resolve | inventory, orders, warehouse |
| Outbox (`core/events.py`, dispatcher job) | event rows: status, attempts, next attempt | emit, publish, back-off, fail | everything emits; the bus |
| Notifications (`modules/notifications`) | deduplicated notifications, channels, delivery attempts | scan, notify, deliver | dispatcher and maintenance job; e-mail and webhooks |
| Idempotency (`core/idempotency.py`) | key row: request hash, response | begin, complete, purge | order creation, returns, every scan of the warehouse |
| Scanner's queue (`web/src/lib/wms.ts`, `app/scan`) | scans stored on the device | sendOrQueue, flushQueue | the proxy of the web application, `scan_event` |
| Billing (`modules/billing`, `modules/platform`) | subscription status and period, invoices | trial, checkout, cancel, payment, override, lifecycle | worker, payment provider, operator |
| Authentication (`modules/auth`, `modules/users`) | account version and counters, refresh-token families | login, refresh, logout, deactivation | all requests |
| Master data and imports (`modules/catalog`, `users`, `warehouses`, `imports`, `core/entitlements.py`) | active things of each kind, import jobs | create, activate, preview, commit | plan limits, inventory |
| Forecasts and anomalies (`modules/ai`) | forecast rows, findings | rebuild, scan, decide | worker, notifications |
| Courier accounts and choice (`modules/shipping/router.py`, `modules/ai/courier.py`) | accounts, the default one | create, update, recommend | shipments |
| Assistant (`modules/assistant`) | messages | chat, tools, act, clear | a language model, orders, audit log |
| Worker (`workers`) | advisory locks, heartbeats | maintenance, dispatcher, ai jobs | all of the above |
| Tenants, settings, API keys, analytics, reports, audit, metrics | single rows, read-only statistics | create, read, update | – |

What is hard, component by component, and what makes it correct:

* **Inventory and orders.** The candidate warehouses are read without locks and
  locked one by one; payments, cancellations, the expiry job and the retries race for
  the same order; SQLAlchemy's autoflush is off, so memory, the transaction's rows and
  the committed rows differ. Correct means: reserved stock is what the reservations
  promise and is in the building; balance and ledger agree; the three statuses of an
  order tell one story; paid stock never expires; overdue stock is released; waiting
  orders are served; nobody waits in a circle.
* **Warehouse.** Bins, balances and orders count the same units three times; picks,
  counts and put-aways interleave with reservations. Correct means: bins never hold
  more than the building, their allocations are those of the open tasks, a unit of an order is
  picked once or known to be missing, and a parcel holds exactly the items of its order.
* **Shipping and returns.** Courier reports arrive repeated and out of order, by
  webhook and by poll; an external call happens inside the transaction. Correct means:
  statuses only move forward, one active shipment per order, no more units come back
  than went out.
* **Outbox and notifications.** Events and messages leave the system inside transactions that may
  be lost afterwards, and receivers fail, or take something without saying so. Correct means:
  nothing is told of a rollback, nothing is marked as sent that was not, nothing is repeated without a reason
  or notified twice, and everything settles in the end.
* **Idempotency and the scanner.** The same request comes again, at once or a day later, while its key
  is inserted, found or purged; a device is out of reach and sends later what it stored. Correct
  means: done once while the key is kept, and what the user was told is true.
* **Billing.** A payment locks the invoice first, a checkout the subscription; the worker skips what is
  locked; the provider repeats itself. Correct means: one open bill, one period for each payment, money
  that arrives is credited, a grace period ends.
* **Authentication.** Refreshes, logouts and the end of an account look for tokens that others are just
  replacing. Correct means: one live token in a family, none after a revocation, every wrong password counts.
* **Master data and imports.** Limits are counted and then written, without a lock; an import is committed twice at
  once. Correct means: the limit holds where nothing overlaps, an import is applied once.
* **Forecasts, anomalies, couriers.** Rebuilds overlap; days are those of UTC here and of the tenant there;
  lists are cut. Correct means: a forecast counts what its date says, who must be told is told and not
  over and over, one default account, no recommendation that is worse in every respect.
* **Assistant.** A command is offered in one request and confirmed in another, in several windows,
  after rights and orders have changed; tools and the model fail half way. Correct means: only what was confirmed
  and allowed is carried out, once, and recorded; question and answer are kept together.

## 2. Modules

| module | what it is | code |
|---|---|---|
| `Balance` | one balance row and `apply()`; pure definitions | `inventory/service.py`, callers of `apply()` |
| `OrderStock` | orders, reservations, balances and ledger under concurrent transactions | `orders/service.py`, `orders/router.py`, `orders/state.py`, `inventory/service.py`, `inventory/router.py`, `core/db.py`, part of `workers/jobs.py` |
| `StockPromise` | what the two promise together: one atomic step per commit | abstract |
| `MCOrderStock`, `MCOrderStories` | instances for TLC, the second one of two stories | – |
| `OrderStockProofs` | types, row ownership and versions, ledger, deadlines, reservations counted against balances, the statuses of an order, and that `OrderStock` implements `StockPromise`, for all constants | – |
| `Warehouse` | the work in one warehouse: bins, inbound and putaway, waves, picks, packing, counts | `modules/wms`, `inventory/router.py`, `models/wms.py` |
| `PickPromise` | what the warehouse promises of the units of an order | abstract |
| `WarehouseProofs` | types, allocations and bins, that no wave is DONE too early, and that `Warehouse` implements `PickPromise`, for all constants | – |
| `MCWarehouse`, `MCWarehouseStories` | instances for TLC, the second one of two stories | – |
| `Delivery` | shipments, courier reports, manifests and returns of packed orders | `modules/shipping`, `modules/returns`, `models/shipping.py`, part of `orders/service.py` |
| `MCDelivery` | instances for TLC | – |
| `DeliveryProofs` | types, order and parcel, manifests, one open return per order, nothing back twice, for all constants | – |
| `Outbox` | events, the dispatcher, notifications and their deliveries | `core/events.py`, `workers/jobs.py`, `modules/notifications` |
| `MCOutbox` | instances for TLC | – |
| `OutboxProofs` | what is sent, marked and repeated, for all constants | – |
| `Billing` | one subscription and its invoices | `modules/billing`, `modules/platform/router.py` |
| `Sessions` | the account and refresh tokens of a user | `modules/auth`, `core/deps.py`, `modules/users/router.py` |
| `Idempotency` | one key | `core/idempotency.py` and its callers |
| `ScanQueue` | the scanner that is out of reach, as a client of a key | `web/src/lib/wms.ts`, `web/src/app/scan/layout.tsx`, `web/src/app/api/v1/[...path]/route.ts`, `modules/wms/common.py` |
| `Catalog` | limits of the plan and imports | `modules/catalog`, `users`, `warehouses`, `imports`, `core/entitlements.py` |
| `Platform` | these five side by side | – |
| `MCPlatform` | an instance of `Platform` for TLC, one part at a time | – |
| `PlatformProofs` | bills and payments, tokens and revocations and wrong passwords, `KeyHolds`, limits and imports, scans out of reach, and the types of all five, for all constants | – |
| `Totals`, `TotalsProofs` | sums over finite sets, and what is true of them | – |
| `Clock` | days of UTC and of the tenant; pure definitions and the time | `modules/ai` |
| `Anomalies` | findings and who is told | `modules/ai/anomaly.py`, `modules/ai/router.py` |
| `Forecast` | forecasts and the warning of what runs out | `modules/ai/forecast.py`, `workers/jobs.py` |
| `Couriers` | the default account and the recommended courier | `modules/shipping/router.py`, `modules/ai/courier.py` |
| `Assistant` | one user's conversation in several windows | `modules/assistant` |
| `AssistantProofs` | commands and conversation, and the types of all parts of `Insight`, for all constants | – |
| `InsightProofs` | forecasts and warnings, findings, courier accounts and recommendations, for all constants | – |
| `Insight` | `Delivery`, `Anomalies`, `Forecast`, `Couriers` and `Assistant` side by side | – |
| `MCInsight` | an instance of `Insight` for TLC, one part at a time; extends `MCDelivery` | – |

`OrderStock` and `Warehouse` both EXTEND `Balance` and meet in three places: `Allocate` and `Ship`
of `Warehouse` are the committed outcome of reserving and of shipping in `OrderStock`, and the pick
and pack steps of `OrderStock` (`Advance`) are the whole of `Warehouse` seen from the order.
`Delivery` also EXTENDS `Balance` and begins where `Warehouse` ends: its initial orders are
READY_TO_SHIP with their stock reserved. What it puts back on hand or among the damaged units is
stock like any other for the other two. `Outbox` takes up what all of them emit, `Forecast` and `Anomalies` the
orders they leave behind, `Assistant` the status of orders it moves through their handlers; none of these reads
the state of the others closer than that, so each has a state of its own, and a part of another component appears in it as
an action of its environment (`Emit`, `FactArises`, `Sell`, `OthersMove`). `ScanQueue` has the server as
`Idempotency` shows it to a client, and takes from it that a key that is kept is answered and not done again.

### How `OrderStock` corresponds to the code

*Rows.* At most one uncommitted version of a row exists, that of the session holding its
row lock. So an order is `ord[o]` (committed) and `ordW[o]` (working), a balance is
`bal[p]` (committed), `row[p]` (flushed) and `mem[p]` (the ORM object's attributes), the
ledger is its sum, `led[p]` and `ledW[p]`. `olock`, `block` are the row locks.
`Flushed` is `session.flush()`; `Lock` is one row of `lock_balances()`, which sets `mem` to
the row read (`populate_existing`) – what was not flushed before is lost, which is what
`LedgerReconciles` watches.

*Orders.* All reservations of an order are made, settled and dated together, so they are one
batch inside the order record: `hold` (the reservation status), `at` (its warehouse),
`expires` (has a deadline). The status, the payment status and the stock status are the
columns of the order.

*Transactions.* `tx[t]` is what session t is doing: its job, the step it is at, the order, the
warehouse it tries, the candidates left, the rows still to lock, the orders still to
visit. One action is one stretch of code between two points where another session's
commit or lock can matter:

| action | code |
|---|---|
| `StartCreate`, `Pay` | `POST /orders`, `create_order` |
| `StartReserving`, `StartSettling` | `_load(for_update)` and `run_action`, by order action |
| `Choose` | `reserve_order`: already reserved, or the unlocked candidate read |
| `Lock` | one `SELECT … FOR UPDATE` of `lock_balances` |
| `Recheck` | the check under locks, then reserve, or the next candidate |
| `Settle` | `_settle_reservations` and the status change |
| `Advance` | the status changes of the warehouse and delivery |
| `StartReceipt`, `StartAdjust`, `Post` | receipts, inbound completion, stock import, adjustments |
| `RetryHolds`, `NextHold` | `retry_holds`: flush, `FOR UPDATE SKIP LOCKED`, the loop |
| `StartMaintenance`, `ExpireNext` | `run_maintenance`, `expire_reservations`, and the choice of what is retried after it |
| `Commit`, `Raise`, `Crash` | `get_session`: commit, `AppError`, anything else |
| `TimeOut` | a reservation deadline passes |
| `GrowsOld` | the row of a waiting order has not been changed for 30 days |

Left out of `OrderStock` on purpose: the bin side of receipts and adjustments (it is in
`Warehouse`), the returned bucket's callers (returns), names, prices,
events and audit rows. The limits of the lists are kept: `ExpireLimit` (200 overdue ids of a
maintenance run), `RetryLimit` (200 waiting orders after a receipt or an import) and `WorkerLimit` (50 of a
tenant when the worker retries); so is the worker's filter of tenants: it retries as long as one waiting order is
not `stale`, that is, was changed within 30 days (`StillTried`). The upsert of the order counter serialises creations of one tenant; it appears as
orders being used in the order of their numbers. One tenant is enough: every query of the code
filters by tenant.

### How `Warehouse` corresponds to the code

One warehouse. `bal[s]` is its balance, `bin[<<b, s>>]` a row of `bin_stock`, `tasks` and `waves` the
rows of those tables in the order of creation, `packed` is `pack_progress`, `docs` the inbound
documents and their lines, `counts` the cycle counts. A PICK task carries its MISSING exception
(`exc`), the only kind a handler reads again; the PUTAWAY tasks of a document are counted in
its record (`placed`), one for each SKU received.

A handler that first locks its main row (`FOR UPDATE` of the task, the document, the count, the
order, the balance) and decides only on what it has locked takes effect as if it ran at its
commit, so it is one action. Two kinds of read escape the locks:

* the wave of a task: `_close_wave_if_done` counts the other tasks of the wave as they are committed,
  and `repick` reads the wave's status. So `Pick`, `Short` and `Repick` lock, check and read
  (`scan[c]` remembers what), and `CommitPick`, `CommitShort`, `CommitRepick` or `Rollback` end it;
* the bins in `sum_bins`: putaway and adjustments lock the balance, picks do not. They are
  single actions, since each compares the balance with one reading of the bins.

| action | code |
|---|---|
| `CreateWave` | `POST /wms/waves`, `start_picking`; `create_wave`, `begin_picking`, `allocate_pick` |
| `Pick`, `Short`, `Repick` and their commits | `confirm_pick`, `short_pick`, `repick`, `_close_wave_if_done` |
| `ResolveWithNote` | `POST /wms/exceptions/{id}/resolve` with NOTE |
| `PackScan`, `PackComplete` | `packing.scan`, `packing.complete` |
| `ReceiveScan`, `CompleteInbound`, `CancelInbound` | `inbound.receive`, `inbound.complete`, `cancel_inbound` |
| `PutawayTask`, `FreePutaway` | `putaway_task`, `free_putaway`, `inbound.putaway` |
| `ReceiveStock`, `Adjust` | `POST /inventory/receipts`, `POST /inventory/adjustments` with and without a bin |
| `CreateCount` … `CancelCount` | `modules/wms/counting.py` and its routes |
| `Allocate`, `Ship` | `reserve_order` and `ship` as they reach the balance of this warehouse |

`allocate_pick` is a loop over the bins and `create_wave` a loop over orders around it. The model states
their result: laid end to end, the demands of the orders and the free units of the bins are
intervals, and an order gets from a bin the overlap of the two (`Share`). A repick allocates in the bins it has locked. Sums are those of
`Totals`, which counts pieces instead of adding numbers one by one, so that what holds of them can be proved.

Left out: the retry of waiting orders at the end of `inbound.complete` and of a receipt (`OrderStock`
has it; here `Allocate` may follow at once), `system_qty` of count lines (only statistics read it),
weights and boxes, the putaway suggestion, locations that are deactivated, exceptions reported by
hand, and the movement history. The replay of repeated scans by `client_event_id` is in `Idempotency` and `ScanQueue`.

### How `Delivery` corresponds to the code

`ship[o]` is the latest row of `shipments` of order o: a unique index
(`alembic/versions/0005_shipping_returns.py:100`) allows one that is not CANCELLED, and cancelled ones are
never read again. It carries what the courier has told about the parcel (`history`), because a courier
tells everything again at each refresh. `returns[o]` are the returns of the order in the order of
their creation, each of one line. All orders are for one SKU of one warehouse; `bal` is its balance.

| action | code |
|---|---|
| `CreateShipment`, `CancelShipment` | `POST /shipping/shipments`, `…/cancel` |
| `ShipOrder`, `DeliverOrder` | the order actions ship and deliver: `run_action`, `handover`, `mark_delivered_manually` |
| `ManualTracking` | `POST /shipping/shipments/{id}/tracking` |
| `StartRefresh`, `FinishRefresh` | `refresh()`, from the button, the courier's webhook and the worker's `poll_all()` |
| `CreateManifest` … `ManifestCancel` | the routes of `/shipping/manifests` |
| `StartHandover`, `FinishHandover` | `manifest_handover()` |
| `RequestReturn`, `Approve`, `Reject`, `Receive`, `Inspect`, `Refund`, `Close` | `modules/returns/service.py` |
| `AbortRefresh`, `AbortHandover` | an error, a lost connection or a crash before the commit |

Most handlers lock what they decide on and are one action. A refresh is two, because it reads the order
without a lock before it asks the courier, and the session does not read a row again that it has loaded: what
`apply_status()` sees of the order after `FOR UPDATE` is the status before the call (`refreshing[o]`). It holds
the shipment's lock in between (`ShipmentFree`). A hand-over is two, because it reads its packages unlocked;
it holds the manifest's lock (`ManifestFree`).

`Told` is the courier: the simulator's three steps, or for Biteship any sequence of the statuses
`BITESHIP_STATUS` maps to that ends with the first final one. `refresh()` sorts it by rank, what is equal in
the order it was told (`LastOf` is what comes last), and applies one status after the other (`Tracked`).

Left out: the courier's booking and its cancellation (external calls), prices and labels, several couriers
or warehouses in one manifest, the row locks inside `FinishHandover`, and `poll_all()` working on many
shipments in one transaction (each of them is a refresh of its own here).

### How `Outbox` corresponds to the code

`outbox[n]` is the event with id n, from the request that writes it (UNCOMMITTED) to the bus; `note[<<x, d>>]`
counts the notifications of subject x made on day d, `post` their deliveries by channel, `fact` what the scan would find
in the database. A job is one transaction (`dispatch`, `maint`): the rows it took, those left, and what it has written so far.

| action | code |
|---|---|
| `Emit`, `CommitRequest`, `RollbackRequest` | `emit()` and the end of the request |
| `StartDispatch`, `Publish`, `PublishFails`, `CommitDispatch`, `CrashDispatch` | `run_dispatcher`, `run_job` |
| `StartMaintenance` | `scan_all` with `notify`, and the rows `deliver_due` takes |
| `Deliver`, `DeliverUnanswered`, `GiveUp`, `CommitMaintenance`, `CrashMaintenance` | `deliver_due`, `send_webhook`, `send_email` |
| `CreateChannel`, `UpdateChannel` | the routes of channels |
| `EventBackoffEnds`, `PostBackoffEnds`, `NextDay` | time |

Left out: texts, signatures, reading the inbox, tenants other than one. The advisory lock is the reason that there is one run of
each job.

### How the parts of `Platform` correspond to the code

The five are tables and handlers of their own, so `PlatformSpec` is the conjunction of their specifications and `PlatformTypeOK` that
of their types: each part steps or stands still whatever the others do.

`Billing`. A payment locks the invoice (`BeginPayment`), then needs the subscription (`ApplyPayment`); a checkout
locks the subscription (`LockForCheckout`), decides on the row it has locked, and then needs the open invoices (`FinishCheckout`). What was read of the
subscription before, to find out what the tenant may do, is kept by nobody, so the locking read is a new one and cancelling or resuming is one step
(`SetCancel`). `LeaveCheckout` and `LeavePayment` are refusals, lost connections and the victims of the deadlock that these two orders of locks allow. `Lifecycle` is one
subscription's turn in `run_lifecycle`, which skips a locked one. Dates are distances from now, `Tick` lowers them.

`Sessions`. A refresh holds its token's row from `BeginRefresh` to `Refresh`; a revocation is an UPDATE that finds its rows at its
beginning (`BeginRevoke`, `FindAll`) and reaches them one by one, in any order, waiting for a held one: those that are still good it holds from then on
(`Catch`), those that were replaced or revoked meanwhile it passes over (`Miss`), and when none is left it writes (`Reached`). A token that is
replaced between the look and the reach leaves a successor it never sees; the family is then not among those it `covers`. `access`, `over` and
`ended` remember what a revocation had to end.

`Idempotency`. `InsertKey` is the INSERT that waits for another's, `LookAtKey` the SELECT after a conflict, `Complete` work, answer and commit
(the answer may be lost), `FailWork` a rollback, `Purge` the worker's DELETE after 24 hours.

`ScanQueue`. `SendScan`, `ScanAnswered` and `QueueScan` are `sendOrQueue()`; `StartFlush`, `FlushAnswered` and `StopFlush` are `flushQueue()`, one per tab, since
its flag `flushing` is a variable of the page while the queue is in the storage all tabs share. Requests and answers are on their way for
any time; a caller that hears nothing leaves its request behind (`Forget`). The device may fail to store a scan, and the user is told all the
same that it waits there (`Written`, `unwritten`).

`Catalog`. `Passes` is `enforce_limit()`, `Write` the INSERT or UPDATE after it, `BeginCommit` the locked row of an import and what is read of its SKUs,
`CommitProducts` and `CommitStock` the rest.

### How the parts of `Insight` correspond to the code

`InsightSpec` is the conjunction of the specifications again, that of `Delivery` among them. The only variable two parts have in common is the `time` of `Clock`, which
`Anomalies` and `Forecast` read and which passes for both in the same step.

`Anomalies` has the queries for large values, large quantities, a channel's spike and silence and one contact's many orders, with median and
MAD (`RobustZ`, in integers); `Record` inserts what is new by its dedup key and notifies. `Forecast` has a rebuild as `Begin`, `ReadSales`, one `WriteRow` per SKU and
`CommitBuild` – the upsert's row locks in between – and the worker's `CommitAi`. `Couriers` has the UPDATE that takes the default from the others as three
steps (`ClearOthers`, `HaveOthers`, `CommitAccount`), because it sees only what was committed when it began. In all three `Clock` gives the days.

`Assistant`. A question is `BeginChat`, `ReadHistory`, answers of the model (`CallTool`, one for each tool an answer asks for, as many as it likes;
`ModelFails`) or the rules (`RulesAnswer`), and `EndChat`; others move the order as the state machine of orders allows (`OthersMove`); a confirmation is `Confirm`, `LockOrder`,
`CommitAct`; `Abort` ends either. A tool that reads changes nothing but may fail in the database, which the code catches: the transaction can then only be rolled back
(`failed`), while the answer is still shown.

## 3. Runs

| run | question | result |
|---|---|---|
| `orders_core` | `MCOrderStories`: two orders and the worker, with one user and two warehouses, or with two users and one warehouse: types, `NeverOversold`, `StatusesAgree`, `LedgerReconciles`, `PaidStockNeverExpires`, and `OrderStock` implements `StockPromise` (`KeepsPromise`) | hold, about 1.0 million states |
| `worker_liveness` | fair worker with lists of one place: `DueIsReleased`, `FirstInLineIsServed` | hold |
| `waiting_orders` | the documented safety net: no order waits while its stock is there (`WaitingIsServed`) | violated |
| `retries_deadlock` | receipts that retry orders call `lock_balances()` several times: `NoDeadlock` | deadlock |
| `warehouse` | `MCWarehouseStories`: two scanners and two orders of one unit in one wave or two, or an order of two units that is picked in parts while an inbound document, receipts, adjustments and a count change the bins: `AllocationsMatchTasks`, `BinsHold`, `DoneIsNotEarly`, and `Warehouse` implements `PickPromise` (`KeepsPickPromise`) | hold, about 650 thousand states |
| `wave_left_open` | two scanners in one wave: a wave is DONE when nothing of it is left to do (`WaveTellsOpenTasks`) | violated |
| `bins_overflow` | the documented invariant that bins never exceed the stock on hand | violated |
| `insight` | `MCInsight`, one part at a time: an order of two units, a courier of each kind, three returns (`OrderLeavesWithParcel`, `OneOpenReturn`, `NothingComesBackTwice`); two packages in two manifests (`ManifestTakesAll`); orders that are scanned (`FindingsHold`), forecasts (`ForecastsHold`), accounts and parcels (`CouriersHold`), the assistant (`CommandsAreAccountedFor`, `CommandsTakeEffectOnce`, `ConversationIsKept`) | hold, about 780 thousand states |
| `order_returns` | the documented path of an order with a return | violated |
| `messages` | two events of an order, or a fact over two days, a channel switched on and off, a lost run: `SentIsOut`, `RepeatsOnlyAfterCrash`, `ToldOnce`, `EverythingSettles`, `LastingFactIsTold` | hold |
| `event_order` | the documented order of published events | violated |
| `platform` | `MCPlatform`, one part at a time: `InvoicesHold`, `MoneyIsCredited`, `GraceEnds`; `RefreshTokensHold`, `OldAccessEnds`, `AttemptsAreCounted`; `KeyHolds`; `ScansHold`; `CatalogHolds` | hold, about 180 thousand states |

The runs whose last column is not "hold" are disagreements between the code and what it says about
itself, listed in `PROJECT.json` with the quoted lines.

* `waiting_orders`: the worker's list has room for the oldest waiting orders only; one of them that cannot be served, for want of another
  amount or article, keeps its place, and the stock a younger one waits for lies there. And a tenant none of whose waiting orders was changed for 30 days is not
  retried at all, so that stock which comes by an adjustment, where the code calls no `retry_holds()` although its docstring (`orders/service.py:285`)
  says so, finds nobody. What remains true is `FirstInLineIsServed`: an order that stays at the head of the list is served while the tenant is retried.
* `retries_deadlock`: each call of `lock_balances()` sorts its own rows only, and a receipt that retries two orders makes several.
* `wave_left_open`: of two requests that pick the last two tasks of a wave each counts the task of the other as open, since neither is committed, and
  neither closes the wave. What remains true is `DoneIsNotEarly`: a wave is not closed over a task that is to do, unless the task was made to look again while the wave was being closed.
* `bins_overflow`: two units are received into a bin; both are picked for an order; they are now in no bin
  and still on hand, so a putaway of one unit is accepted; the parcel leaves. One unit lies
  in a bin and none is on hand. `BinsHold` is what remains true: the bins never hold more than is
  on hand or has been shipped.
* `order_returns`: a refresh reads the order as SHIPPED and asks the courier; the customer asks for a return;
  the answer is DELIVERED and the order becomes DELIVERED with its return open. What `insight` shows is
  that this goes no further: returns are looked up once the order is locked, so no second
  return is opened, and neither units nor money come back twice.
* `event_order`: the publishing of an event fails; while it waits for its back-off, the next event of the same
  order is published.

`TypeOK`, `PlatformTypeOK` and `InsightTypeOK` contain the types of their parts, with the constraints of the tables (unique keys, checks,
enumerated statuses) as the migrations state them.

*Several properties in one.* Where a promise has several sides, the property that is checked is their conjunction, each with a name and a comment of
its own in the module: `KeyHolds`, `InvoicesHold`, `RefreshTokensHold`, `CatalogHolds`, `FindingsHold`, `ForecastsHold`, `CouriersHold`,
`NothingComesBackTwice`, `CommandsAreAccountedFor`.

*Bounds and why they are enough.* `NumOrders`, `Warehouse`, `Sku`, `Request` are the sizes of the
instance. Two orders that compete for the same units, the first asking for two, the second
for one, and two warehouses with different city preference give every outcome of the
candidate order and the recheck; one user and the worker (the story "places") give every pair of racing
transactions except user against user, which the story "users" adds, with one warehouse, where a user may also find a unit damaged while the worker rests.
`MaxUnits` (2 units of a pair in the building) bounds only what receipts and found
units bring in: two units are exactly enough for one order or the other, never both.
`Quantities` is `{1}`: two receipts make two units. `RetryLimit` is 2, which covers
all waiting orders, as 200 mostly does after a receipt; `WorkerLimit` and `ExpireLimit` are 1, fewer than the orders there are, so that the
worker's lists fill and what does not fit has to wait for the next run. No order grows old in `orders_core`; in the two liveness runs any waiting order may. Symmetry is used for the
users only, and not in the liveness runs.

In `Warehouse` two units, two bins and two to four tasks (`MaxUnits`, `Bin`, `MaxTasks`) are the least in which an order
is served from two bins or from a bin and the receiving area, is picked in part, reported short and
picked again from the other bin; the codes of the bins order them the other way round than their
identifiers do, since waves go by the one and counts by the other. The story "wave" has two scanners and two orders of one unit, which share a wave or
have one each, until they are picked; the story "bins" has one order of two units, which is picked by one or two, one scanner, a document and a count: goods come in by two units
at a time (`Quantities`) and are counted, all bins at once, as zero, one or two. Units become damaged, but are not written
off (which touches the count of damaged units only). The warehouse runs switch deadlock
checking off: a warehouse whose orders are shipped and whose units are used up has nothing left to do.

In `Delivery` one order of two units is enough for returns in two parts, and three returns (`MaxReturns`) for
one that is rejected before (the first of three is that one, and of one unit); a courier reports up to two statuses (`MaxReports`) out of the six outcomes a report
can have (label, under way, failed, delivered, sent back, cancelled; OUT_FOR_DELIVERY behaves like
IN_TRANSIT and comes with the simulator). Two orders are needed only where packages
share a manifest: in that part of the run there are two orders and two manifests, no returns, and a courier that gives a label, picks up
or cancels. Deadlock checking is off: an order whose returns are closed is at its end.

A *story* is a variable of `MCOrderStories`, `MCWarehouseStories`, `MCDelivery`, `MCOutbox`, `MCPlatform` and `MCInsight`, chosen at the start and never changed: which of the parts that share no
state a behaviour is about. The others stand still, which loses no behaviour of any part and keeps their product out of the state
space. A part may have several stories, each with what matters to one question; such a story is a bound like any other:

* `Outbox`: events of an order (2), or one fact (a daily one, one told once) over two days (`MaxDay`); back-off tables of length one, since every
  further entry is the same step again, and one lost run (`MaxCrashes`), since each run starts from the committed rows only.
* `Billing`: "billing" is one plan and all that time, provider, operator and worker do, with two invoices and periods of one unit;
  "checkouts" is two plans that are bought while payments arrive, and no time passes.
* `Sessions`: "sessions" is two requests of any kind and two tokens; "revocations" is one request that revokes beside two that log in or refresh, and three tokens,
  which is what it takes to replace a token while the revocation waits for another; two wrong passwords to a lockout. `Idempotency`: two senders, two bodies, done at most three times. `ScanQueue`:
  two scans, two tabs – one scan that is stored while the other is flushed, and one that both tabs send. Each key expires once.
* `Catalog`: two things of each kind with a limit of one, two editors and one import, one kind after the other.
* `Anomalies`: the thresholds are small (`MinHistory` 3 for 20, `MinDays` 2 for 7, `Repeats` 3 for 4), so that four orders or four days reach both
  sides of each; times of day are the three that tell UTC and Jakarta apart.
* `Forecast`: two SKUs and two sales; "rebuilds" is two at once with still stock, "running out" one with a SKU that may be warned of (`WarnAtMost` 1 for 20).
* `Couriers`: three accounts and two requests, each a creation or an update; three parcels of two carriers.
* `Assistant`: "asking" is two windows that ask, "confirming" two that show an offer each, "both" one window that does everything. The
  model sees two messages (`Remembered`, 11 in the code) and answers twice (`MaxRounds`, 4 in the code), each time with any number of calls: what matters is that there are
  more messages than it sees, and that rounds run out. One order, because a command locks and moves one.

Deadlock checking is off in `insight`, `messages` and `platform`: bounded counters run out. It is on in `orders_core` and the liveness runs.

*Fairness.* `FairSpec` of `OrderStock` assumes that a started transaction goes on, that a waiter for a row lock
gets it when it is free again and again (PostgreSQL queues waiters), that the worker's loop
keeps starting the job (the loop of `main` in `workers/maintenance.py` starts it again after each interval, whatever it raised), and that from some point on
the worker's transaction is not crashed every time. Nothing is assumed of users: a liveness
property about an order is stated for orders users leave alone from some point on
(`Undisturbed`), because the worker skips orders that are locked. `DueIsReleased` asks it of all orders, because the id of one that is always
locked may fill the limited list each time.

`Fairness` of `Outbox` is weak fairness of the two jobs and of time (a back-off ends); that a receiver answers, or a request
commits, is not assumed, and lost runs are bounded by `MaxCrashes`. `BillingFairness` is the worker's loop again, the provider that repeats a notification until it is answered, checkouts that end, and
time; it is strong where the subscription may be locked at the moment, as the worker and the provider come back. Nothing is assumed of the
scanner: whether a stored scan is ever sent depends on the network and on the user, and that a queue empties while the device is in reach is not checked.

## 4. Proofs

The theorems hold for every value of the constants, from the module's assumption alone.

1. `TypeCorrect` – `TypeOK` of `OrderStock`. `TypeInv` adds what a step needs to know about its own transaction
   (`Sane`: a session that works on an order has one) and that an active reservation is in a
   warehouse. That balances stay natural numbers is the work of `apply()`'s checks.
2. `Owned` – not implied by any checked property and the reason the others are inductive: a
   session works only on orders it has locked; what it is about to reserve or settle is locked
   or still on its list (`Owns`); an unlocked balance has only one version and memory differs
   from the flushed row only right before a flush (`BalanceVersions`); an unlocked order has
   one version and no version of a paid order has a deadline (`OrderVersions`).
   `LedgerCorrect` and `PaidStockCorrect` follow.
3. `AllCounted` – the reserved count is the number of promised units in the committed tables and in
   the working ones, and an order whose two versions differ in what they hold of a balance
   has that balance locked by the same session. Only the last part makes a commit
   provable: it publishes orders and balances together. `OversoldCorrect` follows.
4. `StatusesCorrect` and `PromiseKept` (`OrderStockProofs`) – `Told` says for both versions of an order how its statuses and its
   reservation go together (`Tells`), and that the working version is at most one move of `StockPromise` ahead of the committed one (`Moved`). What
   makes a commit one step of the abstract specification is about the session: nobody settles an order that is gone, an order that is retried is
   still open, and a transaction that ships has locked one order and its balances and changed nothing else (`Knows`). A commit then maps to the step of
   the order it publishes, every other action to a stutter.
5. `AllocationsCorrect` (`WarehouseProofs`) – what is allocated in a bin is what the open tasks have still to take from it. `Inv` adds: a scanner
   between its read and its commit works on a task nobody else works on and has read of it what is still true (`Sane`: that nothing else writes a task
   or bin a scanner holds is the substance of the proof), and a task that is not DONE has units left. Of the wave's loop
   it is proved that the shares of the orders, as overlaps of intervals, never exceed what is free (`Wanted`, `OfferedIn`). `BinsCorrect` –
   relative to `Inv`, `BinsBacked` is inductive: a count and a correction compare with what is locked, a putaway with the balance, and a pick only takes.
   `TypeCorrect` there includes the table constraints of tasks, waves, documents and counts.
   `PickPromiseKept` – `Demanded` says that the tasks of an order account for exactly what it asks for (`Sought`: a task that is picked again counts for what
   was picked of it, its successors for the rest), that there are none before its wave, and that everything is picked once packing has begun. Two facts carry it: new tasks
   for n units are for n units in all, whatever the bins offer (`NewTasksCount`), and an order that has a task with units left is being picked and has
   room for them (`PickingOrder`). A commit then maps to `Pick`, `Miss` or `SearchAgain`, a wave to `Start`, the packing station to `Scan` and `Ready`.
6. `RefreshTokensSafe`, `OldAccessRefused`, `AttemptsCounted` (`PlatformProofs`) – for any number of requests, tokens and families, from one invariant, `Sound`:
   a refresh holds the only good token of its family alone; what a revocation has reached is good and nobody else's (`CaughtOK`); and of each family it covers it has
   every good token, among those it has reached or has still to reach, or one still to reach that is good no more, from which it will learn that it does not cover the
   family (`FoundAll`, `Doomed`). So a token that is replaced before the UPDATE comes to it never leaves a good one in a family that counts as ended. As long as no two revocations
   overlap, nothing was issued under a later version than the present one and a revocation has read the present one (`VersionsInv`); a login holds the account as it has read it (`AttemptsInv`).
7. `OneReturnAtATime` (`DeliveryProofs`) – two places of an order's list of returns that both hold an open
   return are the same place. New returns are appended only after the lookup under the order's lock
   (`AppendKeeps`), and no step opens a closed one (`ChangeKeeps`); what a refresh has read of the order does not
   enter the argument. It needs no assumption on the constants.
   `TypeCorrect`, `LeavesWithParcel`, `ManifestComplete`, `NothingTwice` – from one invariant, `DeliveryInv`. `ParcelOK` says of one order, its
   shipment and what a refresh has read: the courier is asked only about a parcel that has not ended, and a package in a manifest that waits has its label. What is told
   of a parcel keeps it waiting (or cancels it) or keeps it under way (`AdvanceKinds`), hence so does a refresh with any history (`TrackedKinds`). `ManifestOK`:
   while a manifest is handed over it is open, and no package lies in it that was not read. `ReturnsOK` bounds what was announced and refunded over the returns of an order that are
   not rejected; `StockInv` says that the balance holds the units of the orders that wait and what was received of returns, to the unit. A refresh that makes a
   return of an order it has read long ago counts the returns as they are then, and that is all the proof asks of it.
   `Tracked` goes through a history of any length: it is a recursive function on the sets of its reports, each without the one that is sorted last (`LastOf`).
   That such a function exists, and what holds of its values, follows from the least set for which it would not (`TrackExists`, `TrackedStays`).
8. `KeyServes` (`PlatformProofs`) – `KeyHolds` for any number of senders, bodies and repetitions. `Kept` adds: the one request that has
   inserted the row is working and there is no committed row beside it (`OneInserts`); and, as long as nothing was purged, the committed row stands for
   the only thing that was done and nobody works without a row (`RowTells`). After a purge only the truth of the answers remains.
9. `CommandsAccounted`, `CommandsOnce`, `ConversationKept` (`AssistantProofs`) – for any number of windows, orders, messages and calls of the model. `Good`
   adds: a request that is confirming has the rights it needs (`SaneRequest`); while it holds the order's lock, the order stays as it was found, and
   no other window holds it (`Locks`); and an order is, after a command, in a status no command of the same name starts from (`Behind`, `Past`). The last is why a
   second confirmation has no effect: the state machine has no way back. `Numbered` is the same for the conversation: messages are saved in pairs under numbers nobody has had.
   That the question is not among what the model is given before it is proved, as it is stated, only while no other request of the user has taken a later number (see 5).
10. `TypeCorrect`, `SentCorrect`, `RepeatsBounded`, `ToldCorrect` (`OutboxProofs`) – for any number of events, facts, days, channels and lost runs. The counters
   of what went out are in no table; `Inv` ties them to the rows. An event or a delivery went out at most as often as its row, *as the run under way has written it so far*, counts attempts,
   and once more for each lost run (`EventNow`, `PostNow`): a lost run takes back the one attempt by which its row is ahead of the table. `DispatchInv` and `MaintInv` say
   that a row a run has taken is still to be sent in the table, so that nobody else has changed it, and that the notifications a run is going to
   insert are not there and that no two of them are of the same subject. That the two jobs do not take this from each other
   rests on what they write: one notifies of events, the other of facts. The number of a daily fact's rows is bounded by its days alone.
11. `InvoicesCorrect`, `BillingTypes` (`PlatformProofs`) – for any numbers of plans and invoices. `BillingInv` adds that who has locked the subscription is at
   the checkout of an offer, so that what it writes is an invoice (`CheckoutsOK`); its kind is decided under the lock. There is one open invoice because a checkout closes what is open
   and the worker bills only when nothing is; neither touches a paid one, and the number of a new one was not in use: the least free number exists. That a payment is
   applied once does not need the lock of the invoice: `apply_payment` looks at its status again, and what is PAID is not payable.
12. `CatalogCorrect` (`PlatformProofs`) – for any numbers of things, editors and imports. `RoomLeft` says that an editor who has passed the limit may still
   write, as long as nobody has overtaken him (`raced`); `SkusThere`, that an import holds only SKUs that exist, but for those of a file of products that its commit
   has found missing, and `Imported` that what a SKU received is the number of committed imports that hold it – finite sets that grow by the one import that is committed.
13. `ScansCorrect` (`PlatformProofs`) – for any scans and tabs. A scan whose key was purged may be applied again, and of one the device could not store the user is told
   what is not true; the theorem says that nothing else goes wrong. Two facts that no property states carry it (`ScanInv`): as long as its key was not purged, a scan was applied as often as its key is
   kept, once or not at all (`ServerOK`), which is why a repeated request does nothing; and no scan is stored that was not sent before (`DeviceOK`), so that it is stored once, and taking it out
   leaves every other one in the queue (`TakenFromSequence`).
14. `ForecastsCorrect`, `ForecastTypes` (`InsightProofs`) – for any numbers of SKUs, rebuilds, sales, days and weights. `BuildsOK`: a rebuild that has read the sales has read
   at least those there were when it began, and a row is written by who has read (`FitStays`: what the first n orders say does not change when more are added). That a list cut off at
   `WarnAtMost` has all critical SKUs when there is room is a matter of its order: one that is missing would stand behind critical ones only, and there would be more of them than there are
   (`CriticalIsListed`); that being critical and having one of the two worst risks is the same, of the rounding up of days (`RoundedUp`).
15. `CouriersCorrect` (`InsightProofs`) – for any accounts, requests and parcels. For `OneDefaultAccount`, `DefaultInv`: as long as no two requests have crossed – that is, both make an account the default
   that was not, and one of them inserts an account that the other's UPDATE does not see – who is about to make an account the default
   has found everybody who is (`TakesFromAll`), and of two such requests one waits for the other (`OneWaits`): the later one has found the account of the earlier one, whose
   row is locked until its commit (`LocksOK`) and was there when the UPDATE began. For `NoBetterCourier`, each of the three numbers a score is made from grows with what it is about, whatever is rounded on the way: the smoothed part that
   arrived (`PartGrows`, of `QuotientGrows`: the larger fraction has the larger whole part), and the scale from the lowest to the highest mean (`ScaledFalls`).
16. `FindingsCorrect` (`InsightProofs`) – for any orders, sizes and days. `LargeOrdersAreSeen` is about medians: the k-th of finitely many numbers exists (`NthExists`) and is small, for a k in the
   middle, when most of them are (`NthIsSmall`); so an order ten times as large as most is five times the doubled median, no distance of most from the median is more than a fifth of it, and it is far above by
   the scale of `robust_z`, whatever the others are (`TenTimesIsFarAbove`). `ToldInTime`: a spike is told on the day its key names or the one after, as the day of Jakarta
   is ahead of that of UTC by one at most; so a day has the spikes of two keys at most, and between 07:00 and 24:00 one that was told before was told today.
17. `DoneCorrect` (`WarehouseProofs`) – for any numbers of scanners in one wave, without a hypothesis. `WavesInv` adds what a request under way has counted: who is going to close the wave
   of its task saw no other task to do (`ClosesLast`), and that is still so when it commits, since tasks only move on (`TasksMoveOn`, `Later`) and a task that is new in a wave looks again for
   units another one did not find (`NewOnesLookAgain`). The converse – that a wave with nothing left to do is DONE – is what two scanners break (`wave_left_open`), and no theorem claims it.
18. `SessionsTypes` (`PlatformProofs`), `AssistantTypes` (`AssistantProofs`), `CouriersTypes` (`InsightProofs`) – beyond the types the other proofs need. `Within`: a revocation holds the
   version it has read, which may still rise by one, until it writes the next. `Filed`: a question has a number that no message and no other request has, until it is saved (`OwnQuestion`), which is why a
   message is saved once; of the messages read one is left out, so that the model is given fewer (`FewAreGiven`); and rules make a command only of what names an order (`ParseTells`).
   `PlatformTypes` and `InsightTypes` put the types of all parts together.

Every inductive invariant was checked by TLC before it was proved: those of `OrderStock` on the constants of `orders_core`, those of `Warehouse` (`Inv`, `BinsBacked`, `WavesInv`) on those
of `warehouse`, those of 6, 8, 11 to 13 and `Within` on those of `platform`, `Inv` of 10 on those of `messages`, and `DeliveryInv`, `Good`, `Filed` and those of 14 to 16 on those of `insight`.

Sums are `Totals`: the sum of n[x] over a finite set is the number of pieces n cuts it into, so that what a proof needs – a sum over a union, over
a set with one element changed, a sum of sums – follows from the cardinality of finite sets instead of an induction (`TotalsProofs`).

Every invariant and action property of the passing runs is stated by a theorem. Only model-checked are the liveness properties (fairness and ENABLED are out of the
prover's reach); `NoDeadlock` and the other properties of runs that find a violation are false.

## 5. What was noticed on the way

No run is about these; the models contain them, and the properties say what holds all the same.

* Billing: the provider's charge of a checkout that is rolled back belongs
  to no invoice; the payment of an invoice that became VOID is refused for good; usage is compared with a smaller plan at checkout and not again at payment.
* Sessions: a token that is replaced after the UPDATE of a logout, of a change of password or of a detected reuse has looked, and before it comes to its row, leaves
  a successor that stays good, although `auth/service.py:108` revokes "seluruh keluarga" (the whole family). Two revocations that overlap raise the version to the same number, so an access token issued in between survives the second. Two requests of one browser whose access token
  has expired refresh with the same token, and the second one is taken for theft: the family is revoked.
* Idempotency: who finds a key taken and then purged works without a row; in `ScanQueue`, a scan that waits on a device for longer than the key is kept
  (24 hours) may be applied twice, while `docs/FASE3_WMS.md:37` says without a condition that sending again never records stock twice.
* Scanner: an error of any kind during a flush – an expired session, the proxy that does not reach the API – takes the scan off the queue and is shown once; a scan that is refused by the proxy after the API has applied
  it is scanned again under a new id; a scan made on line overtakes the stored ones; when the storage is full, the user is told that the scan waits in the device, where it is not (`wms.ts:64`, `wms.ts:79-80`).
* Catalog: the import of products does not ask for the limit of SKUs; two creations at once may pass it together. Rows with an unreadable number are reported and imported all the same.
* Forecast: what follows the first SKU of the list that is not critical, or the twentieth, is not warned of; a lead time of zero is read as seven by the worker. Anomalies: the key of a daily finding has
  the day of UTC, so a spike of one day in Jakarta may be told twice.
* Couriers: two accounts inserted as the default at the same time are both the default, and so are an inserted one and one that is updated beside it, since an UPDATE
  does not see what is inserted after it began.
* Assistant: the transaction stays open while the model is asked (up to 45 seconds for each of up to four calls); when a reading tool fails in the database, neither question nor answer can be
  saved; a message another window saves at the same time makes the model see a question twice; `/act` carries out any command the user may give, offered or not.

## 6. Plan

1. Liveness of `ScanQueue` for a device that is in reach from some point on; two lines per return in `Delivery`.
2. The two queries of `scan()` that are missing in `Anomalies` (returns, short picks).

## 7. Not modelled

* Tenants, settings, API keys and the operator's lists: each request reads or writes one row of its own. All queries filter by tenant and every model has one.
* Analytics and reports: figures from sessions that cannot write; nothing depends on them.
* Audit log (except that the assistant writes an entry for each command), metrics, middleware, configuration, rate limits in Redis.
* The web application, except for the scanner's queue: it shows what the API answers.
* External services (couriers, payment provider, language model, e-mail, bus) appear as what they can do to the code: answer, answer late, more than once, or not at all.
