# Verification of the YNF Deals live-sale backend

TLA+ models of the part of this repository that decides what is sold, what the
stock is and who may write: `whatnot-collector/server/company_db.py` with the
request handlers around it, the ingest of auction winners, TikTok's orders, the
collectors and the background tasks. Paths below are relative to
`src/whatnot-collector/` unless they start with `src/`.

## 1. The system

Operators run live auctions (Whatnot, TikTok) and sell at a counter. A collector
reads the stream and reports who won which lot; the server makes a ticket of it;
an operator scans the products of the lot; a confirmation puts them on the
buyer's sale order; payment takes them from the stock; undo, cancellation and
deletion should give them back. TikTok sells on its own and is synchronised.
Everything is in PostgreSQL. Requests are served by threads (FastAPI, and a
legacy server behind it), background work by Celery workers, the collectors are
processes of their own.

Every operation of `company_db.py` opens one or several transactions with
`pg_domain_tx` (`server/postgres_cutover.py:633`): a pooled connection, READ
COMMITTED, commit on success, rollback on an exception. The code takes no
explicit row locks (`SELECT .. FOR UPDATE`) and has no unique key on the
movements. Helpers such as `get_sale_order` read on a connection of their own.
So the typical handler reads, decides, and writes in another transaction, and
two handlers interleave between those. That is the subject of this project.

| Component | State | Operations | What is hard | What makes it correct |
|---|---|---|---|---|
| Inventory ledger (`company_db.py:963-1033`) | `products.on_hand_qty`, `inventory_movements` | record a movement | many writers | stock changes only with movement rows that add up to the change |
| Sale orders (`company_db.py:4378-4529, 9331-9495`; `app/services/legacy_order_mutation_service.py`; slip import in `legacy_sidecar_ops_service.py`) | orders, lines, `inventory_applied` | update, synchronise, apply, reverse, add / edit / delete a line, import a slip | apply and reverse decide by a SELECT, several transactions per request, stale rows, lock order | no double deduction or return, an applied line has its deduction, a sale holds its stock |
| Winner assignments (`company_db.py:2437-4352, 8596-8662, 10345-10380`; `legacy_mutation_service.py`) | lots, scanned items and reservations, status, the buyer's order | queue, scan, reserve, remove, confirm, undo, change status, approve, cancel as overdue, delete | four to six transactions per request, swallowed errors, two operators on one lot | a lot is sold once, its status and lines agree, stock is out exactly for applied lines |
| Auction results and ingest (`src/collector/main.py:1055-1162`, `server/api.py:6229-6511, 10407-10453, 12182-12199`, `company_db.py:2125-2345, 2965-3113`, `ingest_cutover.py:501-587`) | events, lots, results, tickets, failed ingests | poll events or stats, ingest a winner, retry, put aside | every poll replays old events, an exception ends the batch, check and insert in two transactions | an answered winner has a ticket, one ticket per winner, prices and sold lots stay |
| Collector loop and lot history (`src/collector/main.py:870-1244`, `server/events_db.py:243-476, 2905-2985`, `ingest_cutover.py:187-244, 376-498`) | what the loop has seen, `events`, `lots` | post lots, bids, states, winners; open and close rows of lots; rebuild the sold lots; backfill them | the page moves on while it is read, writes fail unnoticed, a restart forgets everything, two writers of `lots` | a sale is posted once and as it was, history and rows name who bought the lot |
| In-house orders (POS) (`company_db.py:5128-6334`) | invoices, lines, sales | create, update, split, merge, approve, reject, cancel; by staff and by guest routes | stock and sales are corrected across edits, splits and merges | one sale per approved line, sold units are those that left the stock |
| Purchases (`company_db.py:7266-7644`) | purchase orders, received quantities | create, update, receive, delete | absolute write of a quantity read before | nothing received that did not arrive, lines, movements and status agree |
| TikTok orders (`company_db.py:10553-10940`, `server/api.py:2655-2869`, `app/services/tiktok_shop_integration_service.py:2990-3480`, `tiktok_shop_db.py`) | TikTok's sale orders and lines, lot items, webhook events, returns | import live and shop orders, webhook, returns, correct a lot's product, apply the session | imports repeated, events late, repeated and out of order, six transactions per import | one sale per TikTok order, stock out once, back with the return |
| TikTok drafts (`tiktok_shop_integration_service.py:2334-2593`, `tiktok_shop_db.py:284-374`) | drafts at TikTok, the mapping | bulk push, also of mapped products by force, bulk deletion; push of one product, enrichment from the drafts | a remote call and a local row, requests without a lock | a product has one draft, but for what was asked for by name or by force, and it stays mapped |
| Task runtime (`app/core/task_runtime.py`, `app/repositories/redis/lock_repo.py`) | Redis locks with a time to live | run under a lock, fall back | body run again after its own failure, expiry under a running body, unconditional release | locked bodies exclude one another until a lock expires under one |
| Collectors (`src/collector/main.py:210-243, 900-913`, `server/collector_manager.py`) | lease file, state file, processes | claim, refresh, take over; start, watch, stop | time to live, iterations that outlive it, zombies, orphans, two files | one timely writer of a role, an abandoned lease is taken over |
| Transactions and pool (`server/postgres_cutover.py`) | pooled connections | connect, reset, commit, roll back | a reset closes connections others use | a transaction ends as a whole |
| Shared state files (`server/state.py`) | JSON files | read, change, write back | several threads and processes, no lock across the two | no lost update |
| Reconciler, Redis mirror, authentication, HTTP routing, analytics, PDF and page parsing, scanner daemon, Odoo addons (`src/custom-odoo-addons`), OBS overlays, tools | | | | |

The components interact by calls inside one process (a confirmation calls
`get_or_create_buyer_sale_order` and `apply_sale_order_inventory`; an import
calls `update_sale_order`, which synchronises the stock; a session poll ingests
the winners), through the shared tables, through two files and, for background
work, through the broker and Redis.

## 2. The modules

| Module | Models | Granularity |
|---|---|---|
| `StockLedger` | the abstract specification: stock and movements, one action `Record` that appends any rows and moves the stock by their sum | what every transaction that moves stock may do |
| `SaleOrderInventory` | sale orders and the two stock transactions | statements, row locks, deadlocks |
| `WinnerAssignment` | the lots an operator works on | transactions |
| `StockMovement` | stock and movements as the next six share them | a transaction's rows at its commit |
| `InHouseOrders`, `PurchaseOrders` | POS invoices; purchases | a transaction's reads, then its commit |
| `TikTokSales`, `TikTokLive`, `TikTokShop`, `TikTokOrders` | TikTok's sale orders; live lots; shop orders, events and returns; both, with TikTok itself | transactions |
| `Warehouse` | counter, purchases and TikTok over **one** stock, at the same time | composition |
| `StreamTables`, `LotCollector` | the transactions on `events` and `lots`; the collector's loop and the page it watches | one event or row |
| `SoldLots`, `LiveHistory` | the sold lots rebuilt from events, as functions of a sequence; the loop and the backfill over one table | one row |
| `WinnerIngest`, `LiveSession` | from the collector's events to tickets; with polls, retries, the operator and failures | transactions |
| `CollectorHA` | collectors, lease, supervisor | iterations; each read or write of a file |
| `TaskRuntime`, `ShopDrafts` | locked tasks; the two bulk tasks on TikTok drafts and the requests beside them | calls to Redis and TikTok, rows |
| `Background` | `CollectorHA` and `ShopDrafts` on one clock | composition |
| `SaleOrderInventoryProofs`, `WinnerAssignmentProofs`, `WarehouseProofs`, `SalesProofs`, `LiveSessionProofs`, `LiveHistoryProofs`, `BackgroundProofs` | the theorems | |
| `SumProofs` | lemmas on sums over sets and sequences | |
| `MCSaleOrder`, `MCWinner`, `MCWarehouse`, `MCLiveSession`, `MCLiveHistory`, `MCBackground` | constant values for TLC | |

### Sale orders

| Variable | Code |
|---|---|
| `order` | `sale_orders.state`, `payment_status` |
| `line` | `sale_order_lines`: presence, order, product, qty, `inventory_applied`; for the properties only, the products a line added with its flag set has had (`given`), and whether its quantity was edited while flagged (`altered`) |
| `onHand`, `movements` | `products.on_hand_qty`, `inventory_movements` (reference, id, product, delta) |
| `pc`, `req` | a handler's place and what it has read |
| `tx` | the open apply or reverse transaction: rows still to go over, movements it has inserted, lines it has flagged |

A request is read (`ReadOrder`, `ReadSlip`), the order updated (`UpdateOrder`),
read again on another connection (`SyncRead`, `_sync_sale_order_inventory_state`),
and one or two apply / reverse transactions run: the first SELECTs
(`BeginTransaction`), for each line the SELECT for an existing movement
(`CheckRow`) and the INSERT and UPDATEs (`WriteRow`), the commit
(`CommitTransaction`). After the first SELECTs a transaction goes over the rows
it has fetched, not the table: a row deleted meanwhile still takes its
movement. Uncommitted rows are visible to their own transaction only; rows it
has updated are locked (`LocksProduct`, `LocksLine`) and others wait
(`Blockers`), until the commit or until the database breaks a deadlock
(`BreakDeadlock`). `mutate_sale_order_update` applies or reverses a second time
after `update_sale_order` has done so: `RouteRepeats`. `Fail` ends a handler
anywhere with its open transaction rolled back (a connection, worker or host
fails).

### Winner assignments

One request is many transactions: a confirmation is `ConfirmRead`, `LookUp`,
`Create`, `ConfirmFind`, `ConfirmLot`, `Apply`, `ReleaseReservation`. State:
`lot` (assignment and result), `item` (quantity and `reserved_qty` of a product
of a lot), `order`, `buyerOrder` (`buyer_groups.sale_order_id`), `line`, the
stock, and for each handler `pc` and `job`; `setting` is chosen at the start and
never changes: whose session it is, which lots, handlers, routes and failures
occur. The stock transactions are single actions here (`ApplyOrder`,
`ReverseOrder`); their interleavings are `SaleOrderInventory`'s. The main
transaction of the confirmation is in two steps, since what it reads first and
what it writes last can be separated by a deletion: in between it holds the rows
it has reserved (`Holds`).

### Counter and purchases

`InHouseOrders` has `invoices`, `invoiceLines`, `sales` and for each thread
`clerk`; `PurchaseOrders` has `purchases`, `purchaseLines` and `buyer`. Every
operation is one transaction of the code, split where another transaction's
commit can come between a read and the write that relies on it: the head row,
the lines, the commit. Guest routes read the status in a transaction of their
own before (`GuestRequest`). An update of a purchase order writes the head row
first and holds its lock (`OrderFree`); a receipt locks the lines it has written
(`LinesFree`) and reads both without a lock.

### TikTok

| Variable | Code |
|---|---|
| `remote`, `returned`, `events` | what TikTok says of an order, final returns, posted events (the environment: `Changes`, `Returns`) |
| `tkOrders`, `tkLines` | `sale_orders` and `sale_order_lines` with an `external_order_ref` |
| `lotItems` | `company_lot_items` of the session's lots |
| `seenEvents`, `returnsDone` | `tiktok_webhook_events.event_id`, `tiktok_returns.processed` |
| `agent` | a thread's request and what it has read |
| `corrected`, `astray`, `crossed` | history, read by properties only |

`TakeStock`, `GiveStockBack` and `BringInLine` are `apply_sale_order_inventory`,
`reverse_sale_order_inventory` and `_sync_sale_order_inventory_state` for these
orders. A live import lists the orders once and then updates or creates one
after the other (`ListSales`, `UpdateLiveSale`, `SyncLiveSale`, `SettleLiveSale`;
`CreateLiveSale`, `AddLiveLine`, `ApplyLiveSale`), an error ends a row. A shop
import finds, updates or creates one order. A webhook records the event first,
so that one that fails is a duplicate the next time. `replace_tiktok_live_lot_product`
is `ReadLotLine` and `CorrectLine`, `apply_tiktok_live_session_inventory`
`SessionRequest` and `ApplySession`.

### Collector loop and history

| Variable | Code |
|---|---|
| `page`, `sales` | the auction page, and what was really sold (the environment, history) |
| `collector` | the local variables of `run`: what it saw at the start of the iteration, title, number, last price and state, last winner and its key, the id of the row it has open |
| `events`, `rows` | the tables `events` and `lots` |
| `backfill` | what `backfill_users_and_lots` has still to write, and the row it has open |

An iteration reads the page once (`Look`) and then compares and writes, one step
for each write (`LotUpdate`, `OpenLot`, `StateUpdate`, `BidUpdate`,
`WinnerUpdate`, `CloseLot`); whether a winner is final, and the price of the sale,
are read from the page as it is by then (`WinnerIsFinal`, `LivePrice`). A write
may fail and the loop goes on (`Fails`). `Restart` is a process that dies and the
next one, `SkipTick` a page that navigates under the loop. `History` is
`_reconstruct_sold_lots`: `Stitched` goes over the events, `Deduplicated` and
`Merged` are its two passes. The backfill reads the events once and then writes
row by row.

### Ingest

`WinnerIngest` goes through `_maybe_ingest_winner_event` lookup by lookup
(`CheckDuplicate`, `FindLot`, `CheckRecorded`, `FindResult`, `InsertResult` or
`UpgradeResult`, `LookUpTicket`, `QueueTicket`, `SellLot`). Nothing consumes
events: a stats poll (`PollStats`) starts with the oldest recent one, a client of
`/events` (`PollFeed`) after its cursor, and a raised exception (`Raise`, `Break`,
a unique key) ends the batch. `LiveSession` adds the stream (a script out of
`Workloads`), the polls, the operator and time.

### Collectors, tasks, drafts

`CollectorHA`: `proc` (role, alive, zombie, whether the server is its parent,
how long its iteration lasts), `lease`, `file` (the state file), `server` (each
request thread's place and copy of the file). The lease is claimed under its
lock file, so `Refresh` is one action; the state file is not, so its read and
write are apart. An iteration may last longer than the lease (`page.goto` waits up
to 15 seconds and is followed by writes all the same, `main.py:934-938`): it is then
`Late`. `TaskRuntime`: `lock`, `worker` and `overruns`, how often a task's lock has
expired under a body; what a body does is the extending module's business.
`ShopDrafts`: `draft` (what is at TikTok), `mapped` (`tiktok_product_map`), `body`,
and for the two requests without a lock, `push_product_to_tiktok` and
`enrich_inventory_from_tiktok_drafts`, `unsaved` (drafts made and not mapped yet)
and `fetched` (drafts listed and still to be mapped). `ReadMaps` takes the unmapped
products and any of the mapped ones, those whose status is in `force_statuses`.
`extra` counts, for the properties, the pushes of a product by name or by force and
its enrichments.

### Abstractions

All are meant to keep the control.

- Money, names, descriptions, fulfilment and tracking fields, totals
  (`_pg_recalc_sale_order_txn`, `_recalc_session_totals`), customers, audit rows
  and `tiktok_quantity` are left out; no modelled decision reads them.
- Sale orders: a line added from a packing slip is told apart by its product, not
  by its description; one item of a slip is imported per request.
- Winner assignments: all lots are one buyer's, who has one buyer group: what lots
  of different buyers share is the product's stock only. A slip approval and an
  overdue cancellation handle one lot per request: the code loops over lots and
  the loops carry no state. For lots of TikTok sessions the order has no
  `tiktok_live:` reference, since `get_or_create_buyer_sale_order` sets none. A
  lot's result and its assignment are deleted together with the read before
  (`DeleteLot`), in the code one transaction; likewise the transactions that
  remove an item and that change a status. The retry loop of the confirmation
  (`company_db.py:3702-3707`) is the same as a later first read. The fallback to
  `assigned_product_id` is left out: every path that writes the column writes
  NULL. A swallowed error (`Swallow`) is taken where the code has `except: pass`
  around a transaction; any other error ends the request, like `Crash`.
- Counter: all invoices are of one employee, the worst case for finding sales by
  the text of their notes; the status `draft` is unreachable; an update that
  replaces the notes, employees' accounts and balances are not modelled. The
  branches of an update for added and removed lines of an approved invoice are
  dead code, since an approved invoice keeps its lines.
- Purchases: bargain sessions, product costs and the locks of `ALTER TABLE` are
  left out.
- TikTok: an item is one unit, a lot has one order. Which product a seller's SKU
  matches is the constant `Contents`; a lot without items gets a line without a
  product. The import of shop orders is taken to be enabled. A webhook about a
  return starts the same synchronisation as the operator does. An event that is
  answered as a duplicate changes nothing and is not a step. The reservations of
  pending live rows and the monitoring window of returns are left out.
- Collector loop: times and the windows of `_reconstruct_sold_lots` (20, 45, 120,
  600 seconds) are small numbers in the same order (`WindowsGrow`); the title of a
  lot is its product and its number; an auction lasts longer than an iteration
  (`AuctionOutlastsIteration`). Chat, viewers, the list of bidders, the table of
  users, the shop panel and a winner's text that is no user name are left out. The
  script of the page is a workload's `show`.
- Ingest: the session is live; lot items, buyer groups, the customer and totals
  are left out; the 20 seconds window is one tick; a lot number that is taken is
  refused by the unique key (`postgres_cutover.py:373`). There is one client of
  `/events`, and one thread retries. TikTok's own operator ingest and the
  additional ingest of the state route are not modelled.
- Background: the key of a bulk task's progress is written twice prefixed
  (`tasks:tasks:`), so that the status route never finds it; no decision depends
  on it and it is left out, as are the flag that turns the standby off and the log files.
  `limit` and `product_ids` of a bulk push are covered by `PushRefused`: a product
  may drop out before it is pushed. What the enrichment writes to the product is
  left out.

## 3. What is checked

A run's initial states are several **workloads** (how many requests of which
kind, on which threads, with which faults): each is small enough to be explored
in full, and what one leaves out another has.

| Run | Instance | Properties | Shows |
|---|---|---|---|
| `SaleOrderSerial` | 1 order, 1 line of two units and an id for another, which may be added flagged, 2 products, 1 handler, edits of product and quantity, failures | `TypeOK`, `OneMovementPerReference`, `ReturnFollowsDeduction`, `FirstSaleTakesItsQuantity` | served one at a time, both transactions are idempotent over any history of payments, drafts, cancellations, edits, slip imports and failures; where no request set a flag or a flagged quantity, what they move is what was sold |
| `SaleOrderConcurrent` | 2 handlers, failures, fairness; either 2 orders (Whatnot, TikTok) with the same 2 products in opposite line order, or 1 order that is paid, cancelled and has its line, plain or added flagged, saved again | `AppliedHasDeduction`, `StockMovesWithLedger`, `RequestsAnswered` | no race, no saving of a stale row leaves an applied line without a deduction, but for one its request flagged; refinement of `StockLedger`; every request is answered in spite of deadlocks |
| `Winner` | one operator on one lot with two units or two lots with one; two operators on one lot of a Whatnot or a TikTok session; crashes or swallowed errors | `TypeOK`, `LinesMatchStatus`, `StockIsOutForAppliedLines`, `LotSoldOnce`, `StockMovesWithLedger` | one operator: status, lines and stock agree after any history; two: a lot is sold once whatever crosses its confirmation |
| `Warehouse` | each side alone with a long history on one thread, a shorter one on two; counter with purchases, counter with TikTok | `WarehouseTypeOK`, `ApprovedLinesSoldOnce`, `SoldUnitsLeftStock`, `NoPhantomReceipt`, `ReceivedOnce`, `OneSalePerTikTokOrder`, `TikTokStockTakenOnce`, `EventsFollowed`, `ReturnsGiveStockBack`, `StockMovesWithLedger` | invoices and their sales, purchases and their receipts, TikTok's orders, events and returns agree with the movements; refinement of `StockLedger` by all of them together |
| `LiveSession` | seven streams of up to five events; `/events` alone; all routes with an operator or a failure; two polls at once | `SessionTypeOK`, `AnsweredWinnersQueued`, `OneOpenTicketPerWinner`, `SoldLotsHaveTicket`, `TicketsKept`, `ConfirmedLotClosed`, `FeedIngests` | replays, late and unnumbered winners, retries and half-done ingests lose and double no ticket; a client that polls on gets every winner ingested or put aside |
| `LiveHistory` | a show of two items, two buyers, two prices; a title twice or without a number, a tick, a skipped tick, early announcements, misread prices, a restart, a lost write, or a backfill with rising bids | `HistoryTypeOK`, `WinnersTold`, `WinnerPostedOnce`, `HistoryFollowsSales` | a sale is posted once by a process and as it was, though the page moves on; the history and the rows of `lots` give no lot another one's winner or price, and lose none |
| `Background` | 5 collectors and 1 request thread, or 3 and 2, with crashes, failing launches, a restarted server, iterations that outlive the lease; 2 workers on both bulk tasks, undisturbed or with every fault; 3 whose locks expire under them; 1 beside pushes by name and by force and enrichments | `BackgroundTypeOK`, `OneWriterPerRole`, `SerialCollectorsKnown`, `LockedBodiesBounded`, `OneDraftUndisturbed`, `DraftsMappedUndisturbed`, `LeaseTakenOver` | of two writers of a role one is late; a lock lets in one body, and one more when it has expired under one; one mapped draft per product and what was asked for besides; as long as collectors run, one that runs comes to hold the lease |

Properties that hold only as long as requests on **one** order do not overlap say
so: `OneMovementPerReference`, `ReturnFollowsDeduction`,
`FirstSaleTakesItsQuantity` are checked with one handler; `StockIsOutForAppliedLines`
and `LinesMatchStatus` are conditioned on one and on no step's error being swallowed
(`Undisturbed`);
`ApprovedLinesSoldOnce`, `SoldUnitsLeftStock`, `ReceivedOnce`,
`OneSalePerTikTokOrder`, `TikTokStockTakenOnce`, `EventsFollowed` and
`ReturnsGiveStockBack` on the history variable `crossed`, so that they are claimed
of every behaviour in which requests on different orders overlap; the properties
of `LiveSession` on `history`. Without the condition they fail: the check before
the INSERT is not atomic. That is a fact about the code, listed among the hazards
of `PROJECT.json`. The others hold with any overlap.

Some conditions are there because the attempt to prove a property without them
failed, and TLC or a reading of the code then showed why. With one handler but a
swallowed error, the undo clears a lot's order line although the line could not be
deleted, and the lot's status and lines disagree from then on (`LinesMatchStatus`);
and when it is the reversal whose error is swallowed, the undo goes on to delete
applied lines whose stock stays out (`StockIsOutForAppliedLines`). In `LiveSession`, an
operator who cancels the winner of a lot and then sets it pending again opens the
ticket a second time beside the one a replayed winner has got in between; `history`
then has "takenBack", and `OneOpenTicketPerWinner` and `AnsweredWinnersQueued` are
claimed of the other behaviours. A request that breaks off after it recorded a
result leaves the lot open. The next lot update gives that lot another number
(`rename_company_lot`), or a winner shown without a number is taken for it; a ticket
is then found by the one lot's number and written with the other lot's id, and a
sold lot can be left without its ticket. TLC shows it on longer streams than those
of the run. `SoldLotsHaveTicket` and `AnsweredWinnersQueued` are
therefore claimed of **orderly** requests (`Orderly`): none overlapped, and if one
broke off, every winner was shown with a lot number and no lot with a result was
renumbered.

`TikTokStockTakenOnce` leaves out two kinds of lots (`corrected`). One is a lot whose
product was exchanged after its deduction: for it the property fails, as `LotReplaced`
shows. The other came to light in the attempt to prove it: a lot imported before
anything was scanned for it has a line without a product; corrected while its order
is cancelled, only the lot gets the product; revived by an import and corrected to
the same product again, the line's stock is taken and the line flagged, but the
product is written to it only when it differs from the lot's
(`company_db.py:10714-10758`), so that no later cancellation finds the line to give
back. It takes five requests on one lot; no test has them. Nor does the property say
that a return brings back every unit: of a product one comes back, however many
lines took theirs (`SaleOrderCancel`). `EventsFollowed` is about
events that have an id of their own, whose request did not fail and that came
before the next change; another order is put right by the next synchronisation
only. It promises a sale order only for an order that has items: an event of one
without is answered and recorded, and nothing is imported
(`tiktok_shop_integration_service.py:3268`). `FeedIngests` is about clients of `/events`: polls of the stats alone put an
old lot number on the open lot, the unique key refuses it, and the rest of the
batch is dropped each time (`server/api.py:6449-6459, 12193-12198`).

Some requests set what the stock transactions rely on, and no stock moves: one may
add a line with `inventory_applied` already set
(`legacy_order_mutation_service.py:144-151`, `company_db.py:4713-4730`), or edit the
quantity of a flagged line (`company_db.py:9418-9469`). An applied line then has no
deduction, its order's cancellation gives back stock that was never taken, and what
was taken is not what the lines say. An edit of the flag itself is refused ("Direct
inventory_applied edits are blocked", `company_db.py:9432`), these two requests are
not. They are in the instances, and the properties say of which lines they do not
speak: `AppliedHasDeduction` and `ReturnFollowsDeduction` of
one that its request flagged (`given`, `FlaggedByRequest`), `FirstSaleTakesItsQuantity`
neither of one whose flagged quantity was edited (`SetByRequest`).
`OneMovementPerReference` holds of all.

`OneWriterPerRole`, `LockedBodiesBounded` and the two properties of drafts assume
nothing of how long an iteration or a body takes, since the code bounds neither. The
late iteration, the lock that expires under its body, the single and the forced push
and the enrichment are steps of the model, and the properties say what is left: of
two writers of a role one has outlived its lease; a task has at most one locked body
more than its lock has expired under one; a product has at most one draft more, and
at most one draft without its mapping more, than it was pushed by name or by force or
enriched. A bulk push by `force_statuses` of a mapped product does make a second live
draft, and the upsert (`tiktok_shop_db.py:299`) then loses the first.

`WinnersTold`, `WinnerPostedOnce` and `HistoryFollowsSales` are about shows whose
titles have numbers of their own and prices that are read right, the last one
about tables that took every write; the other cases are in the instance. There
they fail: a title without a number keeps the one before (`main.py:1058`); a
misread price by the label "Sold" is compared with itself (`main.py:1105-1116`); a
lost `lot_update` gives the next lot's winner to the lot before. That a posted
winner is in the history is claimed unless "Awaiting next item" came with the
winner's banner: `_reconstruct_sold_lots` then closes the lot before its winner and
drops the winner's record as a repetition of the lot number
(`events_db.py:371, 397`).

Five runs end in a violation, each of something a document, a comment or an error
message of the repository says:

- `SaleOrderRepaid`: pay, cancel, pay again. `docs/recovery_playbook.md:213`
  ("restored confirmed sale -> deduct stock again if it had been added back");
  the code flags the line without a new deduction (`company_db.py:4437-4457`).
- `SaleOrderCancel`: cancel an order with two lines of one product.
  `docs/recovery_playbook.md:210` ("cancelled lot -> restore stock"); the return
  of the second line is taken for recorded (`company_db.py:4485-4497`).
- `SaleOrderDeleteRace`: delete a line while its order is being paid.
  `company_db.py:9476` ("Cannot delete a line with applied inventory..."); the
  check is made on a row read before the deleting transaction.
- `WinnerPending`: remove a product of a TikTok lot that was reserved, before
  any confirmation. `docs/recovery_playbook.md:211` ("deleted pending duplicate
  without confirmed product -> no stock change"); reserving moves no stock, the
  removal adds it (`company_db.py:3253-3262`).
- `LotReplaced`: correct a sold live lot's product, then apply the session's
  stock. `company_db.py:10556-10558` ("deducts the replacement product exactly
  once for the sale-order line"); the correction's movement has another reference
  than the one looked for (`company_db.py:10897-10910`), and the replacement goes
  out twice. A renewed import does the same.

**Bounds.** Two handlers show every race between a pair of requests; the checks
read state that at most one other transaction changes between a read and a
write, so that a third would add a second intruder of the same kind. Two lines
are the least with which a lookup by product differs from one by line; two
products and opposite line order the least with a deadlock. In `Winner`, `MaxQty`,
`MaxLines` and `MaxOrders` bound the scans of a product, and the lines and orders
ever inserted; a handler at a bound stops. Two units let a scan follow a
confirmation and change the quantity; two lines let a lot be confirmed, undone
and confirmed again, or two lots be confirmed at once. In `Warehouse`, four
requests on one thread are the least with which an invoice is approved, split,
merged and edited, a purchase created, changed, received and deleted, or a
TikTok order imported, cancelled or returned, revived and synchronised again; four
on two threads, with which a returned order is found doubled and goes to review.
`MaxInvoices`, `MaxLines`, `MaxSales`, `MaxPurchases` and `MaxOrderLines` bound
the rows. Two lots and five events have a lot follow a lot and a winner be
corrected; `MaxRetries` is 1 (`MAX_INGEST_RETRIES` is 5, `server/api.py:6209`), so that the last retry is
reached. In `LiveHistory` two
items are the least with which one lot's winner can get to another, and two
buyers and two prices with which it shows; the buyers are interchangeable
(`SYMMETRY`). A lease or lock lives for one tick: every order of a refresh, an expiry
and a takeover is there, and an iteration or a body that outlives it; five processes
let a pair be relaunched twice with one in doubt. Three workers are the least with
which a body that has lost its lock deletes its successor's and a third comes in.
Three drafts of a product let it be pushed by a task, by name and by force; `MaxDrafts`
bounds the drafts and `extra`, and `overruns` is counted up to the number of workers,
beyond which it would bound nothing. In `SaleOrderSerial`, `Edits` names the edits
(another quantity, another product) and `HasLines` leaves out requests about orders
that never had a line. Runs that come to their bounds do not check deadlock; those of
`SaleOrder` do.

**Symmetry.** `Winner` and `Warehouse` identify states that differ in the names
of the threads (`Threads`): no definition mentions one, and the workloads with two
threads have both. They check safety and a refinement, no liveness.

**Fairness.** `SaleOrderConcurrent`: a handler's next step is strongly fair: a
thread goes on running, and PostgreSQL grants a row lock in the order of asking,
so that a step that waits for one again and again gets it. Breaking a deadlock is
weakly fair: `deadlock_timeout` comes to an end. `LiveSession`: each thread's
`Poll` and `Work` are weakly fair, since the pages poll on a timer and a request
that has begun goes on. `Background`: the `Clock`, and each collector's own steps
(`Collect`: its loop sleeps a few seconds and goes on). New requests, the stream,
the operator and failures are under no fairness. `FeedIngests` is about behaviours
in which nothing but polls of `/events` happens; `LeaseTakenOver` about those in
which a collector that could take over stays alive.

## 4. What is proved

For all values of the constants: any number of orders, lines, lots, products,
handlers, processes, threads, workers and drafts, any stream or show, any times to
live. The sets of products and of threads are assumed finite, which they are.

`SaleOrderInventoryProofs`:

- `TypeCorrect`: `Spec => []TypeOK`. `TypeOK` says of an import that it carries a
  product through its stages; it is inductive as it stands.
- `LedgerImplemented`: `Spec => StockMovesWithLedger`, the refinement of
  `StockLedger`. The two actions that move stock append rows
  (`AppendedRows`), every other one leaves both variables alone.
- `AppliedLinesDeducted`: `Spec => []AppliedHasDeduction`, for any requests. The
  property is not inductive: a handler may be about to flag a line, or to write back
  a flag it read. `AppliedInv` adds what each of them relies on: in a transaction that
  applies, the flagged lines have a deduction among the rows **it** sees, and so
  has the row whose existing movement it has just found; the rows it is to go
  over belong to its order; a line edit carries a set flag only if the line was
  accounted for when it read it. Movements are never dropped, and a line that a
  request has flagged stays one, so what was accounted for stays accounted for
  (`StillAccounted`).
- `MovementsOnce`, `ReturnsFollow`: assuming one thread (`OneAtATime`),
  `Spec => []OneMovementPerReference` and `Spec => []ReturnFollowsDeduction`. That a
  movement is looked up before it is
  inserted helps only while nobody else inserts, so the invariant, `SerialInv`, says
  of every stage of every handler that what it has read is still so: the rows it goes
  over and their flags (`GoodRows`), the movement it has looked up (`InTransaction`),
  the line an edit is to write back (`InEdit`); and, between transactions, that a
  flagged line has a deduction of the very product it now has, or a request flagged it
  (`LinesDeducted`).
- `FirstSalesExact`: under the same assumption, `Spec => []FirstSaleTakesItsQuantity`.
  `FirstInv` says that while nothing of an order
  and product was given back or imported, each of its deductions is still held by a
  flagged line of that product and, unless a request has altered it, took the line's
  quantity. With `AppliedInv`, which
  gives each flagged line a deduction, and `MovementsOnce`, which gives it one only,
  both sums run over the same lines.

`WinnerAssignmentProofs`:

- `TypeCorrect`, `LedgerImplemented`: as above, for the handlers of a lot.
- `EachProductSoldOnce`: `Spec => []LotSoldOnce`, for any number of handlers and
  with swallowed errors. `SoldOnce` is about the lot's item and result as well as
  its lines: a line that was written stays the line of its item, and a confirmation
  that has looked the line up and locked the result finds the lines as they were.
- `LinesAgree`: `Spec => []LinesMatchStatus`. The property says nothing of the time
  between a request's transactions; `AgreesInv` does: every lot agrees but the one
  in hand (`AllAgree`), and of that one the handler knows how far it has got (`Knows`),
  so that its last step makes the lot agree again.
- `LinesDeductedOnce`: `Spec => []StockInv`, for any number of handlers and any
  failures: the stock is what the movements say, no line is deducted twice, each
  deduction took the quantity of its line, and an applied line has its deduction.
- `StockOutExactly`: `Spec => []StockIsOutForAppliedLines`. Beside `StockInv` it needs
  that the line of a deduction is still there and applied (`StillOut`), which an undo
  and a deletion threaten. `Undoing` says why they do not break it: the orders an undo
  is still to reverse cover every applied line of the lot, none is left when it
  deletes the lines, and a deletion goes on only with a lot that is not confirmed.

`WarehouseProofs`, about the composition, where any counter, buyer and agent may act
between any two transactions of another:

- `WarehouseTypes`: type correctness, for what each thread has read as well as for
  the tables: a row that was read is a row there is.
- `WarehouseKeepsLedger`: `WarehouseSpec => StockMovesWithLedger`, the refinement of
  `StockLedger` by all three components together. A step appends rows of its own kind
  (`CounterStep`, `ArrivalStep`, `LineStep`) or moves nothing. The rows go in the order
  of their ids; `AscendingListing` and `IdsInOrder` prove that this order exists and
  lists each id once.
- `OneSaleEach`: `WarehouseSpec => []OneSalePerTikTokOrder`. `SalesLookedUp` says that
  what an import found missing when it listed the sale orders is still missing, up to
  the row it is at; it rests on `WorkBelongs` (what a thread has looked up belongs to
  the TikTok order it is about) and on the guard of `crossed`, no two threads at one
  order.
- `ReturnsAlwaysGiveBack`: `WarehouseSpec => ReturnsGiveStockBack`, an action property.
  `ReturnsGivenUp` follows a return through its transactions: past the first the order
  is cancelled, past the second none of its lines is applied. `OnlyItsOwn` says that
  nobody else's step changes that order meanwhile.
- `NothingReceivedUnseen`: `WarehouseSpec => []NoPhantomReceipt`, with any overlap.
  `ReceiptsCovered` says that there is a number for each line, no less than what the
  line says or any thread has read of it, whose sum over the lines of a product is the
  sum of the product's movements.
- `ReceivedOnceOnly`: `WarehouseSpec => []ReceivedOnce`. `ReceiptsAreCurrent`: what a
  request has read of an order is still so, no line has received more than it ordered,
  and the status of an order is what its lines say; `ReceiptsExact`: the number above
  is the one in the row.

`SalesProofs`, on the sales of the same composition, with what `WarehouseProofs` shows:

- `LinesSoldOnce`: `WarehouseSpec => []ApprovedLinesSoldOnce`. An approval, an edit or a
  split writes what it has read several steps before, so the property is inductive only
  together with `SalesAreCurrent`: lines refer to invoices and sales to lines that
  exist, and whatever a request has read of its invoice (the row, the lines, the sale
  matched to each line) is still so, the matched sale being the line's own
  (`MatchIsSale`: without an overlap `_match_pg_in_house_sales_for_order` never has to
  fall back on another sale of the product). `OnlyTouched` is the frame: a transaction
  changes its own invoices and their lines only, and no sale changes its line.
- `SoldUnitsOut`: `WarehouseSpec => []SoldUnitsLeftStock`. The `Balance` of a product, the
  units its sales count plus the movements recorded for sales, is kept by every step:
  an approval adds rows opposite to its sales (`NetOpposite`), an update moves of each
  matched sale the difference that it writes into it (`SumChangesAt`,
  `CorrectionsOfProduct`), a split takes from the old sales what its new ones count
  (`PartUnits`). The last two need `SalesAreCurrent`: with a sale matched to the wrong
  line, or to two, the sums would part.

- `TikTokTakesOnce`: `WarehouseSpec => []TikTokStockTakenOnce`. What orders have taken is
  kept by `TakenSoundly`, claimed until two requests on one order overlap. Of each order
  that no correction has parted from its stock (`SaleSound`): a line has at most one
  movement, its deduction, and it is of the line's product; a line is flagged exactly if
  it has it, unless that product was given back; what was given back of a product is
  one unit, and a line of the order took one. Movements name rows that exist
  (`RowsNamed`), so that a new line starts without any; a live order that gave its stock
  back is cancelled, here and at TikTok (`LiveEnded`), which is why a correction never
  takes stock for it again. What a thread read several steps ago is still so (`StillSo`):
  which lots of its import TikTok has cancelled, the line it corrects, the unflagged
  lines of its session. The other threads leave that alone because a step writes only
  the orders its request is about (`OnlyItsOwn`, `GivesOnlyIts`) and requests that
  overlap on none share none. A step is then sound (`SoundStep`) because its transaction
  records rows only of lines without a deduction, or only returns of products not
  given back before.

- `TikTokFollowed`: `WarehouseSpec => []EventsFollowed`. `Followed` is about the orders
  whose last event was taken up in time, while no two requests on one overlap: an order
  is being imported with the status it now has, by an import that is yet to find or
  create its sale order or has brought it in line already (`IsCurrent`), or nobody
  imports it and its one sale order agrees with its status (`Agrees`). `EventsKnown`
  makes it inductive: statuses come in one direction (`Reached`), so that the event of a
  change has an id that was never recorded, and the order is not up to date until its
  own request is in; nothing is processed as a return that is none.

`SumProofs` holds what these proofs need about sums. `SumFunctionOnSet` is a fold, that
is a recursive function; `SumExists` and `SumUnique` show by the smallest set without
one (`MinimalSet`, from the well-foundedness of `Nat`) that there is exactly one such
function, whence `SumTakenApart`, and the sums of disjoint sets, of changed, zero and
smaller values, and over sequences (`NetOfBoth`: the sum after an append;
`SumListed`: a sum over the listing of a set). Induction is done with a set of
counterexamples in place of a predicate, so that no theorem with an operator
parameter is needed.

`LiveSessionProofs`:

- `SessionTyped`: `SessionTypeOK` also says that a ticket and an open lot have a
  number, and that a thread goes on only with a lot, result or ticket that exists;
  the lookup by number would otherwise match rows without one.
- `TicketsSettle`, `ConfirmedStaysClosed`: the two action properties. The first holds
  with any overlap; the second as long as none has happened, from `OneRequest`: while
  one request runs alone, what it has looked up (the open lot, its result, the ticket
  of a buyer, a confirmed winner) still holds when it writes.
- `OneTicketShown`: `Spec => []OneOpenTicketPerWinner`, from the same invariant.
- `SoldLotsTicketed`, `WinnersHaveTickets`: `Spec => []SoldLotsHaveTicket` and
  `Spec => []AnsweredWinnersQueued`, for any stream. `OrderInv` has three layers.
  `LotsInv` is about lots and results while requests are orderly: numbers and
  sources are unique, a result has its lot's number and its winner's price, a lot
  with a result is sold or about to be (`ResultsClose`), and `LotKnown` says what a
  request knows of them at each step. `TicketsInv` is about tickets: one of a winner
  (`TicketsApart`), each with its result's lot and number (`TicketsAgree`). For that
  a ticket found must have the number asked for, which for a winner without a
  number rests on whose result the ticket is for (`UnnumberedOwn`), also while one
  winner takes over another's unpriced result (`TakesOver`, `TicketsPriced`,
  `OneOfUnpriced`). On these rest `SoldTicketed` and `Answered`, which add the
  request that is about to close its lot.

`LiveHistoryProofs`:

- `WinnersAsSold`: `Spec => []WinnersTold`. The page, what was really sold and what the
  loop has in hand are related by `SightInv`: what the page shows is the item on the
  block, prices only rise (`PageInv`), a look is of the current item or of one before
  (`SeenInv`), sales are settled in order (`SalesInv`), and a winner in hand is the
  one of the item seen (`KnowsInv`), with a key that no other sale has (`KeyInv`). It
  holds whatever is lost, skipped or restarted.
- `WinnersPostedOnce`: `Spec => []WinnerPostedOnce`. `OnceInv` counts: the posts of a
  sale and the restarts to come are at most one more than the processes started
  under its banner, and when they are as many, the process of now has its key
  (`Settled`). The number of posts is the cardinality of a set of positions, of which
  an append adds at most one.
- `HistoryTyped`: `Spec => []HistoryTypeOK`. `TablesOK` says what the two tables, the
  row that the collector has open and the rest of the backfill's tasks are; it needs the
  types of a rebuilt history. A fold is not unfolded by the provers: `StitchFolds`,
  `KeepFolds` and `MergeFolds` show that what each of the three folds makes of a sequence is
  the last of a sequence of accumulators, each of which comes from the one before by the
  fold's step; then what holds of the first and is kept by a step holds of the last
  (`UpFromZero`). Without `RowFilled`, `RowOpened` and `RowClosed` (what one write does to
  `lots`), and without the backfill only opening rows that exist or appending, the open
  row might not exist any more.

`BackgroundProofs`, about the collectors of `CollectorHA` alone:

- `CollectorsTyped`: type correctness.
- `OneCollectorWrites`: of two collectors of one role in their iterations one is late,
  unless a stop took the lease from under an orphan (`leaseCut`), however long an
  iteration takes. `WriterInv` adds what makes it inductive: who writes is alive
  (`WritersAlive`), pids are given out in order (`PidsInOrder`), and while a collector
  is in an iteration and not late, the lease is fresher than the iteration is old and
  is its own, or, for a standby, that of an active one that took it over
  (`LeaseCoversWriters`).

and, with lemmas about the steps of `ShopDrafts`, about the composition:

- `BackgroundTyped`, and `OneWriter`, the same as above where time is shared.
- `CollectorsStayKnown`: `Spec => []SerialCollectorsKnown`. For one request thread
  that is not cut off, `KnownAt` says by the place it has reached where every living
  collector is named: in the state file (`Noted`), in the thread's own copy of it
  (`Held`), or among what it has just found or launched. The lemmas, one per
  action, are those about the collectors alone. That the one thread is one follows from the
  cardinality of a set of threads of the servers, whence the finite set of servers.
- `LockedBodiesCounted`: `Spec => []LockedBodiesBounded`, whatever dies, raises or
  expires. The release deletes the key whoever has set it, so that a body that has
  lost its lock takes its successor's. The invariant (`LocksCounted`) says more: when
  the key is not there, or its owner runs no locked body, the bodies are no more than
  the expiries under one.
- `OneDraft` and `DraftsMapped`: when no call fails and no push outlives its lock, the
  live drafts of a product, and those of them that have lost their mapping, are no
  more than the pushes by name or by force and the enrichments explain. `PlaceInv`
  says that an undisturbed body has not raised and runs locked (`BodiesLocked`), and
  where it is (`BodiesInPlace`); `DraftInv` that mappings and the targets of deletions
  are drafts there are (`KnownDrafts`), that a deletion unmaps only drafts that are no
  longer live (`DeletionsDone`), and it counts the drafts of a product that
  were asked for and are not mapped yet, or that have lost their mapping (`Owed`):
  they are no more than its extras, and fewer while a bulk push may yet overwrite a
  mapping that was not there when it read (`OwedFew`).

The assumptions on constants (`ConstantTypes`, `InitialLinesMarked`,
`HAConstants`, `TaskConstants`, `NumbersAreInTitles` (a lot's number is a part of its
title, so that titles with different numbers differ) and the others named in the modules) are evaluated
by TLC on every run of a module that extends theirs.

Only model-checked, and why:

- `RequestsAnswered`, `FeedIngests`, `LeaseTakenOver`: liveness under fairness.
- `HistoryFollowsSales`: needs of the folds of `_reconstruct_sold_lots` not only their
  types but what each accumulator has of the lots before it.

## 5. Not modelled, and what remains

- The reconciler (`server/reconciler.py`), the identity and merging of streams
  (`server/ingest_cutover.py`, `events_db.py`), which derive facts from the events
  and the history of `SoldLots`: the next component.
- Bargain sessions of purchases (`company_db.py:7649-7900`), the bulk update of
  sale orders, creation and deletion of orders by hand, a change of a lot's number.
- The connection pool's bookkeeping and its reset; a closed connection is a
  transaction that fails (`Fail`, `Crash`, `PosFail`, `LiveFails`, `ShopFails`).
- The scan and spectator state files (`server/state.py`): read, changed and written
  back like the collector's, which is modelled.
- TikTok: matching of orders, products and lots, finance, tokens.
- Redis mirror, authentication, HTTP routing, analytics, parsing, the scanner
  daemon, the Odoo addons, overlays and tools: they keep no state of the sale and
  stock logic, or are input and output only.
