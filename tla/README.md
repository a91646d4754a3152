# Verification of the core service

TLA+ specifications of the order, stock, checkout, Walmart, catalog and photo
logic of `src/systems/core/src` and of the admin UI's Images tab, the TLC
configurations that check them on small instances, and TLAPS proofs of what
matters most for any number of orders, variants, jobs and calls.

The core service keeps a shop's catalog, stock and orders in Postgres. Orders
come from two channels: the storefront, paid through Stripe Checkout, and
Walmart's marketplace. Both sell from the same shelf. What is hard in it is
*one unit promised twice*, *money taken for an order that no longer holds
stock*, *stock held for ever by an order nobody will pay*, and - since a
transaction cannot reach into Walmart, Stripe or the object storage -
*the other side not being told, told twice, or told something old*.

## Inventory

| Component | State it keeps | Operations | Interacts with | Hard behaviour | Correct if | Module |
|---|---|---|---|---|---|---|
| Orders and stock (`orders/`, `inventory/`, `admin/stock.service.ts`, `channels/walmart/orders.ingest.ts`) | `orders` (status, channel, money), `order_lines`, `inventory` (on_hand, reserved, walmart_allocation) | place, ingest, mark paid, fulfil, cancel, refund, set stock | everything below | concurrent transactions on the same rows, two channels, refunds in any order | reserved is what open orders hold; reserved + allocation ≤ on_hand; nothing is oversold or stranded | `Orders`, `StockPromises`, `StockLocks` |
| Checkout (`checkout/`) | `orders.stripe_checkout_session_id` | start a checkout (release the previous order, place, create a session, save its id), sweep abandoned orders | Orders, Stripe | Stripe calls outside transactions, failures and crashes between steps, races with webhooks | stock is released only when nobody can pay for it; abandoned orders are released | `Checkout` |
| Stripe payments (`payments/`, `ports/payments/`) | `stripe_events`, `stripe_payment_intent_id`, `review_reason` | completed, expired, refunded, disputed events; expire, create, retrieve sessions | Orders, Checkout | duplicates, reordering, late or lost events | every payment is accounted for or flagged; refunds apply | `Checkout` |
| Admin orders (`admin/admin-orders.service.ts`) | none of its own | cancel, cancel a disputed order, ship | Orders, Stripe | unlocked reads before locked writes | flagged orders ship only when reviewed; paid orders are not cancelled | `Checkout` |
| Outbox and worker (`channels/walmart/outbox.ts`, `scheduler.ts`, `worker.ts`) | `channel_jobs` | enqueue, enqueue once, drain, back-off, dead-letter | Walmart client, every service that enqueues | crash between effect and record, the holder of a key looked up after the insert failed | one holder per key; a job runs at least once | `Outbox` |
| Walmart stock push (`inventory.sync.ts`; `price.sync.ts` alike) | `channel_listings.last_pushed_qty` | enqueue after a commit, push, reconcile hourly | Outbox, Orders | figures read before the call, two tasks at once, a request that dies after its commit | no change slips; Walmart ends up with the current figure | `InventorySync` |
| Walmart orders, shipping, returns, pollers, webhook (`channels/walmart/`) | `channel_events`, `orders.status` | ingest, poll pages, ship, cancel, ingest return | Outbox, Orders | lost or repeated webhooks, bad orders in a sweep, events before the state they need, crash after a POST | every decision queued and told, nothing else told; missed orders ingested | `WalmartOrders` |
| Walmart listings and feeds (`listings.service.ts`, `items.feed.ts`) | `channel_listings`, `channel_feeds` | create, submit, record, check | Catalog | answers in different detail, crash after a POST, rows deleted meanwhile | what is on file is what Walmart said | `Listings` |
| Walmart settlement (`settlement.ts`, `settlement.job.ts`) | `channel_settlements` | import a report, retry once | Orders' events | overlapping and repeated reports, rows without identity, two workers | each row once; "matched" is right to the cent | `Settlement` |
| Product images (`assets/`) | `images`, object storage | request, confirm, reorder, delete, describe, sweep | storage, admin UI | positions computed from old reads, storage and row out of step | a shown photo has its bytes; uploads never collide | `Images` |
| Admin UI, Images tab (`ImagesTab.jsx`) | the grid, upload rows, refreshes in flight | upload a batch, move, delete, describe, refresh | Images | requests overlap, answers out of order or lost | what may be moved is what core has | `ImagesTab` |
| Catalog administration (`admin/`) | `products`, `variants` | create, change status, edit slug and SKU, delete | Orders, Listings | unlocked reads before writes, sales in between | keys unique; a public URL stays locked | `Catalog` |
| Authentication (`auth/`) | `admin_sessions`, `api_keys` | login, touch, logout, revoke | admin API | expiry | no session outlives its limits | not modelled |
| Customers, referrals, settings | `customers`, `affiliate_partners`, `shop_settings` | upsert, resolve, update | completed event | | consent never goes back to false | not modelled |
| Storefront, other admin pages, legacy mock services | browser and in-memory state | | core API | polling, deadlines, stale drafts | | not modelled |

`PROJECT.json` lists every component with its files, and every hazard at its line.

## Modules

```
            StockPromises          what the bookkeeping promises
             ^         ^
  implements |         | implements
          Orders     StockLocks    transactions     | rows and locks inside them
             ^
  extends and implements
         Checkout                  requests, Stripe, webhooks, sweep, administrators

     Outbox                        the job table and the worker that drains it
      ^   ^
      |   WalmartOrders            what shipments, cancels and acks owe Walmart; polls, returns
      InventorySync                what a change of stock owes Walmart; hourly sweep

     Catalog <- Listings           products and variants <- listings and feeds
     Images  <- ImagesTab          photos in core        <- the admin tab that calls it
     Settlement                    import of settlement reports
```

The figure that `InventorySync` pushes is `walmartSellable` of a row of `Orders`;
the status that `WalmartOrders` moves is the status column of `Orders`, which has the
stock side of the same transactions. They are separate modules because their
properties are: stock is safe whatever Walmart is told, and Walmart is told
whatever the stock is.

* **`Holds`** - quantities per variant, and `HoldCount`: how many units of a
  variant a set of orders holds, counted from their lines.
* **`StockPromises`** - the abstract specification: an order is promised units
  once, out of those promised to nobody; the promise is called off or shipped; a
  stock count never goes below what is promised.
* **`Orders`** - one action per transaction. Variables are the columns:
  `status`, `channel`, `lines`, `totalCents`, `refundedCents` per order, `onHand`,
  `reserved`, `allocation` per variant. A guard is a status check or a `WHERE`
  clause; a transaction that throws is the absence of a step. `MarkOrderPaid`,
  `CancelOrder`, `RefundFully` and so on carry the names of the code.
* **`StockLocks`** - inside those transactions: the order row is locked, then
  inventory rows are updated one by one under their locks, and all of it commits
  or rolls back. It justifies taking a transaction as one step in `Orders`.
  Two connections may ingest the same Walmart order. Allocation is left to
  `Orders`, since it is part of the same `UPDATE`.
* **`Checkout`** - extends `Orders` with what happens between transactions. One
  `request` program counter per order follows `startCheckout` (with
  `previous` the order being released), `admin` an administrator's request,
  `sweep` the running sweep; `saved`, `matched` and `reviewReason` are columns of
  the order, `recorded` the rows of `stripe_events`. Stripe is external:
  `session` and the events it has `emitted`.
* **`Outbox`** - `jobs` are the rows of `channel_jobs` in order of creation
  (`held`: the dedupe key is still there), `worker` the batch in memory. `Inserted` and
  `EnqueuedOnce` are the two ways to queue work; `PickUp`, `Finished`, `Failed`,
  `BackOffEnds` and `WorkerGone` the life of a job. What a handler does is left
  to the modules that extend it.
* **`InventorySync`** - a request per `Enqueuer`: it commits a change, counts the
  listings, inserts the job, and on a unique violation looks the holder up, takes the key from one
  that is done or dead, and inserts again. `push` is the handler in the drain, `sweep` the
  hourly `reconcileAllInventory`; both read `figure` and then call. `walmart` is
  what Walmart has. A listing is resubmitted, accepted and rejected any number of times. `pushedBy` and `dropped` are history variables, for `StaleIsOwed`.
* **`WalmartOrders`** - `placed`, `blocked`, `recent`, `returned` are the environment's;
  `order`, `events`, `event` are rows; `told` the calls that Walmart took. One
  action per page and per order of the poll, per
  operator's transaction, and per step of the drain. The returns poll takes one return after
  the other, each in two steps: `ReadOrder` is the transaction's read of the order, which
  takes no lock and is kept in `retPoll`; `RecordReturn` is the rest, which decides on
  what was read, and refunds only if the conditional `UPDATE` still finds the order fulfilled.
* **`Catalog`, `Listings`** - a call of an administrator reads (`ReadStatus`) and later
  writes (`WriteStatus`); deletes cascade to listings. `operator` is the call of
  the one operator between two steps: `PostFeed` may end without `RecordFeed`.
  `CheckFeed` applies an answer `r` of Walmart's to the rows and to the errors on file.
* **`Settlement`** - `Plan` has the rows of a report that are not on file, by number,
  `left` those still to be written, in order; `Gross`, `GroupSum` and `Discrepancy` are the comparison, `WriteRow` one insert
  of the transaction. The comparison's figures are checked against another reading of the
  same lines: the one order ingestion makes of them.
* **`Images`, `ImagesTab`** - in `Images` every request is a `call` with a program
  counter between database and storage; a transaction that would violate the position constraint
  fails. `ImagesTab` is the caller: `grid`, `listStale`, the stage of each
  upload, and refreshes that are issued, answered and applied.
* **`StockLocksProofs`, `CheckoutProofs`, `OutboxProofs`, `InventorySyncProofs`,
  `WalmartOrdersProofs`, `ListingsProofs`, `ImagesTabProofs`, `SettlementProofs`** - the proofs.
  `CheckoutProofs` has those of `Orders` too, `StockLocksProofs` those of `StockPromises`, and
  `ListingsProofs` and `ImagesTabProofs` those of `Catalog` and `Images`. The lemmas about
  `Holds` are in both of the first two, which share no other module.
* **`MC...`** - sets, functions and symmetry for TLC; `MCCheckoutLive` has the
  specification of its liveness run.

Abstractions worth knowing:

* Lines are a quantity per variant. Prices, addresses, names and audit rows are
  left out. `needs_review` stands for `amount_mismatch` and `outside_shipping_area`.
* An event that is answered "retry" or refused, or that is never delivered
  again, changes nothing in the database: it is no step. So losing events needs no action.
* `GrowOld` is the passing of the session lifetime plus the ten minutes of grace.
  A checkout request is over by then: the Stripe client times out after 10 s and
  retries twice. It is *not* assumed that Stripe has expired the session by then.
* The customer pays with the client secret, which is only in the response to the
  request that saved the session id. A session that Stripe created although the
  call failed exists, and nobody can pay in it.
* `acknowledgeReview` is one boolean. It is modelled as in the code: an
  administrator who acknowledged one reason also ships under a dispute
  that arrives before the lock. `FlaggedShipsOnlyReviewed` promises no more than that.
* One administrator request per order runs at a time in `Checkout`.
* `Outbox` has as many rows as `JobId`; a run of the code that needs more is not
  looked at. In `InventorySync` figures are compared, never added.
* Walmart answers truthfully: a feed's item that was accepted is not refused later,
  and a call that is answered with success was taken. What it answers with, when,
  and how often, is free.
* The operator's Walmart calls (listings, feeds) are typed into a console one at a
  time (`docs/status/2026-09-22-walmart-launch-checklist.md:38`); there is one
  `operator`. A price that the guard in the feed refuses ends the call before
  anything is sent, so it is no step.
* In `WalmartOrders` the poll's window of seven days holds hundreds of sweeps: an order
  leaves it un-ingested only if it was blocked.
* A settlement row is its order, type, key, item, amount and fee; days are numbers.

Definitions marked "variant" are faulty versions of the definition after them,
used to see that each property notices the fault it is meant for.

## Runs

| Run | Instance | States | Shows |
|---|---|---|---|
| `orders` | 3 orders, 1 variant, 2 units per line, 3 on the shelf | 230 000 | the stock invariant of `schema.prisma`, `reserved` equal to what open orders hold, `inventory_conflict` never thrown, orders accepted exactly when they are within the figures of `allocation.ts`, channels isolated by an allocation, refunds that only grow, and refinement of `StockPromises` |
| `stock_locks` | 3 connections, 2 storefront orders and 1 Walmart order, 2 variants, 2 units each | 190 000 | commits are atomic promises, shipments and releases; a deadlock always involves a Walmart ingest |
| `stock_locks_order` | the same | violation | an ingest does not lock rows in variant order |
| `checkout` | 2 checkouts for the last unit, one partial and one full refund figure | 950 000 | payments accounted for, refunds applicable, no paid order cancelled unless disputed, stock released only when unpayable, flagged orders shipped only when reviewed, disputes never overwritten |
| `checkout_backstop` | 2 checkouts, no administrator | 8 000 | every unpaid order leaves `pending` by the sweep alone |
| `checkout_admin_cancel` | as `checkout` | violation | a cancelled order is paid |
| `checkout_status_page` | as `checkout` | violation | the page of a payment on a cancelled order turns to cancelled |
| `inventory_push` | 2 variants, one of which Walmart always refuses, 2 requests, 3 jobs, 2 attempts, batches of 2, 2 changes, 1 fault | 680 000 | a stale figure that came from the queue is owed a push (`StaleIsOwed`); the figure of a listing that stays live settles (`LiveFiguresSettle`) |
| `walmart_orders` | 2 purchase orders, one never ingestible, 1 return, 3 jobs, pages of one, 1 fault | 490 000 | every decision has its job and a done job was told; nothing else is told; decisions, missed orders and refunds still to be seen arrive |
| `images` | 2 photos on the site, 1 upload, another administrator, 2 clicks, 1 fault | 720 000 | shown photos have bytes, uploads never hit the position constraint, an unlocked grid is core's, a move swaps two neighbours, "Saved" does not last |
| `settlement` | 6 reports over 2 orders, 3 calls by 2 workers | 850 000 | the ledger has each row once; compared groups are exact |
| `catalog` | 1 product, 2 variants, 2 administrators, 2 listings, 2 feeds, 3 edits | 640 000 | keys, locked URLs, verdicts that Walmart gave |

Bounds. Three orders of up to two units on a shelf of three is the
smallest instance in which a third order is refused, an allocation is smaller
than a line, a stock count meets reservations of two orders, and one order is
settled twice while others still hold. Two rows suffice for a deadlock, three
connections for a bystander. In `checkout` the two orders compete for one unit,
so the second is placed only after the first was released, by its own request
(previous order) or by anyone else. `MaxOnHand` bounds what an administrator may
count, `MaxCents` money, `Shelf` the units in `StockLocks`. Nothing else
is bounded: every counter is limited by the guards of the code. Orders are
finitely many and are never deleted, so every behaviour comes to rest;
deadlock checking is off for that reason, as it is in `settlement`, `images` and `catalog`.

In `inventory_push` two requests for one variant are the smallest case in which the
holder of a key is released by one while the other collides again; two attempts
give a retry and a dead letter; the refused variant stays in every batch and sweep, before and
after the other. The one fault is a failed or unanswered call, a lost
enqueue, or a death of the worker. Rows from a version that did not release keys are in `OldRows`.
In `walmart_orders` pages of one make each sweep turn the page past a bad order, and the
page cap of two is reached; three jobs are the ack and the decision of one order and a dead ack left over.
Three calls in `settlement` are a first import, an overlapping one and a repeat, of which
two may run at once; the reports contain a repeated identity, a bare row
twice, a commission, a refund and a partly cancelled order. Two feeds in `catalog`
are a rejected item and its resubmission. Two clicks in `images` are the two moves, or the move and the
delete, that could be computed from different grids. `MaxFaults` bounds crashes and failed
calls where liveness needs them to stop.

Fairness (`CheckoutFairness`, `checkout_backstop` only): requests end, time
passes, Stripe expires sessions at `expires_at`, the sweep's timer keeps firing
(`setInterval`), and a sweep step that is possible again and again (Stripe and
the database are reachable) is taken some time. Nothing is assumed of webhooks or
customers. `UnattendedSpec` leaves administrators out because all they can do to
a pending order is cancel it sooner; this keeps the instance small enough for
liveness checking.

In `InventorySync` and `WalmartOrders` the drain, the sweeps and the polls are
weakly fair: the scheduler runs each of them again after its interval whatever the
last run did (`scheduler.ts`), and a time-out ends every call. `RetryDue` is the clock. Listings may change for ever;
`LiveFiguresSettle` is about those that stay live from some time on.
An enqueuer goes on unless it dies, which is a fault. Nothing is assumed of webhooks, operators or
Walmart's own actions; that a call succeeds follows from the bound on faults,
except for what Walmart always refuses, which is exempt from the bound and from the promise.
`ImagesTab` assumes that a read of the product is answered or fails, and that the
other files of a batch end; nothing of administrators.

## Disagreements between comments and code

* `admin-orders.service.ts:195` says the Stripe session is expired first. It is
  expired only when the unlocked read found its id; before `checkout.service.ts:143`
  has saved it, the order is cancelled with the session open, and the customer
  can pay for it (`checkout_admin_cancel`). In `checkout`, `ReleasedMeansUnpayable`
  excepts exactly this case. It is also the only way in the model to
  `paid_after_cancel`, which the webhook then handles: `PaymentsAccounted`.
* `checkout.service.ts:166` wants the page of a payment that landed on a cancelled
  order to say that it is being confirmed. The page reads that from
  `review_reason`, the one column a dispute overwrites (`stripe-events.ts:184`):
  after a dispute it says cancelled (`checkout_status_page`).
* `orders.service.ts:95` says every multi-row stock write locks rows in variant
  order. `orders.ingest.ts:141` does not (`stock_locks_order`); Postgres breaks the
  deadlock, and the ingest is retried by the poller.

Met while modelling, and not turned into runs:

* `admin-catalog.service.ts:85` allows no transition from archived to published.
  The check reads without a lock and the write names the row only by its id (`:118`), so two calls that both read a
  draft, one to archive and one to publish, commit such a move.
  `PublicUrlsAreLocked` holds nevertheless.
* `image.service.ts:258` says that the committed state of a reorder cannot collide.
  A photo confirmed between the check and the write can, and the request fails
  with the constraint's error; nothing is lost (`WriteOrder`, answered "failed").
* `returns.service.ts:159` says that a return recorded without being reflected in the
  order can never be observed, because both commit together; only a return that arrives
  before its order is fulfilled is excepted. The order is read without a lock before the event is
  inserted, and the decision is taken on that read (`:227`). An order that ships in between
  (`ReadOrder`, `RecordShipment`, `RecordReturn`) is fulfilled when its refunded return is recorded,
  and is never refunded, since the event is unique. `RefundsReachOrders` is what holds: a refund reaches
  a shipped order if its return has still to be seen (`ToBeSeen`), through aborted polls and deaths.

## Proofs

From the assumptions on the constants only (finitely many orders, natural
bounds), for all of their values:

* The lemmas about `Holds`: when one order joins or leaves the holders, `HoldCount` changes by
  its lines (`HoldAdded`, `HolderWithinHolds`). Induction over the set of orders
  is not available to the provers; these facts about cardinalities replace it,
  because a transaction changes one order's hold only.
* `CheckoutProofs`, first of `Orders`: `TypeCorrect`; `StepEffect` - every transaction opens one hold,
  closes one, or keeps them all; from it `CounterIsHeld` (`reserved` is what open
  orders hold). `StockSafe` proves the schema's invariant, which is inductive with
  the types. `IInv` joins the three: only with `ReservedIsHeld` is it known that an
  open order's units are in the counter and on the shelf, so that
  `inventory_conflict` cannot be thrown (`ConflictNeverThrown`) and fulfilment and
  release do not drive a counter below zero. `OrdersImplementsStockPromises` maps
  place and ingest to `Promise`, fulfil to `Ship`, cancel and the refund of an
  unshipped order to `CallOff`, a stock count to `Count`, and the rest to no step.
  `FiguresAreWhatGuardsAccept` relates the guards that `PlaceOrder` and `IngestWalmartOrder` have
  to the figures of `allocation.ts`, line by line (`FiguresByLine`): where the guard would accept a
  unit, a figure is never cut off at zero; that no unit is accepted for both channels
  needs `StockInvariant`, by which the two figures are the two shares of what is free
  (`SharesWithAllocation`).
  `ChannelsStayIsolated` and `RefundedStaysRefunded` (the refunded figure never shrinks, and
  no transaction takes an order out of `refunded`) go through the transactions one by one.
* `CheckoutProofs`, then: every step of `Checkout` is one of the transactions of `Orders`,
  or none (`CheckoutImplementsOrders`); with it the theorems above hold of
  `Checkout` (`CheckoutKeepsStock`). Then what `Checkout` does with money:
  `CheckoutTypeCorrect` first. `PaymentsAccounted` is not inductive: nothing in it says why an order that is paid
  has had its completed event, or why a paid session is not opened again. `PaymentInv`
  adds `SessionLife` (a session is opened once, by the request that placed the order,
  and closes for good; events are emitted before they are recorded) and `MoneyKnown`
  (`paid`, `fulfilled`, `refunded` and every flag imply the stored payment intent,
  and that implies Stripe's total). From it `PaymentsAreAccounted`,
  `RefundsAlwaysApply` and `DisputesAreKept`. `LeavingPaid` lists the only steps that
  take an order out of `paid`, which gives `PaidOrdersKeepStock` and
  `FlaggedOrdersShipReviewed`. `ReleasedStockIsUnpayable` needs to know what everyone
  who is about to cancel has seen, which `CancellersKnow` says: the request that
  placed the order, a later request that releases it as its previous one, the
  sweep and an administrator have each closed the session of the order, found that it can no
  longer be paid, or read the order before the session's id was stored - the one
  exception of the property.
* `StockLocksProofs`: `LocksHold` proves `LocksInv`: a locked row differs from the
  committed one by this transaction's update alone, which its `WHERE` clause
  allowed (`Works`); every row of the order is locked or still to come; sorted
  transactions hold smaller rows than those to come; who settles an order has
  its row locked, and the order is open; a row that nobody has is the committed one (`FreeRows`);
  and the committed counter is what open orders hold (`Counted`). `CommitsAreWhole` follows: the rows
  that a commit puts in place are all of the order's, so it is one `Promise`, `CallOff` or
  `Ship` of `StockPromises` (`CommitsAreAtomic`), which `CommittedNeverOversold` carries over. `SortedNeverDeadlock`:
  in a circle without an ingest, whoever waits for the greatest wanted row would have to be waited
  for by someone who wants a greater one. `NeverOversold` is proved of `StockPromises` itself.
* `OutboxProofs`: `OutboxInv` is the types, `OneHolder`, and `WorkerSafe` (what the worker
  holds is pending, the running job is no longer in the batch, and a pending job
  has an attempt left). One lemma per worker step and per
  way to queue says what it does to the rows, so that modules that extend
  `Outbox` never expand it.
* `InventorySyncProofs`: `InventorySyncTypeCorrect` and `StaleStaysOwed`. `StaleIsOwed` is
  not inductive: a request that found its key taken counts as somebody who will
  still push, and leaves it to the holder, which may be a job that has read, or
  another such request. `Sure` therefore leaves a request at "find" out unless the
  holder it will see is over, `Debt` counts a figure that the drain is about to put
  out of date, and `DebtsAreSure` joins them. It rests on `OldJobs` (a recurring job
  that holds its key has not been picked up; the row of an older version, of which
  there is at most one, is over where stock may change) and `RequestsKnow` (only
  that row ever gives way, so a second collision is with a recurring job).
* `WalmartOrdersProofs`: `WalmartOrdersTypeCorrect`, `DecisionsStayQueued`,
  `OnlyDecisionsAreTold`. That a decision has a job is not inductive: a job must also keep
  its key for ever, since none of these jobs is recurring (`JobsKeepKeys`), and a shipment or
  cancellation in the table must be its order's decision (`OrdersMatchJobs`),
  or the worker could tell Walmart something else. `PollTyped` and `RestTyped` are the rest.
* `ListingsProofs`: `ListingsTypeCorrect` needs that what a call in flight
  refers to is still there (`RefersToRows`: products are never deleted). `PublicUrlsStayLocked` rests on `LocksAreKept`: a call
  in flight that decided to publish, or a listing being created, has seen a
  publication that is never taken back. `VerdictsStayBacked` rests on
  `FeedsAreKnown` (a feed is on file only once Walmart has it,
  and has said nothing before); `StatusComesFrom` and `CheckKeeps` say what one answer
  can change.

* `ImagesTabProofs`: `TypeCorrect` and `NoUploadCollides` rest on `Positions`: there are
  never more photos than the limit, no two share a position, and what a request is about to
  write - the next position, or the ranks of an order - is free or will be refused.
  `ReadyPhotosHaveBytes` rests on `Kept`: which call still owns the bytes of a row that is
  not confirmed, so that neither a sweep nor a delete takes those of one that is.
  `UnlockedGridIsTrue` needs `Current`: what the newest refresh has read, and what
  the grid shows, is core's order unless a change is due that a refresh will follow.
  `MovesAreSwaps` rests on `MoveInv`: what a moved card has asked for swaps two neighbours
  among photos that stand before every other photo that is on the site or may still get there, since
  a photo that shows up does so last (`Rises`), and no other card is moved or removed
  meanwhile. `RanksOfTwoParts` and `SwapIsWritten` turn positions into places.
* `SettlementProofs`: `LedgerHoldsTheReports` and `ComparedGroupsAreExact` say nothing of
  calls that are under way, and are not inductive. `Booked` adds, for each call,
  that what it has written is what it planned and has not left, once each, with
  figures that are the sums of the plan (`Writing`); that no two calls
  write the same key, none a key that is on file, and what a call skipped is on file
  (`Apart`); and that the ledger has the keys of the imported reports, once each (`Ledger`).
  From it `LedgerIsTheReports`: the rows of one identity in a report are numbered from 0
  without gaps (`UsesCount`, `KeysOfBase`), so of several reports the one with the most has all the
  ledger has (`LedgerOfBase`). `ComparedAreExact` splits what Walmart charges into the
  order's total and its shipping (`GrossParts`). The sums are folds that the library defines
  by choosing an element; `SumFacts` shows that the choice does not matter, and `GrowsToAll`,
  from the least counterexample, is the induction over finite sets that it needs.

The assumptions are `OrdersAssumption` and its like: finitely many orders, variants,
photos and calls, bounds that are numbers, sets that do not overlap, and reports and orders
whose figures are whole cents. TLC evaluates
them in the runs.

Only model-checked: all liveness, which is beyond the prover.

## What is left

1. `Checkout`: the sweep's batch of 100 with the order of creation, and the age
   of events (the 24-hour window of `stripe-events.ts:243`).

## Not modelled

* **Price push**: `enqueuePricePush` has no caller outside tests
  (`docs/status/2026-09-22-walmart-launch-checklist.md:37`); its job and handler have
  the shape of the stock push. A change of price is therefore not pushed at all.
* **Settings, authentication, customers and referrals**: one row each, written by
  one statement with its check (a version, an expiry, consent that only goes to true).
* **Catalog reads, HTTP wiring, adapters, payload mappers**: keep no state that
  the properties depend on. CSV parsing of settlement reports, signatures and event parsing likewise.
* **Storefront and the other admin pages**: whatever they send is a request of the
  modelled services. The design handoff under `storefront/design` and the legacy
  mock services are prototypes that the core service does not use. Together with tests' fakes
  and seeds they are about half of the implementation's lines.

Known limits of the code that no property forbids, because nothing says otherwise:
a feed lost between the POST and its row; a feed polled again after success with less
detail turns a live listing to rejected, and the check of an older feed
overwrites the status of a resubmitted listing; a job that kills the worker never counts an attempt; a dead
ship job is not revived by a second `recordChannelShipment`; a return first seen
before its refund, or whose order is read before its shipment, is never applied later (`RefundsReachOrders` says when it is);
the returns poll reads the first hundred only, and orders beyond the page cap or the
window are not ingested; settlement rows imported before their order stay "unmatched", and
the job imports yesterday only; `deleteVariant` racing `createListing` removes the
listing with the row; in the Images tab a lost answer and Retry upload a photo twice, and a failed
refresh after a request that core refused as out of date leaves the grid locked without a Refresh
button (`ImagesTab.jsx:186`); `StockDialog.jsx:51` and `InfoTab.jsx:84` save drafts over what changed meanwhile.
