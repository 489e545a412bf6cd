# Order processing service: verification project

TLA+ models of the order processing service, the TLC runs that check them on
small instances, and TLAPS proofs of the properties that matter most.  The
machine-readable index (components, runs, mutants, map to the source, findings,
hazards, theorems) is `PROJECT.json`.

Run a check with `tlc -config <run>.cfg <module>`, a proof with
`tlapm <module>.tla`.

## 1. The system

The service is a Go program in hexagonal layers.  HTTP handlers call command
objects, commands use repositories over PostgreSQL through a unit of work, a
payment gateway, a worker pool and an event bus.

| Part | State | Operations | Interacts with |
|---|---|---|---|
| Order aggregate (`internal/domain/order`) | status, lines, recorded events | the guarded transitions | every order command |
| `PlaceOrder` | the aggregate in memory between two transactions | lookup by idempotency key, build, submit to the pool, transaction one (insert, reserve), charge loop, transaction two (payment row, stock, status), publish | pool, rows, gateway, bus |
| `CancelOrder` | a copy of the order read outside the transaction | release, refund, overwrite the status, publish | rows, bus |
| `UpdateOrderStatus` | a copy read inside the transaction without a lock | transition table, overwrite the status | rows |
| Inventory rows | available, reserved | conditional `UPDATE`s: reserve, release, commit | all commands |
| Payment rows and gateway | one row per order; the gateway's in-memory result map | create, refund; charge by key | `PlaceOrder`, `CancelOrder` |
| Worker pool (`pkg/concurrency`) | task channel, RWMutex, flags, WaitGroup | Start, Submit, TrySubmit, Stop | `PlaceOrder` |
| Event bus | handler lists, job channel | Subscribe, Publish (queue or inline), Stop | commands, event handlers |
| Notification dispatcher | notification rows, channel | Enqueue, process, Stop | event handlers |
| Server lifecycle | http.Server, signal context | load and validate the configuration, connect with retries, migrate, serve, drain or time out, then stop pool, bus, dispatcher, hub, RabbitMQ, database | all of the above |
| WebSocket hub | clients and their channels | register, unregister, broadcast, stop; a read and a write pump per client | event handler, sockets |
| RabbitMQ composite | connection | publish after the in-process bus, errors swallowed | bus |
| Catalogue, users | product, inventory and user rows | create, update, register, login | HTTP |
| Seed program | its position in a list of rows | count, insert; a process of its own on the same database | rows of the catalogue and users |
| Queries, daily report | none | paged reads, a loop of them for the report | HTTP |
| Money | amount | checked construction, unchecked sum and product | orders, products |
| Middleware | rate limiter's buckets, in-flight gauge | authentication, recovery, limits | HTTP |

What is hard here: three kinds of handlers write one order row from copies that
may be stale; stock is a pair of counters that does not know which order holds
which units; the money moves between two transactions, under a context the
client can cancel and in a process that can die; clients re-send; whole rows are
written back from plain reads; tables are paged in no defined order while they
change; and the in-process infrastructure must be stopped while it is in use.

The properties that make each part correct are listed with the runs below; the
places where they could go wrong are the hazards of `PROJECT.json`.

## 2. Modules

| Module | Models | How |
|---|---|---|
| `Order` | the statuses and the guard of each transition in `order.go`, and the table of `update_order_status.go` | operators on a status |
| `OrderPipeline` | `PlaceOrder`, `CancelOrder`, `UpdateOrderStatus`, the repositories they use, the mock gateway, the pool as a bound on running tasks | one action per statement group; see below |
| `OrderLifecycle` | what an order promises: `none -> reserved -> fulfilled or failed`, stock following the status | abstract specification |
| `MCOrderPipeline` | instances for TLC | two orders, one of which is re-sent |
| `OrderPipelineProofs`, `OrderRefinementProofs` | theorems about `OrderPipeline` | |
| `WorkerPool` | `pkg/concurrency.Pool` at the level of lock, channel and WaitGroup | positions of the calls stand for the lock they hold |
| `WorkerPoolProofs` | theorems about `WorkerPool` | |
| `EventBus`, `MCEventBus` | `InProcessBus` and the shutdown as the bus sees it | a job is an event and a handler |
| `Dispatcher` | the notification dispatcher, aggregate and rows | |
| `ChannelTheorems` | lemmas: how often a value is in a channel and with workers, and what send, receive and hand-over do to these numbers | used by `WorkerPoolProofs` and `EventBusProofs` |
| `EventBusProofs`, `DispatcherProofs` | theorems about `EventBus` and `Dispatcher` | |
| `Hub` | the WebSocket hub and the pumps of its clients | one action per case of `Run`'s select and per pump event |
| `App`, `MCApp` | the process from `config.Load` to exit: extends `Hub` with start-up, requests, the bus with its three kinds of handlers, the dispatcher's outbox, RabbitMQ and `App.Stop` | one stage per call of start-up and stop |
| `AppProofs` | theorems about `App` and `Hub` | |
| `RateLimit` | the token buckets of `middleware.RateLimit` and their eviction | time in ticks |
| `Http` | the middleware chain, ends of a handler and recovery; extends `RateLimit` | a request's position and what it has read |
| `Accounts` | registration, login, reads and updates of users; extends `Http` | one action per statement |
| `Money` | amounts of a reduced width that wrap | operators |
| `Catalogue` | product and inventory handlers and the seed program; extends `Accounts` and `Money` | |
| `Orders` | the order and administrator handlers and the daily report; extends `Catalogue` and `Order` | the pool and gateway are one outcome, `OrderPipeline` has them in full |
| `Api`, `MCApi` | all requests on one database, with statements that fail | a workload chosen in the initial state |
| `ApiProofs` | theorems about `Api`, `Accounts`, `Catalogue`, `Orders` and `RateLimit` | |

Operators with a comment `Variant:` are faulty forms of the definition that
follows them.  No specification uses them; `PROJECT.json` names them as the
mutants that the properties must catch.

### OrderPipeline and the code

`order`, `payment`, `available`, `reserved` are the database columns; `results`
is the gateway's map; `pc`, `mem`, `attempt`, `chargeErr`, `gone`, `evs`,
`reply` are what a goroutine holds; `published`, `charges`, `sold` and `crashes`
are history.  An order row is named by its idempotency key, which is unique.

* A transaction that inserts and runs conditional `UPDATE`s holds the locks of
  the rows it changed until it ends, so it is one action with a commit outcome
  and rollback outcomes.  The unlocked reads of `CancelOrder` and
  `UpdateOrderStatus` are actions of their own.  Locking between the statements
  of one transaction (and a database deadlock, which appears as an error) is not
  modelled.
* `TxMayFail`: a transaction fails because the database does, or because the
  request's context was cancelled.  A commit whose acknowledgement is lost is not
  modelled.
* Events are recorded on the aggregate while the transaction runs and published
  by `Handle` whatever became of the transaction, as in the code.
* `Crash` keeps the database and what the provider took, and loses calls and the
  gateway's map (the map is process memory in `mock_gateway.go`).
* Amounts are zero or positive (`FreeKeys`); lines are quantities per product.

### WorkerPool, EventBus, Dispatcher and the code

A call at `"send"` holds the pool's read lock, a manager at `"lock"` waits for
the write lock and keeps new readers out (sync.RWMutex).  A send is to the
buffer, directly to a waiting receiver, or, in a `select` with `default`,
neither.  In `EventBus` `handlers` is the map from event names to lists, read
under the lock once per event (`LookUp`); the server's `Shutdown` waits for the requests in flight
or times out, and `App.Stop` closes the job channel in both cases.  A listener
that fails (`ListenFails`, `server.go:44-45`) goes straight to `App.Stop`, and the
connections that are open go on sending requests.  What a handler does is
immaterial to the bus because `dispatch` recovers, so a job is only counted.  In
`Dispatcher` an Enqueue may come after Stop: `App.Stop` stops the bus first, but
`inproc.Stop` does not wait for a publisher that dispatches inline, so the send
can meet the closed channel (`OfferClosed`).  A crash loses the channel and the
aggregates, and nothing reads the rows back.  In `WorkerPool` every task is a
function: `Submit` and `TrySubmit` return at once for a nil one, which no caller
passes.

### Hub, App and the code

`register` and `unregister` are unbuffered, so a hand-over is one action of
`Run` (the read pump closes its socket afterwards, in `ReadCloses`), and a client's
reader that waits at `unregister` after `Run` has returned waits for ever, as in
the code; `HubStop` is `close(done)`, after which `Run` may
still choose any ready case.  A broadcast visits the clients in one action
(`Run` is the only owner of the map) and drops those whose buffer is full.
`log`, `joined` and `got` are history: what was handed out, from where on a
client is entitled to it, and what its socket got.

`stage` is the main goroutine: a stop stage is the call that has begun.  A
request holds its place in the two loops of `Publish` (`event`, `handler`), which
make a job of each event and handler in order; a job is queued or run inline, where the WebSocket handler can wait in
`Hub.Broadcast`, and a channel closed by Stop panics into `Recovery`.  The
RabbitMQ copy comes after the primary bus and its errors are swallowed, so it is
an action that changes nothing but the request's place.  A placement runs on the
pool and a cancellation (`Cancel`) in its handler.  After a listener failure
`Accept` stays possible until the process ends: `http.Server` was not shut down
and serves the connections it has.

Clients, sockets and signals are never assumed to do anything.  RabbitMQ may be
absent and may fail, but its `Publish` and `Close` are taken to return: a broker
that accepts a call and never answers it would hold up a request or `App.Stop`,
and `StopEnds` does not speak of that case.

### Api and the code

Each call goes through `Arrive`, the limiter, `Auth` and its handler.  `mem[c]`
is what the handler has read; a handler that reads and later writes is two
actions or more, one for each statement outside a transaction.  Transactions run
at READ COMMITTED, PostgreSQL's default, so `UpdateProduct`, `UpdateUser` and
`UpdateOrderStatus`, which read without a lock and then write, are two actions
although they are one transaction.  `Fail` takes the kind of the error and
`StatusFor` its HTTP status; `DbFails` lets any statement fail.

* A row's id is its position; rows are never deleted.  No query has an ORDER BY,
  so a page (`Pages`) is any choice of rows, in any order and of the right number:
  two pages may share a row although nothing was written between them.
* A currency is a code that both the binding and `NewMoney` take (`Currencies`),
  one of three characters and more bytes that only the binding takes
  (`WideCodes`), or a string that neither does.  `len=3` in a binding counts
  characters, `NewMoney` bytes.
* `server` is how far `App.Stop` has come while requests are still served, after a
  listener failure or a timeout.  The pool refuses tasks once it stops and is
  waited for; a placement or a cancellation that publishes after the bus is closed
  panics in its handler with its rows written (`Publish`).  What happens before the
  channel is closed is `EventBus`'s.
* The limiter's clock is read before its mutex is taken (`ReadClock`, then
  `Limit`); `rate.Limiter` reads the clock itself.  `MaxDelay` bounds the wait
  between the two, and `RateAssumption` says that a bucket refills in the time
  before it can be evicted (with the defaults 40 tokens at 20 per second against
  ten minutes).
* A password stands for its hash and a token for its claims; a token stays
  valid in the model, and `Unauthorized` covers expiry.
* The seed program is a process of its own: it may be killed before any
  statement and started again.
* `WorkloadAssumption` says what JSON, the column types and the unique indexes
  make sure of: fields of a request, seed data, and the rows a workload starts
  from, which are rows this code wrote (prices and stock not negative, currencies
  that `NewMoney` takes, a total true unless it overflows).
* `orderRepo.Update` writes status, total and currency of the copy it is given.
  The last two never change, so `SetStatus` sets the status alone.
* `commits`, `interrupted`, `reports` and an order's `exact` total are history; a
  report is kept with the number of orders when it began and when it ended.

## 3. Runs

| Run | Instance | Checks |
|---|---|---|
| `place` | 3 requests, 2 of them one request re-sent, 2 products, scarce stock, 2 workers, every fault, one crash | types; reserved units are exactly those of reserved orders; one creator and at most one charge per key; terminal statuses final; refinement of `OrderLifecycle` |
| `handlers` | 2 orders, 2 cancellations and an administrator on the first, the second stays reserved (it costs nothing), database errors, one crash | stock conserved; units sold are those with a payment; payment rows match the provider; outcomes match payments until an administrator edits the order |
| `live` | 3 requests on 2 workers with no queue, 1 product with stock for both orders, a cancellation, no fault, fairness | every call is answered; every reserved order settles unless units of a reserved order were taken |
| `pool` | 3 tasks, 2 workers, capacity 1, fairness | types and capacity; no send on the closed channel; accepted tasks exactly once; Stop drains; calls return |
| `bus` | 2 requests with 3 events, a named and a wildcard handler, 2 workers, capacity 1, fairness | types and capacity; no double handling; Stop delivers; Publish panics only after a shutdown that did not drain; progress |
| `notify` | 3 notifications, 2 workers, capacity 1, all faults, one crash, fairness | types and capacity; at most one message; true rows; Stop leaves nothing; accepted is attempted |
| `app` | 1 request with 3 events, 1 of them notified, 1 bus worker, channels of 1, 1 WebSocket client, RabbitMQ publisher only, 2 pings, fairness | types and capacity; a client's channel is closed once; what a client gets has no gap; a drained shutdown has brought every event to the hub; the database outlives its users; shutdown ends |
| `api` | 16 workloads of up to 4 requests each, two seed runs, 2 addresses, pages of 2, a report of at most 4, amounts up to 7 | types and stock; tokens are true; an update is lost only to an overlapping one; products without inventory come only from a killed seed; a report counts as many orders as there were; panics are explained; eviction is invisible |
| `terminal_overwritten` | 2 orders, a cancellation | violated, see findings |
| `reservation_stolen` | 2 cancellations of one order beside another order | violated |
| `cancel_unrefunded` | a cancellation during the charge | violated |
| `disconnect_stuck` | a client that disconnects, fairness | violated |

Bounds.  Two orders that want the same product are enough for one to lose stock
to the other (`place` has too little for both, `live` enough for both to hold units
at once, which a stale cancellation needs to take the wrong ones; with a second
product that only one of the orders wants, the wrong release would fail); a re-sent
request needs two calls with one key; a stolen reservation needs two cancellations and a bystander.  Two payment attempts
distinguish the first, the last and a retry.  One crash separates "before" and
"after" for every step.  A capacity of one with two workers and three senders
fills the channel, blocks a sender and keeps a worker waiting.  Three events on
channels of one force the inline path, a full broadcast channel and a dropped
client in one shutdown.  `Api` keeps the requests of a workload fixed, because
arbitrary requests multiply without meeting: each workload puts up to four
requests at the same rows (registrations of one email; updates of one product; a
place, two cancellations and a status update of one order; a report beside
three writers; prices in codes of the wrong length; a place and a cancellation
that publish while `App.Stop` runs; the seed program beside a creation and a registration of its
rows; an order that overflows beside its readers; four requests on two rate
limiter buckets for seven ticks, more than two evictions).  Five orders on
pages of two exceed the report's four; four times a price of 3 exceeds 7.
Bounds on counters: `MaxCrashes`, `MaxTime`, `MaxDelay` and a workload's `seeds`.

Fairness.  Weak fairness of each call's code, of workers and of Stop: goroutines
that can run are run by the Go scheduler, statements and charges return (the
gateway's latency is bounded by a timer).  In `app` that is the main goroutine's
Stop, a dispatcher worker, the hub's `Run`, each request and each bus worker,
and no socket, so `StopEnds` holds with clients that never read.  Strong fairness only for a pool
submitter, because a channel serves blocked senders in order and an unlocked
RWMutex admits the readers that waited.  No fault, arrival or signal is ever
assumed to happen.

Deadlock is checked in every run but `api`, which ends when its requests are
answered, and `pool`, where callers that do not wait for
Start can block each other: a Submit that fills the channel before Start keeps
the read lock, and Start cannot get the write lock.  `bootstrap.New` starts the
pool before anyone has it, so the server is not exposed; `CallsReturn` and
`StopDrains` are stated for that order.

### Findings

* `terminal_overwritten`: the aggregate's state machine guards a copy; the
  unconditional `UPDATE` lets a cancellation overwrite `fulfilled`, or a
  settlement overwrite `cancelled`.
* `reservation_stolen`: two cancellations of one order release its units twice,
  the second time out of another order's reservation.
* `cancel_unrefunded`: a cancellation between charge and settlement leaves the
  customer charged for a cancelled order with no payment row.
* `disconnect_stuck`: after a disconnect transaction two cannot run and the order
  stays reserved for good.

### Observations without a run

* An order can stay reserved without any fault, too.  A cancellation and the
  settlement of one order, each on its own copy, both take the order's units out of
  the reserved column, the later of them at the expense of another order; the other
  order's settlement finds too few units, rolls back, and the order stays reserved,
  whether it was charged or declined.  It happens in the instance of `live`, where
  TLC refutes `OrdersSettle`; `SettlesUnlessRobbed` says that without faults nothing
  else keeps an order with a price reserved.
* The administrator's update checks a copy as well (`update_order_status.go:21-30`):
  a settlement that commits between its read and its write is overwritten, so a
  fulfilled and charged order can become cancelled.  `TerminalIsFinal` fails with
  one request and one administrator.
* An administrator's change to `cancelled` or `failed` releases no stock
  (`update_order_status.go:30`), against `docs/diagrams/03-order-state.mmd:9`
  ("reserved --> cancelled: stock released"): `AdminWrite` leaves `reserved` as it
  is and the order can no longer be cancelled or settled.
* A settlement that rolls back still publishes `OrderPaid`
  (`place_order.go:85-89`), which sends a confirmation: `SettleConflict` records
  two events before the failing statement, and `Publish` hands them out.
* An order with a total of zero is reserved and then refused by `NewPayment`
  (`place_order.go:120`, `payment.go:40`); products may cost zero
  (`dto/product.go:12`).  `OrdersSettle` and
  `SettlesUnlessRobbed` are stated for orders with a price.
* A request that outlives `ShutdownTimeout`, or is served after the listener failed
  (`server.go:44-45` returns without `Shutdown`), publishes on the closed bus and
  panics: its rows are written, its events lost and the answer is 500.
  `OnlyUndrainedPanics` says that these are the only two ways.
* Two updates of one product that overlap lose one of them, although
  `docs/openapi.yaml:986` says "only provided fields are updated": the whole row
  is saved from a plain read (`update_product.go:31`, `:62`).
  `LostOnlyToOverlap` says it is the only way an update is lost.  `Description` is
  accepted and never used, and a currency without a price is ignored
  (`update_product.go:42-52`).
* A seed program killed between a product and its inventory row leaves a product
  that the rerun skips (`cmd/seed/main.go:136`), against `README.md:110`
  ("idempotent"); every order for it is answered `out_of_stock`.
* `Mul` and `Add` wrap (`money.go:42-51`): a negative total is stored, charged
  (`NewPayment` refuses only zero), and then makes `MustMoney` panic whenever the
  row is read (`order_repo.go:166`), in lists and the daily report too.  A total that
  wraps to a small positive number is stored and charged, and nothing shows it.
  `PanicsExplained` says that only the first kind, and the closed bus, make a
  handler panic: no currency and no product ever does.  A panic also leaves the
  in-flight gauge one too high (`middleware.go:108-111`).
* The daily report counts the orders of all days: the date is copied into the answer
  (`daily_report.go:78`) and `collect` does not know it, although
  `docs/openapi.yaml:655` says "Aggregates orders for a given day".  It pages
  without an ORDER BY (`order_repo.go:100-105`), so it can count one order twice and miss another, also when nothing is written meanwhile.
  `ReportCountsAll` says what holds: the number of orders is right up to its limit
  of 2000.  Totals in different currencies are added up and labelled with the
  currency of the first order (`daily_report.go:44-62`).
* A read pump that fails after the hub's `Run` has returned, and a WebSocket
  request that arrives then, wait for ever at `unregister` or `register`
  (`hub.go:95`, `:158`); `StopEnds` shows that nobody waits for them.
* `userToModel` leaves out `created_at`, so saving a profile erases it
  (`user_repo.go:58-66`).  A duplicate SKU is answered with 500, a duplicate
  email with 409.
* A notification that meets a full queue stays `queued`: `dispatcher.go:87` speaks
  of a "later sweep", and `ListByStatus` has no caller.

## 4. Proofs

All for every value of the constants: any number of calls, orders, products,
quantities, attempts, workers, handlers, clients, capacities and faults.  The
assumptions are the named ASSUMEs of the modules, which TLC evaluates in the
runs: disjoint sets of calls and of goroutines, finite pools of at least one
worker, types of the inputs, `"*"` not being the name of an event, tasks that are
not worker states (`TaskAssumption`), `RateAssumption`, `MoneyAssumption`,
`CodesAssumption` (a wide code is not one that `NewMoney` takes),
`ReportAssumption` (the report's page size divides its limit, 200 and 2000 in the
code) and `WorkloadAssumption`.

| Theorem | States | Rests on |
|---|---|---|
| `TypeCorrect` | `OrderPipeline` `TypeOK` | action by action |
| `StockIsConserved` | `StockConserved` | inductive with the types: each conditional `UPDATE` moves units between columns and its condition keeps the source column from going negative |
| `PaymentRowsAreTrue`, `NeverChargedTwice`, `CreatedIsUnique` | `PaymentMatchesCharge`, `ChargedAtMostOnce`, `CreatedOnce` | `PaymentInv` |
| `OutcomeMatchesPayment` | `OutcomeIsPaidFor` | `PaymentInv`, `OutcomeInv` |
| `PlaceOrderImplementsLifecycle`, `TerminalStays` | refinement, `TerminalIsFinal`, when only `PlaceOrder` runs | `PaymentInv`, `OwnedIsReserved` |
| `SoldUnitsArePaidFor` | `SoldIsPaidFor` | `PaymentInv`, sums |
| `ReservationsAreExact` | `ReservationsExact`, when only `PlaceOrder` runs | `PaymentInv`, `OwnedIsReserved`, sums |
| `SubmitNeverPanics` | `NeverSendsOnClosed` | `LockInv` |
| `PoolTypeCorrect`, `AcceptedTasksAreKept` | `WorkerPool` `TypeOK`, `AcceptedExactlyOnce` | `OnceInv` |
| `StopRunsEveryTask` | `StopDrains` | `OnceInv`, `DrainInv` |
| `BusTypeCorrect`, `EventsAreHandledOnce`, `StopDeliversAll` | `EventBus` `TypeOK`, `HandledAtMostOnce`, `StopDelivers` | `BusInv` |
| `OnlyUndrainedShutdownsPanic` | `OnlyUndrainedPanics` | `ShutdownInv` |
| `DispatcherTypeCorrect`, `MessagesAreSentOnce`, `RowsAreTrue`, `StopAttemptsAll` | `Dispatcher` `TypeOK`, `SentAtMostOnce`, `RowIsTrue`, `StopAttempts` | `DispatcherInv` |
| `AppTypeCorrect`, `HubClosesOnce`, `ClientsMissNothing`, `DatabaseClosesLast`, `EventsAreNotLost` | `App` `TypeOK`, `ClosedOnce`, `NoGap`, `DbOutlivesUsers`, `EventsReachHub` | `AppInv` |
| `EvictionIsInvisible` | `EvictionInvisible` | `CallsInv`, `LimitInv` |
| `TokensTellTheTruth` | `TokensAreTrue` | `CallsInv`, `SeedInv`, `UserInv` |
| `UpdatesAreLostOnlyToOverlap` | `LostOnlyToOverlap` | `CallsInv`, `SeedInv`, `ProductInv` |
| `OrphansComeFromInterruptedSeeds` | `OrphanOnlyFromInterruptedSeed` | the same and `OrphanInv` |
| `ApiTypes`, `PanicsAreExplained`, `ReportsCountAllOrders` | `Api` `TypeOK`, `PanicsExplained`, `ReportCountsAll` | `SystemInv` |

**Orders.**  `PaymentInv` is the heart.  None of the three payment properties is
inductive: that a key is charged once does not follow from charges being at most
one now, but from there being a single call that may still charge it.
`PaymentInv` therefore adds that at most one call owns an order, an owner being a
call between its transaction one and the end of its settlement, that it finds no
payment row, and that nothing was charged or recorded before the row exists
(`OwnerInv`, from the unique index, and stable under a crash because the row
survives); what the provider and the gateway's map hold while the owner is at
each stage (`ChargeInv`); and what a call's prepared answer says about its order
(`ReplyInv`).

`OutcomeInv` adds, for orders no administrator has touched, that `paid` is never
stored and never held by a cancellation, so nothing refunds, and the two terminal
statuses stay beside the payment written with them.  `OwnedIsReserved` says that,
with `PlaceOrder` alone, an owner finds the row as it left it; each step then maps
to one step of `OrderLifecycle` or to none.

The stock theorems compare a column with a sum over orders.  What the sums need
(a sum is a number, an element added adds its term, terms that agree give the
same sum) is an induction over a finite set, which the provers cannot take from
the library; it is proved by a smallest counterexample instead: the sizes of the
sets that refute the lemma are natural numbers and have a least one.

**Channels.**  In the pool and the bus "once" counts copies: slots of the channel,
workers that hold the value, and completed runs.  `ChannelTheorems` says how each
kind of step moves one copy, so the sum is kept.  What is not counting is who may still send:
in the pool the read lock (`LockInv`) and workers that are off until Start has
returned (`SpawnInv`); in the bus the position of each Publish and the handlers it
has yet to serve, none of them twice (`CallInv`, `HandlersInv`,
`HandedInv`); in the dispatcher the place of each notification and what its
aggregate and row say there (`PlaceInv`, `SendInv`, `KeptInv`).  Stop's theorems
add that a worker leaves only an empty closed channel (`DrainInv`, `ExitInv`,
`CloseInv`).

**The process.**  `AppInv` follows the order of `App.Stop`: what is over at each
stage stays over (`QuietInv`), a request's place fits its events (`LoopInv`,
`RequestInv`), a goroutine that waits in `Hub.Broadcast` runs no other job
(`OneAtATime`), an event of an answered request is a job, a broadcast that waits,
or in the hub's log (`PushInv`), and what a client got continues with what its
channel holds, also after it was dropped (`FreshInv`, `PieceInv`), which `NoGap`
does not say.

**The API.**  `LimitInv` compares the limiter with one that never evicts: an entry
has the same tokens, it was last seen at most `MaxDelay` before a token was taken,
and an address without entry has a full bucket, so what is swept is full.
`UserInv` is about the copies that overlapping saves hold: each has the email and
the role of the row it will replace.  `ProductInv` generalises
`LostOnlyToOverlap` from the stored row to every copy: the row an update has read
satisfies it for the updates before the read, from which the row it writes
satisfies it again.  `OrphanInv` names the product of a seed program between its
inserts by its sku, which is unique, where the property names it by `SeedRowId`.

`SystemInv` joins what orders, stock and reports need.  A handler panics when
`MustMoney` refuses what it reads or the bus is closed, so `PanicsExplained` needs
that every product's price and currency can be read back, the ones an update is
about to write included (`PricesInv`: the binding takes codes that `NewMoney` does
not, and only the command's check keeps them out of the row), and that every stored
total is the true one unless the true one exceeds `MaxInt` (`IsOrder`, in
`OrdersInv`).  The second is a fact about the recursive sums `Total` and
`ExactTotal` over the items, proved by a smallest counterexample like the sums
above.  An explanation, once there, stays: rows are never deleted and an update
leaves owner, key and true total alone (`ReasonStays`).  `OrdersInv` also says what
a request holds between two steps (`Holds`): the lines read, the id it will settle,
the answer it will give after publishing, or the pages a report has collected.
`Collecting` says that those pages were full and that the table has not shrunk
below them nor below the size it had when the report began; `ReportCountsAll` is
then arithmetic on the last page and the limit, with no assumption on which rows a
page holds.  `StockInv` keeps the columns of stock from going negative under the
conditional `UPDATE`s of any order.  `GaugeInv` says that the gauge is the number
of requests under way, panicked ones included.

TLC checked the inductive invariants on the instances of the runs before they
were proved.

Only model-checked: liveness (`EveryCallAnswered`, `SettlesUnlessRobbed`, `CallsReturn`,
`BusMakesProgress`, `QueuedIsAttempted`, `StopEnds`), which is out of the provers'
reach.  Every invariant and every other action property that a passing run checks
is stated by a theorem.

## 5. Not modelled

Not modelled: logging, metrics other than the in-flight gauge, health and docs
endpoints, rendering of responses, the work of the hashing and token libraries;
the row locks inside a transaction (a database deadlock appears as a failed
transaction); RabbitMQ's queue, whose only consumer logs what it receives, and a
broker that never answers; the settings that `config.validate` does not look at; nil
tasks of the pool; a commit whose acknowledgement is lost.

A possible extension: the statements of transactions one and two with row locks,
shown to implement the atomic transactions of `OrderPipeline`.
