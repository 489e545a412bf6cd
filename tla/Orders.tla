------------------------------- MODULE Orders -------------------------------
(* The order handlers: placing, reading, listing and cancelling orders, the *)
(* administrator's status update and the daily report.  A step is one       *)
(* statement outside a transaction, or one transaction whose first          *)
(* statement that matters locks its row.  What happens inside the pool and  *)
(* at the gateway is OrderPipeline's, and what inside the bus EventBus's;   *)
(* here each is one outcome.                                                *)

EXTENDS Catalogue, Order, SequencesExt

CONSTANT MaxOrders   \* rows the daily report stops at

ASSUME ReportAssumption ==
  PageSize \in Nat \ {0} /\ MaxOrders \in Nat \ {0} /\ MaxOrders % PageSize = 0

VARIABLES
  orders,    \* the orders table; a row's id is its position
  payments,  \* status of the payment row, by order id
  server,    \* how far the process has stopped
  \* history
  reports    \* daily reports answered, with the number of orders at either end

orderVars == <<orders, payments, server, reports>>
accountVars == <<limited, call, tokens, users, limitVars>>

Keys == {orders[i].key : i \in DOMAIN orders}

\* The columns of a row and of its lines.  The total is what the amounts wrapped
\* to; exact, a history column, is the true one.
Items == [product : Nat, price : Nat, currency : Currencies, quantity : Nat \ {0}]
IsOrder(r) ==
  /\ DOMAIN r = {"user", "status", "items", "total", "currency", "exact", "key"}
  /\ r.status \in Status /\ r.items \in Seq(Items) /\ r.currency \in Currencies
  /\ r.total \in -MaxInt - 1 .. MaxInt /\ r.exact \in Nat /\ (r.exact <= MaxInt => r.total = r.exact)

\* orderRepo.Update.  It writes the total and its currency as well, which stay
\* as they were inserted.
SetStatus(id, status) == orders' = [orders EXCEPT ![id].status = status]

\* orderToDomain builds the total and the price of each item with MustMoney.
Converts(row) ==
  /\ ValidMoney(row.total, row.currency)
  /\ \A i \in DOMAIN row.items : ValidMoney(row.items[i].price, row.items[i].currency)

\* orderIDFrom, then FindByID.
FindOrder(id) ==
  CASE id = 0 -> "validation"
    [] id # 0 /\ id \notin DOMAIN orders -> "not_found"
    [] id \in DOMAIN orders /\ ~Converts(orders[id]) -> "panic"
    [] OTHER -> ""

\* A customer sees the orders of that customer, an administrator sees all.
Sees(c, row) == row.user = claims[c].sub \/ claims[c].role = "admin"

ReadableBy(c) ==
  LET why == FindOrder(call[c].id)
  IN IF why = "" /\ ~Sees(c, orders[call[c].id]) THEN "forbidden" ELSE why

-----------------------------------------------------------------------------
(* Inventory rows: Reserve, Release and Commit for the items of an order.   *)

Units(items, p) ==
  LET sum[n \in 0 .. Len(items)] ==
        IF n = 0 THEN 0 ELSE sum[n - 1] + IF items[n].product = p THEN items[n].quantity ELSE 0
  IN sum[Len(items)]

\* Variant: one unit more than there is can be reserved.
CanReserveOneMore(items) ==
  \A i \in DOMAIN items : LET p == items[i].product IN
    p \in DOMAIN inventory /\ inventory[p].available + 1 >= Units(items, p)

CanReserve(items) ==
  \A i \in DOMAIN items : LET p == items[i].product IN
    p \in DOMAIN inventory /\ inventory[p].available >= Units(items, p)

CanRelease(items) ==
  \A i \in DOMAIN items : LET p == items[i].product IN
    p \in DOMAIN inventory /\ inventory[p].reserved >= Units(items, p)

Reserve(items) ==
  inventory' = [p \in DOMAIN inventory |->
    [inventory[p] EXCEPT !.available = @ - Units(items, p), !.reserved = @ + Units(items, p)]]

Release(items) ==
  inventory' = [p \in DOMAIN inventory |->
    [inventory[p] EXCEPT !.available = @ + Units(items, p), !.reserved = @ - Units(items, p)]]

Commit(items) ==
  inventory' = [p \in DOMAIN inventory |-> [inventory[p] EXCEPT !.reserved = @ - Units(items, p)]]

-----------------------------------------------------------------------------
(* POST /orders.                                                            *)

\* The Idempotency-Key header, or a fresh key.
KeyOf(c) == IF call[c].key = "" THEN c ELSE call[c].key

BindsOrder(r) ==
  /\ Len(r.lines) >= 1
  /\ \A i \in DOMAIN r.lines : r.lines[i].product # 0 /\ r.lines[i].quantity > 0

\* An order with the key is the answer; an error of the lookup is ignored.
PlaceLookup(c) ==
  /\ At(c, {"place"}, "handler")
  /\ \/ /\ ~BindsOrder(call[c])
        /\ Fail(c, "validation")
     \/ /\ BindsOrder(call[c]) /\ KeyOf(c) \in Keys
        /\ LET id == CHOOSE i \in DOMAIN orders : orders[i].key = KeyOf(c) IN
           IF Converts(orders[id]) THEN Reply(c, 201) ELSE Panic(c)
     \/ /\ BindsOrder(call[c])
        /\ GoOn(c, "line", <<>>)
  /\ UNCHANGED <<accountVars, catalogueVars, orderVars>>

\* NewOrder: all items in the currency of the first.
OneCurrency(items) == \A i \in DOMAIN items : items[i].currency = items[1].currency

\* The products of the lines are read one after the other.
PlaceLine(c) ==
  /\ At(c, {"place"}, "line")
  /\ LET line == call[c].lines[Len(mem[c]) + 1]
         why == FindProduct(line.product) IN
     CASE why # "" -> Refuse(c, why)
       [] why = "" /\ ~products[line.product].active -> Fail(c, "validation")
       [] OTHER ->
            LET p == products[line.product]
                items == Append(mem[c], [product |-> line.product, price |-> p.price,
                                         currency |-> p.currency, quantity |-> line.quantity]) IN
            CASE Len(items) < Len(call[c].lines) -> GoOn(c, "line", items)
              [] Len(items) = Len(call[c].lines) /\ ~OneCurrency(items) -> Fail(c, "validation")
              [] OTHER -> GoOn(c, "submit", items)
  /\ UNCHANGED <<accountVars, catalogueVars, orderVars>>

\* A pool that is stopped takes no task.
PlaceSubmit(c) ==
  /\ At(c, {"place"}, "submit")
  /\ IF server \in {"pool", "bus"} THEN Fail(c, "unavailable") ELSE GoOn(c, "reserve", mem[c])
  /\ UNCHANGED <<accountVars, catalogueVars, orderVars>>

NewOrder(c, items) ==
  [user |-> claims[c].sub, status |-> "reserved", items |-> items, total |-> Total(items),
   currency |-> items[1].currency, exact |-> ExactTotal(items), key |-> KeyOf(c)]

\* The handler has its answer, and publishes the events of the order first: the
\* ones of a failed placement too, as NewOrder has recorded one already.
PublishThen(c, status) == GoOn(c, "publish", status)

\* The first transaction of process: the unique index on the key refuses a
\* duplicate with an error of no kind.
PlaceReserve(c) ==
  /\ At(c, {"place"}, "reserve")
  /\ CASE KeyOf(c) \in Keys ->
            PublishThen(c, StatusFor.internal) /\ UNCHANGED <<orders, inventory>>
       [] KeyOf(c) \notin Keys /\ ~CanReserve(mem[c]) ->
            PublishThen(c, StatusFor.out_of_stock) /\ UNCHANGED <<orders, inventory>>
       [] OTHER -> /\ orders' = Append(orders, NewOrder(c, mem[c]))
                   /\ Reserve(mem[c])
                   /\ GoOn(c, "settle", Len(orders) + 1)
  /\ UNCHANGED <<accountVars, products, seedVars, commits, payments, server, reports>>

\* The rest of process: a payment of zero is refused, the gateway charges or
\* declines, and the second transaction settles the copy made in the first,
\* which is still reserved whatever the row says by now.
PlaceSettle(c) ==
  /\ At(c, {"place"}, "settle")
  /\ LET ord == orders[mem[c]] IN
     \/ /\ ord.total = 0
        /\ PublishThen(c, StatusFor.validation) /\ UNCHANGED <<orders, inventory, payments>>
     \/ /\ ord.total # 0 /\ ~CanRelease(ord.items)
        /\ PublishThen(c, StatusFor.conflict) /\ UNCHANGED <<orders, inventory, payments>>
     \/ /\ ord.total # 0 /\ CanRelease(ord.items)
        /\ SetStatus(mem[c], "fulfilled")
        /\ payments' = (mem[c] :> "succeeded") @@ payments
        /\ Commit(ord.items)
        /\ PublishThen(c, 201)
     \/ /\ ord.total # 0 /\ CanRelease(ord.items)
        /\ SetStatus(mem[c], "failed")
        /\ payments' = (mem[c] :> "failed") @@ payments
        /\ Release(ord.items)
        /\ PublishThen(c, StatusFor.payment_failed)
  /\ UNCHANGED <<accountVars, products, seedVars, commits, server, reports>>

\* bus.Publish, in the handler's goroutine: a send on the channel that Stop has
\* closed panics, after the rows are written.
Publish(c) ==
  /\ At(c, {"place", "cancel"}, "publish")
  /\ IF server = "bus" THEN Panic(c) ELSE Reply(c, mem[c])
  /\ UNCHANGED <<accountVars, catalogueVars, orderVars>>

-----------------------------------------------------------------------------
(* Reads, cancellation and the administrator's status update.               *)

GetOrder(c) ==
  /\ At(c, {"getOrder", "orderStatus"}, "handler")
  /\ IF ReadableBy(c) = "" THEN Reply(c, 200) ELSE Refuse(c, ReadableBy(c))
  /\ UNCHANGED <<accountVars, catalogueVars, orderVars>>

\* The query asks for all rows, or for a customer's own.
Asked(c) == {i \in DOMAIN orders : call[c].op = "listOrders" \/ orders[i].user = claims[c].sub}

ListOrders(c) ==
  /\ At(c, {"listOrders", "listUserOrders"}, "handler")
  /\ \E page \in Pages(Asked(c), call[c].page, PageSize) :
       IF \A i \in DOMAIN page : Converts(orders[page[i]]) THEN Reply(c, 200) ELSE Panic(c)
  /\ UNCHANGED <<accountVars, catalogueVars, orderVars>>

\* The handler reads the order to see whose it is ...
CancelCheck(c) ==
  /\ At(c, {"cancel"}, "handler")
  /\ IF ReadableBy(c) = "" THEN GoOn(c, "load", <<>>) ELSE Refuse(c, ReadableBy(c))
  /\ UNCHANGED <<accountVars, catalogueVars, orderVars>>

\* ... the command reads it again, and finds it: rows stay, and keep all but
\* their status ...
CancelLoad(c) ==
  /\ At(c, {"cancel"}, "load")
  /\ GoOn(c, "write", orders[call[c].id].status)
  /\ UNCHANGED <<accountVars, catalogueVars, orderVars>>

\* ... and the transaction goes by the status read then.
CancelWrite(c) ==
  /\ At(c, {"cancel"}, "write")
  /\ LET id == call[c].id
         items == orders[id].items
         held == mem[c] \in {"reserved", "paid"}
         refused ==
           CASE (held /\ ~CanRelease(items)) \/ ~CanCancel(mem[c]) -> "conflict"
             [] mem[c] = "paid" /\ CanRelease(items) /\ id \notin DOMAIN payments -> "not_found"
             [] mem[c] = "paid" /\ CanRelease(items) /\ id \in DOMAIN payments
                /\ payments[id] # "succeeded" -> "conflict"
             [] OTHER -> "" IN
     IF refused # ""
     THEN Fail(c, refused) /\ UNCHANGED <<orders, inventory, payments>>
     ELSE /\ IF held THEN Release(items) ELSE UNCHANGED inventory
          /\ payments' = IF mem[c] = "paid" THEN [payments EXCEPT ![id] = "refunded"] ELSE payments
          /\ SetStatus(id, "cancelled")
          /\ PublishThen(c, 200)
  /\ UNCHANGED <<accountVars, products, seedVars, commits, server, reports>>

\* The statuses transition knows.
Targets == Status \ {"pending"}

\* One transaction, but the read takes no lock.
UpdateStatusRead(c) ==
  /\ At(c, {"updateStatus"}, "handler")
  /\ LET why == IF call[c].status = "" THEN "validation" ELSE FindOrder(call[c].id) IN
     CASE why # "" -> Refuse(c, why)
       [] why = "" /\ call[c].status \notin Targets -> Fail(c, "validation")
       [] why = "" /\ call[c].status \in Targets /\ ~CanTransition(orders[call[c].id].status, call[c].status) ->
            Fail(c, "conflict")
       [] OTHER -> GoOn(c, "write", <<>>)
  /\ UNCHANGED <<accountVars, catalogueVars, orderVars>>

UpdateStatusWrite(c) ==
  /\ At(c, {"updateStatus"}, "write")
  /\ SetStatus(call[c].id, call[c].status)
  /\ Reply(c, 200)
  /\ UNCHANGED <<accountVars, catalogueVars, payments, server, reports>>

-----------------------------------------------------------------------------
(* GET /admin/reports/daily: pages are fetched until one is short, the      *)
(* count is reached or MaxOrders are collected.                             *)

\* DailyReport.Handle: the date is passed through, and the sum is given in the
\* currency of the first order.
Report(date, rows) ==
  [date |-> date,
   totalOrders |-> Len(rows),
   totalRevenue |-> FoldLeft(LAMBDA sum, r : Add(sum, r.total), 0, rows),
   currency |-> IF rows = <<>> THEN DefaultCurrency ELSE rows[1].currency,
   byStatus |-> [s \in {rows[i].status : i \in DOMAIN rows} |->
                   Cardinality({i \in DOMAIN rows : rows[i].status = s})]]

\* ListAll counts the table ...
ReportCount(c) ==
  /\ At(c, {"report"}, "handler") \/ At(c, {"report"}, "count")
  /\ LET m == IF pc[c] = "handler"
              THEN [page |-> 1, collected |-> <<>>, total |-> 0, began |-> Len(orders)]
              ELSE mem[c]
     IN GoOn(c, "find", [m EXCEPT !.total = Len(orders)])
  /\ UNCHANGED <<accountVars, catalogueVars, orderVars>>

\* Variant: a full page ends the loop as well.
LastPageFull(batch, collected, total) ==
  Len(batch) <= PageSize \/ Len(collected) >= total \/ Len(collected) >= MaxOrders

LastPage(batch, collected, total) ==
  Len(batch) < PageSize \/ Len(collected) >= total \/ Len(collected) >= MaxOrders

\* ... and then reads the page.
ReportFind(c) ==
  /\ At(c, {"report"}, "find")
  /\ \E page \in Pages(DOMAIN orders, mem[c].page, PageSize) :
     LET batch == [i \in DOMAIN page |-> orders[page[i]]]
         collected == mem[c].collected \o batch IN
     CASE \E i \in DOMAIN batch : ~Converts(batch[i]) -> Panic(c) /\ UNCHANGED reports
       [] OTHER ->
            IF LastPage(batch, collected, mem[c].total)
            THEN /\ reports' = reports \cup {[result |-> Report(call[c].date, collected),
                                             began |-> mem[c].began, ended |-> Len(orders)]}
                 /\ Reply(c, 200)
            ELSE /\ GoOn(c, "count", [mem[c] EXCEPT !.page = @ + 1, !.collected = collected])
                 /\ UNCHANGED reports
  /\ UNCHANGED <<accountVars, catalogueVars, orders, payments, server>>

-----------------------------------------------------------------------------
(* App.Stop, when a listener failure or a shutdown that timed out has left  *)
(* requests in flight: the pool takes no more tasks and finishes the ones   *)
(* it has, and only then is the bus closed.                                 *)

StopStep ==
  /\ \/ server = "stopping" /\ server' = "pool"
     \/ /\ server = "pool" /\ \A c \in Calls : pc[c] \notin {"reserve", "settle"}
        /\ server' = "bus"
  /\ UNCHANGED <<httpVars, limitVars, users, catalogueVars, orders, payments, reports>>

OrderStep(c) ==
  \/ PlaceLookup(c) \/ PlaceLine(c) \/ PlaceSubmit(c) \/ PlaceReserve(c) \/ PlaceSettle(c) \/ Publish(c)
  \/ GetOrder(c) \/ ListOrders(c) \/ CancelCheck(c) \/ CancelLoad(c) \/ CancelWrite(c)
  \/ UpdateStatusRead(c) \/ UpdateStatusWrite(c) \/ ReportCount(c) \/ ReportFind(c)

-----------------------------------------------------------------------------

\* A report has as many orders as there were when it began, up to MaxOrders,
\* and no more than there are when it ends, whatever is placed between two of
\* its pages and however the pages fall.  They are the orders of all days:
\* collect does not know the date, although docs/openapi.yaml says "for a given
\* day".
ReportCountsAll ==
  \A r \in reports :
    /\ r.result.totalOrders >= r.began \/ r.result.totalOrders = MaxOrders
    /\ r.result.totalOrders <= r.ended /\ r.result.totalOrders <= MaxOrders

\* Orders that the request of c reads, by id, by key or from a list.
Reads(c, i) ==
  CASE call[c].op \in {"getOrder", "orderStatus", "cancel", "updateStatus"} -> i = call[c].id
    [] call[c].op = "place" -> orders[i].key = KeyOf(c)
    [] call[c].op = "listUserOrders" -> orders[i].user = claims[c].sub
    [] OTHER -> call[c].op \in {"listOrders", "report"}

\* A handler panics for two reasons only: it publishes on a bus closed under it,
\* or it reads an order whose true total does not fit the amounts, so that a
\* negative number was stored.  No product, no currency and no order of another
\* customer ever makes it panic.
PanicsExplained ==
  \A c \in Calls : pc[c] = "panicked" =>
    \/ server = "bus" /\ call[c].op \in {"place", "cancel"}
    \/ \E i \in DOMAIN orders : orders[i].exact > MaxInt /\ Reads(c, i)
=============================================================================
