--------------------------- MODULE OrderPipeline ---------------------------
(* The order pipeline: concurrent PlaceOrder, CancelOrder and               *)
(* UpdateOrderStatus handlers over one PostgreSQL database, one payment     *)
(* gateway and one worker pool.                                             *)
(*                                                                          *)
(* Granularity.  A database transaction that only touches rows through      *)
(* inserts and conditional UPDATEs keeps each row it changed locked until   *)
(* it ends, and a statement that matches no row makes the code roll back,   *)
(* so it is one action, taken when its last statement runs.  A read that    *)
(* takes no lock (CancelOrder reads before its transaction, and             *)
(* UpdateOrderStatus reads inside its READ COMMITTED transaction) is an     *)
(* action of its own, and what it read may be stale when it is used.        *)
(*                                                                          *)
(* orders.idempotency_key is unique, so an order row is named by its key.   *)

EXTENDS Order, Integers, Sequences, FiniteSets, FiniteSetsExt

CONSTANTS
  Requests,     \* calls of PlaceOrder.Handle (client retries included)
  Cancels,      \* calls of CancelOrder.Handle
  Admins,       \* calls of UpdateOrderStatus.Handle
  Keys,         \* idempotency keys
  Products,
  KeyOf,        \* KeyOf[h]: the key of the order that call h is about
  Qty,          \* Qty[k][p]: units of p over all the lines of order k
  FreeKeys,     \* orders whose lines add up to a total of zero
  InitStock,    \* InitStock[p]: units available at the start
  MaxAttempts,  \* PAYMENT_MAX_ATTEMPTS
  Workers,      \* size of the worker pool
  QueueSize,    \* capacity of its task channel
  Faults,       \* which of FaultKinds may happen
  MaxCrashes    \* bound: process crashes per behaviour

FaultKinds == {"db", "ctx", "crash", "stop"}

Handlers == Requests \cup Cancels \cup Admins

ASSUME HandlersAssumption ==
  /\ Requests \cap Cancels = {}
  /\ Requests \cap Admins = {}
  /\ Cancels \cap Admins = {}

ASSUME InputsAssumption ==
  /\ KeyOf \in [Handlers -> Keys]
  /\ Qty \in [Keys -> [Products -> Nat]]
  /\ FreeKeys \subseteq Keys
  /\ InitStock \in [Products -> Nat]

ASSUME ConfigAssumption ==
  /\ MaxAttempts \in Nat
  /\ Workers \in Nat \ {0}
  /\ QueueSize \in Nat
  /\ Faults \subseteq FaultKinds
  /\ MaxCrashes \in Nat

VARIABLES
  \* PostgreSQL
  order,      \* order[k]: status column, or "none" when there is no row
  payment,    \* payment[k]: the payments row of order k, or NoPayment
  available,  \* inventories.available
  reserved,   \* inventories.reserved
  \* the payment provider
  results,    \* keys in the gateway's in-memory result map
  \* the server process
  poolOpen,   \* the worker pool accepts tasks
  pc,         \* where each call is
  mem,        \* status of the call's own copy of the order aggregate
  attempt,    \* charge attempts made so far (Payment.attempts)
  chargeErr,  \* the charge loop ended with an error
  gone,       \* the request's context is cancelled
  evs,        \* domain events recorded and not yet pulled
  reply,      \* how PlaceOrder.Handle answers
  \* history, read only by the properties
  published,  \* <<event, key>> handed to the event bus
  charges,    \* charges[k]: times money was taken for key k
  sold,       \* sold[p]: units committed
  crashes

db      == <<order, payment, available, reserved, sold>>
gateway == <<results, charges>>
local   == <<mem, attempt, chargeErr, evs, reply>>
env     == <<poolOpen, gone, crashes>>
vars    == <<order, payment, available, reserved, results, poolOpen, pc, mem,
             attempt, chargeErr, gone, evs, reply, published, charges, sold,
             crashes>>

NoPayment == [status |-> "none", attempts |-> 0]

PaymentStatus == {"none", "succeeded", "failed", "refunded"}

Events == {"OrderPlaced", "OrderReserved", "OrderPaid", "OrderFulfilled",
           "OrderFailed", "OrderCancelled", "PaymentInitiated",
           "PaymentSucceeded", "PaymentFailed"}

Replies == {"none", "existing", "created", "rejected", "unavailable",
            "out_of_stock", "payment_failed", "error"}

PCs == {"idle", "build", "submit", "queued", "running", "pay", "charging",
        "settling", "cancelling", "updating", "publish", "done", "dead"}

Ended == {"done", "dead"}

Attempts == IF MaxAttempts < 1 THEN 1 ELSE MaxAttempts

-----------------------------------------------------------------------------
(* The repositories' statements.                                            *)

\* inventoryRepo.Reserve over every line of order k: the conditional UPDATEs
\* all match, and what they write.
CanReserve(k) == \A p \in Products : available[p] >= Qty[k][p]
Reserve(k) ==
  /\ available' = [p \in Products |-> available[p] - Qty[k][p]]
  /\ reserved'  = [p \in Products |-> reserved[p] + Qty[k][p]]
  /\ UNCHANGED sold

\* Variant: Release and Commit lose their condition on the reserved column.
CanTakeUnchecked(k) == k \in Keys

\* inventoryRepo.Release and Commit match while the row has enough reserved
\* units, whichever orders reserved them.
CanTake(k) == \A p \in Products : reserved[p] >= Qty[k][p]
Release(k) ==
  /\ available' = [p \in Products |-> available[p] + Qty[k][p]]
  /\ reserved'  = [p \in Products |-> reserved[p] - Qty[k][p]]
  /\ UNCHANGED sold
Commit(k) ==
  /\ reserved' = [p \in Products |-> reserved[p] - Qty[k][p]]
  /\ sold'     = [p \in Products |-> sold[p] + Qty[k][p]]
  /\ UNCHANGED available

\* Variant: the payment's status constant is written to the order.
UpdateOrderMixedUp(k, s) ==
  order' = [order EXCEPT ![k] = IF s = "fulfilled" THEN "succeeded" ELSE s]

\* orderRepo.Update: the status column is overwritten whatever it held.
UpdateOrder(k, s) == order' = [order EXCEPT ![k] = s]

\* uow.Do returns an error and the transaction is rolled back: the
\* statement failed (connection, deadlock victim) or the context is gone.
TxMayFail(h) == gone[h] \/ "db" \in Faults

-----------------------------------------------------------------------------
(* PlaceOrder.Handle                                                        *)

Goto(h, l) == pc' = [pc EXCEPT ![h] = l]

\* Handle returns without publishing.
Answer(r, a) ==
  /\ Goto(r, "done")
  /\ reply' = [reply EXCEPT ![r] = a]

\* FindByIdempotencyKey.  An error of the query is treated as "no order".
LookupFound(r) ==
  /\ pc[r] = "idle"
  /\ order[KeyOf[r]] # "none"
  /\ Answer(r, "existing")
  /\ UNCHANGED <<db, gateway, env, mem, attempt, chargeErr, evs, published>>

LookupMissed(r) ==
  /\ pc[r] = "idle"
  /\ order[KeyOf[r]] = "none" \/ "db" \in Faults
  /\ Goto(r, "build")
  /\ UNCHANGED <<db, gateway, env, local, published>>

\* The products are read, checked and snapshotted, and NewOrder validates.
BuildRejected(r) ==
  /\ pc[r] = "build"
  /\ Answer(r, "rejected")
  /\ UNCHANGED <<db, gateway, env, mem, attempt, chargeErr, evs, published>>

Build(r) ==
  /\ pc[r] = "build"
  /\ ~gone[r]
  /\ mem' = [mem EXCEPT ![r] = "pending"]
  /\ evs' = [evs EXCEPT ![r] = {"OrderPlaced"}]
  /\ Goto(r, "submit")
  /\ UNCHANGED <<db, gateway, env, attempt, chargeErr, reply, published>>

\* Tasks a worker is executing, and all the tasks the pool has taken.
Processing == {r \in Requests : pc[r] \in {"running", "pay", "charging", "settling"}}
Accepted   == Processing \cup {r \in Requests : pc[r] = "queued"}

\* pool.Submit blocks while every worker is busy and the channel is full.
Submit(r) ==
  /\ pc[r] = "submit"
  /\ poolOpen
  /\ Cardinality(Accepted) < Workers + QueueSize
  /\ Goto(r, "queued")
  /\ UNCHANGED <<db, gateway, env, local, published>>

SubmitRefused(r) ==
  /\ pc[r] = "submit"
  /\ ~poolOpen
  /\ Answer(r, "unavailable")
  /\ UNCHANGED <<db, gateway, env, mem, attempt, chargeErr, evs, published>>

\* A worker receives the task and calls process.
StartTask(r) ==
  /\ pc[r] = "queued"
  /\ Cardinality(Processing) < Workers
  /\ Goto(r, "running")
  /\ UNCHANGED <<db, gateway, env, local, published>>

-----------------------------------------------------------------------------
(* PlaceOrder.process                                                       *)

\* process returns to Handle, which publishes whatever was recorded.
Finish(r, a) ==
  /\ Goto(r, "publish")
  /\ reply' = [reply EXCEPT ![r] = a]

Record(r, new) == evs' = [evs EXCEPT ![r] = @ \cup new]

\* Variant: the insert is an upsert, so the unique index never refuses it.
ReserveUpsert(r) ==
  LET k == KeyOf[r] IN
  /\ pc[r] = "running"
  /\ ~gone[r]
  /\ CanReserve(k)
  /\ CanMarkReserved(mem[r])
  /\ Reserve(k)
  /\ UpdateOrder(k, "reserved")
  /\ mem' = [mem EXCEPT ![r] = "reserved"]
  /\ Record(r, {"OrderReserved"})
  /\ Goto(r, "pay")
  /\ UNCHANGED <<payment, gateway, env, attempt, chargeErr, reply, published>>

\* Transaction one: create the order, reserve every line, mark reserved.
ReserveTx(r) ==
  LET k == KeyOf[r] IN
  /\ pc[r] = "running"
  /\ ~gone[r]
  /\ order[k] = "none"
  /\ CanReserve(k)
  /\ CanMarkReserved(mem[r])
  /\ Reserve(k)
  /\ UpdateOrder(k, "reserved")
  /\ mem' = [mem EXCEPT ![r] = "reserved"]
  /\ Record(r, {"OrderReserved"})
  /\ Goto(r, "pay")
  /\ UNCHANGED <<payment, gateway, env, attempt, chargeErr, reply, published>>

\* The insert meets the unique index on idempotency_key.
ReserveDuplicate(r) ==
  /\ pc[r] = "running"
  /\ order[KeyOf[r]] # "none"
  /\ Finish(r, "error")
  /\ UNCHANGED <<db, gateway, env, mem, attempt, chargeErr, evs, published>>

\* Variant: the lines reserved before the missing one are not rolled back.
ReserveOutOfStockPartial(r) ==
  LET k == KeyOf[r]
      taken(p) == IF available[p] >= Qty[k][p] THEN Qty[k][p] ELSE 0
  IN
  /\ pc[r] = "running"
  /\ ~gone[r]
  /\ order[k] = "none"
  /\ ~CanReserve(k)
  /\ available' = [p \in Products |-> available[p] - taken(p)]
  /\ reserved'  = [p \in Products |-> reserved[p] + taken(p)]
  /\ Finish(r, "out_of_stock")
  /\ UNCHANGED <<order, payment, sold, gateway, env, mem, attempt, chargeErr, evs, published>>

\* An UPDATE matches no row: the transaction, the insert included, rolls back.
ReserveOutOfStock(r) ==
  LET k == KeyOf[r] IN
  /\ pc[r] = "running"
  /\ ~gone[r]
  /\ order[k] = "none"
  /\ ~CanReserve(k)
  /\ Finish(r, "out_of_stock")
  /\ UNCHANGED <<db, gateway, env, mem, attempt, chargeErr, evs, published>>

\* The failing statement comes before or after MarkReserved.
ReserveError(r) ==
  /\ pc[r] = "running"
  /\ TxMayFail(r)
  /\ Finish(r, "error")
  /\ \E new \in {{}, {"OrderReserved"}} : Record(r, new)
  /\ UNCHANGED <<db, gateway, env, mem, attempt, chargeErr, published>>

\* NewPayment refuses a zero amount, and process returns with the order
\* reserved.
StartPayment(r) ==
  /\ pc[r] = "pay"
  /\ KeyOf[r] \notin FreeKeys
  /\ attempt' = [attempt EXCEPT ![r] = 1]
  /\ Record(r, {"PaymentInitiated"})
  /\ Goto(r, "charging")
  /\ UNCHANGED <<db, gateway, env, mem, chargeErr, reply, published>>

StartPaymentRefused(r) ==
  /\ pc[r] = "pay"
  /\ KeyOf[r] \in FreeKeys
  /\ Finish(r, "error")
  /\ UNCHANGED <<db, gateway, env, mem, attempt, chargeErr, evs, published>>

\* gateway.Charge: a key in the result map is answered from it, otherwise
\* money is taken and the result stored, or the charge is declined.
ChargeSucceeds(r) ==
  LET k == KeyOf[r] IN
  /\ pc[r] = "charging"
  /\ results' = results \cup {k}
  /\ charges' = [charges EXCEPT ![k] = IF k \in results THEN @ ELSE @ + 1]
  /\ chargeErr' = [chargeErr EXCEPT ![r] = FALSE]
  /\ Goto(r, "settling")
  /\ UNCHANGED <<db, env, mem, attempt, evs, reply, published>>

\* Variant: the attempt counter starts over instead of ending the loop.
ChargeRetriedForever(r) ==
  /\ pc[r] = "charging"
  /\ KeyOf[r] \notin results
  /\ attempt' = [attempt EXCEPT ![r] = (@ % Attempts) + 1]
  /\ UNCHANGED <<db, gateway, env, pc, mem, chargeErr, evs, reply, published>>

\* A decline, or ctx.Done, with attempts left: back off and charge again.
ChargeRetried(r) ==
  /\ pc[r] = "charging"
  /\ KeyOf[r] \notin results
  /\ attempt[r] < Attempts
  /\ attempt' = [attempt EXCEPT ![r] = @ + 1]
  /\ UNCHANGED <<db, gateway, env, pc, mem, chargeErr, evs, reply, published>>

\* Variant: the first decline is final.
ChargeExhaustedEarly(r) ==
  /\ pc[r] = "charging"
  /\ KeyOf[r] \notin results
  /\ chargeErr' = [chargeErr EXCEPT ![r] = TRUE]
  /\ Goto(r, "settling")
  /\ UNCHANGED <<db, gateway, env, mem, attempt, evs, reply, published>>

\* The last attempt failed: the error goes to transaction two.
ChargeExhausted(r) ==
  /\ pc[r] = "charging"
  /\ KeyOf[r] \notin results
  /\ attempt[r] = Attempts
  /\ chargeErr' = [chargeErr EXCEPT ![r] = TRUE]
  /\ Goto(r, "settling")
  /\ UNCHANGED <<db, gateway, env, mem, attempt, evs, reply, published>>

\* payments.order_id is unique.
InsertPayment(r, s) ==
  /\ payment[KeyOf[r]] = NoPayment
  /\ payment' = [payment EXCEPT ![KeyOf[r]] = [status |-> s, attempts |-> attempt[r]]]

\* Transaction two after a charge: record the payment, commit the stock and
\* write "fulfilled", all from the aggregate kept in memory since
\* transaction one.
SettlePaid(r) ==
  LET k == KeyOf[r] IN
  /\ pc[r] = "settling"
  /\ ~chargeErr[r]
  /\ ~gone[r]
  /\ InsertPayment(r, "succeeded")
  /\ CanMarkPaid(mem[r])
  /\ CanTake(k)
  /\ Commit(k)
  /\ UpdateOrder(k, "fulfilled")
  /\ mem' = [mem EXCEPT ![r] = "fulfilled"]
  /\ Record(r, {"PaymentSucceeded", "OrderPaid", "OrderFulfilled"})
  /\ Finish(r, "created")
  /\ UNCHANGED <<gateway, env, attempt, chargeErr, published>>

\* Variant: the payment and the order are written, the stock is not released.
SettleDeclinedKeepsStock(r) ==
  LET k == KeyOf[r] IN
  /\ pc[r] = "settling"
  /\ chargeErr[r]
  /\ ~gone[r]
  /\ InsertPayment(r, "failed")
  /\ UpdateOrder(k, "failed")
  /\ mem' = [mem EXCEPT ![r] = "failed"]
  /\ Record(r, {"PaymentFailed", "OrderFailed"})
  /\ Finish(r, "payment_failed")
  /\ UNCHANGED <<available, reserved, sold, gateway, env, attempt, chargeErr, published>>

\* Variant: process returns the charge error without settling.
SettleDeclinedSkipped(r) ==
  /\ pc[r] = "settling"
  /\ chargeErr[r]
  /\ ~gone[r]
  /\ Finish(r, "payment_failed")
  /\ UNCHANGED <<db, gateway, env, mem, attempt, chargeErr, evs, published>>

\* Transaction two after the last decline: release the stock, fail the order.
SettleDeclined(r) ==
  LET k == KeyOf[r] IN
  /\ pc[r] = "settling"
  /\ chargeErr[r]
  /\ ~gone[r]
  /\ InsertPayment(r, "failed")
  /\ CanTake(k)
  /\ CanFail(mem[r])
  /\ Release(k)
  /\ UpdateOrder(k, "failed")
  /\ mem' = [mem EXCEPT ![r] = "failed"]
  /\ Record(r, {"PaymentFailed", "OrderFailed"})
  /\ Finish(r, "payment_failed")
  /\ UNCHANGED <<gateway, env, attempt, chargeErr, published>>

\* Events transaction two records, in order.
SettleEvents(r) == IF chargeErr[r]
                   THEN <<"PaymentFailed", "OrderFailed">>
                   ELSE <<"PaymentSucceeded", "OrderPaid", "OrderFulfilled">>

\* A payment row is in the way, or fewer units are reserved than the order
\* needs: the transaction rolls back after the events that precede the failing
\* statement were recorded.
SettleConflict(r) ==
  LET k == KeyOf[r]
      stopsAtInsert == chargeErr[r] \/ payment[k] # NoPayment
  IN
  /\ pc[r] = "settling"
  /\ ~gone[r]
  /\ payment[k] # NoPayment \/ ~CanTake(k)
  /\ Finish(r, "error")
  /\ Record(r, {SettleEvents(r)[i] : i \in 1 .. (IF stopsAtInsert THEN 1 ELSE 2)})
  /\ UNCHANGED <<db, gateway, env, mem, attempt, chargeErr, published>>

\* Variant: the stock is committed outside the transaction that fails.
SettleErrorNotAtomic(r) ==
  /\ pc[r] = "settling"
  /\ TxMayFail(r)
  /\ ~chargeErr[r]
  /\ CanTake(KeyOf[r])
  /\ Commit(KeyOf[r])
  /\ Finish(r, "error")
  /\ UNCHANGED <<order, payment, gateway, env, mem, attempt, chargeErr, evs, published>>

\* Variant: a settlement error fails the order, charged or not.
SettleErrorFailsOrder(r) ==
  /\ pc[r] = "settling"
  /\ TxMayFail(r)
  /\ UpdateOrder(KeyOf[r], "failed")
  /\ Finish(r, "error")
  /\ UNCHANGED <<payment, available, reserved, sold, gateway, env, mem, attempt,
                 chargeErr, evs, published>>

\* Any statement fails, or the commit: a prefix of the events is recorded.
SettleError(r) ==
  /\ pc[r] = "settling"
  /\ TxMayFail(r)
  /\ Finish(r, "error")
  /\ \E n \in 0 .. Len(SettleEvents(r)) :
        Record(r, {SettleEvents(r)[i] : i \in 1 .. n})
  /\ UNCHANGED <<db, gateway, env, mem, attempt, chargeErr, published>>

\* Variant: the bus drops the events of a cancelled context.
PublishUnlessGone(h) ==
  /\ pc[h] = "publish"
  /\ published' = IF gone[h] THEN published
                  ELSE published \cup {<<e, KeyOf[h]>> : e \in evs[h]}
  /\ evs' = [evs EXCEPT ![h] = {}]
  /\ Goto(h, "done")
  /\ UNCHANGED <<db, gateway, env, mem, attempt, chargeErr, reply>>

\* PullEvents and bus.Publish, then Handle returns.
Publish(h) ==
  /\ pc[h] = "publish"
  /\ published' = published \cup {<<e, KeyOf[h]>> : e \in evs[h]}
  /\ evs' = [evs EXCEPT ![h] = {}]
  /\ Goto(h, "done")
  /\ UNCHANGED <<db, gateway, env, mem, attempt, chargeErr, reply>>

-----------------------------------------------------------------------------
(* CancelOrder.Handle                                                       *)

\* The order is read outside any transaction.  The code looks only at this
\* copy from here on.
CancelRead(c) ==
  LET k == KeyOf[c] IN
  /\ pc[c] = "idle"
  /\ \/ /\ order[k] # "none"
        /\ mem' = [mem EXCEPT ![c] = order[k]]
        /\ Goto(c, "cancelling")
     \/ /\ order[k] = "none" \/ "db" \in Faults
        /\ Goto(c, "done")
        /\ UNCHANGED mem
  /\ UNCHANGED <<db, gateway, env, attempt, chargeErr, evs, reply, published>>

\* Whether the cancelling transaction commits: each Release matches, a paid
\* order has a succeeded payment, and the copy's Cancel accepts.
CancelCommits(c) ==
  LET k == KeyOf[c] IN
  /\ mem[c] \in {"reserved", "paid"} => CanTake(k)
  /\ mem[c] = "paid" => payment[k].status = "succeeded"
  /\ CanCancel(mem[c])

CancelTx(c) ==
  LET k == KeyOf[c] IN
  /\ pc[c] = "cancelling"
  /\ CancelCommits(c)
  /\ IF mem[c] \in {"reserved", "paid"}
     THEN Release(k)
     ELSE UNCHANGED <<available, reserved, sold>>
  /\ payment' = IF mem[c] = "paid"
                THEN [payment EXCEPT ![k].status = "refunded"]
                ELSE payment
  /\ UpdateOrder(k, "cancelled")
  /\ mem' = [mem EXCEPT ![c] = "cancelled"]
  /\ Record(c, {"OrderCancelled"})
  /\ Goto(c, "publish")
  /\ UNCHANGED <<gateway, env, attempt, chargeErr, reply, published>>

\* The transaction rolls back and Handle returns without publishing.
CancelRefused(c) ==
  /\ pc[c] = "cancelling"
  /\ ~CancelCommits(c) \/ TxMayFail(c)
  /\ Goto(c, "done")
  /\ UNCHANGED <<db, gateway, env, local, published>>

-----------------------------------------------------------------------------
(* UpdateOrderStatus.Handle                                                 *)

\* FindByID takes no row lock; transition() runs on the copy.  An illegal
\* target, or a missing order, ends the call.
AdminRead(a) ==
  LET k == KeyOf[a] IN
  /\ pc[a] = "idle"
  /\ \/ /\ order[k] # "none"
        /\ \E target \in Status :
              /\ CanTransition(order[k], target)
              /\ mem' = [mem EXCEPT ![a] = target]
        /\ Goto(a, "updating")
     \/ /\ Goto(a, "done")
        /\ UNCHANGED mem
  /\ UNCHANGED <<db, gateway, env, attempt, chargeErr, evs, reply, published>>

\* orderRepo.Update and commit.  Neither stock nor payment is touched and no
\* event is published.
AdminWrite(a) ==
  /\ pc[a] = "updating"
  /\ UpdateOrder(KeyOf[a], mem[a])
  /\ Goto(a, "done")
  /\ UNCHANGED <<payment, available, reserved, sold, gateway, env, local, published>>

AdminError(a) ==
  /\ pc[a] = "updating"
  /\ TxMayFail(a)
  /\ Goto(a, "done")
  /\ UNCHANGED <<db, gateway, env, local, published>>

-----------------------------------------------------------------------------
(* Faults of the environment.                                               *)

\* The client of a PlaceOrder request goes away: its context is cancelled.
Disconnect(r) ==
  /\ "ctx" \in Faults
  /\ pc[r] \notin {"idle"} \cup Ended
  /\ ~gone[r]
  /\ gone' = [gone EXCEPT ![r] = TRUE]
  /\ UNCHANGED <<db, gateway, local, pc, poolOpen, crashes, published>>

\* App.Stop stops the pool; tasks already accepted still run.
StopPool ==
  /\ "stop" \in Faults
  /\ poolOpen
  /\ poolOpen' = FALSE
  /\ UNCHANGED <<db, gateway, local, pc, gone, crashes, published>>

\* The process dies and is started again.  The calls it was serving are never
\* answered, and the mock gateway's map is lost with the process.
Crash ==
  /\ "crash" \in Faults
  /\ crashes < MaxCrashes
  /\ crashes' = crashes + 1
  /\ pc' = [h \in Handlers |-> IF pc[h] \in {"idle", "done"} THEN pc[h] ELSE "dead"]
  /\ results' = {}
  /\ poolOpen' = TRUE
  /\ UNCHANGED <<db, charges, local, gone, published>>

-----------------------------------------------------------------------------

Init ==
  /\ order = [k \in Keys |-> "none"]
  /\ payment = [k \in Keys |-> NoPayment]
  /\ available = InitStock
  /\ reserved = [p \in Products |-> 0]
  /\ results = {}
  /\ poolOpen = TRUE
  /\ pc = [h \in Handlers |-> "idle"]
  /\ mem = [h \in Handlers |-> "pending"]
  /\ attempt = [h \in Handlers |-> 0]
  /\ chargeErr = [h \in Handlers |-> FALSE]
  /\ gone = [h \in Handlers |-> FALSE]
  /\ evs = [h \in Handlers |-> {}]
  /\ reply = [h \in Handlers |-> "none"]
  /\ published = {}
  /\ charges = [k \in Keys |-> 0]
  /\ sold = [p \in Products |-> 0]
  /\ crashes = 0

\* Steps the code of a PlaceOrder call takes.
PlaceStep(r) ==
  \/ LookupFound(r) \/ LookupMissed(r)
  \/ BuildRejected(r) \/ Build(r)
  \/ Submit(r) \/ SubmitRefused(r) \/ StartTask(r)
  \/ ReserveTx(r) \/ ReserveDuplicate(r) \/ ReserveOutOfStock(r) \/ ReserveError(r)
  \/ StartPayment(r) \/ StartPaymentRefused(r)
  \/ ChargeSucceeds(r) \/ ChargeRetried(r) \/ ChargeExhausted(r)
  \/ SettlePaid(r) \/ SettleDeclined(r) \/ SettleConflict(r) \/ SettleError(r)
  \/ Publish(r)

CancelStep(c) == CancelRead(c) \/ CancelTx(c) \/ CancelRefused(c) \/ Publish(c)

AdminStep(a) == AdminRead(a) \/ AdminWrite(a) \/ AdminError(a)

\* Every call has been answered or lost: the bounded set of calls is used up.
Quiescent ==
  /\ \A h \in Handlers : pc[h] \in Ended
  /\ UNCHANGED vars

Next ==
  \/ \E r \in Requests : PlaceStep(r) \/ Disconnect(r)
  \/ \E c \in Cancels : CancelStep(c)
  \/ \E a \in Admins : AdminStep(a)
  \/ StopPool
  \/ Crash
  \/ Quiescent

Spec == Init /\ [][Next]_vars

\* A goroutine that can run eventually runs, a statement or a charge returns,
\* and an idle worker takes a queued task.  No fault is ever forced.
FairSpec ==
  /\ Spec
  /\ \A r \in Requests : WF_vars(pc[r] # "idle" /\ PlaceStep(r))
  /\ \A c \in Cancels : WF_vars(pc[c] # "idle" /\ CancelStep(c))
  /\ \A a \in Admins : WF_vars(pc[a] # "idle" /\ AdminStep(a))

-----------------------------------------------------------------------------
(* Properties of every instance.                                            *)

\* The values each column, map entry and local variable can hold.
TypeOK ==
  /\ order \in [Keys -> Status \cup {"none"}]
  /\ payment \in [Keys -> [status : PaymentStatus, attempts : Nat]]
  /\ available \in [Products -> Int]
  /\ reserved \in [Products -> Int]
  /\ results \in SUBSET Keys
  /\ poolOpen \in BOOLEAN
  /\ pc \in [Handlers -> PCs]
  /\ mem \in [Handlers -> Status]
  /\ attempt \in [Handlers -> Nat]
  /\ chargeErr \in [Handlers -> BOOLEAN]
  /\ gone \in [Handlers -> BOOLEAN]
  /\ evs \in [Handlers -> SUBSET Events]
  /\ reply \in [Handlers -> Replies]
  /\ published \in SUBSET (Events \X Keys)
  /\ charges \in [Keys -> Nat]
  /\ sold \in [Products -> Int]
  /\ crashes \in Nat

\* inventoryRepo.Reserve, Release and Commit, interleaved in any order by any
\* handlers, with rollbacks and crashes between them, never drive a column
\* below zero and never create or lose a unit: overselling is impossible.
StockConserved ==
  \A p \in Products :
    /\ available[p] >= 0 /\ reserved[p] >= 0 /\ sold[p] >= 0
    /\ available[p] + reserved[p] + sold[p] = InitStock[p]

\* Units of product p over a set of orders.
Units(S, p) == MapThenSumSet(LAMBDA k : Qty[k][p], S)

\* The units PlaceOrder committed are those of the orders with a payment row
\* that was once succeeded: no rollback, cancellation, status update or crash
\* separates the stock that left from the payment recorded for it.
SoldIsPaidFor ==
  \A p \in Products :
    sold[p] = Units({k \in Keys : payment[k].status \in {"succeeded", "refunded"}}, p)

\* However often a client re-sends a request, concurrently or after a crash
\* that wiped the gateway's result map, money is taken at most once for a key.
ChargedAtMostOnce == \A k \in Keys : charges[k] <= 1

\* A payments row tells the truth about the provider: a succeeded or refunded
\* one means the money was taken, a failed one that it was not and that every
\* attempt PlaceOrder is allowed was used.
PaymentMatchesCharge ==
  \A k \in Keys :
    /\ payment[k].status \in {"succeeded", "refunded"} => charges[k] = 1
    /\ payment[k].status = "failed" =>
          charges[k] = 0 /\ payment[k].attempts = Attempts

\* Of the PlaceOrder calls racing with one idempotency key at most one answers
\* that it created the order, and then that order's payment is on record and its
\* OrderPaid and OrderFulfilled events reached the bus before the answer.
CreatedOnce ==
  \A r \in Requests : pc[r] = "done" /\ reply[r] = "created" =>
    /\ \A q \in Requests \ {r} : KeyOf[q] = KeyOf[r] => reply[q] # "created"
    /\ payment[KeyOf[r]].status \in {"succeeded", "refunded"}
    /\ {"OrderPaid", "OrderFulfilled"} \X {KeyOf[r]} \subseteq published

\* An UpdateOrderStatus call has read order k.
Edited(k) == \E a \in Admins : KeyOf[a] = k /\ pc[a] # "idle"

\* Only PlaceOrder's second transaction writes "fulfilled", and it does so
\* together with the payment: until an administrator edits it, a fulfilled order
\* is a paid one and a failed order was never charged, however cancellations
\* race with the settlement.
OutcomeIsPaidFor ==
  \A k \in Keys : ~Edited(k) =>
    /\ order[k] = "fulfilled" => payment[k].status = "succeeded"
    /\ order[k] = "failed" => payment[k].status = "failed" /\ charges[k] = 0

-----------------------------------------------------------------------------
(* Properties of instances where PlaceOrder runs alone.                     *)

\* The reserved column is exactly the units of the orders in status reserved:
\* both transactions move the status and the stock together, so no rollback,
\* disconnect or crash leaks or duplicates a reservation.
ReservationsExact ==
  \A p \in Products : reserved[p] = Units({k \in Keys : order[k] = "reserved"}, p)

\* An order that is fulfilled, cancelled or failed keeps that status.
TerminalIsFinal ==
  [][\A k \in Keys : IsTerminal(order[k]) => order'[k] = order[k]]_vars

\* What an order promises its customer and the shop: see OrderLifecycle.
Lifecycle == INSTANCE OrderLifecycle WITH status <- order

\* PlaceOrder implements the order lifecycle.
ImplementsLifecycle == Lifecycle!Spec

\* docs/adr/0003: "stock is already protected the moment transaction one
\* commits".  The reserved column covers every reserved order.
ReservationsProtected ==
  \A p \in Products : reserved[p] >= Units({k \in Keys : order[k] = "reserved"}, p)

-----------------------------------------------------------------------------
(* Liveness, under FairSpec.                                                *)

\* Every call that arrived is answered: a request blocked in pool.Submit, queued
\* behind busy workers or in its charge loop always gets out.
EveryCallAnswered == \A h \in Handlers : pc[h] # "idle" ~> pc[h] \in Ended

\* A reserved order is settled, one way or the other, unless a cancellation and a
\* settlement of another order have both taken that order's units, the second out
\* of its own (its settlement then finds too few and conflicts), or its total is
\* zero, which NewPayment refuses after the stock was reserved.
SettlesUnlessRobbed ==
  \A k \in Keys \ FreeKeys : order[k] = "reserved" ~> order[k] # "reserved" \/ ~ReservationsProtected

-----------------------------------------------------------------------------
(* What the documentation says of the program and the code does not keep.   *)

\* docs/adr/0003: the in-between state is handled "through the order state
\* machine".  A reserved order is settled, one way or the other.
OrdersSettle ==
  \A k \in Keys \ FreeKeys : order[k] = "reserved" ~> order[k] # "reserved"

\* No call is working on order k.
Untouched(k) == \A h \in Handlers : KeyOf[h] = k => pc[h] \in {"idle"} \cup Ended

\* README.md: cancelling "refunds the payment".  Once no call is working on it, a
\* cancelled order's customer has not lost the money.
CancelRefunds ==
  \A k \in Keys :
    order[k] = "cancelled" /\ Untouched(k) =>
      charges[k] = 0 \/ payment[k].status = "refunded"
=============================================================================
