------------------------ MODULE OrderPipelineProofs ------------------------
(* Theorems about OrderPipeline, for every set of calls, keys and products, *)
(* every quantity, stock, pool size and retry bound, and every fault.       *)
EXTENDS OrderPipeline, TLAPS

\* What the actions on a call take for granted about its key and quantities.
LEMMA InputTypes ==
  ASSUME NEW h \in Handlers
  PROVE  /\ KeyOf[h] \in Keys
         /\ \A p \in Products : Qty[KeyOf[h]][p] \in Nat
BY InputsAssumption

\* The events transaction two records are events of the model.
LEMMA SettleEventsType ==
  ASSUME NEW r
  PROVE  /\ SettleEvents(r) \in Seq(Events)
         /\ Len(SettleEvents(r)) >= 2
<1>1. \A e1, e2, e3 \in Events :
        <<e1, e2>> \in Seq(Events) /\ <<e1, e2, e3>> \in Seq(Events)
  OBVIOUS
<1>2. {"PaymentFailed", "OrderFailed", "PaymentSucceeded", "OrderPaid",
       "OrderFulfilled"} \subseteq Events
  BY DEF Events
<1>3. SettleEvents(r) \in Seq(Events)
  BY <1>1, <1>2 DEF SettleEvents
<1>4. Len(SettleEvents(r)) >= 2
  BY DEF SettleEvents
<1> QED
  BY <1>3, <1>4

-----------------------------------------------------------------------------
(* Type correctness.                                                        *)

\* Every action of a PlaceOrder call keeps every variable in its type.
LEMMA PlaceStepTypeOK ==
  ASSUME TypeOK, NEW r \in Requests, PlaceStep(r)
  PROVE  TypeOK'
<1> r \in Handlers
  BY DEF Handlers
<1> KeyOf[r] \in Keys /\ \A p \in Products : Qty[KeyOf[r]][p] \in Nat
  BY InputTypes
<1> USE DEF TypeOK, db, gateway, env, local
<1>1. CASE LookupFound(r)
  BY <1>1 DEF LookupFound, Answer, Goto, PCs, Replies
<1>2. CASE LookupMissed(r)
  BY <1>2 DEF LookupMissed, Goto, PCs
<1>3. CASE BuildRejected(r)
  BY <1>3 DEF BuildRejected, Answer, Goto, PCs, Replies
<1>4. CASE Build(r)
  BY <1>4 DEF Build, Goto, PCs, Events, Status
<1>5. CASE Submit(r)
  BY <1>5 DEF Submit, Goto, PCs
<1>6. CASE SubmitRefused(r)
  BY <1>6 DEF SubmitRefused, Answer, Goto, PCs, Replies
<1>7. CASE StartTask(r)
  BY <1>7 DEF StartTask, Goto, PCs
<1>8. CASE ReserveTx(r)
  BY <1>8 DEF ReserveTx, Reserve, UpdateOrder, Record, Goto, PCs, Events, Status
<1>9. CASE ReserveDuplicate(r)
  BY <1>9 DEF ReserveDuplicate, Finish, Goto, PCs, Replies
<1>10. CASE ReserveOutOfStock(r)
  BY <1>10 DEF ReserveOutOfStock, Finish, Goto, PCs, Replies
<1>11. CASE ReserveError(r)
  BY <1>11 DEF ReserveError, Finish, Record, Goto, PCs, Replies, Events
<1>12. CASE StartPayment(r)
  BY <1>12 DEF StartPayment, Record, Goto, PCs, Events
<1>13. CASE StartPaymentRefused(r)
  BY <1>13 DEF StartPaymentRefused, Finish, Goto, PCs, Replies
<1>14. CASE ChargeSucceeds(r)
  BY <1>14 DEF ChargeSucceeds, Goto, PCs
<1>15. CASE ChargeRetried(r)
  BY <1>15 DEF ChargeRetried
<1>16. CASE ChargeExhausted(r)
  BY <1>16 DEF ChargeExhausted, Goto, PCs
<1>17. CASE SettlePaid(r)
  BY <1>17 DEF SettlePaid, InsertPayment, Commit, UpdateOrder, Record, Finish,
               Goto, PCs, Events, Status, Replies, PaymentStatus
<1>18. CASE SettleDeclined(r)
  BY <1>18 DEF SettleDeclined, InsertPayment, Release, UpdateOrder, Record, Finish,
               Goto, PCs, Events, Status, Replies, PaymentStatus
<1>19. CASE SettleConflict(r)
  <2>1. \A b \in BOOLEAN : (IF b THEN 1 ELSE 2) \in 1 .. 2
    OBVIOUS
  <2>2. PICK n \in 1 .. 2 : Record(r, {SettleEvents(r)[i] : i \in 1 .. n})
    BY <1>19, <2>1, Zenon DEF SettleConflict
  <2>3. {SettleEvents(r)[i] : i \in 1 .. n} \subseteq Events
    BY SettleEventsType
  <2>4. evs' \in [Handlers -> SUBSET Events]
    BY <2>2, <2>3 DEF Record
  <2> QED
    BY <1>19, <2>4 DEF SettleConflict, Finish, Goto, PCs, Replies
<1>20. CASE SettleError(r)
  <2>1. PICK n \in 0 .. Len(SettleEvents(r)) :
          Record(r, {SettleEvents(r)[i] : i \in 1 .. n})
    BY <1>20 DEF SettleError
  <2>2. {SettleEvents(r)[i] : i \in 1 .. n} \subseteq Events
    BY SettleEventsType
  <2>3. evs' \in [Handlers -> SUBSET Events]
    BY <2>1, <2>2 DEF Record
  <2> QED
    BY <1>20, <2>3 DEF SettleError, Finish, Goto, PCs, Replies
<1>21. CASE Publish(r)
  BY <1>21 DEF Publish, Goto, PCs
<1> QED
  BY <1>1, <1>2, <1>3, <1>4, <1>5, <1>6, <1>7, <1>8, <1>9, <1>10, <1>11, <1>12,
     <1>13, <1>14, <1>15, <1>16, <1>17, <1>18, <1>19, <1>20, <1>21 DEF PlaceStep

\* Every other action does too.
LEMMA OtherStepTypeOK ==
  ASSUME TypeOK
  PROVE  /\ \A r \in Requests : Disconnect(r) => TypeOK'
         /\ \A c \in Cancels : CancelStep(c) => TypeOK'
         /\ \A a \in Admins : AdminStep(a) => TypeOK'
         /\ StopPool \/ Crash \/ UNCHANGED vars => TypeOK'
<1> USE DEF TypeOK, db, gateway, env, local
<1>1. ASSUME NEW r \in Requests, Disconnect(r) PROVE TypeOK'
  BY <1>1 DEF Disconnect, Handlers
<1>2. ASSUME NEW c \in Cancels, CancelStep(c) PROVE TypeOK'
  <2> c \in Handlers
    BY DEF Handlers
  <2> KeyOf[c] \in Keys /\ \A p \in Products : Qty[KeyOf[c]][p] \in Nat
    BY InputTypes
  <2>1. CASE CancelRead(c)
    BY <2>1 DEF CancelRead, Goto, PCs
  <2>2. CASE CancelTx(c)
    <3>1. payment' \in [Keys -> [status : PaymentStatus, attempts : Nat]]
      BY <2>2 DEF CancelTx, PaymentStatus
    <3>2. /\ available' \in [Products -> Int]
          /\ reserved' \in [Products -> Int]
          /\ sold' \in [Products -> Int]
      <4>1. CASE UNCHANGED <<available, reserved, sold>>
        BY <4>1
      <4>2. CASE Release(KeyOf[c])
        BY <4>2 DEF Release
      <4> QED
        BY <2>2, <4>1, <4>2 DEF CancelTx
    <3> QED
      BY <2>2, <3>1, <3>2 DEF CancelTx, UpdateOrder, Record, Goto, PCs, Events, Status
  <2>3. CASE CancelRefused(c)
    BY <2>3 DEF CancelRefused, Goto, PCs
  <2>4. CASE Publish(c)
    BY <2>4 DEF Publish, Goto, PCs
  <2> QED
    BY <1>2, <2>1, <2>2, <2>3, <2>4 DEF CancelStep
<1>3. ASSUME NEW a \in Admins, AdminStep(a) PROVE TypeOK'
  <2> a \in Handlers
    BY DEF Handlers
  <2> KeyOf[a] \in Keys
    BY InputTypes
  <2>1. CASE AdminRead(a)
    BY <2>1 DEF AdminRead, Goto, PCs
  <2>2. CASE AdminWrite(a)
    BY <2>2 DEF AdminWrite, UpdateOrder, Goto, PCs
  <2>3. CASE AdminError(a)
    BY <2>3 DEF AdminError, Goto, PCs
  <2> QED
    BY <1>3, <2>1, <2>2, <2>3 DEF AdminStep
<1>4. CASE StopPool
  BY <1>4 DEF StopPool
<1>5. CASE Crash
  BY <1>5 DEF Crash, PCs
<1>6. CASE UNCHANGED vars
  BY <1>6 DEF vars
<1> QED
  BY <1>1, <1>2, <1>3, <1>4, <1>5, <1>6

\* Every reachable state is well typed: in particular a call's copy of the order
\* always holds a real status, also when CancelOrder or UpdateOrderStatus
\* loaded it.
THEOREM TypeCorrect == Spec => []TypeOK
<1>1. Init => TypeOK
  BY InputsAssumption
     DEF Init, TypeOK, Status, NoPayment, PaymentStatus, PCs, Replies
<1>2. TypeOK /\ [Next]_vars => TypeOK'
  BY PlaceStepTypeOK, OtherStepTypeOK DEF Next, Quiescent
<1> QED
  BY <1>1, <1>2, PTL DEF Spec

-----------------------------------------------------------------------------
(* Stock.                                                                   *)

\* The three ways the code moves stock.
StockStep ==
  \E k \in Keys :
    \/ CanReserve(k) /\ Reserve(k)
    \/ CanTake(k) /\ (Release(k) \/ Commit(k))

\* Each of them is one conditional UPDATE per product, and preserves the ledger.
LEMMA StockStepConserves ==
  ASSUME TypeOK, StockConserved, StockStep
  PROVE  StockConserved'
<1>1. PICK k \in Keys : \/ CanReserve(k) /\ Reserve(k)
                        \/ CanTake(k) /\ (Release(k) \/ Commit(k))
  BY DEF StockStep
<1>2. \A p \in Products : Qty[k][p] \in Nat
  BY InputsAssumption
<1> USE <1>2 DEF TypeOK, StockConserved
<1>3. CASE CanReserve(k) /\ Reserve(k)
  BY <1>3 DEF CanReserve, Reserve
<1>4. CASE CanTake(k) /\ Release(k)
  BY <1>4 DEF CanTake, Release
<1>5. CASE CanTake(k) /\ Commit(k)
  BY <1>5 DEF CanTake, Commit
<1> QED
  BY <1>1, <1>3, <1>4, <1>5

\* Every step of the system moves stock in one of those ways or not at all.
LEMMA StockSteps ==
  ASSUME [Next]_vars
  PROVE  StockStep \/ UNCHANGED <<available, reserved, sold>>
<1>1. ASSUME NEW r \in Requests, PlaceStep(r) \/ Disconnect(r)
      PROVE  StockStep \/ UNCHANGED <<available, reserved, sold>>
  <2> KeyOf[r] \in Keys
    BY InputTypes DEF Handlers
  <2>1. CASE ReserveTx(r)
    BY <2>1 DEF ReserveTx, StockStep
  <2>2. CASE SettlePaid(r)
    BY <2>2 DEF SettlePaid, StockStep
  <2>3. CASE SettleDeclined(r)
    BY <2>3 DEF SettleDeclined, StockStep
  <2> QED
    BY <1>1, <2>1, <2>2, <2>3
       DEF PlaceStep, Disconnect, LookupFound, LookupMissed, BuildRejected, Build,
           Submit, SubmitRefused, StartTask, ReserveDuplicate, ReserveOutOfStock,
           ReserveError, StartPayment, StartPaymentRefused, ChargeSucceeds,
           ChargeRetried, ChargeExhausted, SettleConflict, SettleError, Publish, db
<1>2. ASSUME NEW c \in Cancels, CancelStep(c)
      PROVE  StockStep \/ UNCHANGED <<available, reserved, sold>>
  <2> KeyOf[c] \in Keys
    BY InputTypes DEF Handlers
  <2>1. CASE CancelTx(c)
    BY <2>1 DEF CancelTx, CancelCommits, StockStep
  <2> QED
    BY <1>2, <2>1 DEF CancelStep, CancelRead, CancelRefused, Publish, db
<1>3. ASSUME NEW a \in Admins, AdminStep(a)
      PROVE  UNCHANGED <<available, reserved, sold>>
  BY <1>3 DEF AdminStep, AdminRead, AdminWrite, AdminError, db
<1> QED
  BY <1>1, <1>2, <1>3 DEF Next, StopPool, Crash, Quiescent, vars, db

\* No oversell, whatever handlers, faults and quantities: the columns never go
\* negative and every unit of the initial stock stays accounted for.
THEOREM StockIsConserved == Spec => []StockConserved
<1>1. Init => StockConserved
  BY InputsAssumption DEF Init, StockConserved
<1>2. TypeOK /\ StockConserved /\ [Next]_vars => StockConserved'
  <2> SUFFICES ASSUME TypeOK, StockConserved, [Next]_vars
               PROVE  StockConserved'
    OBVIOUS
  <2>1. CASE UNCHANGED <<available, reserved, sold>>
    BY <2>1 DEF StockConserved
  <2> QED
    BY <2>1, StockSteps, StockStepConserves
<1> QED
  BY <1>1, <1>2, TypeCorrect, PTL DEF Spec

-----------------------------------------------------------------------------
(* Charges and payments.  The gateway forgets its results in a crash, so    *)
(* what keeps a key from being charged twice is the order row: it is        *)
(* committed before the first charge, its key is unique, and it is never    *)
(* deleted.  The inductive invariant says which call owns an order.         *)

\* r created the order row and has not yet recorded a payment for it.
Owns(r) == pc[r] \in {"pay", "charging", "settling"}

\* Before the row exists nothing was charged or recorded, and the owner of an
\* order is unique and finds no payment row.
OwnerInv ==
  /\ \A k \in Keys : order[k] = "none" => charges[k] = 0 /\ payment[k] = NoPayment
  /\ \A r \in Requests : Owns(r) =>
        order[KeyOf[r]] # "none" /\ payment[KeyOf[r]] = NoPayment
  /\ \A r, q \in Requests : Owns(r) /\ Owns(q) /\ KeyOf[r] = KeyOf[q] => r = q

\* What the owner knows of the charge, and what the result map records.
ChargeInv ==
  /\ \A r \in Requests :
        /\ pc[r] \in {"pay", "charging"} => charges[KeyOf[r]] = 0
        /\ pc[r] = "charging" => attempt[r] <= Attempts
        /\ pc[r] = "settling" /\ ~chargeErr[r] => charges[KeyOf[r]] = 1
        /\ pc[r] = "settling" /\ chargeErr[r] =>
              charges[KeyOf[r]] = 0 /\ attempt[r] = Attempts
  /\ \A k \in results : charges[k] = 1
  /\ ChargedAtMostOnce
  /\ PaymentMatchesCharge

\* An answer "created" stands for a recorded payment, and its events are on the
\* bus or about to be put there.
ReplyInv ==
  \A r \in Requests : reply[r] = "created" =>
    /\ payment[KeyOf[r]].status \in {"succeeded", "refunded"}
    /\ pc[r] \in {"publish"} \cup Ended
    /\ \A q \in Requests \ {r} : KeyOf[q] = KeyOf[r] => reply[q] # "created"
    /\ pc[r] = "publish" => {"OrderPaid", "OrderFulfilled"} \subseteq evs[r]
    /\ pc[r] = "done" => {"OrderPaid", "OrderFulfilled"} \X {KeyOf[r]} \subseteq published

PaymentInv == TypeOK /\ OwnerInv /\ ChargeInv /\ ReplyInv

\* A step that touches neither order nor payment rows, charges nothing, and makes
\* no call an owner.
Quiet ==
  /\ UNCHANGED <<order, payment, charges, attempt, chargeErr>>
  /\ results' \subseteq results
  /\ \A r \in Requests : pc'[r] = pc[r] \/ pc'[r] \notin {"pay", "charging", "settling"}

LEMMA QuietKeeps ==
  ASSUME OwnerInv, ChargeInv, Quiet
  PROVE  OwnerInv' /\ ChargeInv'
<1> USE DEF Quiet, Owns
<1>1. OwnerInv'
  BY DEF OwnerInv
<1>2. ChargeInv'
  BY DEF ChargeInv, ChargedAtMostOnce, PaymentMatchesCharge
<1> QED
  BY <1>1, <1>2

\* The actions of a PlaceOrder call that are quiet.
QuietPlaceStep(r) ==
  \/ LookupFound(r) \/ LookupMissed(r) \/ BuildRejected(r) \/ Build(r)
  \/ Submit(r) \/ SubmitRefused(r) \/ StartTask(r)
  \/ ReserveDuplicate(r) \/ ReserveOutOfStock(r) \/ ReserveError(r)
  \/ StartPaymentRefused(r) \/ SettleConflict(r) \/ SettleError(r) \/ Publish(r)

LEMMA QuietPlaceSteps ==
  ASSUME TypeOK, NEW r \in Requests, QuietPlaceStep(r)
  PROVE  Quiet
<1> r \in Handlers /\ Requests \subseteq Handlers
  BY DEF Handlers
<1>1. UNCHANGED <<order, payment, charges, attempt, chargeErr, results>>
  BY DEF QuietPlaceStep, LookupFound, LookupMissed, BuildRejected, Build, Submit,
         SubmitRefused, StartTask, ReserveDuplicate, ReserveOutOfStock, ReserveError,
         StartPaymentRefused, SettleConflict, SettleError, Publish, db, gateway, local
<1>2. \E l \in PCs \ {"pay", "charging", "settling"} : Goto(r, l)
  BY DEF QuietPlaceStep, LookupFound, LookupMissed, BuildRejected, Build, Submit,
         SubmitRefused, StartTask, ReserveDuplicate, ReserveOutOfStock, ReserveError,
         StartPaymentRefused, SettleConflict, SettleError, Publish, Answer, Finish, PCs
<1> QED
  BY <1>1, <1>2 DEF Quiet, Goto, TypeOK

\* The five PlaceOrder actions that are not.
LEMMA PlaceStepPayment ==
  ASSUME TypeOK, OwnerInv, ChargeInv, NEW r \in Requests, PlaceStep(r)
  PROVE  OwnerInv' /\ ChargeInv'
<1> r \in Handlers /\ Requests \subseteq Handlers
  BY DEF Handlers
<1> KeyOf \in [Handlers -> Keys]
  BY InputsAssumption
<1> Attempts \in Nat \ {0}
  BY ConfigAssumption DEF Attempts
<1> USE DEF Owns, TypeOK, Goto
<1>1. CASE QuietPlaceStep(r)
  BY <1>1, QuietPlaceSteps, QuietKeeps
<1>2. CASE ReserveTx(r)
  <2>1. OwnerInv'
    BY <1>2 DEF ReserveTx, UpdateOrder, OwnerInv, gateway
  <2>2. ChargeInv'
    BY <1>2 DEF ReserveTx, OwnerInv, ChargeInv, ChargedAtMostOnce,
                PaymentMatchesCharge, gateway
  <2> QED
    BY <2>1, <2>2
<1>3. CASE StartPayment(r)
  <2>1. OwnerInv'
    BY <1>3 DEF StartPayment, OwnerInv, db, gateway
  <2>2. ChargeInv'
    BY <1>3 DEF StartPayment, ChargeInv, ChargedAtMostOnce, PaymentMatchesCharge,
                db, gateway
  <2> QED
    BY <2>1, <2>2
<1>4. CASE ChargeSucceeds(r)
  <2>1. KeyOf[r] \notin results /\ charges[KeyOf[r]] = 0
    BY <1>4 DEF ChargeSucceeds, ChargeInv
  <2>2. charges' = [charges EXCEPT ![KeyOf[r]] = 1]
    BY <1>4, <2>1 DEF ChargeSucceeds
  <2>3. OwnerInv'
    BY <1>4, <2>2 DEF ChargeSucceeds, OwnerInv, db
  <2>4. \A q \in Requests \ {r} : Owns(q) => KeyOf[q] # KeyOf[r]
    BY <1>4 DEF ChargeSucceeds, OwnerInv
  <2>5. payment[KeyOf[r]] = NoPayment
    BY <1>4 DEF ChargeSucceeds, OwnerInv
  <2>6. PaymentMatchesCharge'
    BY <1>4, <2>2, <2>5 DEF ChargeSucceeds, ChargeInv, PaymentMatchesCharge, NoPayment, db
  <2>7. ChargedAtMostOnce'
    BY <1>4, <2>2 DEF ChargeSucceeds, ChargeInv, ChargedAtMostOnce
  <2>8. \A k \in results' : charges'[k] = 1
    BY <1>4, <2>2 DEF ChargeSucceeds, ChargeInv
  <2>9. ChargeInv'
    BY <1>4, <2>2, <2>4, <2>6, <2>7, <2>8 DEF ChargeSucceeds, ChargeInv
  <2> QED
    BY <2>3, <2>9
<1>5. CASE ChargeRetried(r)
  <2>1. OwnerInv'
    BY <1>5 DEF ChargeRetried, OwnerInv, db, gateway
  <2>2. ChargeInv'
    BY <1>5 DEF ChargeRetried, ChargeInv, ChargedAtMostOnce, PaymentMatchesCharge,
                db, gateway
  <2> QED
    BY <2>1, <2>2
<1>6. CASE ChargeExhausted(r)
  <2>1. OwnerInv'
    BY <1>6 DEF ChargeExhausted, OwnerInv, db, gateway
  <2>2. ChargeInv'
    BY <1>6 DEF ChargeExhausted, ChargeInv, ChargedAtMostOnce, PaymentMatchesCharge,
                db, gateway
  <2> QED
    BY <2>1, <2>2
<1>7. CASE SettlePaid(r) \/ SettleDeclined(r)
  <2>1. PICK s \in {"succeeded", "failed"}, o \in Status :
          /\ payment' = [payment EXCEPT ![KeyOf[r]] = [status |-> s, attempts |-> attempt[r]]]
          /\ order' = [order EXCEPT ![KeyOf[r]] = o]
          /\ pc' = [pc EXCEPT ![r] = "publish"]
          /\ UNCHANGED <<results, charges, attempt, chargeErr>>
          /\ pc[r] = "settling"
          /\ s = "succeeded" <=> ~chargeErr[r]
    BY <1>7 DEF SettlePaid, SettleDeclined, InsertPayment, UpdateOrder, Finish, Status,
                gateway
  <2>2. \A q \in Requests \ {r} : Owns(q) => KeyOf[q] # KeyOf[r]
    BY <2>1 DEF OwnerInv
  <2>3. OwnerInv'
    BY <2>1, <2>2 DEF OwnerInv, Status
  <2>4. PaymentMatchesCharge'
    BY <2>1 DEF ChargeInv, PaymentMatchesCharge
  <2>5. ChargeInv'
    BY <2>1, <2>4 DEF ChargeInv, ChargedAtMostOnce
  <2> QED
    BY <2>3, <2>5
<1> QED
  BY <1>1, <1>2, <1>3, <1>4, <1>5, <1>6, <1>7 DEF PlaceStep, QuietPlaceStep

\* CancelOrder can turn a succeeded payment into a refunded one, and both handlers
\* overwrite the status of a row that exists; nothing else is at stake.
LEMMA OtherStepPayment ==
  ASSUME TypeOK, OwnerInv, ChargeInv,
         \/ \E r \in Requests : Disconnect(r)
         \/ \E c \in Cancels : CancelStep(c)
         \/ \E a \in Admins : AdminStep(a)
         \/ StopPool \/ Crash \/ UNCHANGED vars
  PROVE  OwnerInv' /\ ChargeInv'
<1> Requests \subseteq Handlers /\ Cancels \subseteq Handlers /\ Admins \subseteq Handlers
  BY DEF Handlers
<1> KeyOf \in [Handlers -> Keys]
  BY InputsAssumption
<1>1. ASSUME NEW r \in Requests, Disconnect(r) PROVE Quiet
  BY <1>1 DEF Disconnect, Quiet, db, gateway, local
<1>2. ASSUME NEW c \in Cancels, CancelStep(c) PROVE OwnerInv' /\ ChargeInv'
  <2>1. CASE CancelRead(c) \/ CancelRefused(c) \/ Publish(c)
    <3>1. Quiet
      BY <2>1, HandlersAssumption
         DEF CancelRead, CancelRefused, Publish, Goto, Quiet, TypeOK, db, gateway, local
    <3> QED
      BY <3>1, QuietKeeps
  <2>2. CASE CancelTx(c)
    <3>1. /\ order' = [order EXCEPT ![KeyOf[c]] = "cancelled"]
          /\ UNCHANGED <<results, charges, attempt, chargeErr>>
          /\ \A r \in Requests : pc'[r] = pc[r]
      BY <2>2, HandlersAssumption DEF CancelTx, UpdateOrder, Goto, TypeOK, gateway
    <3>2. \/ payment' = payment
          \/ /\ payment[KeyOf[c]].status = "succeeded"
             /\ payment' = [payment EXCEPT ![KeyOf[c]].status = "refunded"]
      BY <2>2 DEF CancelTx, CancelCommits
    <3>3. \A k \in Keys :
            \/ payment'[k] = payment[k]
            \/ /\ payment[k].status = "succeeded"
               /\ payment'[k].status = "refunded"
      BY <3>2 DEF TypeOK
    <3>4. \A k \in Keys : payment[k] = NoPayment => payment'[k] = NoPayment
      BY <3>3 DEF NoPayment
    <3>5. OwnerInv'
      BY <3>1, <3>4 DEF OwnerInv, Owns, TypeOK
    <3>6. PaymentMatchesCharge'
      BY <3>1, <3>3 DEF ChargeInv, PaymentMatchesCharge
    <3>7. ChargeInv'
      BY <3>1, <3>6 DEF ChargeInv, ChargedAtMostOnce
    <3> QED
      BY <3>5, <3>7
  <2> QED
    BY <1>2, <2>1, <2>2 DEF CancelStep
<1>3. ASSUME NEW a \in Admins, AdminStep(a) PROVE OwnerInv' /\ ChargeInv'
  <2>1. CASE AdminRead(a) \/ AdminError(a)
    <3>1. Quiet
      BY <2>1, HandlersAssumption
         DEF AdminRead, AdminError, Goto, Quiet, TypeOK, db, gateway, local
    <3> QED
      BY <3>1, QuietKeeps
  <2>2. CASE AdminWrite(a)
    <3>1. /\ order' = [order EXCEPT ![KeyOf[a]] = mem[a]]
          /\ mem[a] # "none"
          /\ UNCHANGED <<payment, results, charges, attempt, chargeErr>>
          /\ \A r \in Requests : pc'[r] = pc[r]
      BY <2>2, HandlersAssumption
         DEF AdminWrite, UpdateOrder, Goto, TypeOK, Status, gateway, local
    <3>2. OwnerInv'
      BY <3>1 DEF OwnerInv, Owns, TypeOK
    <3>3. ChargeInv'
      BY <3>1 DEF ChargeInv, ChargedAtMostOnce, PaymentMatchesCharge
    <3> QED
      BY <3>2, <3>3
  <2> QED
    BY <1>3, <2>1, <2>2 DEF AdminStep
<1>4. CASE StopPool \/ Crash \/ UNCHANGED vars
  <2>1. Quiet
    BY <1>4 DEF StopPool, Crash, Quiet, db, gateway, local, vars
  <2> QED
    BY <2>1, QuietKeeps
<1> QED
  BY <1>1, <1>2, <1>3, <1>4, QuietKeeps

\* Recorded money stays recorded, and no call becomes or moves on as "created".
ReplyFrame ==
  /\ \A k \in Keys : payment[k].status \in {"succeeded", "refunded"} =>
                      payment'[k].status \in {"succeeded", "refunded"}
  /\ \A q \in Requests : reply'[q] = "created" =>
        reply[q] = "created" /\ pc'[q] \in {pc[q], "dead"} /\ evs'[q] = evs[q]
  /\ published \subseteq published'

LEMMA ReplyFrameKeeps ==
  ASSUME ReplyInv, ReplyFrame
  PROVE  ReplyInv'
<1> KeyOf \in [Requests \cup Cancels \cup Admins -> Keys]
  BY InputsAssumption DEF Handlers
<1> QED
  BY DEF ReplyInv, ReplyFrame, Ended

\* ReplyInv depends only on the answers, the payments and the events on their way.
LEMMA StepReply ==
  ASSUME TypeOK, OwnerInv, ChargeInv, ReplyInv, [Next]_vars
  PROVE  ReplyInv'
<1> Requests \subseteq Handlers /\ Cancels \subseteq Handlers /\ Admins \subseteq Handlers
  BY DEF Handlers
<1> KeyOf \in [Handlers -> Keys]
  BY InputsAssumption
<1> USE DEF Ended
<1>1. ASSUME NEW r \in Requests, SettlePaid(r) PROVE ReplyInv'
  <2>1. /\ payment[KeyOf[r]] = NoPayment
        /\ payment' = [payment EXCEPT ![KeyOf[r]] =
                         [status |-> "succeeded", attempts |-> attempt[r]]]
        /\ reply' = [reply EXCEPT ![r] = "created"]
        /\ pc' = [pc EXCEPT ![r] = "publish"]
        /\ {"OrderPaid", "OrderFulfilled"} \subseteq evs'[r]
        /\ \A q \in Requests \ {r} : evs'[q] = evs[q]
        /\ published' = published
    BY <1>1 DEF SettlePaid, InsertPayment, Finish, Record, Goto, TypeOK
  <2>2. \A q \in Requests : KeyOf[q] = KeyOf[r] => reply[q] # "created"
    BY <2>1 DEF ReplyInv, NoPayment
  <2>3. \A q \in Requests \ {r} : reply'[q] = reply[q] /\ pc'[q] = pc[q]
    BY <2>1 DEF TypeOK
  <2>4. \A q \in Requests : reply'[q] = "created" => payment'[KeyOf[q]].status \in {"succeeded", "refunded"}
    BY <2>1, <2>2, <2>3 DEF ReplyInv, TypeOK
  <2> QED
    BY <2>1, <2>2, <2>3, <2>4 DEF ReplyInv, TypeOK
<1>2. ASSUME NEW h \in Handlers, Publish(h) PROVE ReplyInv'
  <2>1. /\ UNCHANGED <<payment, reply>>
        /\ pc' = [pc EXCEPT ![h] = "done"]
        /\ pc[h] = "publish"
        /\ published' = published \cup {<<e, KeyOf[h]>> : e \in evs[h]}
        /\ evs' = [evs EXCEPT ![h] = {}]
    BY <1>2 DEF Publish, Goto, db
  <2>2. ASSUME NEW q \in Requests, reply'[q] = "created", pc'[q] = "done"
        PROVE  {"OrderPaid", "OrderFulfilled"} \X {KeyOf[q]} \subseteq published'
    <3>1. CASE q = h
      <4>1. {"OrderPaid", "OrderFulfilled"} \subseteq evs[h]
        BY <2>1, <2>2, <3>1 DEF ReplyInv
      <4> QED
        BY <2>1, <3>1, <4>1
    <3>2. CASE q # h
      BY <2>1, <2>2, <3>2 DEF ReplyInv, TypeOK
    <3> QED
      BY <3>1, <3>2
  <2>3. ASSUME NEW q \in Requests, reply'[q] = "created", pc'[q] = "publish"
        PROVE  {"OrderPaid", "OrderFulfilled"} \subseteq evs'[q]
    BY <2>1, <2>3 DEF ReplyInv, TypeOK
  <2> QED
    BY <2>1, <2>2, <2>3 DEF ReplyInv, TypeOK
<1>3. ASSUME NEW r \in Requests, PlaceStep(r), ~SettlePaid(r), ~Publish(r)
      PROVE  ReplyFrame
  <2>1. pc[r] \notin {"publish"} \cup Ended
    BY <1>3 DEF PlaceStep, LookupFound, LookupMissed, BuildRejected, Build, Submit,
         SubmitRefused, StartTask, ReserveTx, ReserveDuplicate, ReserveOutOfStock,
         ReserveError, StartPayment, StartPaymentRefused, ChargeSucceeds,
         ChargeRetried, ChargeExhausted, SettleDeclined, SettleConflict, SettleError
  <2>2. reply[r] # "created"
    BY <2>1 DEF ReplyInv
  <2>3. \E a \in Replies \ {"created"} : reply' = [reply EXCEPT ![r] = a]
    <3>1. reply' = reply => reply' = [reply EXCEPT ![r] = reply[r]]
      BY DEF TypeOK
    <3>2. reply[r] \in Replies \ {"created"}
      BY <2>2 DEF TypeOK
    <3>3. \/ reply' = reply
          \/ \E a \in {"existing", "rejected", "unavailable", "out_of_stock",
                       "payment_failed", "error"} : reply' = [reply EXCEPT ![r] = a]
      BY <1>3 DEF PlaceStep, LookupFound, LookupMissed, BuildRejected, Build, Submit,
         SubmitRefused, StartTask, ReserveTx, ReserveDuplicate, ReserveOutOfStock,
         ReserveError, StartPayment, StartPaymentRefused, ChargeSucceeds,
         ChargeRetried, ChargeExhausted, SettleDeclined, SettleConflict, SettleError,
         Answer, Finish, local
    <3> QED
      BY <3>1, <3>2, <3>3 DEF Replies
  <2>4. /\ \/ pc' = pc
           \/ \E l \in PCs : pc' = [pc EXCEPT ![r] = l]
        /\ \/ evs' = evs
           \/ \E new : evs' = [evs EXCEPT ![r] = new]
        /\ published' = published
    BY <1>3 DEF PlaceStep, LookupFound, LookupMissed, BuildRejected, Build, Submit,
         SubmitRefused, StartTask, ReserveTx, ReserveDuplicate, ReserveOutOfStock,
         ReserveError, StartPayment, StartPaymentRefused, ChargeSucceeds,
         ChargeRetried, ChargeExhausted, SettleDeclined, SettleConflict, SettleError,
         Answer, Finish, Record, Goto, PCs, local
  <2>5. \A k \in Keys : payment[k].status \in {"succeeded", "refunded"} =>
                        payment'[k].status \in {"succeeded", "refunded"}
    <3>1. CASE SettleDeclined(r)
      BY <3>1 DEF SettleDeclined, InsertPayment, NoPayment, TypeOK
    <3>2. CASE ~SettleDeclined(r)
      <4>1. payment' = payment
        BY <1>3, <3>2 DEF PlaceStep, LookupFound, LookupMissed, BuildRejected, Build,
           Submit, SubmitRefused, StartTask, ReserveTx, ReserveDuplicate,
           ReserveOutOfStock, ReserveError, StartPayment, StartPaymentRefused,
           ChargeSucceeds, ChargeRetried, ChargeExhausted, SettleConflict, SettleError, db
      <4> QED
        BY <4>1
    <3> QED
      BY <3>1, <3>2
  <2> QED
    BY <2>2, <2>3, <2>4, <2>5 DEF ReplyFrame, TypeOK
<1>4. ASSUME NEW c \in Cancels, CancelStep(c), ~Publish(c)
      PROVE  ReplyFrame
  <2>1. /\ UNCHANGED <<reply, published>>
        /\ \A q \in Requests : pc'[q] = pc[q] /\ evs'[q] = evs[q]
    BY <1>4, HandlersAssumption
       DEF CancelStep, CancelRead, CancelTx, CancelRefused, Record, Goto, TypeOK, local
  <2>2. \A k \in Keys : payment[k].status \in {"succeeded", "refunded"} =>
                        payment'[k].status \in {"succeeded", "refunded"}
    BY <1>4 DEF CancelStep, CancelRead, CancelTx, CancelRefused, TypeOK, db
  <2> QED
    BY <2>1, <2>2 DEF ReplyFrame
<1>5. ASSUME NEW a \in Admins, AdminStep(a)
      PROVE  ReplyFrame
  BY <1>5, HandlersAssumption
     DEF AdminStep, AdminRead, AdminWrite, AdminError, Goto, TypeOK, ReplyFrame, db, local
<1>6. ASSUME NEW r \in Requests, Disconnect(r)
      PROVE  ReplyFrame
  BY <1>6 DEF Disconnect, ReplyFrame, db, local
<1>7. CASE Crash
  <2>1. \A q \in Requests : pc'[q] \in {pc[q], "dead"}
    BY <1>7 DEF Crash
  <2> QED
    BY <1>7, <2>1, ReplyFrameKeeps DEF Crash, ReplyFrame, db, local
<1>8. CASE StopPool \/ UNCHANGED vars
  BY <1>8, ReplyFrameKeeps DEF StopPool, ReplyFrame, db, local, vars
<1> QED
  BY <1>1, <1>2, <1>3, <1>4, <1>5, <1>6, <1>7, <1>8, ReplyFrameKeeps
     DEF Next, PlaceStep, CancelStep, Quiescent

\* PaymentInv is inductive.
LEMMA PaymentInvHolds == Spec => []PaymentInv
<1>1. Init => PaymentInv
  <2> SUFFICES ASSUME Init PROVE OwnerInv /\ ChargeInv /\ ReplyInv /\ TypeOK
    BY DEF PaymentInv
  <2>1. TypeOK
    BY InputsAssumption
       DEF Init, TypeOK, Status, NoPayment, PaymentStatus, PCs, Replies
  <2>2. KeyOf \in [Handlers -> Keys] /\ Requests \subseteq Handlers
    BY InputsAssumption DEF Handlers
  <2>3. OwnerInv
    BY <2>2 DEF Init, OwnerInv, Owns
  <2>4. ChargeInv
    BY <2>2 DEF Init, ChargeInv, ChargedAtMostOnce, PaymentMatchesCharge, NoPayment
  <2>5. ReplyInv
    BY <2>2 DEF Init, ReplyInv
  <2> QED
    BY <2>1, <2>3, <2>4, <2>5
<1>2. PaymentInv /\ [Next]_vars => PaymentInv'
  <2> SUFFICES ASSUME PaymentInv, [Next]_vars
               PROVE  PaymentInv'
    OBVIOUS
  <2> USE DEF PaymentInv
  <2>1. TypeOK'
    BY PlaceStepTypeOK, OtherStepTypeOK DEF Next, Quiescent
  <2>2. OwnerInv' /\ ChargeInv'
    BY PlaceStepPayment, OtherStepPayment DEF Next, Quiescent
  <2>3. ReplyInv'
    BY StepReply
  <2> QED
    BY <2>1, <2>2, <2>3
<1> QED
  BY <1>1, <1>2, PTL DEF Spec

\* A key is never charged twice: not by concurrent re-sends, not by the retry loop,
\* not after a crash that empties the gateway's map.
THEOREM NeverChargedTwice == Spec => []ChargedAtMostOnce
<1>1. PaymentInv => ChargedAtMostOnce
  BY DEF PaymentInv, ChargeInv
<1> QED
  BY <1>1, PaymentInvHolds, PTL

\* A payments row always agrees with what the provider did.
THEOREM PaymentRowsAreTrue == Spec => []PaymentMatchesCharge
<1>1. PaymentInv => PaymentMatchesCharge
  BY DEF PaymentInv, ChargeInv
<1> QED
  BY <1>1, PaymentInvHolds, PTL

\* The answer "created" is given once per key, for a paid order, after its events
\* are published.
THEOREM CreatedIsUnique == Spec => []CreatedOnce
<1>1. PaymentInv => CreatedOnce
  BY DEF PaymentInv, ReplyInv, CreatedOnce
<1> QED
  BY <1>1, PaymentInvHolds, PTL
=============================================================================
