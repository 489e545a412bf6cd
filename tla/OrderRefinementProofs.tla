----------------------- MODULE OrderRefinementProofs -----------------------
(* Until an administrator edits it, an order's outcome matches its payment; *)
(* with PlaceOrder alone the pipeline implements OrderLifecycle; and the    *)
(* stock columns are sums over the order rows.                              *)
EXTENDS OrderPipelineProofs, FiniteSetTheorems

-----------------------------------------------------------------------------
(* Orders no UpdateOrderStatus call has touched.                            *)

\* "paid" is never stored, so no cancellation refunds, and the terminal statuses
\* PlaceOrder writes stay next to the payment row written with them.
OutcomeAt(k) ==
  /\ order[k] # "paid"
  /\ order[k] = "fulfilled" => payment[k].status = "succeeded"
  /\ order[k] = "failed" => payment[k].status = "failed"
  /\ \A c \in Cancels : KeyOf[c] = k /\ pc[c] = "cancelling" => mem[c] # "paid"

OutcomeInv == \A k \in Keys : ~Edited(k) => OutcomeAt(k)

\* Every step keeps OutcomeInv.
LEMMA OutcomeStep ==
  ASSUME PaymentInv, OutcomeInv, [Next]_vars
  PROVE  OutcomeInv'
<1> Requests \subseteq Handlers /\ Cancels \subseteq Handlers /\ Admins \subseteq Handlers
  BY DEF Handlers
<1> KeyOf \in [Handlers -> Keys]
  BY InputsAssumption
<1> TypeOK /\ OwnerInv
  BY DEF PaymentInv
<1> USE DEF TypeOK, Goto
<1> SUFFICES ASSUME NEW k \in Keys, ~Edited(k)' PROVE OutcomeAt(k)'
  BY DEF OutcomeInv
\* Nothing undoes an edit.
<1>0. (\A a \in Admins : pc'[a] = "idle" => pc[a] = "idle") => OutcomeAt(k)
  BY DEF OutcomeInv, Edited
\* A step of h leaves the other calls alone.
<1> DEFINE Frame(h) == \A g \in Handlers \ {h} : pc'[g] = pc[g] /\ mem'[g] = mem[g]
<1>1. ASSUME NEW r \in Requests, ReserveTx(r) PROVE OutcomeAt(k)'
  <2>1. /\ order' = [order EXCEPT ![KeyOf[r]] = "reserved"]
        /\ payment' = payment
        /\ Frame(r)
    BY <1>1 DEF ReserveTx, UpdateOrder
  <2> QED
    BY <2>1, <1>0, HandlersAssumption DEF OutcomeAt
<1>2. ASSUME NEW r \in Requests, SettlePaid(r) \/ SettleDeclined(r) PROVE OutcomeAt(k)'
  <2>1. PICK s \in {"succeeded", "failed"} :
          /\ payment' = [payment EXCEPT ![KeyOf[r]] = [status |-> s, attempts |-> attempt[r]]]
          /\ order' = [order EXCEPT ![KeyOf[r]] = IF s = "succeeded" THEN "fulfilled"
                                                                     ELSE "failed"]
          /\ Frame(r)
    BY <1>2 DEF SettlePaid, SettleDeclined, InsertPayment, UpdateOrder, Finish
  <2> QED
    BY <2>1, <1>0, HandlersAssumption DEF OutcomeAt
<1>3. ASSUME NEW r \in Requests, PlaceStep(r), ~ReserveTx(r), ~SettlePaid(r), ~SettleDeclined(r)
      PROVE  OutcomeAt(k)'
  <2>1. UNCHANGED <<order, payment>>
    BY <1>3 DEF PlaceStep, LookupFound, LookupMissed, BuildRejected, Build, Submit,
         SubmitRefused, StartTask, ReserveDuplicate, ReserveOutOfStock, ReserveError,
         StartPayment, StartPaymentRefused, ChargeSucceeds, ChargeRetried,
         ChargeExhausted, SettleConflict, SettleError, Publish, db
  <2>2. Frame(r)
    BY <1>3
       DEF PlaceStep, LookupFound, LookupMissed, BuildRejected, Build, Submit,
         SubmitRefused, StartTask, ReserveDuplicate, ReserveOutOfStock, ReserveError,
         StartPayment, StartPaymentRefused, ChargeSucceeds, ChargeRetried,
         ChargeExhausted, SettleConflict, SettleError, Publish, Answer, Finish, local
  <2> QED
    BY <2>1, <2>2, <1>0, HandlersAssumption DEF OutcomeAt
<1>4. ASSUME NEW c \in Cancels, CancelStep(c) PROVE OutcomeAt(k)'
  <2>0. Frame(c)
    BY <1>4 DEF CancelStep, CancelRead, CancelTx, CancelRefused, Publish, local
  <2>1. CASE CancelRead(c)
    <3>1. UNCHANGED <<order, payment>>
      BY <2>1 DEF CancelRead, db
    <3>2. pc'[c] = "cancelling" => mem'[c] = order[KeyOf[c]]
      BY <2>1 DEF CancelRead
    <3> QED
      BY <2>0, <3>1, <3>2, <1>0, HandlersAssumption DEF OutcomeAt
  <2>2. CASE CancelTx(c)
    <3>1. /\ order' = [order EXCEPT ![KeyOf[c]] = "cancelled"]
          /\ pc'[c] = "publish" /\ pc[c] = "cancelling"
          /\ \A j \in Keys \ {KeyOf[c]} : payment'[j] = payment[j]
      BY <2>2 DEF CancelTx, UpdateOrder
    <3> QED
      BY <2>0, <3>1, <1>0, HandlersAssumption DEF OutcomeAt
  <2>3. CASE CancelRefused(c) \/ Publish(c)
    <3>1. UNCHANGED <<order, payment>> /\ pc'[c] = "done"
      BY <2>3 DEF CancelRefused, Publish, db
    <3> QED
      BY <2>0, <3>1, <1>0, HandlersAssumption DEF OutcomeAt
  <2> QED
    BY <1>4, <2>1, <2>2, <2>3 DEF CancelStep
<1>5. ASSUME NEW a \in Admins, AdminStep(a) PROVE OutcomeAt(k)'
  <2>1. /\ Frame(a)
        /\ pc'[a] # "idle"
        /\ payment' = payment
        /\ \A j \in Keys \ {KeyOf[a]} : order'[j] = order[j]
    BY <1>5 DEF AdminStep, AdminRead, AdminWrite, AdminError, UpdateOrder, db, local
  <2>2. KeyOf[a] # k
    BY <2>1 DEF Edited
  <2> QED
    BY <2>1, <2>2, <1>0, HandlersAssumption DEF OutcomeAt
<1>6. ASSUME NEW r \in Requests, Disconnect(r) PROVE OutcomeAt(k)'
  BY <1>6, <1>0 DEF Disconnect, OutcomeAt, db, local
<1>7. CASE StopPool \/ Crash \/ UNCHANGED vars
  <2>1. /\ UNCHANGED <<order, payment, mem>>
        /\ \A h \in Handlers : pc'[h] = pc[h] \/ (pc[h] # "idle" /\ pc'[h] = "dead")
    BY <1>7 DEF StopPool, Crash, vars, db, local
  <2> QED
    BY <2>1, <1>0 DEF OutcomeAt
<1> QED
  BY <1>1, <1>2, <1>3, <1>4, <1>5, <1>6, <1>7 DEF Next, Quiescent

\* Until an administrator edits it, a fulfilled order has a succeeded payment and
\* a failed order a failed payment and no charge, however cancellations race with
\* settlements.
THEOREM OutcomeMatchesPayment == Spec => []OutcomeIsPaidFor
<1>1. Init => OutcomeInv
  BY InputsAssumption DEF Init, OutcomeInv, OutcomeAt, Handlers
<1>2. PaymentInv /\ OutcomeInv /\ [Next]_vars => OutcomeInv'
  BY OutcomeStep
<1>3. PaymentInv /\ OutcomeInv => OutcomeIsPaidFor
  BY DEF PaymentInv, ChargeInv, PaymentMatchesCharge, OutcomeInv, OutcomeAt,
     OutcomeIsPaidFor
<1> QED
  BY <1>1, <1>2, <1>3, PaymentInvHolds, PTL DEF Spec

-----------------------------------------------------------------------------
(* PlaceOrder alone.                                                        *)

\* The owner of an order finds it reserved, as it left it.
OwnedIsReserved ==
  \A r \in Requests : Owns(r) => order[KeyOf[r]] = "reserved"

\* One step of the pipeline is one step of the lifecycle, or none.
LEMMA LifecycleStep ==
  ASSUME Cancels = {}, Admins = {}, PaymentInv, OwnedIsReserved, [Next]_vars
  PROVE  /\ OwnedIsReserved'
         /\ [Lifecycle!Next]_(Lifecycle!lifecycleVars)
<1> Requests \subseteq Handlers
  BY DEF Handlers
<1> KeyOf \in [Handlers -> Keys]
  BY InputsAssumption
<1> TypeOK /\ OwnerInv
  BY DEF PaymentInv
<1> USE DEF TypeOK, Goto, Owns
<1>1. ASSUME NEW r \in Requests, ReserveTx(r)
      PROVE  OwnedIsReserved' /\ Lifecycle!Next
  <2>1. Lifecycle!Place(KeyOf[r])
    BY <1>1 DEF ReserveTx, CanReserve, Reserve, UpdateOrder, Lifecycle!Place
  <2>2. OwnedIsReserved'
    BY <1>1 DEF ReserveTx, UpdateOrder, OwnedIsReserved
  <2> QED
    BY <2>1, <2>2 DEF Lifecycle!Next
<1>2. ASSUME NEW r \in Requests, SettlePaid(r)
      PROVE  OwnedIsReserved' /\ Lifecycle!Next
  <2>1. order[KeyOf[r]] = "reserved"
    BY <1>2 DEF SettlePaid, OwnedIsReserved
  <2>2. Lifecycle!Fulfil(KeyOf[r])
    BY <1>2, <2>1 DEF SettlePaid, Commit, UpdateOrder, Lifecycle!Fulfil
  <2>3. OwnedIsReserved'
    BY <1>2 DEF SettlePaid, UpdateOrder, Finish, OwnedIsReserved, OwnerInv
  <2> QED
    BY <2>2, <2>3 DEF Lifecycle!Next
<1>3. ASSUME NEW r \in Requests, SettleDeclined(r)
      PROVE  OwnedIsReserved' /\ Lifecycle!Next
  <2>1. order[KeyOf[r]] = "reserved"
    BY <1>3 DEF SettleDeclined, OwnedIsReserved
  <2>2. Lifecycle!GiveUp(KeyOf[r], "failed")
    BY <1>3, <2>1 DEF SettleDeclined, Release, UpdateOrder, Lifecycle!GiveUp
  <2>3. OwnedIsReserved'
    BY <1>3 DEF SettleDeclined, UpdateOrder, Finish, OwnedIsReserved, OwnerInv
  <2> QED
    BY <2>2, <2>3 DEF Lifecycle!Next
<1>4. ASSUME NEW r \in Requests, PlaceStep(r), ~ReserveTx(r), ~SettlePaid(r), ~SettleDeclined(r)
      PROVE  OwnedIsReserved' /\ UNCHANGED Lifecycle!lifecycleVars
  <2>1. UNCHANGED <<order, available, sold>>
    BY <1>4 DEF PlaceStep, LookupFound, LookupMissed, BuildRejected, Build, Submit,
         SubmitRefused, StartTask, ReserveDuplicate, ReserveOutOfStock, ReserveError,
         StartPayment, StartPaymentRefused, ChargeSucceeds, ChargeRetried,
         ChargeExhausted, SettleConflict, SettleError, Publish, db
  <2>2. OwnedIsReserved'
    <3>1. CASE QuietPlaceStep(r)
      BY <2>1, <3>1, QuietPlaceSteps DEF Quiet, OwnedIsReserved
    <3>2. CASE StartPayment(r) \/ ChargeSucceeds(r) \/ ChargeRetried(r) \/ ChargeExhausted(r)
      BY <2>1, <3>2
         DEF StartPayment, ChargeSucceeds, ChargeRetried, ChargeExhausted, OwnedIsReserved
    <3> QED
      BY <1>4, <3>1, <3>2 DEF PlaceStep, QuietPlaceStep
  <2> QED
    BY <2>1, <2>2 DEF Lifecycle!lifecycleVars
<1>5. ASSUME (\E r \in Requests : Disconnect(r)) \/ StopPool \/ Crash \/ UNCHANGED vars
      PROVE  OwnedIsReserved' /\ UNCHANGED Lifecycle!lifecycleVars
  <2>1. UNCHANGED <<order, available, sold>>
    BY <1>5 DEF Disconnect, StopPool, Crash, vars, db
  <2>2. \A r \in Requests : pc'[r] \in {pc[r], "dead"}
    BY <1>5 DEF Disconnect, StopPool, Crash, vars
  <2> QED
    BY <2>1, <2>2 DEF OwnedIsReserved, Lifecycle!lifecycleVars
<1> QED
  BY <1>1, <1>2, <1>3, <1>4, <1>5 DEF Next, Quiescent

\* With PlaceOrder alone, and with every fault, the pipeline implements the order
\* lifecycle: stock moves exactly with the status, and only along its arrows.
THEOREM PlaceOrderImplementsLifecycle ==
  ASSUME Cancels = {}, Admins = {}
  PROVE  Spec => ImplementsLifecycle
<1>1. Init => OwnedIsReserved /\ Lifecycle!Init
  BY DEF Init, OwnedIsReserved, Owns, Handlers, Lifecycle!Init
<1>2. PaymentInv /\ OwnedIsReserved /\ [Next]_vars
        => OwnedIsReserved' /\ [Lifecycle!Next]_(Lifecycle!lifecycleVars)
  BY LifecycleStep
<1> QED
  BY <1>1, <1>2, PaymentInvHolds, PTL DEF Spec, ImplementsLifecycle, Lifecycle!Spec

\* With PlaceOrder alone no step, retry or crash takes an order out of a terminal
\* status: the lifecycle has no such step.
THEOREM TerminalStays ==
  ASSUME Cancels = {}, Admins = {}
  PROVE  Spec => TerminalIsFinal
<1>1. Init => OwnedIsReserved
  BY DEF Init, OwnedIsReserved, Owns, Handlers
<1>2. PaymentInv /\ OwnedIsReserved /\ [Next]_vars => OwnedIsReserved'
  BY LifecycleStep
<1>3. PaymentInv /\ OwnedIsReserved /\ [Next]_vars
        => [\A k \in Keys : IsTerminal(order[k]) => order'[k] = order[k]]_vars
  <2> SUFFICES ASSUME PaymentInv, OwnedIsReserved, [Next]_vars, NEW k \in Keys,
                      IsTerminal(order[k])
               PROVE  order'[k] = order[k]
    OBVIOUS
  <2>1. order \in [Keys -> Status \cup {"none"}]
    BY DEF PaymentInv, TypeOK
  <2>2. CASE Lifecycle!Next
    BY <2>1, <2>2
       DEF Lifecycle!Next, Lifecycle!Place, Lifecycle!Fulfil, Lifecycle!GiveUp, IsTerminal
  <2>3. CASE UNCHANGED Lifecycle!lifecycleVars
    BY <2>3 DEF Lifecycle!lifecycleVars
  <2> QED
    BY <2>2, <2>3, LifecycleStep
<1> QED
  BY <1>1, <1>2, <1>3, PaymentInvHolds, PTL DEF Spec, TerminalIsFinal

-----------------------------------------------------------------------------
(* Sums over orders.                                                        *)

\* A non-empty set of subsets of a finite set has a smallest member: the
\* induction the lemmas below use, as "there is no smallest counterexample".
LEMMA LeastSet ==
  ASSUME NEW S, IsFiniteSet(S), NEW B \in SUBSET (SUBSET S), B # {}
  PROVE  \E T \in B : \A U \in SUBSET T : U # T => U \notin B
<1>1. IsWellFoundedOn(StrictSubsetOrdering(S), SUBSET S)
  BY FS_StrictSubsetOrderingWellFounded, FS_FiniteSubsetsOfFinite
<1>2. PICK T \in B : \A U \in B : <<U, T>> \notin StrictSubsetOrdering(S)
  BY <1>1, WFMin, Zenon
<1>3. \A U \in SUBSET T : U # T => U \notin B
  BY <1>2 DEF StrictSubsetOrdering
<1> QED
  BY <1>3

\* The element the sum takes first, and the function it iterates.
Some(s) == CHOOSE x \in s : TRUE
Iterates(g, S, p) ==
  g = [s \in SUBSET S |-> IF s = {} THEN 0 ELSE Qty[Some(s)][p] + g[s \ {Some(s)}]]

\* What MapThenSumSet computes for the quantities of a product.
LEMMA UnitsDef ==
  ASSUME NEW S, NEW p
  PROVE  Units(S, p) = (CHOOSE g : Iterates(g, S, p))[S]
BY Zenon DEF Units, MapThenSumSet, MapThenFoldSet, Iterates, Some

\* It is an element.
LEMMA SomeIn == ASSUME NEW s, s # {} PROVE Some(s) \in s
BY DEF Some

\* One step of the iteration.
LEMMA IteratesAt ==
  ASSUME NEW S, NEW p, NEW g, Iterates(g, S, p), NEW s \in SUBSET S
  PROVE  /\ s = {} => g[s] = 0
         /\ s # {} => g[s] = Qty[Some(s)][p] + g[s \ {Some(s)}]
<1>1. g = [u \in SUBSET S |-> IF u = {} THEN 0 ELSE Qty[Some(u)][p] + g[u \ {Some(u)}]]
  BY DEF Iterates
<1>2. g[s] = IF s = {} THEN 0 ELSE Qty[Some(s)][p] + g[s \ {Some(s)}]
  BY <1>1, Zenon
<1> QED
  BY <1>2, Zenon

\* Two iterations agree where both are defined.
LEMMA IteratesAgree ==
  ASSUME NEW S, IsFiniteSet(S), NEW T, NEW p, NEW g, NEW h,
         Iterates(g, S, p), Iterates(h, T, p)
  PROVE  \A s \in SUBSET S : s \in SUBSET T => g[s] = h[s]
<1> DEFINE B == {s \in SUBSET S : s \in SUBSET T /\ g[s] # h[s]}
<1> SUFFICES ASSUME B # {} PROVE FALSE
  OBVIOUS
<1>0. B \in SUBSET (SUBSET S)
  OBVIOUS
<1>1. PICK s \in B : \A u \in SUBSET s : u # s => u \notin B
  <2> HIDE DEF B
  <2> QED
    BY <1>0, LeastSet
<1>2. s # {}
  <2>1. s \in SUBSET S /\ s \in SUBSET T /\ g[s] # h[s]
    BY <1>1
  <2> QED
    BY <2>1, IteratesAt
<1>3. Some(s) \in s
  BY <1>2, SomeIn
<1>4. g[s \ {Some(s)}] = h[s \ {Some(s)}]
  BY <1>1, <1>3
<1>5. g[s] = h[s]
  BY <1>1, <1>2, <1>4, IteratesAt
<1> QED
  BY <1>1, <1>5

\* An iteration over S computes the units of every subset of S.
LEMMA UnitsIterates ==
  ASSUME NEW S, IsFiniteSet(S), NEW p, NEW g, Iterates(g, S, p), NEW U \in SUBSET S
  PROVE  Units(U, p) = g[U]
<1> DEFINE f == [s \in SUBSET U |-> g[s]]
<1>1. \A s \in SUBSET U : s # {} => s \ {Some(s)} \in SUBSET U
  OBVIOUS
<1>2. \A s \in SUBSET U : f[s] = IF s = {} THEN 0 ELSE Qty[Some(s)][p] + f[s \ {Some(s)}]
  BY <1>1, IteratesAt
<1>2a. f = [s \in SUBSET U |-> f[s]]
  OBVIOUS
<1>3. Iterates(f, U, p)
  <2> HIDE DEF f
  <2> QED
    BY <1>2, <1>2a DEF Iterates
<1> DEFINE h == CHOOSE x : Iterates(x, U, p)
<1>4. Iterates(h, U, p)
  BY <1>3, Zenon
<1>5. IsFiniteSet(U)
  BY FS_Subset
<1>6. h[U] = f[U]
  <2> HIDE DEF h, f
  <2> QED
    BY <1>3, <1>4, <1>5, IteratesAgree
<1> QED
  BY <1>6, UnitsDef

\* Every finite set has one: glue the sums of the smaller sets together.
LEMMA IterationExists ==
  ASSUME NEW S, IsFiniteSet(S), NEW p
  PROVE  \E g : Iterates(g, S, p)
<1> DEFINE B == {T \in SUBSET S : ~ \E g : Iterates(g, T, p)}
<1> SUFFICES ASSUME B # {} PROVE FALSE
  OBVIOUS
<1>0. B \in SUBSET (SUBSET S)
  OBVIOUS
<1>1. PICK T \in B : \A U \in SUBSET T : U # T => U \notin B
  <2> HIDE DEF B
  <2> QED
    BY <1>0, LeastSet
<1>2. ASSUME NEW u \in SUBSET T, u # T
      PROVE  /\ u = {} => Units(u, p) = 0
             /\ u # {} => Units(u, p) = Qty[Some(u)][p] + Units(u \ {Some(u)}, p)
  <2>1. PICK g : Iterates(g, u, p)
    BY <1>1, <1>2
  <2>2. IsFiniteSet(u)
    BY FS_Subset
  <2>3. Units(u, p) = g[u]
    BY <2>1, <2>2, UnitsIterates
  <2>4. Units(u \ {Some(u)}, p) = g[u \ {Some(u)}]
    BY <2>1, <2>2, UnitsIterates
  <2> QED
    BY <2>1, <2>3, <2>4, IteratesAt
<1> DEFINE G == [s \in SUBSET T |-> IF s = {} THEN 0 ELSE Qty[Some(s)][p] + Units(s \ {Some(s)}, p)]
<1>3. \A s \in SUBSET T : s # {} => s \ {Some(s)} \in SUBSET T /\ s \ {Some(s)} # T
  BY SomeIn
<1>4. \A s \in SUBSET T : s # {} => G[s \ {Some(s)}] = Units(s \ {Some(s)}, p)
  <2> SUFFICES ASSUME NEW s \in SUBSET T, s # {}
               PROVE G[s \ {Some(s)}] = Units(s \ {Some(s)}, p)
    OBVIOUS
  <2> DEFINE u == s \ {Some(s)}
  <2>1. u \in SUBSET T /\ u # T
    BY <1>3
  <2>2. G[u] = Units(u, p)
    <3> HIDE DEF u
    <3>1. G[u] = IF u = {} THEN 0 ELSE Qty[Some(u)][p] + Units(u \ {Some(u)}, p)
      BY <2>1
    <3> QED
      BY <2>1, <3>1, <1>2
  <2> QED
    BY <2>2
<1>5. \A s \in SUBSET T : G[s] = IF s = {} THEN 0 ELSE Qty[Some(s)][p] + G[s \ {Some(s)}]
  <2>1. \A s \in SUBSET T : G[s] = IF s = {} THEN 0 ELSE Qty[Some(s)][p] + Units(s \ {Some(s)}, p)
    OBVIOUS
  <2> HIDE DEF G
  <2> QED
    BY <1>4, <2>1
<1>6. G = [s \in SUBSET T |-> G[s]]
  OBVIOUS
<1>7. Iterates(G, T, p)
  <2> HIDE DEF G
  <2> QED
    BY <1>5, <1>6 DEF Iterates
<1> QED
  BY <1>1, <1>7

\* The recursion equation of Units.
LEMMA UnitsSome ==
  ASSUME NEW S, IsFiniteSet(S), NEW p
  PROVE  /\ S = {} => Units(S, p) = 0
         /\ S # {} => Units(S, p) = Qty[Some(S)][p] + Units(S \ {Some(S)}, p)
<1>1. PICK g : Iterates(g, S, p)
  BY IterationExists
<1>2. Units(S, p) = g[S] /\ Units(S \ {Some(S)}, p) = g[S \ {Some(S)}]
  BY <1>1, UnitsIterates
<1>3. /\ S = {} => g[S] = 0
      /\ S # {} => g[S] = Qty[Some(S)][p] + g[S \ {Some(S)}]
  BY <1>1, IteratesAt
<1> QED
  BY <1>2, <1>3, Zenon

\* A sum of natural numbers is one.
LEMMA UnitsNat ==
  ASSUME NEW S \in SUBSET Keys, IsFiniteSet(S), NEW p \in Products
  PROVE  Units(S, p) \in Nat
<1> DEFINE B == {T \in SUBSET S : Units(T, p) \notin Nat}
<1> SUFFICES ASSUME B # {} PROVE FALSE
  OBVIOUS
<1>0. B \in SUBSET (SUBSET S)
  OBVIOUS
<1>1. PICK T \in B : \A U \in SUBSET T : U # T => U \notin B
  <2> HIDE DEF B
  <2> QED
    BY <1>0, LeastSet
<1>2. IsFiniteSet(T)
  BY FS_Subset
<1>3. CASE T = {}
  <2>1. Units(T, p) = 0
    BY <1>2, <1>3, UnitsSome
  <2> QED
    BY <1>1, <2>1
<1>4. CASE T # {}
  <2>1. Some(T) \in T
    BY <1>4, SomeIn
  <2>2. Units(T \ {Some(T)}, p) \in Nat
    BY <1>1, <2>1
  <2>3. Qty[Some(T)][p] \in Nat
    BY <2>1, InputsAssumption
  <2>4. Units(T, p) = Qty[Some(T)][p] + Units(T \ {Some(T)}, p)
    BY <1>2, <1>4, UnitsSome
  <2>5. Units(T, p) \in Nat
    BY <2>2, <2>3, <2>4
  <2> QED
    BY <1>1, <2>5
<1> QED
  BY <1>3, <1>4

\* The sum does not depend on the order in which elements are taken.
LEMMA UnitsRemove ==
  ASSUME NEW S \in SUBSET Keys, IsFiniteSet(S), NEW x \in S, NEW p \in Products
  PROVE  Units(S, p) = Qty[x][p] + Units(S \ {x}, p)
<1> DEFINE B == {T \in SUBSET S : \E y \in T : Units(T, p) # Qty[y][p] + Units(T \ {y}, p)}
<1> SUFFICES ASSUME B # {} PROVE FALSE
  OBVIOUS
<1>0. B \in SUBSET (SUBSET S)
  OBVIOUS
<1>1. PICK T \in B : \A U \in SUBSET T : U # T => U \notin B
  <2> HIDE DEF B
  <2> QED
    BY <1>0, LeastSet
<1>2. PICK y \in T : Units(T, p) # Qty[y][p] + Units(T \ {y}, p)
  BY <1>1
<1> DEFINE z == Some(T)
<1>3. z \in T
  BY <1>2, SomeIn
<1>4. Units(T, p) = Qty[z][p] + Units(T \ {z}, p)
  BY <1>2, UnitsSome, FS_Subset
<1> HIDE DEF z
<1>5. y # z
  BY <1>2, <1>4
<1>6. Units(T \ {z}, p) = Qty[y][p] + Units((T \ {z}) \ {y}, p)
  BY <1>1, <1>3, <1>5
<1>7. Units(T \ {y}, p) = Qty[z][p] + Units((T \ {y}) \ {z}, p)
  BY <1>1, <1>3, <1>5
<1>8. (T \ {y}) \ {z} = (T \ {z}) \ {y}
  OBVIOUS
<1>9. Qty[y][p] \in Nat /\ Qty[z][p] \in Nat /\ Units((T \ {z}) \ {y}, p) \in Nat
  <2>1. (T \ {z}) \ {y} \in SUBSET S
    OBVIOUS
  <2>2. IsFiniteSet((T \ {z}) \ {y})
    BY <2>1, FS_Subset
  <2>3. Units((T \ {z}) \ {y}, p) \in Nat
    BY <2>1, <2>2, UnitsNat
  <2> QED
    BY <1>3, <2>3, InputsAssumption
<1> DEFINE rest == Units((T \ {z}) \ {y}, p)
<1>10. /\ Units(T, p) = Qty[z][p] + (Qty[y][p] + rest)
       /\ Units(T \ {y}, p) = Qty[z][p] + rest
  BY <1>4, <1>6, <1>7, <1>8, Zenon
<1>11. \A a, b, c \in Nat : a + (b + c) = b + (a + c)
  OBVIOUS
<1>12. rest \in Nat
  BY <1>9
<1> HIDE DEF rest
<1>13. Units(T, p) = Qty[y][p] + Units(T \ {y}, p)
  <2>1. Qty[z][p] + (Qty[y][p] + rest) = Qty[y][p] + (Qty[z][p] + rest)
    BY <1>9, <1>11, <1>12
  <2> QED
    BY <1>10, <2>1, Zenon
<1> QED
  BY <1>2, <1>13

\* Adding an order adds its units.
LEMMA UnitsAdd ==
  ASSUME NEW S \in SUBSET Keys, IsFiniteSet(S), NEW x \in Keys, x \notin S,
         NEW p \in Products
  PROVE  Units(S \cup {x}, p) = Qty[x][p] + Units(S, p)
<1>1. IsFiniteSet(S \cup {x})
  BY FS_AddElement
<1>2. (S \cup {x}) \ {x} = S
  OBVIOUS
<1>3. Units(S \cup {x}, p) = Qty[x][p] + Units((S \cup {x}) \ {x}, p)
  BY <1>1, UnitsRemove
<1> QED
  BY <1>2, <1>3

-----------------------------------------------------------------------------
(* The stock columns as sums over order rows.                               *)

Paid     == {k \in Keys : payment[k].status \in {"succeeded", "refunded"}}
Reserved == {k \in Keys : order[k] = "reserved"}

\* Only finitely many orders exist at any time, whatever the set of keys.
RowsFinite == IsFiniteSet({k \in Keys : order[k] # "none"})

\* A step creates at most one row, and none disappears.
LEMMA RowsStep ==
  ASSUME TypeOK, RowsFinite, [Next]_vars
  PROVE  RowsFinite'
<1> KeyOf \in [Handlers -> Keys]
  BY InputsAssumption
<1>1. \/ order' = order
      \/ \E k \in Keys, s \in Status : order' = [order EXCEPT ![k] = s]
  <2>1. ASSUME NEW r \in Requests, PlaceStep(r) \/ Disconnect(r)
        PROVE  \/ order' = order
               \/ \E k \in Keys, s \in Status : order' = [order EXCEPT ![k] = s]
    <3>1. KeyOf[r] \in Keys
      BY DEF Handlers
    <3>2. CASE ReserveTx(r) \/ SettlePaid(r) \/ SettleDeclined(r)
      <4>1. {"reserved", "fulfilled", "failed"} \subseteq Status
        BY DEF Status
      <4> QED
        BY <3>1, <3>2, <4>1 DEF ReserveTx, SettlePaid, SettleDeclined, UpdateOrder
    <3>3. CASE ~(ReserveTx(r) \/ SettlePaid(r) \/ SettleDeclined(r))
      BY <2>1, <3>3
         DEF PlaceStep, Disconnect, LookupFound, LookupMissed, BuildRejected, Build,
           Submit, SubmitRefused, StartTask, ReserveDuplicate, ReserveOutOfStock,
           ReserveError, StartPayment, StartPaymentRefused, ChargeSucceeds,
           ChargeRetried, ChargeExhausted, SettleConflict, SettleError, Publish, db
    <3> QED
      BY <3>2, <3>3
  <2>2. ASSUME NEW c \in Cancels, CancelStep(c)
        PROVE  \/ order' = order
               \/ \E k \in Keys, s \in Status : order' = [order EXCEPT ![k] = s]
    <3>1. KeyOf[c] \in Keys /\ "cancelled" \in Status
      BY DEF Handlers, Status
    <3> QED
      BY <2>2, <3>1
         DEF CancelStep, CancelRead, CancelTx, CancelRefused, Publish, UpdateOrder, db
  <2>3. ASSUME NEW a \in Admins, AdminStep(a)
        PROVE  \/ order' = order
               \/ \E k \in Keys, s \in Status : order' = [order EXCEPT ![k] = s]
    <3>1. KeyOf[a] \in Keys /\ mem[a] \in Status
      BY DEF Handlers, TypeOK
    <3> QED
      BY <2>3, <3>1 DEF AdminStep, AdminRead, AdminWrite, AdminError, UpdateOrder, db
  <2> QED
    BY <2>1, <2>2, <2>3 DEF Next, StopPool, Crash, Quiescent, vars, db
<1>2. CASE order' = order
  BY <1>2 DEF RowsFinite
<1>3. ASSUME NEW k \in Keys, NEW s \in Status, order' = [order EXCEPT ![k] = s]
      PROVE  RowsFinite'
  <2>1. {j \in Keys : order'[j] # "none"} \in SUBSET ({j \in Keys : order[j] # "none"} \cup {k})
    BY <1>3 DEF TypeOK
  <2>2. IsFiniteSet({j \in Keys : order[j] # "none"} \cup {k})
    BY FS_AddElement DEF RowsFinite
  <2>3. IsFiniteSet({j \in Keys : order'[j] # "none"})
    BY <2>1, <2>2, FS_Subset
  <2> QED
    BY <2>3 DEF RowsFinite
<1> QED
  BY <1>1, <1>2, <1>3

\* Before the row exists there is no payment, so finitely many orders are paid.
LEMMA SetsFinite ==
  ASSUME OwnerInv, RowsFinite
  PROVE  /\ Paid \in SUBSET Keys /\ IsFiniteSet(Paid)
         /\ Reserved \in SUBSET Keys /\ IsFiniteSet(Reserved)
<1> DEFINE Rows == {k \in Keys : order[k] # "none"}
<1>1. Paid \in SUBSET Rows /\ Reserved \in SUBSET Rows
  BY DEF Paid, Reserved, OwnerInv, NoPayment
<1>2. IsFiniteSet(Rows)
  BY DEF RowsFinite
<1>3. IsFiniteSet(Paid) /\ IsFiniteSet(Reserved)
  BY <1>1, <1>2, FS_Subset
<1> QED
  BY <1>1, <1>3

\* Only SettlePaid commits stock, and it inserts the payment row with it; a
\* cancellation turns a succeeded row into a refunded one.
LEMMA PaidSteps ==
  ASSUME TypeOK, [Next]_vars
  PROVE  \/ UNCHANGED <<sold, Paid>>
         \/ \E k \in Keys \ Paid :
              /\ Paid' = Paid \cup {k}
              /\ sold' = [p \in Products |-> sold[p] + Qty[k][p]]
<1> KeyOf \in [Handlers -> Keys]
  BY InputsAssumption
<1>1. ASSUME NEW r \in Requests, SettlePaid(r)
      PROVE  \E k \in Keys \ Paid :
               /\ Paid' = Paid \cup {k}
               /\ sold' = [p \in Products |-> sold[p] + Qty[k][p]]
  <2>1. /\ KeyOf[r] \in Keys
        /\ payment[KeyOf[r]] = NoPayment
        /\ payment' = [payment EXCEPT ![KeyOf[r]] =
                         [status |-> "succeeded", attempts |-> attempt[r]]]
        /\ sold' = [p \in Products |-> sold[p] + Qty[KeyOf[r]][p]]
    BY <1>1 DEF SettlePaid, InsertPayment, Commit, Handlers
  <2>2. KeyOf[r] \notin Paid /\ Paid' = Paid \cup {KeyOf[r]}
    BY <2>1 DEF Paid, NoPayment, TypeOK
  <2> QED
    BY <2>1, <2>2
<1>2. ASSUME NEW r \in Requests, SettleDeclined(r)
      PROVE  UNCHANGED <<sold, Paid>>
  <2>1. /\ payment[KeyOf[r]] = NoPayment
        /\ payment' = [payment EXCEPT ![KeyOf[r]] =
                         [status |-> "failed", attempts |-> attempt[r]]]
        /\ sold' = sold
    BY <1>2 DEF SettleDeclined, InsertPayment, Release
  <2>2. Paid' = Paid
    BY <2>1 DEF Paid, NoPayment, TypeOK
  <2> QED
    BY <2>1, <2>2
<1>3. ASSUME NEW r \in Requests, PlaceStep(r) \/ Disconnect(r),
             ~SettlePaid(r), ~SettleDeclined(r)
      PROVE  UNCHANGED <<sold, payment>>
  BY <1>3
     DEF PlaceStep, Disconnect, LookupFound, LookupMissed, BuildRejected, Build,
         Submit, SubmitRefused, StartTask, ReserveTx, Reserve, ReserveDuplicate,
         ReserveOutOfStock, ReserveError, StartPayment, StartPaymentRefused,
         ChargeSucceeds, ChargeRetried, ChargeExhausted, SettleConflict, SettleError,
         Publish, db
<1>4. ASSUME NEW c \in Cancels, CancelStep(c)
      PROVE  UNCHANGED <<sold, Paid>>
  <2>1. CASE CancelTx(c)
    <3>1. sold' = sold
      BY <2>1 DEF CancelTx, Release
    <3>2. \/ payment' = payment
          \/ /\ payment[KeyOf[c]].status = "succeeded"
             /\ payment' = [payment EXCEPT ![KeyOf[c]].status = "refunded"]
      BY <2>1 DEF CancelTx, CancelCommits
    <3>3. Paid' = Paid
      BY <3>2 DEF Paid, TypeOK
    <3> QED
      BY <3>1, <3>3
  <2> QED
    BY <1>4, <2>1 DEF CancelStep, CancelRead, CancelRefused, Publish, Paid, db
<1>5. ASSUME NEW a \in Admins, AdminStep(a)
      PROVE  UNCHANGED <<sold, payment>>
  BY <1>5 DEF AdminStep, AdminRead, AdminWrite, AdminError, db
<1>6. CASE StopPool \/ Crash \/ UNCHANGED vars
  BY <1>6 DEF StopPool, Crash, vars, db, Paid
<1>7. UNCHANGED payment => UNCHANGED Paid
  BY DEF Paid
<1> QED
  BY <1>1, <1>2, <1>3, <1>4, <1>5, <1>6, <1>7 DEF Next, Quiescent

\* The units that left are those of the paid orders, for any number of orders,
\* products and units: the ledger and the payments cannot drift apart.
THEOREM SoldUnitsArePaidFor == Spec => []SoldIsPaidFor
<1> DEFINE Ledger == \A p \in Products : sold[p] = Units(Paid, p)
<1>1. Init => RowsFinite /\ Ledger
  <2> SUFFICES ASSUME Init PROVE RowsFinite /\ Ledger
    OBVIOUS
  <2>1. {k \in Keys : order[k] # "none"} = {} /\ Paid = {}
    BY DEF Init, Paid, NoPayment
  <2>2. IsFiniteSet({})
    BY FS_EmptySet
  <2>3. \A p \in Products : Units({}, p) = 0
    BY <2>2, UnitsSome
  <2> QED
    BY <2>1, <2>2, <2>3 DEF Init, RowsFinite
<1>2. PaymentInv /\ RowsFinite /\ Ledger /\ [Next]_vars => RowsFinite' /\ Ledger'
  <2> SUFFICES ASSUME PaymentInv, RowsFinite, Ledger, [Next]_vars
               PROVE  RowsFinite' /\ Ledger'
    OBVIOUS
  <2>1. TypeOK /\ OwnerInv
    BY DEF PaymentInv
  <2>2. RowsFinite'
    BY <2>1, RowsStep
  <2>3. CASE UNCHANGED <<sold, Paid>>
    BY <2>2, <2>3
  <2>4. ASSUME NEW k \in Keys \ Paid, Paid' = Paid \cup {k},
               sold' = [p \in Products |-> sold[p] + Qty[k][p]]
        PROVE  Ledger'
    <3> SUFFICES ASSUME NEW p \in Products PROVE sold'[p] = Units(Paid', p)
      OBVIOUS
    <3>1. Units(Paid \cup {k}, p) = Qty[k][p] + Units(Paid, p)
      BY <2>1, SetsFinite, UnitsAdd
    <3>2. sold'[p] = Units(Paid, p) + Qty[k][p]
      BY <2>4
    <3>3. Units(Paid, p) \in Nat /\ Qty[k][p] \in Nat
      BY <2>1, SetsFinite, UnitsNat, InputsAssumption
    <3> QED
      BY <2>4, <3>1, <3>2, <3>3
  <2> QED
    BY <2>1, <2>2, <2>3, <2>4, PaidSteps
<1>3. Ledger => SoldIsPaidFor
  BY DEF SoldIsPaidFor, Paid
<1> QED
  BY <1>1, <1>2, <1>3, PaymentInvHolds, PTL DEF Spec

\* Units taken from the initial stock and neither available nor sold.
Held(p) == InitStock[p] - available[p] - sold[p]

\* A lifecycle step changes what is held as it changes the reserved orders.
LEMMA HeldStep ==
  ASSUME PaymentInv, TypeOK', RowsFinite, RowsFinite',
         [Lifecycle!Next]_(Lifecycle!lifecycleVars),
         NEW p \in Products, Held(p) = Units(Reserved, p)
  PROVE  Held(p)' = Units(Reserved', p)
<1> TypeOK /\ OwnerInv
  BY DEF PaymentInv
<1>t. /\ InitStock[p] \in Int /\ available[p] \in Int /\ sold[p] \in Int
      /\ available'[p] \in Int /\ sold'[p] \in Int
  BY InputsAssumption DEF TypeOK
<1>u. Units(Reserved, p) \in Nat /\ Units(Reserved', p) \in Nat
  <2>1. Reserved' \in SUBSET {k \in Keys : order'[k] # "none"}
    BY DEF Reserved
  <2>2. IsFiniteSet({k \in Keys : order'[k] # "none"})
    BY DEF RowsFinite
  <2>3. IsFiniteSet(Reserved') /\ Reserved' \in SUBSET Keys
    BY <2>1, <2>2, FS_Subset
  <2>4. Units(Reserved', p) \in Nat
    BY <2>3, UnitsNat
  <2> QED
    BY <2>4, SetsFinite, UnitsNat
<1>1. ASSUME NEW k \in Keys, Lifecycle!Place(k)
      PROVE  Held(p)' = Units(Reserved', p)
  <2>1. k \notin Reserved /\ Reserved' = Reserved \cup {k}
    BY <1>1 DEF Lifecycle!Place, Reserved, TypeOK
  <2>2. Units(Reserved', p) = Qty[k][p] + Units(Reserved, p)
    BY <2>1, SetsFinite, UnitsAdd
  <2>3. available'[p] = available[p] - Qty[k][p] /\ sold'[p] = sold[p]
    BY <1>1 DEF Lifecycle!Place
  <2>4. Qty[k][p] \in Nat
    BY InputsAssumption
  <2> QED
    BY <1>t, <1>u, <2>2, <2>3, <2>4 DEF Held
<1>2. ASSUME NEW k \in Keys, NEW s \in {"failed", "cancelled"},
             Lifecycle!Fulfil(k) \/ Lifecycle!GiveUp(k, s)
      PROVE  Held(p)' = Units(Reserved', p)
  <2>1. k \in Reserved /\ Reserved' = Reserved \ {k}
    BY <1>2 DEF Lifecycle!Fulfil, Lifecycle!GiveUp, Reserved, TypeOK
  <2>2. Units(Reserved, p) = Qty[k][p] + Units(Reserved', p)
    BY <2>1, SetsFinite, UnitsRemove
  <2>3. \/ available'[p] = available[p] /\ sold'[p] = sold[p] + Qty[k][p]
        \/ available'[p] = available[p] + Qty[k][p] /\ sold'[p] = sold[p]
    BY <1>2 DEF Lifecycle!Fulfil, Lifecycle!GiveUp
  <2>4. Qty[k][p] \in Nat
    BY InputsAssumption
  <2>5. CASE available'[p] = available[p] /\ sold'[p] = sold[p] + Qty[k][p]
    BY <1>t, <1>u, <2>2, <2>4, <2>5 DEF Held
  <2>6. CASE available'[p] = available[p] + Qty[k][p] /\ sold'[p] = sold[p]
    BY <1>t, <1>u, <2>2, <2>4, <2>6 DEF Held
  <2> QED
    BY <2>3, <2>5, <2>6
<1>3. CASE UNCHANGED Lifecycle!lifecycleVars
  BY <1>3 DEF Lifecycle!lifecycleVars, Held, Reserved
<1> QED
  BY <1>1, <1>2, <1>3 DEF Lifecycle!Next

\* With PlaceOrder alone the reserved column is exactly the units of the reserved
\* orders, through every rollback, disconnect and crash: no reservation leaks.
THEOREM ReservationsAreExact ==
  ASSUME Cancels = {}, Admins = {}
  PROVE  Spec => []ReservationsExact
<1> DEFINE Exact == \A p \in Products : Held(p) = Units(Reserved, p)
<1> DEFINE I == OwnedIsReserved /\ RowsFinite /\ Exact
<1>1. Init => I
  <2> SUFFICES ASSUME Init PROVE I
    OBVIOUS
  <2>1. {k \in Keys : order[k] # "none"} = {} /\ Reserved = {}
    BY DEF Init, Reserved
  <2>2. IsFiniteSet({})
    BY FS_EmptySet
  <2>3. \A p \in Products : Units({}, p) = 0
    BY <2>2, UnitsSome
  <2>4. \A p \in Products : Held(p) = 0
    BY InputsAssumption DEF Init, Held
  <2>5. OwnedIsReserved
    BY DEF Init, OwnedIsReserved, Owns, Handlers
  <2> QED
    BY <2>1, <2>2, <2>3, <2>4, <2>5 DEF RowsFinite
<1>2. PaymentInv /\ PaymentInv' /\ I /\ [Next]_vars => I'
  <2> SUFFICES ASSUME PaymentInv, PaymentInv', I, [Next]_vars
               PROVE  I'
    OBVIOUS
  <2>1. TypeOK /\ TypeOK'
    BY DEF PaymentInv
  <2>2. RowsFinite'
    BY <2>1, RowsStep
  <2>3. OwnedIsReserved' /\ [Lifecycle!Next]_(Lifecycle!lifecycleVars)
    BY LifecycleStep
  <2>4. \A p \in Products : Held(p)' = Units(Reserved', p)
    BY <2>1, <2>2, <2>3, HeldStep
  <2> QED
    BY <2>2, <2>3, <2>4
<1>3. TypeOK /\ StockConserved /\ I => ReservationsExact
  <2> SUFFICES ASSUME TypeOK, StockConserved, I, NEW p \in Products
               PROVE  reserved[p] = Units(Reserved, p)
    BY DEF ReservationsExact, Reserved
  <2>1. reserved[p] = Held(p)
    BY InputsAssumption DEF TypeOK, StockConserved, Held
  <2> QED
    BY <2>1
<1>4. PaymentInv => TypeOK
  BY DEF PaymentInv
<1> QED
  BY <1>1, <1>2, <1>3, <1>4, PaymentInvHolds, StockIsConserved, PTL DEF Spec
=============================================================================
