-------------------------------- MODULE Api --------------------------------
(* The HTTP API: concurrent requests, the database they share and the seed  *)
(* program.  A workload, chosen in the initial state, fixes the requests    *)
(* that clients may send and the rows that are there to begin with.         *)

EXTENDS Orders

CONSTANT Workloads

\* What JSON, the column types and the unique indexes make sure of: the fields
\* of a request, and the rows a workload starts from, which are rows that this
\* code wrote: every product has its inventory row, prices and stock are not
\* negative, currencies are codes that NewMoney takes, and an order's total is
\* the true one unless that overflows.
Sends(r) ==
  /\ r.ip \in IPs
  /\ r.op = "register" => {r.email, r.password, r.name, r.role} \subseteq STRING
  /\ r.op = "updateUser" => r.name \in STRING
  /\ r.op = "createProduct" =>
       {r.sku, r.name, r.currency} \subseteq STRING /\ {r.price, r.stock, r.reorder} \subseteq Int
  /\ r.op = "updateProduct" =>
       /\ DOMAIN r.set \subseteq {"name", "description", "price", "currency", "active"}
       /\ "name" \in DOMAIN r.set => r.set.name \in STRING
       /\ "price" \in DOMAIN r.set => r.set.price \in Int
       /\ "currency" \in DOMAIN r.set => r.set.currency \in STRING
       /\ "active" \in DOMAIN r.set => r.set.active \in BOOLEAN
  /\ r.op = "place" => r.lines \in Seq([product : Nat, quantity : Int])
  /\ r.op \in {"listProducts", "listOrders", "listUserOrders"} => r.page \in Int

ASSUME WorkloadAssumption ==
  /\ IsFiniteSet(Calls)
  /\ \A w \in Workloads :
       /\ DOMAIN w.call \subseteq Calls /\ \A c \in DOMAIN w.call : Sends(w.call[c])
       /\ w.users \in Seq(UserRows) /\ w.products \in Seq(ProductRows)
       /\ \A i, j \in DOMAIN w.users : w.users[i].email = w.users[j].email => i = j
       /\ \A i, j \in DOMAIN w.products : w.products[i].sku = w.products[j].sku => i = j
       /\ \A i \in DOMAIN w.products : w.products[i].price \in Nat /\ w.products[i].currency \in Currencies
       /\ DOMAIN w.products \subseteq DOMAIN w.inventory
       /\ \A p \in DOMAIN w.inventory : w.inventory[p] \in InventoryRows
       /\ w.orders \in Seq(Range(w.orders)) /\ \A i \in DOMAIN w.orders : IsOrder(w.orders[i])
       /\ w.server \in {"up", "stopping"}
  /\ SeedUsers \in Seq(Range(SeedUsers)) /\ SeedProducts \in Seq(Range(SeedProducts))
  /\ \A u \in Range(SeedUsers) : NewUser(u) \in UserRows
  /\ \A p \in Range(SeedProducts) :
       /\ ProductRow(p) \in ProductRows /\ p.price \in Nat /\ p.currency \in Currencies
       /\ NewInventory(p.stock, p.reorder) \in InventoryRows

vars == <<httpVars, limitVars, users, catalogueVars, orderVars>>

\* Statements that may fail with an error of the database or of the request's
\* context, which is of no kind; PlaceLookup handles its own.  A placement that
\* fails on the pool still publishes.
DbFails(c) ==
  /\ \/ /\ pc[c] \in {"handler", "save", "apply", "line", "load", "write", "count", "find"}
        /\ ~At(c, {"ping"}, "handler") /\ ~At(c, {"place"}, "handler")
        /\ Fail(c, "internal")
     \/ /\ pc[c] \in {"reserve", "settle"}
        /\ PublishThen(c, StatusFor.internal)
  /\ UNCHANGED <<limited, call, tokens, limitVars, users, catalogueVars, orderVars>>

Init ==
  \E w \in Workloads :
    /\ limited = w.limited /\ call = w.call
    /\ users = w.users /\ tokens = {[sub |-> i, role |-> w.users[i].role] : i \in DOMAIN w.users}
    /\ products = w.products /\ inventory = w.inventory
    /\ seed = [at |-> "off", entry |-> 0] /\ seedsLeft = w.seeds
    /\ commits = <<>> /\ interrupted = {}
    /\ orders = w.orders /\ payments = [id \in {} |-> ""] /\ server = w.server /\ reports = {}
    /\ HttpInit

Next ==
  \/ \E c \in Calls :
       \/ HttpStep(c) /\ UNCHANGED <<users, catalogueVars, orderVars>>
       \/ AccountStep(c) /\ UNCHANGED <<catalogueVars, orderVars>>
       \/ CatalogueStep(c) /\ UNCHANGED orderVars
       \/ OrderStep(c)
       \/ DbFails(c)
  \/ SeedStep /\ UNCHANGED orderVars
  \/ StopStep
  \/ limited /\ Tick /\ UNCHANGED <<httpVars, users, catalogueVars, orderVars>>

Spec == Init /\ [][Next]_vars

-----------------------------------------------------------------------------

\* Stock is never negative, a product's and an order's currency is a code that
\* NewMoney takes, and an order is in a status the aggregate knows with a total
\* that fits its column.
TypeOK ==
  /\ inFlight \in 0 .. Cardinality(Calls)
  /\ \A c \in Calls : reply[c] \in {0, 200, 201, 429} \cup {StatusFor[k] : k \in DOMAIN StatusFor}
  /\ \A p \in DOMAIN inventory : inventory[p].available \in Nat /\ inventory[p].reserved \in Nat
  /\ \A p \in DOMAIN products : products[p].currency \in Currencies
  /\ \A i \in DOMAIN orders :
       /\ orders[i].status \in Status /\ orders[i].currency \in Currencies
       /\ orders[i].total \in -MaxInt - 1 .. MaxInt
=============================================================================
