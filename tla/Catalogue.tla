----------------------------- MODULE Catalogue -----------------------------
(* Products and their inventory rows: the commands and queries behind       *)
(* /products, and the seed program, which runs beside the service without a *)
(* transaction, may be killed between two statements and may be run again.  *)

EXTENDS Accounts, Money, FiniteSetsExt, TLC

CONSTANTS
  SeedUsers,     \* users of the seed program, in order
  SeedProducts,  \* products of the seed program, in order
  PageSize,      \* rows of a page, the report's and the largest a client gets
  WideCodes      \* currency codes of three characters and more than three bytes

ASSUME CodesAssumption == WideCodes \subseteq STRING /\ WideCodes \cap Currencies = {}

VARIABLES
  products,    \* the products table; a row's id is its position
  inventory,   \* the inventories table: units and reorder level by product id
  seed,        \* the seed program: its statement, and the entry it is at
  seedsLeft,   \* bound: runs of the seed program still to come
  \* history
  commits,     \* updates in the order they were written: product, columns, reads before
  interrupted  \* products whose seeding was cut off before the inventory row

catalogueVars == <<products, inventory, seed, seedsLeft, commits, interrupted>>
seedVars == <<seed, seedsLeft, interrupted>>

Skus == {products[i].sku : i \in DOMAIN products}

\* The columns of the rows.
ProductRows == [sku : STRING, name : STRING, price : Int, currency : STRING, active : BOOLEAN]
InventoryRows == [available : Nat, reserved : Nat, reorder : Int]

\* NewInventory, and Save for a product that has no row.
NewInventory(stock, reorder) == [available |-> stock, reserved |-> 0, reorder |-> reorder]
SaveInventory(p, row) ==
  inventory' = [q \in DOMAIN inventory \cup {p} |-> IF q = p THEN row ELSE inventory[q]]

-----------------------------------------------------------------------------

\* The binding's len=3 counts characters, where NewMoney counts bytes.
Codes == Currencies \cup WideCodes

BindsProduct(r) ==
  r.sku # "" /\ r.name # "" /\ r.price >= 0 /\ r.currency \in Codes /\ r.stock >= 0 /\ r.reorder >= 0

\* The binding, and then NewMoney in the command; NewProduct adds nothing.
Accepts(r) == BindsProduct(r) /\ ValidMoney(r.price, r.currency)

ProductRow(r) == [sku |-> r.sku, name |-> r.name, price |-> r.price, currency |-> r.currency, active |-> TRUE]

\* Variant: the product stays when its inventory row cannot be written.
CreateProductTxParts(c) ==
  /\ products' = Append(products, ProductRow(call[c]))
  /\ \/ SaveInventory(Len(products) + 1, NewInventory(call[c].stock, call[c].reorder)) /\ Reply(c, 201)
     \/ UNCHANGED inventory /\ Fail(c, "internal")

\* Both rows in one transaction.
CreateProductTx(c) ==
  /\ products' = Append(products, ProductRow(call[c]))
  /\ SaveInventory(Len(products) + 1, NewInventory(call[c].stock, call[c].reorder))
  /\ Reply(c, 201)

\* The unique index on sku refuses a duplicate with an error of no kind.
CreateProduct(c) ==
  /\ At(c, {"createProduct"}, "handler")
  /\ \/ /\ ~Accepts(call[c])
        /\ Fail(c, "validation") /\ UNCHANGED <<products, inventory>>
     \/ /\ Accepts(call[c]) /\ call[c].sku \in Skus
        /\ Fail(c, "internal") /\ UNCHANGED <<products, inventory>>
     \/ /\ Accepts(call[c]) /\ call[c].sku \notin Skus
        /\ CreateProductTx(c)
  /\ UNCHANGED <<limited, call, tokens, users, seedVars, commits, limitVars>>

\* productIDFrom, then FindByID, which builds the price with MustMoney.
FindProduct(id) ==
  CASE id = 0 -> "validation"
    [] id # 0 /\ id \notin DOMAIN products -> "not_found"
    [] id \in DOMAIN products /\ ~ValidMoney(products[id].price, products[id].currency) -> "panic"
    [] OTHER -> ""

\* Columns an update sets: never the description, and the currency only
\* together with a price.
Columns(set) ==
  (DOMAIN set \ {"description"}) \ (IF "price" \in DOMAIN set THEN {} ELSE {"currency"})

Updated(row, set) == [f \in DOMAIN row |-> IF f \in Columns(set) THEN set[f] ELSE row[f]]

BindsUpdate(set) ==
  /\ "price" \in DOMAIN set => set.price >= 0
  /\ "currency" \in DOMAIN set => set.currency \in Codes

\* Rename refuses an empty name, NewMoney the price with its own or the row's
\* currency.
Applies(row, set) ==
  /\ "name" \in DOMAIN set => set.name # ""
  /\ "price" \in DOMAIN set => ValidMoney(set.price, Updated(row, set).currency)

UpdateProductRead(c) ==
  /\ At(c, {"updateProduct"}, "handler")
  /\ LET why == IF ~BindsUpdate(call[c].set) THEN "validation" ELSE FindProduct(call[c].id) IN
     CASE why # "" -> Refuse(c, why)
       [] why = "" /\ ~Applies(products[call[c].id], call[c].set) -> Fail(c, "validation")
       [] OTHER -> GoOn(c, "apply", [row |-> products[call[c].id], readAt |-> Len(commits)])
  /\ UNCHANGED <<limited, call, tokens, users, catalogueVars, limitVars>>

\* Variant: an update that does not say so switches the product on.
UpdateProductSaveActivates(c) ==
  /\ At(c, {"updateProduct"}, "apply")
  /\ products' = [products EXCEPT ![call[c].id] = [Updated(mem[c].row, call[c].set) EXCEPT !.active = TRUE]]
  /\ commits' = Append(commits, [id |-> call[c].id, set |-> call[c].set, readAt |-> mem[c].readAt])
  /\ Reply(c, 200)
  /\ UNCHANGED <<limited, call, tokens, users, inventory, seedVars, limitVars>>

\* All columns of the copy are written back, the ones read included.
UpdateProductSave(c) ==
  /\ At(c, {"updateProduct"}, "apply")
  /\ products' = [products EXCEPT ![call[c].id] = Updated(mem[c].row, call[c].set)]
  /\ commits' = Append(commits, [id |-> call[c].id, set |-> call[c].set, readAt |-> mem[c].readAt])
  /\ Reply(c, 200)
  /\ UNCHANGED <<limited, call, tokens, users, inventory, seedVars, limitVars>>

GetProduct(c) ==
  /\ At(c, {"getProduct"}, "handler")
  /\ LET why == FindProduct(call[c].id) IN IF why = "" THEN Reply(c, 200) ELSE Refuse(c, why)
  /\ UNCHANGED <<limited, call, tokens, users, catalogueVars, limitVars>>

\* Page and size default when absent or not positive.  A query with OFFSET and
\* LIMIT returns as many of the ids as there are after the offset, up to the
\* limit: which ones, and in which order, is open, as no query has an ORDER BY.
Offset(number, size) == (IF number <= 0 THEN 0 ELSE number - 1) * size
RowsLeft(n, offset, size) == IF n <= offset THEN 0 ELSE IF n - offset < size THEN n - offset ELSE size
Pages(ids, number, size) ==
  {page \in [1 .. RowsLeft(Cardinality(ids), Offset(number, size), size) -> ids] :
     \A i, j \in DOMAIN page : page[i] = page[j] => i = j}

ListProducts(c) ==
  /\ At(c, {"listProducts"}, "handler")
  /\ \E page \in Pages(DOMAIN products, call[c].page, PageSize) :
       IF \A i \in DOMAIN page : ValidMoney(products[page[i]].price, products[page[i]].currency)
       THEN Reply(c, 200)
       ELSE Panic(c)
  /\ UNCHANGED <<limited, call, tokens, users, catalogueVars, limitVars>>

\* GET /products/:id/inventory looks for the inventory row only.
GetInventory(c) ==
  /\ At(c, {"getInventory"}, "handler")
  /\ CASE call[c].id = 0 -> Fail(c, "validation")
       [] call[c].id \in DOMAIN inventory -> Reply(c, 200)
       [] OTHER -> Fail(c, "not_found")
  /\ UNCHANGED <<limited, call, tokens, users, catalogueVars, limitVars>>

GetLowStock(c) ==
  /\ At(c, {"lowStock"}, "handler")
  /\ Reply(c, 200)
  /\ UNCHANGED <<limited, call, tokens, users, catalogueVars, limitVars>>

-----------------------------------------------------------------------------
(* cmd/seed: users, then products; each entry is a count, then its inserts. *)

SeedAt(statement, entry) == seed' = [at |-> statement, entry |-> entry]

SeedStart ==
  /\ seed.at = "off" /\ seedsLeft > 0
  /\ SeedAt("countUser", 1)
  /\ seedsLeft' = seedsLeft - 1
  /\ UNCHANGED <<products, inventory, commits, interrupted, users>>

SeedCountUser ==
  /\ seed.at = "countUser"
  /\ IF seed.entry > Len(SeedUsers)
     THEN SeedAt("countProduct", 1)
     ELSE IF SeedUsers[seed.entry].email \in Emails
     THEN SeedAt("countUser", seed.entry + 1)
     ELSE SeedAt("insertUser", seed.entry)
  /\ UNCHANGED <<products, inventory, seedsLeft, commits, interrupted, users>>

\* A registration may have come first: then the program ends with the error.
SeedInsertUser ==
  /\ seed.at = "insertUser"
  /\ InsertUser(NewUser(SeedUsers[seed.entry]))
  /\ IF users' = users THEN SeedAt("off", 0) ELSE SeedAt("countUser", seed.entry + 1)
  /\ UNCHANGED <<products, inventory, seedsLeft, commits, interrupted>>

SeedCountProduct ==
  /\ seed.at = "countProduct"
  /\ IF seed.entry > Len(SeedProducts)
     THEN SeedAt("off", 0)
     ELSE IF SeedProducts[seed.entry].sku \in Skus
     THEN SeedAt("countProduct", seed.entry + 1)
     ELSE SeedAt("insertProduct", seed.entry)
  /\ UNCHANGED <<products, inventory, seedsLeft, commits, interrupted, users>>

SeedInsertProduct ==
  /\ seed.at = "insertProduct"
  /\ IF SeedProducts[seed.entry].sku \in Skus
     THEN SeedAt("off", 0) /\ UNCHANGED products
     ELSE /\ products' = Append(products, ProductRow(SeedProducts[seed.entry]))
          /\ SeedAt("insertInventory", seed.entry)
  /\ UNCHANGED <<inventory, seedsLeft, commits, interrupted, users>>

SeedRowId == CHOOSE p \in DOMAIN products : products[p].sku = SeedProducts[seed.entry].sku

SeedInsertInventory ==
  /\ seed.at = "insertInventory"
  /\ SaveInventory(SeedRowId, NewInventory(SeedProducts[seed.entry].stock,
                                           SeedProducts[seed.entry].reorder))
  /\ SeedAt("countProduct", seed.entry + 1)
  /\ UNCHANGED <<products, seedsLeft, commits, interrupted, users>>

\* The program is killed, or a statement fails.
SeedInterrupted ==
  /\ seed.at # "off"
  /\ interrupted' = IF seed.at = "insertInventory" THEN interrupted \cup {SeedRowId} ELSE interrupted
  /\ SeedAt("off", 0)
  /\ UNCHANGED <<products, inventory, seedsLeft, commits, users>>

SeedStep ==
  /\ \/ SeedStart \/ SeedCountUser \/ SeedInsertUser \/ SeedCountProduct
     \/ SeedInsertProduct \/ SeedInsertInventory \/ SeedInterrupted
  /\ UNCHANGED <<httpVars, limitVars>>

-----------------------------------------------------------------------------

CatalogueStep(c) ==
  \/ CreateProduct(c) \/ UpdateProductRead(c) \/ UpdateProductSave(c)
  \/ GetProduct(c) \/ ListProducts(c) \/ GetInventory(c) \/ GetLowStock(c)

\* An update is undone only by an update that overlapped it: a column that no
\* longer holds what an update wrote was set again, or written back by an
\* update that had read the row before that one was saved.
LostOnlyToOverlap ==
  \A i \in DOMAIN commits : \A f \in Columns(commits[i].set) :
    \/ products[commits[i].id][f] = commits[i].set[f]
    \/ \E j \in i + 1 .. Len(commits) :
         /\ commits[j].id = commits[i].id
         /\ f \in Columns(commits[j].set) \/ commits[j].readAt < i

\* A product that can never be sold, because it has no inventory row, comes
\* only from a seed program cut off between its two inserts.
OrphanOnlyFromInterruptedSeed ==
  \A p \in DOMAIN products :
    \/ p \in DOMAIN inventory \cup interrupted
    \/ seed.at = "insertInventory" /\ p = SeedRowId
=============================================================================
