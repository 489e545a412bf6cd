------------------------------- MODULE MCApi -------------------------------
(* Workloads for Api: each sends a few requests that meet at the same rows. *)

EXTENDS Api

CONSTANTS c1, c2, c3, c4

MCCalls == {c1, c2, c3, c4}
MCIPs == {"x", "y"}

Admin == [email |-> "a", password |-> "p", name |-> "n", role |-> "admin"]
Bob == [email |-> "b", password |-> "q", name |-> "m", role |-> ""]
Shirt(price) == [sku |-> "s", name |-> "shirt", price |-> price, currency |-> "USD", stock |-> 2, reorder |-> 1]
Mug == [sku |-> "m", name |-> "mug", price |-> 2, currency |-> "EUR", stock |-> 0, reorder |-> 0]

MCSeedUsers == <<Admin, Bob>>
MCSeedProducts == <<Shirt(3), Mug>>

Stock(available, reserved) == [available |-> available, reserved |-> reserved, reorder |-> 1]
Line(p, n) == [product |-> p, quantity |-> n]
Placed(key, user) ==
  [user |-> user, status |-> "reserved", total |-> 3, currency |-> "USD", exact |-> 3, key |-> key,
   items |-> <<[product |-> 1, price |-> 3, currency |-> "USD", quantity |-> 1]>>]

Base ==
  [limited |-> FALSE, users |-> <<NewUser(Admin), NewUser([Bob EXCEPT !.email = "c"])>>, seeds |-> 0,
   products |-> <<ProductRow(Shirt(3))>>, inventory |-> 1 :> Stock(2, 0), orders |-> <<>>,
   server |-> "up"]

With(base, requests) == [f \in DOMAIN base \cup {"call"} |-> IF f = "call" THEN requests ELSE base[f]]

Ask(op, as, fields) == [op |-> op, ip |-> "x", as |-> as] @@ fields
Place(key, lines) == Ask("place", 2, [key |-> key, lines |-> lines])
About(op, as, id) == Ask(op, as, [id |-> id])
Set(id, set) == Ask("updateProduct", 1, [id |-> id, set |-> set])
To(id, status) == Ask("updateStatus", 1, [id |-> id, status |-> status])

Registrations == With(Base,
  c1 :> Ask("register", 0, Bob) @@ c2 :> Ask("register", 0, [Bob EXCEPT !.role = "admin"]) @@
  c3 :> Ask("login", 0, Bob) @@ c4 :> Ask("updateUser", 2, [id |-> 3, name |-> "k"]))

Profiles == With(Base,
  c1 :> About("getUser", 2, 2) @@ c2 :> Ask("updateUser", 2, [id |-> 2, name |-> ""]) @@
  c3 :> Ask("login", 0, [Bob EXCEPT !.email = "c"]) @@ c4 :> Ask("register", 0, [Bob EXCEPT !.name = ""]))

Seeding == With([Base EXCEPT !.seeds = 2, !.users = <<NewUser(Admin)>>, !.products = <<>>,
                             !.inventory = [p \in {} |-> Stock(0, 0)]],
  c1 :> Ask("createProduct", 1, Shirt(4)) @@ c2 :> Ask("register", 0, Bob) @@
  c3 :> Ask("place", 1, [key |-> "", lines |-> <<Line(1, 1)>>]) @@ c4 :> About("getInventory", 1, 1))

Updates == With(Base,
  c1 :> Set(1, [name |-> "tee"]) @@ c2 :> Set(1, [price |-> 4, currency |-> "EUR"]) @@
  c3 :> Set(1, [active |-> FALSE, currency |-> "EUR"]) @@ c4 :> Place("", <<Line(1, 1)>>))

Catalog == With([Base EXCEPT !.products = <<ProductRow(Shirt(3)), ProductRow(Mug),
                                              [ProductRow(Shirt(0)) EXCEPT !.sku = "t"]>>,
                             !.inventory = [p \in 1 .. 3 |-> Stock(2, 0)]],
  c1 :> Place("", <<Line(1, 1), Line(2, 1)>>) @@ c2 :> Ask("listProducts", 0, [page |-> 0]) @@
  c3 :> Ask("lowStock", 1, [page |-> 1]) @@ c4 :> Set(2, [name |-> "", price |-> 1]))

Free == With([Base EXCEPT !.products = <<ProductRow(Shirt(0))>>],
  c1 :> Place("k", <<Line(1, 2)>>) @@ c2 :> About("getOrder", 2, 1) @@
  c3 :> About("getProduct", 0, 1) @@ c4 :> Place("", <<Line(1, 1)>>))

Overflow == With([Base EXCEPT !.inventory = 1 :> Stock(10, 0)],
  c1 :> Place("k", <<Line(1, 2), Line(1, 2)>>) @@ c2 :> Place("k", <<Line(1, 1)>>) @@
  c3 :> Ask("listUserOrders", 2, [page |-> 1]) @@ c4 :> About("cancel", 2, 1))

Paging == With([Base EXCEPT !.orders = <<Placed("o1", 2), Placed("o2", 2), Placed("o3", 1)>>,
                            !.inventory = 1 :> Stock(1, 3)],
  c1 :> Ask("report", 1, [date |-> "today"]) @@ c2 :> Place("", <<Line(1, 1)>>) @@ c3 :> About("cancel", 2, 1))

Full == With([Base EXCEPT !.orders = [n \in 1 .. 5 |-> Placed("o" \o ToString(n), 2)], !.inventory = 1 :> Stock(0, 5)],
  c1 :> Ask("report", 1, [date |-> "today"]) @@ c2 :> Ask("listOrders", 1, [page |-> 2]) @@
  c3 :> About("orderStatus", 2, 7) @@ c4 :> To(1, "pending"))

Races == With([Base EXCEPT !.orders = <<Placed("o1", 1)>>, !.inventory = 1 :> Stock(1, 1)],
  c1 :> Place("k", <<Line(1, 1)>>) @@ c2 :> About("cancel", 2, 2) @@
  c3 :> To(2, "paid") @@ c4 :> About("cancel", 1, 2))

Broken == With([Base EXCEPT !.inventory = 1 :> Stock(10, 0)],
  c1 :> Place("", <<Line(1, 4)>>) @@ c2 :> Ask("report", 1, [date |-> "today"]) @@
  c3 :> Ask("listOrders", 1, [page |-> 1]) @@ c4 :> To(1, "failed"))

Refused == With(Base,
  c1 :> Ask("createProduct", 1, Shirt(-1)) @@ c2 :> Place("k", <<>>) @@
  c3 :> About("getProduct", 0, 9) @@ c4 :> About("lowStock", 2, 1))

Foreign == With([Base EXCEPT !.orders = <<[Placed("o1", 2) EXCEPT !.total = -4, !.exact = 12], Placed("o2", 1)>>],
  c1 :> About("getOrder", 2, 1) @@ c2 :> About("getOrder", 2, 2) @@
  c3 :> About("cancel", 2, 9) @@ c4 :> About("getInventory", 1, 0))

Throttled == With([Base EXCEPT !.limited = TRUE],
  [c \in MCCalls |-> [op |-> "ping", ip |-> IF c = c4 THEN "y" ELSE "x", as |-> 0]])

\* A currency code that the binding takes and NewMoney refuses, and a body that
\* is refused before the product is looked up.
Currency == With(Base,
  c1 :> Ask("createProduct", 1, [Mug EXCEPT !.currency = "wide"]) @@
  c2 :> Set(1, [price |-> 4, currency |-> "wide"]) @@
  c3 :> Set(9, [currency |-> "?"]) @@ c4 :> Set(9, [name |-> "tee"]))

\* The process stops with a placement and a cancellation in flight.
Closing == With([Base EXCEPT !.server = "stopping", !.orders = <<Placed("o1", 2)>>, !.inventory = 1 :> Stock(1, 1)],
  c1 :> Place("", <<Line(1, 1)>>) @@ c2 :> About("cancel", 2, 1) @@ c3 :> Place("o1", <<Line(1, 1)>>))

MCWorkloads ==
  {Registrations, Profiles, Seeding, Updates, Catalog, Currency, Free, Overflow, Broken, Paging, Full, Races,
   Closing, Refused, Foreign, Throttled}
=============================================================================
