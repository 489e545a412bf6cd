-------------------------- MODULE OrderLifecycle ---------------------------
(* What an order promises, as docs/diagrams/03-order-state.mmd draws it: one *)
(* order per idempotency key, stock held from the moment an order is placed *)
(* until it is fulfilled, failed or cancelled, and nothing after that.      *)
(* There is no handler, no transaction and no failure here.  The diagram's  *)
(* reserved -> paid -> fulfilled is one step, as the code takes both in one *)
(* transaction.                                                             *)

EXTENDS Integers

CONSTANTS Keys, Products, Qty, InitStock

VARIABLES
  status,     \* status[k], or "none" before the order exists
  available,  \* units that can still be ordered
  sold        \* units that left for good

lifecycleVars == <<status, available, sold>>

Init ==
  /\ status = [k \in Keys |-> "none"]
  /\ available = InitStock
  /\ sold = [p \in Products |-> 0]

Place(k) ==
  /\ status[k] = "none"
  /\ \A p \in Products : available[p] >= Qty[k][p]
  /\ status' = [status EXCEPT ![k] = "reserved"]
  /\ available' = [p \in Products |-> available[p] - Qty[k][p]]
  /\ UNCHANGED sold

Fulfil(k) ==
  /\ status[k] = "reserved"
  /\ status' = [status EXCEPT ![k] = "fulfilled"]
  /\ sold' = [p \in Products |-> sold[p] + Qty[k][p]]
  /\ UNCHANGED available

\* The order ends unfulfilled and its units can be ordered again.
GiveUp(k, s) ==
  /\ status[k] = "reserved"
  /\ status' = [status EXCEPT ![k] = s]
  /\ available' = [p \in Products |-> available[p] + Qty[k][p]]
  /\ UNCHANGED sold

Next ==
  \E k \in Keys : Place(k) \/ Fulfil(k) \/ GiveUp(k, "failed") \/ GiveUp(k, "cancelled")

Spec == Init /\ [][Next]_lifecycleVars
=============================================================================
