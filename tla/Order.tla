------------------------------- MODULE Order -------------------------------
(* The order aggregate of internal/domain/order: its status and the methods *)
(* that change it.  A method is a pair of operators: the guard under which  *)
(* it returns nil, and the status it leaves behind.  A method whose guard   *)
(* is false returns a Conflict error and changes nothing.                   *)

Status == {"pending", "reserved", "paid", "fulfilled", "cancelled", "failed"}

\* IsTerminal: statuses that no method of the aggregate leaves.
IsTerminal(s) == s \in {"fulfilled", "cancelled", "failed"}

CanMarkReserved(s)  == s = "pending"
CanMarkPaid(s)      == s = "reserved"
CanMarkFulfilled(s) == s = "paid"
CanCancel(s)        == s \in {"pending", "reserved", "paid"}
CanFail(s)          == ~IsTerminal(s)

\* transition(o, target): the aggregate method that the administrator's
\* UpdateOrderStatus selects for a target, and whether it accepts status s.
\* "pending" selects no method and is rejected.
CanTransition(s, target) ==
  \/ target = "reserved"  /\ CanMarkReserved(s)
  \/ target = "paid"      /\ CanMarkPaid(s)
  \/ target = "fulfilled" /\ CanMarkFulfilled(s)
  \/ target = "cancelled" /\ CanCancel(s)
  \/ target = "failed"    /\ CanFail(s)
=============================================================================
