\* PlaceOrder, two cancellations and an administrator on order k1; k2 costs
\* nothing, so it stays reserved beside it.
SPECIFICATION Spec
CONSTANTS
  Requests = {"r1", "r3"}
  Cancels = {"c1", "c2"}
  Admins = {"a1"}
  Keys = {"k1", "k2"}
  Products = {"p1"}
  KeyOf <- MCKeyOf
  Qty <- MCQty
  FreeKeys = {"k2"}
  InitStock <- Ample
  MaxAttempts = 2
  Workers = 1
  QueueSize = 1
  Faults = {"db", "crash"}
  MaxCrashes = 1
INVARIANTS StockConserved SoldIsPaidFor PaymentMatchesCharge OutcomeIsPaidFor
