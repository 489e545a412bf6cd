\* Two cancellations of one order beside another customer's order.
SPECIFICATION Spec
CONSTANTS
  Requests = {"r1", "r3"}
  Cancels = {"c1", "c2"}
  Admins = {}
  Keys = {"k1", "k2"}
  Products = {"p1"}
  KeyOf <- MCKeyOf
  Qty <- MCQty
  FreeKeys = {}
  InitStock <- Ample
  MaxAttempts = 1
  Workers = 2
  QueueSize = 0
  Faults = {}
  MaxCrashes = 0
INVARIANTS ReservationsProtected
