\* A cancellation lands between the charge and the settlement.
SPECIFICATION Spec
CONSTANTS
  Requests = {"r1"}
  Cancels = {"c1"}
  Admins = {}
  Keys = {"k1", "k2"}
  Products = {"p1", "p2"}
  KeyOf <- MCKeyOf
  Qty <- MCQty
  FreeKeys = {}
  InitStock <- Ample
  MaxAttempts = 1
  Workers = 1
  QueueSize = 1
  Faults = {}
  MaxCrashes = 0
INVARIANTS CancelRefunds
