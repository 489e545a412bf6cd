\* A cancellation races with the settlement of the same order.
SPECIFICATION Spec
CONSTANTS
  Requests = {"r1", "r3"}
  Cancels = {"c1"}
  Admins = {}
  Keys = {"k1", "k2"}
  Products = {"p1"}
  KeyOf <- MCKeyOf
  Qty <- MCQty
  FreeKeys = {}
  InitStock <- Ample
  MaxAttempts = 1
  Workers = 2
  QueueSize = 1
  Faults = {}
  MaxCrashes = 0
PROPERTIES TerminalIsFinal
