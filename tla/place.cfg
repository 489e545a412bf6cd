\* PlaceOrder alone: one request re-sent while it is served, every fault.
SPECIFICATION Spec
CONSTANTS
  Requests = {"r1", "r2", "r3"}
  Cancels = {}
  Admins = {}
  Keys = {"k1", "k2"}
  Products = {"p1", "p2"}
  KeyOf <- MCKeyOf
  Qty <- MCQty
  FreeKeys = {}
  InitStock <- Scarce
  MaxAttempts = 2
  Workers = 2
  QueueSize = 0
  Faults = {"db", "ctx", "crash", "stop"}
  MaxCrashes = 1
INVARIANTS TypeOK ReservationsExact CreatedOnce ChargedAtMostOnce
PROPERTIES TerminalIsFinal ImplementsLifecycle
