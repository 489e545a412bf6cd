\* The client disconnects while it is charged.
SPECIFICATION FairSpec
CONSTANTS
  Requests = {"r1", "r2"}
  Cancels = {}
  Admins = {}
  Keys = {"k1", "k2"}
  Products = {"p1", "p2"}
  KeyOf <- MCKeyOf
  Qty <- MCQty
  FreeKeys = {}
  InitStock <- Ample
  MaxAttempts = 1
  Workers = 1
  QueueSize = 1
  Faults = {"ctx"}
  MaxCrashes = 0
PROPERTIES OrdersSettle
