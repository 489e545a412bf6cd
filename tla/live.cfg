\* No fault: three requests for one product share two workers, and stock is ample.
SPECIFICATION FairSpec
CONSTANTS
  Requests = {"r1", "r2", "r3"}
  Cancels = {"c1"}
  Admins = {}
  Keys = {"k1", "k2"}
  Products = {"p1"}
  KeyOf <- MCKeyOf
  Qty <- MCQty
  FreeKeys = {}
  InitStock <- Ample
  MaxAttempts = 2
  Workers = 2
  QueueSize = 0
  Faults = {}
  MaxCrashes = 0
PROPERTIES EveryCallAnswered SettlesUnlessRobbed
