\* Three notifications on a channel of one, database errors, send errors and
\* panics, and a crash.
SPECIFICATION FairSpec
CONSTANTS
  Notifications = {"n1", "n2", "n3"}
  Workers = {"w1", "w2"}
  QueueSize = 1
  DbErrors = TRUE
  MaxCrashes = 1
INVARIANTS TypeOK SentAtMostOnce RowIsTrue StopAttempts
PROPERTIES QueuedIsAttempted
