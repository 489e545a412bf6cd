\* Start, Stop and the submitters in any order, and in the server's.  Without
\* that order a Submit may block on the full channel and keep Start and Stop out,
\* so the pool may really stop.
SPECIFICATION FairSpec
CONSTANTS
  Tasks = {"t1", "t2", "t3"}
  TryTasks = {"t3"}
  Workers = {"w1", "w2"}
  QueueSize = 1
INVARIANTS TypeOK NeverSendsOnClosed AcceptedExactlyOnce StopDrains
PROPERTIES CallsReturn
CHECK_DEADLOCK FALSE
