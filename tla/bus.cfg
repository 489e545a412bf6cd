\* A placed order and a cancellation publish while handlers subscribe and the
\* server shuts down, with or without a timeout.
SPECIFICATION FairSpec
CONSTANTS
  Requests = {"place", "cancel"}
  Events <- MCEvents
  Handlers = {"notify", "audit"}
  EventName <- MCEventName
  Workers = {"w1", "w2"}
  QueueSize = 1
INVARIANTS TypeOK HandledAtMostOnce StopDelivers OnlyUndrainedPanics
PROPERTIES BusMakesProgress
