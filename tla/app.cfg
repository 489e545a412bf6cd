SPECIFICATION FairSpec
CONSTANTS
  r1 = r1
  Requests = {r1}
  Events <- MCEvents
  Messages = {"placed", "paid", "fulfilled"}
  Notified = {"paid"}
  Workers = {w1}
  Senders <- MCSenders
  EventQueueSize = 1
  ConnectRetries = 2
  RabbitMQ = {"publisher"}
  Clients = {c1}
  SendBuffer = 1
INVARIANTS TypeOK ClosedOnce NoGap EventsReachHub DbOutlivesUsers
PROPERTY StopEnds
