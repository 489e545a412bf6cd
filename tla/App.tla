-------------------------------- MODULE App --------------------------------
(* The process from config.Load to exit: start-up with its optional parts,  *)
(* requests that publish events, the event handlers behind the bus (audit,  *)
(* notification, WebSocket push), the RabbitMQ copy of the events, and the  *)
(* order in which App.Stop takes all of it down.  EventBus and Dispatcher   *)
(* model their components in detail; here a job is an event and a handler.  *)

EXTENDS Hub, SequencesExt

CONSTANTS
  Requests,        \* calls that place or cancel an order and publish its events
  Events,          \* Events[r]: the events r publishes, in order
  Notified,        \* events with a notification handler (paid, failed)
  Workers,         \* goroutines of the in-process bus
  EventQueueSize,  \* capacity of the bus's job channel
  ConnectRetries,  \* pings waitForDB tries
  RabbitMQ         \* what of "publisher" and "consumer" is enabled and comes up

ASSUME AppAssumption ==
  /\ Senders = Workers \cup Requests /\ Workers \cap Requests = {}
  /\ Events \in [Requests -> Seq(Messages)]
  /\ EventQueueSize \in Nat /\ ConnectRetries \in Nat
  /\ RabbitMQ \subseteq {"publisher", "consumer"}

VARIABLES
  stage,      \* how far the process is
  pings,      \* failed attempts while waitForDB runs
  rabbit,     \* the RabbitMQ clients that are open
  request,    \* request[r]: where request r is
  event,      \* event[r]: the event Publish is at for r
  handler,    \* handler[r]: the handler of that event it is at
  jobs,       \* the bus's job channel
  doing,      \* doing[a]: the job a worker, or a publisher inline, is at
  outbox,     \* notifications the dispatcher has queued
  listenFailed, \* ListenAndServe returned an error
  abandoned   \* requests were served after server.Run had returned

appVars == <<stage, pings, rabbit, request, event, handler, jobs, doing, outbox,
             listenFailed, abandoned>>
vars == <<hubVars, appVars>>
bus == <<jobs, doing, outbox>>
calls == <<request, event, handler>>
shutdown == <<listenFailed, abandoned>>

\* In the order the process goes through them; a stop stage is the call that
\* has begun.
Stages == <<"config", "open", "ping", "migrate", "broker", "serving", "draining",
            "pool", "bus", "dispatcher", "hub", "connections", "closed", "exited">>
Reached(s) == \E i, j \in DOMAIN Stages : Stages[i] = s /\ Stages[j] = stage /\ i <= j
Alive == stage \notin {"exited", "failed"}
InFlight == {r \in Requests : request[r] \in {"accepted", "working", "publishing"}}

\* An event's named handlers, then the "*" handlers in the order bootstrap
\* subscribes them.
HandlersOf(e) == IF e \in Notified THEN <<"notify", "audit", "ws">> ELSE <<"audit", "ws">>

\* Publish's two loops: the job it is at, and the step to the next one.
Job(r) == <<Events[r][event[r]], HandlersOf(Events[r][event[r]])[handler[r]]>>
Advance(r) ==
  IF handler[r] < Len(HandlersOf(Events[r][event[r]]))
  THEN handler' = [handler EXCEPT ![r] = @ + 1] /\ UNCHANGED event
  ELSE handler' = [handler EXCEPT ![r] = 1] /\ event' = [event EXCEPT ![r] = @ + 1]

-----------------------------------------------------------------------------
(* Start-up: config.Load, gormrepo.Open, bootstrap.New.                     *)

\* What the environment says of the fields validate looks at.
Configs == [secret : {"none", "short", "long"}, production : BOOLEAN,
            rate : {"below", "within", "above"}, workers : {0, 1}]

\* Outside production a missing secret is replaced by a random one.
Valid(c) ==
  /\ c.production => c.secret = "long"
  /\ c.rate = "within"
  /\ c.workers >= 1

GoTo(s) == stage' = s /\ UNCHANGED <<hubVars, pings, rabbit, calls, bus, shutdown>>

Load ==
  /\ stage = "config"
  /\ \E c \in Configs : GoTo(IF Valid(c) THEN "open" ELSE "failed")

\* gorm.Open, and AutoMigrate: an error ends the process.
Open == stage = "open" /\ \E s \in {"ping", "failed"} : GoTo(s)
Migrate == stage = "migrate" /\ \E s \in {"broker", "failed"} : GoTo(s)

Ping ==
  /\ stage = "ping" /\ pings < ConnectRetries
  /\ stage' = "migrate" /\ pings' = 0
  /\ UNCHANGED <<hubVars, rabbit, calls, bus, shutdown>>

PingFails ==
  /\ stage = "ping" /\ pings < ConnectRetries
  /\ pings' = pings + 1
  /\ UNCHANGED <<hubVars, stage, rabbit, calls, bus, shutdown>>

PingsExhausted ==
  /\ stage = "ping" /\ pings >= ConnectRetries
  /\ GoTo("failed")

\* Without RabbitMQ, or when it cannot be reached, the service goes on with
\* what it has; without the publisher no consumer is tried.
StartBroker ==
  /\ stage = "broker"
  /\ rabbit' = IF "publisher" \in RabbitMQ THEN RabbitMQ ELSE {}
  /\ stage' = "serving"
  /\ UNCHANGED <<hubVars, pings, calls, bus, shutdown>>

-----------------------------------------------------------------------------
(* A request that places or cancels an order: handler, pool task,           *)
(* CompositeBus.Publish.                                                    *)

Step(r, from, to) ==
  /\ Alive /\ request[r] = from
  /\ request' = [request EXCEPT ![r] = to]
  /\ UNCHANGED <<hubVars, stage, pings, rabbit, event, handler, bus, shutdown>>

\* The server is not shut down when its listener fails: it goes on serving the
\* connections it has while App.Stop runs.
Serving == stage = "serving" \/ (listenFailed /\ Alive)

Accept(r) ==
  /\ Serving /\ request[r] = "idle"
  /\ request' = [request EXCEPT ![r] = "accepted"]
  /\ abandoned' = (abandoned \/ stage # "serving")
  /\ UNCHANGED <<hubVars, stage, pings, rabbit, event, handler, bus, listenFailed>>

\* The pool refuses once Stop has begun; the request publishes nothing.
Submit(r) == Step(r, "accepted", IF Reached("pool") THEN "refused" ELSE "working")

\* The task's transactions and charge, on a pool worker.
RunTask(r) == Step(r, "working", "publishing")

\* A cancellation's transaction runs in the handler, not on the pool.
Cancel(r) == Step(r, "accepted", "publishing")

\* The next job is queued, run inline when the channel is full, or meets the
\* channel closed by Stop: Recovery answers and the other events are lost.
HandOut(r) ==
  /\ Alive /\ request[r] = "publishing"
  /\ doing[r] = None /\ sender[r] = None
  /\ event[r] <= Len(Events[r])
  /\ \/ /\ Reached("bus")
        /\ request' = [request EXCEPT ![r] = "panicked"]
        /\ UNCHANGED <<event, handler, jobs, doing>>
     \/ /\ ~Reached("bus")
        /\ Advance(r)
        /\ IF Len(jobs) < EventQueueSize
           THEN jobs' = Append(jobs, Job(r)) /\ UNCHANGED doing
           ELSE doing' = [doing EXCEPT ![r] = Job(r)] /\ UNCHANGED jobs
        /\ UNCHANGED request
  /\ UNCHANGED <<hubVars, stage, pings, rabbit, outbox, shutdown>>

\* Then the events go to RabbitMQ in order, up to the first that fails (all of
\* them once the publisher is closed); the error is swallowed, and what RabbitMQ
\* has only reaches consumers that log it.
CopyToBroker(r) ==
  /\ event[r] > Len(Events[r])
  /\ doing[r] = None /\ sender[r] = None
  /\ Step(r, "publishing", "answered")

-----------------------------------------------------------------------------
(* Event handlers, on the bus's workers or inline in a request.             *)

Receive(w) ==
  /\ Alive /\ doing[w] = None /\ sender[w] = None
  /\ jobs # <<>>
  /\ doing' = [doing EXCEPT ![w] = Head(jobs)]
  /\ jobs' = Tail(jobs)
  /\ UNCHANGED <<hubVars, stage, pings, rabbit, calls, outbox, shutdown>>

\* NewWSBroadcast: the push waits in Hub.Broadcast.
HandleWS(a) ==
  /\ Alive /\ doing[a] # None /\ doing[a][2] = "ws"
  /\ sender' = [sender EXCEPT ![a] = <<doing[a][1]>>]
  /\ doing' = [doing EXCEPT ![a] = None]
  /\ UNCHANGED <<done, running, broadcast, clients, conn, send, closes, reader, writer, log,
                 joined, got, stage, pings, rabbit, calls, jobs, outbox, shutdown>>

\* AuditHandler inserts a row.
HandleAudit(a) ==
  /\ Alive /\ doing[a] # None /\ doing[a][2] = "audit"
  /\ doing' = [doing EXCEPT ![a] = None]
  /\ UNCHANGED <<hubVars, stage, pings, rabbit, calls, jobs, outbox, shutdown>>

\* The notification handlers read the order, insert the row and offer it to
\* the dispatcher, whose channel may be full; once Stop has closed it the
\* send panics and dispatch recovers.
HandleNotify(a) ==
  /\ Alive /\ doing[a] # None /\ doing[a][2] = "notify"
  /\ outbox' \in {outbox} \cup (IF Reached("dispatcher") THEN {}
                                ELSE {outbox \cup {doing[a][1]}})
  /\ doing' = [doing EXCEPT ![a] = None]
  /\ UNCHANGED <<hubVars, stage, pings, rabbit, calls, jobs, shutdown>>

\* A dispatcher worker sends a notification and updates its row.
Deliver ==
  /\ Alive
  /\ \E e \in outbox : outbox' = outbox \ {e}
  /\ UNCHANGED <<hubVars, stage, pings, rabbit, calls, jobs, doing, shutdown>>

-----------------------------------------------------------------------------
(* Shutdown: server.Run returns, then App.Stop in its order.                *)

\* ListenAndServe returned an error: nobody waits for the requests in flight, and
\* the connections that are open bring more of them.
ListenFails ==
  /\ stage = "serving"
  /\ stage' = "pool"
  /\ abandoned' = (InFlight # {})
  /\ listenFailed' = TRUE
  /\ UNCHANGED <<hubVars, pings, rabbit, calls, bus>>

Signal == stage = "serving" /\ GoTo("draining")

Drained == stage = "draining" /\ InFlight = {} /\ GoTo("pool")

DrainTimesOut ==
  /\ stage = "draining" /\ InFlight # {}
  /\ stage' = "pool" /\ abandoned' = TRUE
  /\ UNCHANGED <<hubVars, pings, rabbit, calls, bus, listenFailed>>

\* Variant: the hub is stopped before the bus has drained.
StopPoolAndHub ==
  /\ stage = "pool" /\ \A r \in Requests : request[r] # "working"
  /\ stage' = "bus" /\ HubStop
  /\ UNCHANGED <<running, broadcast, clients, conn, send, closes, reader, writer, sender,
                 log, joined, got, pings, rabbit, calls, bus, shutdown>>

StopPool ==
  /\ stage = "pool" /\ \A r \in Requests : request[r] # "working"
  /\ GoTo("bus")

\* Variant: Stop closes the job channel and does not wait for the workers.
StopBusAtOnce == stage = "bus" /\ GoTo("dispatcher")

\* The workers drain the closed channel before Stop returns.
StopBus ==
  /\ stage = "bus"
  /\ jobs = <<>> /\ \A w \in Workers : doing[w] = None /\ sender[w] = None
  /\ GoTo("dispatcher")

StopDispatcher == stage = "dispatcher" /\ outbox = {} /\ GoTo("hub")

StopHub ==
  /\ stage = "hub" /\ HubStop
  /\ stage' = "connections"
  /\ UNCHANGED <<running, broadcast, clients, conn, send, closes, reader, writer, sender,
                 log, joined, got, pings, rabbit, calls, bus, shutdown>>

\* The RabbitMQ consumer and publisher if there are any, then the database; each
\* Close is taken to return.
CloseConnections ==
  /\ stage = "connections"
  /\ rabbit' = {} /\ stage' = "closed"
  /\ UNCHANGED <<hubVars, pings, calls, bus, shutdown>>

Exit == stage = "closed" /\ GoTo("exited")

-----------------------------------------------------------------------------

Init ==
  /\ HubInit
  /\ stage = "config" /\ pings = 0
  /\ rabbit = {}
  /\ request = [r \in Requests |-> "idle"]
  /\ event = [r \in Requests |-> 1] /\ handler = [r \in Requests |-> 1]
  /\ jobs = <<>>
  /\ doing = [a \in Senders |-> None]
  /\ outbox = {}
  /\ listenFailed = FALSE /\ abandoned = FALSE

StartUp == Load \/ Open \/ Ping \/ PingFails \/ PingsExhausted \/ Migrate \/ StartBroker

Serve(r) == Submit(r) \/ RunTask(r) \/ Cancel(r) \/ HandOut(r) \/ CopyToBroker(r)

Handle(a) == HandleWS(a) \/ HandleAudit(a) \/ HandleNotify(a)

Stop ==
  \/ Drained \/ DrainTimesOut \/ StopPool \/ StopBus \/ StopDispatcher \/ StopHub
  \/ CloseConnections \/ Exit

\* A WebSocket request is accepted like any other; Shutdown does not wait for
\* it once the connection is hijacked.
Upgrade(c) ==
  /\ Serving \/ stage = "draining"
  /\ ServeWS(c) /\ UNCHANGED appVars

\* A step of the hub in the running process.
Hubs(A) == Alive /\ A /\ UNCHANGED appVars

Ended == ~Alive /\ UNCHANGED vars

Next ==
  \/ StartUp
  \/ \E r \in Requests : Accept(r) \/ Serve(r)
  \/ \E w \in Workers : Receive(w)
  \/ \E a \in Senders : Handle(a)
  \/ \E c \in Clients : Upgrade(c)
  \/ Deliver
  \/ Hubs(HubNext)
  \/ Signal \/ ListenFails \/ Stop
  \/ Ended

Spec == Init /\ [][Next]_vars

\* Per goroutine of the service: one that can run does; statements and charges
\* end.  Nothing makes a request, a client or a signal arrive, and nothing is
\* assumed of the sockets.
FairSpec ==
  /\ Spec
  /\ WF_vars(Stop)
  /\ WF_vars(Deliver)
  /\ WF_vars(Hubs(Run))
  /\ \A r \in Requests : WF_vars(Serve(r) \/ Handle(r) \/ Hubs(Broadcast(r)))
  /\ \A w \in Workers : WF_vars(Receive(w) \/ Handle(w) \/ Hubs(Broadcast(w)))

-----------------------------------------------------------------------------

\* Values of the process's state; no channel holds more than its capacity.
TypeOK ==
  /\ HubTypeOK
  /\ stage \in Range(Stages) \cup {"failed"}
  /\ pings \in 0 .. ConnectRetries
  /\ rabbit \subseteq {"publisher", "consumer"}
  /\ request \in [Requests -> {"idle", "accepted", "refused", "working", "publishing",
                               "answered", "panicked"}]
  /\ event \in [Requests -> Nat] /\ handler \in [Requests -> {1, 2, 3}]
  /\ \A r \in Requests : event[r] \in 1 .. Len(Events[r]) + 1
  /\ jobs \in Seq(Messages \X {"notify", "audit", "ws"}) /\ Len(jobs) <= EventQueueSize
  /\ doing \in [Senders -> {None} \cup (Messages \X {"notify", "audit", "ws"})]
  /\ outbox \subseteq Messages
  /\ listenFailed \in BOOLEAN /\ abandoned \in BOOLEAN

\* A shutdown that waited for its requests loses no event on the way to the
\* WebSocket clients, whatever RabbitMQ did: when the process exits the hub
\* has handed out, or at least taken, every event of every answered request.
EventsReachHub ==
  stage = "exited" /\ ~abandoned =>
    \A r \in Requests : request[r] = "answered" =>
      Range(Events[r]) \subseteq Range(log) \cup Range(broadcast)

\* The database is closed after everyone who uses it: unless requests were
\* abandoned, no request, event handler or notification is left at that point.
DbOutlivesUsers ==
  Reached("closed") /\ ~abandoned =>
    /\ InFlight = {}
    /\ jobs = <<>> /\ outbox = {}
    /\ \A a \in Senders : doing[a] = None

\* A shutdown comes to its end, after a signal or a failed listener: no slow or
\* dead client, full channel or request that still arrives keeps App.Stop waiting.
StopEnds == stage \in {"draining", "pool"} ~> stage = "exited"
=============================================================================
