------------------------------ MODULE EventBus ------------------------------
(* messaging.InProcessBus under the server's shutdown.  Requests that are   *)
(* in flight call Publish; each handler of an event becomes a job, queued   *)
(* when the channel has room and run inline by the publisher when it has    *)
(* not.  A handler's error or panic ends in dispatch, so a job only counts  *)
(* as handled.  server.Run waits for the requests in flight or gives up     *)
(* after ShutdownTimeout, and returns at once when the listener fails;      *)
(* App.Stop closes the channel in every case.                               *)

EXTENDS Naturals, Sequences, FiniteSets, SequencesExt

CONSTANTS
  Requests,      \* one call of Publish each
  Events,        \* Events[r]: the names of the events r publishes, in order
  Handlers,
  EventName,     \* EventName[h]: the event h subscribes to, or "*"
  Workers,       \* bus goroutines
  QueueSize      \* capacity of the job channel

\* "*" is a subscription, never the name of an event.
ASSUME BusAssumption ==
  /\ Events \in [Requests -> Seq(STRING \ {"*"})]
  /\ EventName \in [Handlers -> STRING]
  /\ IsFiniteSet(Workers) /\ Workers # {}
  /\ QueueSize \in Nat

VARIABLES
  handlers,   \* handlers[e]: handlers subscribed to e, in order
  pc,         \* pc[r]: where request r is
  next,       \* next[r]: index of the next event of r to look up
  todo,       \* todo[r]: handlers of the current event still to be served
  before,     \* before[r]: handlers subscribed when r called Publish
  jobs,       \* contents of the job channel
  worker,     \* worker[w]: Recv, Exited or the job w runs
  handled,    \* handled[j]: times job j was run to its end
  shutdown,   \* progress of the shutdown
  timedOut,   \* requests in flight outlived ShutdownTimeout
  listenFailed  \* ListenAndServe returned an error

vars == <<handlers, pc, next, todo, before, jobs, worker, handled, shutdown, timedOut, listenFailed>>
server == <<shutdown, timedOut, listenFailed>>
request == <<pc, next, todo, before>>
bus == <<handlers, jobs, worker, handled>>

\* Keys of the handlers map.
Names == {"*"} \cup {EventName[h] : h \in Handlers}
               \cup UNION {Range(Events[r]) : r \in Requests}
\* A job is a handler and the event it is for, named by request and position.
Jobs == UNION {{<<r, i, h>> : i \in DOMAIN Events[r], h \in Handlers} : r \in Requests}
\* A worker at its receive, and after its loop.
Recv == <<>>
Exited == <<"exited">>
PCs == {"idle", "serving", "publishing", "inline", "returned", "panicked"}
Phases == {"up", "draining", "stopping", "stopped"}

Closed == shutdown \in {"stopping", "stopped"}   \* Stop has closed the channel
InFlight == {r \in Requests : pc[r] \in {"serving", "publishing", "inline"}}
Subscribed == {h \in Handlers : h \in Range(handlers[EventName[h]])}
\* The job Publish is about to hand out, or runs inline.
Current(r) == <<r, next[r] - 1, Head(todo[r])>>

-----------------------------------------------------------------------------

Subscribe(h) ==
  /\ h \notin Subscribed
  /\ handlers' = [handlers EXCEPT ![EventName[h]] = Append(@, h)]
  /\ UNCHANGED <<request, jobs, worker, handled, server>>

\* The listener is open until the shutdown begins.  After it failed, nothing
\* closes the connections that are open, and requests still come in on them.
Accept(r) ==
  /\ pc[r] = "idle"
  /\ shutdown = "up" \/ listenFailed
  /\ pc' = [pc EXCEPT ![r] = "serving"]
  /\ UNCHANGED <<next, todo, before, bus, server>>

Publish(r) ==
  /\ pc[r] = "serving"
  /\ pc' = [pc EXCEPT ![r] = "publishing"]
  /\ before' = [before EXCEPT ![r] = Subscribed]
  /\ UNCHANGED <<next, todo, bus, server>>

\* The handlers of an event are copied under the read lock: named, then "*".
LookUp(r) ==
  /\ pc[r] = "publishing" /\ todo[r] = <<>>
  /\ next[r] \in DOMAIN Events[r]
  /\ todo' = [todo EXCEPT ![r] = handlers[Events[r][next[r]]] \o handlers["*"]]
  /\ next' = [next EXCEPT ![r] = @ + 1]
  /\ UNCHANGED <<pc, before, bus, server>>

PublishReturns(r) ==
  /\ pc[r] = "publishing" /\ todo[r] = <<>>
  /\ next[r] \notin DOMAIN Events[r]
  /\ pc' = [pc EXCEPT ![r] = "returned"]
  /\ UNCHANGED <<next, todo, before, bus, server>>

\* Publish is at the select of its next job.
AtSelect(r) == pc[r] = "publishing" /\ todo[r] # <<>>

\* Variant: the buffer is one larger than queueSize.
EnqueueOneMore(r) ==
  /\ AtSelect(r) /\ ~Closed
  /\ Len(jobs) <= QueueSize
  /\ jobs' = Append(jobs, Current(r))
  /\ todo' = [todo EXCEPT ![r] = Tail(@)]
  /\ UNCHANGED <<pc, next, before, handlers, worker, handled, server>>

Enqueue(r) ==
  /\ AtSelect(r) /\ ~Closed
  /\ Len(jobs) < QueueSize
  /\ jobs' = Append(jobs, Current(r))
  /\ todo' = [todo EXCEPT ![r] = Tail(@)]
  /\ UNCHANGED <<pc, next, before, handlers, worker, handled, server>>

\* A worker is waiting: the job is handed to it.
HandOver(r, w) ==
  /\ AtSelect(r) /\ ~Closed
  /\ jobs = <<>> /\ worker[w] = Recv
  /\ worker' = [worker EXCEPT ![w] = Current(r)]
  /\ todo' = [todo EXCEPT ![r] = Tail(@)]
  /\ UNCHANGED <<pc, next, before, handlers, jobs, handled, server>>

\* The default case: the publisher runs the handler itself.
DispatchInline(r) ==
  /\ AtSelect(r) /\ ~Closed
  /\ Len(jobs) = QueueSize
  /\ jobs # <<>> \/ \A w \in Workers : worker[w] # Recv
  /\ pc' = [pc EXCEPT ![r] = "inline"]
  /\ UNCHANGED <<next, todo, before, bus, server>>

\* Variant: the job run inline is not taken off the list.
InlineDoneStays(r) ==
  /\ pc[r] = "inline"
  /\ handled' = [handled EXCEPT ![Current(r)] = @ + 1]
  /\ pc' = [pc EXCEPT ![r] = "publishing"]
  /\ UNCHANGED <<next, todo, before, handlers, jobs, worker, server>>

InlineDone(r) ==
  /\ pc[r] = "inline"
  /\ handled' = [handled EXCEPT ![Current(r)] = @ + 1]
  /\ todo' = [todo EXCEPT ![r] = Tail(@)]
  /\ pc' = [pc EXCEPT ![r] = "publishing"]
  /\ UNCHANGED <<next, before, handlers, jobs, worker, server>>

\* The select sends on the closed channel: the request panics and its other
\* events are lost.
SendOnClosed(r) ==
  /\ AtSelect(r) /\ Closed
  /\ pc' = [pc EXCEPT ![r] = "panicked"]
  /\ UNCHANGED <<next, todo, before, bus, server>>

-----------------------------------------------------------------------------
(* Workers                                                                  *)

\* Variant: the worker only puts the job back at the end of the channel.
ReceiveRequeues(w) ==
  /\ worker[w] = Recv /\ jobs # <<>>
  /\ jobs' = Append(Tail(jobs), Head(jobs))
  /\ UNCHANGED <<request, handlers, worker, handled, server>>

Receive(w) ==
  /\ worker[w] = Recv /\ jobs # <<>>
  /\ worker' = [worker EXCEPT ![w] = Head(jobs)]
  /\ jobs' = Tail(jobs)
  /\ UNCHANGED <<request, handlers, handled, server>>

\* dispatch returns whatever the handler did.
Dispatch(w) ==
  /\ worker[w] \in Jobs
  /\ handled' = [handled EXCEPT ![worker[w]] = @ + 1]
  /\ worker' = [worker EXCEPT ![w] = Recv]
  /\ UNCHANGED <<request, handlers, jobs, server>>

\* Variant: a worker leaves as soon as the channel is closed.
ExitUndrained(w) ==
  /\ worker[w] = Recv /\ Closed
  /\ worker' = [worker EXCEPT ![w] = Exited]
  /\ UNCHANGED <<request, handlers, jobs, handled, server>>

Exit(w) ==
  /\ worker[w] = Recv /\ Closed /\ jobs = <<>>
  /\ worker' = [worker EXCEPT ![w] = Exited]
  /\ UNCHANGED <<request, handlers, jobs, handled, server>>

-----------------------------------------------------------------------------
(* Shutdown: server.Run, then the deferred App.Stop                         *)

Signal ==
  /\ shutdown = "up"
  /\ shutdown' = "draining"
  /\ UNCHANGED <<request, bus, timedOut, listenFailed>>

\* The listener fails: Run returns without draining and Stop closes the channel.
ListenFails ==
  /\ shutdown = "up"
  /\ listenFailed' = TRUE
  /\ shutdown' = "stopping"
  /\ UNCHANGED <<request, bus, timedOut>>

\* Shutdown gives up on the requests in flight.
TimeOut ==
  /\ shutdown = "draining" /\ InFlight # {}
  /\ timedOut' = TRUE
  /\ UNCHANGED <<request, bus, shutdown, listenFailed>>

\* Variant: the bus is stopped without waiting for the requests in flight.
StopUndrained ==
  /\ shutdown = "draining"
  /\ shutdown' = "stopping"
  /\ UNCHANGED <<request, bus, timedOut, listenFailed>>

\* Shutdown returned, drained or timed out, and Stop closes the channel.
Stop ==
  /\ shutdown = "draining"
  /\ InFlight = {} \/ timedOut
  /\ shutdown' = "stopping"
  /\ UNCHANGED <<request, bus, timedOut, listenFailed>>

StopWait ==
  /\ shutdown = "stopping"
  /\ \A w \in Workers : worker[w] = Exited
  /\ shutdown' = "stopped"
  /\ UNCHANGED <<request, bus, timedOut, listenFailed>>

-----------------------------------------------------------------------------

Init ==
  /\ handlers = [e \in Names |-> <<>>]
  /\ pc = [r \in Requests |-> "idle"]
  /\ next = [r \in Requests |-> 1]
  /\ todo = [r \in Requests |-> <<>>]
  /\ before = [r \in Requests |-> {}]
  /\ jobs = <<>>
  /\ worker = [w \in Workers |-> Recv]
  /\ handled = [j \in Jobs |-> 0]
  /\ shutdown = "up"
  /\ timedOut = FALSE /\ listenFailed = FALSE

Serve(r) ==
  \/ Publish(r) \/ LookUp(r) \/ PublishReturns(r) \/ Enqueue(r)
  \/ DispatchInline(r) \/ InlineDone(r) \/ SendOnClosed(r)
  \/ \E w \in Workers : HandOver(r, w)

Work(w) == Receive(w) \/ Dispatch(w) \/ Exit(w)

Done == shutdown = "stopped" /\ InFlight = {} /\ UNCHANGED vars

Next ==
  \/ \E h \in Handlers : Subscribe(h)
  \/ \E r \in Requests : Accept(r) \/ Serve(r)
  \/ \E w \in Workers : Work(w)
  \/ Signal \/ ListenFails \/ TimeOut \/ Stop \/ StopWait
  \/ Done

Spec == Init /\ [][Next]_vars

\* Every goroutine that can run does.
FairSpec ==
  /\ Spec
  /\ \A r \in Requests : WF_vars(Serve(r))
  /\ \A w \in Workers : WF_vars(Work(w))
  /\ WF_vars(Stop \/ StopWait)

-----------------------------------------------------------------------------

\* Values of the bus's fields; the channel never holds more than queueSize.
TypeOK ==
  /\ handlers \in [Names -> Seq(Handlers)]
  /\ pc \in [Requests -> PCs]
  /\ next \in [Requests -> Nat \ {0}]
  /\ todo \in [Requests -> Seq(Handlers)]
  /\ before \in [Requests -> SUBSET Handlers]
  /\ jobs \in Seq(Jobs) /\ Len(jobs) <= QueueSize
  /\ worker \in [Workers -> {Recv, Exited} \cup Jobs]
  /\ handled \in [Jobs -> Nat]
  /\ shutdown \in Phases
  /\ timedOut \in BOOLEAN /\ listenFailed \in BOOLEAN

\* Copies of j that a publisher, the channel or a worker holds, or that ran.
Copies(j) ==
  Cardinality({r \in Requests : todo[r] # <<>> /\ Current(r) = j})
  + Cardinality({i \in DOMAIN jobs : jobs[i] = j})
  + Cardinality({w \in Workers : worker[w] = j}) + handled[j]

\* No handler sees an event twice: a job is queued or run inline, never both.
HandledAtMostOnce == \A j \in Jobs : Copies(j) <= 1

\* When Stop returns, every event of a Publish that returned has been handled by
\* each handler subscribed before that call, timeout of the server or not.
StopDelivers ==
  shutdown = "stopped" =>
    \A r \in Requests : pc[r] = "returned" =>
      \A i \in DOMAIN Events[r], h \in before[r] :
        EventName[h] \in {Events[r][i], "*"} => handled[<<r, i, h>>] = 1

\* A request meets the closed channel, panics and loses its events only if the
\* server stopped without draining: it gave up waiting, or its listener failed.
\* A shutdown that drained makes no request panic.
OnlyUndrainedPanics == (\E r \in Requests : pc[r] = "panicked") => timedOut \/ listenFailed

\* Every Publish comes back, and so does a shutdown once it has begun: the
\* inline path and the workers' draining leave nobody waiting.
BusMakesProgress ==
  /\ \A r \in Requests : pc[r] = "serving" ~> pc[r] \in {"returned", "panicked"}
  /\ shutdown # "up" ~> shutdown = "stopped"
=============================================================================
