--------------------------- MODULE EventBusProofs ---------------------------
(* Theorems about EventBus, for any requests, events, handlers and workers   *)
(* and any capacity: no handler sees an event twice, Stop delivers what a    *)
(* returned Publish handed out, and only a timeout makes a request panic.    *)
EXTENDS EventBus, ChannelTheorems

Job(r, i, h) == <<r, i, h>>

\* What the constants say of a request's events.
LEMMA Inputs ==
  ASSUME NEW r \in Requests
  PROVE  /\ Events[r] \in Seq(STRING \ {"*"}) /\ Len(Events[r]) \in Nat
         /\ DOMAIN Events[r] = 1 .. Len(Events[r])
         /\ \A i \in DOMAIN Events[r] : Events[r][i] \in Names \ {"*"}
         /\ \A i \in DOMAIN Events[r], h \in Handlers : Job(r, i, h) \in Jobs
<1>1. Events[r] \in Seq(STRING \ {"*"})
  BY BusAssumption
<1>2. DOMAIN Events[r] = 1 .. Len(Events[r]) /\ Len(Events[r]) \in Nat
  BY <1>1
<1>3. \A i \in DOMAIN Events[r] : Events[r][i] \in Range(Events[r])
  BY DEF Range
<1>4. \A i \in DOMAIN Events[r] : Events[r][i] # "*"
  BY <1>1, <1>2
<1>5. Range(Events[r]) \subseteq Names
  BY DEF Names
<1>6. \A i \in DOMAIN Events[r], h \in Handlers : Job(r, i, h) \in Jobs
  BY DEF Jobs, Job
<1> QED
  BY <1>1, <1>2, <1>3, <1>4, <1>5, <1>6

\* A job is neither of a worker's other states, and tells what it is for.
LEMMA JobsAre ==
  ASSUME NEW j \in Jobs
  PROVE  /\ j # Recv /\ j # Exited
         /\ \E r \in Requests : \E i \in DOMAIN Events[r], h \in Handlers : j = Job(r, i, h)
<1>1. PICK r \in Requests : \E i \in DOMAIN Events[r], h \in Handlers : j = <<r, i, h>>
  BY DEF Jobs
<1> QED
  BY <1>1 DEF Job, Recv, Exited

-----------------------------------------------------------------------------
(* Where a call of Publish is, and the types.                               *)

\* Progress of a call through its events.
CallInv ==
  \A r \in Requests :
    /\ next[r] \in 1 .. Len(Events[r]) + 1
    /\ todo[r] # <<>> => next[r] > 1
    /\ pc[r] \in {"idle", "serving"} => next[r] = 1 /\ todo[r] = <<>>
    /\ pc[r] = "inline" => todo[r] # <<>>
    /\ pc[r] = "returned" => todo[r] = <<>> /\ next[r] = Len(Events[r]) + 1

\* The job a call is about to hand out is one.
LEMMA CurrentIsJob ==
  ASSUME TypeOK, CallInv, NEW r \in Requests, todo[r] # <<>>
  PROVE  /\ Current(r) \in Jobs /\ Current(r) = Job(r, next[r] - 1, Head(todo[r]))
         /\ next[r] - 1 \in DOMAIN Events[r] /\ Head(todo[r]) \in Handlers
         /\ Tail(todo[r]) \in Seq(Handlers)
<1>1. next[r] - 1 \in DOMAIN Events[r]
  BY Inputs DEF CallInv
<1>2. Head(todo[r]) \in Handlers /\ Tail(todo[r]) \in Seq(Handlers)
  BY DEF TypeOK
<1> QED
  BY <1>1, <1>2, Inputs DEF Current, Job

\* Every step keeps the types and the place of each Publish.
LEMMA TypeStep ==
  ASSUME TypeOK, CallInv, [Next]_vars
  PROVE  TypeOK' /\ CallInv'
<1> QueueSize \in Nat
  BY BusAssumption
<1> USE DEF PCs, Phases, server, request, bus
<1>1. ASSUME NEW h \in Handlers, Subscribe(h) PROVE TypeOK' /\ CallInv'
  <2>1. EventName[h] \in Names
    BY DEF Names
  <2>2. handlers' \in [Names -> Seq(Handlers)]
    BY <1>1, <2>1 DEF Subscribe, TypeOK
  <2> QED
    BY <1>1, <2>2 DEF Subscribe, TypeOK, CallInv
<1>2. ASSUME NEW r \in Requests, Accept(r) PROVE TypeOK' /\ CallInv'
  BY <1>2 DEF Accept, TypeOK, CallInv
<1>3. ASSUME NEW r \in Requests, Publish(r) PROVE TypeOK' /\ CallInv'
  BY <1>3 DEF Publish, TypeOK, CallInv, Subscribed
<1>4. ASSUME NEW r \in Requests, LookUp(r) PROVE TypeOK' /\ CallInv'
  <2>1. Events[r][next[r]] \in Names /\ "*" \in Names
    BY <1>4, Inputs DEF LookUp, Names
  <2>2. handlers[Events[r][next[r]]] \o handlers["*"] \in Seq(Handlers)
    BY <2>1 DEF TypeOK
  <2>3. next[r] \in 1 .. Len(Events[r]) /\ Len(Events[r]) \in Nat
    BY <1>4, Inputs DEF LookUp
  <2>4. TypeOK'
    BY <1>4, <2>2, <2>3 DEF LookUp, TypeOK
  <2>5. /\ \A q \in Requests \ {r} : todo'[q] = todo[q] /\ next'[q] = next[q]
        /\ next'[r] = next[r] + 1 /\ pc' = pc /\ pc[r] = "publishing"
    BY <1>4 DEF LookUp, TypeOK
  <2>6. CallInv'
    BY <2>3, <2>5 DEF CallInv
  <2> QED
    BY <2>4, <2>6
<1>5. ASSUME NEW r \in Requests, PublishReturns(r) PROVE TypeOK' /\ CallInv'
  BY <1>5, Inputs DEF PublishReturns, TypeOK, CallInv
<1>6. ASSUME NEW r \in Requests, todo[r] # <<>>,
             todo' = [todo EXCEPT ![r] = Tail(@)],
             pc' \in {pc, [pc EXCEPT ![r] = "publishing"]},
             pc[r] \in {"publishing", "inline"}, pc'[r] = "publishing",
             UNCHANGED <<next, before, handlers, server>>,
             jobs' \in Seq(Jobs) /\ Len(jobs') <= QueueSize,
             worker' \in [Workers -> {Recv, Exited} \cup Jobs],
             handled' \in [Jobs -> Nat]
      PROVE  TypeOK' /\ CallInv'
  <2>1. todo' \in [Requests -> Seq(Handlers)] /\ pc' \in [Requests -> PCs]
    BY <1>6, CurrentIsJob DEF TypeOK
  <2>2. TypeOK'
    BY <1>6, <2>1 DEF TypeOK
  <2>3. \A q \in Requests \ {r} : todo'[q] = todo[q] /\ pc'[q] = pc[q]
    BY <1>6 DEF TypeOK
  <2>4. CallInv'
    BY <1>6, <2>3 DEF CallInv
  <2> QED
    BY <2>2, <2>4
<1>7. ASSUME NEW r \in Requests, Enqueue(r) PROVE TypeOK' /\ CallInv'
  <2>1. jobs' \in Seq(Jobs) /\ Len(jobs') <= QueueSize
    BY <1>7, CurrentIsJob DEF Enqueue, AtSelect, TypeOK
  <2> QED
    BY <1>6, <1>7, <2>1 DEF Enqueue, AtSelect, TypeOK
<1>8. ASSUME NEW r \in Requests, NEW w \in Workers, HandOver(r, w) PROVE TypeOK' /\ CallInv'
  <2>1. worker' \in [Workers -> {Recv, Exited} \cup Jobs]
    BY <1>8, CurrentIsJob DEF HandOver, AtSelect, TypeOK
  <2> QED
    BY <1>6, <1>8, <2>1 DEF HandOver, AtSelect, TypeOK
<1>9. ASSUME NEW r \in Requests, InlineDone(r) PROVE TypeOK' /\ CallInv'
  <2>1. handled' \in [Jobs -> Nat] /\ todo[r] # <<>>
    BY <1>9, CurrentIsJob DEF InlineDone, TypeOK, CallInv
  <2>2. pc'[r] = "publishing"
    BY <1>9 DEF InlineDone, TypeOK
  <2> QED
    BY <1>6, <1>9, <2>1, <2>2 DEF InlineDone, TypeOK
<1>10. ASSUME NEW r \in Requests, DispatchInline(r) \/ SendOnClosed(r) PROVE TypeOK' /\ CallInv'
  BY <1>10 DEF DispatchInline, SendOnClosed, AtSelect, TypeOK, CallInv
<1>11. ASSUME NEW w \in Workers, Work(w) PROVE TypeOK' /\ CallInv'
  <2>1. TypeOK'
    <3>1. CASE Receive(w)
      BY <3>1 DEF Receive, TypeOK
    <3>2. CASE Dispatch(w)
      BY <3>2 DEF Dispatch, TypeOK
    <3>3. CASE Exit(w)
      BY <3>3 DEF Exit, TypeOK
    <3> QED
      BY <1>11, <3>1, <3>2, <3>3 DEF Work
  <2> QED
    BY <1>11, <2>1 DEF Work, Receive, Dispatch, Exit, CallInv
<1>12. CASE Signal \/ ListenFails \/ TimeOut \/ Stop \/ StopWait
  BY <1>12 DEF Signal, ListenFails, TimeOut, Stop, StopWait, TypeOK, CallInv
<1>13. CASE UNCHANGED vars
  BY <1>13 DEF vars, TypeOK, CallInv
<1> QED
  BY <1>1, <1>2, <1>3, <1>4, <1>5, <1>7, <1>8, <1>9, <1>10, <1>11, <1>12, <1>13
     DEF Next, Serve, Done

\* The initial state has the types.
LEMMA TypeInit == Init => TypeOK /\ CallInv
<1> SUFFICES ASSUME Init PROVE TypeOK /\ CallInv
  OBVIOUS
<1>1. jobs \in Seq(Jobs) /\ Len(jobs) <= QueueSize
  BY BusAssumption DEF Init
<1>2. handlers \in [Names -> Seq(Handlers)] /\ todo \in [Requests -> Seq(Handlers)]
  BY DEF Init
<1>3. CallInv
  BY Inputs DEF Init, CallInv
<1>4. /\ pc \in [Requests -> PCs] /\ next \in [Requests -> Nat \ {0}]
      /\ before \in [Requests -> SUBSET Handlers]
  BY DEF Init, PCs
<1>5. /\ worker \in [Workers -> {Recv, Exited} \cup Jobs]
      /\ handled \in [Jobs -> Nat]
      /\ shutdown \in Phases /\ timedOut \in BOOLEAN /\ listenFailed \in BOOLEAN
  BY DEF Init, Phases
<1> QED
  BY <1>1, <1>2, <1>3, <1>4, <1>5 DEF TypeOK

\* The bus keeps its types, and the channel its capacity.
THEOREM BusTypeCorrect == Spec => []TypeOK
<1>1. Init => TypeOK /\ CallInv
  BY TypeInit
<1>2. (TypeOK /\ CallInv) /\ [Next]_vars => (TypeOK /\ CallInv)'
  BY TypeStep
<1> QED
  BY <1>1, <1>2, PTL DEF Spec

-----------------------------------------------------------------------------
(* Who may panic.                                                           *)

\* The channel is closed over requests in flight only after a timeout or a
\* failure of the listener.
ShutdownInv ==
  /\ Closed => InFlight = {} \/ timedOut \/ listenFailed
  /\ OnlyUndrainedPanics

\* Every step keeps ShutdownInv.
LEMMA ShutdownStep ==
  ASSUME TypeOK, ShutdownInv, [Next]_vars
  PROVE  ShutdownInv'
<1> USE DEF ShutdownInv, OnlyUndrainedPanics, Closed, InFlight, TypeOK, server, request, bus
<1>1. ASSUME NEW h \in Handlers, Subscribe(h) PROVE ShutdownInv'
  BY <1>1 DEF Subscribe
<1>2. ASSUME NEW r \in Requests, Accept(r) PROVE ShutdownInv'
  BY <1>2 DEF Accept
<1>3. ASSUME NEW r \in Requests, Serve(r) PROVE ShutdownInv'
  <2>1. pc[r] \in {"serving", "publishing", "inline"} /\ UNCHANGED server
    BY <1>3 DEF Serve, Publish, LookUp, PublishReturns, Enqueue, DispatchInline,
                InlineDone, SendOnClosed, HandOver, AtSelect
  <2>2. Closed => timedOut \/ listenFailed
    BY <2>1
  <2>3. pc'[r] = "panicked" => Closed
    BY <1>3 DEF Serve, Publish, LookUp, PublishReturns, Enqueue, DispatchInline,
                InlineDone, SendOnClosed, HandOver, AtSelect
  <2>4. \A q \in Requests \ {r} : pc'[q] = pc[q]
    BY <1>3 DEF Serve, Publish, LookUp, PublishReturns, Enqueue, DispatchInline,
                InlineDone, SendOnClosed, HandOver, AtSelect
  <2> QED
    BY <2>1, <2>2, <2>3, <2>4
<1>4. ASSUME NEW w \in Workers, Work(w) PROVE ShutdownInv'
  BY <1>4 DEF Work, Receive, Dispatch, Exit
<1>5. CASE Signal \/ ListenFails \/ TimeOut \/ Stop \/ StopWait
  BY <1>5 DEF Signal, ListenFails, TimeOut, Stop, StopWait
<1>6. CASE UNCHANGED vars
  BY <1>6 DEF vars
<1> QED
  BY <1>1, <1>2, <1>3, <1>4, <1>5, <1>6 DEF Next, Done

\* A request sends on the closed channel, panics and loses its events only when
\* the server gave up waiting or its listener failed.
THEOREM OnlyUndrainedShutdownsPanic == Spec => []OnlyUndrainedPanics
<1>1. Init => ShutdownInv
  BY DEF Init, ShutdownInv, OnlyUndrainedPanics, Closed
<1>2. TypeOK /\ ShutdownInv /\ [Next]_vars => ShutdownInv'
  BY ShutdownStep
<1>3. ShutdownInv => OnlyUndrainedPanics
  BY DEF ShutdownInv
<1> QED
  BY <1>1, <1>2, <1>3, BusTypeCorrect, PTL DEF Spec

-----------------------------------------------------------------------------
(* Every job is handed out once.                                            *)

\* Copies of a job that left its publisher.
Out(j) == Cardinality(Slots(jobs, j)) + Cardinality(Holders(worker, Workers, j)) + handled[j]

\* The publisher has yet to hand out job <<r, i, h>>, if it ever does.
Pending(r, i, h) ==
  \/ i >= next[r]
  \/ i = next[r] - 1 /\ \E k \in 1 .. Len(todo[r]) : todo[r][k] = h

\* A handler that must get event i of r.
Owed(r, i, h) == i < next[r] /\ h \in before[r] /\ EventName[h] \in {Events[r][i], "*"}

\* A handler is subscribed once, under its own name, and what a call counts on was
\* subscribed; a call's list has no handler twice.
HandlersInv ==
  /\ \A e \in Names : \A k \in 1 .. Len(handlers[e]) : EventName[handlers[e][k]] = e
  /\ \A e \in Names : \A k, l \in 1 .. Len(handlers[e]) : handlers[e][k] = handlers[e][l] => k = l
  /\ \A r \in Requests : before[r] \subseteq Subscribed
  /\ \A r \in Requests : \A k, l \in 1 .. Len(todo[r]) : todo[r][k] = todo[r][l] => k = l

\* A pending job is nowhere, any other is at most once somewhere, and one that is
\* owed and not pending is.
HandedInv ==
  \A r \in Requests : \A i \in DOMAIN Events[r], h \in Handlers :
    /\ Out(Job(r, i, h)) <= 1
    /\ Pending(r, i, h) => Out(Job(r, i, h)) = 0
    /\ Owed(r, i, h) /\ ~Pending(r, i, h) => Out(Job(r, i, h)) = 1

\* Who has left found the closed channel empty.
ExitInv ==
  /\ \A w \in Workers : worker[w] = Exited => Closed /\ jobs = <<>>
  /\ shutdown = "stopped" => \A w \in Workers : worker[w] = Exited

LEMMA OutType ==
  ASSUME TypeOK, NEW j \in Jobs
  PROVE  /\ Cardinality(Slots(jobs, j)) \in Nat
         /\ Cardinality(Holders(worker, Workers, j)) \in Nat
         /\ handled[j] \in Nat /\ Out(j) \in Nat
<1>1. Cardinality(Slots(jobs, j)) \in Nat
  BY SlotsFinite DEF TypeOK
<1>2. Cardinality(Holders(worker, Workers, j)) \in Nat
  BY HoldersFinite, BusAssumption
<1>3. handled[j] \in Nat
  BY DEF TypeOK
<1> QED
  BY <1>1, <1>2, <1>3 DEF Out

\* A worker's assignment moves one copy.
LEMMA HolderStep ==
  ASSUME TypeOK, NEW w \in Workers, NEW v, NEW j
  PROVE  worker' = [worker EXCEPT ![w] = v] =>
           Cardinality(Holders(worker', Workers, j)) + Same(j, worker[w])
             = Cardinality(Holders(worker, Workers, j)) + Same(j, v)
<1>1. ASSUME worker' = [worker EXCEPT ![w] = v]
      PROVE  (\A o \in Workers \ {w} : worker'[o] = worker[o]) /\ worker'[w] = v
  BY <1>1 DEF TypeOK
<1>2. IsFiniteSet(Workers)
  BY BusAssumption
<1>3. (\A o \in Workers \ {w} : worker'[o] = worker[o]) =>
        Cardinality(Holders(worker', Workers, j)) + Same(j, worker[w])
          = Cardinality(Holders(worker, Workers, j)) + Same(j, worker'[w])
  BY <1>2, CountUpdate
<1> QED
  BY <1>1, <1>3

\* The three ways a publisher hands out its current job.
HandOut(r) == Enqueue(r) \/ InlineDone(r) \/ \E w \in Workers : HandOver(r, w)

\* Each makes one copy of it.
LEMMA HandOutStep ==
  ASSUME TypeOK, TypeOK', CallInv, NEW r \in Requests, HandOut(r), NEW j \in Jobs
  PROVE  Out(j)' = Out(j) + Same(j, Current(r))
<1> DEFINE q == Cardinality(Slots(jobs, j))
           h == Cardinality(Holders(worker, Workers, j))
<1>1. q \in Nat /\ h \in Nat /\ handled[j] \in Nat /\ Same(j, Current(r)) \in {0, 1}
  BY OutType, SameValue
<1>2. q' \in Nat /\ h' \in Nat /\ handled'[j] \in Nat
  <2>1. q' \in Nat
    BY SlotsFinite DEF TypeOK
  <2>2. h' \in Nat
    BY HoldersFinite, BusAssumption
  <2> QED
    BY <2>1, <2>2 DEF TypeOK
<1>3. Out(j) = q + h + handled[j] /\ Out(j)' = q' + h' + handled'[j]
  BY DEF Out
<1>4. todo[r] # <<>> /\ Current(r) \in Jobs
  BY CurrentIsJob DEF HandOut, Enqueue, InlineDone, HandOver, AtSelect, CallInv
<1>f. (jobs' = jobs => q' = q) /\ (worker' = worker => h' = h)
  OBVIOUS
<1>5. CASE Enqueue(r)
  <2>1. jobs' = Append(jobs, Current(r)) /\ worker' = worker /\ handled' = handled
    BY <1>5 DEF Enqueue
  <2>2. q' = q + Same(j, Current(r))
    BY <1>4, <2>1, CountAppend DEF TypeOK
  <2>3. h' = h /\ handled'[j] = handled[j]
    BY <1>f, <2>1
  <2> HIDE DEF q, h
  <2> QED
    BY <1>1, <1>3, <2>2, <2>3
<1>6. CASE InlineDone(r)
  <2>1. jobs' = jobs /\ worker' = worker
    BY <1>6 DEF InlineDone
  <2>2. handled'[j] = handled[j] + Same(j, Current(r))
    BY <1>4, <1>6, SameValue DEF InlineDone, TypeOK
  <2>3. q' = q /\ h' = h
    BY <1>f, <2>1
  <2> HIDE DEF q, h
  <2> QED
    BY <1>1, <1>3, <2>2, <2>3
<1>7. ASSUME NEW w \in Workers, HandOver(r, w) PROVE Out(j)' = Out(j) + Same(j, Current(r))
  <2>1. worker' = [worker EXCEPT ![w] = Current(r)] /\ worker[w] = Recv
    BY <1>7 DEF HandOver
  <2>2. h' + Same(j, worker[w]) = h + Same(j, Current(r))
    BY <2>1, HolderStep
  <2>3. Same(j, worker[w]) = 0
    BY <2>1, JobsAre, SameValue
  <2>4. q' = q /\ handled' = handled
    BY <1>7, <1>f DEF HandOver
  <2> HIDE DEF q, h
  <2> QED
    BY <1>1, <1>2, <1>3, <2>2, <2>3, <2>4
<1> QED
  BY <1>5, <1>6, <1>7 DEF HandOut

\* A worker only moves copies: from the channel to its hands, and on to handled.
LEMMA WorkStep ==
  ASSUME TypeOK, TypeOK', NEW w \in Workers, Work(w), NEW j \in Jobs
  PROVE  Out(j)' = Out(j)
<1> DEFINE q == Cardinality(Slots(jobs, j))
           h == Cardinality(Holders(worker, Workers, j))
<1>1. q \in Nat /\ h \in Nat /\ handled[j] \in Nat
  BY OutType
<1>2. q' \in Nat /\ h' \in Nat /\ handled'[j] \in Nat
  <2>1. q' \in Nat
    BY SlotsFinite DEF TypeOK
  <2>2. h' \in Nat
    BY HoldersFinite, BusAssumption
  <2> QED
    BY <2>1, <2>2 DEF TypeOK
<1>3. Out(j) = q + h + handled[j] /\ Out(j)' = q' + h' + handled'[j]
  BY DEF Out
<1>f. jobs' = jobs => q' = q
  OBVIOUS
<1>s. Same(j, Recv) = 0 /\ Same(j, Exited) = 0
  BY JobsAre, SameValue
<1>4. CASE Receive(w)
  <2>1. worker' = [worker EXCEPT ![w] = Head(jobs)] /\ worker[w] = Recv
    BY <1>4 DEF Receive
  <2>2. h' + Same(j, worker[w]) = h + Same(j, Head(jobs))
    BY <2>1, HolderStep
  <2>3. q = q' + Same(j, Head(jobs))
    BY <1>4, CountTail DEF Receive, TypeOK
  <2>4. handled' = handled /\ Same(j, Head(jobs)) \in {0, 1} /\ Same(j, worker[w]) = 0
    BY <1>4, <1>s, <2>1, SameValue DEF Receive
  <2> HIDE DEF q, h
  <2> QED
    BY <1>1, <1>2, <1>3, <2>2, <2>3, <2>4
<1>5. CASE Dispatch(w)
  <2>1. worker' = [worker EXCEPT ![w] = Recv] /\ worker[w] \in Jobs
    BY <1>5 DEF Dispatch
  <2>2. h' + Same(j, worker[w]) = h + Same(j, Recv)
    BY <2>1, HolderStep
  <2>3. handled'[j] = handled[j] + Same(j, worker[w])
    BY <1>5, SameValue DEF Dispatch, TypeOK
  <2>4. q' = q /\ Same(j, worker[w]) \in {0, 1}
    BY <1>5, <1>f, SameValue DEF Dispatch
  <2> HIDE DEF q, h
  <2> QED
    BY <1>1, <1>2, <1>3, <1>s, <2>2, <2>3, <2>4
<1>6. CASE Exit(w)
  <2>1. worker' = [worker EXCEPT ![w] = Exited] /\ worker[w] = Recv
    BY <1>6 DEF Exit
  <2>2. h' + Same(j, worker[w]) = h + Same(j, Exited)
    BY <2>1, HolderStep
  <2>3. q' = q /\ handled'[j] = handled[j] /\ Same(j, worker[w]) = 0
    BY <1>6, <1>f, <1>s, <2>1 DEF Exit
  <2>4. h' = h
    BY <1>1, <1>2, <1>s, <2>2, <2>3
  <2> HIDE DEF q, h
  <2> QED
    BY <1>3, <2>3, <2>4
<1> QED
  BY <1>4, <1>5, <1>6 DEF Work

\* Being subscribed, by position.
LEMMA SubscribedAt ==
  ASSUME TypeOK, NEW h \in Handlers
  PROVE  h \in Subscribed <=>
           \E k \in 1 .. Len(handlers[EventName[h]]) : handlers[EventName[h]][k] = h
<1>1. EventName[h] \in Names
  BY DEF Names
<1>2. DOMAIN handlers[EventName[h]] = 1 .. Len(handlers[EventName[h]])
  BY <1>1 DEF TypeOK
<1> QED
  BY <1>2 DEF Subscribed, Range

\* LookUp's list: the handlers of the event's name, then those of "*".
LEMMA LookUpList ==
  ASSUME TypeOK, HandlersInv, NEW r \in Requests, LookUp(r)
  PROVE  LET e == Events[r][next[r]] IN
         /\ next[r] \in DOMAIN Events[r]
         /\ \A h \in Handlers : h \in Subscribed /\ EventName[h] \in {e, "*"} =>
              \E k \in 1 .. Len(todo'[r]) : todo'[r][k] = h
         /\ \A k, l \in 1 .. Len(todo'[r]) : todo'[r][k] = todo'[r][l] => k = l
<1> DEFINE e == Events[r][next[r]]
           a == handlers[e]
           b == handlers["*"]
<1>1. next[r] \in DOMAIN Events[r] /\ todo'[r] = a \o b
  BY DEF LookUp, TypeOK
<1>2. e \in Names /\ e # "*" /\ "*" \in Names
  BY <1>1, Inputs DEF Names
<1>3. a \in Seq(Handlers) /\ b \in Seq(Handlers)
  BY <1>2 DEF TypeOK
<1>4. /\ \A k \in 1 .. Len(a) : EventName[a[k]] = e
      /\ \A k \in 1 .. Len(b) : EventName[b[k]] = "*"
      /\ \A k, l \in 1 .. Len(a) : a[k] = a[l] => k = l
      /\ \A k, l \in 1 .. Len(b) : b[k] = b[l] => k = l
  BY <1>2 DEF HandlersInv
<1>5. \A h \in Handlers : h \in Subscribed /\ EventName[h] \in {e, "*"} =>
        (\E k \in 1 .. Len(a) : a[k] = h) \/ (\E k \in 1 .. Len(b) : b[k] = h)
  BY SubscribedAt
<1> HIDE DEF e, a, b
<1>6. /\ Len(a) \in Nat /\ Len(b) \in Nat /\ Len(a \o b) = Len(a) + Len(b)
      /\ \A k \in 1 .. Len(a) : (a \o b)[k] = a[k]
      /\ \A k \in 1 .. Len(b) : (a \o b)[Len(a) + k] = b[k]
      /\ \A k \in Len(a) + 1 .. Len(a) + Len(b) :
           k - Len(a) \in 1 .. Len(b) /\ (a \o b)[k] = b[k - Len(a)]
  BY <1>3
<1>7. \A h \in Handlers : h \in Subscribed /\ EventName[h] \in {e, "*"} =>
        \E k \in 1 .. Len(a \o b) : (a \o b)[k] = h
  <2> SUFFICES ASSUME NEW h \in Handlers, h \in Subscribed, EventName[h] \in {e, "*"}
               PROVE  \E k \in 1 .. Len(a \o b) : (a \o b)[k] = h
    OBVIOUS
  <2>1. ASSUME NEW k \in 1 .. Len(a), a[k] = h
        PROVE  k \in 1 .. Len(a \o b) /\ (a \o b)[k] = h
    BY <1>6, <2>1
  <2>2. ASSUME NEW k \in 1 .. Len(b), b[k] = h
        PROVE  Len(a) + k \in 1 .. Len(a \o b) /\ (a \o b)[Len(a) + k] = h
    BY <1>6, <2>2
  <2> QED
    BY <1>5, <2>1, <2>2
<1>8. \A k, l \in 1 .. Len(a \o b) : (a \o b)[k] = (a \o b)[l] => k = l
  <2> SUFFICES ASSUME NEW k \in 1 .. Len(a \o b), NEW l \in 1 .. Len(a \o b),
                      (a \o b)[k] = (a \o b)[l]
               PROVE  k = l
    OBVIOUS
  <2>1. \A m \in 1 .. Len(a \o b) :
          m \in 1 .. Len(a) \/ m \in Len(a) + 1 .. Len(a) + Len(b)
    BY <1>6
  <2>2. CASE k \in 1 .. Len(a) /\ l \in 1 .. Len(a)
    BY <1>4, <1>6, <2>2
  <2>3. CASE k \in Len(a) + 1 .. Len(a) + Len(b) /\ l \in Len(a) + 1 .. Len(a) + Len(b)
    <3>1. k - Len(a) = l - Len(a)
      BY <1>4, <1>6, <2>3
    <3> QED
      BY <3>1, <1>6
  <2>4. CASE k \in 1 .. Len(a) /\ l \in Len(a) + 1 .. Len(a) + Len(b)
    <3>1. EventName[(a \o b)[k]] = e /\ EventName[(a \o b)[l]] = "*"
      BY <1>4, <1>6, <2>4
    <3> QED
      BY <1>2, <3>1
  <2>5. CASE l \in 1 .. Len(a) /\ k \in Len(a) + 1 .. Len(a) + Len(b)
    <3>1. EventName[(a \o b)[l]] = e /\ EventName[(a \o b)[k]] = "*"
      BY <1>4, <1>6, <2>5
    <3> QED
      BY <1>2, <3>1
  <2> QED
    BY <2>1, <2>2, <2>3, <2>4, <2>5
<1> QED
  BY <1>1, <1>7, <1>8 DEF e

\* Every step keeps HandlersInv.
LEMMA HandlersStep ==
  ASSUME TypeOK, TypeOK', CallInv, HandlersInv, [Next]_vars
  PROVE  HandlersInv'
<1> USE DEF server, request, bus
<1>1. ASSUME NEW h \in Handlers, Subscribe(h) PROVE HandlersInv'
  <2> DEFINE n == EventName[h]
  <2>1. n \in Names
    BY DEF Names
  <2>2. /\ handlers[n] \in Seq(Handlers)
        /\ handlers'[n] = Append(handlers[n], h)
        /\ \A e \in Names \ {n} : handlers'[e] = handlers[e]
        /\ UNCHANGED <<before, todo>>
        /\ \A k \in 1 .. Len(handlers[n]) : handlers[n][k] # h
    BY <1>1, <2>1, SubscribedAt DEF Subscribe, TypeOK
  <2>3. /\ Len(handlers[n]) \in Nat /\ Len(handlers'[n]) = Len(handlers[n]) + 1
        /\ handlers'[n][Len(handlers[n]) + 1] = h
        /\ \A k \in 1 .. Len(handlers[n]) : handlers'[n][k] = handlers[n][k]
    BY <2>2
  <2>4. \A e \in Names : \A k \in 1 .. Len(handlers'[e]) : EventName[handlers'[e][k]] = e
    <3> SUFFICES ASSUME NEW e \in Names, NEW k \in 1 .. Len(handlers'[e])
                 PROVE  EventName[handlers'[e][k]] = e
      OBVIOUS
    <3>0. \A l \in 1 .. Len(handlers[e]) : EventName[handlers[e][l]] = e
      BY DEF HandlersInv
    <3>1. CASE e # n
      BY <2>2, <3>0, <3>1
    <3>2. CASE e = n /\ k = Len(handlers[n]) + 1
      BY <2>3, <3>2
    <3>3. CASE e = n /\ k # Len(handlers[n]) + 1
      <4>1. k \in 1 .. Len(handlers[n])
        BY <2>3, <3>3
      <4> QED
        BY <2>3, <3>0, <3>3, <4>1
    <3> QED
      BY <3>1, <3>2, <3>3
  <2>5. \A e \in Names : \A k, l \in 1 .. Len(handlers'[e]) :
          handlers'[e][k] = handlers'[e][l] => k = l
    <3> SUFFICES ASSUME NEW e \in Names, NEW k \in 1 .. Len(handlers'[e]),
                        NEW l \in 1 .. Len(handlers'[e]), handlers'[e][k] = handlers'[e][l]
                 PROVE  k = l
      OBVIOUS
    <3>1. CASE e # n
      BY <2>2, <3>1 DEF HandlersInv
    <3>2. CASE e = n
      <4>1. \A i, j \in 1 .. Len(handlers[n]) : handlers[n][i] = handlers[n][j] => i = j
        BY <2>1 DEF HandlersInv
      <4>2. \A i \in 1 .. Len(handlers'[n]) :
              \/ i \in 1 .. Len(handlers[n]) /\ handlers'[n][i] = handlers[n][i]
              \/ i = Len(handlers[n]) + 1 /\ handlers'[n][i] = h
        BY <2>3
      <4>3. \A i \in 1 .. Len(handlers[n]) : handlers[n][i] # h
        BY <2>2
      <4> HIDE DEF n
      <4> QED
        BY <3>2, <4>1, <4>2, <4>3
    <3> QED
      BY <3>1, <3>2
  <2>6. Subscribed \subseteq Subscribed'
    <3> SUFFICES ASSUME NEW g \in Handlers, g \in Subscribed PROVE g \in Subscribed'
      BY DEF Subscribed
    <3>1. PICK k \in 1 .. Len(handlers[EventName[g]]) : handlers[EventName[g]][k] = g
      BY SubscribedAt
    <3>2. EventName[g] \in Names
      BY DEF Names
    <3>3. k \in 1 .. Len(handlers'[EventName[g]]) /\ handlers'[EventName[g]][k] = g
      <4>1. CASE EventName[g] = n
        <5>1. k \in 1 .. Len(handlers[n]) /\ handlers[n][k] = g
          BY <3>1, <4>1
        <5>2. k \in 1 .. Len(handlers'[n]) /\ handlers'[n][k] = g
          BY <2>3, <5>1
        <5> QED
          BY <4>1, <5>2
      <4>2. CASE EventName[g] # n
        <5>1. handlers'[EventName[g]] = handlers[EventName[g]]
          BY <2>2, <3>2, <4>2
        <5> QED
          BY <3>1, <5>1
      <4> QED
        BY <4>1, <4>2
    <3>4. DOMAIN handlers'[EventName[g]] = 1 .. Len(handlers'[EventName[g]])
      BY <3>2 DEF TypeOK
    <3> QED
      BY <3>3, <3>4 DEF Subscribed, Range
  <2> QED
    BY <2>2, <2>4, <2>5, <2>6 DEF HandlersInv
<1>2. ASSUME NEW r \in Requests, Publish(r) PROVE HandlersInv'
  <2>1. /\ UNCHANGED <<handlers, todo>>
        /\ \A q \in Requests : before'[q] \in {before[q], Subscribed}
    BY <1>2 DEF Publish, TypeOK
  <2>2. Subscribed' = Subscribed
    BY <2>1 DEF Subscribed
  <2> QED
    BY <2>1, <2>2 DEF HandlersInv
<1>3. ASSUME NEW r \in Requests, LookUp(r) PROVE HandlersInv'
  <2>1. /\ UNCHANGED <<handlers, before>>
        /\ \A q \in Requests \ {r} : todo'[q] = todo[q]
    BY <1>3 DEF LookUp, TypeOK
  <2>2. \A k, l \in 1 .. Len(todo'[r]) : todo'[r][k] = todo'[r][l] => k = l
    BY <1>3, LookUpList
  <2>3. Subscribed' = Subscribed
    BY <2>1 DEF Subscribed
  <2> QED
    BY <2>1, <2>2, <2>3 DEF HandlersInv
<1>4. ASSUME NEW r \in Requests, HandOut(r) PROVE HandlersInv'
  <2>1. /\ UNCHANGED <<handlers, before>>
        /\ \A q \in Requests \ {r} : todo'[q] = todo[q]
        /\ todo'[r] = Tail(todo[r]) /\ todo[r] # <<>> /\ todo[r] \in Seq(Handlers)
    BY <1>4 DEF HandOut, Enqueue, InlineDone, HandOver, AtSelect, TypeOK, CallInv
  <2>2. /\ Len(todo[r]) \in Nat \ {0} /\ Len(todo'[r]) = Len(todo[r]) - 1
        /\ \A k \in 1 .. Len(todo'[r]) : todo'[r][k] = todo[r][k + 1]
    BY <2>1
  <2>3. \A k, l \in 1 .. Len(todo'[r]) : todo'[r][k] = todo'[r][l] => k = l
    <3>1. \A k, l \in 1 .. Len(todo[r]) : todo[r][k] = todo[r][l] => k = l
      BY DEF HandlersInv
    <3>2. \A k \in 1 .. Len(todo'[r]) : k + 1 \in 1 .. Len(todo[r])
      BY <2>2
    <3> SUFFICES ASSUME NEW k \in 1 .. Len(todo'[r]), NEW l \in 1 .. Len(todo'[r]),
                        todo'[r][k] = todo'[r][l]
                 PROVE  k = l
      OBVIOUS
    <3>3. k + 1 = l + 1
      BY <2>2, <3>1, <3>2
    <3> QED
      BY <2>2, <3>3
  <2>4. Subscribed' = Subscribed
    BY <2>1 DEF Subscribed
  <2> QED
    BY <2>1, <2>3, <2>4 DEF HandlersInv
<1>5. CASE UNCHANGED <<handlers, before, todo>>
  BY <1>5 DEF HandlersInv, Subscribed
<1>6. ASSUME NEW r \in Requests,
             Accept(r) \/ PublishReturns(r) \/ DispatchInline(r) \/ SendOnClosed(r)
      PROVE  UNCHANGED <<handlers, before, todo>>
  BY <1>6 DEF Accept, PublishReturns, DispatchInline, SendOnClosed
<1>7. ASSUME NEW w \in Workers, Work(w)
      PROVE  UNCHANGED <<handlers, before, todo>>
  BY <1>7 DEF Work, Receive, Dispatch, Exit
<1>8. CASE Signal \/ ListenFails \/ TimeOut \/ Stop \/ StopWait \/ UNCHANGED vars
  BY <1>5, <1>8 DEF Signal, ListenFails, TimeOut, Stop, StopWait, vars
<1> QED
  BY <1>1, <1>2, <1>3, <1>4, <1>5, <1>6, <1>7, <1>8 DEF Next, Serve, HandOut, Done

\* What HandedInv says of one job.
HandedAt(r, i, h) ==
  /\ Out(Job(r, i, h)) <= 1
  /\ Pending(r, i, h) => Out(Job(r, i, h)) = 0
  /\ Owed(r, i, h) /\ ~Pending(r, i, h) => Out(Job(r, i, h)) = 1

\* Every step keeps HandedInv.
LEMMA HandedStep ==
  ASSUME TypeOK, TypeOK', CallInv, HandlersInv, HandedInv, [Next]_vars
  PROVE  HandedInv'
<1> SUFFICES ASSUME NEW r \in Requests, NEW i \in DOMAIN Events[r], NEW h \in Handlers
             PROVE  HandedAt(r, i, h)'
  BY DEF HandedInv, HandedAt
<1> DEFINE j == Job(r, i, h)
<1>j. j \in Jobs /\ i \in Nat
  BY Inputs
<1>i. HandedAt(r, i, h)
  BY DEF HandedInv, HandedAt
<1>o. Out(j) \in Nat
  BY <1>j, OutType
<1>n. next[r] \in Nat
  BY DEF TypeOK
<1> USE DEF server, request, bus
<1>0. ASSUME Out(j)' = Out(j), UNCHANGED <<next[r], todo[r], before[r]>>
      PROVE  HandedAt(r, i, h)'
  BY <1>0, <1>i DEF HandedAt, Pending, Owed
<1>s. UNCHANGED <<jobs, worker, handled>> => Out(j)' = Out(j)
  BY DEF Out
<1>1. ASSUME NEW g \in Handlers, Subscribe(g) PROVE HandedAt(r, i, h)'
  BY <1>0, <1>1, <1>s DEF Subscribe
<1>2. ASSUME NEW q \in Requests,
             Accept(q) \/ PublishReturns(q) \/ DispatchInline(q) \/ SendOnClosed(q)
      PROVE  HandedAt(r, i, h)'
  BY <1>0, <1>2, <1>s DEF Accept, PublishReturns, DispatchInline, SendOnClosed
<1>3. ASSUME NEW q \in Requests, Publish(q) PROVE HandedAt(r, i, h)'
  <2>1. Out(j)' = Out(j) /\ UNCHANGED <<next, todo>>
    BY <1>3, <1>s DEF Publish
  <2>2. CASE q # r
    BY <1>0, <1>3, <2>1, <2>2 DEF Publish, TypeOK
  <2>3. CASE q = r
    <3>1. next[r] = 1 /\ i >= 1
      BY <1>3, <2>3, Inputs DEF Publish, CallInv
    <3> QED
      BY <1>i, <1>j, <2>1, <3>1 DEF HandedAt, Pending, Owed
  <2> QED
    BY <2>2, <2>3
<1>4. ASSUME NEW q \in Requests, LookUp(q) PROVE HandedAt(r, i, h)'
  <2>1. Out(j)' = Out(j) /\ before' = before
    BY <1>4, <1>s DEF LookUp
  <2>2. CASE q # r
    BY <1>0, <1>4, <2>1, <2>2 DEF LookUp, TypeOK
  <2>3. CASE q = r
    <3>1. /\ todo[r] = <<>> /\ Len(todo[r]) = 0
          /\ next'[r] = next[r] + 1
      BY <1>4, <2>3 DEF LookUp, TypeOK
    <3>2. Pending(r, i, h) <=> i >= next[r]
      BY <1>j, <1>n, <3>1 DEF Pending
    <3>3. i < next[r] => ~Pending(r, i, h)'
      BY <1>j, <1>n, <3>1 DEF Pending
    <3>4. CASE i < next[r]
      <4>1. Owed(r, i, h)' = Owed(r, i, h) /\ ~Pending(r, i, h)
        BY <1>j, <1>n, <2>1, <3>1, <3>2, <3>4 DEF Owed
      <4> QED
        BY <1>i, <2>1, <3>3, <3>4, <4>1 DEF HandedAt
    <3>5. CASE i >= next[r]
      <4>1. Out(j)' = 0
        BY <1>i, <2>1, <3>2, <3>5 DEF HandedAt
      <4>2. ~(Owed(r, i, h)' /\ ~Pending(r, i, h)')
        <5> SUFFICES ASSUME Owed(r, i, h)' PROVE Pending(r, i, h)'
          OBVIOUS
        <5>1. i = next[r] /\ h \in before[r] /\ EventName[h] \in {Events[r][i], "*"}
          BY <1>j, <1>n, <2>1, <3>1, <3>5 DEF Owed
        <5>2. h \in Subscribed
          BY <5>1 DEF HandlersInv
        <5>3. \E k \in 1 .. Len(todo'[r]) : todo'[r][k] = h
          BY <1>4, <2>3, <5>1, <5>2, LookUpList
        <5> QED
          BY <1>n, <3>1, <5>1, <5>3 DEF Pending
      <4> QED
        BY <4>1, <4>2 DEF HandedAt
    <3> QED
      BY <1>j, <1>n, <3>4, <3>5
  <2> QED
    BY <2>2, <2>3
<1>5. ASSUME NEW q \in Requests, HandOut(q) PROVE HandedAt(r, i, h)'
  <2>1. Out(j)' = Out(j) + Same(j, Current(q))
    BY <1>5, <1>j, HandOutStep
  <2>2. /\ UNCHANGED <<next, before>>
        /\ \A p \in Requests \ {q} : todo'[p] = todo[p]
        /\ todo'[q] = Tail(todo[q]) /\ todo[q] # <<>> /\ todo[q] \in Seq(Handlers)
    BY <1>5 DEF HandOut, Enqueue, InlineDone, HandOver, AtSelect, TypeOK, CallInv
  <2>3. Current(q) = Job(q, next[q] - 1, Head(todo[q]))
    BY <2>2, CurrentIsJob
  <2>4. CASE q # r
    <3>1. j # Current(q)
      BY <2>3, <2>4 DEF Job
    <3>2. Out(j)' = Out(j)
      BY <1>o, <2>1, <3>1, SameValue
    <3> QED
      BY <1>0, <2>2, <2>4, <3>2
  <2>5. CASE q = r
    <3>1. /\ Len(todo[r]) \in Nat \ {0} /\ Len(todo'[r]) = Len(todo[r]) - 1
          /\ \A k \in 1 .. Len(todo'[r]) : todo'[r][k] = todo[r][k + 1]
          /\ Head(todo[r]) = todo[r][1]
      <4>1. todo[r] # <<>> /\ todo[r] \in Seq(Handlers) /\ todo'[r] = Tail(todo[r])
        BY <2>2, <2>5
      <4>2. Len(todo[r]) \in Nat \ {0} /\ Head(todo[r]) = todo[r][1]
        BY <4>1
      <4>3. Len(Tail(todo[r])) = Len(todo[r]) - 1
        BY <4>1
      <4>4. \A k \in 1 .. Len(todo[r]) - 1 : Tail(todo[r])[k] = todo[r][k + 1]
        BY <4>1
      <4> QED
        BY <4>1, <4>2, <4>3, <4>4
    <3>2. j = Current(q) <=> i = next[r] - 1 /\ h = todo[r][1]
      BY <2>3, <2>5, <3>1 DEF Job
    <3>3. \A k, l \in 1 .. Len(todo[r]) : todo[r][k] = todo[r][l] => k = l
      BY DEF HandlersInv
    <3>4. (\E k \in 1 .. Len(todo'[r]) : todo'[r][k] = h)
            <=> h # todo[r][1] /\ \E k \in 1 .. Len(todo[r]) : todo[r][k] = h
      <4>1. ASSUME NEW k \in 1 .. Len(todo'[r]), todo'[r][k] = h
            PROVE  k + 1 \in 1 .. Len(todo[r]) /\ todo[r][k + 1] = h /\ h # todo[r][1]
        <5>1. k + 1 \in 1 .. Len(todo[r]) /\ todo[r][k + 1] = h /\ 1 \in 1 .. Len(todo[r])
          BY <3>1, <4>1
        <5>2. k + 1 # 1
          BY <3>1
        <5> QED
          BY <3>3, <5>1, <5>2
      <4>2. ASSUME NEW k \in 1 .. Len(todo[r]), todo[r][k] = h, h # todo[r][1]
            PROVE  k - 1 \in 1 .. Len(todo'[r]) /\ todo'[r][k - 1] = h
        BY <3>1, <4>2
      <4> QED
        BY <4>1, <4>2
    <3>5. CASE j = Current(q)
      <4>1. Pending(r, i, h)
        BY <3>1, <3>2, <3>5 DEF Pending
      <4>2. Out(j)' = 1
        BY <1>i, <1>o, <2>1, <3>5, <4>1, SameValue DEF HandedAt
      <4>3. ~Pending(r, i, h)'
        BY <1>j, <1>n, <2>2, <3>2, <3>4, <3>5 DEF Pending
      <4> QED
        BY <4>2, <4>3 DEF HandedAt
    <3>6. CASE j # Current(q)
      <4>1. Out(j)' = Out(j)
        BY <1>o, <2>1, <3>6, SameValue
      <4>2. Pending(r, i, h)' <=> Pending(r, i, h)
        BY <2>2, <3>2, <3>4, <3>6 DEF Pending
      <4>3. Owed(r, i, h)' <=> Owed(r, i, h)
        BY <2>2 DEF Owed
      <4> QED
        BY <1>i, <4>1, <4>2, <4>3 DEF HandedAt
    <3> QED
      BY <3>5, <3>6
  <2> QED
    BY <2>4, <2>5
<1>6. ASSUME NEW w \in Workers, Work(w) PROVE HandedAt(r, i, h)'
  <2>1. Out(j)' = Out(j)
    BY <1>6, <1>j, WorkStep
  <2> QED
    BY <1>0, <1>6, <2>1 DEF Work, Receive, Dispatch, Exit
<1>7. CASE Signal \/ ListenFails \/ TimeOut \/ Stop \/ StopWait \/ UNCHANGED vars
  BY <1>0, <1>7, <1>s DEF Signal, ListenFails, TimeOut, Stop, StopWait, vars
<1> QED
  BY <1>1, <1>2, <1>3, <1>4, <1>5, <1>6, <1>7 DEF Next, Serve, HandOut, Done

\* Every step keeps ExitInv.
LEMMA ExitStep ==
  ASSUME TypeOK, CallInv, ExitInv, [Next]_vars
  PROVE  ExitInv'
<1> USE DEF ExitInv, Closed, server, request, bus
<1>1. ASSUME NEW r \in Requests, Accept(r) \/ Serve(r) PROVE ExitInv'
  <2>1. UNCHANGED shutdown
    BY <1>1 DEF Accept, Serve, Publish, LookUp, PublishReturns, Enqueue, DispatchInline,
                InlineDone, SendOnClosed, HandOver
  <2>2. CASE Enqueue(r)
    BY <2>1, <2>2 DEF Enqueue
  <2>3. ASSUME NEW w \in Workers, HandOver(r, w) PROVE ExitInv'
    <3>1. ~Closed /\ ~Closed' /\ todo[r] # <<>>
      BY <2>1, <2>3 DEF HandOver, AtSelect
    <3>2. Current(r) \in Jobs /\ Current(r) # Exited
      BY <3>1, CurrentIsJob, JobsAre
    <3>3. worker'[w] = Current(r) /\ \A o \in Workers \ {w} : worker'[o] = worker[o]
      BY <2>3 DEF HandOver, TypeOK
    <3>4. \A o \in Workers : worker'[o] # Exited
      BY <3>1, <3>2, <3>3
    <3> QED
      BY <3>1, <3>4
  <2>4. CASE UNCHANGED <<jobs, worker>>
    BY <2>1, <2>4
  <2> QED
    BY <1>1, <2>2, <2>3, <2>4
       DEF Accept, Serve, Publish, LookUp, PublishReturns, DispatchInline, InlineDone,
           SendOnClosed
<1>2. ASSUME NEW w \in Workers, Work(w) PROVE ExitInv'
  <2>1. CASE Receive(w)
    <3>1. Head(jobs) \in Jobs /\ Head(jobs) # Exited
      BY <2>1, JobsAre DEF Receive, TypeOK
    <3>2. worker[w] # Exited
      BY <2>1 DEF Receive, Recv, Exited
    <3> QED
      BY <2>1, <3>1, <3>2 DEF Receive, TypeOK
  <2>2. CASE Dispatch(w)
    <3>1. Recv # Exited /\ worker[w] # Exited
      BY <2>2, JobsAre DEF Dispatch, Recv, Exited
    <3> QED
      BY <2>2, <3>1 DEF Dispatch, TypeOK
  <2>3. CASE Exit(w)
    BY <2>3 DEF Exit, TypeOK
  <2> QED
    BY <1>2, <2>1, <2>2, <2>3 DEF Work
<1>3. CASE \E h \in Handlers : Subscribe(h)
  BY <1>3 DEF Subscribe
<1>4. CASE Signal \/ ListenFails \/ TimeOut \/ Stop \/ StopWait
  BY <1>4 DEF Signal, ListenFails, TimeOut, Stop, StopWait
<1>5. CASE UNCHANGED vars
  BY <1>5 DEF vars
<1> QED
  BY <1>1, <1>2, <1>3, <1>4, <1>5 DEF Next, Done

BusInv == TypeOK /\ CallInv /\ HandlersInv /\ HandedInv /\ ExitInv

\* The invariant is inductive.
LEMMA BusInvHolds == Spec => []BusInv
<1>1. Init => BusInv
  <2> SUFFICES ASSUME Init PROVE HandlersInv /\ HandedInv /\ ExitInv
    BY TypeInit DEF BusInv
  <2>1. TypeOK /\ CallInv
    BY TypeInit
  <2>2. /\ \A e \in Names : Len(handlers[e]) = 0
        /\ \A r \in Requests : Len(todo[r]) = 0 /\ before[r] = {}
    BY DEF Init
  <2>3. HandlersInv
    BY <2>2 DEF HandlersInv
  <2>4. ASSUME NEW j \in Jobs PROVE Out(j) = 0
    <3>1. Slots(jobs, j) = {} /\ Holders(worker, Workers, j) = {}
      <4>1. Slots(jobs, j) = {}
        BY DEF Init, Slots
      <4>2. Holders(worker, Workers, j) = {}
        BY JobsAre DEF Init, Holders
      <4> QED
        BY <4>1, <4>2
    <3>2. Cardinality(Slots(jobs, j)) = 0 /\ Cardinality(Holders(worker, Workers, j)) = 0
      BY <3>1, FS_EmptySet
    <3>3. handled[j] = 0
      BY DEF Init
    <3> QED
      BY <3>2, <3>3 DEF Out
  <2>5. HandedInv
    <3> SUFFICES ASSUME NEW r \in Requests, NEW i \in DOMAIN Events[r], NEW h \in Handlers
                 PROVE  HandedAt(r, i, h)
      BY DEF HandedInv, HandedAt
    <3>1. Out(Job(r, i, h)) = 0
      BY <2>4, Inputs
    <3>2. ~Owed(r, i, h)
      BY <2>2 DEF Owed
    <3> QED
      BY <3>1, <3>2 DEF HandedAt
  <2>6. ExitInv
    BY DEF Init, ExitInv, Recv, Exited
  <2> QED
    BY <2>3, <2>5, <2>6
<1>2. BusInv /\ [Next]_vars => BusInv'
  BY TypeStep, HandlersStep, HandedStep, ExitStep DEF BusInv
<1> QED
  BY <1>1, <1>2, PTL DEF Spec

\* No handler is given an event twice, whichever of the channel, a waiting worker
\* and the inline path takes each job.
THEOREM EventsAreHandledOnce == Spec => []HandledAtMostOnce
<1>1. BusInv => HandledAtMostOnce
  <2> SUFFICES ASSUME BusInv, NEW j \in Jobs PROVE Copies(j) <= 1
    BY DEF HandledAtMostOnce
  <2> TypeOK /\ CallInv /\ HandlersInv /\ HandedInv
    BY DEF BusInv
  <2>0. PICK r \in Requests : \E i \in DOMAIN Events[r], h \in Handlers : j = Job(r, i, h)
    BY JobsAre
  <2>1. PICK i \in DOMAIN Events[r], h \in Handlers : j = Job(r, i, h)
    BY <2>0
  <2> DEFINE P == {q \in Requests : todo[q] # <<>> /\ Current(q) = j}
  <2>2. DOMAIN jobs = 1 .. Len(jobs)
    BY DEF TypeOK
  <2>3. Copies(j) = Cardinality(P) + Cardinality(Slots(jobs, j))
                      + Cardinality(Holders(worker, Workers, j)) + handled[j]
    BY <2>2 DEF Copies, Slots, Holders
  <2>4. \A q \in P : q = r
    BY <2>1 DEF Current, Job
  <2>5. HandedAt(r, i, h) /\ Out(j) \in Nat
    BY <2>1, OutType DEF HandedInv, HandedAt
  <2>6. CASE P = {}
    <3>1. Cardinality(P) = 0
      BY <2>6, FS_EmptySet
    <3>2. Copies(j) = Out(j)
      <4> HIDE DEF P
      <4> QED
        BY <2>3, <3>1, OutType DEF Out
    <3> QED
      BY <2>1, <2>5, <3>2 DEF HandedAt
  <2>7. CASE P # {}
    <3>1. P = {r} /\ todo[r] # <<>> /\ Current(r) = j
      BY <2>4, <2>7
    <3>2. Cardinality(P) = 1
      BY <3>1, FS_Singleton
    <3>3. i = next[r] - 1 /\ h = Head(todo[r])
      BY <2>1, <3>1 DEF Current, Job
    <3>4. 1 \in 1 .. Len(todo[r]) /\ todo[r][1] = h
      BY <3>1, <3>3 DEF TypeOK
    <3>5. Out(j) = 0
      BY <2>1, <2>5, <3>3, <3>4 DEF HandedAt, Pending
    <3>6. Copies(j) = 1
      <4> HIDE DEF P
      <4> QED
        BY <2>3, <3>2, <3>5, OutType DEF Out
    <3> QED
      BY <3>6
  <2> QED
    BY <2>6, <2>7
<1> QED
  BY <1>1, BusInvHolds, PTL

\* Once Stop has returned, a Publish that returned has reached every handler that
\* was subscribed before the call, also when the server timed out.
THEOREM StopDeliversAll == Spec => []StopDelivers
<1>1. BusInv => StopDelivers
  <2> SUFFICES ASSUME BusInv, shutdown = "stopped", NEW r \in Requests,
                      pc[r] = "returned", NEW i \in DOMAIN Events[r], NEW h \in before[r],
                      EventName[h] \in {Events[r][i], "*"}
               PROVE  handled[<<r, i, h>>] = 1
    BY DEF StopDelivers
  <2> TypeOK /\ CallInv /\ HandedInv /\ ExitInv
    BY DEF BusInv
  <2>1. h \in Handlers
    BY DEF TypeOK
  <2> DEFINE j == Job(r, i, h)
  <2>2. j \in Jobs /\ i \in 1 .. Len(Events[r]) /\ Len(Events[r]) \in Nat
    BY <2>1, Inputs
  <2>3. next[r] = Len(Events[r]) + 1 /\ todo[r] = <<>> /\ Len(todo[r]) = 0
    BY DEF CallInv
  <2>4. Owed(r, i, h) /\ ~Pending(r, i, h)
    BY <2>2, <2>3 DEF Owed, Pending
  <2>5. Out(j) = 1
    BY <2>1, <2>4 DEF HandedInv
  <2>6. \A w \in Workers : worker[w] = Exited
    BY DEF ExitInv
  <2>7. jobs = <<>>
    BY <2>6, BusAssumption DEF ExitInv
  <2>8. Slots(jobs, j) = {} /\ Holders(worker, Workers, j) = {}
    <3>1. Slots(jobs, j) = {}
      BY <2>7 DEF Slots
    <3>2. Holders(worker, Workers, j) = {}
      BY <2>2, <2>6, JobsAre DEF Holders
    <3> QED
      BY <3>1, <3>2
  <2>9. Cardinality(Slots(jobs, j)) = 0 /\ Cardinality(Holders(worker, Workers, j)) = 0
    BY <2>8, FS_EmptySet
  <2>10. handled[j] = 1
    <3>1. handled[j] \in Nat
      BY <2>2, OutType
    <3>2. 0 + 0 + handled[j] = 1
      BY <2>5, <2>9 DEF Out
    <3> QED
      BY <3>1, <3>2
  <2> QED
    BY <2>10 DEF Job
<1> QED
  BY <1>1, BusInvHolds, PTL
=============================================================================
