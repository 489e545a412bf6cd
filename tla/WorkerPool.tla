----------------------------- MODULE WorkerPool -----------------------------
(* pkg/concurrency.Pool: goroutines that call Submit or TrySubmit, one that *)
(* calls Start and one that calls Stop, over a buffered task channel and a  *)
(* sync.RWMutex.  A call in "send" holds the read lock, also while it is    *)
(* blocked on a full channel; a manager in "lock" waits for the write lock  *)
(* and keeps new readers out.  A nil task, which Submit and TrySubmit return *)
(* at once, is left out: no caller passes one.                              *)

EXTENDS Naturals, Sequences, FiniteSets

CONSTANTS
  Tasks,       \* one task per call of Submit or TrySubmit
  TryTasks,    \* the tasks offered with TrySubmit
  Workers,     \* worker goroutines
  QueueSize    \* capacity of the task channel

ASSUME PoolAssumption ==
  /\ TryTasks \subseteq Tasks
  /\ IsFiniteSet(Workers) /\ Workers # {}
  /\ QueueSize \in Nat

VARIABLES
  call,     \* call[t]: where the call offering t is, or what it returned
  starter,  \* where the goroutine calling Start is
  stopper,  \* where the goroutine calling Stop is
  started,  \* Pool.started
  stopped,  \* Pool.stopped; the channel is closed with it
  tasks,    \* contents of the task channel
  worker,   \* worker[w]: state of a worker, or the task it runs
  runs,     \* runs[t]: times t was executed
  ordered   \* the caller lets Start return before anything else is called

vars == <<call, starter, stopper, started, stopped, tasks, worker, runs, ordered>>
managers == <<starter, stopper, started, stopped, ordered>>

Returned == {"accepted", "refused", "full"}
Calls == {"idle", "rlock", "send"} \cup Returned
Managers == {"idle", "lock", "spawn", "wait", "returned"}
\* "off" before Start, "recv" waiting for a task, "exited" after the loop.
WorkerStates == {"off", "recv", "exited"}

\* A task is not taken for a state of the worker that runs it.
ASSUME TaskAssumption == Tasks \cap WorkerStates = {}

\* The holders of the read lock, and whether someone waits for the write lock.
Readers == {t \in Tasks : call[t] = "send"}
WriterWaits == "lock" \in {starter, stopper}

\* The WaitGroup's counter: workers spawned and not yet done.
Running == {w \in Workers : worker[w] \notin {"off", "exited"}}

\* bootstrap.New starts the pool before it hands it out; a test need not.
MayCall == ordered => starter = "returned"

-----------------------------------------------------------------------------
(* Submit and TrySubmit                                                     *)

Arrive(t) ==
  /\ call[t] = "idle"
  /\ MayCall
  /\ call' = [call EXCEPT ![t] = "rlock"]
  /\ UNCHANGED <<managers, tasks, worker, runs>>

\* RLock, and the early return from a stopped pool.
RLock(t) ==
  /\ call[t] = "rlock"
  /\ ~WriterWaits
  /\ call' = [call EXCEPT ![t] = IF stopped THEN "refused" ELSE "send"]
  /\ UNCHANGED <<managers, tasks, worker, runs>>

\* Variant: the buffer is one larger than queueSize.
SendBufferedOneMore(t) ==
  /\ call[t] = "send"
  /\ Len(tasks) <= QueueSize
  /\ tasks' = Append(tasks, t)
  /\ call' = [call EXCEPT ![t] = "accepted"]
  /\ UNCHANGED <<managers, worker, runs>>

\* The channel has room.
SendBuffered(t) ==
  /\ call[t] = "send"
  /\ Len(tasks) < QueueSize
  /\ tasks' = Append(tasks, t)
  /\ call' = [call EXCEPT ![t] = "accepted"]
  /\ UNCHANGED <<managers, worker, runs>>

\* A worker is waiting: the task is handed to it.
SendDirect(t, w) ==
  /\ call[t] = "send"
  /\ tasks = <<>>
  /\ worker[w] = "recv"
  /\ worker' = [worker EXCEPT ![w] = t]
  /\ call' = [call EXCEPT ![t] = "accepted"]
  /\ UNCHANGED <<managers, tasks, runs>>

\* TrySubmit's default case.
SendFull(t) ==
  /\ call[t] = "send"
  /\ t \in TryTasks
  /\ Len(tasks) = QueueSize
  /\ tasks # <<>> \/ \A w \in Workers : worker[w] # "recv"
  /\ call' = [call EXCEPT ![t] = "full"]
  /\ UNCHANGED <<managers, tasks, worker, runs>>

-----------------------------------------------------------------------------
(* Start                                                                    *)

StartCall ==
  /\ starter = "idle"
  /\ starter' = "lock"
  /\ UNCHANGED <<ordered, call, stopper, started, stopped, tasks, worker, runs>>

\* The critical section of Start.
StartLocked ==
  /\ starter = "lock"
  /\ Readers = {}
  /\ started' = (started \/ ~stopped)
  /\ starter' = IF started \/ stopped THEN "returned" ELSE "spawn"
  /\ UNCHANGED <<ordered, call, stopper, stopped, tasks, worker, runs>>

\* wg.Add and the go statements, after the unlock.
StartSpawn ==
  /\ starter = "spawn"
  /\ starter' = "returned"
  /\ worker' = [w \in Workers |-> "recv"]
  /\ UNCHANGED <<ordered, call, stopper, started, stopped, tasks, runs>>

-----------------------------------------------------------------------------
(* Workers                                                                  *)

\* Variant: the task also stays in the channel.
ReceiveKeeps(w) ==
  /\ worker[w] = "recv"
  /\ tasks # <<>>
  /\ worker' = [worker EXCEPT ![w] = Head(tasks)]
  /\ UNCHANGED <<call, managers, tasks, runs>>

\* Variant: the worker only puts the task back at the end of the channel.
ReceiveRequeues(w) ==
  /\ worker[w] = "recv"
  /\ tasks # <<>>
  /\ tasks' = Append(Tail(tasks), Head(tasks))
  /\ UNCHANGED <<call, managers, worker, runs>>

Receive(w) ==
  /\ worker[w] = "recv"
  /\ tasks # <<>>
  /\ worker' = [worker EXCEPT ![w] = Head(tasks)]
  /\ tasks' = Tail(tasks)
  /\ UNCHANGED <<call, managers, runs>>

Run(w) ==
  /\ worker[w] \in Tasks
  /\ runs' = [runs EXCEPT ![worker[w]] = @ + 1]
  /\ worker' = [worker EXCEPT ![w] = "recv"]
  /\ UNCHANGED <<call, managers, tasks>>

\* Variant: a worker leaves as soon as the channel is closed.
ExitUndrained(w) ==
  /\ worker[w] = "recv"
  /\ stopped
  /\ worker' = [worker EXCEPT ![w] = "exited"]
  /\ UNCHANGED <<call, managers, tasks, runs>>

\* range ends when the channel is closed and empty.
Exit(w) ==
  /\ worker[w] = "recv"
  /\ stopped
  /\ tasks = <<>>
  /\ worker' = [worker EXCEPT ![w] = "exited"]
  /\ UNCHANGED <<call, managers, tasks, runs>>

-----------------------------------------------------------------------------
(* Stop (its once makes later calls wait for the first)                     *)

StopCall ==
  /\ stopper = "idle"
  /\ MayCall
  /\ stopper' = "lock"
  /\ UNCHANGED <<ordered, call, starter, started, stopped, tasks, worker, runs>>

\* Variant: Stop closes the channel without the lock.
StopUnlocked ==
  /\ stopper = "lock"
  /\ stopped' = TRUE
  /\ stopper' = IF started THEN "wait" ELSE "returned"
  /\ UNCHANGED <<ordered, call, starter, started, tasks, worker, runs>>

\* The critical section of Stop.
StopLocked ==
  /\ stopper = "lock"
  /\ Readers = {}
  /\ stopped' = TRUE
  /\ stopper' = IF started THEN "wait" ELSE "returned"
  /\ UNCHANGED <<ordered, call, starter, started, tasks, worker, runs>>

StopWait ==
  /\ stopper = "wait"
  /\ Running = {}
  /\ stopper' = "returned"
  /\ UNCHANGED <<ordered, call, starter, started, stopped, tasks, worker, runs>>

-----------------------------------------------------------------------------

Init ==
  /\ call = [t \in Tasks |-> "idle"]
  /\ starter = "idle"
  /\ stopper = "idle"
  /\ started = FALSE
  /\ stopped = FALSE
  /\ tasks = <<>>
  /\ worker = [w \in Workers |-> "off"]
  /\ runs = [t \in Tasks |-> 0]
  /\ ordered \in BOOLEAN

Offer(t) ==
  \/ RLock(t) \/ SendBuffered(t) \/ SendFull(t)
  \/ \E w \in Workers : SendDirect(t, w)

Work(w) == Receive(w) \/ Run(w) \/ Exit(w)

Manage == StartLocked \/ StartSpawn \/ StopLocked \/ StopWait

\* Every call returned and every worker left.
Done ==
  /\ \A t \in Tasks : call[t] \in Returned
  /\ stopper = "returned"
  /\ Running = {}
  /\ UNCHANGED vars

Next ==
  \/ \E t \in Tasks : Arrive(t) \/ Offer(t)
  \/ \E w \in Workers : Work(w)
  \/ StartCall \/ StopCall \/ Manage
  \/ Done

Spec == Init /\ [][Next]_vars

\* Goroutines that can run do; a channel wakes its blocked senders in turn, and
\* a released RWMutex the readers it kept out.
FairSpec ==
  /\ Spec
  /\ \A t \in Tasks : SF_vars(Offer(t))
  /\ \A w \in Workers : WF_vars(Work(w))
  /\ WF_vars(Manage)

-----------------------------------------------------------------------------

\* Values of the pool's fields; the channel never holds more than queueSize.
TypeOK ==
  /\ call \in [Tasks -> Calls]
  /\ starter \in Managers
  /\ stopper \in Managers
  /\ started \in BOOLEAN
  /\ stopped \in BOOLEAN
  /\ tasks \in Seq(Tasks) /\ Len(tasks) <= QueueSize
  /\ worker \in [Workers -> WorkerStates \cup Tasks]
  /\ runs \in [Tasks -> Nat]
  /\ ordered \in BOOLEAN

\* No Submit is at its send once Stop has closed the channel, which would panic:
\* the read lock covers both the check of stopped and the send.
NeverSendsOnClosed == stopped => Readers = {}

\* Copies of t the pool holds or has executed.
Copies(t) ==
  Cardinality({i \in 1 .. Len(tasks) : tasks[i] = t})
  + Cardinality({w \in Workers : worker[w] = t}) + runs[t]

\* A task Submit accepted is in the pool or was executed, once; a task it refused
\* is in neither, whatever the order of Start, Stop and the workers.
AcceptedExactlyOnce ==
  \A t \in Tasks : Copies(t) = IF call[t] = "accepted" THEN 1 ELSE 0

\* When Stop returns every accepted task has been executed, provided Start came
\* first: a Stop that overlaps Start can return before the workers are added.
StopDrains ==
  ordered /\ stopper = "returned" =>
    \A t \in Tasks : call[t] = "accepted" => runs[t] = 1

\* Every Submit, TrySubmit and Stop returns, provided Start came first: a Submit
\* blocked on a full channel keeps Stop out only until a worker makes room.
CallsReturn ==
  /\ \A t \in Tasks : ordered /\ call[t] # "idle" ~> call[t] \in Returned
  /\ ordered /\ stopper # "idle" ~> stopper = "returned"
=============================================================================
