-------------------------- MODULE WorkerPoolProofs --------------------------
(* Theorems about WorkerPool, for any number of submitters and workers and   *)
(* any capacity: Stop never closes the task channel under a goroutine that   *)
(* is sending, an accepted task is in one place, and Stop drains.            *)
EXTENDS WorkerPool, ChannelTheorems

\* A call gets to its send only while the pool is not stopped, and Stop gets the
\* write lock only when no call is at its send.
LockInv ==
  /\ call \in [Tasks -> Calls]
  /\ NeverSendsOnClosed

\* Every step keeps LockInv.
LEMMA LockStep ==
  ASSUME LockInv, [Next]_vars
  PROVE  LockInv'
<1> USE DEF LockInv, NeverSendsOnClosed, Readers, Calls, Returned
<1>1. ASSUME NEW t \in Tasks, Arrive(t) \/ Offer(t) PROVE LockInv'
  <2>1. CASE Arrive(t)
    BY <2>1 DEF Arrive, managers
  <2>2. CASE RLock(t)
    BY <2>2 DEF RLock, managers
  <2>3. CASE SendBuffered(t) \/ SendFull(t) \/ \E w \in Workers : SendDirect(t, w)
    BY <2>3 DEF SendBuffered, SendFull, SendDirect, managers
  <2> QED
    BY <1>1, <2>1, <2>2, <2>3 DEF Offer
<1>2. ASSUME NEW w \in Workers, Work(w) PROVE LockInv'
  BY <1>2 DEF Work, Receive, Run, Exit, managers
<1>3. CASE StopLocked
  BY <1>3 DEF StopLocked
<1>4. CASE StartCall \/ StopCall \/ StartLocked \/ StartSpawn \/ StopWait
  BY <1>4 DEF StartCall, StopCall, StartLocked, StartSpawn, StopWait
<1>5. CASE UNCHANGED vars
  BY <1>5 DEF vars
<1> QED
  BY <1>1, <1>2, <1>3, <1>4, <1>5 DEF Next, Manage, Done

\* However Start, Stop, Submit and TrySubmit overlap, no call is at its send when
\* the channel is closed: Submit cannot panic.
THEOREM SubmitNeverPanics == Spec => []NeverSendsOnClosed
<1>1. Init => LockInv
  BY DEF Init, LockInv, NeverSendsOnClosed, Calls
<1>2. LockInv /\ [Next]_vars => LockInv'
  BY LockStep
<1>3. LockInv => NeverSendsOnClosed
  BY DEF LockInv
<1> QED
  BY <1>1, <1>2, <1>3, PTL DEF Spec

-----------------------------------------------------------------------------
(* Type correctness.                                                        *)

\* Every step keeps the types.
LEMMA TypeStep ==
  ASSUME TypeOK, [Next]_vars
  PROVE  TypeOK'
<1> USE DEF TypeOK, Calls, Returned, Managers, WorkerStates, managers
<1> QueueSize \in Nat
  BY PoolAssumption
<1>1. ASSUME NEW t \in Tasks, Arrive(t) PROVE TypeOK'
  BY <1>1 DEF Arrive
<1>2. ASSUME NEW t \in Tasks, RLock(t) PROVE TypeOK'
  BY <1>2 DEF RLock
<1>3. ASSUME NEW t \in Tasks, SendBuffered(t) PROVE TypeOK'
  BY <1>3 DEF SendBuffered
<1>4. ASSUME NEW t \in Tasks, SendFull(t) PROVE TypeOK'
  BY <1>4 DEF SendFull
<1>5. ASSUME NEW t \in Tasks, NEW w \in Workers, SendDirect(t, w) PROVE TypeOK'
  BY <1>5 DEF SendDirect
<1>6. ASSUME NEW w \in Workers, Receive(w) PROVE TypeOK'
  BY <1>6 DEF Receive
<1>7. ASSUME NEW w \in Workers, Run(w) PROVE TypeOK'
  BY <1>7 DEF Run
<1>8. ASSUME NEW w \in Workers, Exit(w) PROVE TypeOK'
  BY <1>8 DEF Exit
<1>9. CASE StartCall \/ StopCall
  BY <1>9 DEF StartCall, StopCall
<1>10. CASE StartLocked \/ StopLocked
  BY <1>10 DEF StartLocked, StopLocked
<1>11. CASE StartSpawn \/ StopWait
  BY <1>11 DEF StartSpawn, StopWait
<1>12. CASE UNCHANGED vars
  BY <1>12 DEF vars
<1> QED
  BY <1>1, <1>2, <1>3, <1>4, <1>5, <1>6, <1>7, <1>8, <1>9, <1>10, <1>11, <1>12
     DEF Next, Offer, Work, Manage, Done

\* The initial state has the types.
LEMMA TypeInit == Init => TypeOK
<1> SUFFICES ASSUME Init PROVE TypeOK
  OBVIOUS
<1>1. tasks \in Seq(Tasks) /\ Len(tasks) <= QueueSize
  BY PoolAssumption DEF Init
<1>2. call \in [Tasks -> Calls] /\ worker \in [Workers -> WorkerStates \cup Tasks]
  BY DEF Init, Calls, WorkerStates
<1> QED
  BY <1>1, <1>2 DEF Init, TypeOK, Managers

\* The pool's fields keep their types, and the channel its capacity.
THEOREM PoolTypeCorrect == Spec => []TypeOK
<1>1. Init => TypeOK
  BY TypeInit
<1>2. TypeOK /\ [Next]_vars => TypeOK'
  BY TypeStep
<1> QED
  BY <1>1, <1>2, PTL DEF Spec

-----------------------------------------------------------------------------
(* An accepted task is in exactly one place.                                *)

\* No worker holds a task before Start has spawned it.
SpawnInv == starter # "returned" => \A w \in Workers : worker[w] = "off"

\* Workers are off until Start has returned.
LEMMA SpawnStep ==
  ASSUME TypeOK, SpawnInv, [Next]_vars
  PROVE  SpawnInv'
<1> USE DEF SpawnInv, managers
<1>1. ASSUME NEW t \in Tasks, Arrive(t) \/ Offer(t) PROVE SpawnInv'
  BY <1>1 DEF Arrive, Offer, RLock, SendBuffered, SendFull, SendDirect
<1>2. ASSUME NEW w \in Workers, Work(w) PROVE SpawnInv'
  BY <1>2, TaskAssumption DEF Work, Receive, Run, Exit, WorkerStates
<1>3. CASE StartCall \/ StopCall \/ Manage
  BY <1>3 DEF StartCall, StopCall, Manage, StartLocked, StartSpawn, StopLocked, StopWait
<1>4. CASE UNCHANGED vars
  BY <1>4 DEF vars
<1> QED
  BY <1>1, <1>2, <1>3, <1>4 DEF Next, Done

\* Copies in the terms of ChannelTheorems.
LEMMA CopiesAre ==
  ASSUME NEW t
  PROVE  Copies(t) = Cardinality(Slots(tasks, t)) + Cardinality(Holders(worker, Workers, t)) + runs[t]
BY DEF Copies, Slots, Holders

\* Every step keeps an accepted task in one place.
LEMMA ExactlyOnceStep ==
  ASSUME TypeOK, SpawnInv, AcceptedExactlyOnce, [Next]_vars
  PROVE  AcceptedExactlyOnce'
<1> SUFFICES ASSUME NEW u \in Tasks
             PROVE  (Copies(u) = IF call[u] = "accepted" THEN 1 ELSE 0)'
  BY DEF AcceptedExactlyOnce
<1> DEFINE q == Cardinality(Slots(tasks, u))
           h == Cardinality(Holders(worker, Workers, u))
<1>a. Copies(u) = q + h + runs[u] /\ Copies(u)' = q' + h' + runs'[u]
  BY CopiesAre DEF Copies, Slots, Holders
<1>b. /\ q \in Nat /\ h \in Nat /\ runs[u] \in Nat
      /\ q' \in Nat /\ h' \in Nat
  <2>1. tasks \in Seq(Tasks) /\ tasks' \in Seq(Tasks) /\ runs[u] \in Nat
    BY TypeStep DEF TypeOK
  <2>2. q \in Nat /\ q' \in Nat
    BY <2>1, SlotsFinite
  <2>3. h \in Nat /\ h' \in Nat
    BY PoolAssumption, HoldersFinite
  <2> QED
    BY <2>1, <2>2, <2>3
<1>c. q + h + runs[u] = IF call[u] = "accepted" THEN 1 ELSE 0
  BY <1>a DEF AcceptedExactlyOnce
<1> SUFFICES q' + h' + runs'[u] = IF call'[u] = "accepted" THEN 1 ELSE 0
  BY <1>a
<1>d. u \notin WorkerStates
  BY TaskAssumption
<1>e. ASSUME NEW w \in Workers, NEW v, worker' = [worker EXCEPT ![w] = v]
      PROVE  h' + Same(u, worker[w]) = h + Same(u, v)
  <2>1. \A o \in Workers \ {w} : worker'[o] = worker[o]
    BY <1>e DEF TypeOK
  <2>2. IsFiniteSet(Workers)
    BY PoolAssumption
  <2>3. Cardinality(Holders(worker', Workers, u)) + Same(u, worker[w])
          = Cardinality(Holders(worker, Workers, u)) + Same(u, worker'[w])
    BY <2>1, <2>2, CountUpdate
  <2>4. worker'[w] = v
    BY <1>e DEF TypeOK
  <2> QED
    BY <2>3, <2>4
<1>f. tasks' = tasks => q' = q
  OBVIOUS
<1>g. worker' = worker => h' = h
  OBVIOUS
<1> HIDE DEF q, h
<1>1. ASSUME NEW t \in Tasks, Arrive(t) \/ RLock(t) \/ SendFull(t)
      PROVE  q' + h' + runs'[u] = IF call'[u] = "accepted" THEN 1 ELSE 0
  BY <1>1, <1>b, <1>c, <1>f, <1>g DEF Arrive, RLock, SendFull, TypeOK
<1>2. ASSUME NEW t \in Tasks, SendBuffered(t)
      PROVE  q' + h' + runs'[u] = IF call'[u] = "accepted" THEN 1 ELSE 0
  <2>1. q' = q + Same(u, t)
    BY <1>2, CountAppend DEF SendBuffered, TypeOK, q
  <2>2. /\ call[t] = "send" /\ call'[u] = (IF u = t THEN "accepted" ELSE call[u])
        /\ h' = h /\ runs' = runs
    BY <1>2, <1>g DEF SendBuffered, TypeOK
  <2> QED
    BY <1>b, <1>c, <2>1, <2>2 DEF Same
<1>3. ASSUME NEW t \in Tasks, NEW w \in Workers, SendDirect(t, w)
      PROVE  q' + h' + runs'[u] = IF call'[u] = "accepted" THEN 1 ELSE 0
  <2>1. worker' = [worker EXCEPT ![w] = t] /\ worker[w] # u
    BY <1>3, <1>d DEF SendDirect, WorkerStates
  <2>2. h' + Same(u, worker[w]) = h + Same(u, t)
    BY <2>1, <1>e, Zenon
  <2>3. /\ call[t] = "send" /\ call'[u] = (IF u = t THEN "accepted" ELSE call[u])
        /\ q' = q /\ runs' = runs
    BY <1>3, <1>f DEF SendDirect, TypeOK
  <2> QED
    BY <1>b, <1>c, <2>1, <2>2, <2>3, SameValue
<1>4. ASSUME NEW w \in Workers, Receive(w)
      PROVE  q' + h' + runs'[u] = IF call'[u] = "accepted" THEN 1 ELSE 0
  <2>1. q = q' + Same(u, Head(tasks))
    BY <1>4, CountTail DEF Receive, TypeOK, q
  <2>2. worker' = [worker EXCEPT ![w] = Head(tasks)] /\ worker[w] # u
    BY <1>4, <1>d DEF Receive, WorkerStates
  <2>3. h' + Same(u, worker[w]) = h + Same(u, Head(tasks))
    BY <2>2, <1>e, Zenon
  <2>4. runs' = runs /\ call' = call
    BY <1>4 DEF Receive
  <2> QED
    BY <1>b, <1>c, <2>1, <2>2, <2>3, <2>4, SameValue
<1>5. ASSUME NEW w \in Workers, Run(w)
      PROVE  q' + h' + runs'[u] = IF call'[u] = "accepted" THEN 1 ELSE 0
  <2>1. worker' = [worker EXCEPT ![w] = "recv"] /\ "recv" # u
    BY <1>5, <1>d DEF Run, WorkerStates
  <2>2. h' + Same(u, worker[w]) = h + Same(u, "recv")
    BY <2>1, <1>e, Zenon
  <2>3. runs'[u] = runs[u] + Same(u, worker[w])
    BY <1>5, SameValue DEF Run, TypeOK
  <2>4. q' = q /\ call' = call
    BY <1>5, <1>f DEF Run
  <2> QED
    BY <1>b, <1>c, <2>1, <2>2, <2>3, <2>4, SameValue
<1>6. ASSUME NEW w \in Workers, Exit(w)
      PROVE  q' + h' + runs'[u] = IF call'[u] = "accepted" THEN 1 ELSE 0
  <2>1. worker' = [worker EXCEPT ![w] = "exited"] /\ "exited" # u /\ worker[w] # u
    BY <1>6, <1>d DEF Exit, WorkerStates
  <2>2. h' + Same(u, worker[w]) = h + Same(u, "exited")
    BY <2>1, <1>e, Zenon
  <2>3. q' = q /\ runs' = runs /\ call' = call
    BY <1>6, <1>f DEF Exit
  <2> QED
    BY <1>b, <1>c, <2>1, <2>2, <2>3, SameValue
<1>7. CASE StartSpawn
  <2>1. Holders(worker, Workers, u) = {} /\ Holders(worker, Workers, u)' = {}
    BY <1>7, <1>d DEF StartSpawn, SpawnInv, Holders, WorkerStates
  <2> QED
    BY <1>7, <1>c, <1>f, <2>1 DEF StartSpawn, h
<1>8. CASE StartCall \/ StopCall \/ StartLocked \/ StopLocked \/ StopWait
  BY <1>8, <1>c, <1>f, <1>g DEF StartCall, StopCall, StartLocked, StopLocked, StopWait
<1>9. CASE UNCHANGED vars
  BY <1>9, <1>c, <1>f, <1>g DEF vars
<1> QED
  BY <1>1, <1>2, <1>3, <1>4, <1>5, <1>6, <1>7, <1>8, <1>9
     DEF Next, Offer, Work, Manage, Done

OnceInv == TypeOK /\ SpawnInv /\ AcceptedExactlyOnce

\* OnceInv is inductive.
LEMMA OnceInvHolds == Spec => []OnceInv
<1>1. Init => OnceInv
  <2> SUFFICES ASSUME Init PROVE OnceInv
    OBVIOUS
  <2>1. TypeOK
    BY TypeInit
  <2>2. SpawnInv
    BY DEF Init, SpawnInv
  <2>3. ASSUME NEW t \in Tasks PROVE Copies(t) = 0
    <3>1. Slots(tasks, t) = {} /\ Holders(worker, Workers, t) = {}
      BY TaskAssumption DEF Init, Slots, Holders, WorkerStates
    <3> QED
      <4>1. Cardinality(Slots(tasks, t)) = 0 /\ Cardinality(Holders(worker, Workers, t)) = 0
        BY <3>1, FS_EmptySet
      <4>2. runs[t] = 0
        BY DEF Init
      <4> QED
        BY <4>1, <4>2, CopiesAre
  <2>4. AcceptedExactlyOnce
    BY <2>3 DEF AcceptedExactlyOnce, Init
  <2> QED
    BY <2>1, <2>2, <2>4 DEF OnceInv
<1>2. OnceInv /\ [Next]_vars => OnceInv'
  BY TypeStep, SpawnStep, ExactlyOnceStep DEF OnceInv
<1> QED
  BY <1>1, <1>2, PTL DEF Spec

\* No task is lost, duplicated or run although refused, however Submit, TrySubmit,
\* Start, Stop and the workers overlap.
THEOREM AcceptedTasksAreKept == Spec => []AcceptedExactlyOnce
<1>1. OnceInv => AcceptedExactlyOnce
  BY DEF OnceInv
<1> QED
  BY <1>1, OnceInvHolds, PTL

-----------------------------------------------------------------------------
(* Stop returns after the last accepted task.                               *)

\* Who has left found the closed channel empty; and when Start came first, Stop
\* sees the workers Start added and waits for them.
DrainInv ==
  /\ stopper \in {"idle", "lock"} => ~stopped
  /\ \A w \in Workers : worker[w] = "exited" => stopped /\ tasks = <<>>
  /\ ordered =>
       /\ starter # "returned" => stopper = "idle"
       /\ started <=> starter \in {"spawn", "returned"}
       /\ starter = "returned" => \A w \in Workers : worker[w] # "off"
       /\ stopper = "returned" => \A w \in Workers : worker[w] = "exited"

\* Every step keeps DrainInv.
LEMMA DrainStep ==
  ASSUME TypeOK, LockInv, SpawnInv, DrainInv, [Next]_vars
  PROVE  DrainInv'
<1> USE DEF DrainInv, managers
<1>1. ASSUME NEW t \in Tasks, Arrive(t) \/ RLock(t) \/ SendFull(t) PROVE DrainInv'
  BY <1>1 DEF Arrive, RLock, SendFull
<1>2. ASSUME NEW t \in Tasks, SendBuffered(t) PROVE DrainInv'
  <2>1. ~stopped
    BY <1>2 DEF SendBuffered, LockInv, NeverSendsOnClosed, Readers
  <2> QED
    BY <1>2, <2>1 DEF SendBuffered
<1>3. ASSUME NEW t \in Tasks, NEW w \in Workers, SendDirect(t, w) PROVE DrainInv'
  BY <1>3, TaskAssumption DEF SendDirect, WorkerStates, TypeOK
<1>4. ASSUME NEW w \in Workers, Receive(w) PROVE DrainInv'
  <2>1. Head(tasks) \notin WorkerStates
    BY <1>4, TaskAssumption DEF Receive, TypeOK
  <2> QED
    BY <1>4, <2>1 DEF Receive, WorkerStates, TypeOK
<1>5. ASSUME NEW w \in Workers, Run(w) PROVE DrainInv'
  <2>1. worker[w] \notin WorkerStates
    BY <1>5, TaskAssumption DEF Run
  <2> QED
    BY <1>5, <2>1 DEF Run, WorkerStates, TypeOK
<1>6. ASSUME NEW w \in Workers, Exit(w) PROVE DrainInv'
  BY <1>6 DEF Exit, TypeOK
<1>7. CASE StartCall
  BY <1>7 DEF StartCall
<1>8. CASE StartLocked
  BY <1>8 DEF StartLocked, TypeOK
<1>9. CASE StartSpawn
  BY <1>9 DEF StartSpawn
<1>10. CASE StopCall
  BY <1>10 DEF StopCall, MayCall
<1>11. CASE StopLocked
  BY <1>11 DEF StopLocked
<1>12. CASE StopWait
  BY <1>12 DEF StopWait, Running
<1>13. CASE UNCHANGED vars
  BY <1>13 DEF vars
<1> QED
  BY <1>1, <1>2, <1>3, <1>4, <1>5, <1>6, <1>7, <1>8, <1>9, <1>10, <1>11, <1>12, <1>13
     DEF Next, Offer, Work, Manage, Done

\* Once Stop has returned to a caller that let Start return first, every task
\* Submit accepted has been executed.
THEOREM StopRunsEveryTask == Spec => []StopDrains
<1> DEFINE I == OnceInv /\ LockInv /\ DrainInv
<1>1. Init => LockInv /\ DrainInv
  BY DEF Init, LockInv, NeverSendsOnClosed, Calls, DrainInv
<1>2. OnceInv /\ LockInv /\ DrainInv /\ [Next]_vars => LockInv' /\ DrainInv'
  BY LockStep, DrainStep DEF OnceInv
<1>3. I => StopDrains
  <2> SUFFICES ASSUME I, ordered, stopper = "returned", NEW t \in Tasks, call[t] = "accepted"
               PROVE  runs[t] = 1
    BY DEF StopDrains
  <2>1. \A w \in Workers : worker[w] = "exited"
    BY DEF DrainInv
  <2>2. tasks = <<>>
    BY <2>1, PoolAssumption DEF DrainInv
  <2>3. Slots(tasks, t) = {} /\ Holders(worker, Workers, t) = {}
    BY <2>1, <2>2, TaskAssumption DEF Slots, Holders, WorkerStates
  <2>4. Copies(t) = runs[t]
    <3>1. Cardinality(Slots(tasks, t)) = 0 /\ Cardinality(Holders(worker, Workers, t)) = 0
      BY <2>3, FS_EmptySet
    <3>2. runs[t] \in Nat
      BY DEF OnceInv, TypeOK
    <3> QED
      BY <3>1, <3>2, CopiesAre
  <2> QED
    BY <2>4 DEF OnceInv, AcceptedExactlyOnce
<1> QED
  BY <1>1, <1>2, <1>3, OnceInvHolds, PTL DEF Spec
=============================================================================
