-------------------------- MODULE DispatcherProofs --------------------------
(* Theorems about Dispatcher, for any number of notifications and workers,   *)
(* any capacity and any number of crashes.  A notification the channel took  *)
(* is in one place at a time: in the channel, with one worker, or finished.  *)
EXTENDS Dispatcher, TLAPS

Busy(w) == worker[w].doing \in {"send", "update"}

\* What the values of worker mean.
LEMMA WorkerValues ==
  ASSUME TypeOK, NEW w \in Workers
  PROVE  /\ worker[w].doing \in Doing
         /\ Busy(w) => worker[w] = On(worker[w].doing, Target(w)) /\ Target(w) \in Notifications
         /\ ~Busy(w) => worker[w] = At(worker[w].doing)
<1>1. CASE worker[w] \in [doing : {"recv", "exited"}, on : {<<>>}]
  BY <1>1 DEF Doing, Busy, At
<1>2. CASE worker[w] \in [doing : {"send", "update"}, on : {<<n>> : n \in Notifications}]
  <2>1. PICK d \in {"send", "update"}, n \in Notifications :
          worker[w] = [doing |-> d, on |-> <<n>>]
    BY <1>2
  <2>2. worker[w].doing = d /\ worker[w].on = <<n>>
    BY <2>1
  <2> QED
    BY <2>1, <2>2 DEF Doing, Busy, On, Target
<1> QED
  BY <1>1, <1>2 DEF TypeOK

\* The values the actions give it.
LEMMA AtOn ==
  /\ \A d : At(d).doing = d
  /\ \A d, n : On(d, n).doing = d /\ On(d, n).on[1] = n
  /\ \A d, e, n : At(d) # On(e, n)
  /\ \A d, e : At(d) = At(e) => d = e
  /\ \A d \in {"recv", "exited"} :
       At(d) \in [doing : {"recv", "exited"}, on : {<<>>}]
  /\ \A d \in {"send", "update"}, n \in Notifications :
       On(d, n) \in [doing : {"send", "update"}, on : {<<m>> : m \in Notifications}]
BY DEF At, On

\* An attempt counts, and sets the status of the aggregate.
Tried(n, s) ==
  mem' = [mem EXCEPT ![n] = [status |-> s, attempts |-> mem[n].attempts + 1]]

LEMMA AttemptSteps ==
  ASSUME TypeOK, NEW w \in Workers, worker[w].doing = "send"
  PROVE  /\ Target(w) \in Notifications
         /\ Send(w) => \E s \in Status :
              Tried(Target(w), s) /\ (CanMarkSent(mem[Target(w)].status) => s = "sent")
         /\ SendFails(w) => \E s \in Status :
              Tried(Target(w), s) /\ s \in {mem[Target(w)].status, "failed"}
         /\ SendPanics(w) => Tried(Target(w), mem[Target(w)].status)
<1> DEFINE n == Target(w)
<1>1. n \in Notifications
  BY WorkerValues DEF Busy
<1>2. mem \in [Notifications -> [status : Status, attempts : Nat]]
  BY DEF TypeOK
<1> DEFINE c == mem[n].attempts + 1
<1>3. ASSUME NEW s \in Status
      PROVE  [mem EXCEPT ![n].attempts = c, ![n].status = s]
                = [mem EXCEPT ![n] = [status |-> s, attempts |-> c]]
  <2>1. [mem[n] EXCEPT !.attempts = c, !.status = s] = [status |-> s, attempts |-> c]
    <3>1. \A r \in [status : Status, attempts : Nat], a \in Nat :
            [r EXCEPT !.attempts = a] = [status |-> r.status, attempts |-> a]
      OBVIOUS
    <3>2. \A t \in Status, a \in Nat :
            [[status |-> t, attempts |-> a] EXCEPT !.status = s] = [status |-> s, attempts |-> a]
      OBVIOUS
    <3>3. c \in Nat /\ mem[n].status \in Status
      BY <1>1, <1>2
    <3>4. [mem[n] EXCEPT !.attempts = c] = [status |-> mem[n].status, attempts |-> c]
      BY <1>1, <1>2, <3>1, <3>3
    <3>5. [mem[n] EXCEPT !.attempts = c, !.status = s]
            = [[mem[n] EXCEPT !.attempts = c] EXCEPT !.status = s]
      BY <1>1, <1>2
    <3>6. [[status |-> mem[n].status, attempts |-> c] EXCEPT !.status = s]
            = [status |-> s, attempts |-> c]
      BY <3>2, <3>3
    <3> QED
      BY <3>4, <3>5, <3>6, Zenon
  <2>2. [mem EXCEPT ![n].attempts = c, ![n].status = s]
          = [mem EXCEPT ![n] = [mem[n] EXCEPT !.attempts = c, !.status = s]]
    BY <1>1, <1>2
  <2> QED
    BY <2>1, <2>2
<1>4. [mem EXCEPT ![n].attempts = c]
             = [mem EXCEPT ![n] = [status |-> mem[n].status, attempts |-> c]]
  <2>1. [mem[n] EXCEPT !.attempts = c] = [status |-> mem[n].status, attempts |-> c]
    BY <1>1, <1>2
  <2> QED
    BY <1>1, <1>2, <2>1
<1>5. mem[n].status \in Status
  BY <1>1, <1>2
<1>6. ASSUME Send(w)
      PROVE  \E s \in Status : Tried(n, s) /\ (CanMarkSent(mem[n].status) => s = "sent")
  BY <1>1, <1>2, <1>3, <1>5, <1>6 DEF Send, Tried, CanMarkSent, Status
<1>7. ASSUME SendFails(w)
      PROVE  \E s \in Status : Tried(n, s) /\ s \in {mem[n].status, "failed"}
  BY <1>1, <1>2, <1>3, <1>5, <1>7 DEF SendFails, Tried, CanMarkFailed, Status
<1>8. SendPanics(w) => Tried(n, mem[n].status)
  BY <1>1, <1>2, <1>4, <1>5 DEF SendPanics, Tried
<1> QED
  BY <1>1, <1>6, <1>7, <1>8

\* Every step keeps the types.
LEMMA TypeStep ==
  ASSUME TypeOK, [Next]_vars
  PROVE  TypeOK'
<1> DEFINE W == [doing : {"recv", "exited"}, on : {<<>>}]
                  \cup [doing : {"send", "update"}, on : {<<n>> : n \in Notifications}]
<1>w. /\ worker \in [Workers -> W]
      /\ At("recv") \in W /\ At("exited") \in W
      /\ \A n \in Notifications : On("send", n) \in W /\ On("update", n) \in W
  BY AtOn DEF TypeOK
<1>t. \A w \in Workers : Busy(w) => Target(w) \in Notifications
  BY WorkerValues
<1> DEFINE OthersOK ==
      /\ pc \in [Notifications -> PCs]
      /\ row \in [Notifications -> Status \cup {"none"}]
      /\ mem \in [Notifications -> [status : Status, attempts : Nat]]
      /\ queue \in Seq(Notifications) /\ Len(queue) <= QueueSize
      /\ sends \in [Notifications -> Nat]
      /\ stop \in Stops
      /\ crashes \in 0 .. MaxCrashes
<1>o. OthersOK
  BY DEF TypeOK
<1> QueueSize \in Nat /\ MaxCrashes \in Nat
  BY DispatcherAssumption
<1> SUFFICES worker' \in [Workers -> W] /\ OthersOK'
  BY DEF TypeOK
<1> HIDE DEF W
<1> USE DEF PCs, Status, Stops
<1>1. ASSUME NEW n \in Notifications,
             Create(n) \/ CreateFails(n) \/ Drop(n) \/ OfferClosed(n)
      PROVE  worker' \in [Workers -> W] /\ OthersOK'
  BY <1>1, <1>w, <1>o DEF Create, CreateFails, Drop, OfferClosed
<1>2. ASSUME NEW n \in Notifications, Offer(n)
      PROVE  worker' \in [Workers -> W] /\ OthersOK'
  BY <1>2, <1>w, <1>o DEF Offer
<1>3. ASSUME NEW n \in Notifications, NEW w \in Workers, HandOver(n, w)
      PROVE  worker' \in [Workers -> W] /\ OthersOK'
  BY <1>3, <1>w, <1>o DEF HandOver
<1>4. ASSUME NEW w \in Workers, Receive(w)
      PROVE  worker' \in [Workers -> W] /\ OthersOK'
  BY <1>4, <1>w, <1>o DEF Receive
<1>5. ASSUME NEW w \in Workers, Send(w) \/ SendFails(w) \/ SendPanics(w)
      PROVE  worker' \in [Workers -> W] /\ OthersOK'
  <2>1. Target(w) \in Notifications
    BY <1>5, <1>t DEF Send, SendFails, SendPanics, Busy
  <2>2. \E v \in W : worker' = [worker EXCEPT ![w] = v]
    BY <1>5, <1>w, <2>1 DEF Send, SendFails, SendPanics
  <2>3. mem' \in [Notifications -> [status : Status, attempts : Nat]]
    <3>1. \E s \in Status : Tried(Target(w), s)
      BY <1>5, <1>o, <2>1, AttemptSteps DEF Send, SendFails, SendPanics
    <3> QED
      BY <3>1, <1>o, <2>1 DEF Tried
  <2>4. /\ UNCHANGED <<pc, row, queue, stop, crashes>>
        /\ sends' = sends \/ sends' = [sends EXCEPT ![Target(w)] = @ + 1]
    <3>1. Send(w) => UNCHANGED <<pc, row, queue, stop, crashes>>
                     /\ sends' = [sends EXCEPT ![Target(w)] = @ + 1]
      BY DEF Send
    <3>2. SendFails(w) => UNCHANGED <<pc, row, queue, sends, stop, crashes>>
      BY Zenon DEF SendFails
    <3>3. SendPanics(w) => UNCHANGED <<pc, row, queue, sends, stop, crashes>>
      BY DEF SendPanics
    <3> QED
      BY <1>5, <3>1, <3>2, <3>3
  <2>5. sends' \in [Notifications -> Nat]
    BY <1>o, <2>1, <2>4
  <2> QED
    BY <1>w, <1>o, <2>2, <2>3, <2>4, <2>5
<1>6. ASSUME NEW w \in Workers, Update(w) \/ UpdateFails(w) \/ Exit(w)
      PROVE  worker' \in [Workers -> W] /\ OthersOK'
  <2>1. Update(w) => Target(w) \in Notifications
    BY <1>t DEF Update, Busy
  <2> QED
    BY <1>6, <1>w, <1>o, <2>1 DEF Update, UpdateFails, Exit
<1>7. CASE StopCall \/ StopWait
  BY <1>7, <1>w, <1>o DEF StopCall, StopWait
<1>8. CASE Crash
  BY <1>8, <1>w, <1>o DEF Crash, Fresh
<1>9. CASE UNCHANGED vars
  BY <1>9, <1>w, <1>o DEF vars
<1> QED
  BY <1>1, <1>2, <1>3, <1>4, <1>5, <1>6, <1>7, <1>8, <1>9
     DEF Next, Enqueue, Process, Done

\* The initial state has the types.
LEMMA TypeInit == Init => TypeOK
<1> SUFFICES ASSUME Init PROVE TypeOK
  OBVIOUS
<1>1. queue \in Seq(Notifications) /\ Len(queue) <= QueueSize
  BY DispatcherAssumption DEF Init
<1>2. worker \in [Workers -> [doing : {"recv", "exited"}, on : {<<>>}]]
  BY AtOn DEF Init
<1> QED
  BY <1>1, <1>2, DispatcherAssumption DEF Init, TypeOK, PCs, Status, Stops, Fresh

\* Rows, aggregates, channel and goroutines keep their types, and the channel its
\* capacity.
THEOREM DispatcherTypeCorrect == Spec => []TypeOK
<1>1. Init => TypeOK
  BY TypeInit
<1>2. TypeOK /\ [Next]_vars => TypeOK'
  BY TypeStep
<1> QED
  BY <1>1, <1>2, PTL DEF Spec

-----------------------------------------------------------------------------
(* Where a notification is.                                                 *)

\* The channel took n and nobody has tried to send it.
Untried(n) == pc[n] = "queued" /\ mem[n] = Fresh /\ sends[n] = 0 /\ row[n] = "queued"

\* The one attempt at n was made and its outcome is in the aggregate.
Attempted(n) ==
  /\ pc[n] = "queued" /\ mem[n].attempts = 1
  /\ mem[n].status = "sent" => sends[n] = 1
  /\ mem[n].status = "failed" => sends[n] = 0

\* What is in the channel or with a sending worker is untried, and is there once;
\* a worker that updates has attempted.
PlaceInv ==
  /\ \A i \in 1 .. Len(queue) : Untried(queue[i])
  /\ \A i, j \in 1 .. Len(queue) : queue[i] = queue[j] => i = j
  /\ \A w \in Workers : worker[w].doing = "send" =>
       Untried(Target(w)) /\ \A i \in 1 .. Len(queue) : queue[i] # Target(w)
  /\ \A w \in Workers : worker[w].doing = "update" => Attempted(Target(w))
  /\ \A w, v \in Workers : Busy(w) /\ Busy(v) /\ Target(w) = Target(v) => w = v

\* Before the channel takes n nothing is sent; rows tell the truth.
SendInv ==
  /\ \A n \in Notifications :
       /\ pc[n] = "idle" => row[n] = "none"
       /\ pc[n] = "offer" => row[n] = "queued"
       /\ pc[n] \in {"idle", "offer"} => mem[n] = Fresh /\ sends[n] = 0
  /\ SentAtMostOnce
  /\ RowIsTrue

\* What was taken and not attempted is still somewhere.
KeptInv ==
  \A n \in Notifications : pc[n] = "queued" =>
    \/ mem[n].attempts = 1
    \/ \E i \in 1 .. Len(queue) : queue[i] = n
    \/ \E w \in Workers : worker[w] = On("send", n)

\* Who has left found the channel closed and empty.
CloseInv ==
  /\ \A w \in Workers : worker[w].doing = "exited" => Closed /\ queue = <<>>
  /\ stop = "stopped" => \A w \in Workers : worker[w].doing = "exited"

PlacesInv == PlaceInv /\ SendInv /\ KeptInv /\ CloseInv

\* Enqueue up to its offer, and the offers that are refused.
LEMMA CreateKeeps ==
  ASSUME TypeOK, PlacesInv, NEW n \in Notifications,
         Create(n) \/ CreateFails(n) \/ Drop(n) \/ OfferClosed(n)
  PROVE  PlacesInv'
<1>1. UNCHANGED <<mem, queue, worker, sends, stop>>
  BY DEF Create, CreateFails, Drop, OfferClosed
<1>2. \A m \in Notifications \ {n} : pc'[m] = pc[m] /\ row'[m] = row[m]
  BY DEF Create, CreateFails, Drop, OfferClosed, TypeOK
<1>3. \/ pc[n] = "idle" /\ pc'[n] = "offer" /\ row'[n] = "queued"
      \/ pc[n] = "idle" /\ pc'[n] = "error" /\ row'[n] = row[n]
      \/ pc[n] = "offer" /\ pc'[n] \in {"dropped", "panicked"} /\ row'[n] = row[n]
  BY DEF Create, CreateFails, Drop, OfferClosed, TypeOK, PlacesInv, SendInv, Fresh
<1>4. \A i \in 1 .. Len(queue) : queue[i] \in Notifications
  BY DEF TypeOK
<1>5. \A w \in Workers : Busy(w) => Target(w) \in Notifications
  BY WorkerValues
<1>6. PlaceInv'
  BY <1>1, <1>2, <1>3, <1>4, <1>5 DEF PlacesInv, PlaceInv, Untried, Attempted, Busy, Target
<1>7. SendInv'
  BY <1>1, <1>2, <1>3 DEF PlacesInv, SendInv, SentAtMostOnce, RowIsTrue
<1>8. KeptInv'
  BY <1>1, <1>2, <1>3 DEF PlacesInv, KeptInv
<1>9. CloseInv'
  BY <1>1, <1>2, <1>3 DEF PlacesInv, CloseInv, Closed
<1> QED
  BY <1>6, <1>7, <1>8, <1>9 DEF PlacesInv

\* The channel, or a waiting worker, takes an untried notification it did not have.
LEMMA OfferKeeps ==
  ASSUME TypeOK, PlacesInv, NEW n \in Notifications, Offer(n)
  PROVE  PlacesInv'
<1>1. UNCHANGED <<mem, row, worker, sends, stop>>
  BY DEF Offer
<1>2. /\ pc[n] = "offer" /\ pc'[n] = "queued"
      /\ \A m \in Notifications \ {n} : pc'[m] = pc[m]
  BY DEF Offer, TypeOK
<1>3. row[n] = "queued" /\ mem[n] = Fresh /\ sends[n] = 0
  BY <1>2 DEF PlacesInv, SendInv
<1>4. /\ Len(queue) \in Nat /\ Len(queue') = Len(queue) + 1
      /\ queue'[Len(queue) + 1] = n
      /\ \A i \in 1 .. Len(queue) : queue'[i] = queue[i]
      /\ \A i \in 1 .. Len(queue) : queue[i] \in Notifications \ {n}
  BY <1>2 DEF Offer, TypeOK, PlacesInv, PlaceInv, Untried
<1>5. \A w \in Workers : Busy(w) => Target(w) \in Notifications \ {n}
  BY <1>2, WorkerValues DEF PlacesInv, PlaceInv, Untried, Attempted, Busy
<1>6. PlaceInv'
  <2>1. \A i \in 1 .. Len(queue') : Untried(queue[i])'
    BY <1>1, <1>2, <1>3, <1>4 DEF PlacesInv, PlaceInv, Untried
  <2>2. \A i, j \in 1 .. Len(queue') : queue'[i] = queue'[j] => i = j
    BY <1>4 DEF PlacesInv, PlaceInv
  <2>3. \A w \in Workers : worker'[w].doing = "send" =>
          Untried(Target(w))' /\ \A i \in 1 .. Len(queue') : queue'[i] # Target(w)'
    BY <1>1, <1>2, <1>4, <1>5 DEF PlacesInv, PlaceInv, Untried, Target, Busy
  <2>4. \A w \in Workers : worker'[w].doing = "update" => Attempted(Target(w))'
    BY <1>1, <1>2, <1>5 DEF PlacesInv, PlaceInv, Attempted, Target, Busy
  <2> QED
    BY <1>1, <2>1, <2>2, <2>3, <2>4 DEF PlacesInv, PlaceInv, Target, Busy
<1>7. SendInv'
  BY <1>1, <1>2 DEF PlacesInv, SendInv, SentAtMostOnce, RowIsTrue
<1>8. KeptInv'
  BY <1>1, <1>2, <1>4 DEF PlacesInv, KeptInv
<1>9. CloseInv'
  BY <1>1, <1>2 DEF PlacesInv, CloseInv, Closed, Offer
<1> QED
  BY <1>6, <1>7, <1>8, <1>9 DEF PlacesInv

LEMMA HandOverKeeps ==
  ASSUME TypeOK, PlacesInv, NEW n \in Notifications, NEW w \in Workers, HandOver(n, w)
  PROVE  PlacesInv'
<1>1. UNCHANGED <<mem, row, queue, sends, stop>> /\ queue = <<>>
  BY DEF HandOver
<1>2. /\ pc[n] = "offer" /\ pc'[n] = "queued"
      /\ \A m \in Notifications \ {n} : pc'[m] = pc[m]
  BY DEF HandOver, TypeOK
<1>3. row[n] = "queued" /\ mem[n] = Fresh /\ sends[n] = 0
  BY <1>2 DEF PlacesInv, SendInv
<1>4. /\ worker'[w] = On("send", n)
      /\ \A v \in Workers \ {w} : worker'[v] = worker[v]
      /\ worker[w] = At("recv")
  BY DEF HandOver, TypeOK
<1>5. worker'[w].doing = "send" /\ worker'[w].on[1] = n /\ worker[w].doing = "recv"
  BY <1>4, AtOn
<1>6. \A v \in Workers : Busy(v) => Target(v) \in Notifications \ {n}
  BY <1>2, WorkerValues DEF PlacesInv, PlaceInv, Untried, Attempted, Busy
<1>7. PlaceInv'
  BY <1>1, <1>2, <1>3, <1>4, <1>5, <1>6
     DEF PlacesInv, PlaceInv, Untried, Attempted, Target, Busy
<1>8. SendInv'
  BY <1>1, <1>2 DEF PlacesInv, SendInv, SentAtMostOnce, RowIsTrue
<1>9. KeptInv'
  BY <1>1, <1>2, <1>4, AtOn DEF PlacesInv, KeptInv
<1>10. CloseInv'
  BY <1>1, <1>2, <1>4, <1>5 DEF PlacesInv, CloseInv, Closed
<1> QED
  BY <1>7, <1>8, <1>9, <1>10 DEF PlacesInv

\* A receive moves the notification from the channel to the worker.
LEMMA ReceiveMoves ==
  ASSUME TypeOK, PlacesInv, NEW w \in Workers, Receive(w)
  PROVE  PlacesInv'
<1> DEFINE n == queue[1]
<1>1. UNCHANGED <<mem, row, pc, sends, stop>>
  BY DEF Receive
<1>2. /\ Len(queue) \in Nat \ {0} /\ Len(queue') = Len(queue) - 1
      /\ n \in Notifications
      /\ Head(queue) = n
      /\ \A i \in 1 .. Len(queue') : queue'[i] = queue[i + 1]
  BY DEF Receive, TypeOK
<1>3. /\ worker'[w] = On("send", n)
      /\ \A v \in Workers \ {w} : worker'[v] = worker[v]
      /\ worker[w] = At("recv")
  BY <1>2 DEF Receive, TypeOK
<1>4. worker'[w].doing = "send" /\ worker'[w].on[1] = n /\ worker[w].doing = "recv"
  BY <1>3, AtOn
<1>5. Untried(n)
  BY <1>2 DEF PlacesInv, PlaceInv
<1>6. \A v \in Workers : Busy(v) => Target(v) # n
  <2>1. \A v \in Workers : worker[v].doing = "send" => Target(v) # n
    BY <1>2 DEF PlacesInv, PlaceInv
  <2>2. \A v \in Workers : worker[v].doing = "update" => Target(v) # n
    BY <1>5 DEF PlacesInv, PlaceInv, Untried, Attempted, Fresh
  <2> QED
    BY <2>1, <2>2 DEF Busy
<1>7. \A i \in 1 .. Len(queue') : i + 1 \in 1 .. Len(queue) /\ queue'[i] # n
  BY <1>2 DEF PlacesInv, PlaceInv
<1> HIDE DEF n
<1>8. PlaceInv'
  <2>1. \A i \in 1 .. Len(queue') : Untried(queue[i])'
    BY <1>1, <1>2, <1>7 DEF PlacesInv, PlaceInv, Untried
  <2>2. \A i, j \in 1 .. Len(queue') : queue'[i] = queue'[j] => i = j
    BY <1>2, <1>7 DEF PlacesInv, PlaceInv
  <2>3. \A v \in Workers : worker'[v].doing = "send" =>
          Untried(Target(v))' /\ \A i \in 1 .. Len(queue') : queue'[i] # Target(v)'
    BY <1>1, <1>2, <1>3, <1>4, <1>5, <1>7 DEF PlacesInv, PlaceInv, Untried, Target
  <2>4. \A v \in Workers : worker'[v].doing = "update" => Attempted(Target(v))'
    BY <1>1, <1>3, <1>4 DEF PlacesInv, PlaceInv, Attempted, Target
  <2>5. \A u, v \in Workers : Busy(u)' /\ Busy(v)' /\ Target(u)' = Target(v)' => u = v
    BY <1>3, <1>4, <1>6 DEF PlacesInv, PlaceInv, Busy, Target
  <2> QED
    BY <2>1, <2>2, <2>3, <2>4, <2>5 DEF PlaceInv
<1>9. SendInv'
  BY <1>1 DEF PlacesInv, SendInv, SentAtMostOnce, RowIsTrue
<1>10. KeptInv'
  <2> SUFFICES ASSUME NEW m \in Notifications, pc'[m] = "queued", mem'[m].attempts # 1,
                      \A v \in Workers : worker'[v] # On("send", m)
               PROVE  \E i \in 1 .. Len(queue') : queue'[i] = m
    BY DEF KeptInv
  <2>1. m # n
    BY <1>3
  <2>2. PICK i \in 1 .. Len(queue) : queue[i] = m
    <3>1. \A v \in Workers : worker[v] # On("send", m)
      BY <1>3, AtOn
    <3> QED
      BY <1>1, <3>1 DEF PlacesInv, KeptInv
  <2>3. i # 1
    BY <2>1, <2>2 DEF n
  <2>4. i - 1 \in 1 .. Len(queue') /\ queue'[i - 1] = m
    BY <1>2, <2>2, <2>3
  <2> QED
    BY <2>4
<1>11. CloseInv'
  BY <1>1, <1>2, <1>3, <1>4 DEF PlacesInv, CloseInv, Closed, Receive
<1> QED
  BY <1>8, <1>9, <1>10, <1>11 DEF PlacesInv

\* The one attempt: delivered, failed or panicked, it is counted, and no other
\* worker and no slot of the channel holds the notification.
LEMMA AttemptKeeps ==
  ASSUME TypeOK, PlacesInv, NEW w \in Workers, Send(w) \/ SendFails(w) \/ SendPanics(w)
  PROVE  PlacesInv'
<1> DEFINE n == Target(w)
<1>1. worker[w].doing = "send" /\ UNCHANGED <<pc, row, queue, stop>>
  BY DEF Send, SendFails, SendPanics
<1>2. n \in Notifications /\ Untried(n) /\ \A i \in 1 .. Len(queue) : queue[i] # n
  BY <1>1, WorkerValues DEF PlacesInv, PlaceInv, Busy
<1>3. /\ CanMarkSent(mem[n].status)
      /\ mem[n].attempts = 0 /\ mem[n].status = "queued"
  BY <1>2 DEF Untried, Fresh, CanMarkSent
<1>4. /\ \A m \in Notifications \ {n} : mem'[m] = mem[m] /\ sends'[m] = sends[m]
      /\ mem'[n].attempts = 1
      /\ mem'[n].status = "sent" => sends'[n] = 1
      /\ mem'[n].status = "failed" => sends'[n] = 0
      /\ sends'[n] \in {0, 1}
  <2>0. /\ mem \in [Notifications -> [status : Status, attempts : Nat]]
        /\ sends \in [Notifications -> Nat] /\ sends[n] = 0
    BY <1>2 DEF TypeOK, Untried
  <2>1. CASE Send(w)
    <3>1. Tried(n, "sent")
      BY <1>1, <1>3, <2>1, AttemptSteps
    <3>2. sends' = [sends EXCEPT ![n] = sends[n] + 1]
      BY <2>1 DEF Send
    <3> QED
      BY <1>2, <1>3, <2>0, <3>1, <3>2 DEF Tried
  <2>2. CASE SendFails(w)
    <3>1. Tried(n, "failed") \/ Tried(n, "queued")
      BY <1>1, <1>3, <2>2, AttemptSteps
    <3>2. sends' = sends
      BY <2>2 DEF SendFails
    <3> QED
      BY <1>2, <1>3, <2>0, <3>1, <3>2 DEF Tried
  <2>3. CASE SendPanics(w)
    <3>1. Tried(n, "queued")
      BY <1>1, <1>3, <2>3, AttemptSteps
    <3>2. sends' = sends
      BY <2>3 DEF SendPanics
    <3> QED
      BY <1>2, <1>3, <2>0, <3>1, <3>2 DEF Tried
  <2> QED
    BY <2>1, <2>2, <2>3
<1>5. /\ worker'[w] \in {On("update", n), At("recv")}
      /\ \A v \in Workers \ {w} : worker'[v] = worker[v]
  BY <1>3 DEF Send, SendFails, SendPanics, TypeOK
<1>6. /\ worker'[w].doing \in {"update", "recv"}
      /\ worker'[w].doing = "update" => worker'[w].on[1] = n
  BY <1>5, AtOn
<1>7. \A v \in Workers \ {w} : Busy(v) => Target(v) \in Notifications \ {n}
  <2>1. \A v \in Workers \ {w} : Busy(v) => Target(v) # n
    BY <1>1 DEF PlacesInv, PlaceInv, Busy
  <2> QED
    BY <2>1, WorkerValues
<1>q. \A i \in 1 .. Len(queue) : queue[i] \in Notifications \ {n}
  BY <1>2 DEF TypeOK
<1>p. pc[n] = "queued" /\ row[n] = "queued"
  BY <1>2 DEF Untried
<1>d. n = worker[w].on[1]
  BY DEF Target
<1> HIDE DEF n
<1>8. PlaceInv'
  <2>1. \A i \in 1 .. Len(queue) : Untried(queue[i])'
    BY <1>1, <1>4, <1>q DEF PlacesInv, PlaceInv, Untried
  <2>2. \A v \in Workers : worker'[v].doing = "send" =>
          Untried(Target(v))' /\ \A i \in 1 .. Len(queue) : queue[i] # Target(v)'
    BY <1>1, <1>4, <1>5, <1>6, <1>7 DEF PlacesInv, PlaceInv, Untried, Target, Busy
  <2>3. \A v \in Workers : worker'[v].doing = "update" => Attempted(Target(v))'
    BY <1>1, <1>4, <1>5, <1>6, <1>7, <1>p DEF PlacesInv, PlaceInv, Attempted, Target, Busy
  <2>4. \A u, v \in Workers : Busy(u)' /\ Busy(v)' /\ Target(u)' = Target(v)' => u = v
    BY <1>5, <1>6, <1>7 DEF PlacesInv, PlaceInv, Busy, Target
  <2> QED
    BY <1>1, <2>1, <2>2, <2>3, <2>4 DEF PlacesInv, PlaceInv
<1>9. SendInv'
  BY <1>1, <1>4, <1>p DEF PlacesInv, SendInv, SentAtMostOnce, RowIsTrue
<1>10. KeptInv'
  <2> SUFFICES ASSUME NEW m \in Notifications, pc'[m] = "queued", mem'[m].attempts # 1
               PROVE  \/ \E i \in 1 .. Len(queue') : queue'[i] = m
                      \/ \E v \in Workers : worker'[v] = On("send", m)
    BY DEF KeptInv
  <2>1. m # n
    BY <1>4
  <2>2. worker[w] # On("send", m)
    BY <1>d, <2>1, AtOn
  <2> QED
    BY <1>1, <1>4, <1>5, <2>1, <2>2 DEF PlacesInv, KeptInv
<1>11. CloseInv'
  BY <1>1, <1>5, <1>6 DEF PlacesInv, CloseInv, Closed
<1> QED
  BY <1>8, <1>9, <1>10, <1>11 DEF PlacesInv

\* The outcome is written, or lost to a database error; the worker goes back.
LEMMA UpdateKeeps ==
  ASSUME TypeOK, PlacesInv, NEW w \in Workers, Update(w) \/ UpdateFails(w)
  PROVE  PlacesInv'
<1> DEFINE n == Target(w)
<1>1. worker[w].doing = "update" /\ UNCHANGED <<pc, mem, queue, sends, stop>>
  BY DEF Update, UpdateFails
<1>2. n \in Notifications /\ Attempted(n)
  BY <1>1, WorkerValues DEF PlacesInv, PlaceInv, Busy
<1>3. /\ \A m \in Notifications \ {n} : row'[m] = row[m]
      /\ row'[n] = row[n] \/ row'[n] = mem[n].status
  BY <1>2 DEF Update, UpdateFails, TypeOK
<1>4. /\ worker'[w].doing = "recv"
      /\ worker'[w] = At("recv")
      /\ \A v \in Workers \ {w} : worker'[v] = worker[v]
  BY AtOn DEF Update, UpdateFails, TypeOK
<1>5. \A v \in Workers \ {w} : Busy(v) => Target(v) \in Notifications \ {n}
  <2>1. \A v \in Workers \ {w} : Busy(v) => Target(v) # n
    BY <1>1 DEF PlacesInv, PlaceInv, Busy
  <2> QED
    BY <2>1, WorkerValues
<1>6. \A i \in 1 .. Len(queue) : queue[i] \in Notifications \ {n}
  <2>1. \A i \in 1 .. Len(queue) : mem[queue[i]].attempts = 0
    BY DEF PlacesInv, PlaceInv, Untried, Fresh
  <2>2. mem[n].attempts = 1
    BY <1>2 DEF Attempted
  <2>3. \A i \in 1 .. Len(queue) : queue[i] # n
    BY <2>1, <2>2
  <2> QED
    BY <2>3 DEF TypeOK
<1>p. /\ pc[n] = "queued"
      /\ mem[n].status = "sent" => sends[n] = 1
      /\ mem[n].status = "failed" => sends[n] = 0
  BY <1>2 DEF Attempted
<1> HIDE DEF n
<1>7. PlaceInv'
  <2>1. \A i \in 1 .. Len(queue) : Untried(queue[i])'
    BY <1>1, <1>3, <1>6 DEF PlacesInv, PlaceInv, Untried
  <2>2. \A v \in Workers : worker'[v].doing = "send" =>
          Untried(Target(v))' /\ \A i \in 1 .. Len(queue) : queue[i] # Target(v)'
    BY <1>1, <1>3, <1>4, <1>5 DEF PlacesInv, PlaceInv, Untried, Target, Busy
  <2>3. \A v \in Workers : worker'[v].doing = "update" => Attempted(Target(v))'
    BY <1>1, <1>3, <1>4, <1>5 DEF PlacesInv, PlaceInv, Attempted, Target, Busy
  <2>4. \A u, v \in Workers : Busy(u)' /\ Busy(v)' /\ Target(u)' = Target(v)' => u = v
    BY <1>4 DEF PlacesInv, PlaceInv, Busy, Target
  <2> QED
    BY <1>1, <2>1, <2>2, <2>3, <2>4 DEF PlacesInv, PlaceInv
<1>8. SendInv'
  BY <1>1, <1>3, <1>p DEF PlacesInv, SendInv, SentAtMostOnce, RowIsTrue
<1>9. KeptInv'
  <2>1. \A m : worker[w] # On("send", m)
    BY <1>1, AtOn
  <2> QED
    BY <1>1, <1>4, <2>1 DEF PlacesInv, KeptInv
<1>10. CloseInv'
  BY <1>1, <1>4 DEF PlacesInv, CloseInv, Closed
<1> QED
  BY <1>7, <1>8, <1>9, <1>10 DEF PlacesInv

\* Workers leave, Stop closes and waits.
LEMMA StopKeeps ==
  ASSUME TypeOK, PlacesInv, (\E w \in Workers : Exit(w)) \/ StopCall \/ StopWait
  PROVE  PlacesInv'
<1>1. UNCHANGED <<pc, row, mem, queue, sends>>
  BY DEF Exit, StopCall, StopWait
<1>2. ASSUME NEW w \in Workers, Exit(w) PROVE PlacesInv'
  <2>1. /\ worker[w].doing = "recv" /\ worker'[w].doing = "exited"
        /\ worker[w] = At("recv")
        /\ \A v \in Workers \ {w} : worker'[v] = worker[v]
        /\ UNCHANGED stop /\ Closed /\ queue = <<>>
    BY <1>2, AtOn DEF Exit, TypeOK
  <2>2. PlaceInv'
    BY <1>1, <2>1 DEF PlacesInv, PlaceInv, Untried, Attempted, Target, Busy
  <2>3. SendInv'
    BY <1>1 DEF PlacesInv, SendInv, SentAtMostOnce, RowIsTrue
  <2>4. KeptInv'
    BY <1>1, <2>1, AtOn DEF PlacesInv, KeptInv
  <2>5. CloseInv'
    BY <1>1, <2>1 DEF PlacesInv, CloseInv, Closed
  <2> QED
    BY <2>2, <2>3, <2>4, <2>5 DEF PlacesInv
<1>3. CASE StopCall \/ StopWait
  <2>1. UNCHANGED worker
    BY <1>3 DEF StopCall, StopWait
  <2>2. PlaceInv'
    BY <1>1, <2>1 DEF PlacesInv, PlaceInv, Untried, Attempted, Target, Busy
  <2>3. SendInv'
    BY <1>1 DEF PlacesInv, SendInv, SentAtMostOnce, RowIsTrue
  <2>4. KeptInv'
    BY <1>1, <2>1 DEF PlacesInv, KeptInv
  <2>5. CloseInv'
    <3>1. \A w \in Workers : worker[w] = At("exited") => worker[w].doing = "exited"
      BY AtOn
    <3> QED
      BY <1>1, <1>3, <2>1, <3>1 DEF PlacesInv, CloseInv, Closed, StopCall, StopWait
  <2> QED
    BY <2>2, <2>3, <2>4, <2>5 DEF PlacesInv
<1> QED
  BY <1>2, <1>3

\* A crash loses what was taken, and nothing offers it again.
LEMMA CrashKeeps ==
  ASSUME TypeOK, PlacesInv, Crash
  PROVE  PlacesInv'
<1>1. /\ \A n \in Notifications :
           /\ pc'[n] \in {"idle", "lost"}
           /\ pc'[n] = "idle" => pc[n] = "idle"
           /\ mem'[n] = Fresh
      /\ \A w \in Workers : worker'[w].doing = "recv"
      /\ queue' = <<>> /\ Len(queue') = 0 /\ stop' = "idle"
      /\ UNCHANGED <<row, sends>>
  BY AtOn DEF Crash
<1>2. PlaceInv'
  BY <1>1 DEF PlaceInv, Busy
<1>3. SendInv'
  BY <1>1 DEF PlacesInv, SendInv, SentAtMostOnce, RowIsTrue
<1>4. KeptInv'
  BY <1>1 DEF KeptInv
<1>5. CloseInv'
  BY <1>1 DEF CloseInv, Closed
<1> QED
  BY <1>2, <1>3, <1>4, <1>5 DEF PlacesInv

DispatcherInv == TypeOK /\ PlacesInv

\* The invariant is inductive.
LEMMA DispatcherInvHolds == Spec => []DispatcherInv
<1>1. Init => DispatcherInv
  <2> SUFFICES ASSUME Init PROVE PlacesInv
    BY TypeInit DEF DispatcherInv
  <2>1. /\ \A w \in Workers : worker[w].doing = "recv"
        /\ queue = <<>> /\ Len(queue) = 0
    BY AtOn DEF Init
  <2>2. PlaceInv /\ KeptInv /\ CloseInv
    BY <2>1 DEF Init, PlaceInv, KeptInv, CloseInv, Busy, Closed
  <2>3. SendInv
    BY DEF Init, SendInv, SentAtMostOnce, RowIsTrue
  <2> QED
    BY <2>2, <2>3 DEF PlacesInv
<1>2. DispatcherInv /\ [Next]_vars => DispatcherInv'
  <2> SUFFICES ASSUME TypeOK, PlacesInv, [Next]_vars PROVE TypeOK' /\ PlacesInv'
    BY DEF DispatcherInv
  <2>1. CASE UNCHANGED vars
    <3>1. PlaceInv'
      BY <2>1 DEF vars, PlacesInv, PlaceInv, Untried, Attempted, Target, Busy
    <3>2. SendInv'
      BY <2>1 DEF vars, PlacesInv, SendInv, SentAtMostOnce, RowIsTrue
    <3>3. KeptInv' /\ CloseInv'
      BY <2>1 DEF vars, PlacesInv, KeptInv, CloseInv, Closed
    <3> QED
      BY <3>1, <3>2, <3>3, TypeStep DEF PlacesInv
  <2>2. PlacesInv'
    BY <2>1, CreateKeeps, OfferKeeps, HandOverKeeps, ReceiveMoves, AttemptKeeps,
       UpdateKeeps, StopKeeps, CrashKeeps DEF Next, Enqueue, Process, Done
  <2> QED
    BY <2>2, TypeStep
<1> QED
  BY <1>1, <1>2, PTL DEF Spec

\* No customer gets a message twice: not through a failed update, a restart or two
\* workers.
THEOREM MessagesAreSentOnce == Spec => []SentAtMostOnce
<1>1. DispatcherInv => SentAtMostOnce
  BY DEF DispatcherInv, PlacesInv, SendInv
<1> QED
  BY <1>1, DispatcherInvHolds, PTL

\* The status column never contradicts what was delivered, across crashes.
THEOREM RowsAreTrue == Spec => []RowIsTrue
<1>1. DispatcherInv => RowIsTrue
  BY DEF DispatcherInv, PlacesInv, SendInv
<1> QED
  BY <1>1, DispatcherInvHolds, PTL

\* Stop returns only after everything the channel took was attempted.
THEOREM StopAttemptsAll == Spec => []StopAttempts
<1>1. DispatcherInv => StopAttempts
  <2> SUFFICES ASSUME DispatcherInv, stop = "stopped", NEW n \in Notifications,
                      pc[n] = "queued"
               PROVE  mem[n].attempts = 1
    BY DEF StopAttempts
  <2>1. \A w \in Workers : worker[w].doing = "exited"
    BY DEF DispatcherInv, PlacesInv, CloseInv
  <2>2. queue = <<>> /\ Len(queue) = 0
    BY <2>1, DispatcherAssumption DEF DispatcherInv, PlacesInv, CloseInv
  <2>3. \A w \in Workers : worker[w] # On("send", n)
    BY <2>1, AtOn
  <2> QED
    BY <2>2, <2>3 DEF DispatcherInv, PlacesInv, KeptInv
<1> QED
  BY <1>1, DispatcherInvHolds, PTL
=============================================================================
