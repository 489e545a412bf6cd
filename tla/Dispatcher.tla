----------------------------- MODULE Dispatcher -----------------------------
(* notification.Dispatcher and the notification rows.  Event handlers call  *)
(* Enqueue, which inserts the row and offers the notification to a bounded  *)
(* channel without waiting; workers send and write the outcome back.  The   *)
(* process may crash between any two steps: rows and messages sent stay.    *)

EXTENDS Naturals, Sequences, FiniteSets, SequencesExt

CONSTANTS
  Notifications,  \* one call of Enqueue each
  Workers,        \* dispatcher goroutines
  QueueSize,      \* capacity of the channel
  DbErrors,       \* repository calls may fail
  MaxCrashes      \* bound on crashes

ASSUME DispatcherAssumption ==
  /\ IsFiniteSet(Workers) /\ Workers # {}
  /\ QueueSize \in Nat
  /\ DbErrors \in BOOLEAN
  /\ MaxCrashes \in Nat

VARIABLES
  pc,        \* pc[n]: where the call of Enqueue for n is
  row,       \* row[n]: status in the database, or "none"
  mem,       \* mem[n]: status and attempts of the aggregate in memory
  queue,     \* contents of the channel
  worker,    \* worker[w]: what w does, and with which notification
  sends,     \* sends[n]: messages the sender delivered for n
  stop,      \* progress of Stop
  crashes    \* crashes so far

vars == <<pc, row, mem, queue, worker, sends, stop, crashes>>

Status == {"queued", "sent", "failed"}
PCs == {"idle", "offer", "queued", "dropped", "error", "panicked", "lost"}
Stops == {"idle", "waiting", "stopped"}
Doing == {"recv", "send", "update", "exited"}
Fresh == [status |-> "queued", attempts |-> 0]
At(d) == [doing |-> d, on |-> <<>>]
On(d, n) == [doing |-> d, on |-> <<n>>]
Closed == stop # "idle"   \* Stop has closed the channel
Target(w) == worker[w].on[1]

CanMarkSent(s) == s \in {"queued", "failed"}
CanMarkFailed(s, reason) == reason # "" /\ s # "sent"

-----------------------------------------------------------------------------
(* Enqueue                                                                  *)

\* App.Stop stops the bus and its workers first, but a request that shutdown
\* abandoned may run the handler inline, and call Enqueue, at any time.
Create(n) ==
  /\ pc[n] = "idle"
  /\ row' = [row EXCEPT ![n] = mem[n].status]
  /\ pc' = [pc EXCEPT ![n] = "offer"]
  /\ UNCHANGED <<mem, queue, worker, sends, stop, crashes>>

CreateFails(n) ==
  /\ pc[n] = "idle" /\ DbErrors
  /\ pc' = [pc EXCEPT ![n] = "error"]
  /\ UNCHANGED <<row, mem, queue, worker, sends, stop, crashes>>

\* Variant: the buffer is one larger than queueSize.
OfferOneMore(n) ==
  /\ pc[n] = "offer" /\ ~Closed
  /\ Len(queue) <= QueueSize
  /\ queue' = Append(queue, n)
  /\ pc' = [pc EXCEPT ![n] = "queued"]
  /\ UNCHANGED <<row, mem, worker, sends, stop, crashes>>

Offer(n) ==
  /\ pc[n] = "offer" /\ ~Closed
  /\ Len(queue) < QueueSize
  /\ queue' = Append(queue, n)
  /\ pc' = [pc EXCEPT ![n] = "queued"]
  /\ UNCHANGED <<row, mem, worker, sends, stop, crashes>>

\* A worker is waiting: the notification is handed to it.
HandOver(n, w) ==
  /\ pc[n] = "offer" /\ ~Closed
  /\ queue = <<>> /\ worker[w] = At("recv")
  /\ worker' = [worker EXCEPT ![w] = On("send", n)]
  /\ pc' = [pc EXCEPT ![n] = "queued"]
  /\ UNCHANGED <<row, mem, queue, sends, stop, crashes>>

\* The default case: Enqueue returns nil and only the row remains.
Drop(n) ==
  /\ pc[n] = "offer" /\ ~Closed
  /\ Len(queue) = QueueSize
  /\ queue # <<>> \/ \A w \in Workers : worker[w] # At("recv")
  /\ pc' = [pc EXCEPT ![n] = "dropped"]
  /\ UNCHANGED <<row, mem, queue, worker, sends, stop, crashes>>

\* The send on the channel Stop has closed panics, whether there is room or not;
\* the bus's dispatch recovers, and the row stays queued.
OfferClosed(n) ==
  /\ pc[n] = "offer" /\ Closed
  /\ pc' = [pc EXCEPT ![n] = "panicked"]
  /\ UNCHANGED <<row, mem, queue, worker, sends, stop, crashes>>

-----------------------------------------------------------------------------
(* Workers                                                                  *)

\* Variant: the notification also stays in the channel.
ReceiveKeeps(w) ==
  /\ worker[w] = At("recv") /\ queue # <<>>
  /\ worker' = [worker EXCEPT ![w] = On("send", Head(queue))]
  /\ UNCHANGED <<pc, row, mem, queue, sends, stop, crashes>>

Receive(w) ==
  /\ worker[w] = At("recv") /\ queue # <<>>
  /\ worker' = [worker EXCEPT ![w] = On("send", Head(queue))]
  /\ queue' = Tail(queue)
  /\ UNCHANGED <<pc, row, mem, sends, stop, crashes>>

\* IncrementAttempt, a Send that succeeds, and MarkSent.
Send(w) ==
  /\ worker[w].doing = "send"
  /\ LET n == Target(w) IN
       /\ sends' = [sends EXCEPT ![n] = @ + 1]
       /\ mem' = [mem EXCEPT ![n].attempts = @ + 1,
                             ![n].status = IF CanMarkSent(@) THEN "sent" ELSE @]
       /\ worker' = [worker EXCEPT ![w] = IF CanMarkSent(mem[n].status)
                                          THEN On("update", n) ELSE At("recv")]
  /\ UNCHANGED <<pc, row, queue, stop, crashes>>

\* Variant: the outcome of Send is not looked at.
SendFailsUnchecked(w) ==
  /\ worker[w].doing = "send"
  /\ LET n == Target(w) IN
       /\ mem' = [mem EXCEPT ![n].attempts = @ + 1, ![n].status = "sent"]
       /\ worker' = [worker EXCEPT ![w] = On("update", n)]
  /\ UNCHANGED <<pc, row, queue, sends, stop, crashes>>

\* A Send that returns an error, and MarkFailed with its text; an error without
\* text is refused and the row left as it was.
SendFails(w) ==
  /\ worker[w].doing = "send"
  /\ \E reason \in {"", "refused"} : LET n == Target(w) IN
       /\ mem' = [mem EXCEPT ![n].attempts = @ + 1,
                             ![n].status = IF CanMarkFailed(@, reason) THEN "failed" ELSE @]
       /\ worker' = [worker EXCEPT ![w] = IF CanMarkFailed(mem[n].status, reason)
                                          THEN On("update", n) ELSE At("recv")]
  /\ UNCHANGED <<pc, row, queue, sends, stop, crashes>>

\* Variant: the panic is not recovered and ends the worker.
SendPanicsUnrecovered(w) ==
  /\ worker[w].doing = "send"
  /\ mem' = [mem EXCEPT ![Target(w)].attempts = @ + 1]
  /\ worker' = [worker EXCEPT ![w] = At("exited")]
  /\ UNCHANGED <<pc, row, queue, sends, stop, crashes>>

\* A Send that panics: process recovers, and the row is left as it was.
SendPanics(w) ==
  /\ worker[w].doing = "send"
  /\ mem' = [mem EXCEPT ![Target(w)].attempts = @ + 1]
  /\ worker' = [worker EXCEPT ![w] = At("recv")]
  /\ UNCHANGED <<pc, row, queue, sends, stop, crashes>>

Update(w) ==
  /\ worker[w].doing = "update"
  /\ row' = [row EXCEPT ![Target(w)] = mem[Target(w)].status]
  /\ worker' = [worker EXCEPT ![w] = At("recv")]
  /\ UNCHANGED <<pc, mem, queue, sends, stop, crashes>>

UpdateFails(w) ==
  /\ worker[w].doing = "update" /\ DbErrors
  /\ worker' = [worker EXCEPT ![w] = At("recv")]
  /\ UNCHANGED <<pc, row, mem, queue, sends, stop, crashes>>

\* Variant: a worker leaves as soon as the channel is closed.
ExitUndrained(w) ==
  /\ worker[w] = At("recv") /\ Closed
  /\ worker' = [worker EXCEPT ![w] = At("exited")]
  /\ UNCHANGED <<pc, row, mem, queue, sends, stop, crashes>>

Exit(w) ==
  /\ worker[w] = At("recv") /\ Closed /\ queue = <<>>
  /\ worker' = [worker EXCEPT ![w] = At("exited")]
  /\ UNCHANGED <<pc, row, mem, queue, sends, stop, crashes>>

-----------------------------------------------------------------------------
(* Stop, crash and restart                                                  *)

StopCall ==
  /\ stop = "idle"
  /\ stop' = "waiting"
  /\ UNCHANGED <<pc, row, mem, queue, worker, sends, crashes>>

StopWait ==
  /\ stop = "waiting"
  /\ \A w \in Workers : worker[w] = At("exited")
  /\ stop' = "stopped"
  /\ UNCHANGED <<pc, row, mem, queue, worker, sends, crashes>>

\* Queue and aggregates are gone; nothing reads the rows back on a restart.
Crash ==
  /\ crashes < MaxCrashes
  /\ stop # "stopped"
  /\ crashes' = crashes + 1
  /\ pc' = [n \in Notifications |-> IF pc[n] = "idle" THEN "idle" ELSE "lost"]
  /\ mem' = [n \in Notifications |-> Fresh]
  /\ queue' = <<>>
  /\ worker' = [w \in Workers |-> At("recv")]
  /\ stop' = "idle"
  /\ UNCHANGED <<row, sends>>

-----------------------------------------------------------------------------

Init ==
  /\ pc = [n \in Notifications |-> "idle"]
  /\ row = [n \in Notifications |-> "none"]
  /\ mem = [n \in Notifications |-> Fresh]
  /\ queue = <<>>
  /\ worker = [w \in Workers |-> At("recv")]
  /\ sends = [n \in Notifications |-> 0]
  /\ stop = "idle"
  /\ crashes = 0

Enqueue(n) ==
  \/ Create(n) \/ CreateFails(n) \/ Offer(n) \/ Drop(n) \/ OfferClosed(n)
  \/ \E w \in Workers : HandOver(n, w)

Process(w) ==
  \/ Receive(w) \/ Send(w) \/ SendFails(w) \/ SendPanics(w)
  \/ Update(w) \/ UpdateFails(w) \/ Exit(w)

Done == stop = "stopped" /\ UNCHANGED vars

Next ==
  \/ \E n \in Notifications : Enqueue(n)
  \/ \E w \in Workers : Process(w)
  \/ StopCall \/ StopWait \/ Crash
  \/ Done

Spec == Init /\ [][Next]_vars

\* Enqueue never waits once it is called, workers run, and Stop waits for them.
FairSpec ==
  /\ Spec
  /\ \A n \in Notifications : WF_vars(pc[n] = "offer" /\ Enqueue(n))
  /\ \A w \in Workers : WF_vars(Process(w))
  /\ WF_vars(StopWait)

-----------------------------------------------------------------------------

\* Values of the rows, aggregates and goroutines; the channel keeps its bound.
TypeOK ==
  /\ pc \in [Notifications -> PCs]
  /\ row \in [Notifications -> Status \cup {"none"}]
  /\ mem \in [Notifications -> [status : Status, attempts : Nat]]
  /\ queue \in Seq(Notifications) /\ Len(queue) <= QueueSize
  /\ worker \in [Workers ->
       [doing : {"recv", "exited"}, on : {<<>>}]
         \cup [doing : {"send", "update"}, on : {<<n>> : n \in Notifications}]]
  /\ sends \in [Notifications -> Nat]
  /\ stop \in Stops
  /\ crashes \in 0 .. MaxCrashes

\* No customer gets a message twice, crashes and failed updates included.
SentAtMostOnce == \A n \in Notifications : sends[n] <= 1

\* A row says "sent" only of a message that was delivered, and "failed" only of
\* one that was not.
RowIsTrue ==
  \A n \in Notifications :
    /\ row[n] = "sent" => sends[n] = 1
    /\ row[n] = "failed" => sends[n] = 0

\* When Stop returns, every notification the channel took has been attempted.
StopAttempts ==
  stop = "stopped" => \A n \in Notifications : pc[n] = "queued" => mem[n].attempts = 1

\* A notification the channel took is attempted, or lost to a crash, even when
\* other sends fail or panic.
QueuedIsAttempted ==
  \A n \in Notifications : pc[n] = "queued" ~> mem[n].attempts = 1 \/ pc[n] = "lost"
=============================================================================
