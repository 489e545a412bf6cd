-------------------------------- MODULE Hub --------------------------------
(* ws.Hub: one goroutine (Run) owns the set of clients; handlers register,  *)
(* read pumps unregister, event handlers broadcast, and Stop closes done.   *)
(* register and unregister are unbuffered, so a send on them is one step    *)
(* with Run's receive.  Run's select is free to take any ready case.        *)

EXTENDS Naturals, Sequences, FiniteSets

CONSTANTS
  Clients,      \* WebSocket connections
  Senders,      \* goroutines that call Broadcast
  Messages,
  SendBuffer    \* capacity of broadcast and of each client's send channel

ASSUME HubAssumption == SendBuffer \in Nat \ {0}

VARIABLES
  done,       \* Stop has closed the done channel
  running,    \* Run has not returned
  broadcast,  \* contents of the broadcast channel
  clients,    \* the clients map
  conn,       \* conn[c]: the socket and its handler
  send,       \* send[c]: contents of the client's channel
  closes,     \* closes[c]: times the client's channel was closed
  reader,     \* reader[c]: the read pump
  writer,     \* writer[c]: the write pump
  sender,     \* sender[b]: the message b is broadcasting, or None
  \* history, read only by the properties
  log,        \* messages Run has handed out, in order
  joined,     \* joined[c]: length of log when c was registered
  got         \* got[c]: messages written to c's socket, in order

hubVars == <<done, running, broadcast, clients, conn, send, closes, reader, writer,
             sender, log, joined, got>>

None == <<>>

HubTypeOK ==
  /\ done \in BOOLEAN /\ running \in BOOLEAN
  /\ broadcast \in Seq(Messages) /\ Len(broadcast) <= SendBuffer
  /\ clients \subseteq Clients
  /\ conn \in [Clients -> {"none", "registering", "open", "closed"}]
  /\ send \in [Clients -> Seq(Messages)]
  /\ \A c \in Clients : Len(send[c]) <= SendBuffer
  /\ closes \in [Clients -> Nat]
  /\ reader \in [Clients -> {"none", "reading", "unregistering", "closing", "ended"}]
  /\ writer \in [Clients -> {"none", "writing", "ended"}]
  /\ sender \in [Senders -> {None} \cup {<<m>> : m \in Messages}]
  /\ log \in Seq(Messages)
  /\ joined \in [Clients -> Nat]
  /\ got \in [Clients -> Seq(Messages)]

HubInit ==
  /\ done = FALSE /\ running = TRUE
  /\ broadcast = <<>> /\ clients = {}
  /\ conn = [c \in Clients |-> "none"]
  /\ send = [c \in Clients |-> <<>>]
  /\ closes = [c \in Clients |-> 0]
  /\ reader = [c \in Clients |-> "none"]
  /\ writer = [c \in Clients |-> "none"]
  /\ sender = [b \in Senders |-> None]
  /\ log = <<>>
  /\ joined = [c \in Clients |-> 0]
  /\ got = [c \in Clients |-> <<>>]

-----------------------------------------------------------------------------
(* Hub.Run, one action per case of its select.                              *)

\* delete(h.clients, client); close(client.send), for each client of gone.
Drop(gone) ==
  /\ clients' = clients \ gone
  /\ closes' = [c \in Clients |-> IF c \in gone THEN closes[c] + 1 ELSE closes[c]]

RunDone ==
  /\ running /\ done
  /\ Drop(clients)
  /\ running' = FALSE
  /\ UNCHANGED <<done, broadcast, conn, send, reader, writer, sender, log, joined, got>>

\* The handler's send on register completes, and it starts the two pumps.
RunRegister(c) ==
  /\ running /\ conn[c] = "registering"
  /\ clients' = clients \cup {c}
  /\ conn' = [conn EXCEPT ![c] = "open"]
  /\ reader' = [reader EXCEPT ![c] = "reading"]
  /\ writer' = [writer EXCEPT ![c] = "writing"]
  /\ joined' = [joined EXCEPT ![c] = Len(log)]
  /\ UNCHANGED <<done, running, broadcast, send, closes, sender, log, got>>

\* Variant: a client that is no longer in the map is closed again.
RunUnregisterTwice(c) ==
  /\ running /\ reader[c] = "unregistering"
  /\ Drop({c})
  /\ reader' = [reader EXCEPT ![c] = "closing"]
  /\ UNCHANGED <<done, running, broadcast, conn, send, writer, sender, log, joined, got>>

\* A client that a broadcast has already dropped is not closed again.
RunUnregister(c) ==
  /\ running /\ reader[c] = "unregistering"
  /\ Drop({c} \cap clients)
  /\ reader' = [reader EXCEPT ![c] = "closing"]
  /\ UNCHANGED <<done, running, broadcast, conn, send, writer, sender, log, joined, got>>

Full(c) == Len(send[c]) >= SendBuffer

\* Variant: the send to a client has no default case and waits for room.
RunBroadcastBlocking ==
  /\ running /\ broadcast # <<>>
  /\ \A c \in clients : ~Full(c)
  /\ send' = [c \in Clients |-> IF c \in clients THEN Append(send[c], Head(broadcast)) ELSE send[c]]
  /\ log' = Append(log, Head(broadcast))
  /\ broadcast' = Tail(broadcast)
  /\ UNCHANGED <<done, running, clients, closes, conn, reader, writer, sender, joined, got>>

\* Variant: a client without room misses the message and stays.
RunBroadcastSkips ==
  /\ running /\ broadcast # <<>>
  /\ send' = [c \in Clients |-> IF c \in clients /\ ~Full(c)
                                THEN Append(send[c], Head(broadcast)) ELSE send[c]]
  /\ log' = Append(log, Head(broadcast))
  /\ broadcast' = Tail(broadcast)
  /\ UNCHANGED <<done, running, clients, closes, conn, reader, writer, sender, joined, got>>

\* Every client gets the message, or is dropped when its channel is full.
RunBroadcast ==
  /\ running /\ broadcast # <<>>
  /\ LET slow == {c \in clients : Full(c)} IN
     /\ send' = [c \in Clients |-> IF c \in clients \ slow
                                   THEN Append(send[c], Head(broadcast)) ELSE send[c]]
     /\ Drop(slow)
  /\ log' = Append(log, Head(broadcast))
  /\ broadcast' = Tail(broadcast)
  /\ UNCHANGED <<done, running, conn, reader, writer, sender, joined, got>>

-----------------------------------------------------------------------------
(* The calls into the hub.                                                  *)

\* ServeWS after a successful upgrade: the handler waits for Run.
ServeWS(c) ==
  /\ conn[c] = "none"
  /\ conn' = [conn EXCEPT ![c] = "registering"]
  /\ UNCHANGED <<done, running, broadcast, clients, send, closes, reader, writer,
                 sender, log, joined, got>>

\* Variant: the channel takes one message more than sendBuffer.
BroadcastQueuedOneMore(b) ==
  /\ sender[b] # None
  /\ Len(broadcast) <= SendBuffer
  /\ broadcast' = Append(broadcast, sender[b][1])
  /\ sender' = [sender EXCEPT ![b] = None]
  /\ UNCHANGED <<done, running, clients, conn, send, closes, reader, writer, log, joined, got>>

\* Broadcast's select: the message is queued, or done is closed and it is
\* dropped.
BroadcastQueued(b) ==
  /\ sender[b] # None
  /\ Len(broadcast) < SendBuffer
  /\ broadcast' = Append(broadcast, sender[b][1])
  /\ sender' = [sender EXCEPT ![b] = None]
  /\ UNCHANGED <<done, running, clients, conn, send, closes, reader, writer, log, joined, got>>

BroadcastDone(b) ==
  /\ sender[b] # None /\ done
  /\ sender' = [sender EXCEPT ![b] = None]
  /\ UNCHANGED <<done, running, broadcast, clients, conn, send, closes, reader, writer,
                 log, joined, got>>

\* stopOnce makes a second Stop a no-op.
HubStop == done' = TRUE

-----------------------------------------------------------------------------
(* The pumps.  The peer can go, or the deadlines pass, at any time.         *)

ReadFails(c) ==
  /\ reader[c] = "reading"
  /\ reader' = [reader EXCEPT ![c] = "unregistering"]
  /\ UNCHANGED <<done, running, broadcast, clients, conn, send, closes, writer, sender,
                 log, joined, got>>

\* Run has taken the client off: the read pump's deferred call goes on.
ReadCloses(c) ==
  /\ reader[c] = "closing"
  /\ reader' = [reader EXCEPT ![c] = "ended"]
  /\ conn' = [conn EXCEPT ![c] = "closed"]
  /\ UNCHANGED <<done, running, broadcast, clients, send, closes, writer, sender, log,
                 joined, got>>

WriteMessage(c) ==
  /\ writer[c] = "writing" /\ conn[c] = "open"
  /\ send[c] # <<>>
  /\ got' = [got EXCEPT ![c] = Append(@, Head(send[c]))]
  /\ send' = [send EXCEPT ![c] = Tail(@)]
  /\ UNCHANGED <<done, running, broadcast, clients, conn, closes, reader, writer, sender,
                 log, joined>>

\* A message or a ping cannot be written: the message is lost, the pump ends
\* and closes the socket.
WriteFails(c) ==
  /\ writer[c] = "writing"
  /\ send' \in {send, [send EXCEPT ![c] = IF @ = <<>> THEN @ ELSE Tail(@)]}
  /\ writer' = [writer EXCEPT ![c] = "ended"]
  /\ conn' = [conn EXCEPT ![c] = "closed"]
  /\ UNCHANGED <<done, running, broadcast, clients, closes, reader, sender, log, joined, got>>

\* The channel is closed and drained: the close frame is sent.
WriteClose(c) ==
  /\ writer[c] = "writing"
  /\ send[c] = <<>> /\ closes[c] > 0
  /\ writer' = [writer EXCEPT ![c] = "ended"]
  /\ conn' = [conn EXCEPT ![c] = "closed"]
  /\ UNCHANGED <<done, running, broadcast, clients, send, closes, reader, sender, log,
                 joined, got>>

Run == RunDone \/ RunBroadcast \/ \E c \in Clients : RunRegister(c) \/ RunUnregister(c)
Broadcast(b) == BroadcastQueued(b) \/ BroadcastDone(b)
WritePump(c) == WriteMessage(c) \/ WriteFails(c) \/ WriteClose(c)

HubNext ==
  \/ Run
  \/ \E c \in Clients : ReadFails(c) \/ ReadCloses(c) \/ WritePump(c)
  \/ \E b \in Senders : Broadcast(b)

-----------------------------------------------------------------------------
(* Properties.                                                              *)

\* Run never sends on a closed channel and never closes one twice (either
\* would panic): a client in the map has an open channel, and whoever ends
\* first (broadcast of a slow client, unregister, Stop), it is closed once.
ClosedOnce == \A c \in Clients : closes[c] <= (IF c \in clients THEN 0 ELSE 1)

\* A slow client is disconnected, never skipped: what a client has received,
\* with what still waits for it while it is registered, is an unbroken piece
\* of what the hub broadcast since it registered.
NoGap ==
  \A c \in Clients :
    /\ got[c] = SubSeq(log, joined[c] + 1, joined[c] + Len(got[c]))
    /\ c \in clients /\ writer[c] = "writing" =>
         got[c] \o send[c] = SubSeq(log, joined[c] + 1, Len(log))
=============================================================================
