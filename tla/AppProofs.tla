----------------------------- MODULE AppProofs -----------------------------
(* Theorems about App and the Hub it composes, for any requests, events,    *)
(* workers, clients and capacities: the hub closes a channel once and never *)
(* skips a client, and App.Stop takes the parts down in an order that loses *)
(* no event and closes the database last.                                   *)
EXTENDS App, SequenceTheorems, TLAPS

Kinds == {"notify", "audit", "ws"}
AllStages == Range(Stages) \cup {"failed"}

USE DEF shutdown

-----------------------------------------------------------------------------
(* The stages.                                                              *)

\* Reached(s) of a process at stage t.
Past(s, t) == \E i, j \in DOMAIN Stages : Stages[i] = s /\ Stages[j] = t /\ i <= j

\* App.Stop's stages from a given one on.
FromClosed == {"closed", "exited"}
FromHub == {"hub", "connections"} \cup FromClosed
FromDispatcher == {"dispatcher"} \cup FromHub
FromBus == {"bus"} \cup FromDispatcher
FromPool == {"pool"} \cup FromBus

\* Which stages Reached tells apart.
LEMMA StageOrder ==
  ASSUME NEW t \in AllStages
  PROVE  /\ Past("pool", t) <=> t \in FromPool
         /\ Past("bus", t) <=> t \in FromBus
         /\ Past("dispatcher", t) <=> t \in FromDispatcher
         /\ Past("closed", t) <=> t \in FromClosed
<1> USE DEF FromClosed, FromHub, FromDispatcher, FromBus, FromPool
<1>1. DOMAIN Stages = 1 .. 14
  BY DEF Stages
<1>2. /\ Stages[1] = "config" /\ Stages[2] = "open" /\ Stages[3] = "ping"
      /\ Stages[4] = "migrate" /\ Stages[5] = "broker" /\ Stages[6] = "serving"
      /\ Stages[7] = "draining" /\ Stages[8] = "pool" /\ Stages[9] = "bus"
      /\ Stages[10] = "dispatcher" /\ Stages[11] = "hub" /\ Stages[12] = "connections"
      /\ Stages[13] = "closed" /\ Stages[14] = "exited"
  BY DEF Stages
<1>3. \A i \in 1 .. 14 : i \in {1, 2, 3, 4, 5, 6, 7, 8, 9, 10, 11, 12, 13, 14}
  OBVIOUS
<1>4. ASSUME NEW n \in 1 .. 14
      PROVE  Past(Stages[n], t) <=> \E j \in 1 .. 14 : n <= j /\ Stages[j] = t
  <2>1. \A i \in 1 .. 14 : Stages[i] = Stages[n] => i = n
    BY <1>2, <1>3
  <2> QED
    BY <1>1, <2>1 DEF Past
<1>5. Past("pool", t) <=> t \in FromPool
  BY <1>2, <1>3, <1>4
<1>6. Past("bus", t) <=> t \in FromBus
  BY <1>2, <1>3, <1>4
<1>7. Past("dispatcher", t) <=> t \in FromDispatcher
  BY <1>2, <1>3, <1>4
<1>8. Past("closed", t) <=> t \in FromClosed
  BY <1>2, <1>3, <1>4
<1> QED
  BY <1>5, <1>6, <1>7, <1>8

\* The names App gives stages are stages.
LEMMA StageNames ==
  {"config", "open", "ping", "migrate", "broker", "serving", "draining", "pool", "bus",
   "dispatcher", "hub", "connections", "closed", "exited", "failed"} = AllStages
<1>1. DOMAIN Stages = 1 .. 14
  BY DEF Stages
<1>2. Range(Stages) = {Stages[i] : i \in 1 .. 14}
  BY <1>1 DEF Range
<1>3. \A i \in 1 .. 14 : i \in {1, 2, 3, 4, 5, 6, 7, 8, 9, 10, 11, 12, 13, 14}
  OBVIOUS
<1>4. /\ Stages[1] = "config" /\ Stages[2] = "open" /\ Stages[3] = "ping"
      /\ Stages[4] = "migrate" /\ Stages[5] = "broker" /\ Stages[6] = "serving"
      /\ Stages[7] = "draining" /\ Stages[8] = "pool" /\ Stages[9] = "bus"
      /\ Stages[10] = "dispatcher" /\ Stages[11] = "hub" /\ Stages[12] = "connections"
      /\ Stages[13] = "closed" /\ Stages[14] = "exited"
  BY DEF Stages
<1>5. 1 \in 1 .. 14 /\ 2 \in 1 .. 14 /\ 3 \in 1 .. 14 /\ 4 \in 1 .. 14 /\ 5 \in 1 .. 14
      /\ 6 \in 1 .. 14 /\ 7 \in 1 .. 14 /\ 8 \in 1 .. 14 /\ 9 \in 1 .. 14 /\ 10 \in 1 .. 14
      /\ 11 \in 1 .. 14 /\ 12 \in 1 .. 14 /\ 13 \in 1 .. 14 /\ 14 \in 1 .. 14
  OBVIOUS
<1> QED
  BY <1>2, <1>3, <1>4, <1>5 DEF AllStages

-----------------------------------------------------------------------------
(* The hub.                                                                 *)

\* A connection that Run has not registered has nothing yet.
FreshInv ==
  \A c \in Clients : conn[c] \in {"none", "registering"} =>
    /\ c \notin clients /\ closes[c] = 0
    /\ reader[c] = "none" /\ writer[c] = "none"
    /\ got[c] = <<>> /\ send[c] = <<>>

\* Where c's messages are in the log: those written follow joined[c], those
\* waiting for a pump that still writes follow them, and up to the end of the
\* log while c is registered.
PieceAt(c) ==
  /\ joined[c] + Len(got[c]) <= Len(log)
  /\ \A k \in 1 .. Len(got[c]) : got[c][k] = log[joined[c] + k]
  /\ writer[c] = "writing" =>
       /\ joined[c] + Len(got[c]) + Len(send[c]) <= Len(log)
       /\ \A k \in 1 .. Len(send[c]) : send[c][k] = log[joined[c] + Len(got[c]) + k]
       /\ c \in clients => joined[c] + Len(got[c]) + Len(send[c]) = Len(log)

PieceInv == \A c \in Clients : PieceAt(c)

\* What a step of the process does to the hub's clients.
HubStep ==
  \/ HubNext
  \/ \E c \in Clients : ServeWS(c)
  \/ UNCHANGED <<clients, closes, conn, send, reader, writer, log, joined, got>>

\* A channel is closed once, and a fresh connection stays empty.
LEMMA ClosedStep ==
  ASSUME HubTypeOK, ClosedOnce, FreshInv, HubStep
  PROVE  ClosedOnce' /\ FreshInv'
<1> USE DEF HubTypeOK, ClosedOnce, FreshInv
<1>1. CASE RunDone
  BY <1>1 DEF RunDone, Drop
<1>2. ASSUME NEW c \in Clients, RunRegister(c) PROVE ClosedOnce' /\ FreshInv'
  BY <1>2 DEF RunRegister
<1>3. ASSUME NEW c \in Clients, RunUnregister(c) PROVE ClosedOnce' /\ FreshInv'
  BY <1>3 DEF RunUnregister, Drop
<1>4. CASE RunBroadcast
  <2>1. PICK slow \in SUBSET clients :
          /\ Drop(slow)
          /\ \A c \in Clients \ clients : send'[c] = send[c]
          /\ UNCHANGED <<conn, reader, writer, got>>
    BY <1>4 DEF RunBroadcast
  <2> QED
    BY <2>1 DEF Drop
<1>5. ASSUME NEW c \in Clients, ReadFails(c) \/ ReadCloses(c) \/ WritePump(c)
      PROVE  ClosedOnce' /\ FreshInv'
  <2>1. CASE ReadFails(c) \/ ReadCloses(c)
    BY <2>1 DEF ReadFails, ReadCloses
  <2>2. CASE WriteMessage(c)
    BY <2>2 DEF WriteMessage
  <2>3. CASE WriteFails(c)
    <3>1. \A d \in Clients \ {c} : send'[d] = send[d] /\ conn'[d] = conn[d] /\ writer'[d] = writer[d]
      BY <2>3 DEF WriteFails
    <3>2. conn'[c] = "closed" /\ UNCHANGED <<clients, closes, reader, got>>
      BY <2>3 DEF WriteFails
    <3> QED
      BY <3>1, <3>2
  <2>4. CASE WriteClose(c)
    BY <2>4 DEF WriteClose
  <2> QED
    BY <1>5, <2>1, <2>2, <2>3, <2>4 DEF WritePump
<1>6. ASSUME NEW b \in Senders, Broadcast(b) PROVE ClosedOnce' /\ FreshInv'
  BY <1>6 DEF Broadcast, BroadcastQueued, BroadcastDone
<1>7. ASSUME NEW c \in Clients, ServeWS(c) PROVE ClosedOnce' /\ FreshInv'
  BY <1>7 DEF ServeWS
<1>8. CASE UNCHANGED <<clients, closes, conn, send, reader, writer, log, joined, got>>
  BY <1>8
<1> QED
  BY <1>1, <1>2, <1>3, <1>4, <1>5, <1>6, <1>7, <1>8 DEF HubStep, HubNext, Run

\* Nothing of c is touched, or its pump ends, or it leaves the map.
LEMMA PieceKept ==
  ASSUME NEW c \in Clients, PieceAt(c),
         UNCHANGED log, joined'[c] = joined[c], got'[c] = got[c],
         writer'[c] = "writing" => writer[c] = "writing" /\ send'[c] = send[c],
         c \in clients' => c \in clients
  PROVE  PieceAt(c)'
BY DEF PieceAt

\* No client misses a message, and none is written twice.
LEMMA PieceStep ==
  ASSUME HubTypeOK, FreshInv, PieceInv, HubStep
  PROVE  PieceInv'
<1> SUFFICES ASSUME NEW c \in Clients PROVE PieceAt(c)'
  BY DEF PieceInv
<1>0. PieceAt(c)
  BY DEF PieceInv
<1>t. /\ joined[c] \in Nat /\ got[c] \in Seq(Messages) /\ send[c] \in Seq(Messages)
      /\ log \in Seq(Messages) /\ broadcast \in Seq(Messages)
  BY DEF HubTypeOK
<1>n. joined[c] \in Nat /\ Len(got[c]) \in Nat /\ Len(send[c]) \in Nat /\ Len(log) \in Nat
  BY <1>t
<1>1. CASE RunDone
  <2>1. UNCHANGED <<log, joined, got, writer, send>> /\ (c \in clients' => c \in clients)
    BY <1>1 DEF RunDone, Drop
  <2> QED
    BY <1>0, <2>1, PieceKept
<1>2. ASSUME NEW d \in Clients, RunRegister(d) PROVE PieceAt(c)'
  <2>1. CASE c # d
    <3>1. /\ UNCHANGED <<log, got, send>> /\ joined'[c] = joined[c] /\ writer'[c] = writer[c]
          /\ (c \in clients' => c \in clients)
      BY <1>2, <2>1 DEF RunRegister, HubTypeOK
    <3> QED
      BY <1>0, <3>1, PieceKept
  <2>2. CASE c = d
    <3>1. UNCHANGED <<log, got, send>> /\ joined'[c] = Len(log)
      BY <1>2, <2>2 DEF RunRegister, HubTypeOK
    <3>2. Len(got[c]) = 0 /\ Len(send[c]) = 0
      BY <1>2, <2>2 DEF FreshInv, RunRegister
    <3> QED
      BY <1>n, <3>1, <3>2 DEF PieceAt
  <2> QED
    BY <2>1, <2>2
<1>3. ASSUME NEW d \in Clients, RunUnregister(d) PROVE PieceAt(c)'
  <2>1. UNCHANGED <<log, joined, got, writer, send>> /\ (c \in clients' => c \in clients)
    BY <1>3 DEF RunUnregister, Drop
  <2> QED
    BY <1>0, <2>1, PieceKept
<1>4. CASE RunBroadcast
  <2> DEFINE m == Head(broadcast)
  <2>1. m \in Messages
    BY <1>4, <1>t DEF RunBroadcast
  <2>2. /\ Len(log') = Len(log) + 1 /\ log'[Len(log) + 1] = m
        /\ \A k \in 1 .. Len(log) : log'[k] = log[k]
    BY <1>4, <1>t, <2>1 DEF RunBroadcast
  <2>3. UNCHANGED <<joined, got, writer>>
    BY <1>4 DEF RunBroadcast
  <2>4. \/ c \in clients' /\ c \in clients /\ send'[c] = Append(send[c], m)
        \/ c \notin clients' /\ send'[c] = send[c]
    BY <1>4 DEF RunBroadcast, Drop
  <2>5. joined'[c] + Len(got'[c]) <= Len(log')
    BY <1>0, <1>n, <2>2, <2>3 DEF PieceAt
  <2>6. \A k \in 1 .. Len(got'[c]) : got'[c][k] = log'[joined'[c] + k]
    <3> SUFFICES ASSUME NEW k \in 1 .. Len(got[c]) PROVE got[c][k] = log'[joined[c] + k]
      BY <2>3
    <3>1. joined[c] + Len(got[c]) <= Len(log) /\ got[c][k] = log[joined[c] + k]
      BY <1>0 DEF PieceAt
    <3>2. joined[c] + k \in 1 .. Len(log)
      BY <1>n, <3>1
    <3> QED
      BY <2>2, <3>1, <3>2
  <2>7. ASSUME writer'[c] = "writing"
        PROVE  /\ joined'[c] + Len(got'[c]) + Len(send'[c]) <= Len(log')
               /\ \A k \in 1 .. Len(send'[c]) : send'[c][k] = log'[joined'[c] + Len(got'[c]) + k]
               /\ c \in clients' => joined'[c] + Len(got'[c]) + Len(send'[c]) = Len(log')
    <3> DEFINE n == joined[c] + Len(got[c])
    <3>1. /\ n \in Nat /\ n + Len(send[c]) <= Len(log)
          /\ \A k \in 1 .. Len(send[c]) : send[c][k] = log[n + k]
          /\ c \in clients => n + Len(send[c]) = Len(log)
      BY <1>0, <1>n, <2>3, <2>7 DEF PieceAt
    <3>2. joined'[c] + Len(got'[c]) = n
      BY <2>3
    <3>3. \A k \in 1 .. Len(send[c]) : send[c][k] = log'[n + k]
      <4> SUFFICES ASSUME NEW k \in 1 .. Len(send[c]) PROVE send[c][k] = log'[n + k]
        OBVIOUS
      <4>1. n + k \in 1 .. Len(log)
        <5> HIDE DEF n
        <5> QED
          BY <1>n, <3>1
      <4> QED
        BY <2>2, <3>1, <4>1
    <3>4. CASE c \notin clients' /\ send'[c] = send[c]
      <4> HIDE DEF n, m
      <4> QED
        BY <1>n, <2>2, <3>1, <3>2, <3>3, <3>4
    <3>5. CASE c \in clients' /\ c \in clients /\ send'[c] = Append(send[c], m)
      <4>1. /\ Len(send'[c]) = Len(send[c]) + 1 /\ send'[c][Len(send[c]) + 1] = m
            /\ \A k \in 1 .. Len(send[c]) : send'[c][k] = send[c][k]
        BY <1>t, <2>1, <3>5
      <4>2. n + Len(send'[c]) = Len(log')
        <5> HIDE DEF n, m
        <5> QED
          BY <1>n, <2>2, <3>1, <3>5, <4>1
      <4>3. ASSUME NEW k \in 1 .. Len(send[c]) + 1 PROVE send'[c][k] = log'[n + k]
        <5>1. CASE k \in 1 .. Len(send[c])
          BY <3>3, <4>1, <5>1
        <5>2. CASE k = Len(send[c]) + 1
          <6>1. n + k = Len(log) + 1
            <7>1. n \in Nat /\ n + Len(send[c]) = Len(log)
              BY <3>1, <3>5
            <7> HIDE DEF n
            <7>2. n + (Len(send[c]) + 1) = (n + Len(send[c])) + 1
              BY <1>n, <7>1
            <7> QED
              BY <5>2, <7>1, <7>2
          <6> QED
            BY <2>2, <4>1, <5>2, <6>1
        <5> QED
          BY <1>n, <5>1, <5>2
      <4>4. Len(log') \in Nat
        BY <1>n, <2>2
      <4> HIDE DEF n, m
      <4> QED
        BY <3>2, <4>1, <4>2, <4>3, <4>4
    <3> QED
      BY <2>4, <3>4, <3>5
  <2> QED
    BY <2>5, <2>6, <2>7 DEF PieceAt
<1>5. ASSUME NEW d \in Clients, ReadFails(d) \/ ReadCloses(d) PROVE PieceAt(c)'
  BY <1>0, <1>5, PieceKept DEF ReadFails, ReadCloses
<1>6. ASSUME NEW d \in Clients, WriteMessage(d) PROVE PieceAt(c)'
  <2>1. CASE c # d
    <3>1. UNCHANGED <<log, joined, writer, clients>> /\ got'[c] = got[c] /\ send'[c] = send[c]
      BY <1>6, <2>1 DEF WriteMessage, HubTypeOK
    <3> QED
      BY <1>0, <3>1, PieceKept
  <2>2. CASE c = d
    <3>1. /\ UNCHANGED <<log, joined, writer, clients>> /\ writer[c] = "writing"
          /\ send[c] # <<>>
          /\ got'[c] = Append(got[c], Head(send[c])) /\ send'[c] = Tail(send[c])
      BY <1>6, <2>2 DEF WriteMessage, HubTypeOK
    <3>2. /\ Head(send[c]) = send[c][1] /\ Head(send[c]) \in Messages
          /\ Len(send[c]) # 0
      BY <1>t, <3>1
    <3>3. /\ Len(send'[c]) = Len(send[c]) - 1
          /\ \A k \in 1 .. Len(send[c]) - 1 : send'[c][k] = send[c][k + 1]
      BY <1>t, <3>1
    <3>4. /\ Len(got'[c]) = Len(got[c]) + 1 /\ got'[c][Len(got[c]) + 1] = send[c][1]
          /\ \A k \in 1 .. Len(got[c]) : got'[c][k] = got[c][k]
      BY <1>t, <3>1, <3>2
    <3>5. /\ joined[c] + Len(got[c]) + Len(send[c]) <= Len(log)
          /\ \A k \in 1 .. Len(got[c]) : got[c][k] = log[joined[c] + k]
          /\ \A k \in 1 .. Len(send[c]) : send[c][k] = log[joined[c] + Len(got[c]) + k]
          /\ c \in clients => joined[c] + Len(got[c]) + Len(send[c]) = Len(log)
      BY <1>0, <3>1 DEF PieceAt
    <3>6. joined'[c] + Len(got'[c]) + Len(send'[c]) = joined[c] + Len(got[c]) + Len(send[c])
      <4>1. joined'[c] = joined[c]
        BY <3>1
      <4>2. Len(got'[c]) = Len(got[c]) + 1 /\ Len(send'[c]) = Len(send[c]) - 1
        BY <3>3, <3>4
      <4>3. joined[c] + (Len(got[c]) + 1) + (Len(send[c]) - 1)
              = joined[c] + Len(got[c]) + Len(send[c])
        <5>1. \A x, y, z \in Nat : x + (y + 1) + (z - 1) = x + y + z
          OBVIOUS
        <5> QED
          BY <1>n, <5>1
      <4>4. joined'[c] + Len(got'[c]) + Len(send'[c])
              = joined[c] + (Len(got[c]) + 1) + (Len(send[c]) - 1)
        BY <4>1, <4>2, Zenon
      <4> QED
        BY <4>3, <4>4, Zenon
    <3>7. \A k \in 1 .. Len(got'[c]) : got'[c][k] = log'[joined'[c] + k]
      <4> SUFFICES ASSUME NEW k \in 1 .. Len(got[c]) + 1
                   PROVE  got'[c][k] = log[joined[c] + k]
        BY <3>1, <3>4
      <4>1. CASE k \in 1 .. Len(got[c])
        BY <3>4, <3>5, <4>1
      <4>2. CASE k = Len(got[c]) + 1
        <5>1. 1 \in 1 .. Len(send[c])
          BY <1>n, <3>2
        <5>2. send[c][1] = log[joined[c] + Len(got[c]) + 1]
          BY <3>5, <5>1
        <5>3. joined[c] + Len(got[c]) + 1 = joined[c] + k
          BY <1>n, <4>2
        <5> QED
          BY <3>4, <4>2, <5>2, <5>3
      <4> QED
        BY <1>n, <4>1, <4>2
    <3>8. \A k \in 1 .. Len(send'[c]) : send'[c][k] = log'[joined'[c] + Len(got'[c]) + k]
      <4> SUFFICES ASSUME NEW k \in 1 .. Len(send[c]) - 1
                   PROVE  send[c][k + 1] = log[joined[c] + (Len(got[c]) + 1) + k]
        BY <3>1, <3>3, <3>4
      <4>1. k + 1 \in 1 .. Len(send[c])
        BY <1>n
      <4>2. joined[c] + (Len(got[c]) + 1) + k = joined[c] + Len(got[c]) + (k + 1)
        <5>1. \A x, y, z \in Nat : x + (y + 1) + z = x + y + (z + 1)
          OBVIOUS
        <5>2. k \in Nat
          BY <1>n
        <5> QED
          BY <1>n, <5>1, <5>2
      <4> QED
        BY <3>5, <4>1, <4>2
    <3>9. joined'[c] + Len(got'[c]) <= Len(log')
      BY <1>n, <3>1, <3>2, <3>4, <3>5
    <3>10. /\ joined'[c] + Len(got'[c]) + Len(send'[c]) <= Len(log')
           /\ c \in clients' => joined'[c] + Len(got'[c]) + Len(send'[c]) = Len(log')
      BY <3>1, <3>5, <3>6
    <3> QED
      BY <3>7, <3>8, <3>9, <3>10 DEF PieceAt
  <2> QED
    BY <2>1, <2>2
<1>7. ASSUME NEW d \in Clients, WriteFails(d) PROVE PieceAt(c)'
  <2>1. UNCHANGED <<log, joined, got, clients>>
    BY <1>7 DEF WriteFails
  <2>2. writer'[c] = "writing" => writer[c] = "writing" /\ send'[c] = send[c]
    BY <1>7 DEF WriteFails, HubTypeOK
  <2> QED
    BY <1>0, <2>1, <2>2, PieceKept
<1>8. ASSUME NEW d \in Clients, WriteClose(d) PROVE PieceAt(c)'
  <2>1. UNCHANGED <<log, joined, got, send, clients>>
    BY <1>8 DEF WriteClose
  <2>2. writer'[c] = "writing" => writer[c] = "writing"
    BY <1>8 DEF WriteClose, HubTypeOK
  <2> QED
    BY <1>0, <2>1, <2>2, PieceKept
<1>9. ASSUME NEW b \in Senders, Broadcast(b) PROVE PieceAt(c)'
  BY <1>0, <1>9, PieceKept DEF Broadcast, BroadcastQueued, BroadcastDone
<1>10. CASE \E d \in Clients : ServeWS(d)
  BY <1>0, <1>10, PieceKept DEF ServeWS
<1>11. CASE UNCHANGED <<clients, closes, conn, send, reader, writer, log, joined, got>>
  BY <1>0, <1>11, PieceKept
<1> QED
  BY <1>1, <1>2, <1>3, <1>4, <1>5, <1>6, <1>7, <1>8, <1>9, <1>10, <1>11
     DEF HubStep, HubNext, Run, WritePump

-----------------------------------------------------------------------------
(* Types.                                                                   *)

\* The hub's own steps and the calls into it keep its variables' types and its
\* channels within their capacity.
LEMMA HubTypeStep ==
  ASSUME HubTypeOK, HubNext \/ \E c \in Clients : ServeWS(c)
  PROVE  HubTypeOK'
<1> SendBuffer \in Nat \ {0}
  BY HubAssumption
<1>d. ASSUME NEW gone, Drop(gone)
      PROVE  clients' \subseteq Clients /\ closes' \in [Clients -> Nat]
  BY <1>d DEF Drop, HubTypeOK
<1>1. CASE RunDone
  BY <1>1, <1>d DEF RunDone, HubTypeOK
<1>2. ASSUME NEW c \in Clients, RunRegister(c) PROVE HubTypeOK'
  BY <1>2 DEF RunRegister, HubTypeOK
<1>3. ASSUME NEW c \in Clients, RunUnregister(c) PROVE HubTypeOK'
  BY <1>3, <1>d DEF RunUnregister, HubTypeOK
<1>4. CASE RunBroadcast
  <2>1. clients' \subseteq Clients /\ closes' \in [Clients -> Nat]
    BY <1>4, <1>d DEF RunBroadcast
  <2>2. /\ Head(broadcast) \in Messages /\ Tail(broadcast) \in Seq(Messages)
        /\ Len(Tail(broadcast)) <= SendBuffer
    BY <1>4 DEF RunBroadcast, HubTypeOK
  <2>3. Append(log, Head(broadcast)) \in Seq(Messages)
    BY <2>2 DEF HubTypeOK
  <2>4. /\ send' \in [Clients -> Seq(Messages)]
        /\ \A c \in Clients : Len(send'[c]) <= SendBuffer
    <3>1. ASSUME NEW c \in Clients
          PROVE  /\ send[c] \in Seq(Messages) /\ Append(send[c], Head(broadcast)) \in Seq(Messages)
                 /\ Len(send[c]) <= SendBuffer
                 /\ ~Full(c) => Len(Append(send[c], Head(broadcast))) <= SendBuffer
      BY <2>2 DEF HubTypeOK, Full
    <3>2. PICK some \in SUBSET clients :
            /\ \A c \in some : ~Full(c)
            /\ send' = [c \in Clients |-> IF c \in some THEN Append(send[c], Head(broadcast))
                                          ELSE send[c]]
      <4>1. PICK slow : /\ slow = {c \in clients : Full(c)}
                        /\ send' = [c \in Clients |-> IF c \in clients \ slow
                                      THEN Append(send[c], Head(broadcast)) ELSE send[c]]
        BY <1>4 DEF RunBroadcast
      <4> QED
        BY <4>1
    <3> QED
      BY <3>1, <3>2
  <2> QED
    BY <1>4, <2>1, <2>2, <2>3, <2>4 DEF RunBroadcast, HubTypeOK
<1>5. ASSUME NEW c \in Clients, ReadFails(c) \/ ReadCloses(c) PROVE HubTypeOK'
  BY <1>5 DEF ReadFails, ReadCloses, HubTypeOK
<1>6. ASSUME NEW c \in Clients, WriteMessage(c) PROVE HubTypeOK'
  <2>1. /\ Head(send[c]) \in Messages /\ Tail(send[c]) \in Seq(Messages)
        /\ Len(Tail(send[c])) <= SendBuffer
    BY <1>6 DEF WriteMessage, HubTypeOK
  <2>2. Append(got[c], Head(send[c])) \in Seq(Messages)
    BY <2>1 DEF HubTypeOK
  <2> QED
    BY <1>6, <2>1, <2>2 DEF WriteMessage, HubTypeOK
<1>7. ASSUME NEW c \in Clients, WriteFails(c) PROVE HubTypeOK'
  <2>1. send[c] # <<>> => Tail(send[c]) \in Seq(Messages) /\ Len(Tail(send[c])) <= SendBuffer
    BY DEF HubTypeOK
  <2>2. send' \in [Clients -> Seq(Messages)] /\ \A d \in Clients : Len(send'[d]) <= SendBuffer
    <3> DEFINE t == IF send[c] = <<>> THEN send[c] ELSE Tail(send[c])
    <3>1. send' = send \/ send' = [send EXCEPT ![c] = t]
      BY <1>7 DEF WriteFails
    <3>2. CASE send' = send
      BY <3>2 DEF HubTypeOK
    <3>3. CASE send' = [send EXCEPT ![c] = t]
      <4>1. t \in Seq(Messages) /\ Len(t) <= SendBuffer
        BY <2>1 DEF HubTypeOK
      <4> HIDE DEF t
      <4> QED
        BY <3>3, <4>1 DEF HubTypeOK
    <3> QED
      BY <3>1, <3>2, <3>3
  <2> QED
    BY <1>7, <2>2 DEF WriteFails, HubTypeOK
<1>8. ASSUME NEW c \in Clients, WriteClose(c) PROVE HubTypeOK'
  BY <1>8 DEF WriteClose, HubTypeOK
<1>9. ASSUME NEW b \in Senders, BroadcastQueued(b) PROVE HubTypeOK'
  <2>1. PICK m \in Messages : sender[b] = <<m>>
    BY <1>9 DEF BroadcastQueued, HubTypeOK
  <2>2. broadcast' = Append(broadcast, m)
    BY <1>9, <2>1 DEF BroadcastQueued
  <2>3. broadcast' \in Seq(Messages) /\ Len(broadcast') <= SendBuffer
    BY <1>9, <2>2 DEF BroadcastQueued, HubTypeOK
  <2> QED
    BY <1>9, <2>3 DEF BroadcastQueued, HubTypeOK
<1>10. ASSUME NEW b \in Senders, BroadcastDone(b) PROVE HubTypeOK'
  BY <1>10 DEF BroadcastDone, HubTypeOK
<1>11. ASSUME NEW c \in Clients, ServeWS(c) PROVE HubTypeOK'
  BY <1>11 DEF ServeWS, HubTypeOK
<1> QED
  BY <1>1, <1>2, <1>3, <1>4, <1>5, <1>6, <1>7, <1>8, <1>9, <1>10, <1>11
     DEF HubNext, Run, WritePump, Broadcast

\* The positions of Publish's two loops.
LoopInv ==
  \A r \in Requests : event[r] <= Len(Events[r]) =>
    handler[r] \in 1 .. Len(HandlersOf(Events[r][event[r]]))

\* An event has two handlers or three, the WebSocket push last.
LEMMA HandlerLists ==
  ASSUME NEW e
  PROVE  /\ Len(HandlersOf(e)) \in {2, 3}
         /\ \A k \in 1 .. Len(HandlersOf(e)) : HandlersOf(e)[k] \in Kinds
         /\ HandlersOf(e)[Len(HandlersOf(e))] = "ws"
<1>1. CASE e \in Notified
  <2>1. HandlersOf(e) = <<"notify", "audit", "ws">>
    BY <1>1 DEF HandlersOf
  <2> QED
    BY <2>1 DEF Kinds
<1>2. CASE e \notin Notified
  <2>1. HandlersOf(e) = <<"audit", "ws">>
    BY <1>2 DEF HandlersOf
  <2> QED
    BY <2>1 DEF Kinds
<1> QED
  BY <1>1, <1>2

\* What HandOut hands out is a job, and it moves on to a position in bounds.
LEMMA AdvanceStep ==
  ASSUME TypeOK, LoopInv, NEW r \in Requests, event[r] <= Len(Events[r])
  PROVE  /\ Job(r) \in Messages \X Kinds
         /\ Job(r)[1] = Events[r][event[r]]
         /\ event[r] \in DOMAIN Events[r]
         /\ Advance(r) =>
              /\ event' \in [Requests -> Nat] /\ handler' \in [Requests -> {1, 2, 3}]
              /\ \A q \in Requests : event'[q] \in 1 .. Len(Events[q]) + 1
              /\ LoopInv'
              /\ \A q \in Requests \ {r} : event'[q] = event[q]
              /\ \/ event'[r] = event[r]
                 \/ event'[r] = event[r] + 1 /\ Job(r) = <<Events[r][event[r]], "ws">>
<1> DEFINE e == Events[r][event[r]]
<1>1. \A q \in Requests : Events[q] \in Seq(Messages) /\ Len(Events[q]) \in Nat
  BY AppAssumption
<1>2. event[r] \in 1 .. Len(Events[r]) /\ DOMAIN Events[r] = 1 .. Len(Events[r])
  BY <1>1 DEF TypeOK
<1>3. e \in Messages
  BY <1>1, <1>2
<1>4. handler[r] \in 1 .. Len(HandlersOf(e))
  BY DEF LoopInv
<1>5. Job(r) = <<e, HandlersOf(e)[handler[r]]>>
  BY DEF Job
<1>6. HandlersOf(e)[handler[r]] \in Kinds
  BY <1>4, HandlerLists
<1>7. ASSUME Advance(r)
      PROVE  /\ event' \in [Requests -> Nat] /\ handler' \in [Requests -> {1, 2, 3}]
             /\ \A q \in Requests : event'[q] \in 1 .. Len(Events[q]) + 1
             /\ LoopInv'
             /\ \A q \in Requests \ {r} : event'[q] = event[q]
             /\ \/ event'[r] = event[r]
                \/ event'[r] = event[r] + 1 /\ Job(r) = <<e, "ws">>
  <2>0. event \in [Requests -> Nat] /\ handler \in [Requests -> {1, 2, 3}]
        /\ \A q \in Requests : event[q] \in 1 .. Len(Events[q]) + 1
    BY DEF TypeOK
  <2>l. Len(HandlersOf(e)) \in {2, 3}
    BY HandlerLists
  <2>1. CASE handler[r] < Len(HandlersOf(e))
    <3>1. handler' = [handler EXCEPT ![r] = @ + 1] /\ event' = event
      BY <1>7, <2>1 DEF Advance
    <3>2. /\ handler'[r] = handler[r] + 1
          /\ \A q \in Requests \ {r} : handler'[q] = handler[q]
      BY <2>0, <3>1
    <3>3. handler[r] + 1 \in {1, 2, 3} /\ handler[r] + 1 \in 1 .. Len(HandlersOf(e))
      <4>1. \A n \in {2, 3} : \A h \in 1 .. n : h < n => h + 1 \in {1, 2, 3} /\ h + 1 \in 1 .. n
        OBVIOUS
      <4> QED
        BY <1>4, <2>1, <2>l, <4>1
    <3>4. handler' \in [Requests -> {1, 2, 3}]
      BY <2>0, <3>1, <3>3
    <3>5. LoopInv'
      <4> SUFFICES ASSUME NEW q \in Requests, event[q] <= Len(Events[q])
                   PROVE  handler'[q] \in 1 .. Len(HandlersOf(Events[q][event[q]]))
        BY <3>1 DEF LoopInv, HandlersOf
      <4> QED
        BY <3>2, <3>3 DEF LoopInv
    <3> QED
      BY <2>0, <3>1, <3>4, <3>5
  <2>2. CASE ~(handler[r] < Len(HandlersOf(e)))
    <3>1. /\ handler' = [handler EXCEPT ![r] = 1]
          /\ event' = [event EXCEPT ![r] = @ + 1]
      BY <1>7, <2>2 DEF Advance
    <3>2. /\ handler'[r] = 1 /\ event'[r] = event[r] + 1
          /\ \A q \in Requests \ {r} : handler'[q] = handler[q] /\ event'[q] = event[q]
      BY <2>0, <3>1
    <3>3. handler' \in [Requests -> {1, 2, 3}] /\ event' \in [Requests -> Nat]
      BY <2>0, <3>1
    <3>4. event[r] + 1 \in 1 .. Len(Events[r]) + 1
      BY <1>1, <1>2
    <3>5. handler[r] = Len(HandlersOf(e))
      BY <1>4, <2>2, <2>l
    <3>6. Job(r) = <<e, "ws">>
      BY <1>5, <3>5, HandlerLists
    <3>7. LoopInv'
      <4> SUFFICES ASSUME NEW q \in Requests, event'[q] <= Len(Events[q])
                   PROVE  handler'[q] \in 1 .. Len(HandlersOf(Events[q][event'[q]]))
        BY DEF LoopInv, HandlersOf
      <4>1. CASE q # r
        BY <3>2, <4>1 DEF LoopInv
      <4>2. CASE q = r
        <5>1. Len(HandlersOf(Events[q][event'[q]])) \in {2, 3}
          BY HandlerLists
        <5>2. \A n \in {2, 3} : 1 \in 1 .. n
          OBVIOUS
        <5> QED
          BY <3>2, <4>2, <5>1, <5>2
      <4> QED
        BY <4>1, <4>2
    <3> QED
      BY <2>0, <3>2, <3>3, <3>4, <3>6, <3>7
  <2> QED
    BY <2>1, <2>2
<1> QED
  BY <1>2, <1>3, <1>5, <1>6, <1>7

-----------------------------------------------------------------------------
(* The shutdown.                                                            *)

\* A request that is not publishing is at no handler.
RequestInv ==
  \A r \in Requests :
    /\ request[r] # "publishing" => doing[r] = None /\ sender[r] = None
    /\ request[r] = "answered" => event[r] > Len(Events[r])

\* What each part of App.Stop leaves behind when no request was abandoned.
QuietInv ==
  /\ done => stage \in {"connections"} \cup FromClosed
  /\ ~abandoned =>
       /\ stage \in FromPool => InFlight = {}
       /\ stage \in FromDispatcher =>
            jobs = <<>> /\ \A a \in Senders : doing[a] = None /\ sender[a] = None
       /\ stage \in FromHub => outbox = {}

\* Where an event is between Publish and the clients.
OnItsWay(e) ==
  \/ e \in Range(log) \/ e \in Range(broadcast)
  \/ <<e, "ws">> \in Range(jobs)
  \/ \E a \in Senders : doing[a] = <<e, "ws">> \/ sender[a] = <<e>>

\* Every event that Publish is past is on its way: a push is given up only
\* when done is closed, and then nobody who was waited for is left to push.
PushInv ==
  ~done \/ ~abandoned =>
    \A r \in Requests : \A i \in DOMAIN Events[r] : i < event[r] => OnItsWay(Events[r][i])

\* Steps that move the process from one stage to another.
Moves ==
  \/ StartUp \/ Signal \/ ListenFails
  \/ Drained \/ DrainTimesOut \/ StopPool \/ StopBus \/ StopDispatcher \/ CloseConnections
  \/ Exit

\* They touch nothing of the requests, the bus and the hub.
LEMMA MovesFrame ==
  ASSUME TypeOK, Moves
  PROVE  /\ UNCHANGED <<hubVars, calls, bus>>
         /\ stage' \in AllStages /\ pings' \in 0 .. ConnectRetries
         /\ rabbit' \subseteq {"publisher", "consumer"}
         /\ listenFailed' \in BOOLEAN /\ abandoned' \in BOOLEAN
<1> USE DEF TypeOK, GoTo
<1>s. stage \in AllStages
  BY DEF AllStages
<1>c. ConnectRetries \in Nat /\ RabbitMQ \subseteq {"publisher", "consumer"}
  BY AppAssumption
<1>1. CASE Load
  BY <1>1, StageNames DEF Load
<1>2. CASE Open \/ Migrate
  BY <1>2, StageNames DEF Open, Migrate
<1>3. CASE Ping \/ PingFails
  <2>1. pings \in 0 .. ConnectRetries /\ pings < ConnectRetries /\ pings' \in {0, pings + 1}
    BY <1>3 DEF Ping, PingFails
  <2>2. pings' \in 0 .. ConnectRetries
    BY <1>c, <2>1
  <2>3. stage' \in AllStages
    BY <1>3, <1>s, StageNames DEF Ping, PingFails
  <2> QED
    BY <1>3, <2>2, <2>3 DEF Ping, PingFails
<1>4. CASE PingsExhausted \/ Signal \/ Drained \/ StopPool \/ StopBus \/ StopDispatcher \/ Exit
  BY <1>4, StageNames
     DEF PingsExhausted, Signal, Drained, StopPool, StopBus, StopDispatcher, Exit
<1>5. CASE StartBroker \/ CloseConnections
  BY <1>5, <1>c, StageNames DEF StartBroker, CloseConnections
<1>6. CASE ListenFails \/ DrainTimesOut
  BY <1>6, StageNames DEF ListenFails, DrainTimesOut
<1> QED
  BY <1>1, <1>2, <1>3, <1>4, <1>5, <1>6 DEF Moves, StartUp

\* The types hold after every step.
LEMMA TypeStep ==
  ASSUME TypeOK, LoopInv, [Next]_vars
  PROVE  TypeOK' /\ LoopInv'
<1> EventQueueSize \in Nat /\ Senders = Workers \cup Requests
  BY AppAssumption
<1>t. jobs \in Seq(Messages \X Kinds) /\ doing \in [Senders -> {None} \cup (Messages \X Kinds)]
  BY DEF TypeOK, Kinds
<1>h. UNCHANGED hubVars => HubTypeOK'
  BY DEF TypeOK, HubTypeOK, hubVars
<1>l. UNCHANGED <<event, handler>> => LoopInv'
  BY DEF LoopInv, HandlersOf
<1>a. HubTypeOK' /\ UNCHANGED appVars => TypeOK' /\ LoopInv'
  BY <1>l DEF TypeOK, appVars
<1>d. ASSUME NEW a \in Senders, UNCHANGED <<stage, pings, rabbit, calls, jobs, shutdown>>,
             doing' = [doing EXCEPT ![a] = None], HubTypeOK', outbox' \subseteq Messages
      PROVE  TypeOK' /\ LoopInv'
  BY <1>d, <1>l DEF TypeOK, calls
<1>1. CASE Moves
  BY <1>1, <1>h, <1>l, MovesFrame DEF TypeOK, AllStages, calls, bus
<1>2. ASSUME NEW r \in Requests,
             Accept(r) \/ Submit(r) \/ RunTask(r) \/ Cancel(r) \/ CopyToBroker(r)
      PROVE  TypeOK' /\ LoopInv'
  <2>1. PICK to \in {"accepted", "refused", "working", "publishing", "answered"} :
          request' = [request EXCEPT ![r] = to]
    BY <1>2 DEF Accept, Submit, RunTask, Cancel, CopyToBroker, Step
  <2>2. UNCHANGED <<hubVars, stage, pings, rabbit, event, handler, bus, listenFailed>>
    BY <1>2 DEF Accept, Submit, RunTask, Cancel, CopyToBroker, Step
  <2>3. abandoned' \in BOOLEAN
    BY <1>2 DEF Accept, Submit, RunTask, Cancel, CopyToBroker, Step, TypeOK
  <2> QED
    BY <1>h, <1>l, <2>1, <2>2, <2>3 DEF TypeOK, bus
<1>3. ASSUME NEW r \in Requests, HandOut(r) PROVE TypeOK' /\ LoopInv'
  <2>1. event[r] <= Len(Events[r])
    BY <1>3 DEF HandOut
  <2>2. Job(r) \in Messages \X Kinds
    BY <2>1, AdvanceStep
  <2>3. UNCHANGED <<hubVars, stage, pings, rabbit, outbox, shutdown>>
    BY <1>3 DEF HandOut
  <2>4. CASE Reached("bus")
    BY <1>3, <1>h, <1>l, <2>3, <2>4 DEF HandOut, TypeOK
  <2>5. CASE ~Reached("bus")
    <3>1. Advance(r) /\ UNCHANGED request
      BY <1>3, <2>5 DEF HandOut
    <3>2. \/ Len(jobs) < EventQueueSize /\ jobs' = Append(jobs, Job(r)) /\ UNCHANGED doing
          \/ doing' = [doing EXCEPT ![r] = Job(r)] /\ UNCHANGED jobs
      BY <1>3, <2>5 DEF HandOut
    <3>3. /\ jobs' \in Seq(Messages \X Kinds) /\ Len(jobs') <= EventQueueSize
          /\ doing' \in [Senders -> {None} \cup (Messages \X Kinds)]
      <4>1. Len(jobs) \in Nat /\ Len(jobs) <= EventQueueSize
        BY <1>t DEF TypeOK
      <4>2. CASE Len(jobs) < EventQueueSize /\ jobs' = Append(jobs, Job(r)) /\ UNCHANGED doing
        <5>1. jobs' \in Seq(Messages \X Kinds) /\ Len(jobs') = Len(jobs) + 1
          BY <1>t, <2>2, <4>2
        <5> QED
          BY <1>t, <4>1, <4>2, <5>1
      <4>3. CASE doing' = [doing EXCEPT ![r] = Job(r)] /\ UNCHANGED jobs
        BY <1>t, <2>2, <4>1, <4>3
      <4> QED
        BY <3>2, <4>2, <4>3
    <3>4. /\ event' \in [Requests -> Nat] /\ handler' \in [Requests -> {1, 2, 3}]
          /\ \A q \in Requests : event'[q] \in 1 .. Len(Events[q]) + 1
          /\ LoopInv'
      BY <2>1, <3>1, AdvanceStep
    <3> QED
      BY <1>h, <2>3, <3>1, <3>3, <3>4 DEF TypeOK, Kinds
  <2> QED
    BY <2>4, <2>5
<1>4. ASSUME NEW w \in Workers, Receive(w) PROVE TypeOK' /\ LoopInv'
  <2>1. /\ Head(jobs) \in Messages \X Kinds /\ Tail(jobs) \in Seq(Messages \X Kinds)
        /\ Len(Tail(jobs)) <= EventQueueSize
    BY <1>4, <1>t DEF Receive, TypeOK
  <2>2. doing' \in [Senders -> {None} \cup (Messages \X Kinds)]
    BY <1>4, <1>t, <2>1 DEF Receive
  <2>3. UNCHANGED <<hubVars, stage, pings, rabbit, calls, outbox, shutdown>> /\ jobs' = Tail(jobs)
    BY <1>4 DEF Receive
  <2> QED
    BY <1>h, <1>l, <2>1, <2>2, <2>3 DEF TypeOK, calls, Kinds
<1>5. ASSUME NEW a \in Senders, Handle(a) PROVE TypeOK' /\ LoopInv'
  <2>0. PICK m \in Messages, k \in Kinds : doing[a] = <<m, k>>
    BY <1>5, <1>t DEF Handle, HandleWS, HandleAudit, HandleNotify
  <2>1. /\ UNCHANGED <<stage, pings, rabbit, calls, jobs, shutdown>>
        /\ doing' = [doing EXCEPT ![a] = None]
    BY <1>5 DEF Handle, HandleWS, HandleAudit, HandleNotify
  <2>2. CASE HandleWS(a)
    <3>1. sender' = [sender EXCEPT ![a] = <<m>>] /\ UNCHANGED outbox
      BY <2>0, <2>2 DEF HandleWS
    <3>2. HubTypeOK'
      BY <2>2, <3>1 DEF HandleWS, TypeOK, HubTypeOK
    <3> QED
      BY <1>d, <2>1, <3>1, <3>2 DEF TypeOK
  <2>3. CASE HandleAudit(a)
    BY <1>d, <1>h, <2>1, <2>3 DEF HandleAudit, TypeOK
  <2>4. CASE HandleNotify(a)
    <3>1. outbox' \subseteq Messages /\ UNCHANGED hubVars
      BY <2>0, <2>4 DEF HandleNotify, TypeOK
    <3> QED
      BY <1>d, <1>h, <2>1, <3>1
  <2> QED
    BY <1>5, <2>2, <2>3, <2>4 DEF Handle
<1>6. ASSUME NEW c \in Clients, Upgrade(c) PROVE TypeOK' /\ LoopInv'
  BY <1>6, <1>a, HubTypeStep DEF Upgrade, TypeOK
<1>7. CASE Deliver
  BY <1>7, <1>h, <1>l DEF Deliver, TypeOK, calls
<1>8. CASE Hubs(HubNext)
  BY <1>8, <1>a, HubTypeStep DEF Hubs, TypeOK
<1>9. CASE StopHub
  <2>1. HubTypeOK'
    BY <1>9 DEF StopHub, HubStop, TypeOK, HubTypeOK
  <2> QED
    BY <1>9, <1>l, <2>1, StageNames DEF StopHub, TypeOK, calls, bus, AllStages
<1>10. CASE UNCHANGED vars
  BY <1>10, <1>a, <1>h DEF vars
<1> QED
  BY <1>1, <1>2, <1>3, <1>4, <1>5, <1>6, <1>7, <1>8, <1>9, <1>10
     DEF Next, Moves, Serve, Stop, Ended

\* What a step of the hub does to the goroutines that broadcast.
LEMMA HubSenders ==
  ASSUME TypeOK, HubNext \/ \E c \in Clients : ServeWS(c)
  PROVE  /\ \A a \in Senders : sender'[a] \in {sender[a], None}
         /\ UNCHANGED done
BY DEF TypeOK, HubTypeOK, HubNext, Run, RunDone, RunRegister, RunUnregister, RunBroadcast,
       ReadFails, ReadCloses, WritePump, WriteMessage, WriteFails, WriteClose, Broadcast,
       BroadcastQueued,
       BroadcastDone, ServeWS

\* Every step keeps RequestInv.
LEMMA RequestStep ==
  ASSUME TypeOK, RequestInv, [Next]_vars
  PROVE  RequestInv'
<1> SUFFICES ASSUME NEW r \in Requests
             PROVE  /\ request'[r] # "publishing" => doing'[r] = None /\ sender'[r] = None
                    /\ request'[r] = "answered" => event'[r] > Len(Events[r])
  BY DEF RequestInv
<1>0. /\ request[r] # "publishing" => doing[r] = None /\ sender[r] = None
      /\ request[r] = "answered" => event[r] > Len(Events[r])
  BY DEF RequestInv
<1>t. /\ Requests \subseteq Senders /\ Workers \cap Requests = {} /\ r \in Senders
      /\ request \in [Requests -> {"idle", "accepted", "refused", "working", "publishing",
                                   "answered", "panicked"}]
      /\ DOMAIN doing = Senders /\ DOMAIN sender = Senders
  BY AppAssumption DEF TypeOK, HubTypeOK
<1>u. UNCHANGED hubVars => UNCHANGED sender
  BY DEF hubVars
<1>1. CASE Moves
  BY <1>0, <1>1, <1>u, MovesFrame DEF calls, bus
<1>2. ASSUME NEW q \in Requests, Accept(q) \/ Submit(q) \/ RunTask(q) \/ Cancel(q)
      PROVE  /\ request'[r] # "publishing" => doing'[r] = None /\ sender'[r] = None
             /\ request'[r] = "answered" => event'[r] > Len(Events[r])
  <2>1. UNCHANGED <<sender, event, doing>>
    BY <1>2, <1>u DEF Accept, Submit, RunTask, Cancel, Step, bus
  <2>2. \/ request'[r] = request[r]
        \/ request[r] # "publishing" /\ request'[r] # "answered"
    BY <1>2, <1>t DEF Accept, Submit, RunTask, Cancel, Step
  <2> QED
    BY <1>0, <2>1, <2>2
<1>3. ASSUME NEW q \in Requests, CopyToBroker(q)
      PROVE  /\ request'[r] # "publishing" => doing'[r] = None /\ sender'[r] = None
             /\ request'[r] = "answered" => event'[r] > Len(Events[r])
  <2>1. UNCHANGED <<sender, event, doing>>
    BY <1>3, <1>u DEF CopyToBroker, Step, bus
  <2>2. \/ request'[r] = request[r]
        \/ doing[r] = None /\ sender[r] = None /\ event[r] > Len(Events[r])
    BY <1>3, <1>t DEF CopyToBroker, Step
  <2> QED
    BY <1>0, <2>1, <2>2
<1>4. ASSUME NEW q \in Requests, HandOut(q)
      PROVE  /\ request'[r] # "publishing" => doing'[r] = None /\ sender'[r] = None
             /\ request'[r] = "answered" => event'[r] > Len(Events[r])
  <2>1. UNCHANGED sender
    BY <1>4, <1>u DEF HandOut
  <2>2. CASE q = r
    <3>1. /\ request[r] = "publishing" /\ doing[r] = None /\ sender[r] = None
          /\ \/ UNCHANGED request
             \/ request' = [request EXCEPT ![r] = "panicked"] /\ UNCHANGED doing
      BY <1>4, <2>2 DEF HandOut
    <3> QED
      BY <1>t, <2>1, <3>1
  <2>3. CASE q # r
    <3>1. request'[r] = request[r] /\ doing'[r] = doing[r]
      BY <1>4, <1>t, <2>3 DEF HandOut
    <3>2. event'[r] = event[r]
      BY <1>4, <2>3 DEF HandOut, Advance, TypeOK
    <3> QED
      BY <1>0, <2>1, <3>1, <3>2
  <2> QED
    BY <2>2, <2>3
<1>5. ASSUME NEW w \in Workers, Receive(w)
      PROVE  /\ request'[r] # "publishing" => doing'[r] = None /\ sender'[r] = None
             /\ request'[r] = "answered" => event'[r] > Len(Events[r])
  <2>1. doing'[r] = doing[r] /\ UNCHANGED <<sender, request, event>>
    BY <1>5, <1>t, <1>u DEF Receive, calls
  <2> QED
    BY <1>0, <2>1
<1>6. ASSUME NEW a \in Senders, Handle(a)
      PROVE  /\ request'[r] # "publishing" => doing'[r] = None /\ sender'[r] = None
             /\ request'[r] = "answered" => event'[r] > Len(Events[r])
  <2>1. doing[a] # None /\ UNCHANGED <<request, event>>
    BY <1>6 DEF Handle, HandleWS, HandleAudit, HandleNotify, calls
  <2>2. a # r => doing'[r] = doing[r] /\ sender'[r] = sender[r]
    BY <1>6, <1>t, <1>u DEF Handle, HandleWS, HandleAudit, HandleNotify
  <2> QED
    BY <1>0, <2>1, <2>2
<1>7. CASE (\E c \in Clients : Upgrade(c)) \/ Hubs(HubNext)
  <2>1. sender'[r] \in {sender[r], None} /\ UNCHANGED <<request, event, doing>>
    BY <1>7, <1>t, HubSenders DEF Upgrade, Hubs, appVars
  <2> QED
    BY <1>0, <2>1
<1>8. CASE Deliver \/ StopHub \/ UNCHANGED vars
  BY <1>0, <1>8, <1>u DEF Deliver, StopHub, vars, appVars, calls, bus
<1> QED
  BY <1>1, <1>2, <1>3, <1>4, <1>5, <1>6, <1>7, <1>8
     DEF Next, Moves, Serve, Stop, Ended

\* Reached, by stage.
LEMMA ReachedAre ==
  ASSUME TypeOK
  PROVE  /\ Reached("pool") <=> stage \in FromPool
         /\ Reached("bus") <=> stage \in FromBus
         /\ Reached("dispatcher") <=> stage \in FromDispatcher
         /\ Reached("closed") <=> stage \in FromClosed
<1>1. stage \in AllStages
  BY DEF TypeOK, AllStages
<1> QED
  BY <1>1, StageOrder DEF Reached, Past

\* App.Stop's order: what one call left empty stays empty during the later ones.
LEMMA QuietStep ==
  ASSUME TypeOK, RequestInv, QuietInv, [Next]_vars
  PROVE  QuietInv'
<1> USE DEF FromPool, FromBus, FromDispatcher, FromHub, FromClosed
<1>t. /\ Senders = Workers \cup Requests /\ DOMAIN doing = Senders /\ DOMAIN sender = Senders
      /\ done \in BOOLEAN /\ abandoned \in BOOLEAN
  BY AppAssumption DEF TypeOK, HubTypeOK
<1>u. UNCHANGED hubVars => UNCHANGED <<done, sender>>
  BY DEF hubVars
<1>i. UNCHANGED request => InFlight' = InFlight
  BY DEF InFlight
<1>1. CASE Moves
  <2>f. UNCHANGED <<done, sender, request, jobs, doing, outbox>> /\ InFlight' = InFlight
    BY <1>1, <1>i, <1>u, MovesFrame DEF calls, bus
  <2>1. CASE StartUp \/ Signal
    <3>1. stage' \notin FromPool /\ stage \notin FromPool
      BY <2>1 DEF StartUp, Load, Open, Ping, PingFails, PingsExhausted, Migrate, StartBroker,
                  Signal, GoTo
    <3> QED
      BY <2>f, <3>1 DEF QuietInv
  <2>2. CASE ListenFails \/ Drained \/ DrainTimesOut
    <3>1. /\ stage' = "pool" /\ stage \in {"serving", "draining"}
          /\ ~abandoned' => InFlight = {}
      BY <2>2 DEF ListenFails, Drained, DrainTimesOut, GoTo
    <3> QED
      BY <2>f, <3>1 DEF QuietInv
  <2>3. CASE StopPool \/ StopDispatcher \/ CloseConnections \/ Exit
    BY <2>3, <2>f DEF StopPool, StopDispatcher, CloseConnections, Exit, GoTo, QuietInv
  <2>4. CASE StopBus
    <3>1. /\ stage = "bus" /\ stage' = "dispatcher" /\ abandoned' = abandoned
          /\ jobs = <<>> /\ \A w \in Workers : doing[w] = None /\ sender[w] = None
      BY <2>4 DEF StopBus, GoTo
    <3>2. ~abandoned => \A r \in Requests : doing[r] = None /\ sender[r] = None
      BY <3>1 DEF QuietInv, InFlight, RequestInv
    <3> QED
      BY <1>t, <2>f, <3>1, <3>2 DEF QuietInv
  <2> QED
    BY <1>1, <2>1, <2>2, <2>3, <2>4 DEF Moves
<1>2. ASSUME NEW r \in Requests, Accept(r) PROVE QuietInv'
  <2>1. /\ UNCHANGED <<done, stage, jobs, doing, sender, outbox>>
        /\ stage \in FromPool => abandoned'
        /\ ~abandoned' => ~abandoned
    BY <1>2, <1>u DEF Accept, bus
  <2> QED
    BY <2>1 DEF QuietInv
<1>3. ASSUME NEW r \in Requests, Serve(r) PROVE QuietInv'
  <2>1. UNCHANGED <<done, stage, shutdown>> /\ r \in InFlight
    BY <1>3, <1>u DEF Serve, Submit, RunTask, Cancel, HandOut, CopyToBroker, Step, InFlight
  <2> QED
    BY <2>1 DEF QuietInv
<1>4. ASSUME NEW w \in Workers, Receive(w) PROVE QuietInv'
  <2>1. /\ UNCHANGED <<done, stage, abandoned, outbox, request>> /\ InFlight' = InFlight
        /\ jobs # <<>>
    BY <1>4, <1>u, <1>i DEF Receive, calls
  <2> QED
    BY <2>1 DEF QuietInv
<1>5. ASSUME NEW a \in Senders, Handle(a) PROVE QuietInv'
  <2>1. /\ UNCHANGED <<done, stage, abandoned, jobs, request>> /\ InFlight' = InFlight
        /\ doing[a] # None
    BY <1>5, <1>u, <1>i DEF Handle, HandleWS, HandleAudit, HandleNotify, calls
  <2> QED
    BY <2>1 DEF QuietInv
<1>6. CASE (\E c \in Clients : Upgrade(c)) \/ Hubs(HubNext)
  <2>1. /\ UNCHANGED <<done, stage, abandoned, jobs, doing, outbox, request>>
        /\ InFlight' = InFlight
        /\ \A a \in Senders : sender'[a] \in {sender[a], None}
    BY <1>6, <1>i, HubSenders DEF Upgrade, Hubs, appVars
  <2> QED
    BY <2>1 DEF QuietInv
<1>7. CASE Deliver
  <2>1. /\ UNCHANGED <<done, sender, stage, abandoned, jobs, doing, request>> /\ InFlight' = InFlight
        /\ outbox # {}
    BY <1>7, <1>u, <1>i DEF Deliver, calls
  <2> QED
    BY <2>1 DEF QuietInv
<1>8. CASE StopHub
  <2>1. /\ UNCHANGED <<sender, abandoned, jobs, doing, outbox, request>> /\ InFlight' = InFlight
        /\ stage = "hub" /\ stage' = "connections"
    BY <1>8, <1>i DEF StopHub, calls, bus
  <2> QED
    BY <2>1 DEF QuietInv
<1>9. CASE UNCHANGED vars
  BY <1>9, <1>u, <1>i DEF vars, appVars, QuietInv
<1> QED
  BY <1>1, <1>2, <1>3, <1>4, <1>5, <1>6, <1>7, <1>8, <1>9 DEF Next, Moves, Stop, Ended

\* A goroutine is at a handler or in Broadcast, not both.
OneAtATime == \A a \in Senders : doing[a] = None \/ sender[a] = None

\* Every step keeps OneAtATime.
LEMMA OneAtATimeStep ==
  ASSUME TypeOK, OneAtATime, [Next]_vars
  PROVE  OneAtATime'
<1>t. /\ Requests \subseteq Senders /\ Workers \subseteq Senders
      /\ DOMAIN doing = Senders /\ DOMAIN sender = Senders
  BY AppAssumption DEF TypeOK, HubTypeOK
<1>u. UNCHANGED hubVars => UNCHANGED sender
  BY DEF hubVars
<1>1. CASE Moves
  BY <1>1, <1>u, MovesFrame DEF bus, OneAtATime
<1>2. ASSUME NEW r \in Requests, Accept(r) \/ Serve(r) PROVE OneAtATime'
  <2>1. CASE HandOut(r)
    <3>1. sender[r] = None /\ UNCHANGED sender /\ \A a \in Senders \ {r} : doing'[a] = doing[a]
      BY <1>t, <1>u, <2>1 DEF HandOut
    <3> QED
      BY <3>1 DEF OneAtATime
  <2>2. CASE Accept(r) \/ Submit(r) \/ RunTask(r) \/ Cancel(r) \/ CopyToBroker(r)
    BY <1>u, <2>2 DEF Accept, Submit, RunTask, Cancel, CopyToBroker, Step, bus, OneAtATime
  <2> QED
    BY <1>2, <2>1, <2>2 DEF Serve
<1>3. ASSUME NEW w \in Workers, Receive(w) PROVE OneAtATime'
  <2>1. sender[w] = None /\ UNCHANGED sender /\ \A a \in Senders \ {w} : doing'[a] = doing[a]
    BY <1>t, <1>u, <1>3 DEF Receive
  <2> QED
    BY <2>1 DEF OneAtATime
<1>4. ASSUME NEW a \in Senders, Handle(a) PROVE OneAtATime'
  <2>1. /\ doing'[a] = None /\ \A b \in Senders \ {a} : doing'[b] = doing[b]
        /\ \A b \in Senders \ {a} : sender'[b] = sender[b]
    BY <1>t, <1>u, <1>4 DEF Handle, HandleWS, HandleAudit, HandleNotify
  <2> QED
    BY <2>1 DEF OneAtATime
<1>5. CASE (\E c \in Clients : Upgrade(c)) \/ Hubs(HubNext)
  <2>1. (\A a \in Senders : sender'[a] \in {sender[a], None}) /\ UNCHANGED doing
    BY <1>5, HubSenders DEF Upgrade, Hubs, appVars
  <2> QED
    BY <2>1 DEF OneAtATime
<1>6. CASE Deliver \/ StopHub \/ UNCHANGED vars
  BY <1>6, <1>u DEF Deliver, StopHub, vars, appVars, bus, OneAtATime
<1> QED
  BY <1>1, <1>2, <1>3, <1>4, <1>5, <1>6 DEF Next, Moves, Stop, Ended

\* What a sequence holds after a send and before a receive.
LEMMA RangeAppend ==
  ASSUME NEW S, NEW q \in Seq(S), NEW x \in S
  PROVE  Range(Append(q, x)) = Range(q) \cup {x}
<1>1. /\ DOMAIN q = 1 .. Len(q) /\ Len(q) \in Nat
      /\ DOMAIN Append(q, x) = 1 .. Len(q) + 1
      /\ Append(q, x)[Len(q) + 1] = x
  OBVIOUS
<1>2. \A k \in 1 .. Len(q) : Append(q, x)[k] = q[k]
  OBVIOUS
<1>3. \A k \in 1 .. Len(q) + 1 : k \in 1 .. Len(q) \/ k = Len(q) + 1
  BY <1>1
<1>4. Len(q) + 1 \in 1 .. Len(q) + 1 /\ \A k \in 1 .. Len(q) : k \in 1 .. Len(q) + 1
  BY <1>1
<1> QED
  BY <1>1, <1>2, <1>3, <1>4 DEF Range

\* Taking the head off a sequence loses no other element.
LEMMA RangeTail ==
  ASSUME NEW S, NEW q \in Seq(S), q # <<>>
  PROVE  Range(q) = {Head(q)} \cup Range(Tail(q))
<1>1. /\ DOMAIN q = 1 .. Len(q) /\ Len(q) \in Nat \ {0}
      /\ DOMAIN Tail(q) = 1 .. Len(q) - 1 /\ Head(q) = q[1]
  OBVIOUS
<1>2. \A k \in 1 .. Len(q) - 1 : Tail(q)[k] = q[k + 1]
  OBVIOUS
<1>3. ASSUME NEW k \in 1 .. Len(q), k # 1
      PROVE  k - 1 \in 1 .. Len(q) - 1 /\ Tail(q)[k - 1] = q[k]
  <2>1. k - 1 \in 1 .. Len(q) - 1 /\ (k - 1) + 1 = k
    BY <1>1, <1>3
  <2> QED
    BY <1>2, <2>1
<1>4. 1 \in 1 .. Len(q) /\ \A k \in 1 .. Len(q) - 1 : k + 1 \in 1 .. Len(q)
  BY <1>1
<1>5. Range(q) \subseteq {Head(q)} \cup Range(Tail(q))
  <2> SUFFICES ASSUME NEW k \in 1 .. Len(q) PROVE q[k] = Head(q) \/ q[k] \in Range(Tail(q))
    BY <1>1 DEF Range
  <2> QED
    BY <1>1, <1>3 DEF Range
<1>6. Range(Tail(q)) \subseteq Range(q)
  BY <1>1, <1>2, <1>4 DEF Range
<1>7. Head(q) \in Range(q)
  BY <1>1, <1>4 DEF Range
<1> QED
  BY <1>5, <1>6, <1>7

\* An event on its way stays on its way.
LEMMA WayKept ==
  ASSUME TypeOK, QuietInv, OneAtATime, [Next]_vars, ~done \/ ~abandoned,
         NEW e \in Messages, OnItsWay(e)
  PROVE  OnItsWay(e)'
<1>t. /\ Requests \subseteq Senders /\ Workers \subseteq Senders
      /\ DOMAIN doing = Senders /\ DOMAIN sender = Senders
      /\ log \in Seq(Messages) /\ broadcast \in Seq(Messages) /\ jobs \in Seq(Messages \X Kinds)
      /\ sender \in [Senders -> {None} \cup {<<m>> : m \in Messages}]
  BY AppAssumption DEF TypeOK, HubTypeOK, Kinds
<1>n. <<e, "ws">> # None /\ <<e>> # None
  BY DEF None
<1>u. UNCHANGED hubVars => UNCHANGED <<sender, log, broadcast>>
  BY DEF hubVars
<1>w. UNCHANGED <<sender, log, broadcast, jobs, doing>> => OnItsWay(e)'
  BY DEF OnItsWay, Range
<1>1. CASE Moves
  BY <1>1, <1>u, <1>w, MovesFrame DEF bus
<1>2. ASSUME NEW r \in Requests,
             Accept(r) \/ Submit(r) \/ RunTask(r) \/ Cancel(r) \/ CopyToBroker(r)
      PROVE  OnItsWay(e)'
  BY <1>2, <1>u, <1>w DEF Accept, Submit, RunTask, Cancel, CopyToBroker, Step, bus
<1>3. CASE Deliver \/ StopHub \/ UNCHANGED vars
  BY <1>3, <1>u, <1>w DEF Deliver, StopHub, vars, appVars, bus
<1>4. ASSUME NEW r \in Requests, HandOut(r) PROVE OnItsWay(e)'
  <2>1. UNCHANGED <<sender, log, broadcast>> /\ doing[r] = None
    BY <1>4, <1>u DEF HandOut
  <2>2. CASE UNCHANGED <<jobs, doing>>
    BY <1>w, <2>1, <2>2
  <2>3. CASE jobs' = Append(jobs, Job(r)) /\ UNCHANGED doing
    <3>1. Range(jobs) \subseteq Range(jobs')
      <4>1. /\ DOMAIN jobs = 1 .. Len(jobs) /\ DOMAIN Append(jobs, Job(r)) = 1 .. Len(jobs) + 1
            /\ \A k \in 1 .. Len(jobs) : Append(jobs, Job(r))[k] = jobs[k]
            /\ Len(jobs) \in Nat
        BY <1>t
      <4>2. \A k \in 1 .. Len(jobs) : k \in 1 .. Len(jobs) + 1
        BY <4>1
      <4> QED
        BY <2>3, <4>1, <4>2 DEF Range
    <3> QED
      BY <2>1, <2>3, <3>1 DEF OnItsWay
  <2>4. CASE doing' = [doing EXCEPT ![r] = Job(r)] /\ UNCHANGED jobs
    <3>1. \A a \in Senders \ {r} : doing'[a] = doing[a]
      BY <1>t, <2>4
    <3> QED
      BY <1>n, <2>1, <2>4, <3>1 DEF OnItsWay
  <2> QED
    BY <1>4, <2>2, <2>3, <2>4 DEF HandOut
<1>5. ASSUME NEW w \in Workers, Receive(w) PROVE OnItsWay(e)'
  <2>1. /\ UNCHANGED <<sender, log, broadcast>> /\ doing[w] = None /\ w \in Senders
        /\ jobs # <<>> /\ jobs' = Tail(jobs) /\ doing'[w] = Head(jobs)
        /\ \A a \in Senders \ {w} : doing'[a] = doing[a]
    BY <1>5, <1>t, <1>u DEF Receive
  <2>2. Range(jobs) = {Head(jobs)} \cup Range(jobs')
    BY <1>t, <2>1, RangeTail
  <2> QED
    BY <1>n, <2>1, <2>2 DEF OnItsWay
<1>6. ASSUME NEW a \in Senders, Handle(a) PROVE OnItsWay(e)'
  <2>1. /\ UNCHANGED <<log, broadcast, jobs>> /\ doing[a] # None /\ sender[a] = None
        /\ \A b \in Senders \ {a} : doing'[b] = doing[b] /\ sender'[b] = sender[b]
    BY <1>6, <1>t, <1>u DEF Handle, HandleWS, HandleAudit, HandleNotify, OneAtATime
  <2>2. doing[a] = <<e, "ws">> => sender'[a] = <<e>>
    BY <1>6, <1>t DEF Handle, HandleWS, HandleAudit, HandleNotify
  <2> QED
    BY <1>n, <2>1, <2>2 DEF OnItsWay
<1>7. CASE (\E c \in Clients : Upgrade(c)) \/ Hubs(HubNext)
  <2>0. UNCHANGED <<jobs, doing, stage>>
    BY <1>7 DEF Upgrade, Hubs, appVars
  <2>1. CASE RunBroadcast
    <3>1. UNCHANGED sender /\ broadcast # <<>> /\ broadcast' = Tail(broadcast)
          /\ log' = Append(log, Head(broadcast))
      BY <2>1 DEF RunBroadcast
    <3>2. Head(broadcast) \in Messages
      BY <1>t, <3>1
    <3>3. Range(log') = Range(log) \cup {Head(broadcast)}
      BY <1>t, <3>1, <3>2, RangeAppend
    <3>4. Range(broadcast) = {Head(broadcast)} \cup Range(broadcast')
      BY <1>t, <3>1, RangeTail
    <3> QED
      BY <2>0, <3>1, <3>3, <3>4 DEF OnItsWay
  <2>2. ASSUME NEW b \in Senders, BroadcastQueued(b) PROVE OnItsWay(e)'
    <3>1. PICK m \in Messages : sender[b] = <<m>>
      BY <1>t, <2>2 DEF BroadcastQueued
    <3>2. /\ UNCHANGED log /\ broadcast' = Append(broadcast, m)
          /\ \A a \in Senders \ {b} : sender'[a] = sender[a]
      BY <1>t, <2>2, <3>1 DEF BroadcastQueued
    <3>3. Range(broadcast') = Range(broadcast) \cup {m}
      BY <1>t, <3>2, RangeAppend
    <3>4. sender[b] = <<e>> => m = e
      BY <3>1
    <3> QED
      BY <2>0, <3>2, <3>3, <3>4 DEF OnItsWay
  <2>3. ASSUME NEW b \in Senders, BroadcastDone(b) PROVE OnItsWay(e)'
    <3>1. done /\ sender[b] # None /\ ~abandoned
      BY <2>3 DEF BroadcastDone
    <3> QED
      BY <3>1 DEF QuietInv, FromDispatcher, FromHub, FromClosed
  <2>4. CASE UNCHANGED <<sender, log, broadcast>>
    BY <1>w, <2>0, <2>4
  <2>5. \/ RunBroadcast
        \/ \E b \in Senders : BroadcastQueued(b) \/ BroadcastDone(b)
        \/ UNCHANGED <<sender, log, broadcast>>
    BY <1>7 DEF Upgrade, Hubs, HubNext, Run, RunDone, RunRegister, RunUnregister, ReadFails,
                ReadCloses, WritePump, WriteMessage, WriteFails, WriteClose, Broadcast, ServeWS
  <2> QED
    BY <2>1, <2>2, <2>3, <2>4, <2>5
<1> QED
  BY <1>1, <1>2, <1>3, <1>4, <1>5, <1>6, <1>7 DEF Next, Moves, Serve, Stop, Ended

\* Every step keeps PushInv.
LEMMA PushStep ==
  ASSUME TypeOK, LoopInv, QuietInv, OneAtATime, PushInv, [Next]_vars
  PROVE  PushInv'
<1> SUFFICES ASSUME ~done' \/ ~abandoned', NEW r \in Requests, NEW i \in DOMAIN Events[r],
                    i < event'[r]
             PROVE  OnItsWay(Events[r][i])'
  BY DEF PushInv, OnItsWay
<1> DEFINE e == Events[r][i]
<1>t. /\ Events[r] \in Seq(Messages) /\ e \in Messages /\ Len(Events[r]) \in Nat
      /\ i \in 1 .. Len(Events[r])
      /\ jobs \in Seq(Messages \X Kinds) /\ r \in Senders /\ DOMAIN doing = Senders
      /\ event[r] \in Nat
  BY AppAssumption DEF TypeOK, Kinds
<1>u. UNCHANGED hubVars => UNCHANGED done
  BY DEF hubVars
<1>w. ~done \/ ~abandoned
  <2>1. CASE ListenFails \/ DrainTimesOut
    BY <2>1 DEF ListenFails, DrainTimesOut, QuietInv, FromClosed, TypeOK, HubTypeOK
  <2>2. CASE StopHub
    BY <2>2 DEF StopHub, HubStop
  <2>3. CASE (\E c \in Clients : Upgrade(c)) \/ Hubs(HubNext)
    BY <2>3, HubSenders DEF Upgrade, Hubs, appVars
  <2>4. CASE \E a \in Senders : Handle(a)
    BY <2>4, <1>u DEF Handle, HandleWS, HandleAudit, HandleNotify
  <2>5. CASE \E q \in Requests : Accept(q) \/ Serve(q)
    BY <2>5, <1>u DEF Accept, Serve, Submit, RunTask, Cancel, HandOut, CopyToBroker, Step
  <2>6. CASE StartUp \/ Signal \/ Drained \/ StopPool \/ StopBus \/ StopDispatcher
             \/ CloseConnections \/ Exit
    BY <2>6, <1>u DEF StartUp, Load, Open, Ping, PingFails, PingsExhausted, Migrate,
       StartBroker, Signal, Drained, StopPool, StopBus, StopDispatcher, CloseConnections,
       Exit, GoTo
  <2>7. CASE Deliver \/ (\E w \in Workers : Receive(w)) \/ UNCHANGED vars
    BY <2>7, <1>u DEF Deliver, Receive, vars, appVars
  <2> QED
    BY <2>1, <2>2, <2>3, <2>4, <2>5, <2>6, <2>7 DEF Next, Stop, Ended
<1>1. CASE i < event[r]
  <2>1. OnItsWay(e)
    BY <1>1, <1>w DEF PushInv
  <2> QED
    BY <1>t, <1>w, <2>1, WayKept
<1>2. CASE ~(i < event[r])
  <2>1. event'[r] # event[r]
    BY <1>2
  <2>2. HandOut(r) /\ ~Reached("bus")
    <3>1. UNCHANGED event \/ \E q \in Requests : HandOut(q) /\ ~Reached("bus")
      <4>1. Moves => UNCHANGED event
        BY MovesFrame DEF calls
      <4>2. \A q \in Requests :
              Accept(q) \/ Submit(q) \/ RunTask(q) \/ Cancel(q) \/ CopyToBroker(q) =>
                UNCHANGED event
        BY DEF Accept, Submit, RunTask, Cancel, CopyToBroker, Step
      <4>3. \A q \in Requests : HandOut(q) => UNCHANGED event \/ ~Reached("bus")
        BY DEF HandOut
      <4>4. \A w \in Workers : Receive(w) => UNCHANGED event
        BY DEF Receive, calls
      <4>5. \A a \in Senders : Handle(a) => UNCHANGED event
        BY DEF Handle, HandleWS, HandleAudit, HandleNotify, calls
      <4>6. Deliver \/ StopHub \/ Hubs(HubNext) \/ (\E c \in Clients : Upgrade(c))
              \/ UNCHANGED vars => UNCHANGED event
        BY DEF Deliver, StopHub, Hubs, Upgrade, vars, appVars, calls
      <4> QED
        BY <4>1, <4>2, <4>3, <4>4, <4>5, <4>6 DEF Next, Moves, Serve, Stop, Ended
    <3>2. ASSUME NEW q \in Requests, HandOut(q), ~Reached("bus"), q # r PROVE FALSE
      <4>1. Advance(q) /\ event[q] <= Len(Events[q])
        BY <3>2 DEF HandOut
      <4>2. event'[r] = event[r]
        BY <3>2, <4>1, AdvanceStep
      <4> QED
        BY <2>1, <4>2
    <3> QED
      BY <2>1, <3>1, <3>2
  <2>3. Advance(r) /\ event[r] <= Len(Events[r])
    BY <2>2 DEF HandOut
  <2>4. event'[r] = event[r] + 1 /\ Job(r) = <<Events[r][event[r]], "ws">>
    BY <2>1, <2>3, AdvanceStep
  <2>5. i = event[r]
    BY <1>2, <1>t, <2>4
  <2>6. Job(r) = <<e, "ws">> /\ Job(r) \in Messages \X Kinds
    BY <2>3, <2>4, <2>5, AdvanceStep
  <2>7. \/ jobs' = Append(jobs, Job(r))
        \/ doing' = [doing EXCEPT ![r] = Job(r)]
    BY <2>2 DEF HandOut
  <2>8. CASE jobs' = Append(jobs, Job(r))
    <3>1. Range(jobs') = Range(jobs) \cup {Job(r)}
      <4>1. jobs \in Seq(Messages \X Kinds) /\ Job(r) \in Messages \X Kinds
        BY <1>t, <2>6
      <4>2. Range(Append(jobs, Job(r))) = Range(jobs) \cup {Job(r)}
        BY <4>1, RangeAppend
      <4> QED
        BY <2>8, <4>2
    <3> QED
      BY <2>6, <3>1 DEF OnItsWay
  <2>9. CASE doing' = [doing EXCEPT ![r] = Job(r)]
    <3>1. doing'[r] = <<e, "ws">>
      BY <1>t, <2>6, <2>9
    <3> QED
      BY <1>t, <3>1 DEF OnItsWay
  <2> QED
    BY <2>7, <2>8, <2>9
<1> QED
  BY <1>1, <1>2

-----------------------------------------------------------------------------
(* The inductive invariant and the theorems.                                *)

AppInv ==
  /\ TypeOK /\ LoopInv
  /\ ClosedOnce /\ FreshInv /\ PieceInv
  /\ RequestInv /\ OneAtATime /\ QuietInv /\ PushInv

\* Every step of the process is, for the hub's clients, one of the hub or none.
LEMMA NextIsHubStep ==
  ASSUME TypeOK, [Next]_vars
  PROVE  HubStep
<1>u. UNCHANGED hubVars => HubStep
  BY DEF hubVars, HubStep
<1>1. CASE Moves
  BY <1>1, <1>u, MovesFrame
<1>2. CASE \E r \in Requests : Accept(r) \/ Serve(r)
  BY <1>2, <1>u DEF Accept, Serve, Submit, RunTask, Cancel, HandOut, CopyToBroker, Step
<1>3. CASE \E w \in Workers : Receive(w)
  BY <1>3, <1>u DEF Receive
<1>4. CASE \E a \in Senders : Handle(a)
  BY <1>4, <1>u DEF Handle, HandleWS, HandleAudit, HandleNotify, HubStep
<1>5. CASE (\E c \in Clients : Upgrade(c)) \/ Hubs(HubNext)
  BY <1>5 DEF Upgrade, Hubs, HubStep
<1>6. CASE Deliver \/ UNCHANGED vars
  BY <1>6, <1>u DEF Deliver, vars
<1>7. CASE StopHub
  BY <1>7 DEF StopHub, HubStep
<1> QED
  BY <1>1, <1>2, <1>3, <1>4, <1>5, <1>6, <1>7 DEF Next, Moves, Stop, Ended

\* A process that has not read its configuration satisfies the invariant.
LEMMA AppInitially ==
  ASSUME Init
  PROVE  AppInv
<1> USE DEF Init, HubInit
<1>1. HubTypeOK
  <2> SendBuffer \in Nat
    BY HubAssumption
  <2>1. <<>> \in Seq(Messages) /\ Len(<<>>) = 0
    OBVIOUS
  <2>2. send \in [Clients -> Seq(Messages)] /\ \A c \in Clients : Len(send[c]) <= SendBuffer
    BY <2>1
  <2>3. got \in [Clients -> Seq(Messages)] /\ log \in Seq(Messages)
    BY <2>1
  <2>4. broadcast \in Seq(Messages) /\ Len(broadcast) <= SendBuffer
    BY <2>1
  <2>5. sender \in [Senders -> {None} \cup {<<m>> : m \in Messages}]
    OBVIOUS
  <2> QED
    BY <2>2, <2>3, <2>4, <2>5 DEF HubTypeOK
<1>2. TypeOK
  <2>1. stage \in Range(Stages) \cup {"failed"}
    BY StageNames DEF AllStages
  <2>2. pings \in 0 .. ConnectRetries /\ rabbit \subseteq {"publisher", "consumer"}
    BY AppAssumption
  <2>3. \A r \in Requests : event[r] \in 1 .. Len(Events[r]) + 1
    <3> SUFFICES ASSUME NEW r \in Requests PROVE 1 \in 1 .. Len(Events[r]) + 1
      OBVIOUS
    <3>1. Len(Events[r]) \in Nat
      BY AppAssumption
    <3> QED
      BY <3>1
  <2>4. jobs \in Seq(Messages \X {"notify", "audit", "ws"}) /\ Len(jobs) <= EventQueueSize
    BY AppAssumption
  <2> QED
    BY <1>1, <2>1, <2>2, <2>3, <2>4 DEF TypeOK
<1>3. LoopInv
  <2> SUFFICES ASSUME NEW r \in Requests
               PROVE  handler[r] \in 1 .. Len(HandlersOf(Events[r][event[r]]))
    BY DEF LoopInv
  <2>1. Len(HandlersOf(Events[r][event[r]])) \in {2, 3} /\ handler[r] = 1
    BY HandlerLists
  <2>2. \A n \in {2, 3} : 1 \in 1 .. n
    OBVIOUS
  <2> QED
    BY <2>1, <2>2
<1>4. ClosedOnce /\ FreshInv
  BY DEF ClosedOnce, FreshInv
<1>5. PieceInv
  <2>1. \A c \in Clients : Len(got[c]) = 0 /\ joined[c] = 0 /\ Len(log) = 0 /\ writer[c] = "none"
    OBVIOUS
  <2> QED
    BY <2>1 DEF PieceInv, PieceAt
<1>6. RequestInv /\ OneAtATime
  BY AppAssumption DEF RequestInv, OneAtATime
<1>7. QuietInv
  BY DEF QuietInv, FromPool, FromBus, FromDispatcher, FromHub, FromClosed
<1>8. PushInv
  <2> SUFFICES ASSUME NEW r \in Requests, NEW i \in DOMAIN Events[r], i < event[r] PROVE FALSE
    BY DEF PushInv
  <2>1. i \in 1 .. Len(Events[r]) /\ event[r] = 1
    BY AppAssumption
  <2> QED
    BY <2>1
<1> QED
  BY <1>2, <1>3, <1>4, <1>5, <1>6, <1>7, <1>8 DEF AppInv

\* AppInv is inductive.
LEMMA AppInvHolds == Spec => []AppInv
<1>1. Init => AppInv
  BY AppInitially
<1>2. AppInv /\ [Next]_vars => AppInv'
  <2> SUFFICES ASSUME AppInv, [Next]_vars PROVE AppInv'
    OBVIOUS
  <2> USE DEF AppInv
  <2>1. HubStep /\ HubTypeOK
    BY NextIsHubStep DEF TypeOK
  <2>2. TypeOK' /\ LoopInv'
    BY TypeStep
  <2>3. ClosedOnce' /\ FreshInv' /\ PieceInv'
    BY <2>1, ClosedStep, PieceStep
  <2>4. RequestInv' /\ OneAtATime' /\ QuietInv' /\ PushInv'
    BY RequestStep, OneAtATimeStep, QuietStep, PushStep
  <2> QED
    BY <2>2, <2>3, <2>4
<1> QED
  BY <1>1, <1>2, PTL DEF Spec

\* Every variable of the process and the hub keeps its type and no channel
\* exceeds its capacity, for any number of requests, workers and clients.
THEOREM AppTypeCorrect == Spec => []TypeOK
<1>1. AppInv => TypeOK
  BY DEF AppInv
<1> QED
  BY <1>1, AppInvHolds, PTL

\* Run neither closes a client's channel twice nor sends on a closed one,
\* however Stop, broadcasts to slow clients and disconnects overlap.
THEOREM HubClosesOnce == Spec => []ClosedOnce
<1>1. AppInv => ClosedOnce
  BY DEF AppInv
<1> QED
  BY <1>1, AppInvHolds, PTL

\* A client receives an unbroken piece of what the hub broadcast since it
\* registered, for any number of clients and any buffer.
THEOREM ClientsMissNothing == Spec => []NoGap
<1>1. AppInv => NoGap
  <2> SUFFICES ASSUME AppInv, NEW c \in Clients
      PROVE /\ got[c] = SubSeq(log, joined[c] + 1, joined[c] + Len(got[c]))
            /\ c \in clients /\ writer[c] = "writing" =>
                 got[c] \o send[c] = SubSeq(log, joined[c] + 1, Len(log))
    BY DEF NoGap
  <2>1. PieceAt(c)
    BY DEF AppInv, PieceInv
  <2>2. /\ joined[c] \in Nat /\ got[c] \in Seq(Messages) /\ send[c] \in Seq(Messages)
        /\ log \in Seq(Messages)
    BY DEF AppInv, TypeOK, HubTypeOK
  <2>3. Len(got[c]) \in Nat /\ Len(send[c]) \in Nat /\ Len(log) \in Nat
    BY <2>2
  <2>4. \A k \in 1 .. Len(log) : log[k] \in Messages
    BY <2>2
  <2>5. ASSUME NEW q \in Seq(Messages), joined[c] + Len(q) <= Len(log),
               \A k \in 1 .. Len(q) : q[k] = log[joined[c] + k]
        PROVE  q = SubSeq(log, joined[c] + 1, joined[c] + Len(q))
    <3> DEFINE m == joined[c] + 1
               n == joined[c] + Len(q)
    <3>1. m \in Int /\ n \in Int /\ Len(q) \in Nat /\ n - m + 1 = Len(q)
      BY <2>2
    <3>2. \A k \in m .. n : k \in 1 .. Len(log)
      BY <2>2, <2>3, <2>5
    <3>3. \A k \in m .. n : log[k] \in Messages
      BY <2>4, <3>2
    <3>4. ASSUME NEW k \in 1 .. Len(q) PROVE m + k - 1 = joined[c] + k
      BY <2>2
    <3>5. m <= n \/ Len(q) = 0
      BY <2>2, <3>1
    <3> HIDE DEF m, n
    <3>6. /\ SubSeq(log, m, n) \in Seq(Messages)
          /\ Len(SubSeq(log, m, n)) = IF m <= n THEN n - m + 1 ELSE 0
          /\ \A k \in 1 .. n - m + 1 : SubSeq(log, m, n)[k] = log[m + k - 1]
      BY <3>1, <3>3, SubSeqProperties
    <3>7. Len(SubSeq(log, m, n)) = Len(q)
      BY <3>1, <3>5, <3>6
    <3>8. \A k \in 1 .. Len(q) : q[k] = SubSeq(log, m, n)[k]
      BY <2>5, <3>1, <3>4, <3>6
    <3>9. q = SubSeq(log, m, n)
      BY <3>6, <3>7, <3>8, SeqEqual
    <3> QED
      BY <3>9 DEF m, n
  <2>6. got[c] = SubSeq(log, joined[c] + 1, joined[c] + Len(got[c]))
    BY <2>1, <2>2, <2>5 DEF PieceAt
  <2>7. ASSUME c \in clients, writer[c] = "writing"
        PROVE  got[c] \o send[c] = SubSeq(log, joined[c] + 1, Len(log))
    <3> DEFINE q == got[c] \o send[c]
    <3>1. /\ q \in Seq(Messages) /\ Len(q) = Len(got[c]) + Len(send[c])
          /\ \A k \in 1 .. Len(got[c]) + Len(send[c]) :
               q[k] = IF k <= Len(got[c]) THEN got[c][k] ELSE send[c][k - Len(got[c])]
      BY <2>2, ConcatProperties
    <3>2. /\ joined[c] + Len(got[c]) + Len(send[c]) = Len(log)
          /\ \A k \in 1 .. Len(got[c]) : got[c][k] = log[joined[c] + k]
          /\ \A k \in 1 .. Len(send[c]) : send[c][k] = log[joined[c] + Len(got[c]) + k]
      BY <2>1, <2>7 DEF PieceAt
    <3>3. joined[c] + Len(q) = Len(log)
      <4>1. \A x, y, z \in Nat : x + (y + z) = x + y + z
        OBVIOUS
      <4>2. joined[c] + (Len(got[c]) + Len(send[c])) = Len(log)
        BY <2>2, <2>3, <3>2, <4>1
      <4> QED
        BY <3>1, <4>2
    <3>4. ASSUME NEW k \in 1 .. Len(got[c]) + Len(send[c]) PROVE q[k] = log[joined[c] + k]
      <4>1. CASE k <= Len(got[c])
        <5>1. k \in 1 .. Len(got[c])
          BY <2>3, <4>1
        <5> QED
          BY <3>1, <3>2, <4>1, <5>1
      <4>2. CASE ~(k <= Len(got[c]))
        <5>1. /\ k - Len(got[c]) \in 1 .. Len(send[c])
              /\ joined[c] + Len(got[c]) + (k - Len(got[c])) = joined[c] + k
          <6>1. \A x, y, z \in Nat : \A v \in 1 .. y + z :
                  ~(v <= y) => v - y \in 1 .. z /\ x + y + (v - y) = x + v
            OBVIOUS
          <6> QED
            BY <2>2, <2>3, <4>2, <6>1
        <5>2. q[k] = send[c][k - Len(got[c])]
          BY <3>1, <4>2
        <5> QED
          BY <3>2, <5>1, <5>2
      <4> QED
        BY <4>1, <4>2
    <3>5. joined[c] + Len(q) <= Len(log)
      <4>1. \A x \in Nat : x <= x
        OBVIOUS
      <4> QED
        BY <2>3, <3>3, <4>1
    <3> HIDE DEF q
    <3>6. q = SubSeq(log, joined[c] + 1, joined[c] + Len(q))
      BY <2>5, <3>1, <3>4, <3>5
    <3> QED
      BY <3>3, <3>6 DEF q
  <2> QED
    BY <2>6, <2>7
<1> QED
  BY <1>1, AppInvHolds, PTL

\* App.Stop closes the database after everyone who uses it, unless server.Run
\* gave up on requests.
THEOREM DatabaseClosesLast == Spec => []DbOutlivesUsers
<1>1. AppInv => DbOutlivesUsers
  BY ReachedAre DEF AppInv, QuietInv, DbOutlivesUsers, FromPool, FromBus, FromDispatcher,
                    FromHub, FromClosed
<1> QED
  BY <1>1, AppInvHolds, PTL

\* A shutdown that waited for its requests loses no event of an answered one
\* before the hub has taken it.
THEOREM EventsAreNotLost == Spec => []EventsReachHub
<1>1. AppInv => EventsReachHub
  <2> SUFFICES ASSUME AppInv, stage = "exited", ~abandoned, NEW r \in Requests,
                      request[r] = "answered", NEW i \in DOMAIN Events[r]
               PROVE  Events[r][i] \in Range(log) \cup Range(broadcast)
    BY DEF EventsReachHub, Range
  <2> USE DEF AppInv
  <2>1. i < event[r]
    <3>1. i \in 1 .. Len(Events[r]) /\ Len(Events[r]) \in Nat
      BY AppAssumption
    <3>2. event[r] > Len(Events[r]) /\ event[r] \in Nat
      BY DEF RequestInv, TypeOK
    <3> QED
      BY <3>1, <3>2
  <2>2. OnItsWay(Events[r][i])
    BY <2>1 DEF PushInv
  <2>3. jobs = <<>> /\ \A a \in Senders : doing[a] = None /\ sender[a] = None
    BY DEF QuietInv, FromDispatcher, FromHub, FromClosed
  <2>4. Range(jobs) = {}
    BY <2>3 DEF Range
  <2>5. <<Events[r][i], "ws">> # None /\ <<Events[r][i]>> # None
    BY DEF None
  <2> QED
    BY <2>2, <2>3, <2>4, <2>5 DEF OnItsWay
<1> QED
  BY <1>1, AppInvHolds, PTL
=============================================================================
