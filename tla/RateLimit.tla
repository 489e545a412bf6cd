----------------------------- MODULE RateLimit -----------------------------
(* middleware.RateLimit: a token bucket per client address, evicted when    *)
(* unused for TTL.  A request reads the clock before it waits for the       *)
(* mutex, so it evicts and stamps with a time that may be stale, and stamps *)
(* may go backwards; the bucket itself reads the clock again.  Time is in   *)
(* ticks; a bucket gains RPS tokens per tick up to Burst.                   *)

EXTENDS Naturals, Integers, FiniteSets

CONSTANTS
  Calls,     \* requests
  IPs,       \* client addresses
  RPS,
  Burst,
  TTL,
  MaxDelay,  \* bound on the wait between the clock and the mutex
  MaxTime    \* bound on the clock

\* What the bucket of an idle client regains before it can be evicted fills it.
ASSUME RateAssumption ==
  /\ RPS \in Nat \ {0} /\ Burst \in Nat \ {0} /\ TTL \in Nat /\ MaxDelay \in Nat /\ MaxTime \in Nat
  /\ MaxDelay <= TTL /\ (TTL - MaxDelay) * RPS >= Burst

VARIABLES
  now,        \* the clock
  stamp,      \* stamp[c]: the time c has read, or NoTime
  entries,    \* the map: per address a bucket and when it was last seen
  lastEvict,
  ideal       \* history: the buckets of a limiter that never evicts

limitVars == <<now, stamp, entries, lastEvict, ideal>>

NoTime == -1
Fresh == [tokens |-> Burst, last |-> 0, seen |-> 0]

\* rate.Limiter: tokens of a bucket at the present time.
Tokens(b) == LET t == b.tokens + (now - b.last) * RPS IN IF t > Burst THEN Burst ELSE t

\* Limiter.Allow takes one token if there is one.
Take(b) == IF Tokens(b) >= 1
           THEN [b EXCEPT !.tokens = Tokens(b) - 1, !.last = now]
           ELSE b

Waiting == {c \in Calls : stamp[c] # NoTime}

Tick ==
  /\ now < MaxTime
  /\ \A c \in Waiting : now + 1 - stamp[c] <= MaxDelay
  /\ now' = now + 1
  /\ UNCHANGED <<stamp, entries, lastEvict, ideal>>

ReadClock(c) ==
  /\ stamp[c] = NoTime
  /\ stamp' = [stamp EXCEPT ![c] = now]
  /\ UNCHANGED <<now, entries, lastEvict, ideal>>

\* Variant: the sweep does not look at when an entry was last seen.
KeptAll(t) == IF t - lastEvict >= TTL THEN {} ELSE DOMAIN entries

\* Addresses that keep their entry when a request stamped t has the mutex.
Kept(t) ==
  IF t - lastEvict >= TTL
  THEN {ip \in DOMAIN entries : t - entries[ip].seen < TTL}
  ELSE DOMAIN entries

\* The bucket a request of ip stamped t is measured against.
Bucket(ip, t) == IF ip \in Kept(t) THEN entries[ip] ELSE Fresh

Allowed(c, ip) == Tokens(Bucket(ip, stamp[c])) >= 1

\* The critical section.
Limit(c, ip) ==
  /\ stamp[c] # NoTime
  /\ LET t == stamp[c] IN
     /\ entries' = [a \in Kept(t) \cup {ip} |->
                      IF a = ip THEN [Take(Bucket(ip, t)) EXCEPT !.seen = t] ELSE entries[a]]
     /\ lastEvict' = IF t - lastEvict >= TTL THEN t ELSE lastEvict
  /\ ideal' = [ideal EXCEPT ![ip] = Take(@)]
  /\ stamp' = [stamp EXCEPT ![c] = NoTime]
  /\ UNCHANGED now

LimitInit ==
  /\ now = 0
  /\ stamp = [c \in Calls |-> NoTime]
  /\ entries = [a \in {} |-> Fresh]
  /\ lastEvict = 0
  /\ ideal = [ip \in IPs |-> Fresh]

\* Forgetting idle clients changes no decision, although the stamps it goes by
\* are stale and out of order: every client finds the tokens it would find in
\* a limiter that never evicts.
EvictionInvisible ==
  \A ip \in IPs : \A t \in {now} \cup {stamp[c] : c \in Waiting} :
    Tokens(Bucket(ip, t)) = Tokens(ideal[ip])
=============================================================================
