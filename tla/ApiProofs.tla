----------------------------- MODULE ApiProofs -----------------------------
(* Theorems about Api, for any requests, rows, seed data and limits: the    *)
(* eviction of rate limit entries is invisible, tokens tell the truth, an   *)
(* update of a product is lost only to one that overlapped it, only an      *)
(* interrupted seed program leaves a product without inventory, stock is    *)
(* never negative, a panic has one of two known reasons, and a daily report *)
(* has as many orders as there were when it began.                          *)
EXTENDS Api, FiniteSetTheorems, NaturalsInduction, WellFoundedInduction, TLAPS

-----------------------------------------------------------------------------
(* What a step of one request leaves alone.                                 *)

\* Everywhere a request can be, but for the two points at which it holds a
\* copy of a row that it will write back.
Points == {"limit", "mutex", "auth", "handler", "done", "panicked", "line", "reserve",
           "settle", "submit", "publish", "load", "write", "count", "find"}

\* The requests: what they ask for, and that one that has arrived is known.
CallsInv ==
  /\ DOMAIN call \subseteq Calls /\ \A c \in DOMAIN call : Sends(call[c])
  /\ DOMAIN pc = Calls /\ DOMAIN mem = Calls
  /\ \A c \in Calls : pc[c] # "idle" => c \in DOMAIN call

\* c goes to one of these points; the other requests stay where they are.
Moved(c) ==
  /\ c \in DOMAIN call /\ UNCHANGED call
  /\ DOMAIN pc' = Calls /\ DOMAIN mem' = Calls
  /\ pc'[c] \in Points
  /\ \A d \in Calls \ {c} : pc'[d] = pc[d] /\ mem'[d] = mem[d]

\* A step of c that changes no user, token, product or seed program.
Frame(c) ==
  /\ Moved(c)
  /\ UNCHANGED <<users, tokens, products, commits, seed, interrupted>>
  /\ DOMAIN inventory' = DOMAIN inventory

\* The ends and the points of a handler.
LEMMA HandlerMoves ==
  ASSUME CallsInv, NEW c \in DOMAIN call, UNCHANGED call
  PROVE  /\ \A s : Reply(c, s) => Moved(c)
         /\ \A k : Fail(c, k) => Moved(c)
         /\ Panic(c) => Moved(c)
         /\ \A k : Refuse(c, k) => Moved(c)
         /\ \A p \in Points : \A m : GoOn(c, p, m) => Moved(c)
<1>1. \A s : Reply(c, s) => Moved(c)
  BY DEF Reply, Moved, CallsInv, Points
<1>2. \A k : Fail(c, k) => Moved(c)
  BY <1>1 DEF Fail
<1>3. Panic(c) => Moved(c)
  BY DEF Panic, Moved, CallsInv, Points
<1>4. \A k : Refuse(c, k) => Moved(c)
  BY <1>2, <1>3 DEF Refuse
<1>5. \A p \in Points : \A m : GoOn(c, p, m) => Moved(c)
  BY DEF GoOn, Moved, CallsInv
<1> QED
  BY <1>1, <1>2, <1>3, <1>4, <1>5

\* The middleware chain: it changes no row and issues no token.
LEMMA HttpFrame ==
  ASSUME CallsInv, NEW c \in Calls, HttpStep(c), UNCHANGED <<users, catalogueVars, orderVars>>
  PROVE  Frame(c)
<1>0. UNCHANGED <<call, tokens>> /\ c \in DOMAIN call
  BY DEF HttpStep, Arrive, Clock, Throttle, Unauthorized, Auth, Ping, At, CallsInv
<1>1. Moved(c)
  <2>1. CASE Arrive(c)
    BY <1>0, <2>1 DEF Arrive, Moved, CallsInv, Points
  <2>2. CASE Clock(c)
    BY <1>0, <2>2 DEF Clock, Moved, CallsInv, Points
  <2>3. CASE Throttle(c)
    BY <1>0, <2>3, HandlerMoves DEF Throttle, Points
  <2>4. CASE Unauthorized(c)
    BY <1>0, <2>4, HandlerMoves DEF Unauthorized
  <2>5. CASE Auth(c)
    <3>1. (\E k : Fail(c, k))
          \/ (pc' = [pc EXCEPT ![c] = "handler"] /\ UNCHANGED mem)
      BY <2>5 DEF Auth
    <3>2. pc' = [pc EXCEPT ![c] = "handler"] /\ UNCHANGED mem => Moved(c)
      BY <1>0 DEF Moved, CallsInv, Points
    <3> QED
      BY <1>0, <3>1, <3>2, HandlerMoves
  <2>6. CASE Ping(c)
    BY <1>0, <2>6, HandlerMoves DEF Ping
  <2> QED
    BY <2>1, <2>2, <2>3, <2>4, <2>5, <2>6 DEF HttpStep
<1> QED
  BY <1>0, <1>1 DEF Frame, catalogueVars

\* Handlers of orders: they change no user and no product, and inventory rows
\* stay.
LEMMA OrderFrame ==
  ASSUME CallsInv, NEW c \in Calls, OrderStep(c)
  PROVE  Frame(c) /\ UNCHANGED limitVars
<1> USE DEF accountVars, catalogueVars, orderVars, seedVars
<1>0. UNCHANGED <<call, tokens, users, products, commits, seed, interrupted, limitVars>>
      /\ c \in DOMAIN call
  BY DEF OrderStep, PlaceLookup, PlaceLine, PlaceSubmit, PlaceReserve, PlaceSettle, Publish, GetOrder,
         ListOrders, CancelCheck, CancelLoad, CancelWrite, UpdateStatusRead, UpdateStatusWrite,
         ReportCount, ReportFind, At
<1>i. \A items : Reserve(items) \/ Release(items) \/ Commit(items) =>
                   DOMAIN inventory' = DOMAIN inventory
  BY DEF Reserve, Release, Commit
<1>p. {"line", "submit", "reserve", "settle", "publish", "load", "write", "count", "find"} \subseteq Points
  BY DEF Points
<1>q. \A s : PublishThen(c, s) => Moved(c)
  BY <1>0, <1>p, HandlerMoves DEF PublishThen
<1> USE HandlerMoves, <1>0, <1>p, <1>q
<1>1. CASE PlaceLookup(c)
  BY <1>1 DEF PlaceLookup, Frame
<1>2. CASE PlaceLine(c)
  BY <1>2 DEF PlaceLine, Frame
<1>13. CASE PlaceSubmit(c) \/ Publish(c)
  BY <1>13 DEF PlaceSubmit, Publish, Frame
<1>3. CASE PlaceReserve(c)
  BY <1>3, <1>i DEF PlaceReserve, Frame
<1>4. CASE PlaceSettle(c)
  BY <1>4, <1>i DEF PlaceSettle, Frame
<1>5. CASE GetOrder(c)
  BY <1>5 DEF GetOrder, Frame
<1>6. CASE ListOrders(c)
  BY <1>6 DEF ListOrders, Frame
<1>7. CASE CancelCheck(c) \/ CancelLoad(c)
  BY <1>7 DEF CancelCheck, CancelLoad, Frame
<1>8. CASE CancelWrite(c)
  BY <1>8, <1>i DEF CancelWrite, Frame
<1>9. CASE UpdateStatusRead(c)
  BY <1>9 DEF UpdateStatusRead, Frame
<1>10. CASE UpdateStatusWrite(c)
  BY <1>10 DEF UpdateStatusWrite, Frame
<1>11. CASE ReportCount(c)
  BY <1>11 DEF ReportCount, Frame
<1>12. CASE ReportFind(c)
  BY <1>12 DEF ReportFind, Frame
<1> QED
  BY <1>1, <1>2, <1>3, <1>4, <1>5, <1>6, <1>7, <1>8, <1>9, <1>10, <1>11, <1>12, <1>13
  DEF OrderStep

\* The handlers that only read, and a statement that fails.
LEMMA ReadFrame ==
  ASSUME CallsInv, NEW c \in Calls,
         \/ GetUser(c) /\ UNCHANGED <<catalogueVars, orderVars>>
         \/ (GetProduct(c) \/ ListProducts(c) \/ GetInventory(c) \/ GetLowStock(c))
            /\ UNCHANGED orderVars
         \/ DbFails(c)
  PROVE  Frame(c) /\ UNCHANGED limitVars
<1> USE DEF catalogueVars, orderVars
<1>0. UNCHANGED <<call, tokens, users, products, inventory, commits, seed, interrupted, limitVars>>
      /\ c \in DOMAIN call
  BY DEF GetUser, GetProduct, ListProducts, GetInventory, GetLowStock, DbFails, At, CallsInv
<1> USE HandlerMoves, <1>0
<1>1. CASE GetUser(c)
  BY <1>1 DEF GetUser, Frame
<1>2. CASE GetProduct(c)
  BY <1>2 DEF GetProduct, Frame
<1>3. CASE ListProducts(c)
  BY <1>3 DEF ListProducts, Frame
<1>4. CASE GetInventory(c)
  BY <1>4 DEF GetInventory, Frame
<1>5. CASE GetLowStock(c) \/ DbFails(c)
  BY <1>5 DEF GetLowStock, DbFails, PublishThen, Points, Frame
<1> QED
  BY <1>1, <1>2, <1>3, <1>4, <1>5

-----------------------------------------------------------------------------
(* The rate limit.                                                          *)

BucketRows == [tokens : 0 .. Burst, last : Nat, seen : Nat]

\* Tokens of b at the present time, were there no Burst.
Regained(b) == b.tokens + (now - b.last) * RPS

\* An entry has the tokens of the bucket that is never evicted, and was seen
\* shortly before they were last taken; a bucket without entry is full.
LimitInv ==
  /\ now \in Nat /\ DOMAIN stamp = Calls
  /\ \A c \in Calls : stamp[c] # NoTime => stamp[c] \in 0 .. now /\ now - stamp[c] <= MaxDelay
  /\ DOMAIN entries \subseteq IPs
  /\ ideal \in [IPs -> BucketRows] /\ \A ip \in IPs : ideal[ip].last <= now
  /\ \A ip \in DOMAIN entries :
       /\ entries[ip] \in BucketRows
       /\ entries[ip].tokens = ideal[ip].tokens /\ entries[ip].last = ideal[ip].last
       /\ entries[ip].last <= entries[ip].seen + MaxDelay
  /\ \A ip \in IPs : ip \notin DOMAIN entries => Regained(ideal[ip]) >= Burst

\* The facts of arithmetic that the buckets need.
LEMMA Products ==
  /\ \A x, y \in Nat : x * y \in Nat
  /\ \A x, y, k \in Nat : x <= y => x * k <= y * k
OBVIOUS

\* What the constants say of the limiter.
LEMMA Rates ==
  /\ RPS \in Nat /\ Burst \in Nat /\ Burst >= 1 /\ TTL \in Nat /\ MaxDelay \in Nat
  /\ MaxDelay <= TTL /\ Burst <= (TTL - MaxDelay) * RPS
BY RateAssumption

\* A bucket never holds more than Burst, nor fewer than none.
LEMMA TokensOf ==
  ASSUME now \in Nat, NEW b \in BucketRows, b.last <= now
  PROVE  /\ Regained(b) \in Nat /\ Tokens(b) \in 0 .. Burst
         /\ Tokens(b) = IF Regained(b) > Burst THEN Burst ELSE Regained(b)
         /\ Regained(b) >= Burst => Tokens(b) = Burst
<1>1. b.tokens \in Nat /\ now - b.last \in Nat
  BY Rates DEF BucketRows
<1>2. (now - b.last) * RPS \in Nat
  BY <1>1, Rates, Products
<1>3. Regained(b) \in Nat
  BY <1>1, <1>2 DEF Regained
<1>4. Tokens(b) = IF Regained(b) > Burst THEN Burst ELSE Regained(b)
  BY DEF Tokens, Regained
<1> HIDE DEF Regained
<1> QED
  BY <1>3, <1>4, Rates

\* Time only fills a bucket.
LEMMA LaterFuller ==
  ASSUME now \in Nat, now' \in Nat, now <= now', NEW b \in BucketRows, b.last <= now,
         Regained(b) >= Burst
  PROVE  b.tokens + (now' - b.last) * RPS >= Burst
<1>1. b.tokens \in Nat /\ now - b.last \in Nat /\ now' - b.last \in Nat
      /\ now - b.last <= now' - b.last
  BY Rates DEF BucketRows
<1>2. (now - b.last) * RPS <= (now' - b.last) * RPS
  BY <1>1, Rates, Products
<1>3. (now - b.last) * RPS \in Nat /\ (now' - b.last) * RPS \in Nat
  BY <1>1, Rates, Products
<1>4. b.tokens + (now - b.last) * RPS >= Burst
  BY DEF Regained
<1>5. \A x, y, z, v \in Nat : x + y >= v /\ y <= z => x + z >= v
  OBVIOUS
<1> QED
  BY <1>1, <1>2, <1>3, <1>4, <1>5, Rates

\* An entry that a request stamped t evicts is full: whoever was seen TTL
\* before t took the last token at most MaxDelay later.
LEMMA EvictedIsFull ==
  ASSUME LimitInv, NEW t \in 0 .. now, NEW ip \in DOMAIN entries, ip \notin Kept(t)
  PROVE  Regained(ideal[ip]) >= Burst
<1> DEFINE b == ideal[ip]
<1>1. b \in BucketRows /\ b.last <= now /\ now \in Nat
  BY DEF LimitInv
<1>2. entries[ip].seen \in Nat /\ b.last <= entries[ip].seen + MaxDelay
  BY DEF LimitInv, BucketRows
<1>3. ~(t - entries[ip].seen < TTL)
  BY DEF Kept
<1>4. b.tokens \in Nat /\ b.last \in Nat
  BY <1>1, Rates DEF BucketRows
<1>5. /\ TTL - MaxDelay \in Nat /\ now - b.last \in Nat
      /\ TTL - MaxDelay <= now - b.last
  <2> HIDE DEF b
  <2>1. \A n, s, l, m, d, u \in Nat :
          s <= n /\ ~(s - l < d) /\ u <= l + m /\ m <= d /\ u <= n =>
            d - m \in Nat /\ n - u \in Nat /\ d - m <= n - u
    OBVIOUS
  <2>2. t \in Nat /\ t <= now
    BY <1>1
  <2> QED
    BY <1>1, <1>2, <1>3, <1>4, <2>1, <2>2, Rates
<1>6. (TTL - MaxDelay) * RPS <= (now - b.last) * RPS
  BY <1>5, Rates, Products
<1>7. (TTL - MaxDelay) * RPS \in Nat /\ (now - b.last) * RPS \in Nat
  BY <1>5, Rates, Products
<1>8. \A x, y, z, v \in Nat : v <= y /\ y <= z => x + z >= v
  OBVIOUS
<1>9. b.tokens + (now - b.last) * RPS >= Burst
  BY <1>4, <1>6, <1>7, <1>8, Rates
<1> QED
  BY <1>9 DEF Regained

\* The bucket a request finds, and the one it would find without evictions.
LEMMA BucketIsIdeal ==
  ASSUME LimitInv, NEW t \in 0 .. now, NEW ip \in IPs
  PROVE  /\ Bucket(ip, t) \in BucketRows /\ Bucket(ip, t).last <= now
         /\ Tokens(Bucket(ip, t)) = Tokens(ideal[ip])
         /\ \/ /\ Bucket(ip, t).tokens = ideal[ip].tokens
               /\ Bucket(ip, t).last = ideal[ip].last
            \/ Tokens(ideal[ip]) = Burst
<1>0. ideal[ip] \in BucketRows /\ ideal[ip].last <= now /\ now \in Nat
  BY DEF LimitInv
<1>1. CASE ip \in Kept(t)
  <2>1. Bucket(ip, t) = entries[ip] /\ ip \in DOMAIN entries
    BY <1>1 DEF Bucket, Kept
  <2>2. /\ entries[ip] \in BucketRows /\ entries[ip].tokens = ideal[ip].tokens
        /\ entries[ip].last = ideal[ip].last
    BY <2>1 DEF LimitInv
  <2>3. Tokens(entries[ip]) = Tokens(ideal[ip])
    BY <2>2 DEF Tokens
  <2> QED
    BY <1>0, <2>1, <2>2, <2>3
<1>2. CASE ip \notin Kept(t)
  <2>1. Regained(ideal[ip]) >= Burst
    BY <1>2, EvictedIsFull DEF LimitInv
  <2>2. Tokens(ideal[ip]) = Burst
    BY <1>0, <2>1, TokensOf
  <2>3. Bucket(ip, t) = Fresh
    BY <1>2 DEF Bucket
  <2>4. Fresh \in BucketRows /\ Fresh.last = 0 /\ Fresh.tokens = Burst
    BY Rates DEF Fresh, BucketRows
  <2>5. Regained(Fresh) >= Burst
    <3>1. (now - 0) * RPS \in Nat
      BY <1>0, Rates, Products
    <3>2. \A x, y \in Nat : x + y >= x
      OBVIOUS
    <3> QED
      BY <2>4, <3>1, <3>2, Rates DEF Regained
  <2>6. Tokens(Fresh) = Burst
    BY <1>0, <2>4, <2>5, TokensOf
  <2> QED
    BY <1>0, <2>2, <2>3, <2>4, <2>6
<1> QED
  BY <1>1, <1>2

\* Taking a token from a bucket that has one, and from one that has none.
LEMMA TakeFrom ==
  ASSUME now \in Nat, NEW b \in BucketRows, b.last <= now
  PROVE  /\ Take(b) \in BucketRows /\ Take(b).last <= now
         /\ Tokens(b) >= 1 => Take(b).tokens = Tokens(b) - 1 /\ Take(b).last = now
         /\ ~(Tokens(b) >= 1) => Take(b) = b
<1>1. Tokens(b) \in 0 .. Burst
  BY TokensOf
<1>2. CASE Tokens(b) >= 1
  <2> DEFINE n == Tokens(b) - 1
  <2>1. n \in 0 .. Burst
    BY <1>1, <1>2, Rates
  <2>2. Take(b) = [b EXCEPT !.tokens = n, !.last = now]
    BY <1>2 DEF Take
  <2> HIDE DEF n
  <2>3. /\ [b EXCEPT !.tokens = n, !.last = now] \in BucketRows
        /\ [b EXCEPT !.tokens = n, !.last = now].tokens = n
        /\ [b EXCEPT !.tokens = n, !.last = now].last = now
    BY <2>1 DEF BucketRows
  <2> QED
    BY <1>2, <2>2, <2>3 DEF n
<1>3. CASE ~(Tokens(b) >= 1)
  BY <1>3 DEF Take
<1> QED
  BY <1>2, <1>3

\* The critical section keeps the two limiters in step.
LEMMA LimitStep ==
  ASSUME LimitInv, NEW c \in Calls, NEW ip \in IPs, Limit(c, ip)
  PROVE  LimitInv'
<1> DEFINE t == stamp[c]
           b == Bucket(ip, t)
           e == [Take(b) EXCEPT !.seen = t]
<1>1. t \in 0 .. now /\ now - t <= MaxDelay /\ now \in Nat /\ now' = now /\ t \in Nat
  BY DEF Limit, LimitInv
<1>2. /\ b \in BucketRows /\ b.last <= now /\ Tokens(b) = Tokens(ideal[ip])
      /\ \/ b.tokens = ideal[ip].tokens /\ b.last = ideal[ip].last
         \/ Tokens(ideal[ip]) = Burst
  BY <1>1, BucketIsIdeal
<1>3. /\ entries' = [a \in Kept(t) \cup {ip} |-> IF a = ip THEN e ELSE entries[a]]
      /\ ideal' = [ideal EXCEPT ![ip] = Take(ideal[ip])]
      /\ stamp' = [stamp EXCEPT ![c] = NoTime]
  BY DEF Limit
<1>4. Kept(t) \subseteq DOMAIN entries
  BY DEF Kept
<1>5. ideal[ip] \in BucketRows /\ ideal[ip].last <= now
  BY DEF LimitInv
<1>6. /\ Take(b) \in BucketRows /\ Take(b).last <= now
      /\ Take(ideal[ip]) \in BucketRows /\ Take(ideal[ip]).last <= now
  BY <1>1, <1>2, <1>5, TakeFrom
<1>7. Take(b).tokens = Take(ideal[ip]).tokens /\ Take(b).last = Take(ideal[ip]).last
  <2>1. CASE Tokens(b) >= 1
    BY <1>1, <1>2, <1>5, <2>1, TakeFrom
  <2>2. CASE ~(Tokens(b) >= 1)
    <3>1. Take(b) = b /\ Take(ideal[ip]) = ideal[ip]
      BY <1>1, <1>2, <1>5, <2>2, TakeFrom
    <3>2. Tokens(ideal[ip]) # Burst
      BY <1>2, <2>2, Rates
    <3> QED
      BY <1>2, <3>1, <3>2
  <2> QED
    BY <2>1, <2>2
<1>8. /\ e \in BucketRows /\ e.tokens = Take(b).tokens /\ e.last = Take(b).last /\ e.seen = t
  <2> HIDE DEF t, b
  <2> QED
    BY <1>1, <1>6 DEF BucketRows
<1>9. e.last <= e.seen + MaxDelay
  <2>1. \A x, n, u, m \in Nat : x <= n /\ n - u <= m => x <= u + m
    OBVIOUS
  <2>2. e.last \in Nat /\ e.last <= now
    BY <1>6, <1>8 DEF BucketRows
  <2> HIDE DEF e
  <2> QED
    BY <1>1, <1>8, <2>1, <2>2, Rates
<1>9f. \A a \in IPs : a \notin DOMAIN entries => Regained(ideal[a]) >= Burst
  BY DEF LimitInv
<1>9e. \A a \in DOMAIN entries : a \notin Kept(t) => Regained(ideal[a]) >= Burst
  BY <1>1, EvictedIsFull
<1> HIDE DEF t, b, e
<1>10. /\ DOMAIN stamp' = Calls
       /\ \A d \in Calls : stamp'[d] # NoTime => stamp'[d] \in 0 .. now' /\ now' - stamp'[d] <= MaxDelay
  BY <1>1, <1>3 DEF LimitInv
<1>11. /\ ideal' \in [IPs -> BucketRows] /\ \A a \in IPs : ideal'[a].last <= now'
       /\ ideal'[ip] = Take(ideal[ip]) /\ \A a \in IPs \ {ip} : ideal'[a] = ideal[a]
  BY <1>1, <1>3, <1>6 DEF LimitInv
<1>12. DOMAIN entries' = Kept(t) \cup {ip} /\ DOMAIN entries' \subseteq IPs
  BY <1>3, <1>4 DEF LimitInv
<1>13. ASSUME NEW a \in DOMAIN entries'
       PROVE  /\ entries'[a] \in BucketRows
              /\ entries'[a].tokens = ideal'[a].tokens /\ entries'[a].last = ideal'[a].last
              /\ entries'[a].last <= entries'[a].seen + MaxDelay
  <2>1. CASE a = ip
    <3>1. entries'[a] = e
      BY <1>3, <1>12, <2>1
    <3> QED
      BY <1>7, <1>8, <1>9, <1>11, <2>1, <3>1
  <2>2. CASE a # ip
    <3>1. a \in DOMAIN entries /\ entries'[a] = entries[a] /\ a \in IPs
      BY <1>3, <1>4, <1>12, <2>2
    <3> QED
      BY <1>11, <2>2, <3>1 DEF LimitInv
  <2> QED
    BY <2>1, <2>2
<1>14. ASSUME NEW a \in IPs, a \notin DOMAIN entries' PROVE Regained(ideal[a]) >= Burst /\ a # ip
  <2>1. a \notin Kept(t) /\ a # ip
    BY <1>12, <1>14
  <2>2. CASE a \in DOMAIN entries
    BY <1>9e, <2>1, <2>2
  <2>3. CASE a \notin DOMAIN entries
    BY <1>9f, <2>1, <2>3
  <2> QED
    BY <2>1, <2>2, <2>3
<1>15. \A a \in IPs : a \notin DOMAIN entries' => Regained(ideal[a])' >= Burst
  BY <1>1, <1>11, <1>14 DEF Regained
<1> QED
  BY <1>1, <1>10, <1>11, <1>12, <1>13, <1>15 DEF LimitInv

\* The limiter's steps within Api.
LEMMA LimitSteps ==
  ASSUME CallsInv, [Next]_vars
  PROVE  \/ Tick
         \/ \E c \in Calls : ReadClock(c)
         \/ \E c \in Calls, ip \in IPs : Limit(c, ip)
         \/ UNCHANGED limitVars
<1>1. ASSUME NEW c \in Calls, HttpStep(c)
      PROVE  ReadClock(c) \/ (\E ip \in IPs : Limit(c, ip)) \/ UNCHANGED limitVars
  <2>1. CASE Throttle(c)
    BY <2>1 DEF Throttle, CallsInv, Sends
  <2> QED
    BY <1>1, <2>1 DEF HttpStep, Arrive, Clock, Unauthorized, Auth, Ping
<1>2. ASSUME NEW c \in Calls, AccountStep(c) PROVE UNCHANGED limitVars
  BY <1>2 DEF AccountStep, Register, Login, GetUser, UpdateUserRead, UpdateUserSave
<1>3. ASSUME NEW c \in Calls, CatalogueStep(c) PROVE UNCHANGED limitVars
  BY <1>3 DEF CatalogueStep, CreateProduct, UpdateProductRead, UpdateProductSave, GetProduct,
              ListProducts, GetInventory, GetLowStock
<1>4. ASSUME NEW c \in Calls, OrderStep(c) PROVE UNCHANGED limitVars
  BY <1>4, OrderFrame
<1>5. ASSUME NEW c \in Calls, DbFails(c) PROVE UNCHANGED limitVars
  BY <1>5 DEF DbFails
<1>6. SeedStep \/ StopStep => UNCHANGED limitVars
  BY DEF SeedStep, StopStep
<1>7. UNCHANGED vars => UNCHANGED limitVars
  BY DEF vars
<1> QED
  BY <1>1, <1>2, <1>3, <1>4, <1>5, <1>6, <1>7 DEF Next

\* Every step keeps LimitInv.
LEMMA LimitInvStep ==
  ASSUME CallsInv, LimitInv, [Next]_vars
  PROVE  LimitInv'
<1>1. CASE Tick
  <2>1. /\ now \in Nat /\ now' = now + 1 /\ now' \in Nat /\ now <= now'
        /\ UNCHANGED <<stamp, entries, lastEvict, ideal>>
    BY <1>1 DEF Tick, LimitInv
  <2>2. \A c \in Calls : stamp[c] # NoTime => stamp[c] \in 0 .. now' /\ now' - stamp[c] <= MaxDelay
    BY <1>1, <2>1 DEF Tick, LimitInv, Waiting
  <2>3. \A ip \in IPs : ideal[ip] \in BucketRows /\ ideal[ip].last <= now /\ ideal[ip].last <= now'
    BY <2>1 DEF LimitInv, BucketRows
  <2>4. ASSUME NEW ip \in IPs, ip \notin DOMAIN entries
        PROVE  ideal[ip].tokens + (now' - ideal[ip].last) * RPS >= Burst
    <3>1. Regained(ideal[ip]) >= Burst
      BY <2>4 DEF LimitInv
    <3> QED
      BY <2>1, <2>3, <3>1, LaterFuller
  <2>5. \A ip \in IPs : ip \notin DOMAIN entries => Regained(ideal[ip])' >= Burst
    BY <2>1, <2>4 DEF Regained
  <2> QED
    BY <2>1, <2>2, <2>3, <2>5 DEF LimitInv
<1>2. ASSUME NEW c \in Calls, ReadClock(c) PROVE LimitInv'
  <2>1. /\ UNCHANGED <<now, entries, ideal>> /\ stamp' = [stamp EXCEPT ![c] = now]
    BY <1>2 DEF ReadClock
  <2>2. now \in 0 .. now /\ now - now <= MaxDelay
    BY Rates DEF LimitInv
  <2>3. /\ DOMAIN stamp' = Calls
        /\ \A d \in Calls : stamp'[d] # NoTime => stamp'[d] \in 0 .. now' /\ now' - stamp'[d] <= MaxDelay
    BY <2>1, <2>2 DEF LimitInv
  <2> QED
    BY <2>1, <2>3 DEF LimitInv, Regained
<1>3. ASSUME NEW c \in Calls, NEW ip \in IPs, Limit(c, ip) PROVE LimitInv'
  BY <1>3, LimitStep
<1>4. CASE UNCHANGED limitVars
  BY <1>4 DEF limitVars, LimitInv, Regained
<1> QED
  BY <1>1, <1>2, <1>3, <1>4, LimitSteps

-----------------------------------------------------------------------------
(* The steps of the system, by what they may change.                        *)

\* A step is one of a request that leaves users, products and the seed program
\* alone, one of the handlers that do not, one of the seed program, or a tick
\* or a stop of the process.
LEMMA NextKinds ==
  ASSUME CallsInv, [Next]_vars
  PROVE  \/ \E c \in Calls : Frame(c)
         \/ \E c \in Calls : /\ Register(c) \/ Login(c) \/ UpdateUserRead(c) \/ UpdateUserSave(c)
                             /\ UNCHANGED catalogueVars
         \/ \E c \in Calls : CreateProduct(c) \/ UpdateProductRead(c) \/ UpdateProductSave(c)
         \/ SeedStep
         \/ UNCHANGED <<httpVars, users, catalogueVars>>
<1>1. ASSUME NEW c \in Calls, HttpStep(c), UNCHANGED <<users, catalogueVars, orderVars>> PROVE Frame(c)
  BY <1>1, HttpFrame
<1>2. ASSUME NEW c \in Calls, OrderStep(c) PROVE Frame(c)
  BY <1>2, OrderFrame
<1>3. ASSUME NEW c \in Calls, DbFails(c) PROVE Frame(c)
  BY <1>3, ReadFrame
<1>4. ASSUME NEW c \in Calls, GetUser(c), UNCHANGED <<catalogueVars, orderVars>> PROVE Frame(c)
  BY <1>4, ReadFrame
<1>5. ASSUME NEW c \in Calls, GetProduct(c) \/ ListProducts(c) \/ GetInventory(c) \/ GetLowStock(c),
             UNCHANGED orderVars
      PROVE  Frame(c)
  BY <1>5, ReadFrame
<1>6. UNCHANGED vars \/ StopStep => UNCHANGED <<httpVars, users, catalogueVars>>
  BY DEF vars, StopStep
<1> QED
  BY <1>1, <1>2, <1>3, <1>4, <1>5, <1>6 DEF Next, AccountStep, CatalogueStep

\* Where the handlers of users and products leave their request.
LEMMA CommandMoves ==
  ASSUME CallsInv, NEW c \in Calls
  PROVE  /\ Register(c) \/ Login(c) \/ UpdateUserSave(c) \/ CreateProduct(c) \/ UpdateProductSave(c)
              => Moved(c)
         /\ UpdateUserRead(c) =>
              \/ Moved(c)
              \/ /\ FindUser(c) = ""
                 /\ GoOn(c, "save", [users[call[c].id] EXCEPT !.name = call[c].name])
         /\ UpdateProductRead(c) =>
              \/ Moved(c)
              \/ /\ FindProduct(call[c].id) = "" /\ BindsUpdate(call[c].set)
                 /\ Applies(products[call[c].id], call[c].set)
                 /\ GoOn(c, "apply", [row |-> products[call[c].id], readAt |-> Len(commits)])
<1>0. Register(c) \/ Login(c) \/ UpdateUserSave(c) \/ CreateProduct(c) \/ UpdateProductSave(c)
        \/ UpdateUserRead(c) \/ UpdateProductRead(c) => c \in DOMAIN call /\ UNCHANGED call
  BY DEF Register, Login, UpdateUserSave, CreateProduct, UpdateProductSave, UpdateUserRead,
         UpdateProductRead, At
<1> USE <1>0, HandlerMoves
<1>1. Register(c) => Moved(c)
  BY DEF Register
<1>2. Login(c) => Moved(c)
  BY DEF Login
<1>3. UpdateUserSave(c) => Moved(c)
  BY DEF UpdateUserSave
<1>4. CreateProduct(c) => Moved(c)
  BY DEF CreateProduct, CreateProductTx
<1>5. UpdateProductSave(c) => Moved(c)
  BY DEF UpdateProductSave
<1>6. UpdateUserRead(c) =>
        \/ Moved(c)
        \/ FindUser(c) = "" /\ GoOn(c, "save", [users[call[c].id] EXCEPT !.name = call[c].name])
  <2>1. CASE call[c].name = "" \/ FindUser(c) # ""
    BY <2>1 DEF UpdateUserRead
  <2>2. CASE call[c].name # "" /\ FindUser(c) = ""
    BY <2>2 DEF UpdateUserRead
  <2> QED
    BY <2>1, <2>2
<1>7. UpdateProductRead(c) =>
        \/ Moved(c)
        \/ /\ FindProduct(call[c].id) = "" /\ BindsUpdate(call[c].set)
           /\ Applies(products[call[c].id], call[c].set)
           /\ GoOn(c, "apply", [row |-> products[call[c].id], readAt |-> Len(commits)])
  <2>1. CASE ~BindsUpdate(call[c].set) \/ FindProduct(call[c].id) # ""
    BY <2>1 DEF UpdateProductRead
  <2>2. CASE /\ BindsUpdate(call[c].set) /\ FindProduct(call[c].id) = ""
             /\ ~Applies(products[call[c].id], call[c].set)
    BY <2>2 DEF UpdateProductRead
  <2>3. CASE /\ BindsUpdate(call[c].set) /\ FindProduct(call[c].id) = ""
             /\ Applies(products[call[c].id], call[c].set)
    BY <2>3 DEF UpdateProductRead
  <2> QED
    BY <2>1, <2>2, <2>3
<1> QED
  BY <1>1, <1>2, <1>3, <1>4, <1>5, <1>6, <1>7

\* A request never changes and, once there, stays known.
LEMMA CallsInvStep ==
  ASSUME CallsInv, [Next]_vars
  PROVE  CallsInv' /\ UNCHANGED call
<1>1. \A c \in Calls : Moved(c) => CallsInv' /\ UNCHANGED call
  BY DEF Moved, CallsInv
<1>2. \A c \in Calls : \A p, m : c \in DOMAIN call /\ UNCHANGED call /\ GoOn(c, p, m) =>
                                   CallsInv' /\ UNCHANGED call
  BY DEF GoOn, CallsInv
<1>3. CASE \E c \in Calls : Frame(c)
  BY <1>1, <1>3 DEF Frame
<1>4. ASSUME NEW c \in Calls, Register(c) \/ Login(c) \/ UpdateUserSave(c) \/ CreateProduct(c)
                              \/ UpdateProductSave(c)
      PROVE  CallsInv' /\ UNCHANGED call
  BY <1>1, <1>4, CommandMoves
<1>5. ASSUME NEW c \in Calls, UpdateUserRead(c) \/ UpdateProductRead(c)
      PROVE  CallsInv' /\ UNCHANGED call
  <2>1. c \in DOMAIN call /\ UNCHANGED call
    BY <1>5 DEF UpdateUserRead, UpdateProductRead, At
  <2> QED
    BY <1>1, <1>2, <1>5, <2>1, CommandMoves
<1>6. CASE SeedStep \/ UNCHANGED <<httpVars, users, catalogueVars>>
  BY <1>6 DEF SeedStep, httpVars, CallsInv
<1> QED
  BY <1>3, <1>4, <1>5, <1>6, NextKinds

\* A workload knows its requests.
LEMMA CallsInvInit ==
  ASSUME Init
  PROVE  CallsInv
BY WorkloadAssumption DEF Init, HttpInit, CallsInv

\* At first all buckets are full.
LEMMA LimitInvInit ==
  ASSUME Init
  PROVE  LimitInv
<1>1. Fresh \in BucketRows /\ Fresh.last = 0 /\ Fresh.tokens = Burst
  BY Rates DEF Fresh, BucketRows
<1>2. /\ now = 0 /\ stamp = [c \in Calls |-> NoTime] /\ entries = [a \in {} |-> Fresh]
      /\ ideal = [ip \in IPs |-> Fresh]
  BY DEF Init, HttpInit, LimitInit
<1>3. (now - Fresh.last) * RPS = 0
  BY <1>1, <1>2, Rates
<1>4. Regained(Fresh) >= Burst
  BY <1>1, <1>3, Rates DEF Regained
<1>5. ideal \in [IPs -> BucketRows] /\ \A ip \in IPs : ideal[ip].last <= now /\ Regained(ideal[ip]) >= Burst
  BY <1>1, <1>2, <1>4
<1> QED
  BY <1>2, <1>5 DEF LimitInv

\* Forgetting idle clients changes no decision of the rate limiter
\* (RateLimit's sweep), although it goes by stamps that are stale and out of
\* order: for any rate, burst, TTL and bound on the wait for the mutex that
\* let an idle bucket fill up before it can be swept.
THEOREM EvictionIsInvisible == Spec => []EvictionInvisible
<1>1. Init => CallsInv /\ LimitInv
  BY CallsInvInit, LimitInvInit
<1>2. CallsInv /\ LimitInv /\ [Next]_vars => (CallsInv /\ LimitInv)'
  BY CallsInvStep, LimitInvStep
<1>3. CallsInv /\ LimitInv => EvictionInvisible
  <2> SUFFICES ASSUME LimitInv, NEW ip \in IPs, NEW t \in {now} \cup {stamp[c] : c \in Waiting}
               PROVE  Tokens(Bucket(ip, t)) = Tokens(ideal[ip])
    BY DEF EvictionInvisible
  <2>1. t \in 0 .. now
    BY DEF LimitInv, Waiting
  <2> QED
    BY <2>1, BucketIsIdeal
<1> QED
  BY <1>1, <1>2, <1>3, PTL DEF Spec

-----------------------------------------------------------------------------
(* Users and tokens.                                                        *)

\* The seed program is at an entry of the list it is working through.
SeedInv ==
  /\ seed.entry \in Nat
  /\ seed.at \in {"countUser", "countProduct"} => seed.entry >= 1
  /\ seed.at = "insertUser" => seed.entry \in 1 .. Len(SeedUsers)
  /\ seed.at \in {"insertProduct", "insertInventory"} => seed.entry \in 1 .. Len(SeedProducts)

\* No two accounts share an email, a token names an account with its role, and
\* the copy that an update of a user will write back has the email and the
\* role of the row it will replace.
UserInv ==
  /\ users \in Seq(UserRows)
  /\ \A i, j \in DOMAIN users : users[i].email = users[j].email => i = j
  /\ \A t \in tokens : t.sub \in DOMAIN users /\ users[t.sub].role = t.role
  /\ \A c \in DOMAIN call : pc[c] = "save" =>
       /\ call[c].id \in DOMAIN users /\ mem[c] \in UserRows
       /\ mem[c].email = users[call[c].id].email /\ mem[c].role = users[call[c].id].role

\* At first the seed program is off.
LEMMA SeedInvInit ==
  ASSUME Init
  PROVE  SeedInv
BY DEF Init, SeedInv

\* Requests leave the seed program alone.
LEMMA RequestsKeepSeed ==
  ASSUME CallsInv, [Next]_vars
  PROVE  SeedStep \/ UNCHANGED <<seed, interrupted>>
BY NextKinds DEF Frame, CreateProduct, UpdateProductRead, UpdateProductSave, catalogueVars, seedVars

\* The seed program inserts only an entry it has counted.
LEMMA SeedInvStep ==
  ASSUME CallsInv, SeedInv, [Next]_vars
  PROVE  SeedInv'
<1>1. CASE SeedStep
  <2>1. Len(SeedUsers) \in Nat /\ Len(SeedProducts) \in Nat
    BY WorkloadAssumption
  <2>2. \A a, e : SeedAt(a, e) => seed'.at = a /\ seed'.entry = e
    BY DEF SeedAt
  <2>3. \A n, k \in Nat : ~(n > k) /\ n >= 1 => n \in 1 .. k
    OBVIOUS
  <2>4. \/ SeedAt("off", 0) \/ SeedAt("countUser", 1) \/ SeedAt("countProduct", 1)
        \/ SeedAt("countUser", seed.entry + 1) \/ SeedAt("countProduct", seed.entry + 1)
        \/ /\ SeedAt("insertUser", seed.entry)
           /\ seed.at = "countUser" /\ ~(seed.entry > Len(SeedUsers))
        \/ /\ SeedAt("insertProduct", seed.entry)
           /\ seed.at = "countProduct" /\ ~(seed.entry > Len(SeedProducts))
        \/ SeedAt("insertInventory", seed.entry) /\ seed.at = "insertProduct"
    BY <1>1 DEF SeedStep, SeedStart, SeedCountUser, SeedInsertUser, SeedCountProduct,
                SeedInsertProduct, SeedInsertInventory, SeedInterrupted
  <2>5. seed.entry \in Nat /\ seed.entry + 1 \in Nat /\ seed.entry + 1 >= 1
    BY DEF SeedInv
  <2>6. CASE SeedAt("insertUser", seed.entry) /\ seed.at = "countUser" /\ ~(seed.entry > Len(SeedUsers))
    BY <2>1, <2>2, <2>3, <2>5, <2>6 DEF SeedInv
  <2>7. CASE SeedAt("insertProduct", seed.entry) /\ seed.at = "countProduct"
             /\ ~(seed.entry > Len(SeedProducts))
    BY <2>1, <2>2, <2>3, <2>5, <2>7 DEF SeedInv
  <2>8. CASE SeedAt("insertInventory", seed.entry) /\ seed.at = "insertProduct"
    BY <2>2, <2>5, <2>8 DEF SeedInv
  <2>9. CASE \/ SeedAt("off", 0) \/ SeedAt("countUser", 1) \/ SeedAt("countProduct", 1)
             \/ SeedAt("countUser", seed.entry + 1) \/ SeedAt("countProduct", seed.entry + 1)
    BY <2>2, <2>5, <2>9 DEF SeedInv
  <2> QED
    BY <2>4, <2>6, <2>7, <2>8, <2>9
<1>2. CASE UNCHANGED <<seed, interrupted>>
  BY <1>2 DEF SeedInv
<1> QED
  BY <1>1, <1>2, RequestsKeepSeed

\* The rows and tokens of a workload.
LEMMA UserInvInit ==
  ASSUME Init
  PROVE  UserInv
<1>1. PICK w \in Workloads :
        /\ users = w.users /\ tokens = {[sub |-> i, role |-> w.users[i].role] : i \in DOMAIN w.users}
        /\ call = w.call
  BY DEF Init
<1>2. pc = [c \in Calls |-> "idle"] /\ DOMAIN call \subseteq Calls
  BY <1>1, WorkloadAssumption DEF Init, HttpInit
<1>3. /\ users \in Seq(UserRows)
      /\ \A i, j \in DOMAIN users : users[i].email = users[j].email => i = j
  BY <1>1, WorkloadAssumption
<1>4. \A t \in tokens : t.sub \in DOMAIN users /\ users[t.sub].role = t.role
  BY <1>1
<1>5. \A c \in DOMAIN call : pc[c] # "save"
  BY <1>2
<1> QED
  BY <1>3, <1>4, <1>5 DEF UserInv

\* The copies held by updates, when requests move and rows keep their email and
\* role.
LEMMA SavesStay ==
  ASSUME CallsInv, UserInv, NEW c \in Calls, Moved(c),
         DOMAIN users \subseteq DOMAIN users',
         \A i \in DOMAIN users : users'[i].email = users[i].email /\ users'[i].role = users[i].role
  PROVE  \A d \in DOMAIN call' : pc'[d] = "save" =>
           /\ call'[d].id \in DOMAIN users' /\ mem'[d] \in UserRows
           /\ mem'[d].email = users'[call'[d].id].email /\ mem'[d].role = users'[call'[d].id].role
<1> SUFFICES ASSUME NEW d \in DOMAIN call, pc'[d] = "save"
             PROVE  /\ call[d].id \in DOMAIN users' /\ mem'[d] \in UserRows
                    /\ mem'[d].email = users'[call[d].id].email /\ mem'[d].role = users'[call[d].id].role
  BY DEF Moved
<1>1. d # c /\ d \in Calls
  BY DEF Moved, Points, CallsInv
<1>2. pc[d] = "save" /\ mem'[d] = mem[d]
  BY <1>1 DEF Moved
<1> QED
  BY <1>2 DEF UserInv

\* The insert of a user: the unique index keeps emails apart.
LEMMA InsertKeeps ==
  ASSUME users \in Seq(UserRows),
         \A i, j \in DOMAIN users : users[i].email = users[j].email => i = j,
         NEW u \in UserRows, InsertUser(u)
  PROVE  /\ users' \in Seq(UserRows)
         /\ \A i, j \in DOMAIN users' : users'[i].email = users'[j].email => i = j
         /\ DOMAIN users \subseteq DOMAIN users'
         /\ \A i \in DOMAIN users : users'[i] = users[i]
<1>1. CASE u.email \in Emails
  BY <1>1 DEF InsertUser
<1>2. CASE u.email \notin Emails
  <2>1. users' = Append(users, u)
    BY <1>2 DEF InsertUser
  <2>2. /\ users' \in Seq(UserRows) /\ Len(users) \in Nat
        /\ DOMAIN users = 1 .. Len(users) /\ DOMAIN users' = 1 .. Len(users) + 1
        /\ \A i \in 1 .. Len(users) : users'[i] = users[i]
        /\ users'[Len(users) + 1] = u
    BY <2>1
  <2>3. \A i \in DOMAIN users : users[i].email # u.email
    BY <1>2 DEF Emails
  <2>4. ASSUME NEW i \in DOMAIN users', NEW j \in DOMAIN users', users'[i].email = users'[j].email
        PROVE  i = j
    <3>1. i \in DOMAIN users \/ i = Len(users) + 1
      BY <2>2
    <3>2. j \in DOMAIN users \/ j = Len(users) + 1
      BY <2>2
    <3> QED
      BY <2>2, <2>3, <2>4, <3>1, <3>2
  <2> QED
    BY <2>2, <2>4
<1> QED
  BY <1>1, <1>2

\* Every step keeps UserInv.
LEMMA UserInvStep ==
  ASSUME CallsInv, SeedInv, UserInv, [Next]_vars
  PROVE  UserInv'
<1>1. ASSUME NEW c \in Calls, Frame(c) PROVE UserInv'
  <2>1. Moved(c) /\ UNCHANGED <<users, tokens>>
    BY <1>1 DEF Frame
  <2> QED
    BY <2>1, SavesStay DEF UserInv
<1>2. ASSUME NEW c \in Calls, Register(c) PROVE UserInv'
  <2>1. Moved(c) /\ UNCHANGED tokens /\ c \in DOMAIN call /\ call[c].op = "register"
    BY <1>2, CommandMoves DEF Register, At
  <2>2. CASE BindsUser(call[c])
    <3>1. InsertUser(NewUser(call[c]))
      BY <1>2, <2>2 DEF Register
    <3>2. NewUser(call[c]) \in UserRows
      BY <2>1, <2>2 DEF BindsUser, NewUser, UserRows, CallsInv, Sends
    <3>3. /\ users' \in Seq(UserRows)
          /\ \A i, j \in DOMAIN users' : users'[i].email = users'[j].email => i = j
          /\ DOMAIN users \subseteq DOMAIN users'
          /\ \A i \in DOMAIN users : users'[i] = users[i]
      BY <3>1, <3>2, InsertKeeps DEF UserInv
    <3>4. \A t \in tokens' : t.sub \in DOMAIN users' /\ users'[t.sub].role = t.role
      BY <2>1, <3>3 DEF UserInv
    <3> QED
      BY <2>1, <3>3, <3>4, SavesStay DEF UserInv
  <2>3. CASE ~BindsUser(call[c])
    <3>1. UNCHANGED users
      BY <1>2, <2>3 DEF Register
    <3> QED
      BY <2>1, <3>1, SavesStay DEF UserInv
  <2> QED
    BY <2>2, <2>3
<1>3. ASSUME NEW c \in Calls, Login(c) PROVE UserInv'
  <2>1. Moved(c) /\ UNCHANGED users
    BY <1>3, CommandMoves DEF Login
  <2>2. \/ UNCHANGED tokens
        \/ \E i \in DOMAIN users : tokens' = tokens \cup {[sub |-> i, role |-> users[i].role]}
    BY <1>3 DEF Login
  <2>3. \A t \in tokens' : t.sub \in DOMAIN users /\ users[t.sub].role = t.role
    BY <2>2 DEF UserInv
  <2> QED
    BY <2>1, <2>3, SavesStay DEF UserInv
<1>4. ASSUME NEW c \in Calls, UpdateUserRead(c) PROVE UserInv'
  <2>1. UNCHANGED <<users, tokens, call>> /\ c \in DOMAIN call /\ call[c].op = "updateUser"
    BY <1>4 DEF UpdateUserRead, At
  <2>2. CASE Moved(c)
    BY <2>1, <2>2, SavesStay DEF UserInv
  <2>3. CASE FindUser(c) = "" /\ GoOn(c, "save", [users[call[c].id] EXCEPT !.name = call[c].name])
    <3>1. call[c].id \in DOMAIN users /\ call[c].name \in STRING
      BY <2>1, <2>3 DEF FindUser, CallsInv, Sends
    <3>2. users[call[c].id] \in UserRows
      BY <3>1 DEF UserInv
    <3> DEFINE m == [users[call[c].id] EXCEPT !.name = call[c].name]
    <3>3. m \in UserRows /\ m.email = users[call[c].id].email /\ m.role = users[call[c].id].role
      BY <3>1, <3>2 DEF UserRows
    <3> HIDE DEF m
    <3>4. mem' = [mem EXCEPT ![c] = m] /\ pc' = [pc EXCEPT ![c] = "save"]
      BY <2>3 DEF GoOn, m
    <3>5. ASSUME NEW d \in DOMAIN call, pc'[d] = "save"
          PROVE  /\ call[d].id \in DOMAIN users /\ mem'[d] \in UserRows
                 /\ mem'[d].email = users[call[d].id].email /\ mem'[d].role = users[call[d].id].role
      <4>1. d \in DOMAIN pc /\ d \in DOMAIN mem
        BY DEF CallsInv
      <4>2. CASE d = c
        BY <3>1, <3>3, <3>4, <4>1, <4>2
      <4>3. CASE d # c
        <5>1. pc[d] = "save" /\ mem'[d] = mem[d]
          BY <3>4, <3>5, <4>1, <4>3
        <5> QED
          BY <5>1 DEF UserInv
      <4> QED
        BY <4>2, <4>3
    <3> QED
      BY <2>1, <3>5 DEF UserInv
  <2> QED
    BY <1>4, <2>2, <2>3, CommandMoves
<1>5. ASSUME NEW c \in Calls, UpdateUserSave(c) PROVE UserInv'
  <2> DEFINE id == call[c].id
             m == [mem[c] EXCEPT !.created = FALSE]
  <2>1. Moved(c) /\ UNCHANGED tokens /\ c \in DOMAIN call /\ pc[c] = "save"
        /\ users' = [users EXCEPT ![id] = m]
    BY <1>5, CommandMoves DEF UpdateUserSave, At
  <2>2. /\ id \in DOMAIN users /\ mem[c] \in UserRows
        /\ mem[c].email = users[id].email /\ mem[c].role = users[id].role
    BY <2>1 DEF UserInv
  <2>3. m \in UserRows /\ m.email = users[id].email /\ m.role = users[id].role
    BY <2>2 DEF UserRows
  <2> HIDE DEF id, m
  <2>4. users' \in Seq(UserRows) /\ DOMAIN users' = DOMAIN users
    BY <2>1, <2>2, <2>3 DEF UserInv
  <2>5. \A i \in DOMAIN users : users'[i] = IF i = id THEN m ELSE users[i]
    BY <2>1 DEF UserInv
  <2>6. \A i \in DOMAIN users : users'[i].email = users[i].email /\ users'[i].role = users[i].role
    BY <2>3, <2>5
  <2>7. /\ \A i, j \in DOMAIN users' : users'[i].email = users'[j].email => i = j
        /\ \A t \in tokens' : t.sub \in DOMAIN users' /\ users'[t.sub].role = t.role
    BY <2>1, <2>4, <2>6 DEF UserInv
  <2> QED
    BY <2>1, <2>4, <2>6, <2>7, SavesStay DEF UserInv
<1>6. ASSUME NEW c \in Calls, CreateProduct(c) \/ UpdateProductSave(c) PROVE UserInv'
  <2>1. Moved(c) /\ UNCHANGED <<users, tokens>>
    BY <1>6, CommandMoves DEF CreateProduct, UpdateProductSave
  <2> QED
    BY <2>1, SavesStay DEF UserInv
<1>7. ASSUME NEW c \in Calls, UpdateProductRead(c) PROVE UserInv'
  <2>1. UNCHANGED <<users, tokens, call>> /\ c \in DOMAIN call
    BY <1>7 DEF UpdateProductRead, At
  <2>2. CASE Moved(c)
    BY <2>1, <2>2, SavesStay DEF UserInv
  <2>3. CASE \E m : GoOn(c, "apply", m)
    <3>1. \A d \in DOMAIN call : pc'[d] = "save" => pc[d] = "save" /\ mem'[d] = mem[d]
      BY <2>3 DEF GoOn, CallsInv
    <3> QED
      BY <2>1, <3>1 DEF UserInv
  <2> QED
    BY <1>7, <2>2, <2>3, CommandMoves
<1>8. ASSUME SeedStep PROVE UserInv'
  <2>1. UNCHANGED <<call, pc, mem, tokens>>
    BY <1>8 DEF SeedStep, httpVars
  <2>2. CASE SeedInsertUser
    <3> DEFINE u == NewUser(SeedUsers[seed.entry])
    <3>1. InsertUser(u)
      BY <2>2 DEF SeedInsertUser
    <3>2. seed.entry \in DOMAIN SeedUsers
      BY <2>2, WorkloadAssumption DEF SeedInsertUser, SeedInv
    <3>3. u \in UserRows
      <4>1. SeedUsers[seed.entry] \in Range(SeedUsers)
        BY <3>2 DEF Range
      <4> QED
        BY <4>1, WorkloadAssumption
    <3> HIDE DEF u
    <3>4. /\ users' \in Seq(UserRows)
          /\ \A i, j \in DOMAIN users' : users'[i].email = users'[j].email => i = j
          /\ DOMAIN users \subseteq DOMAIN users'
          /\ \A i \in DOMAIN users : users'[i] = users[i]
      BY <3>1, <3>3, InsertKeeps DEF UserInv
    <3> QED
      BY <2>1, <3>4 DEF UserInv
  <2>3. CASE ~SeedInsertUser
    <3>1. UNCHANGED users
      BY <1>8, <2>3 DEF SeedStep, SeedStart, SeedCountUser, SeedCountProduct, SeedInsertProduct,
                        SeedInsertInventory, SeedInterrupted
    <3> QED
      BY <2>1, <3>1 DEF UserInv
  <2> QED
    BY <2>2, <2>3
<1>9. ASSUME UNCHANGED <<httpVars, users, catalogueVars>> PROVE UserInv'
  BY <1>9 DEF httpVars, UserInv
<1> QED
  BY <1>1, <1>2, <1>3, <1>4, <1>5, <1>6, <1>7, <1>8, <1>9, NextKinds

\* A token tells the truth about exactly one account, whatever registrations,
\* logins, whole-row saves and runs of the seed program overlap: users are
\* inserted under the unique index, and UpdateUser changes only the name.
THEOREM TokensTellTheTruth == Spec => []TokensAreTrue
<1> DEFINE Inv == CallsInv /\ SeedInv /\ UserInv
<1>1. Init => Inv
  BY CallsInvInit, SeedInvInit, UserInvInit
<1>2. Inv /\ [Next]_vars => Inv'
  BY CallsInvStep, SeedInvStep, UserInvStep
<1>3. Inv => TokensAreTrue
  BY DEF UserInv, TokensAreTrue
<1> QED
  BY <1>1, <1>2, <1>3, PTL DEF Spec

-----------------------------------------------------------------------------
(* Products, their updates and their inventory rows.                        *)

\* What the updates that were asked for may add to the history of updates.
UpdateCalls == {c \in DOMAIN call : call[c].op = "updateProduct"}
Entries == {[id |-> call[c].id, set |-> call[c].set, readAt |-> n] : c \in UpdateCalls, n \in Nat}

\* A row of product id as the first n of the updates s left it.
RowAt(s, row, id, n) ==
  \A i \in 1 .. n : s[i].id = id => \A f \in Columns(s[i].set) :
    \/ row[f] = s[i].set[f]
    \/ \E j \in i + 1 .. n : s[j].id = id /\ (f \in Columns(s[j].set) \/ s[j].readAt < i)

ProductInv ==
  /\ products \in Seq(ProductRows)
  /\ \A i, j \in DOMAIN products : products[i].sku = products[j].sku => i = j
  /\ commits \in Seq(Entries)
  /\ \A i \in DOMAIN commits : commits[i].id \in DOMAIN products
  /\ \A p \in DOMAIN products : RowAt(commits, products[p], p, Len(commits))
  /\ \A c \in DOMAIN call : pc[c] = "apply" =>
       /\ call[c].id \in DOMAIN products
       /\ mem[c].row \in ProductRows /\ mem[c].row.sku = products[call[c].id].sku
       /\ mem[c].readAt \in 0 .. Len(commits)
       /\ RowAt(commits, mem[c].row, call[c].id, mem[c].readAt)

\* A product without inventory row is one whose seeding was cut off, or the
\* one that the seed program has just inserted.
OrphanInv ==
  /\ \A p \in DOMAIN products :
       \/ p \in DOMAIN inventory \cup interrupted
       \/ seed.at = "insertInventory" /\ products[p].sku = SeedProducts[seed.entry].sku
  /\ seed.at = "insertInventory" =>
       \E p \in DOMAIN products : products[p].sku = SeedProducts[seed.entry].sku

\* The rows of a workload, before any update.
LEMMA ProductInvInit ==
  ASSUME Init
  PROVE  ProductInv /\ OrphanInv
<1>1. PICK w \in Workloads : products = w.products /\ inventory = w.inventory /\ call = w.call
  BY DEF Init
<1>2. pc = [c \in Calls |-> "idle"] /\ DOMAIN call \subseteq Calls
  BY <1>1, WorkloadAssumption DEF Init, HttpInit
<1>3. commits = <<>> /\ seed.at = "off"
  BY DEF Init
<1>4. /\ products \in Seq(ProductRows) /\ DOMAIN products \subseteq DOMAIN inventory
      /\ \A i, j \in DOMAIN products : products[i].sku = products[j].sku => i = j
  BY <1>1, WorkloadAssumption
<1>5. \A c \in DOMAIN call : pc[c] # "apply"
  BY <1>2
<1>6. commits \in Seq(Entries) /\ Len(commits) = 0 /\ DOMAIN commits = {}
  BY <1>3
<1>7. \A p \in DOMAIN products : RowAt(commits, products[p], p, Len(commits))
  BY <1>6 DEF RowAt
<1> QED
  BY <1>3, <1>4, <1>5, <1>6, <1>7 DEF ProductInv, OrphanInv

\* The columns an update sets are columns of a row.
LEMMA SetColumns ==
  ASSUME NEW r, Sends(r), r.op = "updateProduct", NEW row \in ProductRows
  PROVE  /\ Columns(r.set) \subseteq DOMAIN row
         /\ Updated(row, r.set) \in ProductRows /\ Updated(row, r.set).sku = row.sku
         /\ \A f \in Columns(r.set) : Updated(row, r.set)[f] = r.set[f]
         /\ \A f \in DOMAIN row : f \notin Columns(r.set) => Updated(row, r.set)[f] = row[f]
<1>1. DOMAIN row = {"sku", "name", "price", "currency", "active"}
  BY DEF ProductRows
<1>2. /\ Columns(r.set) \subseteq {"name", "price", "currency", "active"}
      /\ Columns(r.set) \subseteq DOMAIN r.set
  BY DEF Columns, Sends
<1> DEFINE u == Updated(row, r.set)
<1>3. /\ \A f \in Columns(r.set) : u[f] = r.set[f]
      /\ \A f \in DOMAIN row : f \notin Columns(r.set) => u[f] = row[f]
  BY <1>1, <1>2 DEF Updated
<1>4. u = [f \in {"sku", "name", "price", "currency", "active"} |-> u[f]]
  BY <1>1 DEF Updated
<1> HIDE DEF u
<1>5. row.sku \in STRING /\ row.name \in STRING /\ row.price \in Int /\ row.currency \in STRING
      /\ row.active \in BOOLEAN
  BY DEF ProductRows
<1>6. u["sku"] = row.sku /\ u["sku"] \in STRING
  BY <1>1, <1>2, <1>3, <1>5
<1>7. u["name"] \in STRING
  BY <1>1, <1>2, <1>3, <1>5 DEF Sends
<1>8. u["price"] \in Int
  BY <1>1, <1>2, <1>3, <1>5 DEF Sends
<1>9. u["currency"] \in STRING
  BY <1>1, <1>2, <1>3, <1>5 DEF Sends
<1>10. u["active"] \in BOOLEAN
  BY <1>1, <1>2, <1>3, <1>5 DEF Sends
<1>11. u \in ProductRows
  BY <1>4, <1>6, <1>7, <1>8, <1>9, <1>10 DEF ProductRows
<1> QED
  BY <1>1, <1>2, <1>3, <1>6, <1>11 DEF u

\* What later updates do not change of RowAt.
LEMMA RowAtSame ==
  ASSUME NEW s, NEW z, NEW row, NEW id, NEW n \in Nat, \A i \in 1 .. n : z[i] = s[i],
         RowAt(s, row, id, n)
  PROVE  RowAt(z, row, id, n)
<1> SUFFICES ASSUME NEW i \in 1 .. n, z[i].id = id, NEW f \in Columns(z[i].set), row[f] # z[i].set[f]
             PROVE  \E j \in i + 1 .. n : z[j].id = id /\ (f \in Columns(z[j].set) \/ z[j].readAt < i)
  BY DEF RowAt
<1>1. PICK j \in i + 1 .. n : s[j].id = id /\ (f \in Columns(s[j].set) \/ s[j].readAt < i)
  BY DEF RowAt
<1>2. j \in 1 .. n
  OBVIOUS
<1> QED
  BY <1>1, <1>2

\* An update of another product.
LEMMA RowAtOther ==
  ASSUME NEW s, NEW row, NEW id, NEW n \in Nat, RowAt(s, row, id, n), s[n + 1].id # id
  PROVE  RowAt(s, row, id, n + 1)
<1> SUFFICES ASSUME NEW i \in 1 .. n + 1, s[i].id = id, NEW f \in Columns(s[i].set), row[f] # s[i].set[f]
             PROVE  \E j \in i + 1 .. n + 1 : s[j].id = id /\ (f \in Columns(s[j].set) \/ s[j].readAt < i)
  BY DEF RowAt
<1>1. i \in 1 .. n
  <2>1. i # n + 1
    OBVIOUS
  <2> QED
    BY <2>1
<1>2. PICK j \in i + 1 .. n : s[j].id = id /\ (f \in Columns(s[j].set) \/ s[j].readAt < i)
  BY <1>1 DEF RowAt
<1>3. j \in i + 1 .. n + 1
  BY <1>1
<1> QED
  BY <1>2, <1>3

\* An update of this product that read the row after the first k updates.
LEMMA RowAtSaved ==
  ASSUME NEW s, NEW row, NEW new, NEW id, NEW n \in Nat, NEW k \in 0 .. n, RowAt(s, row, id, k),
         s[n + 1].id = id, s[n + 1].readAt = k,
         \A f \in Columns(s[n + 1].set) : new[f] = s[n + 1].set[f],
         \A i \in 1 .. n : \A f \in Columns(s[i].set) : s[i].id = id /\ f \notin Columns(s[n + 1].set) =>
           new[f] = row[f]
  PROVE  RowAt(s, new, id, n + 1)
<1> SUFFICES ASSUME NEW i \in 1 .. n + 1, s[i].id = id, NEW f \in Columns(s[i].set), new[f] # s[i].set[f]
             PROVE  \E j \in i + 1 .. n + 1 : s[j].id = id /\ (f \in Columns(s[j].set) \/ s[j].readAt < i)
  BY DEF RowAt
<1>1. i \in 1 .. n /\ n + 1 \in i + 1 .. n + 1
  <2>1. i # n + 1
    OBVIOUS
  <2> QED
    BY <2>1
<1>2. CASE f \in Columns(s[n + 1].set)
  BY <1>1, <1>2
<1>3. CASE k < i
  BY <1>1, <1>3
<1>4. CASE f \notin Columns(s[n + 1].set) /\ ~(k < i)
  <2>1. i \in 1 .. k
    BY <1>1, <1>4
  <2>2. row[f] # s[i].set[f]
    BY <1>1, <1>4
  <2>3. PICK j \in i + 1 .. k : s[j].id = id /\ (f \in Columns(s[j].set) \/ s[j].readAt < i)
    BY <2>1, <2>2 DEF RowAt
  <2>4. j \in i + 1 .. n + 1
    BY <2>1
  <2> QED
    BY <2>3, <2>4
<1> QED
  BY <1>2, <1>3, <1>4

\* The copies held by updates, when requests move, rows stay and keep their
\* sku, and updates are added to the history.
LEMMA AppliesStay ==
  ASSUME CallsInv, ProductInv, NEW c \in Calls, Moved(c),
         DOMAIN products \subseteq DOMAIN products',
         \A p \in DOMAIN products : products'[p].sku = products[p].sku,
         Len(commits') \in Nat, Len(commits) <= Len(commits'),
         \A i \in 1 .. Len(commits) : commits'[i] = commits[i]
  PROVE  \A d \in DOMAIN call' : pc'[d] = "apply" =>
           /\ call'[d].id \in DOMAIN products'
           /\ mem'[d].row \in ProductRows /\ mem'[d].row.sku = products'[call'[d].id].sku
           /\ mem'[d].readAt \in 0 .. Len(commits')
           /\ RowAt(commits', mem'[d].row, call'[d].id, mem'[d].readAt)
<1> SUFFICES ASSUME NEW d \in DOMAIN call, pc'[d] = "apply"
             PROVE  /\ call[d].id \in DOMAIN products'
                    /\ mem'[d].row \in ProductRows /\ mem'[d].row.sku = products'[call[d].id].sku
                    /\ mem'[d].readAt \in 0 .. Len(commits')
                    /\ RowAt(commits', mem'[d].row, call[d].id, mem'[d].readAt)
  BY DEF Moved
<1>1. d # c /\ d \in Calls
  BY DEF Moved, Points, CallsInv
<1>2. pc[d] = "apply" /\ mem'[d] = mem[d]
  BY <1>1 DEF Moved
<1>3. /\ call[d].id \in DOMAIN products
      /\ mem[d].row \in ProductRows /\ mem[d].row.sku = products[call[d].id].sku
      /\ mem[d].readAt \in 0 .. Len(commits) /\ Len(commits) \in Nat
      /\ RowAt(commits, mem[d].row, call[d].id, mem[d].readAt)
  BY <1>2 DEF ProductInv
<1>4. /\ mem[d].readAt \in Nat /\ mem[d].readAt \in 0 .. Len(commits')
      /\ \A i \in 1 .. mem[d].readAt : commits'[i] = commits[i]
  BY <1>3
<1>5. RowAt(commits', mem[d].row, call[d].id, mem[d].readAt)
  BY <1>3, <1>4, RowAtSame
<1> QED
  BY <1>2, <1>3, <1>4, <1>5

\* The insert of a product under the unique index on sku.
LEMMA NewProduct ==
  ASSUME ProductInv, NEW r \in ProductRows, r.sku \notin Skus, products' = Append(products, r),
         UNCHANGED commits
  PROVE  /\ products' \in Seq(ProductRows)
         /\ \A i, j \in DOMAIN products' : products'[i].sku = products'[j].sku => i = j
         /\ DOMAIN products' = DOMAIN products \cup {Len(products) + 1}
         /\ \A p \in DOMAIN products : products'[p] = products[p]
         /\ products'[Len(products) + 1] = r
         /\ \A i \in DOMAIN commits' : commits'[i].id \in DOMAIN products'
         /\ \A p \in DOMAIN products' : RowAt(commits', products'[p], p, Len(commits'))
<1>1. products \in Seq(ProductRows) /\ commits \in Seq(Entries)
  BY DEF ProductInv
<1>2. /\ products' \in Seq(ProductRows) /\ Len(products) \in Nat
      /\ DOMAIN products = 1 .. Len(products) /\ DOMAIN products' = 1 .. Len(products) + 1
      /\ \A p \in 1 .. Len(products) : products'[p] = products[p]
      /\ products'[Len(products) + 1] = r
      /\ DOMAIN commits = 1 .. Len(commits)
  BY <1>1
<1>3. DOMAIN products' = DOMAIN products \cup {Len(products) + 1} /\ Len(products) + 1 \notin DOMAIN products
  BY <1>2
<1>4. \A p \in DOMAIN products : products[p].sku # r.sku
  BY DEF Skus
<1>5. \A i, j \in DOMAIN products' : products'[i].sku = products'[j].sku => i = j
  BY <1>2, <1>3, <1>4 DEF ProductInv
<1>6. \A i \in DOMAIN commits' : commits'[i].id \in DOMAIN products'
  BY <1>3 DEF ProductInv
<1>7. RowAt(commits, r, Len(products) + 1, Len(commits))
  BY <1>2, <1>3 DEF RowAt, ProductInv
<1>8. \A p \in DOMAIN products' : RowAt(commits', products'[p], p, Len(commits'))
  BY <1>2, <1>3, <1>7 DEF ProductInv
<1> QED
  BY <1>2, <1>3, <1>5, <1>6, <1>8

\* Every step keeps ProductInv.
LEMMA ProductInvStep ==
  ASSUME CallsInv, SeedInv, ProductInv, [Next]_vars
  PROVE  ProductInv'
<1>0. Len(commits) \in Nat /\ DOMAIN commits = 1 .. Len(commits)
  BY DEF ProductInv
<1>0e. Entries' = Entries
  <2>1. UNCHANGED call
    BY CallsInvStep
  <2> QED
    BY <2>1 DEF Entries, UpdateCalls
<1>1. ASSUME NEW c \in Calls, Moved(c), UNCHANGED <<products, commits>> PROVE ProductInv'
  BY <1>0, <1>0e, <1>1, AppliesStay DEF ProductInv
<1>2. ASSUME NEW c \in Calls, Frame(c) PROVE ProductInv'
  BY <1>1, <1>2 DEF Frame
<1>3. ASSUME NEW c \in Calls, Register(c) \/ Login(c) \/ UpdateUserSave(c), UNCHANGED catalogueVars
      PROVE  ProductInv'
  BY <1>1, <1>3, CommandMoves DEF catalogueVars
<1>4. ASSUME NEW c \in Calls, UpdateUserRead(c), UNCHANGED catalogueVars PROVE ProductInv'
  <2>1. UNCHANGED <<products, commits, call>> /\ c \in DOMAIN call
    BY <1>4 DEF UpdateUserRead, At, catalogueVars
  <2>2. CASE Moved(c)
    BY <1>1, <2>1, <2>2
  <2>3. CASE \E m : GoOn(c, "save", m)
    <3>1. \A d \in DOMAIN call : pc'[d] = "apply" => pc[d] = "apply" /\ mem'[d] = mem[d]
      BY <2>3 DEF GoOn, CallsInv
    <3> QED
      BY <1>0e, <2>1, <3>1 DEF ProductInv
  <2> QED
    BY <1>4, <2>2, <2>3, CommandMoves
<1>5. ASSUME NEW c \in Calls, CreateProduct(c) PROVE ProductInv'
  <2>1. Moved(c) /\ UNCHANGED commits /\ c \in DOMAIN call /\ call[c].op = "createProduct"
    BY <1>5, CommandMoves DEF CreateProduct, At
  <2>2. CASE UNCHANGED products
    BY <1>1, <2>1, <2>2
  <2>3. CASE call[c].sku \notin Skus /\ products' = Append(products, ProductRow(call[c]))
    <3> DEFINE r == ProductRow(call[c])
    <3>1. r \in ProductRows /\ r.sku \notin Skus
      BY <2>1, <2>3 DEF ProductRow, ProductRows, CallsInv, Sends
    <3> HIDE DEF r
    <3>2. products' = Append(products, r)
      BY <2>3 DEF r
    <3>3. /\ products' \in Seq(ProductRows)
          /\ \A i, j \in DOMAIN products' : products'[i].sku = products'[j].sku => i = j
          /\ DOMAIN products \subseteq DOMAIN products'
          /\ \A p \in DOMAIN products : products'[p] = products[p]
          /\ \A i \in DOMAIN commits' : commits'[i].id \in DOMAIN products'
          /\ \A p \in DOMAIN products' : RowAt(commits', products'[p], p, Len(commits'))
      BY <2>1, <3>1, <3>2, NewProduct
    <3> QED
      BY <1>0, <1>0e, <2>1, <3>3, AppliesStay DEF ProductInv
  <2> QED
    BY <1>5, <2>2, <2>3 DEF CreateProduct, CreateProductTx
<1>6. ASSUME NEW c \in Calls, UpdateProductRead(c) PROVE ProductInv'
  <2>1. UNCHANGED <<products, commits, call>> /\ c \in DOMAIN call
    BY <1>6 DEF UpdateProductRead, At, catalogueVars
  <2>2. CASE Moved(c)
    BY <1>1, <2>1, <2>2
  <2>3. CASE /\ FindProduct(call[c].id) = ""
             /\ GoOn(c, "apply", [row |-> products[call[c].id], readAt |-> Len(commits)])
    <3> DEFINE id == call[c].id
               m == [row |-> products[id], readAt |-> Len(commits)]
    <3>1. id \in DOMAIN products
      BY <2>3 DEF FindProduct
    <3>2. m.row = products[id] /\ m.readAt = Len(commits)
      OBVIOUS
    <3>3. /\ m.row \in ProductRows /\ m.row.sku = products[id].sku
          /\ m.readAt \in 0 .. Len(commits) /\ RowAt(commits, m.row, id, m.readAt)
      BY <1>0, <3>1, <3>2 DEF ProductInv
    <3>4. mem' = [mem EXCEPT ![c] = m] /\ pc' = [pc EXCEPT ![c] = "apply"]
      BY <2>3 DEF GoOn
    <3> HIDE DEF id, m
    <3>5. ASSUME NEW d \in DOMAIN call, pc'[d] = "apply"
          PROVE  /\ call[d].id \in DOMAIN products
                 /\ mem'[d].row \in ProductRows /\ mem'[d].row.sku = products[call[d].id].sku
                 /\ mem'[d].readAt \in 0 .. Len(commits)
                 /\ RowAt(commits, mem'[d].row, call[d].id, mem'[d].readAt)
      <4>1. d \in DOMAIN pc /\ d \in DOMAIN mem
        BY DEF CallsInv
      <4>2. CASE d = c
        <5>1. mem'[d] = m /\ call[d].id = id
          BY <3>4, <4>1, <4>2 DEF id
        <5> QED
          BY <3>1, <3>3, <5>1
      <4>3. CASE d # c
        <5>1. pc[d] = "apply" /\ mem'[d] = mem[d]
          BY <3>4, <3>5, <4>1, <4>3
        <5> QED
          BY <5>1 DEF ProductInv
      <4> QED
        BY <4>2, <4>3
    <3> QED
      BY <1>0e, <2>1, <3>5 DEF ProductInv
  <2> QED
    BY <1>6, <2>2, <2>3, CommandMoves
<1>7. ASSUME NEW c \in Calls, UpdateProductSave(c) PROVE ProductInv'
  <2> DEFINE id == call[c].id
             row == mem[c].row
             new == Updated(row, call[c].set)
             n == Len(commits)
             k == mem[c].readAt
             e == [id |-> id, set |-> call[c].set, readAt |-> k]
  <2>1. /\ Moved(c) /\ c \in DOMAIN call /\ pc[c] = "apply" /\ call[c].op = "updateProduct"
        /\ products' = [products EXCEPT ![id] = new] /\ commits' = Append(commits, e)
    BY <1>7, CommandMoves DEF UpdateProductSave, At
  <2>2. /\ id \in DOMAIN products /\ row \in ProductRows /\ row.sku = products[id].sku
        /\ k \in 0 .. n /\ k \in Nat /\ n \in Nat /\ RowAt(commits, row, id, k)
    BY <1>0, <2>1 DEF ProductInv
  <2>3. /\ new \in ProductRows /\ new.sku = products[id].sku
        /\ \A f \in Columns(call[c].set) : new[f] = call[c].set[f]
        /\ \A f \in DOMAIN row : f \notin Columns(call[c].set) => new[f] = row[f]
    BY <2>1, <2>2, SetColumns DEF CallsInv
  <2>4. e \in Entries /\ e.id = id /\ e.set = call[c].set /\ e.readAt = k
    BY <2>1, <2>2 DEF Entries, UpdateCalls
  <2>5. ASSUME NEW i \in DOMAIN commits PROVE Columns(commits[i].set) \subseteq DOMAIN row
    <3>1. commits[i] \in Entries
      BY DEF ProductInv
    <3>2. PICK d \in UpdateCalls : commits[i].set = call[d].set
      BY <3>1 DEF Entries
    <3>3. Sends(call[d]) /\ call[d].op = "updateProduct"
      BY DEF UpdateCalls, CallsInv
    <3> QED
      BY <2>2, <3>2, <3>3, SetColumns
  <2> HIDE DEF e, new, row, k, id
  <2>6. commits \in Seq(Entries)
    BY DEF ProductInv
  <2>7. /\ commits' \in Seq(Entries) /\ Len(commits') = n + 1 /\ DOMAIN commits' = 1 .. n + 1
        /\ commits'[n + 1] = e /\ \A i \in 1 .. n : commits'[i] = commits[i]
    BY <2>1, <2>4, <2>6
  <2> HIDE DEF n
  <2>8. /\ products' \in Seq(ProductRows) /\ DOMAIN products' = DOMAIN products
        /\ \A p \in DOMAIN products : products'[p] = IF p = id THEN new ELSE products[p]
    BY <2>1, <2>2, <2>3 DEF ProductInv
  <2>9. \A p \in DOMAIN products : products'[p].sku = products[p].sku
    BY <2>3, <2>8
  <2>10. \A i \in DOMAIN commits' : commits'[i].id \in DOMAIN products'
    <3>1. \A i \in 1 .. n + 1 : i \in 1 .. n \/ i = n + 1
      BY <2>2
    <3> QED
      BY <1>0, <2>2, <2>4, <2>7, <2>8, <3>1 DEF ProductInv, n
  <2>11. ASSUME NEW p \in DOMAIN products PROVE RowAt(commits', products'[p], p, n + 1)
    <3>1. CASE p = id
      <4>1. RowAt(commits', row, id, k)
        <5>1. \A i \in 1 .. k : commits'[i] = commits[i]
          BY <2>2, <2>7
        <5> QED
          BY <2>2, <5>1, RowAtSame
      <4>2. \A i \in 1 .. n : \A f \in Columns(commits'[i].set) :
              commits'[i].id = id /\ f \notin Columns(commits'[n + 1].set) => new[f] = row[f]
        BY <1>0, <2>3, <2>4, <2>5, <2>7 DEF n
      <4>3. RowAt(commits', new, id, n + 1)
        BY <2>2, <2>3, <2>4, <2>7, <4>1, <4>2, RowAtSaved
      <4> QED
        BY <2>8, <3>1, <4>3
    <3>2. CASE p # id
      <4>1. RowAt(commits, products[p], p, n)
        BY DEF ProductInv, n
      <4>2. RowAt(commits', products[p], p, n)
        BY <2>2, <2>7, <4>1, RowAtSame
      <4>3. RowAt(commits', products[p], p, n + 1)
        BY <2>2, <2>4, <2>7, <3>2, <4>2, RowAtOther
      <4> QED
        BY <2>8, <3>2, <4>3
    <3> QED
      BY <3>1, <3>2
  <2>12. \A i, j \in DOMAIN products' : products'[i].sku = products'[j].sku => i = j
    BY <2>8, <2>9 DEF ProductInv
  <2>13. \A d \in DOMAIN call' : pc'[d] = "apply" =>
           /\ call'[d].id \in DOMAIN products'
           /\ mem'[d].row \in ProductRows /\ mem'[d].row.sku = products'[call'[d].id].sku
           /\ mem'[d].readAt \in 0 .. Len(commits')
           /\ RowAt(commits', mem'[d].row, call'[d].id, mem'[d].readAt)
    <3>1. Len(commits') \in Nat /\ Len(commits) <= Len(commits')
          /\ \A i \in 1 .. Len(commits) : commits'[i] = commits[i]
      BY <2>2, <2>7 DEF n
    <3> QED
      BY <2>1, <2>8, <2>9, <3>1, AppliesStay
  <2> QED
    BY <1>0e, <2>7, <2>8, <2>10, <2>11, <2>12, <2>13 DEF ProductInv
<1>8. ASSUME SeedStep PROVE ProductInv'
  <2>1. UNCHANGED <<call, pc, mem, commits>>
    BY <1>8 DEF SeedStep, SeedStart, SeedCountUser, SeedInsertUser, SeedCountProduct,
                SeedInsertProduct, SeedInsertInventory, SeedInterrupted, httpVars
  <2>2. CASE UNCHANGED products
    BY <1>0e, <2>1, <2>2 DEF ProductInv
  <2>3. CASE SeedInsertProduct /\ SeedProducts[seed.entry].sku \notin Skus
    <3> DEFINE r == ProductRow(SeedProducts[seed.entry])
    <3>1. products' = Append(products, r)
      BY <2>3 DEF SeedInsertProduct
    <3>2. seed.entry \in DOMAIN SeedProducts
      BY <2>3, WorkloadAssumption DEF SeedInsertProduct, SeedInv
    <3>3. SeedProducts[seed.entry] \in Range(SeedProducts)
      BY <3>2 DEF Range
    <3>4. r \in ProductRows /\ r.sku \notin Skus
      BY <2>3, <3>3, WorkloadAssumption DEF ProductRow
    <3> HIDE DEF r
    <3>5. /\ products' \in Seq(ProductRows)
          /\ \A i, j \in DOMAIN products' : products'[i].sku = products'[j].sku => i = j
          /\ DOMAIN products \subseteq DOMAIN products'
          /\ \A p \in DOMAIN products : products'[p] = products[p]
          /\ \A i \in DOMAIN commits' : commits'[i].id \in DOMAIN products'
          /\ \A p \in DOMAIN products' : RowAt(commits', products'[p], p, Len(commits'))
      BY <2>1, <3>1, <3>4, NewProduct
    <3> QED
      BY <1>0e, <2>1, <3>5 DEF ProductInv
  <2> QED
    BY <1>8, <2>2, <2>3 DEF SeedStep, SeedStart, SeedCountUser, SeedInsertUser, SeedCountProduct,
                SeedInsertProduct, SeedInsertInventory, SeedInterrupted
<1>9. ASSUME UNCHANGED <<httpVars, users, catalogueVars>> PROVE ProductInv'
  BY <1>0e, <1>9 DEF httpVars, catalogueVars, ProductInv
<1> QED
  BY <1>2, <1>3, <1>4, <1>5, <1>6, <1>7, <1>8, <1>9, NextKinds

\* An update of a product is undone only by one that overlapped it: a column
\* that no longer holds what an update wrote was set again, or written back by
\* an update that had read the row before (UpdateProduct's read and Save).
THEOREM UpdatesAreLostOnlyToOverlap == Spec => []LostOnlyToOverlap
<1> DEFINE Inv == CallsInv /\ SeedInv /\ ProductInv
<1>1. Init => Inv
  BY CallsInvInit, SeedInvInit, ProductInvInit
<1>2. Inv /\ [Next]_vars => Inv'
  BY CallsInvStep, SeedInvStep, ProductInvStep
<1>3. Inv => LostOnlyToOverlap
  <2> SUFFICES ASSUME ProductInv, NEW i \in DOMAIN commits, NEW f \in Columns(commits[i].set),
                      products[commits[i].id][f] # commits[i].set[f]
               PROVE  \E j \in i + 1 .. Len(commits) :
                        /\ commits[j].id = commits[i].id
                        /\ f \in Columns(commits[j].set) \/ commits[j].readAt < i
    BY DEF LostOnlyToOverlap
  <2>1. RowAt(commits, products[commits[i].id], commits[i].id, Len(commits)) /\ i \in 1 .. Len(commits)
    BY DEF ProductInv
  <2> QED
    BY <2>1 DEF RowAt
<1> QED
  BY <1>1, <1>2, <1>3, PTL DEF Spec

\* The row that the seed program goes back to is the one with its sku.
LEMMA SeedRowIs ==
  ASSUME ProductInv, NEW p \in DOMAIN products, products[p].sku = SeedProducts[seed.entry].sku
  PROVE  SeedRowId = p
<1>1. SeedRowId \in DOMAIN products /\ products[SeedRowId].sku = SeedProducts[seed.entry].sku
  BY DEF SeedRowId
<1> QED
  BY <1>1 DEF ProductInv

\* Every step keeps OrphanInv.
LEMMA OrphanInvStep ==
  ASSUME CallsInv, SeedInv, ProductInv, OrphanInv, [Next]_vars
  PROVE  OrphanInv'
<1>1. ASSUME UNCHANGED <<seed, interrupted>>, DOMAIN inventory \subseteq DOMAIN inventory',
             DOMAIN products' = DOMAIN products,
             \A p \in DOMAIN products : products'[p].sku = products[p].sku
      PROVE  OrphanInv'
  BY <1>1 DEF OrphanInv
<1>2. ASSUME NEW c \in Calls, Frame(c) PROVE OrphanInv'
  BY <1>1, <1>2 DEF Frame
<1>3. ASSUME UNCHANGED catalogueVars PROVE OrphanInv'
  BY <1>1, <1>3 DEF catalogueVars
<1>4. ASSUME NEW c \in Calls, CreateProduct(c) PROVE OrphanInv'
  <2>1. UNCHANGED <<seed, interrupted, commits>> /\ c \in DOMAIN call /\ call[c].op = "createProduct"
    BY <1>4 DEF CreateProduct, At, seedVars
  <2>2. CASE UNCHANGED <<products, inventory>>
    BY <1>1, <2>1, <2>2
  <2>3. CASE call[c].sku \notin Skus /\ CreateProductTx(c)
    <3> DEFINE r == ProductRow(call[c])
               id == Len(products) + 1
    <3>1. r \in ProductRows /\ r.sku \notin Skus
      BY <2>1, <2>3 DEF ProductRow, ProductRows, CallsInv, Sends
    <3> HIDE DEF r
    <3>2. products' = Append(products, r)
      BY <2>3 DEF CreateProductTx, r
    <3>3. /\ DOMAIN products' = DOMAIN products \cup {id}
          /\ \A p \in DOMAIN products : products'[p] = products[p]
      BY <2>1, <3>1, <3>2, NewProduct
    <3> HIDE DEF id
    <3>4. DOMAIN inventory' = DOMAIN inventory \cup {id}
      BY <2>3 DEF CreateProductTx, SaveInventory, id
    <3> QED
      BY <2>1, <3>3, <3>4 DEF OrphanInv
  <2> QED
    BY <1>4, <2>2, <2>3 DEF CreateProduct
<1>5. ASSUME NEW c \in Calls, UpdateProductSave(c) PROVE OrphanInv'
  <2> DEFINE id == call[c].id
             new == Updated(mem[c].row, call[c].set)
  <2>1. /\ UNCHANGED <<seed, interrupted, inventory>>
        /\ c \in DOMAIN call /\ pc[c] = "apply" /\ call[c].op = "updateProduct"
        /\ products' = [products EXCEPT ![id] = new]
    BY <1>5 DEF UpdateProductSave, At, seedVars
  <2>2. id \in DOMAIN products /\ mem[c].row \in ProductRows /\ mem[c].row.sku = products[id].sku
    BY <2>1 DEF ProductInv
  <2>3. new.sku = products[id].sku
    BY <2>1, <2>2, SetColumns DEF CallsInv
  <2> HIDE DEF id, new
  <2>4. DOMAIN products' = DOMAIN products /\ \A p \in DOMAIN products : products'[p].sku = products[p].sku
    BY <2>1, <2>3 DEF ProductInv
  <2> QED
    BY <1>1, <2>1, <2>4
<1>6. ASSUME SeedStep PROVE OrphanInv'
  <2>1. CASE SeedStart \/ SeedCountUser \/ SeedInsertUser \/ SeedCountProduct
    <3>1. /\ UNCHANGED <<products, inventory, interrupted>> /\ seed.at # "insertInventory"
          /\ seed'.at # "insertInventory"
      BY <2>1 DEF SeedStart, SeedCountUser, SeedInsertUser, SeedCountProduct, SeedAt
    <3> QED
      BY <3>1 DEF OrphanInv
  <2>2. CASE SeedInsertProduct
    <3>1. UNCHANGED <<inventory, interrupted, commits>> /\ seed.at = "insertProduct"
      BY <2>2 DEF SeedInsertProduct
    <3>2. CASE SeedProducts[seed.entry].sku \in Skus
      <4>1. UNCHANGED products /\ seed'.at = "off"
        BY <2>2, <3>2 DEF SeedInsertProduct, SeedAt
      <4> QED
        BY <3>1, <4>1 DEF OrphanInv
    <3>3. CASE SeedProducts[seed.entry].sku \notin Skus
      <4> DEFINE r == ProductRow(SeedProducts[seed.entry])
                 id == Len(products) + 1
      <4>1. products' = Append(products, r) /\ seed'.at = "insertInventory" /\ seed'.entry = seed.entry
        BY <2>2, <3>3 DEF SeedInsertProduct, SeedAt
      <4>2. seed.entry \in DOMAIN SeedProducts
        BY <3>1, WorkloadAssumption DEF SeedInv
      <4>3. SeedProducts[seed.entry] \in Range(SeedProducts)
        BY <4>2 DEF Range
      <4>4. r \in ProductRows /\ r.sku = SeedProducts[seed.entry].sku
        BY <4>3, WorkloadAssumption DEF ProductRow
      <4> HIDE DEF r
      <4>5. /\ DOMAIN products' = DOMAIN products \cup {id}
            /\ \A p \in DOMAIN products : products'[p] = products[p]
            /\ products'[id] = r
        BY <3>1, <3>3, <4>1, <4>4, NewProduct
      <4> HIDE DEF id
      <4>6. \A p \in DOMAIN products : p \in DOMAIN inventory \cup interrupted
        BY <3>1 DEF OrphanInv
      <4> QED
        BY <3>1, <4>1, <4>4, <4>5, <4>6 DEF OrphanInv
    <3> QED
      BY <3>2, <3>3
  <2>3. CASE SeedInsertInventory
    <3>1. /\ UNCHANGED <<products, interrupted>> /\ seed'.at = "countProduct"
          /\ DOMAIN inventory' = DOMAIN inventory \cup {SeedRowId}
      BY <2>3 DEF SeedInsertInventory, SeedAt, SaveInventory
    <3>2. \A p \in DOMAIN products : p \in DOMAIN inventory \cup interrupted \/ p = SeedRowId
      BY SeedRowIs DEF OrphanInv
    <3> QED
      BY <3>1, <3>2 DEF OrphanInv
  <2>4. CASE SeedInterrupted
    <3>1. UNCHANGED <<products, inventory>> /\ seed'.at = "off"
      BY <2>4 DEF SeedInterrupted, SeedAt
    <3>2. interrupted' = IF seed.at = "insertInventory" THEN interrupted \cup {SeedRowId} ELSE interrupted
      BY <2>4 DEF SeedInterrupted
    <3>3. \A p \in DOMAIN products : p \in DOMAIN inventory \cup interrupted'
      BY <3>2, SeedRowIs DEF OrphanInv
    <3> QED
      BY <3>1, <3>3 DEF OrphanInv
  <2> QED
    BY <1>6, <2>1, <2>2, <2>3, <2>4 DEF SeedStep
<1>7. ASSUME NEW c \in Calls, UpdateProductRead(c) PROVE OrphanInv'
  BY <1>3, <1>7 DEF UpdateProductRead
<1> QED
  BY <1>2, <1>3, <1>4, <1>5, <1>6, <1>7, NextKinds

\* A product that can never be sold, because it has no inventory row, comes
\* only from a run of the seed program cut off between its two inserts:
\* CreateProduct writes both rows in one transaction.
THEOREM OrphansComeFromInterruptedSeeds == Spec => []OrphanOnlyFromInterruptedSeed
<1> DEFINE Inv == CallsInv /\ SeedInv /\ ProductInv /\ OrphanInv
<1>1. Init => Inv
  BY CallsInvInit, SeedInvInit, ProductInvInit
<1>2. Inv /\ [Next]_vars => Inv'
  BY CallsInvStep, SeedInvStep, ProductInvStep, OrphanInvStep
<1>3. Inv => OrphanOnlyFromInterruptedSeed
  BY SeedRowIs DEF OrphanInv, OrphanOnlyFromInterruptedSeed
<1> QED
  BY <1>1, <1>2, <1>3, PTL DEF Spec

-----------------------------------------------------------------------------
(* Sums over the lines of an order.                                         *)

\* A set of numbers has a least member: the induction used below, as "there is
\* no smallest counterexample".
LEMMA LeastNat ==
  ASSUME NEW B \in SUBSET Nat, B # {}
  PROVE  \E n \in B : \A m \in B : n <= m
<1>1. PICK n \in B : \A m \in B : <<m, n>> \notin OpToRel(<, Nat)
  BY NatLessThanWellFounded, WFMin, Zenon
<1>2. \A m \in B : ~(m < n)
  BY <1>1, Zenon DEF OpToRel
<1> QED
  BY <1>2

\* What is defined step by step from 0 on exists.
LEMMA RecursionExists ==
  ASSUME NEW N \in Nat, NEW f \in [1 .. N -> [Int -> Int]]
  PROVE  \E g \in [0 .. N -> Int] : g[0] = 0 /\ \A n \in 1 .. N : g[n] = f[n][g[n - 1]]
<1> DEFINE Has(k) == \E g \in [0 .. k -> Int] : g[0] = 0 /\ \A n \in 1 .. k : g[n] = f[n][g[n - 1]]
           B == {k \in 0 .. N : ~Has(k)}
<1>1. Has(0)
  <2> DEFINE g == [n \in 0 .. 0 |-> 0]
  <2>1. g \in [0 .. 0 -> Int] /\ g[0] = 0 /\ \A n \in 1 .. 0 : g[n] = f[n][g[n - 1]]
    OBVIOUS
  <2> QED
    BY <2>1
<1>2. ASSUME NEW k \in 1 .. N, Has(k - 1) PROVE Has(k)
  <2>1. PICK g \in [0 .. k - 1 -> Int] : g[0] = 0 /\ \A n \in 1 .. k - 1 : g[n] = f[n][g[n - 1]]
    BY <1>2
  <2> DEFINE x == f[k][g[k - 1]]
             h == [n \in 0 .. k |-> IF n = k THEN x ELSE g[n]]
  <2>2. k \in Nat /\ k # 0 /\ k - 1 \in 0 .. k - 1 /\ x \in Int
    OBVIOUS
  <2> HIDE DEF x
  <2>3. h \in [0 .. k -> Int] /\ h[0] = 0 /\ h[k] = x /\ h[k - 1] = g[k - 1]
    BY <2>1, <2>2
  <2>4. ASSUME NEW n \in 1 .. k PROVE h[n] = f[n][h[n - 1]]
    <3>1. CASE n = k
      BY <2>3, <3>1 DEF x
    <3>2. CASE n # k
      <4>1. n \in 1 .. k - 1 /\ n \in 0 .. k /\ n - 1 \in 0 .. k /\ n - 1 # k
        BY <2>2, <3>2
      <4>2. h[n] = g[n] /\ h[n - 1] = g[n - 1]
        BY <3>2, <4>1
      <4> QED
        BY <2>1, <4>1, <4>2
    <3> QED
      BY <3>1, <3>2
  <2> HIDE DEF h
  <2> QED
    BY <2>3, <2>4
<1> HIDE DEF Has
<1>3. B = {}
  <2> SUFFICES ASSUME B # {} PROVE FALSE
    OBVIOUS
  <2>1. PICK k \in B : \A m \in B : k <= m
    <3>1. B \in SUBSET Nat
      OBVIOUS
    <3> HIDE DEF B
    <3> QED
      BY <3>1, LeastNat
  <2>2. k \in 0 .. N /\ ~Has(k) /\ \A m \in 0 .. N : ~Has(m) => k <= m
    BY <2>1
  <2>3. k \in 1 .. N /\ k - 1 \in 0 .. N /\ ~(k <= k - 1)
    BY <1>1, <2>2
  <2> QED
    BY <1>2, <2>2, <2>3
<1>4. Has(N)
  <2>1. N \in 0 .. N
    OBVIOUS
  <2>2. \A k \in 0 .. N : Has(k)
    BY <1>3, Zenon
  <2> QED
    BY <2>1, <2>2
<1> QED
  BY <1>4 DEF Has

\* The amounts of the width at hand.
Amounts == -MaxInt - 1 .. MaxInt

\* Wrapping around changes no amount that fits, and leaves no other.
LEMMA WrapFits ==
  /\ \A n \in Int : Wrap(n) \in Amounts
  /\ \A n \in 0 .. MaxInt : Wrap(n) = n
<1>0. MaxInt \in Nat
  BY MoneyAssumption
<1> DEFINE k == 2 * (MaxInt + 1)
<1>1. k \in Nat \ {0} /\ k = MaxInt + 1 + MaxInt + 1
  BY <1>0
<1> HIDE DEF k
<1>2. \A a \in Int, b \in Nat \ {0} : a % b \in 0 .. b - 1
  OBVIOUS
<1>3. \A a, b \in Nat : a < b => a % b = a
  OBVIOUS
<1>4. ASSUME NEW n \in Int PROVE Wrap(n) \in Amounts
  <2> DEFINE r == (n + MaxInt + 1) % k
  <2>1. r \in 0 .. k - 1
    BY <1>0, <1>1, <1>2
  <2>2. Wrap(n) = r - (MaxInt + 1)
    BY DEF Wrap, k
  <2> HIDE DEF r
  <2> QED
    BY <1>0, <1>1, <2>1, <2>2 DEF Amounts
<1>5. ASSUME NEW n \in 0 .. MaxInt PROVE Wrap(n) = n
  <2>1. (n + MaxInt + 1) % k = n + MaxInt + 1
    BY <1>0, <1>1, <1>3
  <2>2. Wrap(n) = ((n + MaxInt + 1) % k) - (MaxInt + 1)
    BY DEF Wrap, k
  <2> QED
    BY <1>0, <2>1, <2>2
<1> QED
  BY <1>4, <1>5

\* The columns of a line.
LEMMA LineOf ==
  ASSUME NEW lines \in Seq(Items), NEW n \in 1 .. Len(lines)
  PROVE  lines[n].price \in Nat /\ lines[n].quantity \in Nat /\ lines[n].product \in Nat
<1>1. lines[n] \in Items
  OBVIOUS
<1> QED
  BY <1>1 DEF Items

\* What Total and ExactTotal iterate.
Sums(g, lines) ==
  g = [n \in 0 .. Len(lines) |->
         IF n = 0 THEN 0 ELSE Add(g[n - 1], Mul(lines[n].price, lines[n].quantity))]
ExactSums(g, lines) ==
  g = [n \in 0 .. Len(lines) |-> IF n = 0 THEN 0 ELSE g[n - 1] + lines[n].price * lines[n].quantity]

\* The definitions, in these terms.
LEMMA TotalDef ==
  ASSUME NEW lines
  PROVE  /\ Total(lines) = (CHOOSE g : Sums(g, lines))[Len(lines)]
         /\ ExactTotal(lines) = (CHOOSE g : ExactSums(g, lines))[Len(lines)]
BY Zenon DEF Total, ExactTotal, Sums, ExactSums

\* There are such functions.
LEMMA SumsExist ==
  ASSUME NEW lines \in Seq(Items)
  PROVE  (\E g : Sums(g, lines)) /\ \E g : ExactSums(g, lines)
<1> DEFINE N == Len(lines)
           f == [n \in 1 .. N |-> [x \in Int |-> Add(x, Mul(lines[n].price, lines[n].quantity))]]
           e == [n \in 1 .. N |-> [x \in Int |-> x + lines[n].price * lines[n].quantity]]
<1>0. 0 \in Int
  OBVIOUS
<1>1. N \in Nat /\ \A n \in 1 .. N : lines[n].price \in Nat /\ lines[n].quantity \in Nat
  BY LineOf
<1>2. \A n \in 1 .. N : lines[n].price * lines[n].quantity \in Nat
  BY <1>1, Products
<1>3. \A n \in 1 .. N : Mul(lines[n].price, lines[n].quantity) \in Int
  <2>1. \A n \in Int : Wrap(n) \in Int
    BY WrapFits, MoneyAssumption DEF Amounts
  <2>2. \A n \in 1 .. N : lines[n].price * lines[n].quantity \in Int
    BY <1>2
  <2> QED
    BY <2>1, <2>2, Zenon DEF Mul
<1>4. f \in [1 .. N -> [Int -> Int]]
  <2>1. \A x, y \in Int : Add(x, y) \in Int
    <3>1. \A n \in Int : Wrap(n) \in Int
      BY WrapFits, MoneyAssumption DEF Amounts
    <3> QED
      BY <3>1 DEF Add
  <2> QED
    BY <1>3, <2>1
<1>5. e \in [1 .. N -> [Int -> Int]]
  BY <1>2
<1>6. \E g : Sums(g, lines)
  <2>1. PICK g \in [0 .. N -> Int] : g[0] = 0 /\ \A n \in 1 .. N : g[n] = f[n][g[n - 1]]
    <3> HIDE DEF f, N
    <3> QED
      BY <1>0, <1>1, <1>4, RecursionExists
  <2>2. \A n \in 0 .. N : n # 0 => n \in 1 .. N /\ g[n - 1] \in Int
    BY <1>1
  <2>3. \A n \in 0 .. N :
          g[n] = IF n = 0 THEN 0 ELSE Add(g[n - 1], Mul(lines[n].price, lines[n].quantity))
    BY <2>1, <2>2
  <2>4. g = [n \in 0 .. N |-> g[n]]
    OBVIOUS
  <2> QED
    BY <2>3, <2>4 DEF Sums
<1>7. \E g : ExactSums(g, lines)
  <2>1. PICK g \in [0 .. N -> Int] : g[0] = 0 /\ \A n \in 1 .. N : g[n] = e[n][g[n - 1]]
    <3> HIDE DEF e, N
    <3> QED
      BY <1>0, <1>1, <1>5, RecursionExists
  <2>2. \A n \in 0 .. N : n # 0 => n \in 1 .. N /\ g[n - 1] \in Int
    BY <1>1
  <2>3. \A n \in 0 .. N :
          g[n] = IF n = 0 THEN 0 ELSE g[n - 1] + lines[n].price * lines[n].quantity
    BY <2>1, <2>2
  <2>4. g = [n \in 0 .. N |-> g[n]]
    OBVIOUS
  <2> QED
    BY <2>3, <2>4 DEF ExactSums
<1> QED
  BY <1>6, <1>7

\* A total is an amount, and the true one unless that overflows.
LEMMA TotalIs ==
  ASSUME NEW lines \in Seq(Items)
  PROVE  /\ Total(lines) \in Amounts /\ ExactTotal(lines) \in Nat
         /\ ExactTotal(lines) <= MaxInt => Total(lines) = ExactTotal(lines)
<1> DEFINE N == Len(lines)
           s == CHOOSE g : Sums(g, lines)
           x == CHOOSE g : ExactSums(g, lines)
           Fits(n) == /\ s[n] \in Amounts /\ x[n] \in Nat
                      /\ x[n] <= MaxInt => s[n] = x[n]
           B == {n \in 0 .. N : ~Fits(n)}
<1>0. N \in Nat /\ MaxInt \in Nat /\ 0 \in Amounts
  BY MoneyAssumption DEF Amounts
<1>1. Sums(s, lines) /\ ExactSums(x, lines)
  BY SumsExist, Zenon
<1> HIDE DEF s, x
<1>2. s[0] = 0 /\ x[0] = 0
  BY <1>0, <1>1 DEF Sums, ExactSums
<1>3. ASSUME NEW n \in 1 .. N
      PROVE  /\ s[n] = Add(s[n - 1], Mul(lines[n].price, lines[n].quantity))
             /\ x[n] = x[n - 1] + lines[n].price * lines[n].quantity
  <2>1. n \in 0 .. N /\ n # 0
    BY <1>0
  <2> QED
    BY <1>1, <2>1 DEF Sums, ExactSums
<1>4. B = {}
  <2> SUFFICES ASSUME B # {} PROVE FALSE
    OBVIOUS
  <2>1. PICK n \in B : \A m \in B : n <= m
    <3>1. B \in SUBSET Nat
      BY <1>0
    <3> HIDE DEF B
    <3> QED
      BY <3>1, LeastNat
  <2>2. n \in 0 .. N /\ ~Fits(n) /\ \A m \in 0 .. N : ~Fits(m) => n <= m
    BY <2>1
  <2>3. Fits(0)
    BY <1>0, <1>2
  <2> HIDE DEF Fits
  <2>4. n # 0
    BY <2>2, <2>3
  <2>5. n \in 1 .. N /\ n - 1 \in 0 .. N /\ ~(n <= n - 1)
    BY <1>0, <2>2, <2>4
  <2>6. Fits(n - 1)
    BY <2>2, <2>5
  <2> DEFINE p == lines[n].price * lines[n].quantity
  <2>7. p \in Nat
    BY <2>5, Products, LineOf
  <2>8. s[n] = Wrap(s[n - 1] + Wrap(p)) /\ x[n] = x[n - 1] + p
    BY <1>3, <2>5 DEF Add, Mul
  <2> HIDE DEF p
  <2>9. s[n - 1] \in Int /\ x[n - 1] \in Nat /\ (x[n - 1] <= MaxInt => s[n - 1] = x[n - 1])
    BY <1>0, <2>6 DEF Fits, Amounts
  <2>10. Wrap(p) \in Int
    BY <1>0, <2>7, WrapFits DEF Amounts
  <2>11. s[n] \in Amounts
    BY <2>8, <2>9, <2>10, WrapFits
  <2>12. x[n] \in Nat
    BY <2>7, <2>8, <2>9
  <2>13. ASSUME x[n] <= MaxInt PROVE s[n] = x[n]
    <3>1. p \in 0 .. MaxInt /\ x[n - 1] \in 0 .. MaxInt /\ x[n - 1] + p \in 0 .. MaxInt
      BY <1>0, <2>7, <2>8, <2>9, <2>13
    <3>2. Wrap(p) = p /\ s[n - 1] = x[n - 1]
      BY <2>9, <3>1, WrapFits
    <3> QED
      BY <2>8, <3>1, <3>2, WrapFits
  <2>14. Fits(n)
    BY <2>11, <2>12, <2>13 DEF Fits
  <2> QED
    BY <2>2, <2>14
<1>5. Fits(N)
  BY <1>0, <1>4
<1> QED
  BY <1>5, TotalDef DEF s, x

\* What Units iterates.
UnitSums(g, items, p) ==
  g = [n \in 0 .. Len(items) |->
         IF n = 0 THEN 0 ELSE g[n - 1] + IF items[n].product = p THEN items[n].quantity ELSE 0]

\* The definition, in these terms.
LEMMA UnitsDef ==
  ASSUME NEW items, NEW p
  PROVE  Units(items, p) = (CHOOSE g : UnitSums(g, items, p))[Len(items)]
BY Zenon DEF Units, UnitSums

\* There is such a function.
LEMMA UnitSumsExist ==
  ASSUME NEW items \in Seq(Items), NEW p
  PROVE  \E g : UnitSums(g, items, p)
<1> DEFINE N == Len(items)
           q == [n \in 1 .. N |-> IF items[n].product = p THEN items[n].quantity ELSE 0]
           f == [n \in 1 .. N |-> [x \in Int |-> x + q[n]]]
<1>1. N \in Nat /\ 0 \in Nat /\ \A n \in 1 .. N : q[n] \in Nat
  BY LineOf
<1>2. f \in [1 .. N -> [Int -> Int]]
  BY <1>1
<1>3. PICK g \in [0 .. N -> Int] : g[0] = 0 /\ \A n \in 1 .. N : g[n] = f[n][g[n - 1]]
  <2> HIDE DEF f, N
  <2> QED
    BY <1>1, <1>2, RecursionExists
<1>4. \A n \in 0 .. N : n # 0 => n \in 1 .. N /\ g[n - 1] \in Int
  BY <1>1
<1>5. \A n \in 0 .. N : g[n] = IF n = 0 THEN 0
                               ELSE g[n - 1] + IF items[n].product = p THEN items[n].quantity ELSE 0
  BY <1>3, <1>4
<1>6. g = [n \in 0 .. N |-> g[n]]
  OBVIOUS
<1> QED
  BY <1>5, <1>6 DEF UnitSums

\* The units of a product are a number, and none of a product in no line.
LEMMA UnitsAre ==
  ASSUME NEW items \in Seq(Items), NEW p
  PROVE  /\ Units(items, p) \in Nat
         /\ (\A i \in DOMAIN items : items[i].product # p) => Units(items, p) = 0
<1> DEFINE N == Len(items)
           s == CHOOSE g : UnitSums(g, items, p)
           None == \A i \in DOMAIN items : items[i].product # p
           Fits(n) == s[n] \in Nat /\ (None => s[n] = 0)
           B == {n \in 0 .. N : ~Fits(n)}
<1>0. N \in Nat /\ DOMAIN items = 1 .. N
  OBVIOUS
<1>1. UnitSums(s, items, p)
  BY UnitSumsExist, Zenon
<1> HIDE DEF s
<1>2. s[0] = 0
  BY <1>0, <1>1 DEF UnitSums
<1>3. ASSUME NEW n \in 1 .. N
      PROVE  s[n] = s[n - 1] + IF items[n].product = p THEN items[n].quantity ELSE 0
  <2>1. n \in 0 .. N /\ n # 0
    BY <1>0
  <2> QED
    BY <1>1, <2>1 DEF UnitSums
<1>4. B = {}
  <2> SUFFICES ASSUME B # {} PROVE FALSE
    OBVIOUS
  <2>1. PICK n \in B : \A m \in B : n <= m
    <3>1. B \in SUBSET Nat
      BY <1>0
    <3> HIDE DEF B
    <3> QED
      BY <3>1, LeastNat
  <2>2. n \in 0 .. N /\ ~Fits(n) /\ \A m \in 0 .. N : ~Fits(m) => n <= m
    BY <2>1
  <2>3. Fits(0)
    BY <1>2
  <2> HIDE DEF Fits
  <2>4. n # 0
    BY <2>2, <2>3
  <2>5. n \in 1 .. N /\ n - 1 \in 0 .. N /\ ~(n <= n - 1)
    BY <1>0, <2>2, <2>4
  <2>6. Fits(n - 1)
    BY <2>2, <2>5
  <2>7. items[n].quantity \in Nat
    BY <2>5, LineOf
  <2>8. None => items[n].product # p
    BY <1>0, <2>5
  <2>9. Fits(n)
    <3>1. s[n - 1] \in Nat
      BY <2>6 DEF Fits
    <3>2. s[n] \in Nat
      <4>1. \E k \in Nat : s[n] = s[n - 1] + k
        BY <1>3, <2>5, <2>7
      <4> QED
        BY <3>1, <4>1
    <3>3. None => s[n] = s[n - 1] + 0
      BY <1>3, <2>5, <2>8
    <3>4. None => s[n - 1] = 0
      BY <2>6 DEF Fits
    <3>5. None => s[n] = 0
      BY <3>3, <3>4
    <3> QED
      BY <3>2, <3>5 DEF Fits
  <2> QED
    BY <2>2, <2>9
<1>5. Fits(N)
  BY <1>0, <1>4
<1> QED
  BY <1>5, UnitsDef DEF s
-----------------------------------------------------------------------------
(* Orders, and what requests hold of them.                                  *)

\* Two versions of an order: all that a later read of it may panic on.
Same(r, s) == r.user = s.user /\ r.key = s.key /\ r.exact = s.exact

\* Every order of table t is in table u, in its place.
Later(t, u) == DOMAIN t \subseteq DOMAIN u /\ \A i \in DOMAIN t : Same(u[i], t[i])

TableOK(t) == t \in Seq(Range(t)) /\ \A i \in DOMAIN t : IsOrder(t[i])

\* A report has read its full pages of a table that has not shrunk below them,
\* nor below what it was when the report began.
Collecting(p, m, len) ==
  /\ DOMAIN m = {"page", "collected", "total", "began"}
  /\ m.page \in Nat \ {0} /\ m.began \in 0 .. len
  /\ m.collected \in Seq(Range(m.collected)) /\ Len(m.collected) = (m.page - 1) * PageSize
  /\ (m.page - 1) * PageSize <= len /\ (m.page - 1) * PageSize < MaxOrders
  /\ p = "find" => m.total \in m.began .. len

Answers == {200, 201, 429} \cup {StatusFor[k] : k \in DOMAIN StatusFor}

\* What the request of c holds at point p, the table being t: lines read so
\* far, the lines of an order, the id of one, an answer, or a report.
Holds(c, p, m, t) ==
  /\ p = "line" => BindsOrder(call[c]) /\ m \in Seq(Items) /\ Len(m) < Len(call[c].lines)
  /\ p \in {"submit", "reserve"} => m \in Seq(Items) /\ Len(m) >= 1
  /\ p = "settle" => m \in DOMAIN t
  /\ p = "publish" => m \in Answers
  /\ p \in {"load", "write"} => call[c].id \in DOMAIN t
  /\ p = "write" => call[c].op = "cancel" \/ call[c].status \in Targets
  /\ p \in {"count", "find"} => Collecting(p, m, Len(t))

OrdersInv ==
  /\ TableOK(orders)
  /\ \A c \in DOMAIN call : Holds(c, pc[c], mem[c], orders)

\* No product has a price that cannot be read back, and no update that is about
\* to be saved gives it one.
PricesInv ==
  /\ \A p \in DOMAIN products : ValidMoney(products[p].price, products[p].currency)
  /\ \A c \in DOMAIN call : pc[c] = "apply" =>
       ValidMoney(mem[c].row.price, mem[c].row.currency) /\ Applies(mem[c].row, call[c].set)

StockInv == \A p \in DOMAIN inventory : inventory[p] \in InventoryRows

\* The gauge counts the requests that are under way and the ones that panicked.
UnderWay == {c \in Calls : pc[c] \notin {"idle", "done"}}
GaugeInv ==
  /\ inFlight = Cardinality(UnderWay)
  /\ DOMAIN claims = Calls
  /\ DOMAIN reply = Calls /\ \A c \in Calls : reply[c] \in Answers \cup {0}

\* What may make the request of c panic.
Reason(c) ==
  \/ server = "bus" /\ call[c].op \in {"place", "cancel"}
  \/ \E i \in DOMAIN orders : orders[i].exact > MaxInt /\ Reads(c, i)

-----------------------------------------------------------------------------
(* Where a step leaves its request.                                         *)

\* The requests other than c stay as they are.
Others(c) ==
  /\ UNCHANGED call /\ DOMAIN pc' = Calls /\ DOMAIN mem' = Calls /\ DOMAIN reply' = Calls
  /\ DOMAIN claims' = Calls
  /\ \A d \in Calls \ {c} :
       pc'[d] = pc[d] /\ mem'[d] = mem[d] /\ reply'[d] = reply[d] /\ claims'[d] = claims[d]

\* c is answered, panics, or goes on.
Ends(c) == pc'[c] = "done" /\ inFlight' = inFlight - 1 /\ reply'[c] \in Answers
Breaks(c) ==
  /\ pc'[c] = "panicked" /\ inFlight' = inFlight /\ reply'[c] \in Answers
  /\ claims'[c] = claims[c]
Goes(c) == pc'[c] \notin {"idle", "done", "panicked"} /\ inFlight' = inFlight /\ reply'[c] = reply[c]

\* A step of c outside the handlers of orders, and without a panic.
Apart(c) ==
  /\ c \in DOMAIN call /\ pc[c] \notin {"idle", "done"} /\ Others(c)
  /\ \/ Ends(c)
     \/ Goes(c) /\ pc'[c] \in {"mutex", "auth", "handler", "save", "apply"}
     \/ Goes(c) /\ pc'[c] = "publish" /\ mem'[c] \in Answers

\* The kinds of errors, and the statuses of the answers.
LEMMA KindsAre ==
  /\ DOMAIN StatusFor = {"validation", "not_found", "conflict", "unauthorized", "forbidden",
                         "out_of_stock", "payment_failed", "unavailable", "internal"}
  /\ \A k \in DOMAIN StatusFor : StatusFor[k] \in Answers
  /\ {200, 201, 429, 500} \subseteq Answers
  /\ {StatusFor.internal, StatusFor.out_of_stock, StatusFor.validation, StatusFor.conflict,
      StatusFor.payment_failed} \subseteq Answers
<1>1. DOMAIN StatusFor = {"validation", "not_found", "conflict", "unauthorized", "forbidden",
                          "out_of_stock", "payment_failed", "unavailable", "internal"}
  BY DEF StatusFor
<1>2. \A k \in DOMAIN StatusFor : StatusFor[k] \in Answers
  BY DEF Answers
<1>3. StatusFor["internal"] = 500
  BY DEF StatusFor
<1>4. 500 \in Answers
  BY <1>1, <1>2, <1>3
<1>5. {StatusFor.internal, StatusFor.out_of_stock, StatusFor.validation, StatusFor.conflict,
       StatusFor.payment_failed} \subseteq Answers
  BY <1>1, <1>2
<1> QED
  BY <1>1, <1>2, <1>4, <1>5 DEF Answers

\* The ends and the points of a handler.
LEMMA Outcomes ==
  ASSUME CallsInv, GaugeInv, NEW c \in DOMAIN call, UNCHANGED call
  PROVE  /\ \A s \in Answers : Reply(c, s) => Others(c) /\ Ends(c)
         /\ \A k \in DOMAIN StatusFor : Fail(c, k) => Others(c) /\ Ends(c)
         /\ Panic(c) => Others(c) /\ Breaks(c)
         /\ \A k : (k = "panic" \/ k \in DOMAIN StatusFor) /\ Refuse(c, k) =>
              Others(c) /\ (Ends(c) \/ (Breaks(c) /\ k = "panic"))
         /\ \A p, m : p \notin {"idle", "done", "panicked"} /\ GoOn(c, p, m) =>
              Others(c) /\ Goes(c) /\ pc'[c] = p /\ mem'[c] = m
<1>0. c \in Calls /\ DOMAIN pc = Calls /\ DOMAIN mem = Calls /\ DOMAIN reply = Calls /\ DOMAIN claims = Calls
  BY DEF CallsInv, GaugeInv
<1>1. \A s \in Answers : Reply(c, s) => Others(c) /\ Ends(c)
  BY <1>0 DEF Reply, Others, Ends
<1>2. \A k \in DOMAIN StatusFor : Fail(c, k) => Others(c) /\ Ends(c)
  BY <1>1, KindsAre DEF Fail
<1>3. Panic(c) => Others(c) /\ Breaks(c)
  BY <1>0, KindsAre DEF Panic, Others, Breaks
<1>4. \A k : (k = "panic" \/ k \in DOMAIN StatusFor) /\ Refuse(c, k) =>
        Others(c) /\ (Ends(c) \/ (Breaks(c) /\ k = "panic"))
  BY <1>2, <1>3 DEF Refuse
<1>5. \A p, m : p \notin {"idle", "done", "panicked"} /\ GoOn(c, p, m) =>
        Others(c) /\ Goes(c) /\ pc'[c] = p /\ mem'[c] = m
  BY <1>0 DEF GoOn, Others, Goes
<1> QED
  BY <1>1, <1>2, <1>3, <1>4, <1>5

\* The middleware chain, once the request has arrived.
LEMMA HttpApart ==
  ASSUME CallsInv, GaugeInv, NEW c \in Calls, HttpStep(c), ~Arrive(c)
  PROVE  Apart(c)
<1>0. UNCHANGED call /\ c \in DOMAIN call /\ pc[c] \in {"limit", "mutex", "auth", "handler"}
  BY DEF HttpStep, Clock, Throttle, Unauthorized, Auth, Ping, At, CallsInv
<1>d. DOMAIN pc = Calls /\ DOMAIN mem = Calls /\ DOMAIN reply = Calls /\ DOMAIN claims = Calls
  BY DEF CallsInv, GaugeInv
<1>e. Others(c) /\ Ends(c) => Apart(c)
  BY <1>0 DEF Apart
<1>1. CASE Clock(c)
  BY <1>0, <1>1, <1>d DEF Clock, Apart, Others, Goes
<1>2. CASE Throttle(c)
  <2>1. Reply(c, 429) => Apart(c)
    BY <1>0, <1>e, Outcomes, KindsAre
  <2>2. \A m : GoOn(c, "auth", m) => Apart(c)
    BY <1>0, Outcomes DEF Apart
  <2> QED
    BY <1>2, <2>1, <2>2 DEF Throttle
<1>3. \A k \in DOMAIN StatusFor : Fail(c, k) => Apart(c)
  BY <1>0, <1>e, Outcomes
<1>4. CASE Unauthorized(c)
  BY <1>3, <1>4, KindsAre DEF Unauthorized
<1>5. CASE Auth(c)
  <2>1. \/ Fail(c, "forbidden")
        \/ /\ pc' = [pc EXCEPT ![c] = "handler"] /\ UNCHANGED <<mem, reply, inFlight>>
           /\ \E t : claims' = [claims EXCEPT ![c] = t]
    BY <1>5 DEF Auth
  <2>2. /\ pc' = [pc EXCEPT ![c] = "handler"] /\ UNCHANGED <<mem, reply, inFlight>>
        /\ \E t : claims' = [claims EXCEPT ![c] = t]
        => Apart(c)
    BY <1>0, <1>d DEF Apart, Others, Goes
  <2> QED
    BY <1>3, <2>1, <2>2, KindsAre
<1>6. CASE Ping(c)
  BY <1>0, <1>6, <1>e, Outcomes, KindsAre DEF Ping
<1> QED
  BY <1>1, <1>2, <1>4, <1>5, <1>6 DEF HttpStep

\* What the lookups answer.
LEMMA Lookups ==
  /\ \A c : FindUser(c) \in {"", "validation", "not_found"}
  /\ \A id : FindProduct(id) \in {"", "validation", "not_found", "panic"}
  /\ \A id : FindProduct(id) = "panic" =>
       id \in DOMAIN products /\ ~ValidMoney(products[id].price, products[id].currency)
  /\ \A id : FindProduct(id) = "" =>
       id \in DOMAIN products /\ ValidMoney(products[id].price, products[id].currency)
  /\ \A id : FindOrder(id) \in {"", "validation", "not_found", "panic"}
  /\ \A id : FindOrder(id) = "panic" => id \in DOMAIN orders /\ ~Converts(orders[id])
  /\ \A id : FindOrder(id) = "" => id \in DOMAIN orders
<1>1. \A c : FindUser(c) \in {"", "validation", "not_found"}
  BY DEF FindUser
<1>2. ASSUME NEW id
      PROVE  /\ FindProduct(id) \in {"", "validation", "not_found", "panic"}
             /\ FindProduct(id) = "panic" =>
                  id \in DOMAIN products /\ ~ValidMoney(products[id].price, products[id].currency)
             /\ FindProduct(id) = "" =>
                  id \in DOMAIN products /\ ValidMoney(products[id].price, products[id].currency)
  BY DEF FindProduct
<1>3. ASSUME NEW id
      PROVE  /\ FindOrder(id) \in {"", "validation", "not_found", "panic"}
             /\ FindOrder(id) = "panic" => id \in DOMAIN orders /\ ~Converts(orders[id])
             /\ FindOrder(id) = "" => id \in DOMAIN orders
  BY DEF FindOrder
<1> QED
  BY <1>1, <1>2, <1>3

\* A page has ids of the rows asked for.
LEMMA PageIds ==
  ASSUME NEW ids, NEW number, NEW page \in Pages(ids, number, PageSize)
  PROVE  /\ DOMAIN page = 1 .. RowsLeft(Cardinality(ids), Offset(number, PageSize), PageSize)
         /\ \A i \in DOMAIN page : page[i] \in ids
BY DEF Pages

\* The handlers of users and products, and a statement that fails.
LEMMA CommandsApart ==
  ASSUME CallsInv, GaugeInv, ProductInv, PricesInv, NEW c \in Calls,
         AccountStep(c) \/ CatalogueStep(c) \/ DbFails(c)
  PROVE  Apart(c)
<1>0. UNCHANGED call /\ c \in DOMAIN call /\ pc[c] \notin {"idle", "done"}
  BY DEF AccountStep, Register, Login, GetUser, UpdateUserRead, UpdateUserSave, CatalogueStep,
         CreateProduct, UpdateProductRead, UpdateProductSave, GetProduct, ListProducts, GetInventory,
         GetLowStock, DbFails, At, CallsInv
<1>1. \A s \in {200, 201} : Reply(c, s) => Apart(c)
  BY <1>0, Outcomes, KindsAre DEF Apart
<1>2. \A k \in DOMAIN StatusFor : Fail(c, k) => Apart(c)
  BY <1>0, Outcomes DEF Apart
<1>3. \A p \in {"save", "apply"} : \A m : GoOn(c, p, m) => Apart(c)
  BY <1>0, Outcomes DEF Apart
<1>4. \A id : FindProduct(id) # "panic"
  BY Lookups DEF PricesInv
<1>5. \A id : FindProduct(id) # "" /\ Refuse(c, FindProduct(id)) => Apart(c)
  <2>1. \A id : FindProduct(id) # "" => FindProduct(id) \in {"validation", "not_found"}
    BY <1>4, Lookups
  <2>2. \A k \in {"validation", "not_found"} : Refuse(c, k) => Apart(c)
    BY <1>2, KindsAre DEF Refuse
  <2> QED
    BY <2>1, <2>2
<1>6. FindUser(c) # "" => FindUser(c) \in DOMAIN StatusFor
  <2>1. FindUser(c) \in {"", "validation", "not_found"}
    BY DEF FindUser
  <2>2. {"validation", "not_found"} \subseteq DOMAIN StatusFor
    BY KindsAre
  <2> QED
    BY <2>1, <2>2
<1>7. {"validation", "not_found", "conflict", "unauthorized", "internal"} \subseteq DOMAIN StatusFor
  BY KindsAre
<1>8. CASE Register(c) \/ Login(c)
  BY <1>1, <1>2, <1>7, <1>8 DEF Register, Login
<1>9. CASE GetUser(c) \/ UpdateUserSave(c)
  BY <1>1, <1>2, <1>6, <1>9 DEF GetUser, UpdateUserSave
<1>10. CASE UpdateUserRead(c)
  BY <1>2, <1>3, <1>6, <1>7, <1>10 DEF UpdateUserRead
<1>11. CASE CreateProduct(c)
  BY <1>1, <1>2, <1>7, <1>11 DEF CreateProduct, CreateProductTx
<1>12. CASE UpdateProductRead(c)
  <2>1. Refuse(c, "validation") => Apart(c)
    BY <1>2, <1>7 DEF Refuse
  <2>2. \/ Refuse(c, "validation") \/ Fail(c, "validation")
        \/ FindProduct(call[c].id) # "" /\ Refuse(c, FindProduct(call[c].id))
        \/ \E m : GoOn(c, "apply", m)
    BY <1>12 DEF UpdateProductRead
  <2> QED
    BY <1>2, <1>3, <1>5, <1>7, <2>1, <2>2
<1>13. CASE UpdateProductSave(c) \/ GetLowStock(c)
  BY <1>1, <1>13 DEF UpdateProductSave, GetLowStock
<1>14. CASE GetProduct(c)
  BY <1>1, <1>5, <1>14 DEF GetProduct
<1>15. CASE ListProducts(c)
  <2>1. PICK page \in Pages(DOMAIN products, call[c].page, PageSize) :
          IF \A i \in DOMAIN page : ValidMoney(products[page[i]].price, products[page[i]].currency)
          THEN Reply(c, 200)
          ELSE Panic(c)
    BY <1>15 DEF ListProducts
  <2>2. \A i \in DOMAIN page : ValidMoney(products[page[i]].price, products[page[i]].currency)
    BY PageIds DEF PricesInv
  <2> QED
    BY <1>1, <2>1, <2>2
<1>16. CASE GetInventory(c)
  BY <1>1, <1>2, <1>7, <1>16 DEF GetInventory
<1>17. CASE DbFails(c)
  <2>1. Fail(c, "internal") \/ GoOn(c, "publish", StatusFor.internal)
    BY <1>17 DEF DbFails, PublishThen
  <2>2. GoOn(c, "publish", StatusFor.internal) => Apart(c)
    BY <1>0, Outcomes, KindsAre DEF Apart
  <2> QED
    BY <1>2, <1>7, <2>1, <2>2
<1> QED
  BY <1>8, <1>9, <1>10, <1>11, <1>12, <1>13, <1>14, <1>15, <1>16, <1>17 DEF AccountStep, CatalogueStep

-----------------------------------------------------------------------------
(* The orders table.                                                        *)

\* An order that cannot be read back overflowed: its lines were priced from
\* rows that could be.
LEMMA UnreadableOverflowed ==
  ASSUME NEW r, IsOrder(r), ~Converts(r)
  PROVE  r.exact > MaxInt
<1>1. /\ MaxInt \in Nat /\ r.exact \in Nat /\ r.total \in Int /\ (r.exact <= MaxInt => r.total = r.exact)
      /\ r.currency \in Currencies
  BY MoneyAssumption DEF IsOrder
<1>2. \A i \in DOMAIN r.items : ValidMoney(r.items[i].price, r.items[i].currency)
  <2>1. \A i \in DOMAIN r.items : r.items[i] \in Items
    BY DEF IsOrder
  <2> QED
    BY <2>1 DEF Items, ValidMoney
<1>3. ~(r.total >= 0)
  BY <1>1, <1>2 DEF Converts, ValidMoney
<1> QED
  BY <1>1, <1>3

\* A sequence is one over its own elements.
LEMMA OverRange ==
  ASSUME NEW T, NEW t \in Seq(T)
  PROVE  t \in Seq(Range(t)) /\ Range(t) \subseteq T
BY DEF Range

\* Nothing is written.
LEMMA SameTable ==
  ASSUME TableOK(orders), UNCHANGED orders
  PROVE  TableOK(orders') /\ Later(orders, orders')
BY DEF TableOK, Later, Same

\* A status is written.
LEMMA StatusKeeps ==
  ASSUME TableOK(orders), NEW id \in DOMAIN orders, NEW s \in Status, SetStatus(id, s)
  PROVE  TableOK(orders') /\ Later(orders, orders')
<1> DEFINE r == [orders[id] EXCEPT !.status = s]
           T == Range(orders) \cup {r}
<1>1. DOMAIN orders[id] = {"user", "status", "items", "total", "currency", "exact", "key"}
  BY DEF TableOK, IsOrder
<1>2. /\ DOMAIN r = DOMAIN orders[id] /\ r.status = s /\ r.items = orders[id].items
      /\ r.total = orders[id].total /\ r.currency = orders[id].currency /\ r.exact = orders[id].exact
      /\ r.user = orders[id].user /\ r.key = orders[id].key
  BY <1>1
<1>3. orders' = [orders EXCEPT ![id] = r]
  BY DEF SetStatus
<1>4. orders \in Seq(T) /\ r \in T
  BY DEF TableOK
<1> HIDE DEF r, T
<1>5. orders' \in Seq(T) /\ DOMAIN orders' = DOMAIN orders
  BY <1>3, <1>4
<1>6. orders' \in Seq(Range(orders'))
  BY <1>5, OverRange
<1>7. IsOrder(r) /\ Same(r, orders[id])
  BY <1>2 DEF TableOK, IsOrder, Same
<1>8. \A i \in DOMAIN orders : orders'[i] = IF i = id THEN r ELSE orders[i]
  BY <1>3
<1> QED
  BY <1>5, <1>6, <1>7, <1>8 DEF TableOK, Later, Same

\* An order is inserted.
LEMMA CreateKeeps ==
  ASSUME TableOK(orders), NEW r, IsOrder(r), orders' = Append(orders, r)
  PROVE  TableOK(orders') /\ Later(orders, orders') /\ Len(orders) + 1 \in DOMAIN orders'
<1> DEFINE n == Len(orders)
           T == Range(orders) \cup {r}
<1>1. orders \in Seq(T) /\ r \in T
  BY DEF TableOK
<1> HIDE DEF T
<1>2. /\ n \in Nat /\ DOMAIN orders = 1 .. n /\ DOMAIN orders' = 1 .. n + 1 /\ orders' \in Seq(T)
      /\ orders'[n + 1] = r /\ \A i \in 1 .. n : orders'[i] = orders[i]
  BY <1>1
<1>3. orders' \in Seq(Range(orders'))
  BY <1>2, OverRange
<1> HIDE DEF n
<1>4. \A i \in 1 .. n + 1 : i \in 1 .. n \/ i = n + 1
  BY <1>2
<1>5. 1 .. n \subseteq 1 .. n + 1 /\ n + 1 \in 1 .. n + 1
  BY <1>2
<1>6. \A i \in DOMAIN orders' : IsOrder(orders'[i])
  BY <1>2, <1>4 DEF TableOK
<1>7. Later(orders, orders')
  BY <1>2, <1>5 DEF Later, Same
<1> QED
  BY <1>2, <1>3, <1>5, <1>6, <1>7 DEF TableOK, n

\* A later table is no shorter.
LEMMA LaterLen ==
  ASSUME NEW t, NEW u, TableOK(t), TableOK(u), Later(t, u)
  PROVE  Len(t) \in Nat /\ Len(u) \in Nat /\ Len(t) <= Len(u)
<1>1. Len(t) \in Nat /\ Len(u) \in Nat /\ DOMAIN t = 1 .. Len(t) /\ DOMAIN u = 1 .. Len(u)
  BY DEF TableOK
<1>2. 1 .. Len(t) \subseteq 1 .. Len(u)
  BY <1>1 DEF Later
<1>3. \A a, b \in Nat : 1 .. a \subseteq 1 .. b => a <= b
  <2> SUFFICES ASSUME NEW a \in Nat, NEW b \in Nat, 1 .. a \subseteq 1 .. b, ~(a <= b) PROVE FALSE
    OBVIOUS
  <2>1. a \in 1 .. a
    OBVIOUS
  <2>2. a \in 1 .. b
    BY <2>1
  <2> QED
    BY <2>2
<1> QED
  BY <1>1, <1>2, <1>3

\* What a request holds stays true of a later table.
LEMMA HoldsLater ==
  ASSUME NEW c, NEW p, NEW m, NEW t, NEW u, TableOK(t), TableOK(u), Holds(c, p, m, t), Later(t, u)
  PROVE  Holds(c, p, m, u)
<1> DEFINE a == Len(t)
           b == Len(u)
<1>1. DOMAIN t \subseteq DOMAIN u
  BY DEF Later
<1>2. a \in Nat /\ b \in Nat /\ a <= b
  BY LaterLen
<1>3. Collecting(p, m, a) => Collecting(p, m, b)
  <2> HIDE DEF a, b
  <2> SUFFICES ASSUME Collecting(p, m, a) PROVE Collecting(p, m, b)
    OBVIOUS
  <2>1. m.page \in Nat \ {0} /\ m.began \in 0 .. a /\ (m.page - 1) * PageSize <= a
    BY DEF Collecting
  <2>2. m.began \in 0 .. b
    BY <1>2, <2>1
  <2>3. (m.page - 1) * PageSize <= b
    <3>1. (m.page - 1) * PageSize \in Nat
      BY <2>1, Products, ReportAssumption
    <3> QED
      BY <1>2, <2>1, <3>1
  <2>4. p = "find" => m.total \in m.began .. b
    <3>1. m.total \in m.began .. a => m.total \in m.began .. b
      BY <1>2, <2>1
    <3> QED
      BY <3>1 DEF Collecting
  <2> QED
    BY <2>2, <2>3, <2>4 DEF Collecting
<1> QED
  BY <1>1, <1>3 DEF Holds

\* The order that is built from the lines.
LEMMA NewOrderIs ==
  ASSUME NEW c, NEW items \in Seq(Items), Len(items) >= 1
  PROVE  IsOrder(NewOrder(c, items))
<1>1. /\ Total(items) \in -MaxInt - 1 .. MaxInt /\ ExactTotal(items) \in Nat
      /\ (ExactTotal(items) <= MaxInt => Total(items) = ExactTotal(items))
  BY TotalIs DEF Amounts
<1>2. "reserved" \in Status
  BY DEF Status
<1>3. items[1].currency \in Currencies
  <2>1. items[1] \in Items
    OBVIOUS
  <2> QED
    BY <2>1 DEF Items
<1>4. LET r == NewOrder(c, items) IN
      /\ DOMAIN r = {"user", "status", "items", "total", "currency", "exact", "key"}
      /\ r.status = "reserved" /\ r.items = items /\ r.total = Total(items)
      /\ r.exact = ExactTotal(items) /\ r.currency = items[1].currency
  BY DEF NewOrder
<1> QED
  BY <1>1, <1>2, <1>3, <1>4 DEF IsOrder

-----------------------------------------------------------------------------
(* The steps of the order handlers.                                         *)

\* A step of c in the handlers of orders: it panics for a reason, holds what is
\* true of the table then, and writes a status or a new order, if any.
InOrders(c) ==
  /\ c \in DOMAIN call /\ pc[c] \notin {"idle", "done"} /\ Others(c) /\ UNCHANGED server
  /\ Ends(c) \/ (Goes(c) /\ pc'[c] # "apply") \/ (Breaks(c) /\ Reason(c))
  /\ Holds(c, pc'[c], mem'[c], orders')
  /\ TableOK(orders') /\ Later(orders, orders')

\* An order that c reads, and that cannot be read.
LEMMA ReadsUnreadable ==
  ASSUME TableOK(orders), NEW c, NEW i \in DOMAIN orders, ~Converts(orders[i]), Reads(c, i)
  PROVE  Reason(c)
BY UnreadableOverflowed DEF TableOK, Reason

\* Ends of a handler, and a handler that goes on.
LEMMA OrderEnds ==
  ASSUME CallsInv, GaugeInv, NEW c \in DOMAIN call, pc[c] \notin {"idle", "done"},
         UNCHANGED <<call, server>>, TableOK(orders'), Later(orders, orders')
  PROVE  /\ \A s \in Answers : Reply(c, s) => InOrders(c)
         /\ \A k \in DOMAIN StatusFor : Fail(c, k) => InOrders(c)
         /\ Panic(c) /\ Reason(c) => InOrders(c)
         /\ \A s \in Answers : PublishThen(c, s) => InOrders(c)
         /\ \A p, m : /\ p \notin {"idle", "done", "panicked", "apply"} /\ GoOn(c, p, m)
                      /\ Holds(c, p, m, orders')
                      => InOrders(c)
<1>1. Others(c) /\ Ends(c) => InOrders(c)
  BY DEF InOrders, Ends, Holds
<1>2. Others(c) /\ Breaks(c) /\ Reason(c) => InOrders(c)
  BY DEF InOrders, Breaks, Holds
<1>3. \A p, m : /\ Others(c) /\ Goes(c) /\ p # "apply" /\ pc'[c] = p /\ mem'[c] = m
                /\ Holds(c, p, m, orders')
                => InOrders(c)
  BY DEF InOrders
<1>4. \A s \in Answers : Reply(c, s) => InOrders(c)
  BY <1>1, Outcomes
<1>5. \A k \in DOMAIN StatusFor : Fail(c, k) => InOrders(c)
  BY <1>1, Outcomes
<1>6. Panic(c) /\ Reason(c) => InOrders(c)
  BY <1>2, Outcomes
<1>7. \A p, m : /\ p \notin {"idle", "done", "panicked", "apply"} /\ GoOn(c, p, m)
                /\ Holds(c, p, m, orders')
                => InOrders(c)
  BY <1>3, Outcomes
<1>8. \A s \in Answers : PublishThen(c, s) => InOrders(c)
  <2>1. \A s \in Answers : Holds(c, "publish", s, orders')
    BY DEF Holds
  <2> QED
    BY <1>7, <2>1 DEF PublishThen
<1> QED
  BY <1>4, <1>5, <1>6, <1>7, <1>8

\* An item, from a line and the row of its product.
LEMMA ItemIs ==
  ASSUME NEW line \in [product : Nat, quantity : Int], line.quantity > 0,
         NEW row \in ProductRows, ValidMoney(row.price, row.currency)
  PROVE  [product |-> line.product, price |-> row.price, currency |-> row.currency,
          quantity |-> line.quantity] \in Items
<1>1. line.product \in Nat /\ line.quantity \in Nat \ {0}
  OBVIOUS
<1>2. row.price \in Nat /\ row.currency \in Currencies
  BY DEF ProductRows, ValidMoney
<1> QED
  BY <1>1, <1>2 DEF Items

\* A line is read: what is built of it is an item.
LEMMA LineItem ==
  ASSUME CallsInv, ProductInv, NEW c \in DOMAIN call, call[c].op = "place", BindsOrder(call[c]),
         NEW k \in 1 .. Len(call[c].lines)
  PROVE  LET line == call[c].lines[k]
             p == products[line.product] IN
         FindProduct(line.product) = "" =>
           [product |-> line.product, price |-> p.price, currency |-> p.currency,
            quantity |-> line.quantity] \in Items
<1> DEFINE line == call[c].lines[k]
<1>1. call[c].lines \in Seq([product : Nat, quantity : Int])
  BY DEF CallsInv, Sends
<1>2. \A T : \A s \in Seq(T) : \A i \in 1 .. Len(s) : s[i] \in T /\ i \in DOMAIN s
  OBVIOUS
<1>3. k \in DOMAIN call[c].lines /\ line \in [product : Nat, quantity : Int]
  BY <1>1, <1>2, Zenon
<1>4. line.quantity > 0
  BY <1>3 DEF BindsOrder
<1> HIDE DEF line
<1>5. FindProduct(line.product) = "" =>
        /\ products[line.product] \in ProductRows
        /\ ValidMoney(products[line.product].price, products[line.product].currency)
  <2>1. \A p \in DOMAIN products : products[p] \in ProductRows
    BY DEF ProductInv
  <2>2. FindProduct(line.product) = "" =>
          /\ line.product \in DOMAIN products
          /\ ValidMoney(products[line.product].price, products[line.product].currency)
    BY Lookups, Zenon
  <2> QED
    BY <2>1, <2>2, Zenon
<1>6. FindProduct(line.product) = "" =>
        [product |-> line.product, price |-> products[line.product].price,
         currency |-> products[line.product].currency, quantity |-> line.quantity] \in Items
  BY <1>3, <1>4, <1>5, ItemIs
<1> QED
  BY <1>6 DEF line

\* The steps of placing an order, up to the pool.
LEMMA PlaceReads ==
  ASSUME CallsInv, GaugeInv, ProductInv, PricesInv, OrdersInv, NEW c \in Calls,
         PlaceLookup(c) \/ PlaceLine(c) \/ PlaceSubmit(c)
  PROVE  InOrders(c)
<1>0. /\ c \in DOMAIN call /\ call[c].op = "place" /\ UNCHANGED <<call, orders, server>>
      /\ pc[c] \in {"handler", "line", "submit"}
  BY DEF PlaceLookup, PlaceLine, PlaceSubmit, At, accountVars, orderVars
<1>t. TableOK(orders) /\ Holds(c, pc[c], mem[c], orders)
  BY <1>0 DEF OrdersInv
<1>k. {"validation", "not_found", "unavailable"} \subseteq DOMAIN StatusFor /\ 201 \in Answers
  BY KindsAre
<1>e. /\ \A s \in Answers : Reply(c, s) => InOrders(c)
      /\ \A k \in DOMAIN StatusFor : Fail(c, k) => InOrders(c)
      /\ Panic(c) /\ Reason(c) => InOrders(c)
      /\ \A p, m : /\ p \notin {"idle", "done", "panicked", "apply"} /\ GoOn(c, p, m)
                   /\ Holds(c, p, m, orders)
                   => InOrders(c)
  <2>1. TableOK(orders') /\ Later(orders, orders') /\ orders' = orders
    BY <1>0, <1>t, SameTable
  <2> QED
    BY <1>0, <2>1, OrderEnds
<1>1. CASE PlaceLookup(c)
  <2>1. CASE Fail(c, "validation")
    BY <1>e, <1>k, <2>1
  <2>2. ASSUME KeyOf(c) \in Keys
        PROVE  LET id == CHOOSE i \in DOMAIN orders : orders[i].key = KeyOf(c) IN
               (IF Converts(orders[id]) THEN Reply(c, 201) ELSE Panic(c)) => InOrders(c)
    <3> DEFINE id == CHOOSE i \in DOMAIN orders : orders[i].key = KeyOf(c)
    <3>1. \E i \in DOMAIN orders : orders[i].key = KeyOf(c)
      BY <2>2 DEF Keys
    <3>2. id \in DOMAIN orders /\ orders[id].key = KeyOf(c)
      BY <3>1
    <3> HIDE DEF id
    <3>3. Reads(c, id)
      BY <1>0, <3>2 DEF Reads
    <3>4. ~Converts(orders[id]) => Reason(c)
      BY <1>t, <3>2, <3>3, ReadsUnreadable
    <3>5. (IF Converts(orders[id]) THEN Reply(c, 201) ELSE Panic(c)) => InOrders(c)
      BY <1>e, <1>k, <3>4
    <3> QED
      BY <3>5 DEF id
  <2>3. BindsOrder(call[c]) /\ GoOn(c, "line", <<>>) => InOrders(c)
    <3>1. <<>> \in Seq(Items) /\ Len(<<>>) = 0
      OBVIOUS
    <3>2. call[c].lines \in Seq([product : Nat, quantity : Int])
      BY <1>0 DEF CallsInv, Sends
    <3>3. BindsOrder(call[c]) => 0 < Len(call[c].lines)
      BY <3>2 DEF BindsOrder
    <3>4. BindsOrder(call[c]) => Holds(c, "line", <<>>, orders)
      BY <3>1, <3>3 DEF Holds
    <3> QED
      BY <1>e, <3>4
  <2> QED
    BY <1>1, <2>1, <2>2, <2>3 DEF PlaceLookup
<1>2. CASE PlaceLine(c)
  <2>0. pc[c] = "line"
    BY <1>2 DEF PlaceLine, At
  <2> DEFINE k == Len(mem[c]) + 1
             line == call[c].lines[k]
             p == products[line.product]
             item == [product |-> line.product, price |-> p.price, currency |-> p.currency,
                      quantity |-> line.quantity]
             items == Append(mem[c], item)
             why == FindProduct(line.product)
  <2>1. BindsOrder(call[c]) /\ mem[c] \in Seq(Items) /\ Len(mem[c]) < Len(call[c].lines)
    BY <1>t, <2>0 DEF Holds
  <2>2. call[c].lines \in Seq([product : Nat, quantity : Int])
    BY <1>0 DEF CallsInv, Sends
  <2>3. Len(mem[c]) \in Nat /\ Len(call[c].lines) \in Nat
    BY <2>1, <2>2
  <2>4. k \in 1 .. Len(call[c].lines)
    BY <2>1, <2>3
  <2>5. \/ why # "" /\ Refuse(c, why)
        \/ Fail(c, "validation")
        \/ why = "" /\ Len(items) < Len(call[c].lines) /\ GoOn(c, "line", items)
        \/ why = "" /\ GoOn(c, "submit", items)
    BY <1>2 DEF PlaceLine
  <2>6. why = "" => item \in Items
    BY <1>0, <2>1, <2>4, LineItem
  <2> HIDE DEF item
  <2>7. why = "" => items \in Seq(Items) /\ Len(items) >= 1
    <3>1. \A s \in Seq(Items) : \A e \in Items : Append(s, e) \in Seq(Items) /\ Len(Append(s, e)) >= 1
      OBVIOUS
    <3> QED
      BY <2>1, <2>6, <3>1, Zenon
  <2> HIDE DEF items
  <2>8. why # "" => why \in {"validation", "not_found"}
    BY Lookups DEF PricesInv
  <2> HIDE DEF why
  <2>9. why # "" /\ Refuse(c, why) => InOrders(c)
    BY <1>e, <1>k, <2>8 DEF Refuse
  <2>10. why = "" /\ GoOn(c, "submit", items) => InOrders(c)
    <3>1. items \in Seq(Items) /\ Len(items) >= 1 => Holds(c, "submit", items, orders)
      BY DEF Holds
    <3> QED
      BY <1>e, <2>7, <3>1
  <2>11. why = "" /\ Len(items) < Len(call[c].lines) /\ GoOn(c, "line", items) => InOrders(c)
    <3>1. items \in Seq(Items) /\ Len(items) < Len(call[c].lines) => Holds(c, "line", items, orders)
      BY <2>1 DEF Holds
    <3> QED
      BY <1>e, <2>7, <3>1
  <2> QED
    BY <1>e, <1>k, <2>5, <2>9, <2>10, <2>11
<1>3. CASE PlaceSubmit(c)
  <2>1. Holds(c, "reserve", mem[c], orders)
    BY <1>t, <1>3 DEF PlaceSubmit, At, Holds
  <2> QED
    BY <1>3, <1>e, <1>k, <2>1 DEF PlaceSubmit
<1> QED
  BY <1>1, <1>2, <1>3

\* The two transactions on the pool, and the events.
LEMMA PlaceWrites ==
  ASSUME CallsInv, GaugeInv, OrdersInv, NEW c \in Calls,
         PlaceReserve(c) \/ PlaceSettle(c) \/ Publish(c)
  PROVE  InOrders(c)
<1>0. /\ c \in DOMAIN call /\ call[c].op \in {"place", "cancel"} /\ UNCHANGED <<call, server>>
      /\ pc[c] \in {"reserve", "settle", "publish"}
  BY DEF PlaceReserve, PlaceSettle, Publish, At, accountVars, orderVars
<1>t. TableOK(orders) /\ Holds(c, pc[c], mem[c], orders)
  BY <1>0 DEF OrdersInv
<1>e. TableOK(orders') /\ Later(orders, orders') =>
        /\ \A s \in Answers : Reply(c, s) => InOrders(c)
        /\ Panic(c) /\ Reason(c) => InOrders(c)
        /\ \A s \in Answers : PublishThen(c, s) => InOrders(c)
        /\ \A p, m : /\ p \notin {"idle", "done", "panicked", "apply"} /\ GoOn(c, p, m)
                     /\ Holds(c, p, m, orders')
                     => InOrders(c)
  BY <1>0, OrderEnds
<1>u. UNCHANGED orders => TableOK(orders') /\ Later(orders, orders')
  BY <1>t, SameTable
<1>1. CASE PlaceReserve(c)
  <2>0. mem[c] \in Seq(Items) /\ Len(mem[c]) >= 1
    BY <1>t, <1>1 DEF PlaceReserve, At, Holds
  <2>1. \/ /\ UNCHANGED orders
           /\ PublishThen(c, StatusFor.internal) \/ PublishThen(c, StatusFor.out_of_stock)
        \/ orders' = Append(orders, NewOrder(c, mem[c])) /\ GoOn(c, "settle", Len(orders) + 1)
    BY <1>1 DEF PlaceReserve
  <2>2. ASSUME orders' = Append(orders, NewOrder(c, mem[c])), GoOn(c, "settle", Len(orders) + 1)
        PROVE  InOrders(c)
    <3> DEFINE r == NewOrder(c, mem[c])
    <3>1. IsOrder(r)
      BY <2>0, NewOrderIs
    <3> HIDE DEF r
    <3>2. orders' = Append(orders, r)
      BY <2>2 DEF r
    <3>3. TableOK(orders') /\ Later(orders, orders') /\ Len(orders) + 1 \in DOMAIN orders'
      BY <1>t, <3>1, <3>2, CreateKeeps
    <3>4. Holds(c, "settle", Len(orders) + 1, orders')
      BY <3>3 DEF Holds
    <3> QED
      BY <1>e, <2>2, <3>3, <3>4
  <2> QED
    BY <1>e, <1>u, <2>1, <2>2, KindsAre
<1>2. CASE PlaceSettle(c)
  <2>0. mem[c] \in DOMAIN orders
    BY <1>t, <1>2 DEF PlaceSettle, At, Holds
  <2>1. \/ /\ UNCHANGED orders
           /\ PublishThen(c, StatusFor.validation) \/ PublishThen(c, StatusFor.conflict)
        \/ \E s \in {"fulfilled", "failed"} : SetStatus(mem[c], s)
           /\ (PublishThen(c, 201) \/ PublishThen(c, StatusFor.payment_failed))
    BY <1>2 DEF PlaceSettle
  <2>2. ASSUME NEW s \in {"fulfilled", "failed"}, SetStatus(mem[c], s)
        PROVE  TableOK(orders') /\ Later(orders, orders')
    <3>1. s \in Status
      BY DEF Status
    <3> QED
      BY <1>t, <2>0, <2>2, <3>1, StatusKeeps
  <2> QED
    BY <1>e, <1>u, <2>1, <2>2, KindsAre
<1>3. CASE Publish(c)
  <2>1. mem[c] \in Answers /\ UNCHANGED orders
    BY <1>t, <1>3 DEF Publish, At, Holds, orderVars
  <2>2. server = "bus" => Reason(c)
    BY <1>0 DEF Reason
  <2> QED
    BY <1>3, <1>e, <1>u, <2>1, <2>2 DEF Publish
<1> QED
  BY <1>1, <1>2, <1>3


\* Reads, cancellation and the status update.
LEMMA OrderReadsAndWrites ==
  ASSUME CallsInv, GaugeInv, OrdersInv, NEW c \in Calls,
         \/ GetOrder(c) \/ ListOrders(c) \/ CancelCheck(c) \/ CancelLoad(c) \/ CancelWrite(c)
         \/ UpdateStatusRead(c) \/ UpdateStatusWrite(c)
  PROVE  InOrders(c)
<1>0. /\ c \in DOMAIN call /\ UNCHANGED <<call, server>> /\ pc[c] \in {"handler", "load", "write"}
      /\ call[c].op \in {"getOrder", "orderStatus", "listOrders", "listUserOrders", "cancel", "updateStatus"}
  BY DEF GetOrder, ListOrders, CancelCheck, CancelLoad, CancelWrite, UpdateStatusRead, UpdateStatusWrite,
         At, accountVars, orderVars
<1>t. TableOK(orders) /\ Holds(c, pc[c], mem[c], orders)
  BY <1>0 DEF OrdersInv
<1>k. {"validation", "not_found", "conflict", "forbidden"} \subseteq DOMAIN StatusFor /\ 200 \in Answers
  BY KindsAre
<1>e. UNCHANGED orders =>
        /\ Reply(c, 200) => InOrders(c)
        /\ \A k \in DOMAIN StatusFor : Fail(c, k) => InOrders(c)
        /\ Panic(c) /\ Reason(c) => InOrders(c)
        /\ \A p, m : /\ p \notin {"idle", "done", "panicked", "apply"} /\ GoOn(c, p, m)
                     /\ Holds(c, p, m, orders)
                     => InOrders(c)
  <2> SUFFICES ASSUME UNCHANGED orders
               PROVE  /\ Reply(c, 200) => InOrders(c)
                      /\ \A k \in DOMAIN StatusFor : Fail(c, k) => InOrders(c)
                      /\ Panic(c) /\ Reason(c) => InOrders(c)
                      /\ \A p, m : /\ p \notin {"idle", "done", "panicked", "apply"} /\ GoOn(c, p, m)
                                   /\ Holds(c, p, m, orders)
                                   => InOrders(c)
    OBVIOUS
  <2>1. TableOK(orders') /\ Later(orders, orders') /\ orders' = orders
    BY <1>t, SameTable
  <2> QED
    BY <1>0, <1>k, <2>1, OrderEnds
<1>w. TableOK(orders') /\ Later(orders, orders') /\ (Reply(c, 200) \/ PublishThen(c, 200)) => InOrders(c)
  BY <1>0, <1>k, OrderEnds
<1>f. ASSUME call[c].op \notin {"listOrders", "listUserOrders"}
      PROVE  /\ FindOrder(call[c].id) = "panic" => Reason(c)
             /\ FindOrder(call[c].id) = "" => call[c].id \in DOMAIN orders
             /\ FindOrder(call[c].id) \in {"", "validation", "not_found", "panic"}
  <2>1. Reads(c, call[c].id)
    BY <1>0, <1>f DEF Reads
  <2> QED
    BY <1>t, <2>1, Lookups, ReadsUnreadable
<1>r. \A k : /\ k = "panic" => Reason(c)
             /\ k \in {"validation", "not_found", "forbidden", "panic"} /\ Refuse(c, k)
             /\ UNCHANGED orders
             => InOrders(c)
  BY <1>e, <1>k DEF Refuse
<1>b. ASSUME call[c].op \notin {"listOrders", "listUserOrders"}
      PROVE  /\ ReadableBy(c) \in {"", "validation", "not_found", "forbidden", "panic"}
             /\ ReadableBy(c) = "panic" => Reason(c)
             /\ ReadableBy(c) = "" => call[c].id \in DOMAIN orders
  BY <1>b, <1>f DEF ReadableBy
<1>1. CASE GetOrder(c)
  <2>1. call[c].op \notin {"listOrders", "listUserOrders"} /\ UNCHANGED orders
    BY <1>1 DEF GetOrder, At, orderVars
  <2> QED
    BY <1>1, <1>e, <1>r, <1>b, <2>1 DEF GetOrder
<1>2. CASE ListOrders(c)
  <2>0. UNCHANGED orders /\ call[c].op \in {"listOrders", "listUserOrders"}
    BY <1>2 DEF ListOrders, At, orderVars
  <2>1. PICK page \in Pages(Asked(c), call[c].page, PageSize) :
          IF \A i \in DOMAIN page : Converts(orders[page[i]]) THEN Reply(c, 200) ELSE Panic(c)
    BY <1>2 DEF ListOrders
  <2>2. ASSUME NEW i \in DOMAIN page, ~Converts(orders[page[i]]) PROVE Reason(c)
    <3>1. page[i] \in Asked(c)
      BY PageIds
    <3>2. page[i] \in DOMAIN orders /\ Reads(c, page[i])
      BY <2>0, <3>1 DEF Asked, Reads
    <3> QED
      BY <1>t, <2>2, <3>2, ReadsUnreadable
  <2> QED
    BY <1>e, <2>0, <2>1, <2>2
<1>3. CASE CancelCheck(c)
  <2>0. UNCHANGED orders /\ call[c].op \notin {"listOrders", "listUserOrders"}
    BY <1>3 DEF CancelCheck, At, orderVars
  <2>1. ReadableBy(c) = "" => Holds(c, "load", <<>>, orders)
    BY <1>b, <2>0 DEF Holds
  <2> QED
    BY <1>3, <1>e, <1>r, <1>b, <2>0, <2>1 DEF CancelCheck
<1>4. CASE CancelLoad(c)
  <2>0. UNCHANGED orders /\ pc[c] = "load" /\ call[c].op = "cancel"
    BY <1>4 DEF CancelLoad, At, orderVars
  <2>1. \A m : Holds(c, "write", m, orders)
    BY <1>t, <2>0 DEF Holds
  <2> QED
    BY <1>4, <1>e, <2>0, <2>1 DEF CancelLoad
<1>5. ASSUME NEW s \in Status, pc[c] = "write", SetStatus(call[c].id, s)
      PROVE  TableOK(orders') /\ Later(orders, orders')
  <2>1. call[c].id \in DOMAIN orders
    BY <1>t, <1>5 DEF Holds
  <2> QED
    BY <1>t, <1>5, <2>1, StatusKeeps
<1>7. CASE CancelWrite(c)
  <2>1. \/ UNCHANGED orders /\ (Fail(c, "conflict") \/ Fail(c, "not_found"))
        \/ SetStatus(call[c].id, "cancelled") /\ PublishThen(c, 200)
    BY <1>7 DEF CancelWrite
  <2>2. "cancelled" \in Status /\ pc[c] = "write"
    BY <1>7 DEF CancelWrite, At, Status
  <2> QED
    BY <1>e, <1>k, <1>w, <1>5, <2>1, <2>2
<1>8. CASE UpdateStatusRead(c)
  <2> DEFINE id == call[c].id
             s == call[c].status
             why == IF s = "" THEN "validation" ELSE FindOrder(id)
  <2>0. UNCHANGED orders /\ call[c].op \notin {"listOrders", "listUserOrders"}
    BY <1>8 DEF UpdateStatusRead, At, orderVars
  <2>1. \/ why # "" /\ Refuse(c, why)
        \/ Fail(c, "validation") \/ Fail(c, "conflict")
        \/ why = "" /\ s \in Targets /\ GoOn(c, "write", <<>>)
    BY <1>8 DEF UpdateStatusRead
  <2>2. why # "" => why \in {"validation", "not_found", "panic"} /\ (why = "panic" => Reason(c))
    BY <1>f, <2>0
  <2>3. why = "" => id \in DOMAIN orders
    BY <1>f, <2>0
  <2> HIDE DEF why
  <2>4. why # "" /\ Refuse(c, why) => InOrders(c)
    BY <1>r, <2>0, <2>2
  <2>5. why = "" /\ s \in Targets => Holds(c, "write", <<>>, orders)
    BY <2>3 DEF Holds
  <2> QED
    BY <1>e, <1>k, <2>0, <2>1, <2>4, <2>5
<1>9. CASE UpdateStatusWrite(c)
  <2>1. pc[c] = "write" /\ call[c].op = "updateStatus"
    BY <1>9 DEF UpdateStatusWrite, At
  <2>2. call[c].status \in Status
    BY <1>t, <2>1 DEF Holds, Targets
  <2> QED
    BY <1>w, <1>5, <1>9, <2>1, <2>2 DEF UpdateStatusWrite
<1> QED
  BY <1>1, <1>2, <1>3, <1>4, <1>7, <1>8, <1>9

-----------------------------------------------------------------------------
(* The daily report.                                                        *)

\* What leaves no remainder is a multiple.
LEMMA Multiple ==
  ASSUME NEW a \in Nat, NEW b \in Nat \ {0}, a % b = 0
  PROVE  \E q \in Nat : a = q * b
OBVIOUS

\* A page that begins before the limit ends before it.
LEMMA NextPage ==
  ASSUME NEW k \in Nat, k * PageSize < MaxOrders
  PROVE  k * PageSize + PageSize <= MaxOrders /\ (k + 1) * PageSize = k * PageSize + PageSize
<1>0. PageSize \in Nat \ {0} /\ MaxOrders \in Nat
  BY ReportAssumption
<1>1. k * PageSize \in Nat
  BY <1>0, Products
<1>2. PICK q \in Nat : MaxOrders = q * PageSize
  BY <1>0, ReportAssumption, Multiple
<1>3. k < q
  <2>1. \A a, b \in Nat : ~(a < b) => b * PageSize <= a * PageSize
    BY <1>0
  <2> QED
    BY <1>0, <1>1, <1>2, <2>1
<1>4. (k + 1) * PageSize = k * PageSize + PageSize
  BY <1>0
<1>5. k * PageSize + PageSize <= MaxOrders
  <2>1. \A a, b \in Nat : a < b => (a + 1) * PageSize <= b * PageSize
    BY <1>0
  <2> QED
    BY <1>2, <1>3, <1>4, <2>1
<1> QED
  BY <1>4, <1>5

\* The rows of a page: with those of the pages before it, all there are if it
\* is short, and never more than the limit.
LEMMA RowsOfPage ==
  ASSUME NEW l \in Nat, NEW o \in Nat, o <= l, o + PageSize <= MaxOrders
  PROVE  LET n == RowsLeft(l, o, PageSize) IN
         /\ n \in Nat /\ n <= PageSize /\ o + n <= l /\ o + n <= MaxOrders
         /\ n < PageSize => o + n = l
<1>1. PageSize \in Nat \ {0} /\ MaxOrders \in Nat
  BY ReportAssumption
<1> QED
  BY <1>1 DEF RowsLeft

\* There are as many ids as rows.
LEMMA IdsCounted ==
  ASSUME TableOK(orders)
  PROVE  Cardinality(DOMAIN orders) = Len(orders) /\ Len(orders) \in Nat
<1>1. Len(orders) \in Nat /\ DOMAIN orders = 1 .. Len(orders)
  BY DEF TableOK
<1>2. \A n \in Nat : Cardinality(1 .. n) = n
  <2> SUFFICES ASSUME NEW n \in Nat PROVE Cardinality(1 .. n) = n
    OBVIOUS
  <2>1. Cardinality(1 .. n) = IF 1 > n THEN 0 ELSE n - 1 + 1
    BY FS_Interval
  <2> QED
    BY <2>1
<1> QED
  BY <1>1, <1>2

\* The report counts the table.
LEMMA CountStep ==
  ASSUME CallsInv, GaugeInv, OrdersInv, NEW c \in Calls, ReportCount(c)
  PROVE  InOrders(c)
<1> DEFINE m == IF pc[c] = "handler"
                THEN [page |-> 1, collected |-> <<>>, total |-> 0, began |-> Len(orders)]
                ELSE mem[c]
           new == [m EXCEPT !.total = Len(orders)]
<1>0. c \in DOMAIN call /\ UNCHANGED <<call, server, orders>> /\ pc[c] \in {"handler", "count"}
  BY DEF ReportCount, At, accountVars, orderVars
<1>t. TableOK(orders) /\ Holds(c, pc[c], mem[c], orders)
  BY <1>0 DEF OrdersInv
<1>1. GoOn(c, "find", new)
  BY DEF ReportCount
<1>2. Len(orders) \in Nat /\ PageSize \in Nat \ {0} /\ MaxOrders \in Nat \ {0}
  BY <1>t, ReportAssumption DEF TableOK
<1>3. Collecting("count", m, Len(orders))
  <2>1. CASE pc[c] = "handler"
    <3>1. /\ DOMAIN m = {"page", "collected", "total", "began"}
          /\ m.page = 1 /\ m.collected = <<>> /\ m.began = Len(orders)
      BY <2>1
    <3> HIDE DEF m
    <3>2. (m.page - 1) * PageSize = 0
      BY <1>2, <3>1
    <3>3. <<>> \in Seq(Range(<<>>)) /\ Len(<<>>) = 0
      OBVIOUS
    <3>4. Len(orders) \in 0 .. Len(orders)
      BY <1>2
    <3> QED
      BY <1>2, <3>1, <3>2, <3>3, <3>4 DEF Collecting
  <2>2. CASE pc[c] = "count"
    BY <1>t, <2>2 DEF Holds
  <2> QED
    BY <1>0, <2>1, <2>2
<1> HIDE DEF m
<1>4. DOMAIN m = {"page", "collected", "total", "began"} /\ m.began \in 0 .. Len(orders)
  BY <1>3 DEF Collecting
<1>5. /\ DOMAIN new = DOMAIN m /\ new.page = m.page /\ new.collected = m.collected
      /\ new.began = m.began /\ new.total = Len(orders)
  BY <1>4
<1> HIDE DEF new
<1>6. new.total \in new.began .. Len(orders)
  BY <1>2, <1>4, <1>5
<1>7. Collecting("find", new, Len(orders))
  BY <1>3, <1>5, <1>6 DEF Collecting
<1>8. Holds(c, "find", new, orders)
  BY <1>7 DEF Holds
<1>9. TableOK(orders') /\ Later(orders, orders') /\ orders' = orders
  BY <1>0, <1>t, SameTable
<1> QED
  BY <1>0, <1>1, <1>8, <1>9, OrderEnds

\* The report reads a page.  It goes on with one page more, or it has all the
\* orders there were when it began.
LEMMA FindStep ==
  ASSUME CallsInv, GaugeInv, OrdersInv, NEW c \in Calls, ReportFind(c)
  PROVE  InOrders(c) /\ (ReportCountsAll => ReportCountsAll')
<1>0. /\ c \in DOMAIN call /\ UNCHANGED <<call, server, orders>> /\ pc[c] = "find"
      /\ call[c].op = "report"
  BY DEF ReportFind, At, accountVars
<1>t. TableOK(orders) /\ Holds(c, pc[c], mem[c], orders)
  BY <1>0 DEF OrdersInv
<1>u. TableOK(orders') /\ Later(orders, orders') /\ orders' = orders
  BY <1>0, <1>t, SameTable
<1>e. /\ Reply(c, 200) => InOrders(c)
      /\ Panic(c) /\ Reason(c) => InOrders(c)
      /\ \A m : GoOn(c, "count", m) /\ Holds(c, "count", m, orders) => InOrders(c)
  BY <1>0, <1>u, KindsAre, OrderEnds
<1> DEFINE l == Len(orders)
           k == mem[c].page - 1
           o == k * PageSize
           n == RowsLeft(l, o, PageSize)
<1>1. Collecting("find", mem[c], l)
  BY <1>0, <1>t DEF Holds
<1>2. l \in Nat /\ Cardinality(DOMAIN orders) = l /\ PageSize \in Nat \ {0} /\ MaxOrders \in Nat
  BY <1>t, IdsCounted, ReportAssumption
<1>3. /\ DOMAIN mem[c] = {"page", "collected", "total", "began"} /\ mem[c].page \in Nat \ {0}
      /\ mem[c].began \in 0 .. l /\ mem[c].total \in mem[c].began .. l
      /\ mem[c].collected \in Seq(Range(mem[c].collected)) /\ Len(mem[c].collected) = o
      /\ o <= l /\ o < MaxOrders
  BY <1>1 DEF Collecting
<1>4. k \in Nat /\ mem[c].page = k + 1 /\ ~(mem[c].page <= 0)
  BY <1>3
<1>5. o \in Nat /\ Offset(mem[c].page, PageSize) = o
  BY <1>2, <1>4, Products DEF Offset
<1> HIDE DEF k
<1>6. o + PageSize <= MaxOrders /\ mem[c].page * PageSize = o + PageSize
  BY <1>3, <1>4, NextPage
<1> HIDE DEF l, o
<1>7. n \in Nat /\ n <= PageSize /\ o + n <= l /\ o + n <= MaxOrders /\ (n < PageSize => o + n = l)
  BY <1>2, <1>3, <1>5, <1>6, RowsOfPage
<1>8. PICK page \in Pages(DOMAIN orders, mem[c].page, PageSize) :
        LET batch == [i \in DOMAIN page |-> orders[page[i]]]
            collected == mem[c].collected \o batch IN
        CASE \E i \in DOMAIN batch : ~Converts(batch[i]) -> Panic(c) /\ UNCHANGED reports
          [] OTHER ->
               IF LastPage(batch, collected, mem[c].total)
               THEN /\ reports' = reports \cup {[result |-> Report(call[c].date, collected),
                                                began |-> mem[c].began, ended |-> Len(orders)]}
                    /\ Reply(c, 200)
               ELSE /\ GoOn(c, "count", [mem[c] EXCEPT !.page = @ + 1, !.collected = collected])
                    /\ UNCHANGED reports
  BY DEF ReportFind
<1> DEFINE batch == [i \in DOMAIN page |-> orders[page[i]]]
           collected == mem[c].collected \o batch
           last == LastPage(batch, collected, mem[c].total)
           rep == [result |-> Report(call[c].date, collected), began |-> mem[c].began, ended |-> l]
           next == [mem[c] EXCEPT !.page = @ + 1, !.collected = collected]
<1>9. DOMAIN page = 1 .. n /\ \A i \in DOMAIN page : page[i] \in DOMAIN orders
  BY <1>2, <1>5, PageIds
<1>10. \/ (\E i \in DOMAIN page : ~Converts(orders[page[i]])) /\ Panic(c) /\ UNCHANGED reports
       \/ last /\ reports' = reports \cup {rep} /\ Reply(c, 200)
       \/ ~last /\ GoOn(c, "count", next) /\ UNCHANGED reports
  <2>1. (\E i \in DOMAIN batch : ~Converts(batch[i])) <=> \E i \in DOMAIN page : ~Converts(orders[page[i]])
    OBVIOUS
  <2>2. \/ (\E i \in DOMAIN batch : ~Converts(batch[i])) /\ Panic(c) /\ UNCHANGED reports
        \/ last /\ reports' = reports \cup {rep} /\ Reply(c, 200)
        \/ ~last /\ GoOn(c, "count", next) /\ UNCHANGED reports
    BY <1>8, Zenon DEF l
  <2> HIDE DEF last, rep, next
  <2> QED
    BY <2>1, <2>2, Zenon
<1>11. collected \in Seq(Range(collected)) /\ Len(collected) = o + n /\ Len(batch) = n
  <2> DEFINE T == Range(mem[c].collected) \cup Range(orders)
             got == mem[c].collected
  <2>1. batch \in Seq(T) /\ Len(batch) = n
    <3>1. \A i \in 1 .. n : orders[page[i]] \in T
      BY <1>9 DEF Range
    <3>2. batch = [i \in 1 .. n |-> orders[page[i]]]
      BY <1>9
    <3> HIDE DEF T, batch, n
    <3> QED
      BY <1>7, <3>1, <3>2
  <2>2. got \in Seq(T) /\ Len(got) = o
    BY <1>3
  <2> HIDE DEF T, batch, got, n
  <2>3. got \o batch \in Seq(T) /\ Len(got \o batch) = Len(got) + Len(batch)
    BY <2>1, <2>2
  <2>4. got \o batch \in Seq(Range(got \o batch))
    BY <2>3, OverRange
  <2> QED
    BY <2>1, <2>2, <2>3, <2>4 DEF got
<1>12. last => /\ o + n >= mem[c].began \/ o + n = MaxOrders
               /\ o + n <= l /\ o + n <= MaxOrders
  <2>1. last => n < PageSize \/ o + n >= mem[c].total \/ o + n >= MaxOrders
    BY <1>11 DEF LastPage
  <2> HIDE DEF last, n
  <2> QED
    BY <1>2, <1>3, <1>5, <1>7, <2>1
<1>13. ~last => n = PageSize /\ o + n < MaxOrders
  <2>1. ~last => ~(n < PageSize) /\ ~(o + n >= MaxOrders)
    BY <1>11 DEF LastPage
  <2> HIDE DEF last, n
  <2> QED
    BY <1>2, <1>5, <1>7, <2>1
<1>14. CASE (\E i \in DOMAIN page : ~Converts(orders[page[i]])) /\ Panic(c) /\ UNCHANGED reports
  <2>1. \A i : Reads(c, i)
    BY <1>0 DEF Reads
  <2>2. Reason(c)
    BY <1>t, <1>9, <1>14, <2>1, ReadsUnreadable
  <2> QED
    BY <1>e, <1>14, <2>2 DEF ReportCountsAll
<1>15. CASE last /\ reports' = reports \cup {rep} /\ Reply(c, 200)
  <2>1. rep.result.totalOrders = o + n /\ rep.began = mem[c].began /\ rep.ended = l
    BY <1>11 DEF Report
  <2> HIDE DEF rep, last
  <2>2. /\ rep.result.totalOrders >= rep.began \/ rep.result.totalOrders = MaxOrders
        /\ rep.result.totalOrders <= rep.ended /\ rep.result.totalOrders <= MaxOrders
    BY <1>12, <1>15, <2>1
  <2> QED
    BY <1>e, <1>15, <2>2 DEF ReportCountsAll
<1>16. CASE ~last /\ GoOn(c, "count", next) /\ UNCHANGED reports
  <2>1. /\ DOMAIN next = {"page", "collected", "total", "began"}
        /\ next.page = mem[c].page + 1 /\ next.began = mem[c].began /\ next.collected = collected
    BY <1>3
  <2>2. next.page \in Nat \ {0} /\ next.page - 1 = mem[c].page
    BY <1>3, <2>1
  <2> HIDE DEF next, collected, last, n
  <2>3. /\ (next.page - 1) * PageSize = o + n /\ o + n <= l /\ o + n < MaxOrders
    BY <1>6, <1>7, <1>13, <1>16, <2>2
  <2>4. Collecting("count", next, l)
    BY <1>3, <1>11, <2>1, <2>2, <2>3 DEF Collecting
  <2>5. Holds(c, "count", next, orders)
    BY <2>4 DEF Holds, l
  <2> QED
    BY <1>e, <1>16, <2>5 DEF ReportCountsAll
<1> QED
  BY <1>10, <1>14, <1>15, <1>16

\* Every step of the order handlers.
LEMMA OrderSteps ==
  ASSUME CallsInv, GaugeInv, ProductInv, PricesInv, OrdersInv, NEW c \in Calls, OrderStep(c)
  PROVE  InOrders(c) /\ (ReportCountsAll => ReportCountsAll')
<1>1. InOrders(c)
  BY PlaceReads, PlaceWrites, OrderReadsAndWrites, CountStep, FindStep DEF OrderStep
<1>2. CASE ReportFind(c)
  BY <1>1, <1>2, FindStep
<1>3. CASE ~ReportFind(c)
  <2>1. UNCHANGED reports
    BY <1>3 DEF OrderStep, PlaceLookup, PlaceLine, PlaceSubmit, PlaceReserve, PlaceSettle, Publish,
                GetOrder, ListOrders, CancelCheck, CancelLoad, CancelWrite, UpdateStatusRead,
                UpdateStatusWrite, ReportCount, orderVars
  <2> QED
    BY <1>1, <2>1 DEF ReportCountsAll
<1> QED
  BY <1>2, <1>3

-----------------------------------------------------------------------------
(* The steps of the system, by what they do to requests and orders.         *)

\* A step is one of an order handler, another one of a request, an arrival,
\* or none of a request; a bus that is closed stays closed.
LEMMA StepKinds ==
  ASSUME CallsInv, GaugeInv, ProductInv, PricesInv, OrdersInv, [Next]_vars
  PROVE  \/ \E c \in Calls : InOrders(c) /\ (ReportCountsAll => ReportCountsAll')
         \/ \E c \in Calls : Apart(c) /\ UNCHANGED orderVars
         \/ \E c \in Calls : Arrive(c) /\ UNCHANGED orderVars
         \/ /\ UNCHANGED <<call, pc, mem, reply, inFlight, claims, orders, reports>>
            /\ server = "bus" => server' = "bus"
<1>1. ASSUME NEW c \in Calls, HttpStep(c), UNCHANGED <<users, catalogueVars, orderVars>>
      PROVE  (Apart(c) \/ Arrive(c)) /\ UNCHANGED orderVars
  BY <1>1, HttpApart
<1>2. ASSUME NEW c \in Calls, AccountStep(c) \/ CatalogueStep(c), UNCHANGED orderVars
      PROVE  Apart(c) /\ UNCHANGED orderVars
  BY <1>2, CommandsApart
<1>3. ASSUME NEW c \in Calls, DbFails(c) PROVE Apart(c) /\ UNCHANGED orderVars
  BY <1>3, CommandsApart DEF DbFails
<1>4. ASSUME NEW c \in Calls, OrderStep(c) PROVE InOrders(c) /\ (ReportCountsAll => ReportCountsAll')
  BY <1>4, OrderSteps
<1>5. CASE SeedStep /\ UNCHANGED orderVars
  BY <1>5 DEF SeedStep, httpVars, orderVars
<1>6. CASE (limited /\ Tick /\ UNCHANGED <<httpVars, users, catalogueVars, orderVars>>) \/ UNCHANGED vars
  BY <1>6 DEF vars, httpVars, orderVars
<1>7. CASE StopStep
  BY <1>7 DEF StopStep, httpVars
<1> QED
  BY <1>1, <1>2, <1>3, <1>4, <1>5, <1>6, <1>7 DEF Next

\* What made a request panic is there for ever: orders stay, with their key,
\* their customer and their true total, and a closed bus is not opened again.
LEMMA ReasonStays ==
  ASSUME NEW c \in Calls, Reason(c), UNCHANGED call, claims'[c] = claims[c], Later(orders, orders'),
         server = "bus" => server' = "bus"
  PROVE  Reason(c)'
<1>1. CASE server = "bus" /\ call[c].op \in {"place", "cancel"}
  BY <1>1 DEF Reason
<1>2. CASE \E i \in DOMAIN orders : orders[i].exact > MaxInt /\ Reads(c, i)
  <2>1. PICK i \in DOMAIN orders : orders[i].exact > MaxInt /\ Reads(c, i)
    BY <1>2
  <2>2. /\ i \in DOMAIN orders' /\ orders'[i].exact = orders[i].exact
        /\ orders'[i].user = orders[i].user /\ orders'[i].key = orders[i].key
    BY DEF Later, Same
  <2>3. Reads(c, i)'
    BY <2>1, <2>2 DEF Reads, KeyOf
  <2> QED
    BY <2>1, <2>2, <2>3 DEF Reason
<1> QED
  BY <1>1, <1>2 DEF Reason

\* Orders are never lost, requests hold what is true of them, and what a
\* request panicked on is still there.
LEMMA OrdersInvStep ==
  ASSUME CallsInv, GaugeInv, ProductInv, PricesInv, OrdersInv, [Next]_vars
  PROVE  OrdersInv' /\ (PanicsExplained => PanicsExplained')
<1>p. /\ PanicsExplained <=> \A d \in Calls : pc[d] = "panicked" => Reason(d)
      /\ PanicsExplained' <=> \A d \in Calls : pc'[d] = "panicked" => Reason(d)'
  BY DEF PanicsExplained, Reason
<1>0. /\ TableOK(orders) /\ \A d \in DOMAIN call : Holds(d, pc[d], mem[d], orders)
      /\ DOMAIN call \subseteq Calls
  BY DEF OrdersInv, CallsInv
<1>s. TableOK(orders) /\ Later(orders, orders)
  BY <1>0 DEF Later, Same
<1>1. ASSUME UNCHANGED call, TableOK(orders'), \A d \in DOMAIN call : Holds(d, pc'[d], mem'[d], orders')
      PROVE  OrdersInv'
  BY <1>1 DEF OrdersInv, Holds, BindsOrder
<1>2. ASSUME NEW c \in Calls, UNCHANGED call, server = "bus" => server' = "bus",
             \A d \in Calls \ {c} : pc'[d] = pc[d] /\ mem'[d] = mem[d] /\ claims'[d] = claims[d],
             TableOK(orders'), Later(orders, orders'), Holds(c, pc'[c], mem'[c], orders'),
             pc'[c] = "panicked" => Reason(c) /\ claims'[c] = claims[c]
      PROVE  OrdersInv' /\ (PanicsExplained => PanicsExplained')
  <2>1. \A d \in DOMAIN call : Holds(d, pc'[d], mem'[d], orders')
    <3> SUFFICES ASSUME NEW d \in DOMAIN call PROVE Holds(d, pc'[d], mem'[d], orders')
      OBVIOUS
    <3>1. CASE d = c
      BY <1>2, <3>1
    <3>2. CASE d # c
      <4>1. Holds(d, pc[d], mem[d], orders')
        BY <1>0, <1>2, HoldsLater
      <4>2. pc'[d] = pc[d] /\ mem'[d] = mem[d]
        BY <1>0, <1>2, <3>2
      <4> QED
        BY <4>1, <4>2
    <3> QED
      BY <3>1, <3>2
  <2>2. ASSUME PanicsExplained, NEW d \in Calls, pc'[d] = "panicked" PROVE Reason(d)'
    <3>1. Reason(d) /\ claims'[d] = claims[d]
      <4>1. CASE d = c
        BY <1>2, <2>2, <4>1
      <4>2. CASE d # c
        BY <1>p, <1>2, <2>2, <4>2
      <4> QED
        BY <4>1, <4>2
    <3> QED
      BY <1>2, <3>1, ReasonStays
  <2>3. OrdersInv'
    BY <1>1, <1>2, <2>1
  <2> QED
    BY <1>p, <2>2, <2>3
<1>3. ASSUME NEW c \in Calls, InOrders(c) PROVE OrdersInv' /\ (PanicsExplained => PanicsExplained')
  <2>1. /\ UNCHANGED call /\ UNCHANGED server
        /\ \A d \in Calls \ {c} : pc'[d] = pc[d] /\ mem'[d] = mem[d] /\ claims'[d] = claims[d]
    BY <1>3 DEF InOrders, Others
  <2>2. TableOK(orders') /\ Later(orders, orders') /\ Holds(c, pc'[c], mem'[c], orders')
    BY <1>3 DEF InOrders
  <2>3. pc'[c] = "panicked" => Reason(c) /\ claims'[c] = claims[c]
    BY <1>3 DEF InOrders, Ends, Goes, Breaks
  <2> QED
    BY <1>2, <2>1, <2>2, <2>3
<1>4. ASSUME NEW c \in Calls, Apart(c) \/ Arrive(c), UNCHANGED orderVars
      PROVE  OrdersInv' /\ (PanicsExplained => PanicsExplained')
  <2>1. /\ UNCHANGED call
        /\ \A d \in Calls \ {c} : pc'[d] = pc[d] /\ mem'[d] = mem[d] /\ claims'[d] = claims[d]
        /\ \/ pc'[c] \in {"limit", "mutex", "auth", "handler", "save", "apply", "done"}
           \/ pc'[c] = "publish" /\ mem'[c] \in Answers
    BY <1>4 DEF Apart, Others, Ends, Arrive, CallsInv, GaugeInv
  <2>2. orders' = orders /\ server' = server
    BY <1>4 DEF orderVars
  <2>3. Holds(c, pc'[c], mem'[c], orders) /\ pc'[c] # "panicked"
    BY <2>1 DEF Holds
  <2> QED
    BY <1>2, <1>s, <2>1, <2>2, <2>3
<1>5. CASE /\ UNCHANGED <<call, pc, mem, reply, inFlight, claims, orders, reports>>
           /\ server = "bus" => server' = "bus"
  <2>1. OrdersInv'
    BY <1>0, <1>1, <1>5
  <2>2. ASSUME PanicsExplained, NEW d \in Calls, pc'[d] = "panicked" PROVE Reason(d)'
    BY <1>p, <1>s, <1>5, <2>2, ReasonStays
  <2> QED
    BY <1>p, <2>1, <2>2
<1> QED
  BY <1>3, <1>4, <1>5, StepKinds

\* Only a report that ends adds to the reports.
LEMMA ReportsStep ==
  ASSUME CallsInv, GaugeInv, ProductInv, PricesInv, OrdersInv, ReportCountsAll, [Next]_vars
  PROVE  ReportCountsAll'
<1>1. UNCHANGED reports => ReportCountsAll'
  BY DEF ReportCountsAll
<1> QED
  BY <1>1, StepKinds DEF orderVars

\* The gauge: it goes up with an arrival and down with an answer.
LEMMA GaugeInvStep ==
  ASSUME CallsInv, GaugeInv, ProductInv, PricesInv, OrdersInv, [Next]_vars
  PROVE  GaugeInv'
<1>0. /\ IsFiniteSet(UnderWay) /\ inFlight = Cardinality(UnderWay) /\ DOMAIN reply = Calls
      /\ DOMAIN pc = Calls /\ DOMAIN claims = Calls /\ \A d \in Calls : reply[d] \in Answers \cup {0}
  BY WorkloadAssumption, FS_Subset DEF UnderWay, GaugeInv, CallsInv
<1>a. ASSUME inFlight' = Cardinality(UnderWay'), DOMAIN reply' = Calls, DOMAIN claims' = Calls,
             \A d \in Calls : reply'[d] \in Answers \cup {0}
      PROVE  GaugeInv'
  BY <1>a DEF GaugeInv, Answers
<1>1. ASSUME NEW c \in Calls, c \in DOMAIN call, pc[c] \notin {"idle", "done"}, Others(c), Ends(c)
      PROVE  GaugeInv'
  <2>1. c \in UnderWay /\ UnderWay' = UnderWay \ {c}
    BY <1>1 DEF UnderWay, Others, Ends
  <2>2. Cardinality(UnderWay') = Cardinality(UnderWay) - 1
    BY <1>0, <2>1, FS_RemoveElement
  <2>3. /\ DOMAIN reply' = Calls /\ DOMAIN claims' = Calls
        /\ \A d \in Calls : reply'[d] \in Answers \cup {0}
    BY <1>0, <1>1 DEF Others, Ends
  <2> QED
    BY <1>0, <1>1, <1>a, <2>2, <2>3 DEF Ends
<1>2. ASSUME NEW c \in Calls, pc[c] \notin {"idle", "done"}, Others(c), Goes(c) \/ Breaks(c)
      PROVE  GaugeInv'
  <2>1. UnderWay' = UnderWay
    BY <1>2 DEF UnderWay, Others, Goes, Breaks
  <2>2. /\ DOMAIN reply' = Calls /\ DOMAIN claims' = Calls
        /\ \A d \in Calls : reply'[d] \in Answers \cup {0}
    BY <1>0, <1>2 DEF Others, Goes, Breaks
  <2>3. inFlight' = inFlight
    BY <1>2 DEF Goes, Breaks
  <2> QED
    BY <1>0, <1>a, <2>1, <2>2, <2>3
<1>3. ASSUME NEW c \in Calls, Arrive(c) PROVE GaugeInv'
  <2>1. c \notin UnderWay /\ UnderWay' = UnderWay \cup {c}
    BY <1>0, <1>3 DEF UnderWay, Arrive
  <2>2. Cardinality(UnderWay') = Cardinality(UnderWay) + 1
    BY <1>0, <2>1, FS_AddElement
  <2> QED
    BY <1>0, <1>3, <1>a, <2>2 DEF Arrive
<1>4. CASE UNCHANGED <<call, pc, mem, reply, inFlight, claims, orders, reports>>
  BY <1>0, <1>4, <1>a DEF UnderWay
<1> QED
  BY <1>1, <1>2, <1>3, <1>4, StepKinds DEF InOrders, Apart

-----------------------------------------------------------------------------
(* Prices and stock.                                                        *)

\* The copies that updates hold, when the others stay where they are.
LEMMA PricesStay ==
  ASSUME CallsInv, PricesInv, NEW c \in Calls, Moved(c),
         \A p \in DOMAIN products' : ValidMoney(products'[p].price, products'[p].currency)
  PROVE  PricesInv'
<1>1. \A d \in DOMAIN call : pc'[d] = "apply" => pc[d] = "apply" /\ mem'[d] = mem[d]
  BY DEF Moved, Points, CallsInv
<1>2. UNCHANGED call
  BY DEF Moved
<1> QED
  BY <1>1, <1>2 DEF PricesInv, Applies, Updated, Columns, ValidMoney

\* No product has a price that cannot be read back: the binding and NewMoney
\* see to it when a product is created or its price set, a currency is only
\* written together with a price, and a column written back was read.
LEMMA PricesInvStep ==
  ASSUME CallsInv, SeedInv, ProductInv, PricesInv, [Next]_vars
  PROVE  PricesInv'
<1>0. \A p \in DOMAIN products : ValidMoney(products[p].price, products[p].currency)
  BY DEF PricesInv
<1>1. ASSUME NEW c \in Calls, Moved(c), UNCHANGED products PROVE PricesInv'
  BY <1>0, <1>1, PricesStay
<1>a. ASSUME UNCHANGED <<products, call>>,
             \A d \in DOMAIN call : pc'[d] = "apply" =>
               ValidMoney(mem'[d].row.price, mem'[d].row.currency) /\ Applies(mem'[d].row, call[d].set)
      PROVE  PricesInv'
  BY <1>0, <1>a DEF PricesInv, Applies, Updated, Columns, ValidMoney
<1>2. ASSUME NEW r, ValidMoney(r.price, r.currency), products' = Append(products, r)
      PROVE  \A p \in DOMAIN products' : ValidMoney(products'[p].price, products'[p].currency)
  <2>1. products \in Seq(ProductRows)
    BY DEF ProductInv
  <2>2. /\ DOMAIN products = 1 .. Len(products) /\ Len(products) \in Nat
        /\ DOMAIN products' = 1 .. Len(products) + 1
        /\ \A p \in 1 .. Len(products) : products'[p] = products[p]
        /\ products'[Len(products) + 1] = r
    BY <1>2, <2>1
  <2>3. \A p \in DOMAIN products' : p \in DOMAIN products \/ p = Len(products) + 1
    BY <2>2
  <2> QED
    BY <1>0, <1>2, <2>2, <2>3
<1>3. ASSUME NEW c \in Calls, Frame(c) PROVE PricesInv'
  BY <1>1, <1>3 DEF Frame
<1>4. ASSUME NEW c \in Calls, Register(c) \/ Login(c) \/ UpdateUserSave(c), UNCHANGED catalogueVars
      PROVE  PricesInv'
  BY <1>1, <1>4, CommandMoves DEF catalogueVars
<1>5. ASSUME NEW c \in Calls, UpdateUserRead(c), UNCHANGED catalogueVars PROVE PricesInv'
  <2>1. UNCHANGED <<products, call>>
    BY <1>5 DEF UpdateUserRead, catalogueVars
  <2>2. CASE \E m : GoOn(c, "save", m)
    <3>1. \A d \in DOMAIN call : pc'[d] = "apply" => pc[d] = "apply" /\ mem'[d] = mem[d]
      BY <2>2 DEF GoOn, CallsInv
    <3> QED
      BY <1>a, <2>1, <3>1 DEF PricesInv
  <2> QED
    BY <1>1, <1>5, <2>1, <2>2, CommandMoves
<1>6. ASSUME NEW c \in Calls, CreateProduct(c) PROVE PricesInv'
  <2>1. Moved(c)
    BY <1>6, CommandMoves
  <2>2. CASE UNCHANGED products
    BY <1>1, <2>1, <2>2
  <2>3. CASE Accepts(call[c]) /\ products' = Append(products, ProductRow(call[c]))
    <3>1. ValidMoney(ProductRow(call[c]).price, ProductRow(call[c]).currency)
      BY <2>3 DEF Accepts, ProductRow
    <3> QED
      BY <1>2, <2>1, <2>3, <3>1, PricesStay
  <2> QED
    BY <1>6, <2>2, <2>3 DEF CreateProduct, CreateProductTx
<1>7. ASSUME NEW c \in Calls, UpdateProductRead(c) PROVE PricesInv'
  <2>1. UNCHANGED <<products, call>> /\ c \in DOMAIN call
    BY <1>7 DEF UpdateProductRead, At, catalogueVars
  <2>2. CASE Moved(c)
    BY <1>1, <2>1, <2>2
  <2>3. CASE /\ FindProduct(call[c].id) = "" /\ Applies(products[call[c].id], call[c].set)
             /\ GoOn(c, "apply", [row |-> products[call[c].id], readAt |-> Len(commits)])
    <3> DEFINE m == [row |-> products[call[c].id], readAt |-> Len(commits)]
    <3>1. ValidMoney(m.row.price, m.row.currency) /\ Applies(m.row, call[c].set)
      BY <2>3, Lookups
    <3>2. mem' = [mem EXCEPT ![c] = m] /\ pc' = [pc EXCEPT ![c] = "apply"]
      BY <2>3 DEF GoOn
    <3> HIDE DEF m
    <3>3. ASSUME NEW d \in DOMAIN call, pc'[d] = "apply"
          PROVE  ValidMoney(mem'[d].row.price, mem'[d].row.currency) /\ Applies(mem'[d].row, call[d].set)
      <4>1. d \in DOMAIN pc /\ d \in DOMAIN mem
        BY DEF CallsInv
      <4>2. CASE d = c
        BY <3>1, <3>2, <4>1, <4>2
      <4>3. CASE d # c
        <5>1. pc[d] = "apply" /\ mem'[d] = mem[d]
          BY <3>2, <3>3, <4>1, <4>3
        <5> QED
          BY <5>1 DEF PricesInv
      <4> QED
        BY <4>2, <4>3
    <3> QED
      BY <1>a, <2>1, <3>3
  <2> QED
    BY <1>7, <2>2, <2>3, CommandMoves
<1>8. ASSUME NEW c \in Calls, UpdateProductSave(c) PROVE PricesInv'
  <2> DEFINE id == call[c].id
             row == mem[c].row
             set == call[c].set
             new == Updated(row, set)
  <2>1. /\ Moved(c) /\ c \in DOMAIN call /\ pc[c] = "apply" /\ call[c].op = "updateProduct"
        /\ products' = [products EXCEPT ![id] = new]
    BY <1>8, CommandMoves DEF UpdateProductSave, At
  <2>2. /\ id \in DOMAIN products /\ row \in ProductRows /\ ValidMoney(row.price, row.currency)
        /\ Applies(row, set)
    BY <2>1 DEF ProductInv, PricesInv
  <2>3. DOMAIN row = {"sku", "name", "price", "currency", "active"}
    BY <2>2 DEF ProductRows
  <2>4. /\ new.price = IF "price" \in Columns(set) THEN set.price ELSE row.price
        /\ "currency" \notin Columns(set) => new.currency = row.currency
    BY <2>3 DEF Updated
  <2>5. /\ "price" \in Columns(set) <=> "price" \in DOMAIN set
        /\ "currency" \in Columns(set) => "price" \in DOMAIN set
    BY DEF Columns
  <2>6. ValidMoney(new.price, new.currency)
    <3>1. CASE "price" \in DOMAIN set
      BY <2>2, <2>4, <2>5, <3>1 DEF Applies
    <3>2. CASE "price" \notin DOMAIN set
      BY <2>2, <2>4, <2>5, <3>2
    <3> QED
      BY <3>1, <3>2
  <2> HIDE DEF new, id
  <2>7. \A p \in DOMAIN products' : products'[p] = new \/ (p \in DOMAIN products /\ products'[p] = products[p])
    BY <2>1, <2>2
  <2> QED
    BY <1>0, <2>1, <2>6, <2>7, PricesStay
<1>9. ASSUME SeedStep PROVE PricesInv'
  <2>1. UNCHANGED <<call, pc, mem>>
    BY <1>9 DEF SeedStep, httpVars
  <2>2. (\A p \in DOMAIN products' : ValidMoney(products'[p].price, products'[p].currency)) => PricesInv'
    BY <2>1 DEF PricesInv, Applies, Updated, Columns, ValidMoney
  <2>3. CASE UNCHANGED products
    BY <1>0, <2>2, <2>3
  <2>4. CASE SeedInsertProduct /\ products' = Append(products, ProductRow(SeedProducts[seed.entry]))
    <3>1. seed.entry \in DOMAIN SeedProducts
      BY <2>4, WorkloadAssumption DEF SeedInsertProduct, SeedInv
    <3>2. SeedProducts[seed.entry] \in Range(SeedProducts)
      BY <3>1 DEF Range
    <3>3. ValidMoney(ProductRow(SeedProducts[seed.entry]).price, ProductRow(SeedProducts[seed.entry]).currency)
      <4>1. SeedProducts[seed.entry].price \in Nat /\ SeedProducts[seed.entry].currency \in Currencies
        BY <3>2, WorkloadAssumption
      <4> QED
        BY <4>1 DEF ProductRow, ValidMoney
    <3> QED
      BY <1>2, <2>2, <2>4, <3>3
  <2> QED
    BY <1>9, <2>3, <2>4 DEF SeedStep, SeedStart, SeedCountUser, SeedInsertUser, SeedCountProduct,
                SeedInsertProduct, SeedInsertInventory, SeedInterrupted
<1>10. ASSUME UNCHANGED <<httpVars, users, catalogueVars>> PROVE PricesInv'
  <2>1. UNCHANGED <<call, pc, mem, products>>
    BY <1>10 DEF httpVars, catalogueVars
  <2> QED
    BY <1>a, <2>1 DEF PricesInv
<1> QED
  BY <1>3, <1>4, <1>5, <1>6, <1>7, <1>8, <1>9, <1>10, NextKinds

\* A row with two numbers in its columns is one.
LEMMA RowWith ==
  ASSUME NEW r \in InventoryRows, NEW a \in Nat, NEW b \in Nat
  PROVE  /\ [r EXCEPT !.available = a, !.reserved = b] \in InventoryRows
         /\ [r EXCEPT !.reserved = b] \in InventoryRows
         /\ r.available \in Nat /\ r.reserved \in Nat
BY DEF InventoryRows

\* Taking k units from a row that has them.
LEMMA TakeUnits ==
  ASSUME NEW r \in InventoryRows, NEW k \in Nat
  PROVE  /\ k = 0 \/ r.available >= k =>
              [r EXCEPT !.available = @ - k, !.reserved = @ + k] \in InventoryRows
         /\ k = 0 \/ r.reserved >= k =>
              /\ [r EXCEPT !.available = @ + k, !.reserved = @ - k] \in InventoryRows
              /\ [r EXCEPT !.reserved = @ - k] \in InventoryRows
<1>1. r.available \in Nat /\ r.reserved \in Nat
  BY DEF InventoryRows
<1>2. \A a \in Nat : a + k \in Nat /\ (k = 0 \/ a >= k => a - k \in Nat)
  OBVIOUS
<1>3. ASSUME k = 0 \/ r.available >= k
      PROVE  [r EXCEPT !.available = @ - k, !.reserved = @ + k] \in InventoryRows
  <2> DEFINE a == r.available - k
             b == r.reserved + k
  <2>1. a \in Nat /\ b \in Nat
    BY <1>1, <1>2, <1>3
  <2> HIDE DEF a, b
  <2>2. [r EXCEPT !.available = a, !.reserved = b] \in InventoryRows
    BY <2>1, RowWith
  <2> QED
    BY <2>2 DEF a, b
<1>4. ASSUME k = 0 \/ r.reserved >= k
      PROVE  /\ [r EXCEPT !.available = @ + k, !.reserved = @ - k] \in InventoryRows
             /\ [r EXCEPT !.reserved = @ - k] \in InventoryRows
  <2> DEFINE a == r.available + k
             b == r.reserved - k
  <2>1. a \in Nat /\ b \in Nat
    BY <1>1, <1>2, <1>4
  <2> HIDE DEF a, b
  <2>2. /\ [r EXCEPT !.available = a, !.reserved = b] \in InventoryRows
        /\ [r EXCEPT !.reserved = b] \in InventoryRows
    BY <2>1, RowWith
  <2> QED
    BY <2>2 DEF a, b
<1> QED
  BY <1>3, <1>4

\* Units move between the columns of a row, and there are enough of them.
LEMMA StockMoves ==
  ASSUME StockInv, NEW items \in Seq(Items)
  PROVE  /\ CanReserve(items) /\ Reserve(items) => StockInv'
         /\ CanRelease(items) /\ Release(items) => StockInv'
         /\ CanRelease(items) /\ Commit(items) => StockInv'
<1> DEFINE u(p) == Units(items, p)
<1>1. \A p : u(p) \in Nat /\ ((\A i \in DOMAIN items : items[i].product # p) => u(p) = 0)
  BY UnitsAre
<1>2. CanReserve(items) => \A p \in DOMAIN inventory : u(p) = 0 \/ inventory[p].available >= u(p)
  BY <1>1 DEF CanReserve
<1>3. CanRelease(items) => \A p \in DOMAIN inventory : u(p) = 0 \/ inventory[p].reserved >= u(p)
  BY <1>1 DEF CanRelease
<1>4. /\ Reserve(items) => inventory' = [p \in DOMAIN inventory |->
            [inventory[p] EXCEPT !.available = @ - u(p), !.reserved = @ + u(p)]]
      /\ Release(items) => inventory' = [p \in DOMAIN inventory |->
            [inventory[p] EXCEPT !.available = @ + u(p), !.reserved = @ - u(p)]]
      /\ Commit(items) => inventory' = [p \in DOMAIN inventory |-> [inventory[p] EXCEPT !.reserved = @ - u(p)]]
  BY DEF Reserve, Release, Commit
<1> HIDE DEF u
<1>5. ASSUME DOMAIN inventory' = DOMAIN inventory, \A p \in DOMAIN inventory : inventory'[p] \in InventoryRows
      PROVE  StockInv'
  BY <1>5 DEF StockInv
<1>6. \A p \in DOMAIN inventory : inventory[p] \in InventoryRows
  BY DEF StockInv
<1>7. ASSUME NEW p \in DOMAIN inventory
      PROVE  /\ CanReserve(items) =>
                  [inventory[p] EXCEPT !.available = @ - u(p), !.reserved = @ + u(p)] \in InventoryRows
             /\ CanRelease(items) =>
                  /\ [inventory[p] EXCEPT !.available = @ + u(p), !.reserved = @ - u(p)] \in InventoryRows
                  /\ [inventory[p] EXCEPT !.reserved = @ - u(p)] \in InventoryRows
  <2> DEFINE r == inventory[p]
             k == u(p)
  <2>1. r \in InventoryRows /\ k \in Nat
    BY <1>1, <1>6
  <2>2. (CanReserve(items) => k = 0 \/ r.available >= k) /\ (CanRelease(items) => k = 0 \/ r.reserved >= k)
    BY <1>2, <1>3
  <2> HIDE DEF r, k
  <2>3. /\ CanReserve(items) => [r EXCEPT !.available = @ - k, !.reserved = @ + k] \in InventoryRows
        /\ CanRelease(items) =>
             /\ [r EXCEPT !.available = @ + k, !.reserved = @ - k] \in InventoryRows
             /\ [r EXCEPT !.reserved = @ - k] \in InventoryRows
    BY <2>1, <2>2, TakeUnits
  <2> QED
    BY <2>3 DEF r, k
<1>8. CanReserve(items) /\ Reserve(items) => StockInv'
  BY <1>4, <1>5, <1>7
<1>9. CanRelease(items) /\ Release(items) => StockInv'
  BY <1>4, <1>5, <1>7
<1>10. CanRelease(items) /\ Commit(items) => StockInv'
  BY <1>4, <1>5, <1>7
<1> QED
  BY <1>8, <1>9, <1>10

\* Stock is never negative: every command takes no more units than it found.
LEMMA StockInvStep ==
  ASSUME CallsInv, SeedInv, OrdersInv, StockInv, [Next]_vars
  PROVE  StockInv'
<1>1. CASE UNCHANGED inventory
  BY <1>1 DEF StockInv
<1>2. ASSUME NEW p, NEW row \in InventoryRows, SaveInventory(p, row) PROVE StockInv'
  BY <1>2 DEF SaveInventory, StockInv
<1>3. ASSUME NEW c \in Calls, CreateProduct(c) PROVE StockInv'
  <2>1. CASE UNCHANGED inventory
    BY <1>1, <2>1
  <2>2. CASE Accepts(call[c]) /\ CreateProductTx(c)
    <3> DEFINE row == NewInventory(call[c].stock, call[c].reorder)
    <3>1. call[c].stock \in Int /\ call[c].reorder \in Int
      BY <1>3 DEF CreateProduct, At, CallsInv, Sends
    <3>2. call[c].stock \in Nat
      <4>1. call[c].stock >= 0
        BY <2>2 DEF Accepts, BindsProduct
      <4>2. \A x \in Int : x >= 0 => x \in Nat
        OBVIOUS
      <4> QED
        BY <3>1, <4>1, <4>2, Zenon
    <3>3. row \in InventoryRows
      BY <3>1, <3>2 DEF NewInventory, InventoryRows
    <3> HIDE DEF row
    <3>4. SaveInventory(Len(products) + 1, row)
      BY <2>2 DEF CreateProductTx, row
    <3> QED
      BY <1>2, <3>3, <3>4
  <2> QED
    BY <1>3, <2>1, <2>2 DEF CreateProduct
<1>4. ASSUME NEW c \in Calls, CatalogueStep(c), ~CreateProduct(c) PROVE UNCHANGED inventory
  BY <1>4 DEF CatalogueStep, UpdateProductRead, UpdateProductSave, GetProduct, ListProducts, GetInventory,
              GetLowStock, catalogueVars
<1>5. ASSUME NEW c \in Calls, PlaceReserve(c) PROVE StockInv'
  <2>1. mem[c] \in Seq(Items)
    BY <1>5 DEF PlaceReserve, At, OrdersInv, Holds
  <2>2. UNCHANGED inventory \/ (CanReserve(mem[c]) /\ Reserve(mem[c]))
    BY <1>5 DEF PlaceReserve
  <2> QED
    BY <1>1, <2>1, <2>2, StockMoves
<1>6. \A i \in DOMAIN orders : orders[i].items \in Seq(Items)
  BY DEF OrdersInv, TableOK, IsOrder
<1>7. ASSUME NEW c \in Calls, PlaceSettle(c) PROVE StockInv'
  <2> DEFINE items == orders[mem[c]].items
  <2>1. items \in Seq(Items)
    <3>1. mem[c] \in DOMAIN orders
      BY <1>7 DEF PlaceSettle, At, OrdersInv, Holds
    <3> QED
      BY <1>6, <3>1
  <2>2. \/ UNCHANGED inventory
        \/ CanRelease(items) /\ (Commit(items) \/ Release(items))
    BY <1>7 DEF PlaceSettle
  <2> HIDE DEF items
  <2> QED
    BY <1>1, <2>1, <2>2, StockMoves
<1>8. ASSUME NEW c \in Calls, CancelWrite(c) PROVE StockInv'
  <2> DEFINE items == orders[call[c].id].items
  <2>1. items \in Seq(Items)
    <3>1. call[c].id \in DOMAIN orders
      BY <1>8 DEF CancelWrite, At, OrdersInv, Holds
    <3> QED
      BY <1>6, <3>1
  <2>2. UNCHANGED inventory \/ (CanRelease(items) /\ Release(items))
    BY <1>8 DEF CancelWrite
  <2> HIDE DEF items
  <2> QED
    BY <1>1, <2>1, <2>2, StockMoves
<1>9. ASSUME NEW c \in Calls, OrderStep(c), ~PlaceReserve(c), ~PlaceSettle(c), ~CancelWrite(c)
      PROVE  UNCHANGED inventory
  BY <1>9 DEF OrderStep, PlaceLookup, PlaceLine, PlaceSubmit, Publish, GetOrder, ListOrders, CancelCheck,
              CancelLoad, UpdateStatusRead, UpdateStatusWrite, ReportCount, ReportFind, catalogueVars
<1>10. ASSUME SeedInsertInventory PROVE StockInv'
  <2>1. seed.entry \in DOMAIN SeedProducts
    BY <1>10, WorkloadAssumption DEF SeedInsertInventory, SeedInv
  <2>2. SeedProducts[seed.entry] \in Range(SeedProducts)
    BY <2>1 DEF Range
  <2>3. NewInventory(SeedProducts[seed.entry].stock, SeedProducts[seed.entry].reorder) \in InventoryRows
    BY <2>2, WorkloadAssumption
  <2> QED
    BY <1>2, <1>10, <2>3 DEF SeedInsertInventory
<1>11. ASSUME SeedStep, ~SeedInsertInventory PROVE UNCHANGED inventory
  BY <1>11 DEF SeedStep, SeedStart, SeedCountUser, SeedInsertUser, SeedCountProduct, SeedInsertProduct,
               SeedInterrupted
<1>12. (\E c \in Calls : DbFails(c)) \/ StopStep => UNCHANGED inventory
  BY DEF DbFails, StopStep, catalogueVars
<1>13. UNCHANGED catalogueVars \/ UNCHANGED vars => UNCHANGED inventory
  BY DEF vars, catalogueVars
<1> QED
  BY <1>1, <1>3, <1>4, <1>5, <1>7, <1>8, <1>9, <1>10, <1>11, <1>12, <1>13 DEF Next

-----------------------------------------------------------------------------
(* Orders, stock and reports: the theorems.                                 *)

\* All of it together: no part is inductive without the others.  A handler
\* panics on a row only if its price or total cannot be read back, and the
\* gauge and the rows are right only as long as handlers do what they say.
SystemInv ==
  /\ CallsInv /\ SeedInv /\ ProductInv /\ PricesInv
  /\ GaugeInv /\ OrdersInv /\ StockInv /\ ReportCountsAll /\ PanicsExplained

\* A workload starts from rows that this code wrote, with no request under way.
LEMMA SystemInvInit ==
  ASSUME Init
  PROVE  SystemInv
<1>1. CallsInv /\ SeedInv /\ ProductInv
  BY CallsInvInit, SeedInvInit, ProductInvInit
<1>2. PICK w \in Workloads :
        /\ call = w.call /\ products = w.products /\ inventory = w.inventory /\ orders = w.orders
        /\ reports = {} /\ HttpInit
  BY DEF Init
<1>3. /\ pc = [c \in Calls |-> "idle"] /\ reply = [c \in Calls |-> 0] /\ inFlight = 0
      /\ DOMAIN claims = Calls
  BY <1>2 DEF HttpInit
<1>4. \A c \in DOMAIN call : pc[c] = "idle"
  BY <1>1, <1>3 DEF CallsInv
<1>5. PricesInv
  BY <1>2, <1>4, WorkloadAssumption DEF PricesInv, ValidMoney
<1>6. GaugeInv
  <2>1. UnderWay = {}
    BY <1>3 DEF UnderWay
  <2>2. inFlight = Cardinality(UnderWay)
    BY <1>3, <2>1, FS_EmptySet
  <2> QED
    BY <1>3, <2>2 DEF GaugeInv
<1>7. OrdersInv
  <2>1. TableOK(orders)
    BY <1>2, WorkloadAssumption DEF TableOK
  <2>2. \A c \in DOMAIN call : Holds(c, pc[c], mem[c], orders)
    BY <1>4 DEF Holds
  <2> QED
    BY <2>1, <2>2 DEF OrdersInv
<1>8. StockInv
  BY <1>2, WorkloadAssumption DEF StockInv
<1>9. ReportCountsAll
  BY <1>2 DEF ReportCountsAll
<1>10. PanicsExplained
  BY <1>3 DEF PanicsExplained
<1> QED
  BY <1>1, <1>5, <1>6, <1>7, <1>8, <1>9, <1>10 DEF SystemInv

\* Every step keeps it.
LEMMA SystemInvStep ==
  ASSUME SystemInv, [Next]_vars
  PROVE  SystemInv'
<1>1. CallsInv' /\ SeedInv' /\ ProductInv'
  BY CallsInvStep, SeedInvStep, ProductInvStep DEF SystemInv
<1>2. PricesInv' /\ GaugeInv' /\ StockInv' /\ ReportCountsAll'
  BY PricesInvStep, GaugeInvStep, StockInvStep, ReportsStep DEF SystemInv
<1>3. OrdersInv' /\ PanicsExplained'
  BY OrdersInvStep DEF SystemInv
<1> QED
  BY <1>1, <1>2, <1>3 DEF SystemInv

\* The invariant holds of every behaviour.
LEMMA SystemInvAlways == Spec => []SystemInv
<1>1. Init => SystemInv
  BY SystemInvInit
<1>2. SystemInv /\ [Next]_vars => SystemInv'
  BY SystemInvStep
<1> QED
  BY <1>1, <1>2, PTL DEF Spec

\* Whatever requests arrive, stock is never negative (inventoryRepo.Reserve,
\* Release and Commit), the currency of every product and order is a code that
\* NewMoney takes, every order is in a status of the aggregate with a total
\* that fits its column, every answer is one the error mapping knows, and the
\* in-flight gauge stays within the number of requests.
THEOREM ApiTypes == Spec => []TypeOK
<1>1. SystemInv => TypeOK
  <2> SUFFICES ASSUME SystemInv PROVE TypeOK
    OBVIOUS
  <2>0. GaugeInv /\ OrdersInv /\ StockInv /\ PricesInv
    BY DEF SystemInv
  <2>1. inFlight \in 0 .. Cardinality(Calls)
    <3>1. IsFiniteSet(Calls) /\ UnderWay \subseteq Calls
      BY WorkloadAssumption DEF UnderWay
    <3>2. /\ IsFiniteSet(UnderWay) /\ Cardinality(UnderWay) <= Cardinality(Calls)
          /\ Cardinality(UnderWay) \in Nat /\ Cardinality(Calls) \in Nat
      BY <3>1, FS_Subset, FS_CardinalityType
    <3>3. inFlight = Cardinality(UnderWay)
      BY <2>0 DEF GaugeInv
    <3> QED
      BY <3>2, <3>3
  <2>2. \A c \in Calls : reply[c] \in {0, 200, 201, 429} \cup {StatusFor[k] : k \in DOMAIN StatusFor}
    BY <2>0 DEF GaugeInv, Answers
  <2>3. \A p \in DOMAIN inventory : inventory[p].available \in Nat /\ inventory[p].reserved \in Nat
    BY <2>0 DEF StockInv, InventoryRows
  <2>4. \A p \in DOMAIN products : products[p].currency \in Currencies
    BY <2>0 DEF PricesInv, ValidMoney
  <2>5. \A i \in DOMAIN orders :
          /\ orders[i].status \in Status /\ orders[i].currency \in Currencies
          /\ orders[i].total \in -MaxInt - 1 .. MaxInt
    BY <2>0 DEF OrdersInv, TableOK, IsOrder
  <2> QED
    BY <2>1, <2>2, <2>3, <2>4, <2>5 DEF TypeOK
<1> QED
  BY <1>1, SystemInvAlways, PTL

\* A handler panics for two reasons only: it publishes on the bus that App.Stop
\* has closed under it (inproc.Bus.Publish), or it reads an order whose true
\* total does not fit the amounts (MustMoney in orderToDomain).  No product, no
\* currency, no order that the request did not ask for and no interleaving of
\* requests makes one panic.
THEOREM PanicsAreExplained == Spec => []PanicsExplained
<1>1. SystemInv => PanicsExplained
  BY DEF SystemInv
<1> QED
  BY <1>1, SystemInvAlways, PTL

\* A daily report has as many orders as there were when it began, or the limit,
\* and no more than there are when it ends, for any page size that divides the
\* limit, whatever orders are placed between two of its pages and whichever
\* rows the pages hold (DailyReport.Handle's loop over ListAll).
THEOREM ReportsCountAllOrders == Spec => []ReportCountsAll
<1>1. SystemInv => ReportCountsAll
  BY DEF SystemInv
<1> QED
  BY <1>1, SystemInvAlways, PTL
=============================================================================
