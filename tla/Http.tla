-------------------------------- MODULE Http --------------------------------
(* The gin chain in front of every handler: metrics, rate limit, bearer     *)
(* token, administrator check, and recovery from a handler's panic.  A      *)
(* handler is an action, or several, of the modules that extend this one:   *)
(* it finds pc[c] at "handler" and ends in Reply or Panic.                  *)

EXTENDS Naturals, Sequences, FiniteSets, RateLimit

VARIABLES
  limited,   \* RateLimit.Enabled
  call,      \* call[c]: the request, from the client
  pc,        \* pc[c]: where its handler is
  claims,    \* claims[c]: what Auth put into the context
  mem,       \* mem[c]: what the handler has read so far
  reply,     \* reply[c]: the HTTP status, or 0
  inFlight,  \* the HTTPInFlight gauge
  tokens     \* claims of the tokens issued

httpVars == <<limited, call, pc, claims, mem, reply, inFlight, tokens>>

NoClaims == [sub |-> 0, role |-> ""]

\* The groups of the router.
Public == {"ping", "register", "login", "getProduct", "listProducts"}
AdminOnly == {"createProduct", "updateProduct", "listOrders", "updateStatus", "report", "lowStock"}

\* httpx.statusFor.
StatusFor ==
  [validation |-> 400, not_found |-> 404, conflict |-> 409, unauthorized |-> 401,
   forbidden |-> 403, out_of_stock |-> 409, payment_failed |-> 402, unavailable |-> 503,
   internal |-> 500]

-----------------------------------------------------------------------------
(* Ends of a handler.  They leave call, limited and tokens to the caller.   *)

\* The chain unwinds and Metrics decrements its gauge.
Reply(c, status) ==
  /\ pc' = [pc EXCEPT ![c] = "done"]
  /\ reply' = [reply EXCEPT ![c] = status]
  /\ mem' = [mem EXCEPT ![c] = <<>>]
  /\ inFlight' = inFlight - 1
  /\ UNCHANGED claims

Fail(c, kind) == Reply(c, StatusFor[kind])

\* A panic unwinds through Metrics, which does not decrement, to Recovery.
Panic(c) ==
  /\ pc' = [pc EXCEPT ![c] = "panicked"]
  /\ reply' = [reply EXCEPT ![c] = 500]
  /\ mem' = [mem EXCEPT ![c] = <<>>]
  /\ UNCHANGED <<inFlight, claims>>

\* A read that failed with an error of this kind, or panicked on the row.
Refuse(c, why) == IF why = "panic" THEN Panic(c) ELSE Fail(c, why)

\* The handler goes on to its next database statement.
GoOn(c, next, data) ==
  /\ pc' = [pc EXCEPT ![c] = next]
  /\ mem' = [mem EXCEPT ![c] = data]
  /\ UNCHANGED <<reply, inFlight, claims>>

\* The handler of one of these operations is at this point.
At(c, ops, point) == c \in DOMAIN call /\ pc[c] = point /\ call[c].op \in ops

-----------------------------------------------------------------------------

Arrive(c) ==
  /\ c \in DOMAIN call /\ pc[c] = "idle"
  /\ pc' = [pc EXCEPT ![c] = IF limited THEN "limit" ELSE "auth"]
  /\ inFlight' = inFlight + 1
  /\ UNCHANGED <<limited, call, claims, mem, reply, tokens, limitVars>>

Clock(c) ==
  /\ pc[c] = "limit"
  /\ ReadClock(c)
  /\ pc' = [pc EXCEPT ![c] = "mutex"]
  /\ UNCHANGED <<limited, call, claims, mem, reply, inFlight, tokens>>

Throttle(c) ==
  /\ pc[c] = "mutex"
  /\ Limit(c, call[c].ip)
  /\ IF Allowed(c, call[c].ip) THEN GoOn(c, "auth", <<>>) ELSE Reply(c, 429)
  /\ UNCHANGED <<limited, call, tokens>>

\* No token, a malformed or foreign one, or one that has expired.
Unauthorized(c) ==
  /\ pc[c] = "auth" /\ call[c].op \notin Public
  /\ Fail(c, "unauthorized")
  /\ UNCHANGED <<limited, call, tokens, limitVars>>

\* The claims of a valid token, or none for a public route, reach the handler.
Auth(c) ==
  /\ pc[c] = "auth"
  /\ \E t \in IF call[c].op \in Public THEN {NoClaims} ELSE {u \in tokens : u.sub = call[c].as} :
       IF call[c].op \in AdminOnly /\ t.role # "admin"
       THEN Fail(c, "forbidden")
       ELSE /\ pc' = [pc EXCEPT ![c] = "handler"]
            /\ claims' = [claims EXCEPT ![c] = t]
            /\ UNCHANGED <<mem, reply, inFlight>>
  /\ UNCHANGED <<limited, call, tokens, limitVars>>

\* GET /ping, behind the rate limit only.
Ping(c) ==
  /\ At(c, {"ping"}, "handler")
  /\ Reply(c, 200)
  /\ UNCHANGED <<limited, call, tokens, limitVars>>

HttpStep(c) == Arrive(c) \/ Clock(c) \/ Throttle(c) \/ Unauthorized(c) \/ Auth(c) \/ Ping(c)

HttpInit ==
  /\ pc = [c \in Calls |-> "idle"]
  /\ claims = [c \in Calls |-> NoClaims]
  /\ mem = [c \in Calls |-> <<>>]
  /\ reply = [c \in Calls |-> 0]
  /\ inFlight = 0
  /\ LimitInit
=============================================================================
