------------------------------- MODULE Gateway -------------------------------
(***************************************************************************)
(* One gateway process: the middleware and the /protect route in front of  *)
(* the circuit breaker (module CircuitBreaker), the in-memory cache of     *)
(* blocked users, and the quota function of the database                   *)
(* (middleware/gateway.py, routes/gatekeeper.py, services/cache.py and     *)
(* services/supabase_client.py of backend/app).                            *)
(*                                                                         *)
(* A handler runs from one await that really suspends to the next in one   *)
(* step: cache lookup and admission by the breaker; then, once the RPC is  *)
(* over, its outcome in the breaker, in the cache and in the reply.        *)
(*                                                                         *)
(* The positive entries of the cache, which only simulate-request reads,   *)
(* are left out.  Evict stands for set() at capacity (module QuotaCache).  *)
(***************************************************************************)
EXTENDS CircuitBreaker

CONSTANTS
    Users,
    NegativeTTL,   \* CACHE_NEGATIVE_TTL_SECONDS
    RpcTimeout     \* SUPABASE_RPC_TIMEOUT_SECONDS

ASSUME GatewayAssumption ==
    /\ NegativeTTL \in Nat \ {0} /\ RpcTimeout \in Nat \ {0}

VARIABLES
    settings,     \* DEMO_MODE and GATEWAY_FAIL_OPEN, read at start-up
    blocked,      \* what is left of the ttl of "blocked:{user}", 0 if none
    request,      \* the RPC a caller awaits
    standing,     \* would the database allow a request of this user now?
    reply,        \* the latest reply of the gateway
    bad,          \* time since the user was last out of standing
    down,         \* time since the database was last down
    streak        \* history: RPCs that failed since one was answered, as the
                  \* handlers see them; the count stops at the threshold

ages == <<bad, down>>
gatewayVars == <<vars, settings, blocked, request, standing, reply, ages, streak>>

\* The longest an old rejection can matter; the ages stop there.
Horizon == NegativeTTL + RecoveryTimeout + RpcTimeout + 1

NoRequest == [idle |-> TRUE]
NoReply == [none |-> TRUE]

\* verdict: what the database decided for this request, "pending" until then.
RequestType == [user : Users, verdict : {"pending", "allow", "deny"},
                age : 0..RpcTimeout]
ReplyType == [user : Users, paid : BOOLEAN,
              kind : {"forwarded", "degraded", "blocked", "denied", "unavailable"}]

GatewayInit ==
    /\ Init
    /\ settings \in [DemoMode : BOOLEAN, FailOpen : BOOLEAN]
    /\ blocked = [u \in Users |-> 0]
    /\ request = [c \in Callers |-> NoRequest]
    /\ standing \in [Users -> BOOLEAN]
    /\ reply = NoReply
    /\ bad = [u \in Users |-> IF standing[u] THEN Horizon ELSE 0]
    /\ down = IF healthy THEN Horizon ELSE 0
    /\ streak = 0

Older(n, limit) == IF n < limit THEN n + 1 ELSE n

-----------------------------------------------------------------------------
(* Replies, and what they leave in the cache.                              *)

Reply(u, kind, paid) == reply' = [user |-> u, kind |-> kind, paid |-> paid]

Block(u) == blocked' = [blocked EXCEPT ![u] = NegativeTTL]

\* Seeded fault: a rejection from the cache starts the ttl again.
CachedBlock_renews(u) ==
    /\ blocked[u] > 0
    /\ Block(u)
    /\ Reply(u, "blocked", FALSE)

\* cache.get finds an entry that has not expired.
CachedBlock(u) ==
    /\ blocked[u] > 0
    /\ UNCHANGED blocked
    /\ Reply(u, "blocked", FALSE)

\* Seeded fault: the test of DEMO_MODE is missing.
Fallback_open(u) == Reply(u, "degraded", FALSE) /\ UNCHANGED blocked

\* _fallback_token_bucket: through in demo mode with remaining_tokens = -1,
\* which is not cached; supabase_unavailable in production, which is.
Fallback(u) ==
    \/ settings.DemoMode /\ Reply(u, "degraded", FALSE) /\ UNCHANGED blocked
    \/ ~settings.DemoMode /\ Reply(u, "denied", FALSE) /\ Block(u)

\* process_token_bucket raises: the middleware fails open if it is told to;
\* /protect, and the middleware by default, answer 503.  Neither caches.
Raised(u) ==
    /\ \/ settings.FailOpen /\ Reply(u, "degraded", FALSE)
       \/ Reply(u, "unavailable", FALSE)
    /\ UNCHANGED blocked

-----------------------------------------------------------------------------
(* The life of a request.                                                  *)

Reject(c, u) ==
    /\ call[c] = "idle"
    /\ CachedBlock(u)
    /\ UNCHANGED <<vars, settings, request, standing, ages, streak>>

Admit(c, u) ==
    /\ blocked[u] = 0
    /\ Begin(c)
    /\ \/ /\ call'[c] = "awaiting"
          /\ request' = [request EXCEPT ![c] =
                           [user |-> u, verdict |-> "pending", age |-> 0]]
          /\ UNCHANGED <<blocked, reply>>
       \/ /\ call'[c] = "idle"
          /\ Fallback(u)
          /\ UNCHANGED request
    /\ UNCHANGED <<settings, standing, ages, streak>>

\* The quota function commits its decision; the answer is still on its way.
Decide(c) ==
    /\ call[c] = "awaiting"
    /\ healthy
    /\ request[c].verdict = "pending"
    /\ request' = [request EXCEPT ![c].verdict =
                     IF standing[request[c].user] THEN "allow" ELSE "deny"]
    /\ UNCHANGED <<vars, settings, blocked, standing, reply, ages, streak>>

Forget(c) == request' = [request EXCEPT ![c] = NoRequest]

Answered(c) ==
    /\ call[c] = "awaiting"
    /\ request[c].verdict # "pending"
    /\ Succeed(c)
    /\ \/ /\ request[c].verdict = "allow"
          /\ Reply(request[c].user, "forwarded", TRUE)
          /\ UNCHANGED blocked
       \/ /\ request[c].verdict = "deny"
          /\ Reply(request[c].user, "denied", FALSE)
          /\ Block(request[c].user)
    /\ Forget(c)
    /\ streak' = 0
    /\ UNCHANGED <<settings, standing, ages>>

\* Seeded fault: a timeout is raised past the breaker, which does not see it.
Failure_unrecorded(c) ==
    /\ ~healthy \/ c \in exposed
    /\ UNCHANGED <<state, failure_count, half_open_successes, opened_at>>
    /\ Finish(c, "raised")

Failure(c) == Fail(c)

\* An error or a timeout, even of a call the database has decided.
Failed(c) ==
    /\ Failure(c)
    /\ IF answer' = "fallback" THEN Fallback(request[c].user)
                               ELSE Raised(request[c].user)
    /\ Forget(c)
    /\ streak' = Older(streak, FailureThreshold)
    /\ UNCHANGED <<settings, standing, ages>>

Cancelled(c) ==
    /\ Cancel(c)
    /\ Forget(c)
    /\ UNCHANGED <<settings, blocked, standing, reply, ages, streak>>

-----------------------------------------------------------------------------
(* The environment.                                                        *)

Younger(n) == IF n > 0 THEN n - 1 ELSE 0

\* Time passes for everything at once; wait_for lets no RPC outlive its
\* timeout.
Pass ==
    /\ \A c \in Callers : call[c] = "awaiting" => request[c].age < RpcTimeout
    /\ opened_at' = IF opened_at \in 0..RecoveryTimeout - 1
                      THEN opened_at + 1 ELSE opened_at
    /\ blocked' = [u \in Users |-> Younger(blocked[u])]
    /\ request' = [c \in Callers |->
                     IF call[c] = "awaiting"
                       THEN [request[c] EXCEPT !.age = @ + 1] ELSE request[c]]
    /\ bad' = [u \in Users |-> IF standing[u] THEN Older(bad[u], Horizon) ELSE 0]
    /\ down' = IF healthy THEN Older(down, Horizon) ELSE 0
    /\ UNCHANGED <<state, failure_count, half_open_successes, call, answer,
                   healthy, exposed, settings, standing, reply, streak>>

DatabaseDown ==
    /\ BackendDown
    /\ down' = 0
    /\ UNCHANGED <<settings, blocked, request, standing, reply, bad, streak>>

DatabaseUp ==
    /\ BackendUp
    /\ UNCHANGED <<settings, blocked, request, standing, reply, ages, streak>>

\* Suspension, an empty bucket or a spent budget, and the end of it.
ChangeStanding(u) ==
    /\ standing' = [standing EXCEPT ![u] = ~@]
    /\ bad' = [bad EXCEPT ![u] = 0]
    /\ UNCHANGED <<vars, settings, blocked, request, reply, down, streak>>

Evict(u) ==
    /\ blocked[u] > 0
    /\ blocked' = [blocked EXCEPT ![u] = 0]
    /\ UNCHANGED <<vars, settings, request, standing, reply, ages, streak>>

Of(u, c) == request[c] # NoRequest /\ request[c].user = u

Arrive(c) == \E u \in Users : Reject(c, u) \/ Admit(c, u)
End(c) == Answered(c) \/ Failed(c) \/ Cancelled(c)

GatewayNext ==
    \/ \E c \in Callers : Arrive(c) \/ Decide(c) \/ End(c)
    \/ Pass
    \/ DatabaseDown \/ DatabaseUp
    \/ \E u \in Users : ChangeStanding(u) \/ Evict(u)

GatewaySpec == GatewayInit /\ [][GatewayNext]_gatewayVars

(***************************************************************************)
(* Requests keep arriving, from every user, and are not cancelled for ever;*)
(* time passes; a database that is up decides, and a call ends.            *)
(***************************************************************************)
FairGatewaySpec ==
    /\ GatewaySpec
    /\ WF_gatewayVars(Pass)
    /\ \A u \in Users : WF_gatewayVars(\E c \in Callers : Reject(c, u) \/ Admit(c, u))
    /\ \A c \in Callers : WF_gatewayVars(End(c))
    /\ \A u \in Users :
         /\ SF_gatewayVars(\E c \in Callers : Of(u, c) /\ Decide(c))
         /\ SF_gatewayVars(\E c \in Callers : Of(u, c) /\ Answered(c))

-----------------------------------------------------------------------------
(* Properties                                                              *)

\* The breaker's types, and: a caller has a request exactly while it awaits.
GatewayTypeOK ==
    /\ TypeOK
    /\ settings \in [DemoMode : BOOLEAN, FailOpen : BOOLEAN]
    /\ blocked \in [Users -> 0..NegativeTTL]
    /\ request \in [Callers -> RequestType \cup {NoRequest}]
    /\ \A c \in Callers : call[c] = "awaiting" <=> request[c] # NoRequest
    /\ standing \in [Users -> BOOLEAN]
    /\ reply \in ReplyType \cup {NoReply}
    /\ bad \in [Users -> 0..Horizon]
    /\ down \in 0..Horizon
    /\ streak \in 0..FailureThreshold

\* A user in the cache of blocked users was out of standing, or the database
\* was down, recently: within the ttl plus the life of an RPC, and for an
\* outage the recovery window too.  Answers that arrive late, out of order, or
\* from an open breaker do not keep a user blocked beyond it.
BlockIsRecent ==
    \A u \in Users :
      blocked[u] > 0 =>
        \/ bad[u] <= RpcTimeout + NegativeTTL - blocked[u]
        \/ ~healthy
        \/ down <= RecoveryTimeout + RpcTimeout + NegativeTTL - blocked[u]

\* In production nothing is forwarded that the database has not charged:
\* "GATEWAY_FAIL_OPEN defaults to false (fail-closed)." (.env.example:17).
FailsClosed ==
    ~settings.DemoMode /\ ~settings.FailOpen =>
      (reply # NoReply /\ reply.kind \in {"forwarded", "degraded"} => reply.paid)

\* An outage is noticed, and none is made up: a closed breaker opens with the
\* failure that makes FailureThreshold in a row of what the handlers saw, late
\* answers and failures of earlier outages included, and with nothing else.  No
\* way through the handlers forgets an outcome or reports one twice.
OutageIsNoticed ==
    [][state = "closed" => (state' = "open" <=> streak' >= FailureThreshold)]_gatewayVars

\* A request of this user goes on, paid for.
Served(u) ==
    \E c \in Callers : /\ Of(u, c) /\ Answered(c)
                        /\ reply'.kind = "forwarded"

\* A user whose trouble is over, and the database's too, leaves the cache of
\* blocked users for good, and its requests get through again and again: the
\* breaker gets its probes although the blocked send none.
Unblocked ==
    \A u \in Users :
      <>[](healthy /\ standing[u]) =>
        <>[](blocked[u] = 0) /\ []<><<Served(u)>>_gatewayVars
=============================================================================
