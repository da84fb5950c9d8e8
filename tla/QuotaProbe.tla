----------------------------- MODULE QuotaProbe -----------------------------
(***************************************************************************)
(* /simulate-request (routes/gatekeeper.py): what the gateway would say to *)
(* a user's request, guessed from the two entries that answers of the      *)
(* quota RPC leave in the cache (module QuotaCache): "blocked:{user}" with *)
(* a denial, "quota:{user}" with the tokens that remain after a grant.     *)
(*                                                                         *)
(* Followed here are the entries of one user.  Those of all the others     *)
(* come and go, and compete for the same places.  What an RPC does to the  *)
(* breaker and to the user's reply is in module Gateway.                   *)
(***************************************************************************)
EXTENDS QuotaCache

CONSTANTS
    Requests,             \* RPCs in progress at once
    Blocked, Quota,       \* the keys of the user's entries
    NegativeTTL,          \* CACHE_NEGATIVE_TTL_SECONDS
    DefaultTTL,           \* CACHE_DEFAULT_TTL_SECONDS
    RpcTimeout,           \* SUPABASE_RPC_TIMEOUT_SECONDS
    Levels,               \* remaining_tokens of a grant
    Denied,               \* allowed = False, with any reason
    Degraded,             \* remaining_tokens = -1 of the fallback in demo mode
    None                  \* no RPC, or none that is decided

ASSUME ProbeAssumption ==
    /\ {Blocked, Quota} \subseteq Keys /\ Blocked # Quota
    /\ NegativeTTL \in Ttls /\ DefaultTTL \in Ttls
    /\ \E longest \in Ttls : \A ttl \in Ttls : longest >= ttl
    /\ RpcTimeout \in Nat
    /\ Values = Levels \cup {Denied, Degraded}
    /\ Denied # Degraded /\ Levels \cap {Denied, Degraded} = {}
    /\ None \notin Values

VARIABLES
    DEMO_MODE,
    rpc,      \* [request -> what it was decided; None in the idle, too]
    age,      \* [request -> how long its RPC takes, -1 if it has none]
    said      \* [value -> time since an RPC was last decided so]

probeVars == <<DEMO_MODE, rpc, age, said, vars>>

Pending(r) == age[r] >= 0
Others == Keys \ {Blocked, Quota}

Ttl == [k \in {Blocked, Quota} |-> IF k = Blocked THEN NegativeTTL ELSE DefaultTTL]

\* The longest that a decision can matter; the ages in said stop there.
Horizon == (CHOOSE ttl \in Ttls : \A other \in Ttls : ttl >= other) + RpcTimeout + 1

ProbeInit ==
    /\ Init
    /\ DEMO_MODE \in BOOLEAN
    /\ rpc = [r \in Requests |-> None]
    /\ age = [r \in Requests |-> -1]
    /\ said = [val \in Values |-> Horizon]

-----------------------------------------------------------------------------
Live(k) == k \in DOMAIN _store /\ ~Expired(_store, k)

\* protect() and the middleware: a cached block is the answer, or an RPC is
\* begun.
Ask(r) ==
    /\ ~Pending(r)
    /\ get_many({Blocked})
    /\ age' = IF Live(Blocked) THEN age ELSE [age EXCEPT ![r] = 0]
    /\ UNCHANGED <<DEMO_MODE, rpc, said>>

\* The database decides, or the breaker's fallback in its place.
Decide(r, val) ==
    /\ Pending(r) /\ rpc[r] = None
    /\ val = Degraded => DEMO_MODE
    /\ rpc' = [rpc EXCEPT ![r] = val]
    /\ said' = IF val = Degraded THEN said ELSE [said EXCEPT ![val] = 0]
    /\ UNCHANGED <<DEMO_MODE, age, vars>>

End(r) ==
    /\ rpc' = [rpc EXCEPT ![r] = None]
    /\ age' = [age EXCEPT ![r] = -1]
    /\ UNCHANGED <<DEMO_MODE, said>>

\* Seeded fault: the test "remaining >= 0" is missing.
Cached_always(val) ==
    IF val = Denied THEN set(Blocked, val, NegativeTTL)
                    ELSE set(Quota, val, DefaultTTL)

\* Neither entry is deleted when the other is set.
Cached(val) ==
    \/ val = Denied /\ set(Blocked, val, NegativeTTL)
    \/ val \in Levels /\ set(Quota, val, DefaultTTL)
    \/ val = Degraded /\ UNCHANGED vars

\* The answer of an RPC, which a later one may have overtaken.
Answered(r) ==
    /\ Pending(r) /\ rpc[r] # None
    /\ Cached(rpc[r])
    /\ End(r)

\* The RPC raises or is cancelled, decided or not.
Lost(r) ==
    /\ Pending(r)
    /\ End(r)
    /\ UNCHANGED vars

\* The guess reads the block first, and the level only if there is none.
Simulate ==
    /\ get_many(IF Live(Blocked) THEN {Blocked} ELSE {Blocked, Quota})
    /\ UNCHANGED <<DEMO_MODE, rpc, age, said>>

\* The entries of other users, whatever they hold, and what nobody calls but
\* the cache offers.
Elsewhere ==
    /\ \/ \E k \in Others, ttl \in Ttls : set(k, Denied, ttl)
       \/ \E ks \in SUBSET Others : get_many(ks)
       \/ \E k \in Keys : delete(k)
       \/ \E p \in Prefixes : invalidate_prefix(p)
       \/ flush
       \/ stats
    /\ UNCHANGED <<DEMO_MODE, rpc, age, said>>

Pass ==
    /\ \A r \in Requests : age[r] < RpcTimeout
    /\ Tick
    /\ age' = [r \in Requests |-> IF Pending(r) THEN age[r] + 1 ELSE -1]
    /\ said' = [val \in Values |-> IF said[val] < Horizon THEN said[val] + 1 ELSE Horizon]
    /\ UNCHANGED <<DEMO_MODE, rpc>>

ProbeNext ==
    \/ \E r \in Requests : Ask(r) \/ Answered(r) \/ Lost(r)
    \/ \E r \in Requests, val \in Values : Decide(r, val)
    \/ Simulate
    \/ Elsewhere
    \/ Pass

ProbeSpec == ProbeInit /\ [][ProbeNext]_probeVars

-----------------------------------------------------------------------------
(* Properties                                                              *)

\* What a guess is made from was decided no longer ago than the entry's ttl
\* and the life of an RPC, although answers arrive late and out of order, an
\* entry may be written over by an older one, and a denial leaves the level
\* of an earlier grant in place; and what the fallback of the demo mode
\* answers is never taken for a level (gatekeeper.py:202-205, 267-282).
GuessIsRecent ==
    \A k \in {Blocked, Quota} \cap DOMAIN LiveEntries :
      said[LiveEntries[k].value] <= Ttl[k] - LiveEntries[k].left + RpcTimeout
=============================================================================
