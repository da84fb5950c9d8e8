----------------------------- MODULE QuotaCache -----------------------------
(***************************************************************************)
(* The in-memory cache with a ttl per entry and a bound on their number    *)
(* (backend/app/services/cache.py).                                        *)
(*                                                                         *)
(* Expiry is lazy: an expired entry stays in the store, and counts against *)
(* the bound, until some operation comes across it.  No method awaits      *)
(* while it holds the lock, so each is one step.  The statistics counters  *)
(* are left out.                                                           *)
(***************************************************************************)
EXTENDS Integers, FiniteSets, Functions

CONSTANTS
    Keys,
    Values,
    Ttls,         \* the ttls that callers pass, in clock ticks
    MaxEntries,   \* CACHE_MAX_ENTRIES
    Prefixes      \* the sets of keys with a common prefix

ASSUME CacheAssumption ==
    /\ Ttls \subseteq Nat \ {0}
    /\ MaxEntries \in Nat \ {0}
    /\ Prefixes \subseteq SUBSET Keys

VARIABLES
    _store,    \* [key -> its value, and expires_at less the clock, down to 0]
    answer     \* what the latest get or get_many found

vars == <<_store, answer>>

Init ==
    /\ _store = << >>
    /\ answer = << >>

-----------------------------------------------------------------------------
Entry(val, ttl) == [value |-> val, left |-> ttl]

\* Seeded fault: the expiry is not looked at.
Expired_ignored(s, k) == FALSE

\* time.monotonic() >= expires_at
Expired(s, k) == s[k].left = 0

ExpiredKeys(s) == {k \in DOMAIN s : Expired(s, k)}

Drop(s, ks) == Restrict(s, DOMAIN s \ ks)

\* At capacity, and for a key that is not stored, expired entries go first.
SweepFor(k) ==
    IF Cardinality(DOMAIN _store) >= MaxEntries /\ k \notin DOMAIN _store
      THEN Drop(_store, ExpiredKeys(_store))
      ELSE _store

\* min(_store, key=expires_at)
Oldest(s) == {k \in DOMAIN s : \A j \in DOMAIN s : s[k].left <= s[j].left}

\* Seeded fault: room is made one entry too late.
Victims_late(s, k) ==
    IF Cardinality(DOMAIN s) > MaxEntries /\ k \notin DOMAIN s
      THEN {{old} : old \in Oldest(s)}
      ELSE {{}}

\* The entries that set() may evict from what the sweep left.
Victims(s, k) ==
    IF Cardinality(DOMAIN s) >= MaxEntries /\ k \notin DOMAIN s
      THEN {{old} : old \in Oldest(s)}
      ELSE {{}}

set(k, val, ttl) ==
    LET s == SweepFor(k)
    IN  /\ \E gone \in Victims(s, k) :
             _store' = [j \in (DOMAIN s \ gone) \cup {k} |->
                          IF j = k THEN Entry(val, ttl) ELSE s[j]]
        /\ UNCHANGED answer

\* get(k) is get_many({k}): an expired entry is a miss, and is dropped.
get_many(ks) ==
    LET found == {k \in ks \cap DOMAIN _store : ~Expired(_store, k)}
    IN  /\ answer' = [k \in found |-> _store[k].value]
        /\ _store' = Drop(_store, ks \ found)

Remove(ks) ==
    /\ _store' = Drop(_store, ks)
    /\ UNCHANGED answer

delete(k) == Remove({k})
invalidate_prefix(p) == Remove(p)
flush == Remove(Keys)
stats == Remove(ExpiredKeys(_store))

Tick ==
    /\ _store' = [k \in DOMAIN _store |->
                    [_store[k] EXCEPT !.left = IF @ > 0 THEN @ - 1 ELSE 0]]
    /\ UNCHANGED answer

Next ==
    \/ \E k \in Keys, val \in Values, ttl \in Ttls : set(k, val, ttl)
    \/ \E ks \in SUBSET Keys : get_many(ks)
    \/ \E k \in Keys : delete(k)
    \/ \E p \in Prefixes : invalidate_prefix(p)
    \/ flush
    \/ stats
    \/ Tick

Spec == Init /\ [][Next]_vars

-----------------------------------------------------------------------------
(* Properties                                                              *)

Stored == [value : Values, left : Nat]

\* The store maps some of the keys to entries, and never more of them than
\* the bound, expired ones included; a lookup finds values.
TypeOK ==
    /\ DOMAIN _store \subseteq Keys
    /\ \A k \in DOMAIN _store : _store[k] \in Stored
    /\ Cardinality(DOMAIN _store) <= MaxEntries
    /\ DOMAIN answer \subseteq Keys
    /\ \A k \in DOMAIN answer : answer[k] \in Values

\* Lazy expiry cannot be observed: the cache behaves as if every entry
\* vanished on time.  In particular an expired entry is never returned, and
\* never costs a live one its place.
LiveEntries ==
    Restrict(_store, {k \in DOMAIN _store : _store[k].left > 0})

Eager == INSTANCE TtlMap WITH live <- LiveEntries, Capacity <- MaxEntries
ImplementsTtlMap == Eager!Spec
=============================================================================
