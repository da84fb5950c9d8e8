------------------------------- MODULE TtlMap -------------------------------
(***************************************************************************)
(* What the cache promises, as if every entry vanished the moment its ttl  *)
(* runs out: a map of live entries, never more than its capacity, that     *)
(* answers each lookup with the value last put, and gives up a live entry  *)
(* only to make room, the one with the least time left.                    *)
(***************************************************************************)
EXTENDS Integers, FiniteSets, Functions

CONSTANTS Keys, Values, Ttls, Capacity

VARIABLES
    live,     \* [key -> its value and the time it has left]
    answer    \* what the latest lookup found

Entry(val, ttl) == [value |-> val, left |-> ttl]

Init == live = << >> /\ answer = << >>

\* The keys that may go when k is put.
Displaced(k) ==
    IF k \in DOMAIN live \/ Cardinality(DOMAIN live) < Capacity
      THEN {{}}
      ELSE {{old} : old \in {o \in DOMAIN live :
                               \A j \in DOMAIN live : live[o].left <= live[j].left}}

Put(k, val, ttl) ==
    /\ \E gone \in Displaced(k) :
         live' = [j \in (DOMAIN live \ gone) \cup {k} |->
                    IF j = k THEN Entry(val, ttl) ELSE live[j]]
    /\ UNCHANGED answer

Lookup(ks) ==
    /\ answer' = [k \in ks \cap DOMAIN live |-> live[k].value]
    /\ UNCHANGED live

Forget(ks) ==
    /\ live' = Restrict(live, DOMAIN live \ ks)
    /\ UNCHANGED answer

\* Every entry gets older; those whose time is up are gone.
Age ==
    /\ live' = [k \in {j \in DOMAIN live : live[j].left > 1} |->
                  [live[k] EXCEPT !.left = @ - 1]]
    /\ UNCHANGED answer

Next ==
    \/ \E k \in Keys, val \in Values, ttl \in Ttls : Put(k, val, ttl)
    \/ \E ks \in SUBSET Keys : Lookup(ks) \/ Forget(ks)
    \/ Age

Spec == Init /\ [][Next]_<<live, answer>>
=============================================================================
