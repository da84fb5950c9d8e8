-------------------------- MODULE QuotaProbeProofs --------------------------
(***************************************************************************)
(* For any keys, ttls and capacity: the cache with its lazy expiry behaves *)
(* as one that forgets every entry on time, and what simulate-request      *)
(* guesses from is recent.                                                 *)
(***************************************************************************)
EXTENDS QuotaProbe, FiniteSetTheorems, TLAPS

-----------------------------------------------------------------------------
(* The store.                                                              *)

LEMMA Bounds ==
    /\ Ttls \subseteq Nat \ {0} /\ MaxEntries \in Nat \ {0}
    /\ Prefixes \subseteq SUBSET Keys
BY CacheAssumption

\* The store of the type invariant, with a finite number of entries.
Store(s) ==
    /\ DOMAIN s \subseteq Keys /\ IsFiniteSet(DOMAIN s)
    /\ s = [k \in DOMAIN s |-> s[k]]
    /\ \A k \in DOMAIN s : s[k] \in Stored
    /\ Cardinality(DOMAIN s) <= MaxEntries

CacheInv ==
    /\ Store(_store)
    /\ DOMAIN answer \subseteq Keys
    /\ \A k \in DOMAIN answer : answer[k] \in Values

LEMMA StoredFields ==
    ASSUME NEW e \in Stored
    PROVE  e.left \in Nat /\ e.value \in Values
BY DEF Stored

LEMMA EntryStored ==
    ASSUME NEW val \in Values, NEW ttl \in Ttls
    PROVE  /\ Entry(val, ttl) \in Stored
           /\ Entry(val, ttl).left = ttl /\ Entry(val, ttl).value = val
           /\ ttl \in Nat /\ ttl > 0
BY Bounds DEF Entry, Stored

LEMMA DropKeeps ==
    ASSUME NEW s, Store(s), NEW ks
    PROVE  /\ Store(Drop(s, ks)) /\ DOMAIN Drop(s, ks) = DOMAIN s \ ks
           /\ \A k \in DOMAIN s \ ks : Drop(s, ks)[k] = s[k]
           /\ Cardinality(DOMAIN Drop(s, ks)) <= Cardinality(DOMAIN s)
<1>1. Drop(s, ks) = [k \in DOMAIN s \ ks |-> s[k]]
  BY DEF Drop, Restrict
<1>2. DOMAIN Drop(s, ks) = DOMAIN s \ ks
  BY <1>1
<1>3. /\ IsFiniteSet(DOMAIN s \ ks)
      /\ Cardinality(DOMAIN s \ ks) <= Cardinality(DOMAIN s)
      /\ Cardinality(DOMAIN s \ ks) \in Nat /\ Cardinality(DOMAIN s) \in Nat
  <2>1. IsFiniteSet(DOMAIN s) /\ DOMAIN s \ ks \subseteq DOMAIN s
    BY DEF Store
  <2> QED
    BY <2>1, FS_Subset, FS_CardinalityType
<1>4. Cardinality(DOMAIN s \ ks) <= MaxEntries
  BY <1>3, Bounds DEF Store
<1> QED
  BY <1>1, <1>2, <1>3, <1>4 DEF Store

LEMMA SweepKeeps ==
    ASSUME Store(_store), NEW k
    PROVE  /\ Store(SweepFor(k))
           /\ DOMAIN SweepFor(k) \subseteq DOMAIN _store
           /\ \A j \in DOMAIN SweepFor(k) : SweepFor(k)[j] = _store[j]
           /\ \/ SweepFor(k) = _store
              \/ DOMAIN SweepFor(k) = DOMAIN _store \ ExpiredKeys(_store)
<1> DEFINE swept == Drop(_store, ExpiredKeys(_store))
<1>1. /\ Store(swept) /\ DOMAIN swept = DOMAIN _store \ ExpiredKeys(_store)
      /\ \A j \in DOMAIN _store \ ExpiredKeys(_store) : swept[j] = _store[j]
  BY DropKeeps
<1>2. SweepFor(k) = _store \/ SweepFor(k) = swept
  BY DEF SweepFor
<1> HIDE DEF swept
<1> QED
  BY <1>1, <1>2

\* Room is made before an entry is put.
LEMMA PutRoom ==
    ASSUME NEW s, Store(s), NEW k \in Keys, NEW gone \in Victims(s, k)
    PROVE  /\ gone \subseteq DOMAIN s
           /\ IsFiniteSet((DOMAIN s \ gone) \cup {k})
           /\ Cardinality((DOMAIN s \ gone) \cup {k}) <= MaxEntries
<1>1. /\ IsFiniteSet(DOMAIN s) /\ Cardinality(DOMAIN s) \in Nat
      /\ Cardinality(DOMAIN s) <= MaxEntries
  BY FS_CardinalityType DEF Store
<1>2. CASE gone = {} /\ k \in DOMAIN s
  <2>1. (DOMAIN s \ gone) \cup {k} = DOMAIN s
    BY <1>2
  <2> QED
    BY <1>1, <1>2, <2>1
<1>3. CASE gone = {} /\ k \notin DOMAIN s /\ Cardinality(DOMAIN s) < MaxEntries
  <2>1. (DOMAIN s \ gone) \cup {k} = DOMAIN s \cup {k}
    BY <1>3
  <2>2. /\ IsFiniteSet(DOMAIN s \cup {k})
        /\ Cardinality(DOMAIN s \cup {k}) = Cardinality(DOMAIN s) + 1
    BY <1>1, <1>3, FS_AddElement
  <2> QED
    BY <1>1, <1>3, <2>1, <2>2, Bounds
<1>4. ASSUME NEW old \in DOMAIN s, gone = {old}, k \notin DOMAIN s
      PROVE  /\ gone \subseteq DOMAIN s
             /\ IsFiniteSet((DOMAIN s \ gone) \cup {k})
             /\ Cardinality((DOMAIN s \ gone) \cup {k}) <= MaxEntries
  <2>1. /\ IsFiniteSet(DOMAIN s \ {old})
        /\ Cardinality(DOMAIN s \ {old}) = Cardinality(DOMAIN s) - 1
    BY <1>1, FS_RemoveElement
  <2>2. /\ IsFiniteSet((DOMAIN s \ {old}) \cup {k})
        /\ Cardinality((DOMAIN s \ {old}) \cup {k}) = Cardinality(DOMAIN s \ {old}) + 1
    BY <1>4, <2>1, FS_AddElement
  <2> QED
    BY <1>1, <1>4, <2>1, <2>2, Bounds
<1>5. \/ gone = {} /\ k \in DOMAIN s
      \/ gone = {} /\ k \notin DOMAIN s /\ Cardinality(DOMAIN s) < MaxEntries
      \/ \E old \in DOMAIN s : gone = {old} /\ k \notin DOMAIN s
  BY <1>1, Bounds DEF Victims, Oldest
<1> QED
  BY <1>2, <1>3, <1>4, <1>5

LEMMA SetStep ==
    ASSUME CacheInv, NEW k \in Keys, NEW val \in Values, NEW ttl \in Ttls,
           set(k, val, ttl)
    PROVE  CacheInv'
<1> DEFINE s == SweepFor(k)
<1>1. PICK gone \in Victims(s, k) :
        _store' = [j \in (DOMAIN s \ gone) \cup {k} |->
                     IF j = k THEN Entry(val, ttl) ELSE s[j]]
  BY DEF set
<1>2. Store(s)
  BY SweepKeeps DEF CacheInv
<1> HIDE DEF s
<1>3. /\ gone \subseteq DOMAIN s
      /\ IsFiniteSet((DOMAIN s \ gone) \cup {k})
      /\ Cardinality((DOMAIN s \ gone) \cup {k}) <= MaxEntries
  BY <1>2, PutRoom
<1>4. DOMAIN _store' = (DOMAIN s \ gone) \cup {k}
  BY <1>1
<1>5. \A j \in DOMAIN _store' : _store'[j] \in Stored
  BY <1>1, <1>2, EntryStored DEF Store
<1>6. Store(_store')
  BY <1>1, <1>2, <1>3, <1>4, <1>5 DEF Store
<1>7. answer' = answer
  BY DEF set
<1> QED
  BY <1>6, <1>7 DEF CacheInv

LEMMA LookupStep ==
    ASSUME CacheInv, NEW ks \in SUBSET Keys, get_many(ks)
    PROVE  CacheInv'
<1> DEFINE found == {k \in ks \cap DOMAIN _store : ~Expired(_store, k)}
<1>1. /\ answer' = [k \in found |-> _store[k].value]
      /\ _store' = Drop(_store, ks \ found)
  BY DEF get_many
<1>2. Store(_store')
  BY <1>1, DropKeeps DEF CacheInv
<1>3. \A k \in found : _store[k].value \in Values /\ k \in Keys
  BY StoredFields DEF CacheInv, Store
<1> HIDE DEF found
<1> QED
  BY <1>1, <1>2, <1>3 DEF CacheInv

LEMMA RemoveStep ==
    ASSUME CacheInv, NEW ks, Remove(ks)
    PROVE  CacheInv'
BY DropKeeps DEF Remove, CacheInv

LEMMA TickEffect ==
    ASSUME CacheInv, Tick
    PROVE  /\ DOMAIN _store' = DOMAIN _store
           /\ _store' = [k \in DOMAIN _store |-> _store'[k]]
           /\ \A k \in DOMAIN _store :
                /\ _store'[k] \in Stored /\ _store'[k].value = _store[k].value
                /\ _store'[k].left = IF _store[k].left > 0 THEN _store[k].left - 1 ELSE 0
                /\ _store'[k] = [_store[k] EXCEPT !.left =
                                   IF _store[k].left > 0 THEN _store[k].left - 1 ELSE 0]
<1>1. _store' = [k \in DOMAIN _store |->
                   [_store[k] EXCEPT !.left = IF @ > 0 THEN @ - 1 ELSE 0]]
  BY DEF Tick
<1>2. ASSUME NEW k \in DOMAIN _store
      PROVE  /\ _store'[k] \in Stored /\ _store'[k].value = _store[k].value
             /\ _store'[k].left = IF _store[k].left > 0 THEN _store[k].left - 1 ELSE 0
             /\ _store'[k] = [_store[k] EXCEPT !.left =
                                IF _store[k].left > 0 THEN _store[k].left - 1 ELSE 0]
  <2>1. _store[k] \in Stored
    BY DEF CacheInv, Store
  <2>2. _store'[k] = [_store[k] EXCEPT !.left =
                        IF _store[k].left > 0 THEN _store[k].left - 1 ELSE 0]
    BY <1>1
  <2> QED
    BY <2>1, <2>2 DEF Stored
<1> QED
  BY <1>1, <1>2

LEMMA TickStep ==
    ASSUME CacheInv, Tick
    PROVE  CacheInv'
<1>1. Store(_store')
  BY TickEffect DEF CacheInv, Store
<1>2. answer' = answer
  BY DEF Tick
<1> QED
  BY <1>1, <1>2 DEF CacheInv

LEMMA CacheStep ==
    ASSUME CacheInv, [Next]_vars
    PROVE  CacheInv'
<1>1. CASE \E k \in Keys, val \in Values, ttl \in Ttls : set(k, val, ttl)
  BY <1>1, SetStep
<1>2. CASE \E ks \in SUBSET Keys : get_many(ks)
  BY <1>2, LookupStep
<1>3. CASE \E ks : Remove(ks)
  BY <1>3, RemoveStep
<1>4. CASE Tick
  BY <1>4, TickStep
<1>5. CASE UNCHANGED vars
  BY <1>5 DEF vars, CacheInv, Store
<1>6. (\E k \in Keys : delete(k)) \/ (\E p \in Prefixes : invalidate_prefix(p))
        \/ flush \/ stats => \E ks : Remove(ks)
  BY DEF delete, invalidate_prefix, flush, stats
<1> QED
  BY <1>1, <1>2, <1>3, <1>4, <1>5, <1>6 DEF Next

LEMMA CacheStart ==
    ASSUME Init
    PROVE  CacheInv
<1>1. _store = << >> /\ answer = << >>
  BY DEF Init
<1>2. /\ DOMAIN << >> = {} /\ << >> = [k \in {} |-> << >>[k]]
  OBVIOUS
<1>3. /\ IsFiniteSet({}) /\ Cardinality({}) = 0
  BY FS_EmptySet
<1>4. 0 <= MaxEntries
  BY Bounds
<1>5. Store(_store)
  BY <1>1, <1>2, <1>3, <1>4 DEF Store
<1> QED
  BY <1>1, <1>2, <1>5 DEF CacheInv

-----------------------------------------------------------------------------
(* What the probe does is what the cache does.                             *)

LEMMA Roles ==
    /\ Blocked \in Keys /\ Quota \in Keys /\ Blocked # Quota
    /\ NegativeTTL \in Ttls /\ DefaultTTL \in Ttls
    /\ Levels \subseteq Values /\ Denied \in Values /\ Degraded \in Values
    /\ Denied # Degraded /\ Degraded \notin Levels /\ Denied \notin Levels
    /\ None \notin Values
    /\ RpcTimeout \in Nat
BY ProbeAssumption

LEMMA ProbeIsCache ==
    ASSUME [ProbeNext]_probeVars
    PROVE  [Next]_vars
<1>1. CASE \E r \in Requests : Ask(r)
  <2>1. get_many({Blocked})
    BY <1>1 DEF Ask
  <2> QED
    BY <2>1, Roles DEF Next
<1>2. CASE \E r \in Requests : Answered(r)
  BY <1>2, Roles DEF Answered, Cached, Next
<1>3. CASE Simulate
  <2>1. get_many({Blocked}) \/ get_many({Blocked, Quota})
    BY <1>3 DEF Simulate
  <2>2. {Blocked} \in SUBSET Keys /\ {Blocked, Quota} \in SUBSET Keys
    BY Roles
  <2> QED
    BY <2>1, <2>2 DEF Next
<1>4. CASE Elsewhere
  <2>1. CASE \E k \in Others, ttl \in Ttls : set(k, Denied, ttl)
    BY <2>1, Roles DEF Next, Others
  <2>2. CASE \E ks \in SUBSET Others : get_many(ks)
    BY <2>2 DEF Next, Others
  <2>3. CASE (\E k \in Keys : delete(k)) \/ (\E p \in Prefixes : invalidate_prefix(p))
               \/ flush \/ stats
    BY <2>3 DEF Next
  <2> QED
    BY <1>4, <2>1, <2>2, <2>3 DEF Elsewhere
<1>5. CASE Pass
  BY <1>5 DEF Pass, Next
<1>6. CASE \/ UNCHANGED probeVars \/ \E r \in Requests : Lost(r)
           \/ \E r \in Requests, val \in Values : Decide(r, val)
  BY <1>6 DEF probeVars, Lost, Decide
<1> QED
  BY <1>1, <1>2, <1>3, <1>4, <1>5, <1>6 DEF ProbeNext

\* The type invariant: the store is a map of keys to entries, and never
\* holds more of them than CACHE_MAX_ENTRIES (cache.py:62-82).
THEOREM TypeCorrect == ProbeSpec => []TypeOK
<1>1. ProbeInit => CacheInv
  BY CacheStart DEF ProbeInit
<1>2. CacheInv /\ [ProbeNext]_probeVars => CacheInv'
  BY CacheStep, ProbeIsCache
<1>3. CacheInv => TypeOK
  BY DEF CacheInv, Store, TypeOK
<1> QED
  BY <1>1, <1>2, <1>3, PTL DEF ProbeSpec

-----------------------------------------------------------------------------
(* The cache keeps the promises of TtlMap.                                 *)

\* The entries of a store that have time left.
LiveKeys(s) == {k \in DOMAIN s : s[k].left > 0}

LEMMA LiveIs ==
    /\ LiveEntries = [k \in LiveKeys(_store) |-> _store[k]]
    /\ DOMAIN LiveEntries = LiveKeys(_store)
    /\ \A k \in LiveKeys(_store) : LiveEntries[k] = _store[k]
BY DEF LiveEntries, LiveKeys, Restrict

LEMMA SameCount ==
    ASSUME NEW S
    PROVE  Eager!Cardinality(S) = Cardinality(S)
BY DEF Eager!Cardinality, Cardinality

LEMMA LiveIsNext ==
    LiveEntries' = [k \in LiveKeys(_store') |-> _store'[k]]
BY DEF LiveEntries, LiveKeys, Restrict

LEMMA ExpiredOrLive ==
    ASSUME NEW s, Store(s)
    PROVE  /\ LiveKeys(s) = DOMAIN s \ ExpiredKeys(s)
           /\ IsFiniteSet(LiveKeys(s))
           /\ Cardinality(LiveKeys(s)) <= Cardinality(DOMAIN s)
           /\ Cardinality(LiveKeys(s)) \in Nat /\ Cardinality(DOMAIN s) \in Nat
           /\ \A k \in DOMAIN s \ LiveKeys(s) :
                Cardinality(LiveKeys(s)) < Cardinality(DOMAIN s)
<1>1. LiveKeys(s) = DOMAIN s \ ExpiredKeys(s)
  BY StoredFields DEF LiveKeys, ExpiredKeys, Expired, Store
<1>2. IsFiniteSet(DOMAIN s) /\ LiveKeys(s) \subseteq DOMAIN s
  BY DEF Store, LiveKeys
<1>3. /\ IsFiniteSet(LiveKeys(s)) /\ Cardinality(LiveKeys(s)) <= Cardinality(DOMAIN s)
      /\ LiveKeys(s) # DOMAIN s => Cardinality(LiveKeys(s)) < Cardinality(DOMAIN s)
  BY <1>2, FS_Subset, FS_CardinalityType
<1>4. Cardinality(LiveKeys(s)) \in Nat /\ Cardinality(DOMAIN s) \in Nat
  BY <1>2, <1>3, FS_CardinalityType
<1> QED
  BY <1>1, <1>3, <1>4

\* The sweep drops nothing that is live, and whoever evicts has swept.
LEMMA SweepSparesLive ==
    ASSUME CacheInv, NEW k \in Keys
    PROVE  /\ LiveKeys(SweepFor(k)) = LiveKeys(_store)
           /\ \A j \in LiveKeys(_store) : SweepFor(k)[j] = _store[j]
           /\ \/ k \in DOMAIN SweepFor(k)
              \/ Cardinality(DOMAIN SweepFor(k)) < MaxEntries
              \/ DOMAIN SweepFor(k) = LiveKeys(_store)
<1> DEFINE s == SweepFor(k)
<1>1. /\ Store(_store) /\ DOMAIN s \subseteq DOMAIN _store
      /\ \A j \in DOMAIN s : s[j] = _store[j]
      /\ s = _store \/ DOMAIN s = DOMAIN _store \ ExpiredKeys(_store)
  BY SweepKeeps DEF CacheInv
<1>2. /\ LiveKeys(_store) = DOMAIN _store \ ExpiredKeys(_store)
      /\ Cardinality(DOMAIN _store) \in Nat
  BY <1>1, ExpiredOrLive
<1>3. LiveKeys(_store) \subseteq DOMAIN s
  BY <1>1, <1>2
<1>4. LiveKeys(s) = LiveKeys(_store)
  BY <1>1, <1>3 DEF LiveKeys
<1>5. \/ k \in DOMAIN s
      \/ Cardinality(DOMAIN s) < MaxEntries
      \/ DOMAIN s = LiveKeys(_store)
  <2>1. CASE Cardinality(DOMAIN _store) >= MaxEntries /\ k \notin DOMAIN _store
    <3>1. s = Drop(_store, ExpiredKeys(_store))
      BY <2>1 DEF SweepFor
    <3>2. DOMAIN s = DOMAIN _store \ ExpiredKeys(_store)
      BY <1>1, <3>1, DropKeeps
    <3> QED
      BY <1>2, <3>2
  <2>2. CASE k \in DOMAIN _store
    BY <2>2 DEF SweepFor
  <2>3. CASE ~ (Cardinality(DOMAIN _store) >= MaxEntries)
    <3>1. s = _store
      BY <2>3 DEF SweepFor
    <3> HIDE DEF s
    <3> QED
      BY <1>2, <2>3, <3>1, Bounds
  <2> QED
    BY <2>1, <2>2, <2>3
<1> HIDE DEF s
<1>6. \A j \in LiveKeys(_store) : s[j] = _store[j]
  BY <1>1, <1>3
<1>7. /\ LiveKeys(s) = LiveKeys(_store)
      /\ \A j \in LiveKeys(_store) : s[j] = _store[j]
      /\ \/ k \in DOMAIN s
         \/ Cardinality(DOMAIN s) < MaxEntries
         \/ DOMAIN s = LiveKeys(_store)
  BY <1>4, <1>5, <1>6
<1> QED
  BY <1>7 DEF s

\* Only a live entry is given up, and only where the map would be full.
LEMMA EvictsAsEager ==
    ASSUME CacheInv, NEW k \in Keys, NEW gone \in Victims(SweepFor(k), k)
    PROVE  gone \in Eager!Displaced(k)
<1> DEFINE s == SweepFor(k)
           live == LiveKeys(_store)
<1>1. /\ LiveKeys(s) = live
      /\ \A j \in live : s[j] = _store[j]
      /\ \/ k \in DOMAIN s
         \/ Cardinality(DOMAIN s) < MaxEntries
         \/ DOMAIN s = live
  BY SweepSparesLive
<1>2. Store(s)
  BY SweepKeeps DEF CacheInv
<1>3. /\ Cardinality(live) <= Cardinality(DOMAIN s)
      /\ Cardinality(live) \in Nat /\ Cardinality(DOMAIN s) \in Nat
      /\ k \in DOMAIN s \ live => Cardinality(live) < Cardinality(DOMAIN s)
      /\ Cardinality(DOMAIN s) <= MaxEntries
  BY <1>1, <1>2, ExpiredOrLive DEF Store
<1>4. gone \in Victims(s, k)
  OBVIOUS
<1> HIDE DEF s
<1>5. CASE k \in DOMAIN s \/ Cardinality(DOMAIN s) < MaxEntries
  <2>1. gone = {}
    BY <1>3, <1>4, <1>5, Bounds DEF Victims
  <2>2. k \in live \/ Cardinality(live) < MaxEntries
    BY <1>3, <1>5, Bounds
  <2> QED
    BY <2>1, <2>2, LiveIs, SameCount DEF Eager!Displaced
<1>6. CASE k \notin DOMAIN s /\ ~ (Cardinality(DOMAIN s) < MaxEntries)
  <2>1. DOMAIN s = live
    BY <1>1, <1>6
  <2>2. PICK old \in Oldest(s) : gone = {old}
    BY <1>3, <1>4, <1>6, Bounds DEF Victims
  <2>3. old \in live /\ \A j \in live : s[old].left <= s[j].left
    BY <2>1, <2>2 DEF Oldest
  <2>4. \A j \in live : LiveEntries[old].left <= LiveEntries[j].left
    BY <1>1, <2>3, LiveIs
  <2>5. k \notin DOMAIN LiveEntries /\ ~ (Cardinality(DOMAIN LiveEntries) < MaxEntries)
    BY <1>6, <2>1, LiveIs
  <2> QED
    BY <2>2, <2>3, <2>4, <2>5, LiveIs, SameCount DEF Eager!Displaced
<1> QED
  BY <1>5, <1>6

LEMMA SetPuts ==
    ASSUME CacheInv, NEW k \in Keys, NEW val \in Values, NEW ttl \in Ttls,
           set(k, val, ttl)
    PROVE  Eager!Put(k, val, ttl)
<1> DEFINE s == SweepFor(k)
           live == LiveKeys(_store)
<1>1. PICK gone \in Victims(s, k) :
        _store' = [j \in (DOMAIN s \ gone) \cup {k} |->
                     IF j = k THEN Entry(val, ttl) ELSE s[j]]
  BY DEF set
<1>2. LiveKeys(s) = live /\ \A j \in live : s[j] = _store[j]
  BY SweepSparesLive
<1>3. gone \in Eager!Displaced(k)
  BY <1>1, EvictsAsEager
<1>4. live \subseteq DOMAIN s
  BY <1>2 DEF LiveKeys
<1> HIDE DEF s, live
<1>5. LiveKeys(_store') = (live \ gone) \cup {k}
  <2>1. DOMAIN _store' = (DOMAIN s \ gone) \cup {k}
    BY <1>1
  <2>2. _store'[k] = Entry(val, ttl) /\ \A j \in DOMAIN s \ gone : j # k => _store'[j] = s[j]
    BY <1>1
  <2>3. _store'[k].left > 0
    BY <2>2, EntryStored
  <2>4. \A j \in DOMAIN s : j \in live <=> s[j].left > 0
    BY <1>2 DEF LiveKeys
  <2>5. \A j : j \in LiveKeys(_store') <=> j \in DOMAIN _store' /\ _store'[j].left > 0
    BY DEF LiveKeys
  <2>6. \A j : j \in LiveKeys(_store') <=> j \in (live \ gone) \cup {k}
    BY <1>4, <2>1, <2>2, <2>3, <2>4, <2>5
  <2> QED
    BY <2>6
<1>6. \A j \in (live \ gone) \cup {k} :
        _store'[j] = IF j = k THEN Entry(val, ttl) ELSE _store[j]
  BY <1>1, <1>2, <1>4
<1>7. LiveEntries' = [j \in (live \ gone) \cup {k} |->
                        IF j = k THEN Entry(val, ttl) ELSE _store[j]]
  BY <1>5, <1>6, LiveIsNext
<1>8. LiveEntries' = [j \in (live \ gone) \cup {k} |->
                        IF j = k THEN Entry(val, ttl) ELSE LiveEntries[j]]
  BY <1>7, LiveIs DEF live
<1>9. DOMAIN LiveEntries = live
  BY LiveIs DEF live
<1>10. Eager!Entry(val, ttl) = Entry(val, ttl)
  BY DEF Eager!Entry, Entry
<1>11. answer' = answer
  BY DEF set
<1> QED
  BY <1>3, <1>8, <1>9, <1>10, <1>11 DEF Eager!Put

LEMMA DropLives ==
    ASSUME NEW ks, _store' = Drop(_store, ks)
    PROVE  LiveEntries' = [k \in LiveKeys(_store) \ ks |-> _store[k]]
<1>1. _store' = [k \in DOMAIN _store \ ks |-> _store[k]]
  BY DEF Drop, Restrict
<1>2. LiveKeys(_store') = LiveKeys(_store) \ ks
  BY <1>1 DEF LiveKeys
<1>3. \A k \in LiveKeys(_store) \ ks : _store'[k] = _store[k]
  BY <1>1 DEF LiveKeys
<1> QED
  BY <1>2, <1>3, LiveIsNext

LEMMA GetLooksUp ==
    ASSUME CacheInv, NEW ks \in SUBSET Keys, get_many(ks)
    PROVE  Eager!Lookup(ks)
<1> DEFINE found == {k \in ks \cap DOMAIN _store : ~Expired(_store, k)}
<1>1. /\ answer' = [k \in found |-> _store[k].value]
      /\ _store' = Drop(_store, ks \ found)
  BY DEF get_many
<1>2. found = ks \cap LiveKeys(_store)
  BY ExpiredOrLive DEF CacheInv, ExpiredKeys
<1> HIDE DEF found
<1>3. LiveKeys(_store) \ (ks \ found) = LiveKeys(_store)
  BY <1>2
<1>4. LiveEntries' = LiveEntries
  BY <1>1, <1>3, DropLives, LiveIs
<1>5. answer' = [k \in ks \cap DOMAIN LiveEntries |-> LiveEntries[k].value]
  <2>1. \A k \in found : _store[k].value = LiveEntries[k].value
    BY <1>2, LiveIs
  <2>2. found = ks \cap DOMAIN LiveEntries
    BY <1>2, LiveIs
  <2> QED
    BY <1>1, <2>1, <2>2
<1> QED
  BY <1>4, <1>5 DEF Eager!Lookup

LEMMA RemoveForgets ==
    ASSUME NEW ks, Remove(ks)
    PROVE  Eager!Forget(ks)
<1>1. LiveEntries' = [k \in LiveKeys(_store) \ ks |-> _store[k]]
  BY DropLives DEF Remove
<1>2. LiveEntries' = [k \in DOMAIN LiveEntries \ ks |-> LiveEntries[k]]
  BY <1>1, LiveIs
<1>3. Eager!Restrict(LiveEntries, DOMAIN LiveEntries \ ks)
        = [k \in DOMAIN LiveEntries \ ks |-> LiveEntries[k]]
  BY DEF Eager!Restrict
<1> QED
  BY <1>2, <1>3 DEF Eager!Forget, Remove

LEMMA TickAges ==
    ASSUME CacheInv, Tick
    PROVE  Eager!Age
<1> DEFINE older == [k \in {j \in DOMAIN LiveEntries : LiveEntries[j].left > 1} |->
                       [LiveEntries[k] EXCEPT !.left = LiveEntries[k].left - 1]]
<1>1. /\ DOMAIN _store' = DOMAIN _store
      /\ \A k \in DOMAIN _store :
           /\ _store[k].left \in Nat
           /\ _store'[k].left = IF _store[k].left > 0 THEN _store[k].left - 1 ELSE 0
           /\ _store'[k] = [_store[k] EXCEPT !.left =
                              IF _store[k].left > 0 THEN _store[k].left - 1 ELSE 0]
  BY TickEffect, StoredFields DEF CacheInv, Store
<1>2. \A k \in DOMAIN _store : _store'[k].left > 0 <=> _store[k].left > 1
  BY <1>1
<1>3. \A k \in DOMAIN _store : _store[k].left > 1 => _store[k].left > 0
  BY <1>1
<1>4. LiveKeys(_store') = {j \in DOMAIN _store : _store[j].left > 1}
  BY <1>1, <1>2 DEF LiveKeys
<1>5. {j \in DOMAIN LiveEntries : LiveEntries[j].left > 1}
        = {j \in DOMAIN _store : _store[j].left > 1}
  BY <1>3, LiveIs DEF LiveKeys
<1>6. ASSUME NEW k \in LiveKeys(_store')
      PROVE  _store'[k] = [LiveEntries[k] EXCEPT !.left = LiveEntries[k].left - 1]
  <2>1. k \in LiveKeys(_store) /\ k \in DOMAIN _store /\ _store[k].left > 0
    BY <1>3, <1>4 DEF LiveKeys
  <2>2. LiveEntries[k] = _store[k]
    BY <2>1, LiveIs
  <2> QED
    BY <1>1, <2>1, <2>2
<1>7. LiveEntries' = older
  BY <1>4, <1>5, <1>6, LiveIsNext
<1>8. answer' = answer
  BY DEF Tick
<1> QED
  BY <1>7, <1>8 DEF Eager!Age

\* Lazy expiry cannot be observed: every operation of the cache is one of a
\* map whose entries vanish on time; an expired entry is never returned, and
\* never costs a live one its place (cache.py:38-110).
THEOREM ImplementsEager == ProbeSpec => ImplementsTtlMap
<1>1. ProbeInit => CacheInv
  BY CacheStart DEF ProbeInit
<1>2. CacheInv /\ [ProbeNext]_probeVars => CacheInv'
  BY CacheStep, ProbeIsCache
<1>3. ProbeInit => Eager!Init
  <2> SUFFICES ASSUME ProbeInit PROVE Eager!Init
    OBVIOUS
  <2>1. _store = << >> /\ answer = << >>
    BY DEF ProbeInit, Init
  <2>2. LiveKeys(_store) = {}
    BY <2>1 DEF LiveKeys
  <2>3. LiveEntries = << >>
    BY <2>2, LiveIs
  <2> QED
    BY <2>1, <2>3 DEF Eager!Init
<1>4. CacheInv /\ [ProbeNext]_probeVars => [Eager!Next]_<<LiveEntries, answer>>
  <2> SUFFICES ASSUME CacheInv, [Next]_vars
               PROVE  [Eager!Next]_<<LiveEntries, answer>>
    BY ProbeIsCache
  <2>1. CASE \E k \in Keys, val \in Values, ttl \in Ttls : set(k, val, ttl)
    BY <2>1, SetPuts DEF Eager!Next
  <2>2. CASE \E ks \in SUBSET Keys : get_many(ks)
    BY <2>2, GetLooksUp DEF Eager!Next
  <2>3. CASE \E ks \in SUBSET Keys : Remove(ks)
    BY <2>3, RemoveForgets DEF Eager!Next
  <2>4. CASE Tick
    BY <2>4, TickAges DEF Eager!Next
  <2>5. CASE UNCHANGED vars
    <3>1. _store' = _store /\ answer' = answer
      BY <2>5 DEF vars
    <3>2. LiveEntries' = LiveEntries
      BY <3>1, LiveIs, LiveIsNext
    <3> QED
      BY <3>1, <3>2
  <2>6. (\E k \in Keys : delete(k)) \/ (\E p \in Prefixes : invalidate_prefix(p))
          \/ flush \/ stats => \E ks \in SUBSET Keys : Remove(ks)
    <3>1. Keys \in SUBSET Keys /\ \A k \in Keys : {k} \in SUBSET Keys
      OBVIOUS
    <3>2. ExpiredKeys(_store) \in SUBSET Keys
      BY DEF CacheInv, Store, ExpiredKeys
    <3>3. \A p \in Prefixes : p \in SUBSET Keys
      BY Bounds
    <3> QED
      BY <3>1, <3>2, <3>3 DEF delete, invalidate_prefix, flush, stats
  <2> QED
    BY <2>1, <2>2, <2>3, <2>4, <2>5, <2>6 DEF Next
<1> QED
  BY <1>1, <1>2, <1>3, <1>4, PTL DEF ProbeSpec, ImplementsTtlMap, Eager!Spec

-----------------------------------------------------------------------------
(* What a guess is made from.                                              *)

LEMMA Clocks ==
    /\ Horizon \in Nat
    /\ Ttl[Blocked] = NegativeTTL /\ Ttl[Quota] = DefaultTTL
    /\ NegativeTTL \in Nat /\ DefaultTTL \in Nat /\ RpcTimeout \in Nat
<1>1. \E longest \in Ttls : \A ttl \in Ttls : longest >= ttl
  BY ProbeAssumption
<1>2. (CHOOSE ttl \in Ttls : \A other \in Ttls : ttl >= other) \in Nat
  BY <1>1, Bounds
<1>3. Horizon \in Nat
  BY <1>2, Roles DEF Horizon
<1>4. Ttl[Blocked] = NegativeTTL /\ Ttl[Quota] = DefaultTTL
  BY Roles DEF Ttl
<1> QED
  BY <1>3, <1>4, Roles, Bounds

ProbeTypes ==
    /\ rpc \in [Requests -> Values \cup {None}]
    /\ age \in [Requests -> Int]
    /\ said \in [Values -> Nat]

\* A decision on its way is no older than the RPC that carries it.
DecidedLately ==
    \A r \in Requests :
      /\ age[r] <= RpcTimeout
      /\ rpc[r] \in Values /\ rpc[r] # Degraded => said[rpc[r]] <= age[r]

RecentEntry(e, k) ==
    e.left > 0 => e.value # Degraded /\ said[e.value] <= Ttl[k] - e.left + RpcTimeout

\* An entry's ttl begins when the answer is cached.
EntriesRecent ==
    \A k \in {Blocked, Quota} \cap DOMAIN _store : RecentEntry(_store[k], k)

GuessInv == CacheInv /\ ProbeTypes /\ DecidedLately /\ EntriesRecent

\* Whatever is still stored outside of ks is what was stored there.
KeptBut(ks) ==
    \A k \in DOMAIN _store' \ ks : k \in DOMAIN _store /\ _store'[k] = _store[k]

LEMMA CacheKeeps ==
    ASSUME CacheInv
    PROVE  /\ \A ks : get_many(ks) => KeptBut({})
           /\ \A ks : Remove(ks) => KeptBut({})
           /\ \A k \in Keys, val \in Values, ttl \in Ttls :
                set(k, val, ttl) => KeptBut({k}) /\ _store'[k] = Entry(val, ttl)
<1>1. ASSUME NEW ks, _store' = Drop(_store, ks)
      PROVE  KeptBut({})
  <2>1. /\ DOMAIN Drop(_store, ks) = DOMAIN _store \ ks
        /\ \A k \in DOMAIN _store \ ks : Drop(_store, ks)[k] = _store[k]
    BY DropKeeps DEF CacheInv
  <2> QED
    BY <1>1, <2>1 DEF KeptBut
<1>2. ASSUME NEW k \in Keys, NEW val \in Values, NEW ttl \in Ttls, set(k, val, ttl)
      PROVE  KeptBut({k}) /\ _store'[k] = Entry(val, ttl)
  <2> DEFINE s == SweepFor(k)
  <2>1. PICK gone \in Victims(s, k) :
          _store' = [j \in (DOMAIN s \ gone) \cup {k} |->
                       IF j = k THEN Entry(val, ttl) ELSE s[j]]
    BY <1>2 DEF set
  <2>2. DOMAIN s \subseteq DOMAIN _store /\ \A j \in DOMAIN s : s[j] = _store[j]
    BY SweepKeeps DEF CacheInv
  <2> HIDE DEF s
  <2> QED
    BY <2>1, <2>2 DEF KeptBut
<1> QED
  BY <1>1, <1>2 DEF get_many, Remove

\* An operation that writes neither entry of the user.
LEMMA KeptRecent ==
    ASSUME GuessInv, NEW ks, KeptBut(ks), ks \cap {Blocked, Quota} = {}, said' = said
    PROVE  EntriesRecent'
BY DEF GuessInv, EntriesRecent, KeptBut, RecentEntry

\* One that writes an answer that is still on its way.
LEMMA AnswerRecent ==
    ASSUME GuessInv, NEW r \in Requests, rpc[r] # None, Cached(rpc[r]), said' = said
    PROVE  EntriesRecent'
<1>1. rpc[r] \in Values
  BY DEF GuessInv, ProbeTypes
<1>2. /\ rpc[r] # Degraded => said[rpc[r]] <= age[r]
      /\ age[r] <= RpcTimeout /\ age[r] \in Int
  BY <1>1 DEF GuessInv, DecidedLately, ProbeTypes
<1>3. said[rpc[r]] \in Nat
  BY <1>1 DEF GuessInv, ProbeTypes
<1>4. ASSUME NEW k \in {Blocked, Quota}, rpc[r] # Degraded, set(k, rpc[r], Ttl[k])
      PROVE  EntriesRecent'
  <2>1. k \in Keys /\ Ttl[k] \in Ttls /\ Ttl[k] \in Nat
    BY Roles, Clocks
  <2>2. KeptBut({k}) /\ _store'[k] = Entry(rpc[r], Ttl[k])
    BY <1>1, <1>4, <2>1, CacheKeeps DEF GuessInv
  <2>3. said[rpc[r]] <= Ttl[k] - Ttl[k] + RpcTimeout
    BY <1>2, <1>3, <1>4, <2>1, Clocks
  <2>4. RecentEntry(_store'[k], k)
    <3>1. /\ Entry(rpc[r], Ttl[k]).left = Ttl[k]
          /\ Entry(rpc[r], Ttl[k]).value = rpc[r]
      BY <1>1, <2>1, EntryStored
    <3> QED
      BY <1>4, <2>2, <2>3, <3>1 DEF RecentEntry
  <2>5. ASSUME NEW j \in {Blocked, Quota} \cap DOMAIN _store', j # k
        PROVE  RecentEntry(_store'[j], j)
    BY <2>2, <2>5 DEF KeptBut, GuessInv, EntriesRecent
  <2>6. \A j \in {Blocked, Quota} \cap DOMAIN _store' : RecentEntry(_store'[j], j)
    BY <2>4, <2>5
  <2> QED
    BY <2>6 DEF EntriesRecent, RecentEntry
<1>5. CASE rpc[r] = Denied
  BY <1>4, <1>5, Roles, Clocks DEF Cached
<1>6. CASE rpc[r] \in Levels
  BY <1>4, <1>6, Roles, Clocks DEF Cached
<1>7. CASE rpc[r] = Degraded
  <2>1. _store' = _store
    BY <1>7, Roles DEF Cached, vars
  <2> QED
    BY <2>1 DEF GuessInv, EntriesRecent, RecentEntry
<1> QED
  BY <1>5, <1>6, <1>7 DEF Cached

LEMMA AskStep ==
    ASSUME GuessInv, NEW r \in Requests, Ask(r)
    PROVE  ProbeTypes' /\ DecidedLately' /\ EntriesRecent'
<1>1. /\ age[r] < 0 /\ rpc' = rpc /\ said' = said
      /\ age' = age \/ age' = [age EXCEPT ![r] = 0]
  BY DEF Ask, Pending, GuessInv, ProbeTypes
<1>2. EntriesRecent'
  BY <1>1, KeptRecent, CacheKeeps DEF Ask, GuessInv
<1>3. ProbeTypes'
  BY <1>1 DEF GuessInv, ProbeTypes
<1>4. DecidedLately'
  <2>1. rpc[r] \in Values => rpc[r] = Degraded
    <3>1. rpc[r] \in Values => said[rpc[r]] \in Nat /\ age[r] \in Int
      BY DEF GuessInv, ProbeTypes
    <3> QED
      BY <1>1, <3>1 DEF GuessInv, DecidedLately
  <2> QED
    BY <1>1, <2>1, Roles DEF GuessInv, DecidedLately, ProbeTypes
<1> QED
  BY <1>2, <1>3, <1>4

LEMMA DecideStep ==
    ASSUME GuessInv, NEW r \in Requests, NEW val \in Values, Decide(r, val)
    PROVE  ProbeTypes' /\ DecidedLately' /\ EntriesRecent'
<1>1. /\ age[r] >= 0 /\ age' = age /\ _store' = _store
      /\ rpc' = [rpc EXCEPT ![r] = val]
      /\ said' = IF val = Degraded THEN said ELSE [said EXCEPT ![val] = 0]
  BY DEF Decide, Pending, vars
<1>2. ProbeTypes
  BY DEF GuessInv
<1>3. ProbeTypes'
  BY <1>1, <1>2 DEF ProbeTypes
<1>4. \A v \in Values : said'[v] <= said[v]
  BY <1>1, <1>2 DEF ProbeTypes
<1>5. ASSUME NEW q \in Requests
      PROVE  /\ age'[q] <= RpcTimeout
             /\ rpc'[q] \in Values /\ rpc'[q] # Degraded => said'[rpc'[q]] <= age'[q]
  <2>1. /\ age[q] <= RpcTimeout /\ age'[q] = age[q] /\ age[q] \in Int
        /\ rpc[q] \in Values /\ rpc[q] # Degraded => said[rpc[q]] <= age[q]
    BY <1>1, <1>2 DEF GuessInv, DecidedLately, ProbeTypes
  <2>2. CASE q = r
    <3>1. rpc'[q] = val /\ (val # Degraded => said'[val] = 0)
      BY <1>1, <1>2, <2>2 DEF ProbeTypes
    <3> QED
      BY <1>1, <2>1, <2>2, <3>1
  <2>3. CASE q # r
    <3>1. rpc'[q] = rpc[q]
      BY <1>1, <1>2, <2>3 DEF ProbeTypes
    <3>2. rpc[q] \in Values => said[rpc[q]] \in Nat /\ said'[rpc[q]] \in Nat
      BY <1>2, <1>3 DEF ProbeTypes
    <3> QED
      BY <1>4, <2>1, <3>1, <3>2
  <2> QED
    BY <2>2, <2>3
<1>6. DecidedLately'
  BY <1>5 DEF DecidedLately
<1>7. ASSUME NEW k \in {Blocked, Quota} \cap DOMAIN _store, _store[k].left > 0
      PROVE  /\ _store[k].value # Degraded
             /\ said'[_store[k].value] <= Ttl[k] - _store[k].left + RpcTimeout
  <2>1. /\ _store[k].value # Degraded /\ _store[k].value \in Values
        /\ said[_store[k].value] <= Ttl[k] - _store[k].left + RpcTimeout
        /\ _store[k].left \in Nat
    BY <1>7, StoredFields DEF GuessInv, EntriesRecent, RecentEntry, CacheInv, Store
  <2>2. said[_store[k].value] \in Nat /\ said'[_store[k].value] \in Nat /\ Ttl[k] \in Nat
    BY <1>2, <1>3, <2>1, Clocks DEF ProbeTypes
  <2> QED
    BY <1>4, <2>1, <2>2, Clocks
<1>8. EntriesRecent'
  BY <1>1, <1>7 DEF EntriesRecent, RecentEntry
<1> QED
  BY <1>3, <1>6, <1>8

LEMMA EndStep ==
    ASSUME GuessInv, NEW r \in Requests, End(r)
    PROVE  ProbeTypes' /\ DecidedLately'
BY Roles, Clocks DEF GuessInv, ProbeTypes, DecidedLately, End

LEMMA PassStep ==
    ASSUME GuessInv, Pass
    PROVE  ProbeTypes' /\ DecidedLately' /\ EntriesRecent'
<1>1. /\ \A r \in Requests : age[r] < RpcTimeout
      /\ rpc' = rpc /\ Tick
      /\ age' = [r \in Requests |-> IF age[r] >= 0 THEN age[r] + 1 ELSE -1]
      /\ said' = [val \in Values |->
                    IF said[val] < Horizon THEN said[val] + 1 ELSE Horizon]
  BY DEF Pass, Pending
<1>2. ProbeTypes
  BY DEF GuessInv
<1>3. ProbeTypes'
  BY <1>1, <1>2, Clocks DEF ProbeTypes
<1>4. \A v \in Values : said'[v] <= said[v] + 1
  BY <1>1, <1>2, Clocks DEF ProbeTypes
<1>5. ASSUME NEW q \in Requests
      PROVE  /\ age'[q] <= RpcTimeout
             /\ rpc'[q] \in Values /\ rpc'[q] # Degraded => said'[rpc'[q]] <= age'[q]
  <2>1. /\ age[q] < RpcTimeout /\ age[q] \in Int /\ rpc'[q] = rpc[q]
        /\ age'[q] = IF age[q] >= 0 THEN age[q] + 1 ELSE -1
        /\ rpc[q] \in Values /\ rpc[q] # Degraded => said[rpc[q]] <= age[q]
    BY <1>1, <1>2 DEF GuessInv, DecidedLately, ProbeTypes
  <2>2. rpc[q] \in Values => said[rpc[q]] \in Nat /\ said'[rpc[q]] \in Nat
    BY <1>2, <1>3 DEF ProbeTypes
  <2> QED
    BY <1>4, <2>1, <2>2, Clocks
<1>6. DecidedLately'
  BY <1>5 DEF DecidedLately
<1>7. DOMAIN _store' = DOMAIN _store
  BY <1>1, TickEffect DEF GuessInv
<1>8. ASSUME NEW k \in {Blocked, Quota} \cap DOMAIN _store, _store'[k].left > 0
      PROVE  /\ _store'[k].value # Degraded
             /\ said'[_store'[k].value] <= Ttl[k] - _store'[k].left + RpcTimeout
  <2>1. /\ _store'[k].value = _store[k].value /\ _store[k].left \in Nat
        /\ _store[k].value \in Values
        /\ _store'[k].left = IF _store[k].left > 0 THEN _store[k].left - 1 ELSE 0
    BY <1>1, TickEffect, StoredFields DEF GuessInv, CacheInv, Store
  <2>2. _store[k].left > 0 /\ _store'[k].left = _store[k].left - 1
    BY <1>8, <2>1
  <2>3. /\ _store[k].value # Degraded
        /\ said[_store[k].value] <= Ttl[k] - _store[k].left + RpcTimeout
    BY <2>2 DEF GuessInv, EntriesRecent, RecentEntry
  <2>4. said[_store[k].value] \in Nat /\ said'[_store[k].value] \in Nat /\ Ttl[k] \in Nat
    BY <1>2, <1>3, <2>1, Clocks DEF ProbeTypes
  <2>5. said'[_store[k].value] <= Ttl[k] - (_store[k].left - 1) + RpcTimeout
    BY <1>4, <2>1, <2>3, <2>4, Clocks
  <2> QED
    BY <2>1, <2>2, <2>3, <2>5
<1>9. EntriesRecent'
  BY <1>7, <1>8 DEF EntriesRecent, RecentEntry
<1> QED
  BY <1>3, <1>6, <1>9

LEMMA GuessStep ==
    ASSUME GuessInv, [ProbeNext]_probeVars
    PROVE  GuessInv'
<1>1. CacheInv'
  BY CacheStep, ProbeIsCache DEF GuessInv
<1>2. CacheInv
  BY DEF GuessInv
<1>3. CASE \E r \in Requests : Ask(r)
  BY <1>1, <1>3, AskStep DEF GuessInv
<1>4. ASSUME NEW r \in Requests, Answered(r)
      PROVE  GuessInv'
  <2>1. rpc[r] # None /\ Cached(rpc[r]) /\ End(r) /\ said' = said
    BY <1>4 DEF Answered, End
  <2> QED
    BY <1>1, <2>1, EndStep, AnswerRecent DEF GuessInv
<1>5. ASSUME NEW r \in Requests, Lost(r)
      PROVE  GuessInv'
  <2>1. End(r) /\ said' = said /\ _store' = _store
    BY <1>5 DEF Lost, End, vars
  <2>2. EntriesRecent'
    BY <2>1 DEF GuessInv, EntriesRecent, RecentEntry
  <2> QED
    BY <1>1, <2>1, <2>2, EndStep DEF GuessInv
<1>6. CASE \E r \in Requests, val \in Values : Decide(r, val)
  BY <1>1, <1>6, DecideStep DEF GuessInv
<1>7. ASSUME rpc' = rpc, age' = age, said' = said, EntriesRecent'
      PROVE  GuessInv'
  BY <1>1, <1>7 DEF GuessInv, ProbeTypes, DecidedLately
<1>8. CASE Simulate
  <2>1. KeptBut({})
    BY <1>2, <1>8, CacheKeeps DEF Simulate
  <2>2. EntriesRecent'
    BY <1>8, <2>1, KeptRecent DEF Simulate
  <2> QED
    BY <1>7, <1>8, <2>2 DEF Simulate
<1>9. CASE Elsewhere
  <2>1. rpc' = rpc /\ age' = age /\ said' = said
    BY <1>9 DEF Elsewhere
  <2>2. (\E k \in Others : KeptBut({k})) \/ KeptBut({})
    <3>1. CASE \E k \in Others, ttl \in Ttls : set(k, Denied, ttl)
      BY <1>2, <3>1, CacheKeeps, Roles DEF Others
    <3>2. CASE \E ks \in SUBSET Others : get_many(ks)
      BY <1>2, <3>2, CacheKeeps
    <3>3. CASE (\E k \in Keys : delete(k)) \/ (\E p \in Prefixes : invalidate_prefix(p))
                 \/ flush \/ stats
      BY <1>2, <3>3, CacheKeeps DEF delete, invalidate_prefix, flush, stats
    <3> QED
      BY <1>9, <3>1, <3>2, <3>3 DEF Elsewhere
  <2>3. /\ {} \cap {Blocked, Quota} = {}
        /\ \A k \in Others : {k} \cap {Blocked, Quota} = {}
    BY DEF Others
  <2>4. EntriesRecent'
    BY <2>1, <2>2, <2>3, KeptRecent
  <2> QED
    BY <1>7, <2>1, <2>4
<1>10. CASE Pass
  BY <1>1, <1>10, PassStep DEF GuessInv
<1>11. CASE UNCHANGED probeVars
  <2>1. rpc' = rpc /\ age' = age /\ said' = said /\ _store' = _store
    BY <1>11 DEF probeVars, vars
  <2>2. EntriesRecent'
    BY <2>1 DEF GuessInv, EntriesRecent, RecentEntry
  <2> QED
    BY <1>7, <2>1, <2>2
<1> QED
  BY <1>3, <1>4, <1>5, <1>6, <1>8, <1>9, <1>10, <1>11 DEF ProbeNext

LEMMA GuessStart ==
    ASSUME ProbeInit
    PROVE  GuessInv
<1>1. CacheInv /\ _store = << >>
  BY CacheStart DEF ProbeInit, Init
<1>2. /\ rpc = [r \in Requests |-> None] /\ age = [r \in Requests |-> -1]
      /\ said = [val \in Values |-> Horizon]
  BY DEF ProbeInit
<1>3. ProbeTypes /\ DecidedLately
  BY <1>2, Clocks, Roles DEF ProbeTypes, DecidedLately
<1>4. EntriesRecent
  BY <1>1 DEF EntriesRecent
<1> QED
  BY <1>1, <1>3, <1>4 DEF GuessInv

\* A guess of simulate-request rests on a decision no older than the ttl of
\* its entry and the life of an RPC, and never on the fallback of the demo
\* mode, however late and out of order the answers come
\* (gatekeeper.py:202-205, 267-282).
THEOREM GuessesAreRecent == ProbeSpec => []GuessIsRecent
<1>1. ProbeInit => GuessInv
  BY GuessStart
<1>2. GuessInv /\ [ProbeNext]_probeVars => GuessInv'
  BY GuessStep
<1>3. GuessInv => GuessIsRecent
  <2> SUFFICES ASSUME GuessInv, NEW k \in {Blocked, Quota} \cap DOMAIN LiveEntries
               PROVE  said[LiveEntries[k].value] <= Ttl[k] - LiveEntries[k].left + RpcTimeout
    BY DEF GuessIsRecent
  <2>1. k \in LiveKeys(_store) /\ k \in {Blocked, Quota} /\ LiveEntries[k] = _store[k]
    BY LiveIs
  <2>2. k \in DOMAIN _store /\ _store[k].left > 0
    BY <2>1 DEF LiveKeys
  <2>3. said[_store[k].value] <= Ttl[k] - _store[k].left + RpcTimeout
    BY <2>1, <2>2 DEF GuessInv, EntriesRecent, RecentEntry
  <2> QED
    BY <2>1, <2>3
<1> QED
  BY <1>1, <1>2, <1>3, PTL DEF ProbeSpec

=============================================================================
