--------------------------- MODULE UserQuotaProofs ---------------------------
(***************************************************************************)
(* What the row lock buys, for any number of transactions, any costs and   *)
(* any clock: the rate bound of the token bucket, although calls work with *)
(* times older than last_refill_at; the monthly limits of the meter; and,  *)
(* for process_token_bucket_leak alone, the long-run monthly ceiling.      *)
(***************************************************************************)
EXTENDS UserQuota, TLAPS

-----------------------------------------------------------------------------
(* Arithmetic of the refill, the only products in the specification.       *)

LEMMA TimesMinus ==
    ASSUME NEW r \in Nat, NEW a \in Int, NEW b \in Int
    PROVE  r * (a - b) = r * a - r * b
OBVIOUS

LEMMA TimesMonotone ==
    ASSUME NEW r \in Nat, NEW a \in Int, NEW b \in Int, a <= b
    PROVE  r * a <= r * b
<1>1. r * (b - a) >= 0
  <2>1. b - a \in Nat
    OBVIOUS
  <2> QED
    BY <2>1
<1> QED
  BY <1>1, TimesMinus

LEMMA TimesInt ==
    ASSUME NEW r \in Nat, NEW a \in Int
    PROVE  r * a \in Int
OBVIOUS

-----------------------------------------------------------------------------
(* The row lock: a holder is alone, and what it read is still so.          *)

LockInv ==
    /\ \A c, d \in Calls : pc[c] = "holding" /\ pc[d] = "holding" => c = d
    /\ \A c \in Calls :
         pc[c] = "holding" => /\ provisioned
                              /\ v[c].row = quota
                              /\ v[c].used = counters[req[c].month]

\* Nobody works with a time to come.
PastInv ==
    /\ \A c \in Calls : pc[c] # "idle" => req[c].at <= now /\ req[c].month <= month
    /\ provisioned_at.time <= now
    /\ provisioned_at.month <= month
    /\ quota.last_refill_at <= now
    /\ quota.period_start <= month

\* The potential of the bucket is what it was at provisioning, or less.
CreditInv ==
    IF provisioned
      THEN Credit <= MaxTokens - RefillRate * provisioned_at.time
      ELSE consumed = 0

IInv == TypeOK /\ LockInv /\ PastInv /\ CreditInv

LEMMA CostsAreNat ==
    ASSUME NEW r \in Request
    PROVE  r.tokens \in Nat /\ r.usd \in Nat
<1>1. TokenCosts \subseteq Nat /\ {0} \cup UsdCosts \subseteq Nat
  BY QuotaAssumption
<1>2. r.tokens \in TokenCosts /\ r.usd \in {0} \cup UsdCosts
  BY DEF Request
<1> QED
  BY <1>1, <1>2

LEMMA InitIInv == Init => IInv
<1> SUFFICES ASSUME Init
             PROVE  IInv
  OBVIOUS
<1> USE QuotaAssumption
<1>1. /\ now \in Times /\ month \in Months /\ now = 0 /\ month = 0
      /\ consumed = 0 /\ leaked = 0
      /\ \A c \in Calls : pc[c] = "idle"
  BY DEF Init, Times, Months
<1>2. quota \in Row
  BY DEF Init, FullRow, Row, Times, Months
<1>3. counters \in [Months -> Counter]
  BY DEF Init, Counter
<1>4. TypeOK
  <2>1. /\ pc \in [Calls -> {"idle", "waiting", "holding"}]
        /\ provisioned \in BOOLEAN
    BY DEF Init
  <2>2. /\ provisioned_at \in [time : Times, month : Months]
        /\ req \in [Calls -> Request \cup {Nothing}]
        /\ v \in [Calls -> Snapshot \cup {Nothing}]
    BY DEF Init, Times, Months
  <2> QED
    BY <1>1, <1>2, <1>3, <2>1, <2>2 DEF TypeOK
<1>5. LockInv /\ PastInv /\ CreditInv
  BY <1>1 DEF Init, LockInv, PastInv, CreditInv, FullRow
<1> QED
  BY <1>4, <1>5 DEF IInv

\* A call that returns leaves the types in order if its writes do.
LEMMA ReturnTypeOK ==
    ASSUME TypeOK, NEW c \in Calls, Return(c), quota' \in Row,
           counters' \in [Months -> Counter], consumed' \in Nat, leaked' \in Nat
    PROVE  TypeOK'
<1>1. /\ pc' \in [Calls -> {"idle", "waiting", "holding"}]
      /\ \A d \in Calls : pc'[d] # "idle" => /\ d # c
                                             /\ pc'[d] = pc[d]
  BY DEF Return, TypeOK
<1>2. /\ req' \in [Calls -> Request \cup {Nothing}]
      /\ v' \in [Calls -> Snapshot \cup {Nothing}]
      /\ \A d \in Calls : d # c => req'[d] = req[d] /\ v'[d] = v[d]
  BY DEF Return, TypeOK
<1>3. UNCHANGED <<now, month, provisioned, provisioned_at>>
  BY DEF Return
<1> QED
  BY <1>1, <1>2, <1>3 DEF TypeOK

\* What a holder computes, in terms of the row itself.
LEMMA HolderFacts ==
    ASSUME IInv, NEW c \in Calls, pc[c] = "holding"
    PROVE  /\ Refilled(c) \in Int
           /\ Refilled(c) <= MaxTokens
           /\ Refilled(c) <= quota.current_tokens + RefillRate * req[c].at
                               - RefillRate * quota.last_refill_at
           /\ RefillRate * req[c].at \in Int
           /\ RefillRate * quota.last_refill_at \in Int
<1>1. /\ v[c].row = quota
      /\ req[c].at \in Int
      /\ quota.last_refill_at \in Int
      /\ quota.current_tokens \in Int
  BY DEF IInv, TypeOK, LockInv, Row, Request, Times
<1>2. RefillRate * (req[c].at - quota.last_refill_at)
        = RefillRate * req[c].at - RefillRate * quota.last_refill_at
  BY <1>1, QuotaAssumption, TimesMinus
<1>3. /\ RefillRate * req[c].at \in Int
      /\ RefillRate * quota.last_refill_at \in Int
  BY <1>1, QuotaAssumption, TimesInt
<1> QED
  BY <1>1, <1>2, <1>3, QuotaAssumption DEF Refilled

-----------------------------------------------------------------------------
(* Types                                                                   *)

\* Every write to the row that the two functions make keeps its types.
LEMMA WriteRow ==
    ASSUME TypeOK, NEW level \in 0..MaxTokens, NEW at \in Times,
           NEW start \in Months, NEW used \in Nat,
           quota' = [quota EXCEPT !.current_tokens = level,
                                  !.last_refill_at = at,
                                  !.period_start = start,
                                  !.tokens_used = used]
    PROVE  quota' \in Row
BY DEF TypeOK, Row

LEMMA StepTypeOK == IInv /\ [Next]_vars => TypeOK'
<1> SUFFICES ASSUME IInv, [Next]_vars
             PROVE  TypeOK'
  OBVIOUS
<1> USE QuotaAssumption
<1>1. CASE Provision
  <2>1. quota' \in Row
    BY <1>1 DEF Provision, IInv, TypeOK, FullRow, Row, Months, Times
  <2> QED
    BY <1>1, <2>1 DEF Provision, IInv, TypeOK, callVars, grants
<1>2. ASSUME NEW c \in Calls, NEW kind \in Kinds, NEW tokens \in TokenCosts,
             NEW usd \in {0} \cup UsdCosts, Start(c, kind, tokens, usd)
      PROVE  TypeOK'
  <2> DEFINE r == [kind |-> kind, tokens |-> tokens, usd |-> usd,
                   at |-> now, month |-> month]
  <2>1. r \in Request
    BY DEF IInv, TypeOK, Request
  <2>2. /\ pc' = [pc EXCEPT ![c] = "waiting"]
        /\ req' = [req EXCEPT ![c] = r]
        /\ UNCHANGED <<now, month, provisioned, quota, counters, v,
                       provisioned_at, consumed, leaked>>
    BY <1>2 DEF Start, dbVars, history, grants
  <2> QED
    BY <2>1, <2>2 DEF IInv, TypeOK
<1>3. ASSUME NEW c \in Calls, NotFound(c)
      PROVE  TypeOK'
  BY <1>3, ReturnTypeOK DEF NotFound, grants, IInv, TypeOK
<1>4. ASSUME NEW c \in Calls, Lock(c)
      PROVE  TypeOK'
  <2>1. req[c] \in Request
    BY <1>4 DEF Lock, IInv, TypeOK
  <2> DEFINE snap == [row |-> quota, used |-> counters[req[c].month]]
  <2>2. snap \in Snapshot
    BY <2>1 DEF Request, Snapshot, IInv, TypeOK
  <2>3. /\ pc' = [pc EXCEPT ![c] = "holding"]
        /\ v' = [v EXCEPT ![c] = snap]
        /\ UNCHANGED <<now, month, provisioned, quota, counters, req,
                       provisioned_at, consumed, leaked>>
    BY <1>4 DEF Lock, dbVars, history, grants
  <2> QED
    BY <2>1, <2>2, <2>3 DEF IInv, TypeOK
<1>5. ASSUME NEW c \in Calls, Leak(c)
      PROVE  TypeOK'
  <2>1. /\ pc[c] = "holding"
        /\ req[c] \in Request
        /\ v[c].row = quota
        /\ TypeOK
    BY <1>5 DEF Leak, IInv, TypeOK, LockInv
  <2>2. CASE Suspended(c) \/ InternalError(c)
    <3>1. Return(c)
      BY <2>1, <2>2 DEF Suspended, InternalError
    <3>2. UNCHANGED <<quota, counters, consumed, leaked>>
      BY <2>2 DEF Suspended, InternalError, grants
    <3> QED
      BY <2>1, <3>1, <3>2, ReturnTypeOK DEF TypeOK
  <2>3. ASSUME NEW level \in 0..MaxTokens, NEW used \in Nat,
               WriteLeak(c, level, used)
        PROVE  quota' \in Row
    <3> DEFINE start == IF RollsPeriod(c) THEN req[c].month ELSE quota.period_start
               total == (IF RollsPeriod(c) THEN 0 ELSE quota.tokens_used) + used
    <3>1. /\ start \in Months /\ total \in Nat
          /\ req[c].at \in Times
      BY <2>1 DEF TypeOK, Row, Request
    <3>2. quota' = [quota EXCEPT !.current_tokens = level,
                                 !.last_refill_at = req[c].at,
                                 !.period_start = start,
                                 !.tokens_used = total]
      BY <2>3 DEF WriteLeak
    <3> QED
      BY <2>1, <3>1, <3>2, WriteRow
  <2>4. CASE LeakRejected(c)
    <3>1. /\ Refilled(c) \in 0..MaxTokens
          /\ WriteLeak(c, Refilled(c), 0)
      BY <2>1, <2>4, HolderFacts DEF LeakRejected
    <3> QED
      BY <2>1, <2>3, <2>4, <3>1, ReturnTypeOK DEF LeakRejected, grants, TypeOK
  <2>5. CASE LeakAllowed(c)
    <3>1. /\ Refilled(c) - req[c].tokens \in 0..MaxTokens
          /\ req[c].tokens \in Nat
          /\ WriteLeak(c, Refilled(c) - req[c].tokens, req[c].tokens)
          /\ consumed' = consumed + req[c].tokens
          /\ leaked' = leaked + req[c].tokens
      <4>1. req[c].tokens \in Nat \ {0}
        BY <2>1 DEF Request
      <4> QED
        BY <2>1, <2>5, <4>1, HolderFacts DEF LeakAllowed
    <3>2. /\ quota' \in Row /\ consumed' \in Nat /\ leaked' \in Nat
          /\ UNCHANGED counters
      BY <2>1, <2>3, <2>5, <3>1 DEF LeakAllowed, TypeOK
    <3> QED
      BY <2>1, <2>5, <3>2, ReturnTypeOK DEF LeakAllowed, TypeOK
  <2> QED
    BY <1>5, <2>2, <2>4, <2>5 DEF Leak
<1>6. ASSUME NEW c \in Calls, Consume(c)
      PROVE  TypeOK'
  <2>1. /\ pc[c] = "holding"
        /\ req[c] \in Request
        /\ v[c].row = quota
        /\ TypeOK
    BY <1>6 DEF Consume, IInv, TypeOK, LockInv
  <2>2. CASE Suspended(c) \/ OverLimit(c) \/ InternalError(c)
    <3>1. Return(c)
      BY <2>1, <2>2 DEF Suspended, OverLimit, InternalError
    <3>2. UNCHANGED <<quota, counters, consumed, leaked>>
      BY <2>2 DEF Suspended, OverLimit, InternalError, grants
    <3> QED
      BY <2>1, <3>1, <3>2, ReturnTypeOK DEF TypeOK
  <2>3. CASE BucketExhausted(c) /\ ~InternalError(c)
    <3>1. /\ Refilled(c) >= 0
          /\ WriteBucket(Refilled(c), req[c].at)
          /\ Return(c)
          /\ UNCHANGED <<counters, consumed, leaked>>
      BY <2>3 DEF BucketExhausted, grants
    <3>4. Refilled(c) \in 0..MaxTokens
      BY <2>1, <3>1, HolderFacts
    <3>2. /\ quota \in Row
          /\ req[c].at \in Times
          /\ quota' = [quota EXCEPT !.current_tokens = Refilled(c),
                                    !.last_refill_at = req[c].at]
      BY <2>1, <3>1 DEF WriteBucket, TypeOK, Request
    <3>3. quota' \in Row
      BY <3>4, <3>2 DEF Row
    <3> QED
      BY <2>1, <3>1, <3>3, ReturnTypeOK DEF TypeOK
  <2>4. CASE ConsumeAllowed(c)
    <3>1. /\ Refilled(c) - req[c].tokens \in 0..MaxTokens
          /\ req[c].tokens \in Nat
          /\ consumed' = consumed + req[c].tokens
      <4>1. req[c].tokens \in Nat \ {0}
        BY <2>1 DEF Request
      <4> QED
        BY <2>1, <2>4, <4>1, HolderFacts DEF ConsumeAllowed
    <3>2. quota' \in Row /\ consumed' \in Nat
      <4>1. quota \in Row /\ req[c].at \in Times
        BY <2>1 DEF TypeOK, Request
      <4>2. quota' = [quota EXCEPT
                        !.current_tokens = Refilled(c) - req[c].tokens,
                        !.last_refill_at = req[c].at,
                        !.tokens_used = quota.tokens_used + req[c].tokens]
        BY <2>4 DEF ConsumeAllowed
      <4>3. quota.tokens_used + req[c].tokens \in Nat
        BY <3>1, <4>1 DEF Row
      <4>4. quota' \in Row
        BY <3>1, <4>1, <4>2, <4>3 DEF Row
      <4> QED
        BY <2>1, <3>1, <4>4 DEF TypeOK
    <3>3. counters' \in [Months -> Counter] /\ leaked' \in Nat
      BY <2>1, <2>4 DEF ConsumeAllowed, TypeOK, Counter, Request
    <3> QED
      BY <2>1, <2>4, <3>1, <3>2, <3>3, ReturnTypeOK DEF ConsumeAllowed
  <2> QED
    BY <1>6, <2>2, <2>3, <2>4 DEF Consume
<1>7. CASE Tick
  BY <1>7 DEF Tick, IInv, TypeOK, Months, Times, dbVars, callVars, history, grants
<1>8. CASE SetSuspended
  BY <1>8 DEF SetSuspended, IInv, TypeOK, Row, callVars, history, grants
<1>9. CASE UNCHANGED vars
  BY <1>9 DEF vars, IInv, TypeOK, dbVars, callVars, history, grants
<1> QED
  BY <1>1, <1>2, <1>3, <1>4, <1>5, <1>6, <1>7, <1>8, <1>9 DEF Next

-----------------------------------------------------------------------------
(* The lock and the clock                                                  *)

\* Shared by both functions: the holder returns, and nobody else holds.
LEMMA ReturnLockInv ==
    ASSUME IInv, NEW c \in Calls, pc[c] = "holding", Return(c)
    PROVE  LockInv'
<1>1. \A d \in Calls : pc'[d] # "holding"
  BY DEF Return, IInv, TypeOK, LockInv
<1> QED
  BY <1>1 DEF LockInv

LEMMA StepLockInv == IInv /\ [Next]_vars => LockInv'
<1> SUFFICES ASSUME IInv, [Next]_vars
             PROVE  LockInv'
  OBVIOUS
<1>1. CASE Provision
  BY <1>1 DEF Provision, IInv, LockInv, callVars
<1>2. ASSUME NEW c \in Calls, NEW kind, NEW tokens, NEW usd,
             Start(c, kind, tokens, usd)
      PROVE  LockInv'
  BY <1>2 DEF Start, IInv, TypeOK, LockInv, dbVars
<1>3. ASSUME NEW c \in Calls, NotFound(c)
      PROVE  LockInv'
  BY <1>3 DEF NotFound, Return, IInv, TypeOK, LockInv
<1>4. ASSUME NEW c \in Calls, Lock(c)
      PROVE  LockInv'
  BY <1>4 DEF Lock, RowUnlocked, IInv, TypeOK, LockInv, dbVars
<1>5. ASSUME NEW c \in Calls, Leak(c) \/ Consume(c)
      PROVE  LockInv'
  <2>1. pc[c] = "holding"
    BY <1>5 DEF Leak, Consume
  <2>2. Return(c)
    BY <1>5 DEF Leak, Consume, Suspended, InternalError, LeakRejected,
       LeakAllowed, OverLimit, BucketExhausted, ConsumeAllowed
  <2> QED
    BY <2>1, <2>2, ReturnLockInv
<1>6. CASE Tick
  BY <1>6 DEF Tick, IInv, LockInv, dbVars, callVars
<1>7. CASE SetSuspended
  BY <1>7 DEF SetSuspended, RowUnlocked, IInv, LockInv, callVars
<1>8. CASE UNCHANGED vars
  BY <1>8 DEF vars, IInv, LockInv, dbVars, callVars
<1> QED
  BY <1>1, <1>2, <1>3, <1>4, <1>5, <1>6, <1>7, <1>8 DEF Next

-----------------------------------------------------------------------------
(* The clock and the bucket                                                *)

LEMMA StepPastInv == IInv /\ [Next]_vars => PastInv'
<1> SUFFICES ASSUME IInv, [Next]_vars
             PROVE  PastInv'
  OBVIOUS
<1>0. now \in Int /\ month \in Int /\ now <= now /\ month <= month
  BY QuotaAssumption DEF IInv, TypeOK, Times, Months
<1>1. CASE Provision
  BY <1>0, <1>1 DEF Provision, FullRow, IInv, PastInv, callVars
<1>2. ASSUME NEW c \in Calls, NEW kind, NEW tokens, NEW usd,
             Start(c, kind, tokens, usd)
      PROVE  PastInv'
  BY <1>0, <1>2 DEF Start, IInv, TypeOK, PastInv, dbVars, history
<1>3. ASSUME NEW c \in Calls, NotFound(c)
      PROVE  PastInv'
  BY <1>3 DEF NotFound, Return, IInv, TypeOK, PastInv
<1>4. ASSUME NEW c \in Calls, Lock(c)
      PROVE  PastInv'
  BY <1>4 DEF Lock, IInv, TypeOK, PastInv, dbVars, history
<1>5. ASSUME NEW c \in Calls, Leak(c) \/ Consume(c)
      PROVE  PastInv'
  <2>1. /\ pc[c] = "holding"
        /\ req[c].at <= now /\ req[c].month <= month
        /\ quota \in Row
    BY <1>5 DEF Leak, Consume, IInv, TypeOK, PastInv
  <2>2. Return(c)
    BY <1>5 DEF Leak, Consume, Suspended, InternalError, LeakRejected,
       LeakAllowed, OverLimit, BucketExhausted, ConsumeAllowed
  <2>3. /\ quota'.last_refill_at \in {quota.last_refill_at, req[c].at}
        /\ quota'.period_start \in {quota.period_start, req[c].month}
    <3>1. CASE Leak(c)
      BY <2>1, <3>1 DEF Leak, Suspended, InternalError, LeakRejected,
         LeakAllowed, WriteLeak, Row
    <3>2. CASE Consume(c)
      BY <2>1, <3>2 DEF Consume, Suspended, InternalError, OverLimit,
         BucketExhausted, ConsumeAllowed, WriteBucket, Row
    <3> QED
      BY <1>5, <3>1, <3>2
  <2>4. \A d \in Calls : pc'[d] # "idle" => pc[d] # "idle" /\ req'[d] = req[d]
    BY <2>2 DEF Return, IInv, TypeOK
  <2>5. UNCHANGED <<now, month, provisioned_at>>
    BY <2>2 DEF Return
  <2> QED
    BY <2>1, <2>3, <2>4, <2>5 DEF IInv, PastInv
<1>6. CASE Tick
  <2>1. /\ now' = now + 1
        /\ month' \in Int /\ month <= month'
        /\ UNCHANGED <<pc, req, quota, provisioned_at>>
    BY <1>0, <1>6 DEF Tick, dbVars, callVars, history, Months
  <2>2. /\ \A c \in Calls : pc[c] # "idle" => req[c].at \in Int /\ req[c].month \in Int
        /\ provisioned_at.time \in Int /\ provisioned_at.month \in Int
        /\ quota.last_refill_at \in Int /\ quota.period_start \in Int
    BY DEF IInv, TypeOK, Request, Row, Times, Months
  <2> QED
    BY <1>0, <2>1, <2>2 DEF IInv, PastInv
<1>7. CASE SetSuspended
  BY <1>7 DEF SetSuspended, IInv, TypeOK, Row, PastInv, callVars, history
<1>8. CASE UNCHANGED vars
  BY <1>8 DEF vars, IInv, PastInv, dbVars, callVars, history
<1> QED
  BY <1>1, <1>2, <1>3, <1>4, <1>5, <1>6, <1>7, <1>8 DEF Next

\* The decision of a holder either leaves the bucket and the grant alone, or
\* writes the refilled bucket, less what it grants, with the time it sampled.
LEMMA Decision ==
    ASSUME IInv, NEW c \in Calls, Leak(c) \/ Consume(c)
    PROVE  /\ UNCHANGED <<provisioned, provisioned_at>>
           /\ pc[c] = "holding"
           /\ \/ UNCHANGED <<quota, consumed>>
              \/ /\ quota'.last_refill_at = req[c].at
                 /\ \/ /\ quota'.current_tokens = Refilled(c)
                       /\ consumed' = consumed
                    \/ /\ quota'.current_tokens = Refilled(c) - req[c].tokens
                       /\ consumed' = consumed + req[c].tokens
<1>1. pc[c] = "holding" /\ quota \in Row
  BY DEF Leak, Consume, IInv, TypeOK
<1>2. Return(c)
  BY DEF Leak, Consume, Suspended, InternalError, LeakRejected,
     LeakAllowed, OverLimit, BucketExhausted, ConsumeAllowed
<1>3. CASE Leak(c)
  BY <1>1, <1>2, <1>3 DEF Leak, Suspended, InternalError, LeakRejected,
     LeakAllowed, WriteLeak, Row, Return, grants
<1>4. CASE Consume(c)
  BY <1>1, <1>2, <1>4 DEF Consume, Suspended, InternalError, OverLimit,
     BucketExhausted, ConsumeAllowed, WriteBucket, Row, Return, grants
<1> QED
  BY <1>3, <1>4

\* No step of a provisioned user raises the potential of the bucket.
LEMMA StepCredit ==
    ASSUME IInv, [Next]_vars, provisioned
    PROVE  Credit' <= Credit /\ provisioned' /\ UNCHANGED provisioned_at
<1>0. /\ quota.current_tokens \in Int /\ consumed \in Int
      /\ RefillRate * quota.last_refill_at \in Int
  BY QuotaAssumption, TimesInt DEF IInv, TypeOK, Row, Times
<1>1. ASSUME UNCHANGED <<quota, consumed, provisioned, provisioned_at>>
      PROVE  Credit' <= Credit /\ provisioned' /\ UNCHANGED provisioned_at
  BY <1>0, <1>1 DEF Credit
<1>2. ASSUME NEW c \in Calls, Leak(c) \/ Consume(c)
      PROVE  Credit' <= Credit /\ provisioned' /\ UNCHANGED provisioned_at
  <2>1. /\ pc[c] = "holding"
        /\ UNCHANGED <<provisioned, provisioned_at>>
    BY <1>2, Decision
  <2>2. CASE UNCHANGED <<quota, consumed>>
    BY <1>1, <2>1, <2>2
  <2>3. CASE /\ quota'.last_refill_at = req[c].at
             /\ \/ /\ quota'.current_tokens = Refilled(c)
                   /\ consumed' = consumed
                \/ /\ quota'.current_tokens = Refilled(c) - req[c].tokens
                   /\ consumed' = consumed + req[c].tokens
    <3>0. req[c] \in Request
      BY <2>1 DEF IInv, TypeOK
    <3>1. req[c].tokens \in Int
      BY <3>0, CostsAreNat
    <3>2. /\ Refilled(c) \in Int
          /\ Refilled(c) <= quota.current_tokens + RefillRate * req[c].at
                              - RefillRate * quota.last_refill_at
          /\ RefillRate * req[c].at \in Int
      BY <2>1, HolderFacts
    <3>3. Credit' = consumed' + quota'.current_tokens - RefillRate * req[c].at
      BY <2>3 DEF Credit
    <3>4. consumed' + quota'.current_tokens = consumed + Refilled(c)
      BY <1>0, <2>3, <3>1, <3>2
    <3>5. Credit' <= Credit
      BY <1>0, <2>3, <3>1, <3>2, <3>3, <3>4 DEF Credit
    <3> QED
      BY <2>1, <3>5
  <2> QED
    BY <1>2, <2>2, <2>3, Decision
<1>3. CASE SetSuspended
  BY <1>0, <1>3 DEF SetSuspended, Credit, IInv, TypeOK, Row, history, grants
<1> QED
  BY <1>1, <1>2, <1>3 DEF Next, Provision, Start, NotFound, Return, Lock, Tick,
     vars, dbVars, callVars, history, grants

LEMMA StepCreditInv == IInv /\ [Next]_vars => CreditInv'
<1> SUFFICES ASSUME IInv, [Next]_vars
             PROVE  CreditInv'
  OBVIOUS
<1>1. CASE provisioned
  <2>1. TypeOK'
    BY StepTypeOK
  <2>2. /\ Credit \in Int /\ Credit' \in Int
        /\ RefillRate * provisioned_at.time \in Int
    BY <2>1, QuotaAssumption, TimesInt DEF IInv, TypeOK, Row, Times, Credit
  <2> QED
    BY <1>1, <2>2, StepCredit, QuotaAssumption DEF IInv, CreditInv
<1>2. CASE ~provisioned /\ Provision
  <2>1. /\ quota'.current_tokens = MaxTokens
        /\ quota'.last_refill_at = now
        /\ provisioned_at'.time = now
        /\ consumed' = 0
        /\ provisioned'
    BY <1>2 DEF Provision, FullRow, IInv, CreditInv, grants
  <2>2. RefillRate * now \in Int
    BY QuotaAssumption, TimesInt DEF IInv, TypeOK, Times
  <2> QED
    BY <2>1, <2>2, QuotaAssumption DEF CreditInv, Credit
<1>3. CASE ~provisioned /\ ~Provision
  <2>1. \A c \in Calls : pc[c] # "holding"
    BY <1>3 DEF IInv, LockInv
  <2>2. UNCHANGED <<provisioned, consumed>>
    BY <1>3, <2>1 DEF Next, Start, NotFound, Return, Lock, Leak, Consume,
       Tick, SetSuspended, vars, dbVars, callVars, history, grants
  <2> QED
    BY <1>3, <2>2 DEF IInv, CreditInv
<1> QED
  BY <1>1, <1>2, <1>3

LEMMA BoundFromIInv == IInv => RateBound
<1> SUFFICES ASSUME IInv
             PROVE  RateBound
  OBVIOUS
<1>1. /\ now \in Int /\ provisioned_at.time \in Int
      /\ quota.last_refill_at \in Int
      /\ quota.current_tokens \in Nat /\ consumed \in Nat
      /\ provisioned_at.time <= now
      /\ quota.last_refill_at <= now
  BY DEF IInv, TypeOK, PastInv, Row, Times
<1>2. /\ RefillRate * (now - provisioned_at.time)
           = RefillRate * now - RefillRate * provisioned_at.time
      /\ RefillRate * quota.last_refill_at <= RefillRate * now
      /\ RefillRate * provisioned_at.time <= RefillRate * now
      /\ RefillRate * now \in Int
      /\ RefillRate * provisioned_at.time \in Int
      /\ RefillRate * quota.last_refill_at \in Int
  BY <1>1, QuotaAssumption, TimesMinus, TimesMonotone, TimesInt
<1> QED
  BY <1>1, <1>2, QuotaAssumption DEF RateBound, IInv, CreditInv, Credit

LEMMA IInvariant == Spec => []IInv
<1>1. IInv /\ [Next]_vars => IInv'
  BY StepTypeOK, StepLockInv, StepPastInv, StepCreditInv DEF IInv
<1> QED
  BY InitIInv, <1>1, PTL DEF Spec

-----------------------------------------------------------------------------
(* What holds of every user_quotas row                                     *)

\* The row is always well typed, its balance between 0 and max_tokens: no
\* write is ever refused but the one that WHEN OTHERS catches.
THEOREM TypeCorrect == Spec => []TypeOK
<1>1. IInv => TypeOK
  BY DEF IInv
<1> QED
  BY IInvariant, <1>1, PTL

\* Concurrent calls, with times sampled before the lock was granted, get no
\* more tokens than a full bucket and the refill since provisioning.
THEOREM RateLimited == Spec => []RateBound
BY IInvariant, BoundFromIInv, PTL

\* From any moment on, too, the grant is bounded by bucket and refill: no step
\* of any interleaving raises the potential.
THEOREM PotentialNeverRises == Spec => NoFreeTokens
<1>1. IInv /\ [Next]_vars => [provisioned => Credit' <= Credit]_vars
  BY StepCredit
<1> QED
  BY IInvariant, <1>1, PTL DEF Spec, NoFreeTokens

-----------------------------------------------------------------------------
(* The meter of check_and_consume_ai_usage                                 *)

LEMMA StepMeter == IInv /\ MeterWithinLimits /\ [Next]_vars => MeterWithinLimits'
<1> SUFFICES ASSUME IInv, MeterWithinLimits, [Next]_vars,
                    NEW m \in Months
             PROVE  /\ counters'[m].messages_used <= MessageLimit
                    /\ counters'[m].budget_used <= BudgetUsd
  BY DEF MeterWithinLimits
<1>1. CASE UNCHANGED counters
  BY <1>1 DEF MeterWithinLimits
<1>2. ASSUME NEW c \in Calls, pc[c] = "holding", ConsumeAllowed(c)
      PROVE  /\ counters'[m].messages_used <= MessageLimit
             /\ counters'[m].budget_used <= BudgetUsd
  <2>1. /\ req[c] \in Request
        /\ v[c].used = counters[req[c].month]
        /\ counters \in [Months -> Counter]
    BY <1>2 DEF IInv, TypeOK, LockInv
  <2>2. CASE m # req[c].month
    BY <1>2, <2>1, <2>2 DEF ConsumeAllowed, MeterWithinLimits
  <2>3. CASE m = req[c].month
    <3>1. /\ counters[m].messages_used \in Nat /\ counters[m].budget_used \in Nat
          /\ req[c].usd \in Nat
      BY <2>1, CostsAreNat DEF Counter
    <3>2. /\ ~(counters[m].messages_used >= MessageLimit)
          /\ ~(counters[m].budget_used + req[c].usd > BudgetUsd)
      BY <1>2, <2>1, <2>3 DEF ConsumeAllowed, WithinLimits, OverMessageLimit,
         OverDollarBudget
    <3>3. /\ counters'[m].messages_used = counters[m].messages_used + 1
          /\ counters'[m].budget_used = counters[m].budget_used + req[c].usd
      BY <1>2, <2>1, <2>3 DEF ConsumeAllowed, Counter
    <3> QED
      BY <3>1, <3>2, <3>3, QuotaAssumption
  <2> QED
    BY <2>2, <2>3
<1> QED
  BY <1>1, <1>2 DEF Next, Provision, Start, NotFound, Return, Lock, Leak,
     Consume, Suspended, InternalError, LeakRejected, LeakAllowed, OverLimit,
     BucketExhausted, Tick, SetSuspended, vars, dbVars

\* However many calls are in flight when the month ends, no month is charged
\* more messages or dollars than the tier allows.
THEOREM MeterLimited == Spec => []MeterWithinLimits
<1>1. Init => MeterWithinLimits
  BY QuotaAssumption DEF Init, MeterWithinLimits
<1> QED
  BY <1>1, StepMeter, IInvariant, PTL DEF Spec

-----------------------------------------------------------------------------
(* The monthly ceiling of process_token_bucket_leak                        *)

\* The bucket function has granted no more than a budget for each period
\* before the current one and what the current one shows, nor than a budget
\* for each, the current one included.
PeriodInv ==
    IF provisioned
      THEN LET before == MonthlyTokenBudget
                           * (quota.period_start - provisioned_at.month)
           IN  leaked <= before + quota.tokens_used /\ leaked <= before + MonthlyTokenBudget
      ELSE leaked = 0

LEMMA PeriodTypes ==
    ASSUME TypeOK
    PROVE  /\ quota.tokens_used \in Nat
           /\ quota.period_start \in Int
           /\ provisioned_at.month \in Int
           /\ leaked \in Nat
           /\ month \in Int
           /\ MonthlyTokenBudget \in Nat
           /\ \A a, b \in Int : /\ MonthlyTokenBudget * (a - b) \in Int
                               /\ a < b => MonthlyTokenBudget * a + MonthlyTokenBudget
                                             <= MonthlyTokenBudget * b
                               /\ MonthlyTokenBudget * (a - b)
                                    = MonthlyTokenBudget * a - MonthlyTokenBudget * b
                               /\ MonthlyTokenBudget * a \in Int
<1>1. MonthlyTokenBudget \in Nat
  BY QuotaAssumption
<1>2. ASSUME NEW a \in Int, NEW b \in Int, a < b
      PROVE  MonthlyTokenBudget * a + MonthlyTokenBudget <= MonthlyTokenBudget * b
  <2>1. MonthlyTokenBudget * (a + 1) <= MonthlyTokenBudget * b
    BY <1>1, <1>2, TimesMonotone
  <2>2. MonthlyTokenBudget * (a + 1) = MonthlyTokenBudget * a + MonthlyTokenBudget
    BY <1>1
  <2> QED
    BY <2>1, <2>2
<1>3. \A a, b \in Int : /\ MonthlyTokenBudget * (a - b) \in Int
                       /\ MonthlyTokenBudget * a \in Int
                       /\ MonthlyTokenBudget * (a - b)
                            = MonthlyTokenBudget * a - MonthlyTokenBudget * b
  BY <1>1, TimesMinus, TimesInt
<1>4. /\ quota.tokens_used \in Nat
      /\ quota.period_start \in Int
      /\ provisioned_at.month \in Int
      /\ leaked \in Nat
      /\ month \in Int
  BY DEF TypeOK, Row, Months
<1> QED
  BY <1>1, <1>2, <1>3, <1>4

\* What process_token_bucket_leak does to the period.
LEMMA LeakPeriod ==
    ASSUME IInv, NEW c \in Calls, Leak(c)
    PROVE  \/ UNCHANGED <<quota, leaked>>
           \/ \E used \in Nat :
                /\ leaked' = leaked + used
                /\ \/ /\ quota'.period_start = quota.period_start
                      /\ quota'.tokens_used = quota.tokens_used + used
                      /\ used = 0 \/ quota'.tokens_used <= MonthlyTokenBudget
                   \/ /\ quota'.period_start \in Months
                      /\ quota'.period_start > quota.period_start
                      /\ quota'.tokens_used = used
                      /\ used <= MonthlyTokenBudget
<1>1. /\ pc[c] = "holding" /\ req[c] \in Request
      /\ v[c].row = quota /\ quota \in Row
  BY DEF Leak, IInv, TypeOK, LockInv
<1>2. req[c].tokens \in Nat /\ req[c].month \in Months
  BY <1>1, CostsAreNat DEF Request
<1>3. quota.tokens_used \in Nat /\ leaked \in Nat /\ MonthlyTokenBudget \in Nat
  BY <1>1, QuotaAssumption DEF IInv, TypeOK, Row
<1>4. ASSUME NEW level, NEW used \in Nat, WriteLeak(c, level, used)
      PROVE  IF RollsPeriod(c)
               THEN /\ quota'.period_start = req[c].month
                    /\ quota'.tokens_used = used
               ELSE /\ quota'.period_start = quota.period_start
                    /\ quota'.tokens_used = quota.tokens_used + used
  BY <1>1, <1>3, <1>4 DEF WriteLeak, Row
<1>5. CASE Suspended(c) \/ InternalError(c)
  BY <1>5 DEF Suspended, InternalError, grants
<1>6. CASE LeakRejected(c)
  <2>1. WriteLeak(c, Refilled(c), 0) /\ leaked' = leaked
    BY <1>6 DEF LeakRejected, grants
  <2> QED
    BY <1>1, <1>2, <1>3, <1>4, <2>1 DEF RollsPeriod
<1>7. CASE LeakAllowed(c)
  <2>1. /\ WriteLeak(c, Refilled(c) - req[c].tokens, req[c].tokens)
        /\ leaked' = leaked + req[c].tokens
        /\ ~(UsedThisPeriod(c) + req[c].tokens > MonthlyTokenBudget)
    BY <1>7 DEF LeakAllowed, OverMonthlyBudget
  <2> QED
    BY <1>1, <1>2, <1>3, <1>4, <2>1 DEF RollsPeriod, UsedThisPeriod
<1> QED
  BY <1>5, <1>6, <1>7 DEF Leak

\* check_and_consume_ai_usage adds to the period and never rolls it.
LEMMA ConsumePeriod ==
    ASSUME IInv, NEW c \in Calls, Consume(c)
    PROVE  /\ UNCHANGED leaked
           /\ quota'.period_start = quota.period_start
           /\ quota'.tokens_used >= quota.tokens_used
<1>1. /\ req[c] \in Request /\ v[c].row = quota /\ quota \in Row
  BY DEF Consume, IInv, TypeOK, LockInv
<1>2. req[c].tokens \in Nat /\ quota.tokens_used \in Nat
  BY <1>1, CostsAreNat DEF Row
<1>3. CASE Suspended(c) \/ OverLimit(c) \/ InternalError(c)
  BY <1>2, <1>3 DEF Suspended, OverLimit, InternalError, grants
<1>4. CASE BucketExhausted(c) /\ ~InternalError(c)
  <2>1. /\ UNCHANGED leaked
        /\ WriteBucket(Refilled(c), req[c].at)
    BY <1>4 DEF BucketExhausted, grants
  <2>2. quota' = [quota EXCEPT !.current_tokens = Refilled(c),
                              !.last_refill_at = req[c].at]
    BY <2>1 DEF WriteBucket
  <2>3. /\ quota'.period_start = quota.period_start
        /\ quota'.tokens_used = quota.tokens_used
    BY <1>1, <2>2 DEF Row
  <2> QED
    BY <1>2, <2>1, <2>3
<1>5. CASE ConsumeAllowed(c)
  <2>1. /\ UNCHANGED leaked
        /\ quota' = [quota EXCEPT
                       !.current_tokens = Refilled(c) - req[c].tokens,
                       !.last_refill_at = req[c].at,
                       !.tokens_used = quota.tokens_used + req[c].tokens]
    BY <1>5 DEF ConsumeAllowed
  <2>2. /\ quota'.period_start = quota.period_start
        /\ quota'.tokens_used = quota.tokens_used + req[c].tokens
    BY <1>1, <2>1 DEF Row
  <2> QED
    BY <1>2, <2>1, <2>2
<1> QED
  BY <1>3, <1>4, <1>5 DEF Consume

LEMMA StepPeriod ==
    ASSUME IInv, IInv', PeriodInv, [Next]_vars
    PROVE  PeriodInv'
<1> USE DEF PeriodInv
<1>0. TypeOK /\ TypeOK'
  BY DEF IInv
<1>1. ASSUME UNCHANGED <<provisioned, provisioned_at, leaked, quota>>
      PROVE  PeriodInv'
  BY <1>1
<1>2. CASE Provision
  <2>1. /\ quota'.tokens_used = 0 /\ leaked' = 0
        /\ quota'.period_start = month /\ provisioned_at'.month = month
    BY <1>2 DEF Provision, FullRow, grants
  <2>2. MonthlyTokenBudget * (month - month) = 0
    BY <1>0, PeriodTypes
  <2> QED
    BY <1>0, <2>1, <2>2, PeriodTypes
<1>3. CASE SetSuspended
  BY <1>3 DEF SetSuspended, IInv, TypeOK, Row, history, grants
<1>4. ASSUME NEW c \in Calls, Leak(c)
      PROVE  PeriodInv'
  <2>1. /\ UNCHANGED <<provisioned, provisioned_at>>
        /\ provisioned
    BY <1>4, Decision DEF IInv, LockInv
  <2>2. CASE UNCHANGED <<quota, leaked>>
    BY <1>1, <2>1, <2>2
  <2>3. ASSUME NEW used \in Nat, leaked' = leaked + used,
               quota'.period_start = quota.period_start,
               quota'.tokens_used = quota.tokens_used + used,
               used = 0 \/ quota'.tokens_used <= MonthlyTokenBudget
        PROVE  PeriodInv'
    BY <1>0, <2>1, <2>3, PeriodTypes
  <2>4. ASSUME NEW used \in Nat, leaked' = leaked + used,
               quota'.period_start \in Months,
               quota'.period_start > quota.period_start,
               quota'.tokens_used = used,
               used <= MonthlyTokenBudget
        PROVE  PeriodInv'
    <3>1. quota'.period_start \in Int
      BY <2>4 DEF Months
    <3>2. MonthlyTokenBudget * quota.period_start + MonthlyTokenBudget
            <= MonthlyTokenBudget * quota'.period_start
      BY <1>0, <2>4, <3>1, PeriodTypes
    <3>3. leaked <= MonthlyTokenBudget * quota'.period_start
                      - MonthlyTokenBudget * provisioned_at.month
      BY <1>0, <2>1, <3>1, <3>2, PeriodTypes
    <3>4. leaked <= MonthlyTokenBudget * (quota'.period_start - provisioned_at.month)
      BY <1>0, <3>1, <3>3, PeriodTypes
    <3> QED
      BY <1>0, <2>1, <2>4, <3>1, <3>4, PeriodTypes
  <2> QED
    BY <1>4, <2>2, <2>3, <2>4, LeakPeriod
<1>5. ASSUME NEW c \in Calls, Consume(c)
      PROVE  PeriodInv'
  <2>1. UNCHANGED <<provisioned, provisioned_at>> /\ provisioned
    BY <1>5, Decision DEF IInv, LockInv
  <2>2. /\ UNCHANGED leaked
        /\ quota'.period_start = quota.period_start
        /\ quota'.tokens_used >= quota.tokens_used
    BY <1>5, ConsumePeriod
  <2>3. quota'.tokens_used \in Nat /\ quota.tokens_used \in Nat
    BY <1>0, PeriodTypes DEF TypeOK, Row
  <2> DEFINE before == MonthlyTokenBudget
                         * (quota.period_start - provisioned_at.month)
  <2>4. /\ before \in Int /\ leaked \in Nat
        /\ leaked <= before + quota.tokens_used
        /\ leaked <= before + MonthlyTokenBudget
    BY <1>0, <2>1, PeriodTypes
  <2>5. before' = before
    BY <2>1, <2>2
  <2>6. leaked' <= before' + quota'.tokens_used /\ leaked' <= before' + MonthlyTokenBudget
    <3> HIDE DEF before
    <3> QED
      BY <2>2, <2>3, <2>4, <2>5
  <2> QED
    BY <2>1, <2>6
<1> QED
  BY <1>1, <1>2, <1>3, <1>4, <1>5 DEF Next, Start, NotFound, Return, Lock,
     Tick, vars, dbVars, callVars, history, grants

\* process_token_bucket_leak keeps the long-run ceiling, a budget for each
\* calendar month begun, although late calls book old months and the other
\* function books under its period.
THEOREM LeakKeepsCeiling == Spec => []LongRunCeiling
<1>1. Init => PeriodInv
  BY DEF Init, PeriodInv
<1>2. IInv /\ IInv' /\ PeriodInv /\ [Next]_vars => PeriodInv'
  BY StepPeriod
<1>3. IInv /\ PeriodInv => LongRunCeiling
  <2> SUFFICES ASSUME IInv, PeriodInv
               PROVE  LongRunCeiling
    OBVIOUS
  <2>1. /\ TypeOK
        /\ quota.period_start <= month
        /\ provisioned_at.month <= month
    BY DEF IInv, PastInv
  <2> DEFINE B == MonthlyTokenBudget
             p == provisioned_at.month
  <2>2. month + 1 \in Int /\ quota.period_start < month + 1 /\ p < month + 1
    BY <2>1, PeriodTypes
  <2>0. /\ month \in Int /\ month + 1 \in Int
        /\ p \in Int /\ quota.period_start \in Int
    BY <2>1, PeriodTypes
  <2>3. /\ B * quota.period_start + B <= B * (month + 1)
        /\ B * p + B <= B * (month + 1)
        /\ B * (month + 1 - p) = B * (month + 1) - B * p
        /\ B * (quota.period_start - p) = B * quota.period_start - B * p
        /\ B * (month + 1) \in Int /\ B * p \in Int /\ B * quota.period_start \in Int
        /\ B \in Nat
    <3>1. \A m, n \in Int : /\ m < n => B * m + B <= B * n
                            /\ B * (n - m) = B * n - B * m
                            /\ B * m \in Int
      BY <2>1, PeriodTypes
    <3>2. B \in Nat
      BY <2>1, PeriodTypes
    <3> HIDE DEF B, p
    <3> QED
      BY <2>0, <2>2, <3>1, <3>2
  <2>4. leaked <= B * (month + 1 - p)
    <3>1. CASE provisioned
      BY <2>1, <2>3, <3>1, PeriodTypes DEF PeriodInv
    <3>2. CASE ~provisioned
      BY <2>3, <3>2 DEF PeriodInv
    <3> QED
      BY <3>1, <3>2
  <2>5. month + 1 - p = month - p + 1
    BY <2>1, PeriodTypes
  <2> QED
    BY <2>4, <2>5 DEF LongRunCeiling
<1> QED
  BY <1>1, <1>2, <1>3, IInvariant, PTL DEF Spec
=============================================================================
