------------------------------ MODULE UserQuota ------------------------------
(***************************************************************************)
(* The quota of one user: the user_quotas row and the monthly              *)
(* usage_counters, as concurrent database transactions read and write them *)
(* (migrations 002, 005, 007 and 011).                                     *)
(*                                                                         *)
(* A call samples clock_timestamp() before it asks for the row lock, waits *)
(* for the lock, reads the row, and commits its decision.  The clock, and  *)
(* with it the calendar month, may move between any two of these steps, so *)
(* a call that waited works with an old time.                              *)
(***************************************************************************)
EXTENDS Integers

CONSTANTS
    Calls,               \* concurrent transactions
    Kinds,               \* which of the two functions are in use:
                         \*   "leak"     process_token_bucket_leak
                         \*   "consume"  check_and_consume_ai_usage
    MaxTokens,           \* user_quotas.max_tokens
    RefillRate,          \* user_quotas.refill_rate, tokens per clock tick
    MonthlyTokenBudget,  \* user_quotas.monthly_token_budget
    MessageLimit,        \* billing_tiers.monthly_message_limit
    BudgetUsd,           \* billing_tiers.monthly_budget_usd
    TokenCosts,          \* request costs in tokens
    UsdCosts,            \* estimated costs in USD
    MaxTime, MaxMonth    \* bounds on the clock and on the calendar

ASSUME QuotaAssumption ==
    /\ Kinds \subseteq {"leak", "consume"}
    /\ MaxTokens \in Nat \ {0} /\ RefillRate \in Nat \ {0}
    /\ MonthlyTokenBudget \in Nat \ {0}
    /\ MessageLimit \in Nat /\ BudgetUsd \in Nat
    /\ TokenCosts \subseteq Nat \ {0} /\ UsdCosts \subseteq Nat
    /\ MaxTime \in Nat /\ MaxMonth \in Nat

VARIABLES
    now, month,        \* the clock, and its calendar month
    provisioned,       \* is there a user_quotas row?
    quota,             \* the user_quotas row
    counters,          \* usage_counters, one row for each month
    pc,                \* "idle", "waiting" for the row lock, or "holding" it
    req,               \* the request of a call, with the time it sampled
    v,                 \* what a call read under its lock
    provisioned_at,    \* history: clock and month at provisioning
    consumed,          \* history: tokens granted since provisioning
    leaked             \* history: those that process_token_bucket_leak granted

dbVars == <<provisioned, quota, counters>>
callVars == <<pc, req, v>>
grants == <<consumed, leaked>>
history == <<provisioned_at, grants>>
vars == <<now, month, dbVars, callVars, history>>

Months == 0..MaxMonth
Times == 0..MaxTime

Row == [current_tokens : 0..MaxTokens, last_refill_at : Times,
        period_start : Months, tokens_used : Nat, is_suspended : BOOLEAN]
Counter == [messages_used : Nat, budget_used : Nat]
Request == [kind : Kinds, tokens : TokenCosts, usd : {0} \cup UsdCosts,
            at : Times, month : Months]
Snapshot == [row : Row, used : Counter]

FullRow == [current_tokens |-> MaxTokens, last_refill_at |-> now,
            period_start |-> month, tokens_used |-> 0, is_suspended |-> FALSE]

Nothing == [idle |-> TRUE]   \* the local variables of an idle call

Init ==
    /\ now = 0
    /\ month = 0
    /\ provisioned = FALSE
    /\ quota = FullRow
    /\ counters = [m \in Months |-> [messages_used |-> 0, budget_used |-> 0]]
    /\ pc = [c \in Calls |-> "idle"]
    /\ req = [c \in Calls |-> Nothing]
    /\ v = [c \in Calls |-> Nothing]
    /\ provisioned_at = [time |-> 0, month |-> 0]
    /\ consumed = 0
    /\ leaked = 0

-----------------------------------------------------------------------------
(* Life of a call.                                                         *)

\* provision_user_quota: a full bucket, unless there is a row already.
Provision ==
    /\ ~provisioned
    /\ provisioned' = TRUE
    /\ quota' = FullRow
    /\ provisioned_at' = [time |-> now, month |-> month]
    /\ UNCHANGED <<now, month, counters, callVars, grants>>

Start(c, kind, tokens, usd) ==
    /\ pc[c] = "idle"
    /\ pc' = [pc EXCEPT ![c] = "waiting"]
    /\ req' = [req EXCEPT ![c] = [kind |-> kind, tokens |-> tokens,
                                  usd |-> usd, at |-> now, month |-> month]]
    /\ UNCHANGED <<now, month, dbVars, v, history>>

\* Seeded fault: the row is read without FOR UPDATE.
RowUnlocked_ignored == TRUE

RowUnlocked == \A c \in Calls : pc[c] # "holding"

Return(c) ==
    /\ pc' = [pc EXCEPT ![c] = "idle"]
    /\ req' = [req EXCEPT ![c] = Nothing]
    /\ v' = [v EXCEPT ![c] = Nothing]
    /\ UNCHANGED <<now, month, provisioned, provisioned_at>>

\* SELECT ... FOR UPDATE finds no row: the call returns.
NotFound(c) ==
    /\ pc[c] = "waiting"
    /\ ~provisioned
    /\ Return(c)
    /\ UNCHANGED <<quota, counters, grants>>

\* SELECT ... FOR UPDATE gets the lock; everything the decision needs is read
\* while it is held.
Lock(c) ==
    /\ pc[c] = "waiting"
    /\ provisioned
    /\ RowUnlocked
    /\ pc' = [pc EXCEPT ![c] = "holding"]
    /\ v' = [v EXCEPT ![c] = [row |-> quota, used |-> counters[req[c].month]]]
    /\ UNCHANGED <<now, month, dbVars, req, history>>

-----------------------------------------------------------------------------
(* What both functions compute from the locked row.                        *)

\* Seeded fault: the refill is not capped at the size of the bucket.
Refilled_uncapped(c) ==
    v[c].row.current_tokens
      + RefillRate * (req[c].at - v[c].row.last_refill_at)

\* The bucket at the sampled time; negative elapsed time takes tokens back.
Refilled(c) ==
    LET level == v[c].row.current_tokens
                   + RefillRate * (req[c].at - v[c].row.last_refill_at)
    IN  IF level <= MaxTokens THEN level ELSE MaxTokens

\* Seeded fault: a rejected call refills but does not move the refill time.
WriteBucket_keepsTime(level, at) ==
    quota' = [quota EXCEPT !.current_tokens = level]

WriteBucket(level, at) ==
    quota' = [quota EXCEPT !.current_tokens = level, !.last_refill_at = at]

\* The CHECK constraint refuses a negative balance; the handler of WHEN OTHERS
\* undoes the statement and everything before it.
InternalError(c) ==
    /\ Refilled(c) < 0
    /\ Return(c)
    /\ UNCHANGED <<quota, counters, grants>>

Suspended(c) ==
    /\ v[c].row.is_suspended
    /\ Return(c)
    /\ UNCHANGED <<quota, counters, grants>>

-----------------------------------------------------------------------------
(* process_token_bucket_leak                                               *)

\* Seeded fault: any change of month rolls the period, backwards too.
RollsPeriod_anyChange(c) == req[c].month # v[c].row.period_start

RollsPeriod(c) == req[c].month > v[c].row.period_start

UsedThisPeriod(c) == IF RollsPeriod(c) THEN 0 ELSE v[c].row.tokens_used

OverMonthlyBudget(c) == UsedThisPeriod(c) + req[c].tokens > MonthlyTokenBudget

\* The UPDATEs of the roll and of the decision, in one.
WriteLeak(c, level, used) ==
    quota' = [quota EXCEPT
                !.current_tokens = level,
                !.last_refill_at = req[c].at,
                !.period_start = IF RollsPeriod(c) THEN req[c].month ELSE @,
                !.tokens_used = (IF RollsPeriod(c) THEN 0 ELSE @) + used]

LeakRejected(c) ==
    /\ ~v[c].row.is_suspended
    /\ Refilled(c) >= 0
    /\ WriteLeak(c, Refilled(c), 0)
    /\ OverMonthlyBudget(c) \/ Refilled(c) < req[c].tokens
    /\ Return(c)
    /\ UNCHANGED <<counters, grants>>

LeakAllowed(c) ==
    /\ ~v[c].row.is_suspended
    /\ ~OverMonthlyBudget(c)
    /\ Refilled(c) >= req[c].tokens
    /\ WriteLeak(c, Refilled(c) - req[c].tokens, req[c].tokens)
    /\ consumed' = consumed + req[c].tokens
    /\ leaked' = leaked + req[c].tokens
    /\ Return(c)
    /\ UNCHANGED counters

Leak(c) ==
    /\ pc[c] = "holding"
    /\ req[c].kind = "leak"
    /\ \/ Suspended(c)
       \/ ~v[c].row.is_suspended /\ InternalError(c)
       \/ LeakRejected(c)
       \/ LeakAllowed(c)

-----------------------------------------------------------------------------
(* check_and_consume_ai_usage                                              *)

\* Seeded fault: one message more than the limit.
OverMessageLimit_offByOne(c) == v[c].used.messages_used > MessageLimit

OverMessageLimit(c) == v[c].used.messages_used >= MessageLimit

OverDollarBudget(c) == v[c].used.budget_used + req[c].usd > BudgetUsd

\* The message limit and the dollar budget reject before the bucket is looked
\* at, and write nothing.
OverLimit(c) ==
    /\ ~v[c].row.is_suspended
    /\ OverMessageLimit(c) \/ OverDollarBudget(c)
    /\ Return(c)
    /\ UNCHANGED <<quota, counters, grants>>

WithinLimits(c) ==
    ~v[c].row.is_suspended /\ ~OverMessageLimit(c) /\ ~OverDollarBudget(c)

BucketExhausted(c) ==
    /\ WithinLimits(c)
    /\ Refilled(c) < req[c].tokens
    /\ \/ InternalError(c)
       \/ /\ Refilled(c) >= 0
          /\ WriteBucket(Refilled(c), req[c].at)
          /\ Return(c)
          /\ UNCHANGED <<counters, grants>>

ConsumeAllowed(c) ==
    /\ WithinLimits(c)
    /\ Refilled(c) >= req[c].tokens
    /\ quota' = [quota EXCEPT !.current_tokens = Refilled(c) - req[c].tokens,
                              !.last_refill_at = req[c].at,
                              !.tokens_used = @ + req[c].tokens]
    /\ counters' = [counters EXCEPT
                      ![req[c].month].messages_used = @ + 1,
                      ![req[c].month].budget_used = @ + req[c].usd]
    /\ consumed' = consumed + req[c].tokens
    /\ Return(c)
    /\ UNCHANGED leaked

Consume(c) ==
    /\ pc[c] = "holding"
    /\ req[c].kind = "consume"
    /\ \/ Suspended(c)
       \/ OverLimit(c)
       \/ BucketExhausted(c)
       \/ ConsumeAllowed(c)

-----------------------------------------------------------------------------
(* The clock, and an administrator's UPDATE, which waits for the row lock.  *)

Tick ==
    /\ now < MaxTime
    /\ now' = now + 1
    /\ month' \in {month, month + 1} \cap Months
    /\ UNCHANGED <<dbVars, callVars, history>>

SetSuspended ==
    /\ provisioned
    /\ RowUnlocked
    /\ quota' = [quota EXCEPT !.is_suspended = ~@]
    /\ UNCHANGED <<now, month, provisioned, counters, callVars, history>>

Next ==
    \/ Provision
    \/ \E c \in Calls :
         \/ \E tokens \in TokenCosts :
              \/ "leak" \in Kinds /\ Start(c, "leak", tokens, 0)
              \/ /\ "consume" \in Kinds
                 /\ \E usd \in UsdCosts : Start(c, "consume", tokens, usd)
         \/ NotFound(c)
         \/ Lock(c)
         \/ Leak(c)
         \/ Consume(c)
    \/ Tick
    \/ SetSuspended

Spec == Init /\ [][Next]_vars

-----------------------------------------------------------------------------
(* Properties                                                              *)

\* The row keeps its column types: a balance between 0 and the size of the
\* bucket above all, which the CHECK constraint demands of every write.
TypeOK ==
    /\ now \in Times
    /\ month \in Months
    /\ provisioned \in BOOLEAN
    /\ quota \in Row
    /\ counters \in [Months -> Counter]
    /\ pc \in [Calls -> {"idle", "waiting", "holding"}]
    /\ req \in [Calls -> Request \cup {Nothing}]
    /\ v \in [Calls -> Snapshot \cup {Nothing}]
    /\ \A c \in Calls : /\ pc[c] # "idle" => req[c] \in Request
                        /\ pc[c] = "holding" => v[c] \in Snapshot
    /\ provisioned_at \in [time : Times, month : Months]
    /\ consumed \in Nat /\ leaked \in Nat

\* The promise of the bucket survives concurrency: whatever the calls, their
\* order, and however old the time they sampled, the tokens granted since
\* provisioning are at most one bucket plus the refill of that time.
RateBound ==
    consumed <= MaxTokens + RefillRate * (now - provisioned_at.time)

\* No interleaving creates tokens: what was granted, plus what is in the
\* bucket, less the refill up to last_refill_at, never rises.  Between any
\* two moments, then, no more is granted than a bucket and the refill.
Credit == consumed + quota.current_tokens - RefillRate * quota.last_refill_at
NoFreeTokens == [][provisioned => Credit' <= Credit]_vars

\* In the long run process_token_bucket_leak grants at most one monthly budget
\* a month, whatever check_and_consume_ai_usage, which books its tokens under
\* the same period but does not compare them with the ceiling, does meanwhile.
\* A late call may book its tokens under the wrong month, but the period rolls
\* at most once for each calendar month, and never back.
LongRunCeiling ==
    leaked <= MonthlyTokenBudget * (month - provisioned_at.month + 1)

\* No month gets more messages or more dollars than the tier allows, with
\* several calls in flight and the month changing under them.
MeterWithinLimits ==
    \A m \in Months : /\ counters[m].messages_used <= MessageLimit
                      /\ counters[m].budget_used <= BudgetUsd
=============================================================================
