------------------------------- MODULE AiProxy -------------------------------
(***************************************************************************)
(* The billing firewall in front of OpenRouter: concurrent requests of one *)
(* user to /v1/aggregator/proxy-openrouter are priced, charged to the      *)
(* user's monthly dollars by the database, and only then forwarded         *)
(* (routes/aggregator.py, services/usage.py, services/openrouter.py and    *)
(* utils/*_estimator.py of backend/app).                                   *)
(*                                                                         *)
(* The database's decision is that of UserQuota, of which the limits of    *)
(* one month are kept; when the breaker answers with the fallback is the   *)
(* subject of CircuitBreaker, here it may do so whenever the RPC fails.    *)
(* /v1/aggregator/check-usage is a request that is not forwarded, and so   *)
(* is a dry run.                                                           *)
(*                                                                         *)
(* Amounts of money are exact: in units of 10^-11 dollars, the price per   *)
(* thousand tokens has 8 decimals at most.  (Python's round takes half a   *)
(* unit to the even side and Rounded takes it up.)                         *)
(***************************************************************************)
EXTENDS Integers, Sequences, FiniteSets, FiniteSetsExt, Money

CONSTANTS
    Requests,        \* slots for concurrent requests
    Conversations,   \* the messages of a request: for each, the characters
                     \* that strip() leaves of its text
    MaxTokens,       \* values of max_tokens
    CharsPerToken,   \* TOKEN_CHARS_PER_TOKEN
    TokenMaxCost,    \* TOKEN_MAX_COST
    InputRate, OutputRate,   \* ModelCost of the model, for one token
    CostUnit,        \* of an estimated cost, rounded to 8 decimals: 1000
    CounterUnit,     \* of budget_used_usd, numeric(12,6): 100000
    MessageLimit,    \* billing_tiers.monthly_message_limit
    BudgetUsd,       \* billing_tiers.monthly_budget_usd, numeric(10,4)
    InputCounts,     \* what OpenRouter's tokenizers may make of a conversation
    MaxBilled        \* bound on OpenRouter's bill

ASSUME ProxyAssumption ==
    /\ IsFiniteSet(Requests)
    /\ Conversations \subseteq Seq(Nat) \ {<< >>}
    /\ MaxTokens \subseteq Nat \ {0}
    /\ CharsPerToken \in Nat \ {0} /\ TokenMaxCost \in Nat \ {0}
    /\ InputRate \in Nat /\ OutputRate \in Nat
    /\ CostUnit \in Nat \ {0} /\ CounterUnit \in Nat \ {0}
    /\ MessageLimit \in Nat
    /\ BudgetUsd \in Nat
    /\ \E n \in 0..BudgetUsd : BudgetUsd = CounterUnit * n
    /\ InputCounts \subseteq Nat /\ MaxBilled \in Nat

VARIABLES
    pc,        \* "idle", "checking" the quota, "forwarding", or "served":
               \* OpenRouter did the work and its answer is on the way
    req,       \* the request of a slot, with the decision of the database
    reply,     \* the latest reply, and whether its request was charged
    spent,     \* usage_counters.budget_used_usd
    messages_used,  \* usage_counters.messages_used
    billed,    \* what OpenRouter charges for
    excess,    \* history: of that, for input beyond the tokens of the estimate
    settings   \* DEMO_MODE, and is OPENROUTER_API_KEY set?  Read at start-up

money == <<spent, messages_used, billed, excess>>
vars == <<pc, req, reply, money, settings>>

Request == [messages : Conversations, max_tokens : MaxTokens, forward : BOOLEAN,
            verdict : {"pending", "allow", "deny"}]
NoRequest == [idle |-> TRUE]

Replies == {"none", "ok", "not_forwarded", "denied", "error", "bad_gateway",
            "not_configured"}

Init ==
    /\ pc = [r \in Requests |-> "idle"]
    /\ req = [r \in Requests |-> NoRequest]
    /\ reply = [kind |-> "none", charged |-> FALSE]
    /\ spent = 0
    /\ messages_used = 0
    /\ billed = 0
    /\ excess = 0
    /\ settings \in [DemoMode : BOOLEAN, api_key : BOOLEAN]

-----------------------------------------------------------------------------
(* What a request is estimated to cost.                                    *)

AtLeastOne(n) == IF n > 1 THEN n ELSE 1
AtMost(n, limit) == IF n < limit THEN n ELSE limit

\* Text that is all blanks still counts as one token.
_chars_to_tokens(chars) ==
    AtLeastOne((chars + CharsPerToken - 1) \div CharsPerToken)

MessageTokens(messages) ==
    [i \in DOMAIN messages |-> _chars_to_tokens(messages[i]) + 4]

InputTokens(messages) ==
    LET tokens == MessageTokens(messages)
    IN  MapThenSumSet(LAMBDA i : tokens[i], DOMAIN tokens)

\* The tokens of the messages and of the answer together, clamped.
estimate_request_tokens(r) ==
    AtLeastOne(AtMost(InputTokens(req[r].messages) + req[r].max_tokens, TokenMaxCost))

Price(input, output) == input * InputRate + output * OutputRate

\* Seeded fault: the answer is priced by nobody.
estimate_openrouter_cost_inputOnly(r) ==
    Rounded(InputTokens(req[r].messages) * InputRate, CostUnit)

\* estimate_cost gets the total as its input tokens, and the answer again.
estimate_openrouter_cost(r) ==
    Rounded(Price(estimate_request_tokens(r), req[r].max_tokens), CostUnit)

-----------------------------------------------------------------------------
(* The quota check.                                                        *)

Receive(r, messages, max_tokens, forward) ==
    /\ pc[r] = "idle"
    /\ pc' = [pc EXCEPT ![r] = "checking"]
    /\ req' = [req EXCEPT ![r] = [messages |-> messages, max_tokens |-> max_tokens,
                                  forward |-> forward, verdict |-> "pending"]]
    /\ UNCHANGED <<reply, money, settings>>

\* Seeded fault: the price of this request is left out of the comparison.
WithinBudget_spentOnly(r) == spent <= BudgetUsd

WithinBudget(r) == spent + estimate_openrouter_cost(r) <= BudgetUsd

\* The quota function commits its decision; the answer is still on its way.
Decide(r) ==
    /\ pc[r] = "checking"
    /\ req[r].verdict = "pending"
    /\ \/ /\ messages_used < MessageLimit
          /\ WithinBudget(r)
          /\ spent' = Rounded(spent + estimate_openrouter_cost(r), CounterUnit)
          /\ messages_used' = messages_used + 1
          /\ req' = [req EXCEPT ![r].verdict = "allow"]
       \/ \* Over a limit of the user or the workspace.
          /\ UNCHANGED <<spent, messages_used>>
          /\ req' = [req EXCEPT ![r].verdict = "deny"]
    /\ UNCHANGED <<pc, reply, billed, excess, settings>>

Charged(r) == req[r].verdict = "allow"

End(r, kind) ==
    /\ pc' = [pc EXCEPT ![r] = "idle"]
    /\ req' = [req EXCEPT ![r] = NoRequest]
    /\ reply' = [kind |-> kind, charged |-> Charged(r)]

Reply(r, kind) == End(r, kind) /\ UNCHANGED <<money, settings>>

\* allowed is true: a dry run ends here, and so does a call without a key.
Allowed(r) ==
    \/ ~req[r].forward /\ Reply(r, "not_forwarded")
    \/ req[r].forward /\ ~settings.api_key /\ Reply(r, "not_configured")
    \/ /\ req[r].forward /\ settings.api_key
       /\ pc' = [pc EXCEPT ![r] = "forwarding"]
       /\ UNCHANGED <<req, reply, money, settings>>

Answered(r) ==
    /\ pc[r] = "checking"
    /\ \/ req[r].verdict = "allow" /\ Allowed(r)
       \/ req[r].verdict = "deny" /\ Reply(r, "denied")

\* Seeded fault: no test of DEMO_MODE.
_fallback_check_usage_open(r) == Allowed(r)

_fallback_check_usage(r) ==
    \/ settings.DemoMode /\ Allowed(r)
    \/ ~settings.DemoMode /\ Reply(r, "denied")

\* The RPC raises or times out, decided or not: the breaker answers with the
\* fallback, or re-raises and nobody catches it.  (A decision that commits
\* after the timeout is one that commits just before it.)
CheckFails(r) ==
    /\ pc[r] = "checking"
    /\ \/ _fallback_check_usage(r)
       \/ Reply(r, "error")

-----------------------------------------------------------------------------
(* The call of OpenRouter, which is external.                              *)

Beyond(n, m) == IF n > m THEN n - m ELSE 0

\* It bills the input, by a tokenizer of its own, and its answer.
OpenRouterServes(r) ==
    /\ pc[r] = "forwarding"
    /\ \E input \in InputCounts, output \in 0..req[r].max_tokens :
         /\ billed' = billed + Price(input, output)
         /\ excess' = excess + Beyond(input, estimate_request_tokens(r)) * InputRate
    /\ billed' <= MaxBilled
    /\ pc' = [pc EXCEPT ![r] = "served"]
    /\ UNCHANGED <<req, reply, spent, messages_used, settings>>

Forwarded(r) ==
    /\ pc[r] = "served"
    /\ Reply(r, "ok")

\* Another status than 200, no connection, or a wait that takes too long,
\* though the work may be done.
OpenRouterFails(r) ==
    /\ pc[r] \in {"forwarding", "served"}
    /\ Reply(r, "bad_gateway")

\* The process dies: nobody is answered.
Crash ==
    /\ \E r \in Requests : pc[r] # "idle"
    /\ pc' = [r \in Requests |-> "idle"]
    /\ req' = [r \in Requests |-> NoRequest]
    /\ UNCHANGED <<reply, money, settings>>

\* What a handler does, if it goes on: OpenRouter may never answer, and the
\* timeout of httpx limits each read, not the response.
Proceed(r) ==
    \/ Answered(r) \/ CheckFails(r) \/ Forwarded(r) \/ OpenRouterFails(r)

Next ==
    \/ \E r \in Requests :
         \/ \E m \in Conversations, n \in MaxTokens, f \in BOOLEAN : Receive(r, m, n, f)
         \/ Decide(r)
         \/ Proceed(r)
         \/ OpenRouterServes(r)
    \/ Crash

Spec == Init /\ [][Next]_vars

-----------------------------------------------------------------------------
(* Properties                                                              *)

\* The types, and: a slot has a request exactly while it is at work.
TypeOK ==
    /\ pc \in [Requests -> {"idle", "checking", "forwarding", "served"}]
    /\ req \in [Requests -> Request \cup {NoRequest}]
    /\ \A r \in Requests : pc[r] = "idle" <=> req[r] = NoRequest
    /\ reply \in [kind : Replies, charged : BOOLEAN]
    /\ spent \in 0..BudgetUsd
    /\ messages_used \in 0..MessageLimit
    /\ billed \in 0..MaxBilled
    /\ excess \in Nat
    /\ settings \in [DemoMode : BOOLEAN, api_key : BOOLEAN]

\* "we never call OpenRouter without a prior successful quota deduction"
\* (openrouter.py:12-13), in production, whatever fails or comes late.
NeverUncharged ==
    ~settings.DemoMode =>
      \A r \in Requests : pc[r] \in {"forwarding", "served"} => Charged(r)

\* In production OpenRouter's bill exceeds what users were charged by nothing
\* but input tokens beyond the estimate's and what rounding took from each
\* charge: no request is billed that was not charged, none costs more output
\* than it was charged for, with requests at every stage and failures at every
\* step (openrouter.py:63-77, 011_aggregator_rpc.sql:195-200).
BillIsBounded ==
    ~settings.DemoMode =>
      2 * billed <= 2 * (spent + excess) + messages_used * (CostUnit + CounterUnit)
=============================================================================
