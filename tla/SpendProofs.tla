----------------------------- MODULE SpendProofs -----------------------------
(***************************************************************************)
(* What a request may spend, and what is made of the spending: the AI      *)
(* proxy, the anomaly detector and its signals.  The three share no state; *)
(* each has its specification and its invariant.                           *)
(*                                                                         *)
(* For any number of requests, any prices and any budget, in production    *)
(* nothing is forwarded uncharged and OpenRouter's bill passes what the    *)
(* database has charged only by tokens that were not estimated and by      *)
(* rounding.  For any number of evaluations the findings of a window are   *)
(* few.  A workspace that runs out of budget was warned before it did.     *)
(***************************************************************************)
EXTENDS AiProxy, AnomalyDetector, SpendSignals, Sums,
        FiniteSetTheorems, SequenceTheorems, TLAPS

-----------------------------------------------------------------------------
(* Estimates and prices.                                                   *)

LEMMA Bounds ==
    /\ TokenMaxCost \in Nat \ {0}
    /\ InputRate \in Nat /\ OutputRate \in Nat
    /\ CostUnit \in Nat \ {0} /\ CounterUnit \in Nat \ {0}
    /\ BudgetUsd \in Nat /\ MessageLimit \in Nat /\ MaxBilled \in Nat
    /\ MaxTokens \subseteq Nat /\ InputCounts \subseteq Nat
BY ProxyAssumption

LEMMA ProductGrows ==
    ASSUME NEW a \in Nat, NEW b \in Nat, NEW k \in Nat, a <= b
    PROVE  /\ a * k \in Nat /\ b * k \in Nat /\ a * k <= b * k
           /\ k * a \in Nat /\ k * b \in Nat /\ k * a <= k * b
<1>1. b - a \in Nat
  OBVIOUS
<1>2. (b - a) * k >= 0 /\ (b - a) * k = b * k - a * k
  BY <1>1
<1>3. a * k \in Nat /\ b * k \in Nat /\ k * a = a * k /\ k * b = b * k
  OBVIOUS
<1> QED
  BY <1>2, <1>3

LEMMA PriceMonotonic ==
    ASSUME NEW i \in Nat, NEW j \in Nat, NEW m \in Nat, NEW n \in Nat,
           i <= j, m <= n
    PROVE  Price(i, m) \in Nat /\ Price(j, n) \in Nat /\ Price(i, m) <= Price(j, n)
<1>1. /\ i * InputRate \in Nat /\ j * InputRate \in Nat
      /\ i * InputRate <= j * InputRate
  BY ProductGrows, Bounds
<1>2. /\ m * OutputRate \in Nat /\ n * OutputRate \in Nat
      /\ m * OutputRate <= n * OutputRate
  BY ProductGrows, Bounds
<1> QED
  BY <1>1, <1>2 DEF Price

\* A conversation's tokens are a sum of natural numbers.
LEMMA TokensAreNatural ==
    ASSUME NEW m \in Conversations
    PROVE  InputTokens(m) \in Nat
<1>1. PICK f : f = MessageTokens(m)
  OBVIOUS
<1>2. m \in Seq(Nat) /\ CharsPerToken \in Nat \ {0}
  BY ProxyAssumption
<1>3. DOMAIN m = 1..Len(m) /\ Len(m) \in Nat /\ \A i \in DOMAIN m : m[i] \in Nat
  BY <1>2
<1>4. \A i \in DOMAIN m : _chars_to_tokens(m[i]) \in Nat
  <2> SUFFICES ASSUME NEW n \in Nat
               PROVE  _chars_to_tokens(n) \in Nat
    BY <1>3
  <2>1. (n + CharsPerToken - 1) \div CharsPerToken \in Int
    BY <1>2
  <2> QED
    BY <2>1 DEF _chars_to_tokens, AtLeastOne
<1>5. DOMAIN f = DOMAIN m /\ \A i \in DOMAIN m : f[i] \in Nat
  BY <1>1, <1>4 DEF MessageTokens
<1>6. IsFiniteSet(DOMAIN m)
  BY <1>3, FS_Interval
<1>7. Total(f, DOMAIN m) \in Nat
  BY ONLY <1>5, <1>6, TotalIsNatural
<1>8. InputTokens(m) = Total(f, DOMAIN f)
  BY <1>1 DEF InputTokens, Total, MapThenSumSet, MapThenFoldSet
<1> QED
  BY <1>5, <1>7, <1>8

LEMMA RequestFields ==
    ASSUME NEW q \in Request
    PROVE  /\ InputTokens(q.messages) \in Nat /\ q.messages \in Conversations
           /\ q.max_tokens \in Nat
           /\ q.verdict \in {"pending", "allow", "deny"}
BY TokensAreNatural, Bounds DEF Request

\* The estimate, up to its rounding, is no less than what OpenRouter can bill
\* for the request without the input that goes beyond it.
LEMMA EstimateCovers ==
    ASSUME NEW r \in Requests, req[r] \in Request
    PROVE  /\ estimate_openrouter_cost(r) \in Nat
           /\ \A input \in InputCounts, output \in 0..req[r].max_tokens :
                LET beyond == Beyond(input, estimate_request_tokens(r)) * InputRate
                IN  /\ Price(input, output) \in Nat /\ beyond \in Nat
                    /\ 2 * Price(input, output)
                         <= 2 * estimate_openrouter_cost(r) + CostUnit + 2 * beyond
<1>1. PICK tokens : tokens = estimate_request_tokens(r)
  OBVIOUS
<1>2. /\ InputTokens(req[r].messages) \in Nat /\ req[r].max_tokens \in Nat
  BY RequestFields
<1>3. tokens \in Nat
  <2>1. PICK n \in Nat : n = InputTokens(req[r].messages) + req[r].max_tokens
    BY <1>2
  <2>2. tokens = AtLeastOne(AtMost(n, TokenMaxCost))
    BY <1>1, <2>1 DEF estimate_request_tokens
  <2> QED
    BY <2>2, Bounds DEF AtLeastOne, AtMost
<1>4. PICK price : price = Price(tokens, req[r].max_tokens)
  OBVIOUS
<1>5. price \in Nat
  <2>1. tokens <= tokens /\ req[r].max_tokens <= req[r].max_tokens
    BY <1>2, <1>3
  <2> QED
    BY <1>2, <1>3, <1>4, <2>1, PriceMonotonic
<1>6. PICK cost : cost = estimate_openrouter_cost(r)
  OBVIOUS
<1>7. cost = Rounded(price, CostUnit)
  BY <1>1, <1>4, <1>6 DEF estimate_openrouter_cost
<1>8. cost \in Nat /\ 2 * cost >= 2 * price - CostUnit
  BY <1>5, <1>7, Bounds, RoundedNear
<1>9. ASSUME NEW input \in InputCounts, NEW output \in 0..req[r].max_tokens
      PROVE  /\ Price(input, output) \in Nat
             /\ Beyond(input, tokens) * InputRate \in Nat
             /\ 2 * Price(input, output)
                  <= 2 * cost + CostUnit + 2 * (Beyond(input, tokens) * InputRate)
  <2>1. /\ input \in Nat /\ output \in Nat /\ output <= req[r].max_tokens
    BY <1>2, Bounds
  <2>2. PICK beyond : beyond = Beyond(input, tokens)
    OBVIOUS
  <2>3. beyond \in Nat /\ input <= tokens + beyond
    BY <1>3, <2>1, <2>2 DEF Beyond
  <2>4. beyond * InputRate \in Nat
    BY <2>3, Bounds, ProductGrows
  <2>5. Price(input, output) <= Price(tokens + beyond, req[r].max_tokens)
        /\ Price(input, output) \in Nat
    <3>1. tokens + beyond \in Nat
      BY <1>3, <2>3
    <3> QED
      BY <1>2, <2>1, <2>3, <3>1, PriceMonotonic
  <2>6. Price(tokens + beyond, req[r].max_tokens) = price + beyond * InputRate
    <3>1. /\ tokens * InputRate \in Nat /\ req[r].max_tokens * OutputRate \in Nat
      BY <1>2, <1>3, Bounds, ProductGrows
    <3>2. (tokens + beyond) * InputRate = tokens * InputRate + beyond * InputRate
      BY <1>3, <2>3, Bounds
    <3> QED
      BY <1>4, <2>4, <3>1, <3>2 DEF Price
  <2> QED
    BY <1>5, <1>8, <2>2, <2>4, <2>5, <2>6, Bounds
<1> QED
  BY <1>1, <1>6, <1>8, <1>9

-----------------------------------------------------------------------------
(* Types, and that nothing is forwarded uncharged.                         *)

SafeInv == TypeOK /\ NeverUncharged

LEMMA NotIdle == \A q \in Request : q # NoRequest /\ q.verdict \in {"pending", "allow", "deny"}
<1> SUFFICES ASSUME NEW q \in Request PROVE q # NoRequest
  BY RequestFields
<1>1. DOMAIN q = {"messages", "max_tokens", "forward", "verdict"}
  BY DEF Request
<1>2. DOMAIN NoRequest = {"idle"}
  BY DEF NoRequest
<1> QED
  BY <1>1, <1>2

LEMMA AtWork ==
    ASSUME TypeOK, NEW r \in Requests, pc[r] # "idle"
    PROVE  req[r] \in Request
BY DEF TypeOK

LEMMA InitSafe == Init => SafeInv
<1> SUFFICES ASSUME Init PROVE SafeInv
  OBVIOUS
<1>1. /\ spent \in 0..BudgetUsd /\ messages_used \in 0..MessageLimit
      /\ billed \in 0..MaxBilled /\ excess \in Nat
  BY Bounds DEF Init
<1>2. TypeOK
  BY <1>1 DEF Init, TypeOK, Replies
<1>3. NeverUncharged
  BY DEF Init, NeverUncharged
<1> QED
  BY <1>2, <1>3 DEF SafeInv

\* A request ends with an answer.
LEMMA EndSafe ==
    ASSUME SafeInv, NEW r \in Requests, pc[r] # "idle", NEW kind \in Replies,
           Reply(r, kind)
    PROVE  SafeInv'
<1>1. TypeOK
  BY DEF SafeInv
<1>2. /\ pc' = [pc EXCEPT ![r] = "idle"] /\ req' = [req EXCEPT ![r] = NoRequest]
      /\ reply' = [kind |-> kind, charged |-> Charged(r)]
      /\ UNCHANGED <<spent, messages_used, billed, excess, settings>>
  BY DEF Reply, End, money
<1>3. Charged(r) \in BOOLEAN
  BY DEF Charged
<1>4. TypeOK'
  BY <1>1, <1>2, <1>3 DEF TypeOK
<1>5. NeverUncharged'
  BY <1>1, <1>2 DEF SafeInv, NeverUncharged, Charged, TypeOK
<1> QED
  BY <1>4, <1>5 DEF SafeInv

LEMMA AllowedSafe ==
    ASSUME SafeInv, NEW r \in Requests, pc[r] = "checking", Allowed(r),
           ~settings.DemoMode => Charged(r)
    PROVE  SafeInv'
<1>1. CASE Reply(r, "not_forwarded") \/ Reply(r, "not_configured")
  BY <1>1, EndSafe DEF Replies
<1>2. CASE /\ pc' = [pc EXCEPT ![r] = "forwarding"]
           /\ UNCHANGED <<req, reply, money, settings>>
  <2>1. TypeOK'
    BY <1>2 DEF SafeInv, TypeOK, money
  <2>2. NeverUncharged'
    BY <1>2 DEF SafeInv, NeverUncharged, Charged, TypeOK
  <2> QED
    BY <2>1, <2>2 DEF SafeInv
<1> QED
  BY <1>1, <1>2 DEF Allowed

LEMMA ReceiveSafe ==
    ASSUME SafeInv, NEW r \in Requests, NEW m \in Conversations, NEW n \in MaxTokens,
           NEW f \in BOOLEAN, Receive(r, m, n, f)
    PROVE  SafeInv'
<1> DEFINE q == [messages |-> m, max_tokens |-> n, forward |-> f, verdict |-> "pending"]
<1>1. q \in Request
  BY DEF Request
<1>2. /\ pc[r] = "idle" /\ pc' = [pc EXCEPT ![r] = "checking"]
      /\ req' = [req EXCEPT ![r] = q] /\ UNCHANGED <<reply, money, settings>>
  BY DEF Receive
<1>3. q # NoRequest
  BY <1>1, NotIdle
<1> HIDE DEF q
<1>4. TypeOK'
  BY <1>1, <1>2, <1>3 DEF SafeInv, TypeOK, money
<1>5. NeverUncharged'
  BY <1>2 DEF SafeInv, NeverUncharged, Charged, TypeOK
<1> QED
  BY <1>4, <1>5 DEF SafeInv

LEMMA DecideSafe ==
    ASSUME SafeInv, NEW r \in Requests, Decide(r)
    PROVE  SafeInv'
<1>1. /\ TypeOK /\ pc[r] = "checking" /\ req[r] \in Request
      /\ UNCHANGED <<pc, reply, billed, excess, settings>>
  BY AtWork DEF SafeInv, Decide
<1>2. PICK v \in {"allow", "deny"} : req' = [req EXCEPT ![r].verdict = v]
  BY DEF Decide
<1>3. [req[r] EXCEPT !.verdict = v] \in Request
  BY <1>1 DEF Request
<1>4. [req[r] EXCEPT !.verdict = v] # NoRequest
  BY <1>3, NotIdle
<1>5. spent' \in 0..BudgetUsd /\ messages_used' \in 0..MessageLimit
  <2>1. /\ spent \in 0..BudgetUsd /\ messages_used \in 0..MessageLimit
        /\ estimate_openrouter_cost(r) \in Nat
    BY <1>1, EstimateCovers DEF TypeOK
  <2>2. CASE UNCHANGED <<spent, messages_used>>
    BY <2>1, <2>2
  <2>3. CASE /\ messages_used < MessageLimit /\ messages_used' = messages_used + 1
             /\ WithinBudget(r)
             /\ spent' = Rounded(spent + estimate_openrouter_cost(r), CounterUnit)
    <3>1. PICK total \in Nat : total = spent + estimate_openrouter_cost(r)
      BY <2>1, Bounds
    <3>2. PICK n \in Nat : BudgetUsd = CounterUnit * n
      BY ProxyAssumption
    <3>3. total <= CounterUnit * n
      BY <2>3, <3>1, <3>2 DEF WithinBudget
    <3>4. spent' \in Nat /\ spent' <= BudgetUsd
      <4>1. spent' = Rounded(total, CounterUnit)
        BY <2>3, <3>1
      <4> QED
        BY <3>2, <3>3, <4>1, Bounds, RoundedNear, RoundedWithin
    <3> QED
      BY <2>1, <2>3, <3>4, Bounds
  <2> QED
    BY <2>2, <2>3 DEF Decide
<1>6. req' = [req EXCEPT ![r] = [req[r] EXCEPT !.verdict = v]]
  BY <1>1, <1>2 DEF TypeOK
<1>7. TypeOK'
  BY <1>1, <1>3, <1>4, <1>5, <1>6 DEF TypeOK
<1>8. NeverUncharged'
  BY <1>1, <1>6 DEF SafeInv, NeverUncharged, Charged, TypeOK
<1> QED
  BY <1>7, <1>8 DEF SafeInv

LEMMA ServesSafe ==
    ASSUME SafeInv, NEW r \in Requests, OpenRouterServes(r)
    PROVE  SafeInv'
<1>1. /\ TypeOK /\ pc[r] = "forwarding" /\ req[r] \in Request
      /\ UNCHANGED <<req, reply, spent, messages_used, settings>>
      /\ pc' = [pc EXCEPT ![r] = "served"]
  BY AtWork DEF SafeInv, OpenRouterServes
<1>2. billed' \in 0..MaxBilled /\ excess' \in Nat
  <2>1. PICK input \in InputCounts, output \in 0..req[r].max_tokens :
          /\ billed' = billed + Price(input, output)
          /\ excess' = excess + Beyond(input, estimate_request_tokens(r)) * InputRate
    BY DEF OpenRouterServes
  <2>2. /\ Price(input, output) \in Nat
        /\ Beyond(input, estimate_request_tokens(r)) * InputRate \in Nat
    BY <1>1, EstimateCovers
  <2>3. billed \in 0..MaxBilled /\ billed' <= MaxBilled /\ excess \in Nat
    BY <1>1 DEF TypeOK, OpenRouterServes
  <2> QED
    BY <2>1, <2>2, <2>3, Bounds
<1>3. TypeOK'
  BY <1>1, <1>2 DEF TypeOK
<1>4. NeverUncharged'
  BY <1>1 DEF SafeInv, NeverUncharged, Charged, TypeOK
<1> QED
  BY <1>3, <1>4 DEF SafeInv

LEMMA CrashSafe ==
    ASSUME SafeInv, Crash
    PROVE  SafeInv'
<1>1. TypeOK'
  BY DEF SafeInv, Crash, TypeOK, money
<1>2. NeverUncharged'
  BY DEF Crash, NeverUncharged
<1> QED
  BY <1>1, <1>2 DEF SafeInv

LEMMA ProceedSafe ==
    ASSUME SafeInv, NEW r \in Requests, Proceed(r)
    PROVE  SafeInv'
<1>1. CASE Answered(r)
  <2>1. CASE req[r].verdict = "allow" /\ Allowed(r)
    BY <1>1, <2>1, AllowedSafe DEF Answered, Charged
  <2>2. CASE Reply(r, "denied")
    BY <1>1, <2>2, EndSafe DEF Answered, Replies
  <2> QED
    BY <1>1, <2>1, <2>2 DEF Answered
<1>2. CASE CheckFails(r)
  <2>1. CASE settings.DemoMode /\ Allowed(r)
    BY <1>2, <2>1, AllowedSafe DEF CheckFails
  <2>2. CASE Reply(r, "denied") \/ Reply(r, "error")
    BY <1>2, <2>2, EndSafe DEF CheckFails, Replies
  <2> QED
    BY <1>2, <2>1, <2>2 DEF CheckFails, _fallback_check_usage
<1>3. CASE Forwarded(r) \/ OpenRouterFails(r)
  BY <1>3, EndSafe DEF Forwarded, OpenRouterFails, Replies
<1> QED
  BY <1>1, <1>2, <1>3 DEF Proceed

LEMMA NextSafe == SafeInv /\ [Next]_vars => SafeInv'
<1> SUFFICES ASSUME SafeInv, [Next]_vars PROVE SafeInv'
  OBVIOUS
<1>1. CASE UNCHANGED vars
  BY <1>1 DEF vars, money, SafeInv, TypeOK, NeverUncharged, Charged
<1> QED
  BY <1>1, ReceiveSafe, DecideSafe, ProceedSafe, ServesSafe, CrashSafe DEF Next

LEMMA Safety == Spec => []SafeInv
BY InitSafe, NextSafe, PTL DEF Spec

\* The user's dollars stay within the budget, whatever requests cost.
THEOREM TypeCorrect == Spec => []TypeOK
<1>1. SafeInv => TypeOK
  BY DEF SafeInv
<1> QED
  BY <1>1, Safety, PTL

\* In production nothing is forwarded that was not charged.
THEOREM NothingUncharged == Spec => []NeverUncharged
<1>1. SafeInv => NeverUncharged
  BY DEF SafeInv
<1> QED
  BY <1>1, Safety, PTL

-----------------------------------------------------------------------------
(* The bill.  What is charged and not yet billed is a sum over the         *)
(* requests, of which each step changes one summand.                       *)

\* Twice what may yet be billed for a request on account of its charge.
Outstanding(r) ==
    IF pc[r] \in {"checking", "forwarding"} /\ req[r].verdict = "allow"
    THEN 2 * estimate_openrouter_cost(r) + CostUnit ELSE 0

Owed == [r \in Requests |-> Outstanding(r)]

\* Twice what may have been billed at most.
Allowance == 2 * (spent + excess) + messages_used * (CostUnit + CounterUnit)

Covered == 2 * billed + Total(Owed, Requests) <= Allowance

BillInv == ~settings.DemoMode => Covered

LEMMA AllowanceType ==
    ASSUME TypeOK
    PROVE  /\ Allowance \in Nat /\ billed \in Nat /\ spent \in Nat
           /\ messages_used \in Nat /\ excess \in Nat
<1>1. /\ billed \in Nat /\ spent \in Nat /\ messages_used \in Nat /\ excess \in Nat
  BY Bounds DEF TypeOK
<1>2. CostUnit + CounterUnit \in Nat
  BY Bounds
<1>3. messages_used * (CostUnit + CounterUnit) \in Nat
  BY <1>1, <1>2, ProductGrows
<1> QED
  BY <1>1, <1>3 DEF Allowance

LEMMA AllowanceTypeNext == TypeOK' => Allowance' \in Nat /\ billed' \in Nat
<1>1. TypeOK' => (Allowance \in Nat /\ billed \in Nat)'
  BY AllowanceType, PTL
<1> QED
  BY <1>1

\* A step that charges nobody keeps the allowance.
LEMMA SameAllowance ==
    ASSUME UNCHANGED <<spent, messages_used, excess>>
    PROVE  Allowance' = Allowance
BY DEF Allowance

LEMMA OutstandingType ==
    ASSUME TypeOK, NEW r \in Requests
    PROVE  Outstanding(r) \in Nat
<1>1. CASE pc[r] \in {"checking", "forwarding"} /\ req[r].verdict = "allow"
  <2>1. req[r] \in Request
    BY <1>1, AtWork
  <2> QED
    BY <1>1, <2>1, EstimateCovers, Bounds DEF Outstanding
<1>2. CASE ~(pc[r] \in {"checking", "forwarding"} /\ req[r].verdict = "allow")
  BY <1>2 DEF Outstanding
<1> QED
  BY <1>1, <1>2

LEMMA OwedIsNatural == TypeOK => \A r \in Requests : Owed[r] \in Nat
BY OutstandingType DEF Owed

LEMMA OwedIsNaturalNext == TypeOK' => \A r \in Requests : Owed'[r] \in Nat
<1>1. TypeOK' => (\A r \in Requests : Owed[r] \in Nat)'
  BY OwedIsNatural, PTL
<1> QED
  BY <1>1

\* One request moves, and the bill grows by no more than the allowance and what
\* the request has outstanding.
LEMMA KeepsCovered ==
    ASSUME TypeOK, TypeOK', Covered, NEW r \in Requests,
           \A q \in Requests \ {r} : pc'[q] = pc[q] /\ req'[q] = req[q],
           2 * (billed' - billed) + Outstanding(r)'
             <= (Allowance' - Allowance) + Outstanding(r)
    PROVE  Covered'
<1>1. PICK f : f = Owed
  OBVIOUS
<1>2. PICK g : g = Owed'
  OBVIOUS
<1>3. \A q \in Requests : f[q] \in Int /\ g[q] \in Int
  BY <1>1, <1>2, OwedIsNatural, OwedIsNaturalNext
<1>4. f[r] = Outstanding(r) /\ g[r] = Outstanding(r)'
  BY <1>1, <1>2 DEF Owed
<1>5. \A q \in Requests \ {r} : g[q] = f[q]
  <2> SUFFICES ASSUME NEW q \in Requests \ {r} PROVE g[q] = f[q]
    OBVIOUS
  <2>1. Outstanding(q)' = Outstanding(q)
    BY DEF Outstanding, estimate_openrouter_cost, estimate_request_tokens
  <2> QED
    BY <1>1, <1>2, <2>1 DEF Owed
<1>6. IsFiniteSet(Requests)
  BY ProxyAssumption
<1>7. Total(g, Requests) = Total(f, Requests) + (g[r] - f[r])
  BY ONLY <1>3, <1>5, <1>6, r \in Requests, TotalChange
<1>8. Total(f, Requests) \in Int
  BY ONLY <1>3, <1>6, TotalType
<1>9. billed \in Nat /\ billed' \in Nat /\ Allowance \in Nat /\ Allowance' \in Nat
  BY AllowanceType, AllowanceTypeNext
<1>10. 2 * billed + Total(f, Requests) <= Allowance
  BY <1>1 DEF Covered
<1>11. 2 * billed' + Total(g, Requests) <= Allowance'
  <2>1. PICK b : b = Allowance
    OBVIOUS
  <2>2. PICK c : c = Allowance'
    OBVIOUS
  <2>3. 2 * (billed' - billed) + g[r] <= (c - b) + f[r]
    BY <1>4, <2>1, <2>2
  <2> QED
    BY <1>3, <1>7, <1>8, <1>9, <1>10, <2>1, <2>2, <2>3
<1> QED
  BY <1>2, <1>11 DEF Covered

LEMMA NothingDue ==
    ASSUME NEW f, \A r \in Requests : f[r] = 0
    PROVE  Total(f, Requests) = 0
<1>1. IsFiniteSet(Requests) /\ {} \subseteq Requests
  BY ProxyAssumption
<1>2. \A r \in Requests : f[r] \in Int
  OBVIOUS
<1>3. Total(f, Requests) = Total(f, {})
  BY ONLY <1>1, <1>2, \A r \in Requests : f[r] = 0, TotalWithin
<1> QED
  BY <1>3, TotalEmpty

BillSafe == SafeInv /\ BillInv

LEMMA Moves ==
    ASSUME TypeOK, NEW r \in Requests, NEW p, NEW q,
           pc' = [pc EXCEPT ![r] = p], req' = [req EXCEPT ![r] = q]
    PROVE  /\ pc'[r] = p /\ req'[r] = q
           /\ \A s \in Requests \ {r} : pc'[s] = pc[s] /\ req'[s] = req[s]
BY DEF TypeOK

\* A request ends, or goes on to be forwarded: it owes no more than before.
LEMMA EndCovered ==
    ASSUME SafeInv, SafeInv', Covered, NEW r \in Requests, NEW kind \in Replies,
           Reply(r, kind)
    PROVE  Covered'
<1>1. /\ pc' = [pc EXCEPT ![r] = "idle"] /\ req' = [req EXCEPT ![r] = NoRequest]
      /\ billed' = billed /\ Allowance' = Allowance
  BY SameAllowance DEF Reply, End, money
<1>2. /\ pc'[r] = "idle"
      /\ \A q \in Requests \ {r} : pc'[q] = pc[q] /\ req'[q] = req[q]
  BY <1>1, Moves DEF SafeInv
<1>3. Outstanding(r)' = 0
  BY <1>2 DEF Outstanding
<1>4. Outstanding(r) \in Nat /\ Allowance \in Nat /\ billed \in Nat
  BY OutstandingType, AllowanceType DEF SafeInv
<1>5. 2 * (billed' - billed) + Outstanding(r)'
        <= (Allowance' - Allowance) + Outstanding(r)
  BY <1>1, <1>3, <1>4
<1> QED
  BY <1>2, <1>5, KeepsCovered DEF SafeInv

LEMMA AllowedCovered ==
    ASSUME SafeInv, SafeInv', Covered, NEW r \in Requests, pc[r] = "checking",
           Allowed(r)
    PROVE  Covered'
<1>1. CASE Reply(r, "not_forwarded") \/ Reply(r, "not_configured")
  BY <1>1, EndCovered DEF Replies
<1>2. CASE /\ pc' = [pc EXCEPT ![r] = "forwarding"]
           /\ UNCHANGED <<req, reply, money, settings>>
  <2>1. /\ pc'[r] = "forwarding" /\ req' = req /\ Allowance' = Allowance
        /\ billed' = billed
        /\ \A q \in Requests \ {r} : pc'[q] = pc[q] /\ req'[q] = req[q]
    BY <1>2, SameAllowance DEF SafeInv, TypeOK, money
  <2>2. Outstanding(r)' = Outstanding(r)
    BY <2>1 DEF Outstanding, estimate_openrouter_cost, estimate_request_tokens
  <2>3. Outstanding(r) \in Nat /\ Allowance \in Nat /\ billed \in Nat
    BY OutstandingType, AllowanceType DEF SafeInv
  <2>4. 2 * (billed' - billed) + Outstanding(r)'
        <= (Allowance' - Allowance) + Outstanding(r)
    BY <2>1, <2>2, <2>3
  <2> QED
    BY <2>1, <2>4, KeepsCovered DEF SafeInv
<1> QED
  BY <1>1, <1>2 DEF Allowed

LEMMA ReceiveCovered ==
    ASSUME SafeInv, SafeInv', Covered, NEW r \in Requests, NEW m \in Conversations,
           NEW n \in MaxTokens, NEW f \in BOOLEAN, Receive(r, m, n, f)
    PROVE  Covered'
<1> DEFINE q == [messages |-> m, max_tokens |-> n, forward |-> f, verdict |-> "pending"]
<1>1. /\ pc[r] = "idle" /\ pc' = [pc EXCEPT ![r] = "checking"]
      /\ req' = [req EXCEPT ![r] = q] /\ billed' = billed /\ Allowance' = Allowance
  BY SameAllowance DEF Receive, money
<1>2. q.verdict # "allow"
  OBVIOUS
<1> HIDE DEF q
<1>3. /\ req'[r] = q
      /\ \A s \in Requests \ {r} : pc'[s] = pc[s] /\ req'[s] = req[s]
  BY <1>1, Moves DEF SafeInv
<1>4. Outstanding(r) = 0 /\ Outstanding(r)' = 0
  BY <1>1, <1>2, <1>3 DEF Outstanding
<1>5. Allowance \in Nat /\ billed \in Nat
  BY AllowanceType DEF SafeInv
<1>6. 2 * (billed' - billed) + Outstanding(r)'
        <= (Allowance' - Allowance) + Outstanding(r)
  BY <1>1, <1>4, <1>5
<1> QED
  BY <1>3, <1>6, KeepsCovered DEF SafeInv

\* What the database charges is what the request has outstanding from now on.
LEMMA DecideCovered ==
    ASSUME SafeInv, SafeInv', Covered, NEW r \in Requests, Decide(r)
    PROVE  Covered'
<1>1. /\ TypeOK /\ pc[r] = "checking" /\ req[r] \in Request
      /\ req[r].verdict = "pending" /\ pc' = pc /\ billed' = billed
  BY AtWork DEF SafeInv, Decide
<1>2. PICK v \in {"allow", "deny"} :
        /\ req' = [req EXCEPT ![r].verdict = v]
        /\ v = "allow" =>
             /\ spent' = Rounded(spent + estimate_openrouter_cost(r), CounterUnit)
             /\ messages_used' = messages_used + 1
        /\ v = "deny" => UNCHANGED <<spent, messages_used>>
        /\ excess' = excess
  BY DEF Decide
<1>3. req' = [req EXCEPT ![r] = [req[r] EXCEPT !.verdict = v]]
  BY <1>1, <1>2 DEF TypeOK
<1>4. /\ req'[r] = [req[r] EXCEPT !.verdict = v]
      /\ \A s \in Requests \ {r} : pc'[s] = pc[s] /\ req'[s] = req[s]
  BY <1>1, <1>3 DEF TypeOK
<1>5. /\ req'[r].verdict = v /\ req'[r].messages = req[r].messages
      /\ req'[r].max_tokens = req[r].max_tokens
  BY <1>1, <1>4 DEF Request
<1>6. estimate_openrouter_cost(r)' = estimate_openrouter_cost(r)
  BY <1>5 DEF estimate_openrouter_cost, estimate_request_tokens
<1>7. Outstanding(r) = 0
  BY <1>1 DEF Outstanding
<1>8. Outstanding(r)' = IF v = "allow" THEN 2 * estimate_openrouter_cost(r) + CostUnit
                        ELSE 0
  BY <1>1, <1>5, <1>6 DEF Outstanding
<1>9. /\ Allowance \in Nat /\ billed \in Nat /\ Outstanding(r)' \in Nat
      /\ Allowance' - Allowance >= Outstanding(r)'
  <2>1. PICK cost \in Nat : cost = estimate_openrouter_cost(r)
    BY <1>1, EstimateCovers
  <2>2. /\ spent \in Nat /\ messages_used \in Nat /\ excess \in Nat /\ billed \in Nat
        /\ Allowance \in Nat
    BY <1>1, AllowanceType
  <2>3. CASE v = "allow"
    <3>1. PICK total \in Nat : total = spent + cost
      BY <2>1, <2>2
    <3>2. spent' \in Nat /\ 2 * spent' >= 2 * total - CounterUnit
      <4>1. spent' = Rounded(total, CounterUnit)
        BY <1>2, <2>1, <2>3, <3>1
      <4> QED
        BY <4>1, Bounds, RoundedNear
    <3>3. PICK unit \in Nat : unit = CostUnit + CounterUnit
      BY Bounds
    <3>4. (messages_used + 1) * unit = messages_used * unit + unit
          /\ messages_used * unit \in Nat
      BY <2>2
    <3>5. /\ Allowance = 2 * (spent + excess) + messages_used * unit
          /\ Allowance' = 2 * (spent' + excess) + (messages_used + 1) * unit
      BY <1>2, <2>3, <3>3 DEF Allowance
    <3>6. Outstanding(r)' = 2 * cost + CostUnit
      BY <1>8, <2>1, <2>3
    <3> QED
      BY <2>1, <2>2, <3>1, <3>2, <3>3, <3>4, <3>5, <3>6, Bounds
  <2>4. CASE v = "deny"
    <3>1. Allowance' = Allowance /\ Outstanding(r)' = 0
      BY <1>2, <1>8, <2>4, SameAllowance
    <3> QED
      BY <2>2, <3>1
  <2> QED
    BY <2>3, <2>4
<1>10. 2 * (billed' - billed) + Outstanding(r)'
        <= (Allowance' - Allowance) + Outstanding(r)
  <2>1. PICK allowed \in Nat : allowed = Allowance'
    BY AllowanceTypeNext DEF SafeInv
  <2>2. PICK owed \in Nat : owed = Outstanding(r)'
    BY <1>9
  <2>3. 2 * (billed' - billed) + owed <= (allowed - Allowance) + 0
    BY <2>1, <2>2, <1>1, <1>9
  <2> QED
    BY <2>1, <2>2, <2>3, <1>7, <1>9
<1> QED
  BY <1>4, <1>10, KeepsCovered DEF SafeInv

\* In production the request is charged, and the bill is within its estimate,
\* or beyond it by what counts as excess.
LEMMA ServesCovered ==
    ASSUME SafeInv, SafeInv', Covered, ~settings.DemoMode,
           NEW r \in Requests, OpenRouterServes(r)
    PROVE  Covered'
<1>1. /\ TypeOK /\ pc[r] = "forwarding" /\ req[r] \in Request
      /\ req' = req /\ pc' = [pc EXCEPT ![r] = "served"]
      /\ spent' = spent /\ messages_used' = messages_used
  BY AtWork DEF SafeInv, OpenRouterServes
<1>2. PICK input \in InputCounts, output \in 0..req[r].max_tokens :
        /\ billed' = billed + Price(input, output)
        /\ excess' = excess + Beyond(input, estimate_request_tokens(r)) * InputRate
  BY DEF OpenRouterServes
<1>3. PICK price : price = Price(input, output)
  OBVIOUS
<1>4. PICK beyond : beyond = Beyond(input, estimate_request_tokens(r)) * InputRate
  OBVIOUS
<1>5. PICK cost : cost = estimate_openrouter_cost(r)
  OBVIOUS
<1>6. /\ price \in Nat /\ beyond \in Nat /\ cost \in Nat
      /\ 2 * price <= 2 * cost + CostUnit + 2 * beyond
  BY <1>1, <1>3, <1>4, <1>5, EstimateCovers
<1>7. Outstanding(r) = 2 * cost + CostUnit
  BY <1>1, <1>5 DEF Outstanding, SafeInv, NeverUncharged, Charged
<1>8. /\ pc'[r] = "served"
      /\ \A q \in Requests \ {r} : pc'[q] = pc[q] /\ req'[q] = req[q]
  BY <1>1 DEF TypeOK
<1>9. Outstanding(r)' = 0
  BY <1>8 DEF Outstanding
<1>10. /\ billed' = billed + price /\ billed \in Nat
       /\ Allowance' - Allowance = 2 * beyond
  <2>1. /\ billed \in Nat /\ spent \in Nat /\ excess \in Nat /\ messages_used \in Nat
    BY <1>1, AllowanceType
  <2>2. PICK product \in Nat : product = messages_used * (CostUnit + CounterUnit)
    <3>1. CostUnit + CounterUnit \in Nat
      BY Bounds
    <3> QED
      BY <2>1, <3>1, ProductGrows
  <2>3. /\ Allowance = 2 * (spent + excess) + product
        /\ Allowance' = 2 * (spent + excess') + product
    BY <1>1, <2>2 DEF Allowance
  <2> QED
    BY <1>2, <1>3, <1>4, <1>6, <2>1, <2>3
<1>11. 2 * (billed' - billed) + Outstanding(r)'
         <= (Allowance' - Allowance) + Outstanding(r)
  BY <1>6, <1>7, <1>9, <1>10, Bounds
<1> QED
  BY <1>8, <1>11, KeepsCovered DEF SafeInv

LEMMA ProceedCovered ==
    ASSUME SafeInv, SafeInv', Covered, NEW r \in Requests, Proceed(r)
    PROVE  Covered'
<1>1. CASE Answered(r)
  BY <1>1, AllowedCovered, EndCovered DEF Answered, Replies
<1>2. CASE CheckFails(r)
  BY <1>2, AllowedCovered, EndCovered DEF CheckFails, _fallback_check_usage, Replies
<1>3. CASE Forwarded(r) \/ OpenRouterFails(r)
  BY <1>3, EndCovered DEF Forwarded, OpenRouterFails, Replies
<1> QED
  BY <1>1, <1>2, <1>3 DEF Proceed

\* What is outstanding is never negative.
LEMMA CoveredBill ==
    ASSUME TypeOK, Covered
    PROVE  2 * billed <= Allowance
<1>1. PICK f : f = Owed
  OBVIOUS
<1>2. \A r \in Requests : f[r] \in Nat
  BY <1>1, OwedIsNatural
<1>3. IsFiniteSet(Requests)
  BY ProxyAssumption
<1>4. Total(f, Requests) \in Nat
  BY ONLY <1>2, <1>3, TotalIsNatural
<1>5. 2 * billed + Total(f, Requests) <= Allowance
  BY <1>1 DEF Covered
<1>6. billed \in Nat /\ Allowance \in Nat
  BY AllowanceType
<1> QED
  BY ONLY <1>4, <1>5, <1>6

\* After a crash nothing is outstanding.
LEMMA CrashCovered ==
    ASSUME SafeInv, SafeInv', Covered, Crash
    PROVE  Covered'
<1>1. PICK f : f = Owed'
  OBVIOUS
<1>2. \A r \in Requests : f[r] = 0
  BY <1>1 DEF Crash, Owed, Outstanding
<1>3. Total(f, Requests) = 0
  BY ONLY <1>2, NothingDue
<1>4. billed' = billed /\ Allowance' = Allowance
  BY SameAllowance DEF Crash, money
<1>5. 2 * billed <= Allowance /\ billed \in Nat
  BY CoveredBill, AllowanceType DEF SafeInv
<1>6. 2 * billed' + Total(f, Requests) <= Allowance'
  BY <1>3, <1>4, <1>5
<1> QED
  BY <1>1, <1>6 DEF Covered

LEMMA InitBill == Init => BillSafe
<1> SUFFICES ASSUME Init PROVE BillSafe
  OBVIOUS
<1>1. SafeInv
  BY InitSafe
<1>2. PICK f : f = Owed
  OBVIOUS
<1>3. \A r \in Requests : f[r] = 0
  BY <1>2 DEF Init, Owed, Outstanding
<1>4. Total(f, Requests) = 0
  BY ONLY <1>3, NothingDue
<1>5. Covered
  <2>1. billed = 0 /\ Allowance \in Nat
    BY <1>1, AllowanceType DEF Init, SafeInv
  <2> QED
    BY <1>2, <1>4, <2>1 DEF Covered
<1> QED
  BY <1>1, <1>5 DEF BillSafe, BillInv

LEMMA NextBill == BillSafe /\ [Next]_vars => BillSafe'
<1> SUFFICES ASSUME BillSafe, [Next]_vars PROVE BillSafe'
  OBVIOUS
<1>1. SafeInv /\ SafeInv'
  BY NextSafe DEF BillSafe
<1>2. settings' = settings
  BY DEF Next, vars, Receive, Decide, Proceed, Answered, CheckFails, Allowed, Reply,
         _fallback_check_usage, Forwarded, OpenRouterFails, OpenRouterServes,
         Crash
<1>3. ASSUME ~settings.DemoMode PROVE Covered'
  <2>1. Covered
    BY <1>3 DEF BillSafe, BillInv
  <2>2. CASE UNCHANGED vars
    <3>1. Allowance' = Allowance
      BY <2>2, SameAllowance DEF vars, money
    <3> QED
      BY <2>1, <2>2, <3>1 DEF vars, money, Covered, Owed, Outstanding,
           estimate_openrouter_cost, estimate_request_tokens
  <2>3. CASE \E r \in Requests, m \in Conversations, n \in MaxTokens, f \in BOOLEAN :
               Receive(r, m, n, f)
    BY <1>1, <2>1, <2>3, ReceiveCovered
  <2>4. CASE \E r \in Requests : Decide(r)
    BY <1>1, <2>1, <2>4, DecideCovered
  <2>5. CASE \E r \in Requests : Proceed(r)
    BY <1>1, <2>1, <2>5, ProceedCovered
  <2>6. CASE \E r \in Requests : OpenRouterServes(r)
    BY <1>1, <1>3, <2>1, <2>6, ServesCovered
  <2>7. CASE Crash
    BY <1>1, <2>1, <2>7, CrashCovered
  <2> QED
    BY <2>2, <2>3, <2>4, <2>5, <2>6, <2>7 DEF Next
<1> QED
  BY <1>1, <1>2, <1>3 DEF BillSafe, BillInv

\* For any number of requests, any prices and whatever OpenRouter makes of a
\* conversation, its bill passes what users were charged in production only by
\* input that was not estimated and by what rounding took from each charge.
THEOREM BillBounded == Spec => []BillIsBounded
<1>1. BillSafe => BillIsBounded
  <2> SUFFICES ASSUME BillSafe, ~settings.DemoMode PROVE 2 * billed <= Allowance
    BY DEF BillIsBounded, Allowance
  <2> QED
    BY CoveredBill DEF BillSafe, BillInv, SafeInv
<1> QED
  BY <1>1, InitBill, NextBill, PTL DEF Spec

-----------------------------------------------------------------------------
(* The detector.  Nothing keeps two evaluations from storing the same      *)
(* finding, but each looks before it inserts: of the open anomalies of a   *)
(* type that one evaluation slot stored, no two lie within a window.       *)

RowsWith(T) == [type : T, detected_at : Nat, resolved : BOOLEAN]

DetectorTyped ==
    /\ now \in Nat
    /\ \E T : rows \in Seq(RowsWith(T))
    /\ phase \in [Tasks -> {"idle", "checking", "inserting"}]
    /\ anomalies = [t \in Tasks |-> anomalies[t]]
    /\ detected_at \in [Tasks -> Nat]

\* A slot's open rows of one type are more than a window apart ...
Apart(owner) ==
    \A i, j \in DOMAIN rows :
      /\ i < j /\ owner[i] = owner[j]
      /\ rows[i].type = rows[j].type /\ ~rows[i].resolved
      => rows[j].detected_at > rows[i].detected_at + Window

\* ... and what it is about to insert is later than them by as much.
Ahead(owner) ==
    \A t \in Tasks, i \in DOMAIN rows :
      /\ phase[t] = "inserting" /\ owner[i] = t
      /\ rows[i].type = Head(anomalies[t]) /\ ~rows[i].resolved
      => detected_at[t] > rows[i].detected_at + Window

Owned == \E owner \in [DOMAIN rows -> Tasks] : Apart(owner) /\ Ahead(owner)

DetectorInv == DetectorTyped /\ Owned

LEMMA DetectorBounds ==
    Window \in Nat /\ IsFiniteSet(Tasks) /\ Tasks # {}
BY DetectorAssumption

LEMMA RowFields ==
    ASSUME DetectorTyped
    PROVE  /\ Len(rows) \in Nat /\ DOMAIN rows = 1 .. Len(rows)
           /\ \A i \in DOMAIN rows : /\ rows[i].detected_at \in Nat
                                     /\ rows[i].resolved \in BOOLEAN
<1>1. PICK T : rows \in Seq(RowsWith(T))
  BY DEF DetectorTyped
<1>2. Len(rows) \in Nat /\ DOMAIN rows = 1 .. Len(rows)
  BY <1>1
<1>3. \A i \in DOMAIN rows : rows[i] \in RowsWith(T)
  BY <1>1, <1>2
<1> QED
  BY <1>2, <1>3 DEF RowsWith

LEMMA InitDetectorInv == DetectorInit => DetectorInv
<1> SUFFICES ASSUME DetectorInit
             PROVE  DetectorInv
  OBVIOUS
<1>1. DetectorTyped
  <2>1. << >> \in Seq(RowsWith({}))
    OBVIOUS
  <2> QED
    BY <2>1 DEF DetectorInit, DetectorTyped
<1>2. DOMAIN rows = {}
  BY DEF DetectorInit
<1>3. PICK t \in Tasks : TRUE
  BY DetectorBounds
<1> DEFINE owner == [i \in DOMAIN rows |-> t]
<1>4. owner \in [DOMAIN rows -> Tasks]
  OBVIOUS
<1>5. Apart(owner) /\ Ahead(owner)
  BY <1>2 DEF Apart, Ahead
<1> QED
  BY <1>1, <1>4, <1>5 DEF DetectorInv, Owned

\* A task's own step to another phase than "inserting", or none.
LEMMA QuietKeeps ==
    ASSUME DetectorInv, UNCHANGED <<rows, detected_at>>,
           \A t \in Tasks : phase'[t] = "inserting" =>
                              phase[t] = "inserting" /\ anomalies'[t] = anomalies[t]
    PROVE  Owned'
<1>1. PICK owner \in [DOMAIN rows -> Tasks] : Apart(owner) /\ Ahead(owner)
  BY DEF DetectorInv, Owned
<1>2. Apart(owner)'
  BY <1>1 DEF Apart
<1>3. Ahead(owner)'
  BY <1>1 DEF Ahead
<1> QED
  BY <1>1, <1>2, <1>3 DEF Owned

\* What FindNone has looked for and not found keeps its slot ahead.
LEMMA FindNoneKeeps ==
    ASSUME DetectorInv, NEW t \in Tasks, FindNone(t)
    PROVE  Owned'
<1>1. PICK owner \in [DOMAIN rows -> Tasks] : Apart(owner) /\ Ahead(owner)
  BY DEF DetectorInv, Owned
<1>2. /\ UNCHANGED <<now, rows, anomalies>>
      /\ detected_at'[t] = now
      /\ \A u \in Tasks \ {t} : detected_at'[u] = detected_at[u] /\ phase'[u] = phase[u]
  BY DEF FindNone, DetectorInv, DetectorTyped
<1>3. \A i \in DOMAIN rows :
        rows[i].type = Head(anomalies[t]) /\ ~rows[i].resolved
          => now > rows[i].detected_at + Window
  <2>1. \A i \in DOMAIN rows :
          rows[i].type = Head(anomalies[t]) /\ ~rows[i].resolved
            => ~(rows[i].detected_at >= now - Window)
    BY DEF FindNone, Existing, Recent
  <2>2. now \in Nat /\ \A i \in DOMAIN rows : rows[i].detected_at \in Nat
    BY RowFields DEF DetectorInv, DetectorTyped
  <2> QED
    BY <2>1, <2>2, DetectorBounds
<1>4. Apart(owner)'
  BY <1>1, <1>2 DEF Apart
<1>5. Ahead(owner)'
  BY <1>1, <1>2, <1>3 DEF Ahead
<1> QED
  BY <1>1, <1>2, <1>4, <1>5 DEF Owned

\* An inserted row is owned by the slot that inserts it.
LEMMA InsertKeeps ==
    ASSUME DetectorInv, NEW t \in Tasks, phase[t] = "inserting", InsertRow(t),
           phase'[t] # "inserting", UNCHANGED <<now, detected_at>>,
           \A u \in Tasks \ {t} : phase'[u] = phase[u] /\ anomalies'[u] = anomalies[u]
    PROVE  Owned' /\ \E T : rows' \in Seq(RowsWith(T))
<1> DEFINE new == [type |-> Head(anomalies[t]), detected_at |-> detected_at[t],
                   resolved |-> FALSE]
<1>1. PICK owner \in [DOMAIN rows -> Tasks] : Apart(owner) /\ Ahead(owner)
  BY DEF DetectorInv, Owned
<1>2. PICK T : rows \in Seq(RowsWith(T))
  BY DEF DetectorInv, DetectorTyped
<1> DEFINE S == RowsWith(T \cup {Head(anomalies[t])})
           n == Len(rows) + 1
<1>3. rows \in Seq(S)
  <2>1. RowsWith(T) \subseteq S
    BY DEF RowsWith
  <2> HIDE DEF S
  <2> QED
    BY <1>2, <2>1
<1>4. new \in S
  BY DEF RowsWith, DetectorInv, DetectorTyped
<1>5. rows' = Append(rows, new)
  BY DEF InsertRow
<1> HIDE DEF S, new
<1>6. /\ rows' \in Seq(S) /\ Len(rows') = n /\ n \in Nat
      /\ DOMAIN rows = 1 .. Len(rows) /\ Len(rows) \in Nat
      /\ DOMAIN rows' = DOMAIN rows \cup {n} /\ n \notin DOMAIN rows
      /\ \A i \in DOMAIN rows : rows'[i] = rows[i]
      /\ rows'[n] = new
  BY <1>3, <1>4, <1>5, AppendProperties
<1>7. /\ new.type = Head(anomalies[t]) /\ new.detected_at = detected_at[t]
      /\ ~new.resolved
  BY DEF new
<1>8. PICK owner2 \in [DOMAIN rows' -> Tasks] :
        owner2[n] = t /\ \A i \in DOMAIN rows : owner2[i] = owner[i]
  <2> DEFINE f == [i \in DOMAIN rows' |-> IF i = n THEN t ELSE owner[i]]
  <2>1. f \in [DOMAIN rows' -> Tasks]
    BY <1>6
  <2>2. f[n] = t /\ \A i \in DOMAIN rows : f[i] = owner[i]
    BY <1>6
  <2> HIDE DEF f
  <2> QED
    BY <2>1, <2>2
<1> HIDE DEF n
<1>9. ASSUME NEW i \in DOMAIN rows', NEW j \in DOMAIN rows', i < j,
             owner2[i] = owner2[j], rows'[i].type = rows'[j].type, ~rows'[i].resolved
      PROVE  rows'[j].detected_at > rows'[i].detected_at + Window
  <2>1. i \in DOMAIN rows
    BY <1>6, <1>9 DEF n
  <2>2. CASE j \in DOMAIN rows
    BY <1>1, <1>6, <1>8, <1>9, <2>1, <2>2 DEF Apart
  <2>3. CASE j = n
    BY <1>1, <1>6, <1>7, <1>8, <1>9, <2>1, <2>3 DEF Ahead
  <2> QED
    BY <1>6, <2>2, <2>3
<1>10. Apart(owner2)'
  BY <1>9 DEF Apart
<1>11. Ahead(owner2)'
  <2> SUFFICES ASSUME NEW u \in Tasks, NEW i \in DOMAIN rows',
                      phase'[u] = "inserting", owner2[i] = u,
                      rows'[i].type = Head(anomalies'[u]), ~rows'[i].resolved
               PROVE  detected_at'[u] > rows'[i].detected_at + Window
    BY DEF Ahead
  <2>1. u # t /\ i \in DOMAIN rows
    BY <1>6, <1>8
  <2> QED
    BY <1>1, <1>6, <1>8, <2>1 DEF Ahead
<1> QED
  BY <1>6, <1>8, <1>10, <1>11 DEF Owned, S

\* An anomaly that is closed asks for nothing any more.
LEMMA ResolveKeeps ==
    ASSUME DetectorInv, NEW i \in DOMAIN rows, resolve_anomaly(i)
    PROVE  Owned' /\ \E T : rows' \in Seq(RowsWith(T))
<1>1. PICK owner \in [DOMAIN rows -> Tasks] : Apart(owner) /\ Ahead(owner)
  BY DEF DetectorInv, Owned
<1>2. PICK T : rows \in Seq(RowsWith(T))
  BY DEF DetectorInv, DetectorTyped
<1>3. rows' = [rows EXCEPT ![i] = [rows[i] EXCEPT !.resolved = TRUE]]
  BY DEF resolve_anomaly
<1>4. rows[i] \in RowsWith(T)
  BY <1>2
<1>5. [rows[i] EXCEPT !.resolved = TRUE] \in RowsWith(T)
  BY <1>4 DEF RowsWith
<1>6. rows' \in Seq(RowsWith(T)) /\ DOMAIN rows' = DOMAIN rows
  BY <1>2, <1>3, <1>5, ExceptSeq
<1>7. \A j \in DOMAIN rows : /\ rows'[j].type = rows[j].type
                             /\ rows'[j].detected_at = rows[j].detected_at
                             /\ rows[j].resolved => rows'[j].resolved
  BY <1>3, <1>4 DEF RowsWith
<1>8. UNCHANGED <<phase, anomalies, detected_at>>
  BY DEF resolve_anomaly
<1>9. Apart(owner)'
  BY <1>1, <1>6, <1>7 DEF Apart
<1>10. Ahead(owner)'
  BY <1>1, <1>6, <1>7, <1>8 DEF Ahead
<1> QED
  BY <1>1, <1>6, <1>9, <1>10 DEF Owned

LEMMA EvaluateShape ==
    ASSUME NEW t, NEW found, Evaluate(t, found)
    PROVE  /\ UNCHANGED <<now, rows, detected_at>>
           /\ phase' = [phase EXCEPT ![t] = "checking"]
           /\ \E queue : anomalies' = [anomalies EXCEPT ![t] = queue]
BY Zenon DEF Evaluate

LEMMA StepDetectorInv == DetectorInv /\ [DetectorNext]_detectorVars => DetectorInv'
<1> SUFFICES ASSUME DetectorInv, [DetectorNext]_detectorVars
             PROVE  DetectorInv'
  OBVIOUS
<1> USE DEF DetectorInv
<1>1. ASSUME NEW t \in Tasks, NEW found \in Findings, Evaluate(t, found)
      PROVE  DetectorInv'
  <2>1. PICK queue : anomalies' = [anomalies EXCEPT ![t] = queue]
    BY <1>1, EvaluateShape
  <2>2. UNCHANGED <<now, rows, detected_at>> /\ phase' = [phase EXCEPT ![t] = "checking"]
    BY <1>1, EvaluateShape
  <2>3. DetectorTyped'
    BY <2>1, <2>2 DEF DetectorTyped
  <2>4. \A u \in Tasks : phase'[u] = "inserting" =>
          phase[u] = "inserting" /\ anomalies'[u] = anomalies[u]
    BY <2>1, <2>2 DEF DetectorTyped
  <2> QED
    BY <2>2, <2>3, <2>4, QuietKeeps
<1>2. ASSUME NEW t \in Tasks, Skip(t)
      PROVE  DetectorInv'
  <2>1. DetectorTyped'
    BY <1>2 DEF Skip, Advance, DetectorTyped
  <2>2. \A u \in Tasks : phase'[u] = "inserting" =>
          phase[u] = "inserting" /\ anomalies'[u] = anomalies[u]
    BY <1>2 DEF Skip, Advance, DetectorTyped
  <2> QED
    BY <1>2, <2>1, <2>2, QuietKeeps DEF Skip
<1>3. ASSUME NEW t \in Tasks, FindNone(t)
      PROVE  DetectorInv'
  <2>1. DetectorTyped'
    BY <1>3 DEF FindNone, DetectorTyped
  <2> QED
    BY <1>3, <2>1, FindNoneKeeps
<1>4. ASSUME NEW t \in Tasks, Insert(t)
      PROVE  DetectorInv'
  <2>1. /\ phase'[t] # "inserting"
        /\ \A u \in Tasks \ {t} : phase'[u] = phase[u] /\ anomalies'[u] = anomalies[u]
    BY <1>4 DEF Insert, Advance, DetectorTyped
  <2>2. Owned' /\ \E T : rows' \in Seq(RowsWith(T))
    BY <1>4, <2>1, InsertKeeps DEF Insert
  <2>3. /\ phase' \in [Tasks -> {"idle", "checking", "inserting"}]
        /\ anomalies' = [u \in Tasks |-> anomalies'[u]]
        /\ UNCHANGED <<now, detected_at>>
    BY <1>4 DEF Insert, Advance, DetectorTyped
  <2> QED
    BY <2>2, <2>3 DEF DetectorTyped
<1>5. ASSUME NEW t \in Tasks, Abandon(t)
      PROVE  DetectorInv'
  <2>1. /\ phase'[t] # "inserting"
        /\ \A u \in Tasks \ {t} : phase'[u] = phase[u] /\ anomalies'[u] = anomalies[u]
        /\ phase' \in [Tasks -> {"idle", "checking", "inserting"}]
        /\ anomalies' = [u \in Tasks |-> anomalies'[u]]
        /\ UNCHANGED <<now, detected_at>>
    BY <1>5 DEF Abandon, DetectorTyped
  <2>2. CASE phase[t] = "inserting" /\ InsertRow(t)
    <3>1. Owned' /\ \E T : rows' \in Seq(RowsWith(T))
      BY <2>1, <2>2, InsertKeeps
    <3> QED
      BY <2>1, <3>1 DEF DetectorTyped
  <2>3. CASE UNCHANGED rows
    <3>1. Owned'
      BY <2>1, <2>3, QuietKeeps
    <3> QED
      BY <2>1, <2>3, <3>1 DEF DetectorTyped
  <2> QED
    BY <1>5, <2>2, <2>3 DEF Abandon
<1>6. ASSUME NEW i \in DOMAIN rows, resolve_anomaly(i)
      PROVE  DetectorInv'
  <2>1. UNCHANGED <<now, phase, anomalies, detected_at>>
    BY <1>6 DEF resolve_anomaly
  <2> QED
    BY <1>6, <2>1, ResolveKeeps DEF DetectorTyped
<1>7. CASE Tick
  <2>1. DetectorTyped'
    BY <1>7 DEF Tick, DetectorTyped
  <2> QED
    BY <1>7, <2>1, QuietKeeps DEF Tick
<1>8. CASE UNCHANGED detectorVars
  <2>1. DetectorTyped'
    BY <1>8 DEF detectorVars, DetectorTyped
  <2> QED
    BY <1>8, <2>1, QuietKeeps DEF detectorVars
<1> QED
  BY <1>1, <1>2, <1>3, <1>4, <1>5, <1>6, <1>7, <1>8 DEF DetectorNext

\* Two of the rows within a window of row i never have the same owner.
LEMMA DuplicatesBounded == DetectorInv => BoundedDuplicates
<1> SUFFICES ASSUME DetectorInv, NEW i \in DOMAIN rows
             PROVE  Cardinality(OpenSince(i)) <= Cardinality(Tasks)
  BY DEF BoundedDuplicates
<1>1. PICK owner \in [DOMAIN rows -> Tasks] : Apart(owner)
  BY DEF DetectorInv, Owned
<1>2. \A j \in DOMAIN rows : j \in Int /\ rows[j].detected_at \in Nat
  BY RowFields DEF DetectorInv
<1>3. ASSUME NEW j \in OpenSince(i), NEW k \in OpenSince(i), j < k
      PROVE  owner[j] # owner[k]
  <2>1. /\ j \in DOMAIN rows /\ k \in DOMAIN rows
        /\ rows[j].type = rows[k].type /\ ~rows[j].resolved
        /\ rows[j].detected_at >= rows[i].detected_at
        /\ rows[k].detected_at <= rows[i].detected_at + Window
    BY <1>2, DetectorBounds DEF OpenSince
  <2>2. ~(rows[k].detected_at > rows[j].detected_at + Window)
    BY <1>2, <2>1, DetectorBounds
  <2> QED
    BY <1>1, <1>3, <2>1, <2>2 DEF Apart
<1> DEFINE mine == [j \in OpenSince(i) |-> owner[j]]
<1>4. mine \in [OpenSince(i) -> Tasks]
  BY DEF OpenSince
<1>5. ASSUME NEW j \in OpenSince(i), NEW k \in OpenSince(i), j # k
      PROVE  mine[j] # mine[k]
  <2>1. j \in Int /\ k \in Int
    BY <1>2 DEF OpenSince
  <2>2. j < k \/ k < j
    BY <1>5, <2>1
  <2> QED
    BY <1>3, <2>2
<1>6. mine \in Injection(OpenSince(i), Tasks)
  BY <1>4, <1>5 DEF Injection, IsInjective
<1> QED
  BY <1>6, DetectorBounds, FS_Injection

\* However the evaluations interleave, fail half way or insert late, and
\* however many there are, a window holds at most one open anomaly of a type
\* for each of them.
THEOREM AlwaysBoundedDuplicates == DetectorSpec => []BoundedDuplicates
BY InitDetectorInv, StepDetectorInv, DuplicatesBounded, PTL DEF DetectorSpec

-----------------------------------------------------------------------------
(* The signals.  They are compared after multiplying out, so that they     *)
(* grow with the spend because products do.                                *)

SignalsTyped ==
    /\ day \in 1..DaysInMonth
    /\ current_spend \in Nat
    /\ prev \in Histories
    /\ due \in 0..Overlap
    /\ warned \in 0..4

LEMMA SignalsTypes ==
    ASSUME SignalsTyped
    PROVE  /\ day \in Nat /\ current_spend \in Nat
           /\ prev.months \in Nat /\ prev.total \in Nat
           /\ DaysInMonth \in Nat /\ Budget \in Nat /\ Budget > 0 /\ MinDaily \in Nat
           /\ SpikeMultiplier \in Nat /\ TrajectoryPct \in Nat
<1>1. prev \in [months : 0..3, total : Nat]
  BY SignalsAssumption DEF SignalsTyped
<1> QED
  BY <1>1, SignalsAssumption DEF SignalsTyped

\* The level is the highest reached, or 1.
LEMMA LevelIsHighest ==
    ASSUME NEW reached \in SUBSET (2..4)
    PROVE  /\ Level(reached) \in {1} \cup reached
           /\ Level(reached) \in 1..4
           /\ \A j \in reached : j <= Level(reached)
<1>1. \E i \in {1} \cup reached : \A j \in reached : j <= i
  <2>1. \A j \in reached : j = 2 \/ j = 3 \/ j = 4
    OBVIOUS
  <2>2. CASE 4 \in reached
    BY <2>1, <2>2
  <2>3. CASE 4 \notin reached /\ 3 \in reached
    BY <2>1, <2>3
  <2>4. CASE 4 \notin reached /\ 3 \notin reached /\ 2 \in reached
    BY <2>1, <2>4
  <2>5. CASE reached = {}
    BY <2>5
  <2>6. reached = {} \/ 2 \in reached \/ 3 \in reached \/ 4 \in reached
    BY <2>1
  <2> QED
    BY <2>2, <2>3, <2>4, <2>5, <2>6
<1>2. /\ Level(reached) \in {1} \cup reached
      /\ \A j \in reached : j <= Level(reached)
  BY <1>1 DEF Level
<1>3. \A i \in {1} \cup reached : i \in 1..4
  OBVIOUS
<1> QED
  BY <1>2, <1>3

LEMMA TrajectoryLevel == budget_trajectory \in 0..4
<1> DEFINE reached == {i \in 2..4 : TrajectoryReaches(TrajectoryBounds[i])}
<1>1. budget_trajectory \in {NoSignal, Level(reached)}
  BY DEF budget_trajectory
<1>2. reached \in SUBSET (2..4)
  OBVIOUS
<1> HIDE DEF reached
<1> QED
  BY <1>1, <1>2, LevelIsHighest DEF NoSignal

LEMMA StepSignalsTyped == SignalsTyped /\ [SignalsNext]_signalsVars => SignalsTyped'
<1> SUFFICES ASSUME SignalsTyped, [SignalsNext]_signalsVars PROVE SignalsTyped'
  OBVIOUS
<1>1. ASSUME NEW a \in Amounts, Spend(a) PROVE SignalsTyped'
  BY <1>1, SignalsAssumption DEF SignalsTyped, Spend
<1>2. CASE Evaluation
  BY <1>2, TrajectoryLevel, SignalsAssumption DEF SignalsTyped, Evaluation
<1>3. CASE NextDay
  BY <1>3, SignalsAssumption DEF SignalsTyped, NextDay
<1>4. CASE UNCHANGED signalsVars
  BY <1>4 DEF SignalsTyped, signalsVars
<1> QED
  BY <1>1, <1>2, <1>3, <1>4 DEF SignalsNext

LEMMA SignalsAreTyped == SignalsSpec => []SignalsTyped
<1>1. SignalsInit => SignalsTyped
  BY SignalsAssumption DEF SignalsInit, SignalsTyped
<1> QED
  BY <1>1, StepSignalsTyped, PTL DEF SignalsSpec

LEMMA LevelGrows ==
    ASSUME NEW few \in SUBSET (2..4), NEW many \in SUBSET (2..4), few \subseteq many
    PROVE  Level(few) <= Level(many)
<1>1. Level(few) \in {1} \cup few /\ Level(few) \in 1..4
  BY LevelIsHighest
<1>2. Level(many) \in 1..4 /\ \A j \in many : j <= Level(many)
  BY LevelIsHighest
<1> QED
  BY <1>1, <1>2

-----------------------------------------------------------------------------
(* Warned before the budget is gone.                                       *)

LEMMA OverlapBounds ==
    /\ Overlap \in Nat /\ MaxAmount \in Nat /\ Unseen \in Nat
    /\ \A a \in Amounts : a \in Nat /\ a <= MaxAmount
<1>1. Overlap * MaxAmount \in Nat
  BY ProductGrows, SignalsAssumption
<1> QED
  BY <1>1, SignalsAssumption DEF Unseen

\* Up to day 20 whoever may run out of budget before the next evaluation is
\* on the way to any bound that leaves room for what is charged unseen.
LEMMA NearlyExhausted ==
    ASSUME SignalsTyped, day <= 20, current_spend >= Budget - Unseen, NEW pct \in Nat,
           20 * pct * Budget <= 100 * ((Budget - Unseen) * DaysInMonth)
    PROVE  /\ TrajectoryReaches(pct)
           /\ 20 * pct * Budget < 100 * ((Budget - Unseen) * DaysInMonth)
                => TrajectoryExceeds(pct)
<1>1. /\ day \in Nat /\ current_spend \in Nat /\ DaysInMonth \in Nat
      /\ Budget \in Nat
  BY SignalsTypes
<1> DEFINE low == (Budget - Unseen) * DaysInMonth
           s == current_spend * DaysInMonth
           b == pct * Budget
<1>2. low \in Int /\ s \in Nat /\ low <= s
  <2>1. PICK gap \in Nat : current_spend = (Budget - Unseen) + gap
    <3>1. current_spend - (Budget - Unseen) \in Nat
      BY <1>1, OverlapBounds
    <3> QED
      BY <1>1, <3>1, OverlapBounds
  <2>2. gap * DaysInMonth \in Nat /\ s \in Nat
    BY <1>1, <2>1, ProductGrows
  <2>3. s = low + gap * DaysInMonth /\ low \in Int
    BY <1>1, <2>1, OverlapBounds
  <2> QED
    BY <2>2, <2>3
<1>3. b \in Nat /\ b * day \in Nat /\ b * 20 \in Nat /\ b * day <= b * 20
  <2>1. b \in Nat
    BY <1>1, ProductGrows
  <2> HIDE DEF b
  <2> QED
    BY <1>1, <2>1, ProductGrows
<1>4. 20 * pct * Budget = b * 20
  BY <1>1
<1>5. /\ TrajectoryReaches(pct) <=> 100 * s >= b * day
      /\ TrajectoryExceeds(pct) <=> 100 * s > b * day
  BY DEF TrajectoryReaches, TrajectoryExceeds, Projected
<1>6. b * 20 <= 100 * low
  BY <1>4
<1>7. 20 * pct * Budget < 100 * low <=> b * 20 < 100 * low
  BY <1>4
<1> HIDE DEF s, b, low
<1>8. 100 * s >= b * day /\ (b * 20 < 100 * low => 100 * s > b * day)
  BY <1>2, <1>3, <1>6
<1> QED
  BY <1>5, <1>7, <1>8 DEF low

\* An evaluation that finds so much spent finds the trajectory.
LEMMA EvaluationFinds ==
    ASSUME WarnsInTime, SignalsTyped, day <= 20, current_spend >= Budget - Unseen
    PROVE  budget_trajectory >= 2
<1>1. /\ day \in Nat /\ current_spend \in Nat /\ MinDaily \in Nat /\ Budget \in Nat
      /\ TrajectoryPct \in Nat /\ DaysInMonth \in Nat
  BY SignalsTypes
<1>2. Notable
  <2>1. MinDaily * day <= MinDaily * 20 /\ MinDaily * day \in Nat
    BY <1>1, ProductGrows
  <2> QED
    BY <1>1, <2>1, OverlapBounds DEF Notable, WarnsInTime
<1>3. 20 * TrajectoryPct * Budget < 100 * ((Budget - Unseen) * DaysInMonth)
  BY DEF WarnsInTime
<1>4. TrajectoryExceeds(TrajectoryPct)
  <2>1. /\ 20 * TrajectoryPct * Budget \in Int
        /\ 100 * ((Budget - Unseen) * DaysInMonth) \in Int
    BY <1>1, OverlapBounds
  <2>2. 20 * TrajectoryPct * Budget <= 100 * ((Budget - Unseen) * DaysInMonth)
    BY ONLY <1>3, <2>1
  <2> QED
    BY <1>1, <1>3, <2>2, NearlyExhausted
<1>5. TrajectoryReaches(120)
  <2>1. 20 * 120 * Budget <= 100 * ((Budget - Unseen) * DaysInMonth) /\ 120 \in Nat
    BY DEF WarnsInTime
  <2> QED
    BY <2>1, NearlyExhausted
<1> DEFINE reached == {i \in 2..4 : TrajectoryReaches(TrajectoryBounds[i])}
<1>6. 2 \in reached
  BY <1>5 DEF TrajectoryBounds
<1>7. budget_trajectory = Level(reached)
  BY <1>2, <1>4 DEF budget_trajectory
<1>8. reached \in SUBSET (2..4)
  OBVIOUS
<1> HIDE DEF reached
<1> QED
  BY <1>6, <1>7, <1>8, LevelIsHighest

\* What may still be charged before the next evaluation does not exhaust the
\* budget, unless there has been a warning.
Room == current_spend + (Overlap - due) * MaxAmount < Budget

WarnedInTime == day <= 20 => Room \/ warned >= 2

WarnInv == SignalsTyped /\ WarnedInTime

LEMMA InitWarnInv ==
    ASSUME WarnsInTime
    PROVE  SignalsInit => WarnInv
<1> SUFFICES ASSUME SignalsInit PROVE WarnInv
  OBVIOUS
<1>1. SignalsTyped
  BY SignalsAssumption DEF SignalsInit, SignalsTyped
<1>2. WarnedInTime
  <2> SUFFICES Room
    BY DEF WarnedInTime
  <2>1. 20 * MinDaily < Budget - Unseen /\ MinDaily \in Nat /\ Budget \in Nat
    BY SignalsAssumption DEF WarnsInTime
  <2>2. (Overlap - due) * MaxAmount = Unseen
    BY OverlapBounds DEF SignalsInit, Unseen
  <2> QED
    BY <2>1, <2>2, OverlapBounds DEF SignalsInit, Room
<1> QED
  BY <1>1, <1>2 DEF WarnInv

LEMMA StepWarnInv ==
    ASSUME WarnsInTime
    PROVE  WarnInv /\ [SignalsNext]_signalsVars => WarnInv'
<1> SUFFICES ASSUME WarnInv, [SignalsNext]_signalsVars PROVE WarnInv'
  OBVIOUS
<1>1. SignalsTyped /\ SignalsTyped' /\ WarnedInTime
  BY StepSignalsTyped DEF WarnInv
<1>2. /\ current_spend \in Nat /\ due \in 0..Overlap /\ day \in Nat /\ Budget \in Nat
  BY <1>1, SignalsTypes DEF SignalsTyped
<1>3. ASSUME NEW a \in Amounts, Spend(a)
      PROVE  WarnedInTime'
  <2>1. PICK left \in Nat : left = Overlap - due
    BY <1>2, OverlapBounds
  <2>2. /\ due' = due + 1 /\ current_spend' = current_spend + a /\ due < Overlap
        /\ day' = day /\ warned' = warned
    BY <1>3 DEF Spend
  <2>3. Overlap - due' = left - 1 /\ left - 1 \in Nat
    BY <1>2, <2>1, <2>2, OverlapBounds
  <2>4. left * MaxAmount = (left - 1) * MaxAmount + MaxAmount
        /\ (left - 1) * MaxAmount \in Nat
    BY <2>3, OverlapBounds, ProductGrows
  <2>5. Room => Room'
    <3>1. Room <=> current_spend + left * MaxAmount < Budget
      BY <2>1 DEF Room
    <3>2. Room' <=> current_spend' + (left - 1) * MaxAmount < Budget
      BY <2>3 DEF Room
    <3>3. a \in Nat /\ a <= MaxAmount /\ MaxAmount \in Nat
      BY OverlapBounds
    <3> DEFINE k == (left - 1) * MaxAmount
               m == left * MaxAmount
    <3>4. k \in Nat /\ m = k + MaxAmount
      BY <2>4
    <3> HIDE DEF k, m
    <3>5. current_spend + m < Budget => current_spend' + k < Budget
      BY <1>2, <2>2, <3>3, <3>4
    <3> QED
      BY <3>1, <3>2, <3>5 DEF k, m
  <2> QED
    BY <1>1, <2>2, <2>5 DEF WarnedInTime
<1>4. ASSUME Evaluation
      PROVE  WarnedInTime'
  <2> SUFFICES ASSUME day' <= 20
               PROVE  Room' \/ warned' >= 2
    BY DEF WarnedInTime
  <2>1. /\ day <= 20 /\ due' = 0 /\ current_spend' = current_spend
        /\ warned' = IF current_spend < Budget /\ budget_trajectory > warned
                     THEN budget_trajectory ELSE warned
        /\ warned \in Nat /\ budget_trajectory \in Nat
    BY <1>1, <1>4, TrajectoryLevel DEF Evaluation, SignalsTyped
  <2>2. CASE warned >= 2
    BY <2>1, <2>2
  <2>3. CASE ~(warned >= 2)
    <3>1. Room
      BY <1>1, <2>1, <2>3 DEF WarnedInTime
    <3>2. (Overlap - due) * MaxAmount \in Nat
      <4>1. Overlap - due \in Nat
        BY <1>2, OverlapBounds
      <4> QED
        BY <4>1, OverlapBounds, ProductGrows
    <3>3. current_spend < Budget
      BY <1>2, <3>1, <3>2 DEF Room
    <3>4. CASE current_spend >= Budget - Unseen
      <4>1. budget_trajectory >= 2
        BY <1>1, <2>1, <3>4, EvaluationFinds
      <4> QED
        BY <2>1, <3>3, <4>1
    <3>5. CASE ~(current_spend >= Budget - Unseen)
      <4>1. (Overlap - due') * MaxAmount = Unseen
        BY <2>1, OverlapBounds DEF Unseen
      <4>2. Room'
        BY <1>2, <2>1, <3>5, <4>1, OverlapBounds DEF Room
      <4> QED
        BY <4>2
    <3> QED
      BY <3>4, <3>5
  <2> QED
    BY <2>2, <2>3
<1>5. ASSUME NextDay
      PROVE  WarnedInTime'
  <2>1. day' = day + 1 /\ UNCHANGED <<current_spend, due, warned>>
    BY <1>5 DEF NextDay
  <2>2. day' <= 20 => day <= 20
    BY <1>2, <2>1
  <2>3. Room' <=> Room
    BY <2>1 DEF Room
  <2> QED
    BY <1>1, <2>1, <2>2, <2>3 DEF WarnedInTime
<1>6. ASSUME UNCHANGED signalsVars
      PROVE  WarnedInTime'
  <2>1. UNCHANGED <<day, current_spend, due, warned>>
    BY <1>6 DEF signalsVars
  <2>2. Room' <=> Room
    BY <2>1 DEF Room
  <2> QED
    BY <1>1, <2>1, <2>2 DEF WarnedInTime
<1> QED
  BY <1>1, <1>3, <1>4, <1>5, <1>6 DEF WarnInv, SignalsNext

\* For any budget that is large beside what is charged unseen, and whenever
\* the evaluations run, a workspace that spends its budget by day 20 was warned
\* while some of it was left.
THEOREM AlwaysForeseen == SignalsSpec => []ExhaustionForeseen
<1>1. CASE ~WarnsInTime
  <2>1. ExhaustionForeseen
    BY <1>1 DEF ExhaustionForeseen
  <2> QED
    BY <2>1, PTL
<1> SUFFICES ASSUME WarnsInTime PROVE SignalsSpec => []ExhaustionForeseen
  BY <1>1
<1>2. WarnInv => ExhaustionForeseen
  <2> SUFFICES ASSUME WarnInv, day <= 20, current_spend >= Budget
               PROVE  warned >= 2
    BY DEF ExhaustionForeseen
  <2>1. /\ current_spend \in Nat /\ due \in 0..Overlap /\ Budget \in Nat
    BY SignalsTypes DEF WarnInv, SignalsTyped
  <2>2. (Overlap - due) * MaxAmount \in Nat
    <3>1. Overlap - due \in Nat
      BY <2>1, OverlapBounds
    <3> QED
      BY <3>1, OverlapBounds, ProductGrows
  <2>3. ~Room
    BY <2>1, <2>2 DEF Room
  <2> QED
    BY <2>3 DEF WarnInv, WarnedInTime
<1> QED
  BY <1>2, InitWarnInv, StepWarnInv, PTL DEF SignalsSpec

-----------------------------------------------------------------------------
(* More spending is never a milder signal.                                 *)

\* Two moments of one day, the second with more spent.
Later == /\ SignalsTyped /\ SignalsTyped'
         /\ day' = day /\ prev' = prev
         /\ current_spend <= current_spend'

LEMMA LaterTypes ==
    ASSUME Later
    PROVE  /\ day \in Nat /\ current_spend \in Nat /\ current_spend' \in Nat
           /\ prev.months \in Nat /\ prev.total \in Nat
           /\ DaysInMonth \in Nat /\ Budget \in Nat /\ MinDaily \in Nat
           /\ SpikeMultiplier \in Nat /\ TrajectoryPct \in Nat
           /\ day' = day /\ prev' = prev /\ current_spend <= current_spend'
           /\ Notable => Notable'
<1>1. /\ day \in Nat /\ current_spend \in Nat /\ current_spend' \in Nat
      /\ MinDaily \in Nat
      /\ day' = day /\ current_spend <= current_spend'
  BY SignalsTypes DEF Later, SignalsTyped
<1>2. MinDaily * day \in Nat
  BY <1>1, ProductGrows
<1>3. Notable => Notable'
  BY <1>1, <1>2 DEF Notable
<1> QED
  BY <1>1, <1>3, SignalsTypes DEF Later

\* A signal whose condition and bounds, once met, stay met.
LEMMA SeverityGrows ==
    ASSUME NEW before, NEW after, before => after,
           NEW few \in SUBSET (2..4), NEW many \in SUBSET (2..4), few \subseteq many
    PROVE  (IF after THEN Level(many) ELSE NoSignal)
             >= (IF before THEN Level(few) ELSE NoSignal)
<1>1. Level(few) \in 1..4 /\ Level(many) \in 1..4 /\ Level(few) <= Level(many)
  BY LevelGrows, LevelIsHighest
<1> QED
  BY <1>1 DEF NoSignal

LEMMA SpikeGrows ==
    ASSUME Later
    PROVE  spend_spike' >= spend_spike
<1> DEFINE s == current_spend * 30 * prev.months
           t == current_spend' * 30 * prev.months
           base(ratio) == ratio * prev.total * day
<1>1. s \in Int /\ t \in Int /\ s <= t
  <2>1. /\ current_spend * 30 \in Nat /\ current_spend' * 30 \in Nat
        /\ current_spend * 30 <= current_spend' * 30
    BY LaterTypes, ProductGrows
  <2> QED
    BY <2>1, LaterTypes, ProductGrows
<1>2. \A ratio \in Nat : base(ratio) \in Int
  <2> SUFFICES ASSUME NEW ratio \in Nat PROVE base(ratio) \in Int
    OBVIOUS
  <2>1. ratio * prev.total \in Nat
    BY LaterTypes, ProductGrows
  <2> QED
    BY LaterTypes, <2>1, ProductGrows
<1>3. \A ratio : /\ SpikeReaches(ratio) <=> s >= base(ratio)
                 /\ SpikeReaches(ratio)' <=> t >= base(ratio)
                 /\ SpikeExceeds(ratio) <=> s > base(ratio)
                 /\ SpikeExceeds(ratio)' <=> t > base(ratio)
  BY LaterTypes DEF SpikeReaches, SpikeExceeds
<1> HIDE DEF s, t, base
<1>4. \A ratio \in Nat : /\ SpikeReaches(ratio) => SpikeReaches(ratio)'
                         /\ SpikeExceeds(ratio) => SpikeExceeds(ratio)'
  BY <1>1, <1>2, <1>3
<1> DEFINE spiked == /\ prev.months > 0 /\ prev.total > 0
                     /\ SpikeExceeds(SpikeMultiplier) /\ Notable
           few == {i \in 2..4 : SpikeReaches(SpikeBounds[i])}
           many == {i \in 2..4 : SpikeReaches(SpikeBounds[i])'}
<1>5. few \in SUBSET (2..4) /\ many \in SUBSET (2..4) /\ few \subseteq many
  <2>1. \A i \in 2..4 : SpikeBounds[i] \in Nat
    BY DEF SpikeBounds
  <2> QED
    BY <1>4, <2>1
<1>6. /\ spend_spike = IF spiked THEN Level(few) ELSE NoSignal
      /\ spend_spike' = IF spiked' THEN Level(many) ELSE NoSignal
  BY DEF spend_spike, NoSignal, SpikeBounds
<1>7. spiked => spiked'
  BY <1>4, LaterTypes
<1> HIDE DEF few, many, spiked
<1> QED
  BY <1>5, <1>6, <1>7, SeverityGrows

LEMMA TrajectoryGrows ==
    ASSUME Later
    PROVE  budget_trajectory' >= budget_trajectory
<1> DEFINE s == 100 * (current_spend * DaysInMonth)
           t == 100 * (current_spend' * DaysInMonth)
           base(pct) == pct * Budget * day
<1>1. s \in Int /\ t \in Int /\ s <= t
  <2>1. /\ current_spend * DaysInMonth \in Nat /\ current_spend' * DaysInMonth \in Nat
        /\ current_spend * DaysInMonth <= current_spend' * DaysInMonth
    BY LaterTypes, ProductGrows
  <2> QED
    BY <2>1, LaterTypes, ProductGrows
<1>2. \A pct \in Nat : base(pct) \in Int
  <2> SUFFICES ASSUME NEW pct \in Nat PROVE base(pct) \in Int
    OBVIOUS
  <2>1. pct * Budget \in Nat
    BY LaterTypes, ProductGrows
  <2> QED
    BY LaterTypes, <2>1, ProductGrows
<1>3. \A pct : /\ TrajectoryReaches(pct) <=> s >= base(pct)
               /\ TrajectoryReaches(pct)' <=> t >= base(pct)
               /\ TrajectoryExceeds(pct) <=> s > base(pct)
               /\ TrajectoryExceeds(pct)' <=> t > base(pct)
  BY LaterTypes DEF TrajectoryReaches, TrajectoryExceeds, Projected
<1> HIDE DEF s, t, base
<1>4. \A pct \in Nat : /\ TrajectoryReaches(pct) => TrajectoryReaches(pct)'
                       /\ TrajectoryExceeds(pct) => TrajectoryExceeds(pct)'
  BY <1>1, <1>2, <1>3
<1> DEFINE early == day <= 20 /\ Notable /\ TrajectoryExceeds(TrajectoryPct)
           few == {i \in 2..4 : TrajectoryReaches(TrajectoryBounds[i])}
           many == {i \in 2..4 : TrajectoryReaches(TrajectoryBounds[i])'}
<1>5. few \in SUBSET (2..4) /\ many \in SUBSET (2..4) /\ few \subseteq many
  <2>1. \A i \in 2..4 : TrajectoryBounds[i] \in Nat
    BY DEF TrajectoryBounds
  <2> QED
    BY <1>4, <2>1
<1>6. /\ budget_trajectory = IF early THEN Level(few) ELSE NoSignal
      /\ budget_trajectory' = IF early' THEN Level(many) ELSE NoSignal
  BY DEF budget_trajectory, NoSignal, TrajectoryBounds
<1>7. early => early'
  BY <1>4, LaterTypes
<1> HIDE DEF few, many, early
<1> QED
  BY <1>5, <1>6, <1>7, SeverityGrows

\* In a month with any spend the comparison of its halves goes by the day.
LEMMA AccelerationGrows ==
    ASSUME Later
    PROVE  rapid_acceleration' >= rapid_acceleration
<1> DEFINE k == day - 15
           fast(s) == /\ day > 15 /\ s > 0
                      /\ 2 * (s * 15) > 3 * s * k
                      /\ s > 2 * MinDaily * k
<1>1. /\ rapid_acceleration = IF fast(current_spend) THEN 2 ELSE NoSignal
      /\ rapid_acceleration' = IF fast(current_spend') THEN 2 ELSE NoSignal
  BY LaterTypes DEF rapid_acceleration
<1>2. ASSUME fast(current_spend)
      PROVE  fast(current_spend')
  <2>1. k \in Nat /\ day > 15 /\ current_spend' > 0
    BY <1>2, LaterTypes
  <2>2. k < 10
    <3>1. 2 * (current_spend * 15) > 3 * current_spend * k
      BY <1>2
    <3>2. ASSUME k >= 10 PROVE FALSE
      <4>1. (3 * current_spend) * 10 <= (3 * current_spend) * k
        <5>1. 3 * current_spend \in Nat /\ 10 \in Nat
          BY LaterTypes
        <5> QED
          BY <2>1, <3>2, <5>1, ProductGrows
      <4>2. (3 * current_spend) * 10 = 2 * (current_spend * 15)
        BY LaterTypes
      <4>3. (3 * current_spend) * k \in Int /\ 2 * (current_spend * 15) \in Int
        BY <2>1, LaterTypes
      <4> HIDE DEF k
      <4> QED
        BY <3>1, <4>1, <4>2, <4>3
    <3> QED
      BY <2>1, <3>2
  <2>3. 2 * (current_spend' * 15) > 3 * current_spend' * k
    <3>1. k <= 9
      <4> HIDE DEF k
      <4> QED
        BY <2>1, <2>2
    <3>2. (3 * current_spend') * k <= (3 * current_spend') * 9
      <4>1. 3 * current_spend' \in Nat /\ 9 \in Nat /\ k \in Nat /\ k <= 9
        BY <2>1, <3>1, LaterTypes
      <4> QED
        BY <4>1, ProductGrows
    <3>3. 2 * (current_spend' * 15) > (3 * current_spend') * 9
      BY <2>1, LaterTypes
    <3>4. /\ (3 * current_spend') * k \in Int /\ (3 * current_spend') * 9 \in Int
          /\ 2 * (current_spend' * 15) \in Int
      BY <2>1, LaterTypes
    <3> HIDE DEF k
    <3> QED
      BY <3>2, <3>3, <3>4
  <2>4. current_spend' > 2 * MinDaily * k
    <3>1. 2 * MinDaily * k \in Int
      BY <2>1, LaterTypes
    <3> QED
      BY <1>2, <3>1, LaterTypes
  <2> QED
    BY <2>1, <2>3, <2>4
<1> HIDE DEF fast
<1> QED
  BY <1>1, <1>2 DEF NoSignal

\* On any one day more spending never withdraws a signal, nor makes it milder.
THEOREM NeverSoothes == SignalsSpec => SpendingNeverSoothes
<1> DEFINE A == day' = day => /\ spend_spike' >= spend_spike
                              /\ budget_trajectory' >= budget_trajectory
                              /\ rapid_acceleration' >= rapid_acceleration
<1>1. SignalsTyped /\ SignalsTyped' /\ [SignalsNext]_signalsVars => [A]_signalsVars
  <2> SUFFICES ASSUME SignalsTyped, SignalsTyped', SignalsNext, day' = day
               PROVE  A
    OBVIOUS
  <2>1. ~NextDay
    BY DEF NextDay, SignalsTyped
  <2>2. (\E a \in Amounts : Spend(a)) \/ Evaluation
    BY <2>1 DEF SignalsNext
  <2>3. Later
    BY <2>2, SignalsAssumption DEF Spend, Evaluation, SignalsTyped, Later
  <2> QED
    BY <2>3, SpikeGrows, TrajectoryGrows, AccelerationGrows
<1> QED
  BY <1>1, SignalsAreTyped, PTL DEF SignalsSpec, SpendingNeverSoothes

=============================================================================
