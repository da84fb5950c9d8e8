# Aivora Gatekeeper: specifications and proofs

TLA+ models of the billing firewall in this repository: what its gateway
process, its SQL functions and its webhook receiver do when calls overlap,
statements fail, answers come late and clocks move. TLC checks small instances;
TLAPS proves the central results for every value of the constants. Paths below
are relative to the repository; `M5` stands for
`database/migrations/005_*.sql`, and so on.

`PROJECT.json` lists the components, the runs, the hazards, the theorems and,
for every definition that models code, the lines it was translated from.

## 1. The system

One FastAPI process (or several) answers requests for AI calls. It holds two
pieces of memory, the circuit breaker and a cache; everything durable is in
PostgreSQL (Supabase), changed by SQL functions that are one transaction each
and by single statements sent over HTTP.

| Component | State | Operations | Modelled in |
|---|---|---|---|
| Circuit breaker, `services/circuit_breaker.py` | state, failure count, half-open successes, opening time | `call()`: admit, await, record | `CircuitBreaker` |
| User quota, M2 M5 M7 M11 | `user_quotas` row, `usage_counters` per month | `provision_user_quota`, `process_token_bucket_leak`, `check_and_consume_ai_usage`, suspension | `UserQuota` |
| Workspace budget, M12 M13 M14 M16 | workspace row, monthly aggregate, alerts | `workspace_check_and_consume_usage`, `_fire_budget_alerts`, admin updates | `WorkspaceGate` (implements `BudgetLedger`) |
| Gateway, `middleware/gateway.py`, `routes/gatekeeper.py` | requests in flight; blocked users in the cache | middleware `dispatch`, `/protect` | `Gateway` (over `CircuitBreaker`) |
| The same handlers and `/simulate-request` | a user's two cache entries: the latest denial, the latest level | cache writes of late answers, the guess | `QuotaProbe` (over `QuotaCache`) |
| Cache, `services/cache.py` | entries with expiry | set, get, get_many, delete, invalidate_prefix, flush, stats | `QuotaCache` (implements `TtlMap`) |
| AI proxy, `routes/aggregator.py`, `services/usage.py`, `services/openrouter.py`, `utils/*` | requests in flight, the user's dollars, OpenRouter's bill | check-usage, proxy-openrouter | `AiProxy` |
| Polar webhook, `routes/aggregator.py`, `services/polar.py`, M6 M10 | event log, subscription, tier | four statements per delivery | `PolarWebhook` |
| Anomaly detector, `services/anomaly_detector.py`, M15 | anomaly rows | evaluate, look-then-insert, resolve | `AnomalyDetector`, `SpendSignals` |
| Workspaces and members, `services/workspace.py`, `routes/workspace.py`, roles in `core/security.py` | workspaces, members and their roles, the link in the quota row | create, add member, remove member, each after a role check | `Membership` |
| Reports, M17, `routes/invoice.py`, `services/budget_alert.py` | none: they read | invoice and budget status, put together from several SELECTs; trend | `Reports` |
| Admin listings, platform statistics | none: they read | one SELECT each | not modelled |
| JWT decoding, settings, schemas, metrics, audit log, frontend, seeds, scripts | – | – | not modelled |

How they interact:

* A request enters through the gateway, which looks for `blocked:{user}` in the
  cache and, if it finds none, awaits the bucket function through the breaker.
  An AI request is priced, charged by the workspace or user function through
  the same breaker, and only then sent to OpenRouter.
* The workspace function locks the aggregate row it needs only after the user
  function, called inside the same transaction, has locked the user's row.
* An allowed AI request starts an anomaly evaluation that nobody waits for.
* A charge is written to the counters of the user (6 decimals) and, for a member
  of a workspace, to its total (8 decimals); costs have 8.
* Polar delivers events, repeatedly if it misses the acknowledgement; the
  receiver changes the subscription and the tier of a user who has a quota row.
* Membership decides, by `user_quotas.workspace_id`, which workspace is charged,
  and by the role in `workspace_members`, who may change that.
* Answers of the quota RPC write the cache entries from which
  `/simulate-request` guesses; reports read what all the others write.

What is hard about it: a caller is admitted by the breaker in one state and
recorded in another; the SQL functions sample the clock before they wait for
locks; the workspace's cap is compared with an unlocked read; an RPC may commit
after its caller gave up; the webhook, the detector and the membership routes
send several statements without a transaction, after a role check that may be
out of date; the invoice and the budget status put together SELECTs that see
different states; answers arrive in another order than they were decided in; and
nothing orders webhooks.
`PROJECT.json` has these as "hazards", each at its line.

What makes each component correct is stated as its properties, in section 3.

## 2. The modules

Granularity is that of the code. asyncio runs handlers on one thread, so a
handler's code between two awaits that suspend is one step. A SQL function is
split where it may wait for a lock or where what it read may be stale when it is
used; under a row lock its reads and writes are one step. A statement sent by
itself is one step, which may fail, or take effect although its caller gave up.

| Module | A step is | Data abstracted to |
|---|---|---|
| `CircuitBreaker` | `Begin` up to the await, `Succeed`/`Fail`/`Cancel` after it | elapsed time, capped at the recovery window, the only value it is compared with |
| `UserQuota` | clock sample (`Start`), row lock (`Lock`), decision and commit (`Leak`, `Consume`) | whole tokens and dollars; the calendar month is a counter that `Tick` may advance |
| `WorkspaceGate` | each unlocked read, each lock wait, the commit, and `Abort` from anywhere | the user's own gate is a nondeterministic verdict |
| `Gateway` | cache lookup with admission; outcome with reply and cache write | users in or out of standing with the database; ages capped at `Horizon` |
| `QuotaCache` | a method | values are model values, an expiry is the time left |
| `QuotaProbe` | a cache method with what the handler does beside it; the database's decision; the loss of an RPC | the entries of one user, and keys of others that compete for places; a remaining balance is one of a few levels |
| `PolarWebhook` | a statement of a delivery | events are numbered by Polar's order; payload is user (or nobody), tier, activity |
| `AnomalyDetector` | look, insert | what an evaluation finds is a set of types |
| `SpendSignals` | a purchase, an evaluation some time later, a day | quotients multiplied out; amounts in tenths of a dollar |
| `AiProxy` | receive, decide, answer, serve, forward | a conversation is the lengths of its messages, and any number of tokens to OpenRouter |
| `Membership` | a statement; a role check, which passes if somebody has the role it asks for | a slug stands for its workspace |
| `Reports` | a SELECT of an invoice or a budget status; a charge by another workspace; a row of `workspace_members`; any step of `WorkspaceGate` | the trend is an operator over one state |
| `Money` | an operator: what a column of a coarser scale stores | amounts are numbers of the smallest units |
| `TtlMap`, `BudgetLedger` | abstract specifications | no lazy expiry, no rows, no locks, no reads, no errors |

`Gateway` extends `CircuitBreaker` and drives it (its own definitions are called
`GatewaySpec` and so on): its steps are steps of the breaker or leave it alone, by
construction, and `OutageIsNoticed` compares what the breaker does with what the
handlers saw. `QuotaCache` implements `TtlMap` under "the live entries of the
store". `WorkspaceGate` implements `BudgetLedger`, in which a request that is let
through is one entry: it charges the workspace its cost and a user the same cost
rounded to the counters' scale, perhaps in a month that is over and not in the
same one, and raises the alerts that are missing, as judged by a total and a
budget that were true at some earlier time. All other steps of a call, its errors
and denials included, are not visible there, nor is who is suspended or linked.
`Reports` extends `WorkspaceGate`: the calls, with the workspace they read at their
start, are those of that module, and reports are made while they run. It adds
`workspace_members`, which may differ from the links in either direction, and the
counters of the users, which the calls of other workspaces charge too.
`QuotaProbe` extends `QuotaCache`: each of its steps is a step of the cache, so
the refinement is checked and proved where the handlers drive it.
`WorkspaceGate` uses of `UserQuota` that it locks one row and decides;
`AiProxy` keeps its limits on messages and dollars, of one month.

Some variables are history and not in the code: `consumed`, `leaked` and
`provisioned_at` in `UserQuota`; `highest`, `frozen` and `user_spend` (a column
of another table, restricted to this workspace's charges) in `WorkspaceGate`;
`bad`, `down` and `streak` (failures in a row) in `Gateway`; `excess` (what
OpenRouter billed for tokens that were not estimated) in `AiProxy`; `warned` in
`SpendSignals`; `said` and `age` (the times since decisions) in
`QuotaProbe`; `applied` and `calm` in `PolarWebhook`; `alone` in `Membership`;
`split` (months of charges that two clocks put into two) in `Reports`, where
also the counter of a user is kept as two parts, `here` and `elsewhere`, by who
charged it. Settings read at start-up are variables that `Init` chooses and
nothing changes.

The detector and the signals prefix their specifications (`DetectorSpec`,
`SignalsSpec`), so that `SpendProofs` can hold the proofs about both and the
proxy; `Reports` does (`ReportsSpec`) because it extends `WorkspaceGate`.

Definitions under the comment "Seeded fault" are variants of the definition
that follows them, used to confirm that each property can fail.

## 3. The runs

| Run | Instance | What it shows |
|---|---|---|
| `breaker` | 3 callers, threshold 2, window 2, 2 successes to close | `Consistent`: opening time and counters fit the state for any mix of late results. `CoolsDown`: OPEN ends only in HALF_OPEN and only after the window, which nothing restarts. `Heals`: an outage that ends is forgotten. |
| `quota_rate` | 2 transactions, bucket of 2, rate 1, clock 0..2, 2 months, both functions | `RateBound`, `NoFreeTokens`: no interleaving or stale clock makes tokens. `MeterWithinLimits`: message and dollar limits. `LongRunCeiling`: the bucket function's ceiling over months. |
| `workspace_budget` | 2 calls, 2 users, budgets 3 and 6, thresholds 50 and 100, 2 months, costs of 3, coarser columns in units of 2 | `BoundedOverspend`: the cap is passed by at most the other calls' cost, and `AlertLag`: an alert is late by no more. `AlertsTrue`: no alert names a spend that was not reached, up to the rounding of the figure. `Reconciles`: workspace and users drift apart by at most half a unit of the counters for each request, aborts and the turn of a month included. `SuspensionDrains`: only calls in flight are charged after a suspension. `ImplementsLedger`: reads, waits and errors between them cannot be seen in what calls write. |
| `gateway` | 2 handlers, 1 user, all four settings | `BlockIsRecent`: late answers keep nobody blocked beyond the ttl plus an RPC's life (plus the window, for an outage). `FailsClosed`: production forwards nothing uncharged. `OutageIsNoticed`: the breaker opens with the failure that makes the threshold in a row of what the handlers saw, and with nothing else. `Unblocked`: when a user's and the database's trouble is over, the cache lets the user go for good, and paid requests get through again and again, so an open breaker gets its probes although the blocked send none. |
| `cache_ttl` | 2 RPCs, 3 keys of which two are the user's, ttls 1 and 2, room for 2 | `GuessIsRecent`: however late and out of order answers are cached, `/simulate-request` guesses from a decision no older than the entry's ttl and an RPC's life, never from the demo fallback. `ImplementsTtlMap`: lazy expiry cannot be observed. |
| `webhook` | 2 deliveries, 2 events, 2 faults of every kind, a user with or without a quota row, processes with or without a client | `ProcessedIsApplied`: a mark in the log means both tables were written, or that there was no quota row to write. `AcknowledgedIsSettled`: where no statement fails and deliveries do not overlap, what Polar will not deliver again is processed, and both tables of a user with nothing to come follow the same event. `Settles`: under the same conditions, crashes and lost replies are survived: everything is delivered and settles. |
| `webhook_sync` | 1 delivery slot, 2 events, no fault | expected violation of `InSync`: see section 6. |
| `anomaly_rows` | 2 evaluations, up to 2 findings, day of 1, clock 0..2, 4 rows | `BoundedDuplicates`: at most one open row of a type a day for each evaluation that ran at once. |
| `signals_severity` | a month of 31 days, budget 30, requests of 1 and 3, at most 2 between evaluations, three histories | `ExhaustionForeseen`: who runs out by day 20 was warned, by an evaluation that ran while budget was left, with at least medium severity; the budget is large enough for that (`WarnsInTime`, which the run evaluates). `SpendingNeverSoothes`: spending more on a day makes no signal milder. |
| `proxy` | 2 requests, 2 conversations, both modes, tokens fewer and more than estimated | `NeverUncharged`, `BillIsBounded`: in production OpenRouter is called after the charge, and its bill passes the charges by nothing but tokens that were not estimated and what rounding took. |
| `membership_link` | 2 workspaces, 2 users, owners and members, 2 requests or late statements at once | `AloneSettles`: a request that overlapped no other for its user and succeeded has its effect and leaves the user charged to a workspace it belongs to, or to none, whatever earlier failures left. `AbandonedForGood`: once a workspace has no manager and no manager's request is under way, its members never change. |
| `reports_invoice` | 2 calls of 1 user, 2 months, a threshold of 50, counters in units of 2, a charge elsewhere | `BreakdownAddsUp`: shares add up to what was charged while the invoice was made, where those who are listed were charged here only and nobody else was, up to rounding. `AlertsFitSpend`: alerts on a status or invoice fit the spend beside them, and an invoice misses none that the other calls cannot account for. `TrendIsLatest`: the latest months, in order. |

Where a run checks its module's `TypeOK`, that carries the column constraints:
the balance between 0 and the bucket's size, counters that stay below the limits
that change the state, totals that do not become negative. The type invariants of
`Gateway`, `PolarWebhook` and `Membership` are proved and not run.

### Bounds

Two or three actors are enough to have, between any two steps of one, every
step another may take; the properties compare one actor with the rest, and
the proofs remove the bound where they exist. Thresholds are the smallest that
distinguish "below", "at" and "above". In particular:

* `UserQuota`: `MaxTime` 2 lets a call hold a clock two ticks old when it gets
  the lock, so that elapsed time is negative; `MaxMonth` 1 lets it be a month old.
* `WorkspaceGate`: two budgets, so that a call reads one and commits under
  another; `MaxBlocked` 0 saturates a counter that no guard reads.
* `Gateway`: a recovery window and an RPC timeout of 1 with a ttl of 2 make the
  block outlive the RPC that causes it; ages stop at `Horizon`, beyond which no
  property distinguishes them.
* `PolarWebhook`: two events are the fewest that can be reordered, two faults
  the fewest of which the second can hit the recovery from the first.
* `AiProxy`: the budget pays for two requests of which the first is small, and
  for one otherwise; the clamp of 11 tokens cuts the second conversation;
  `InputCounts` has a number below and one above the estimates; `MaxBilled` is the
  most that two requests can be billed.
* `QuotaProbe`: room for 2 of 3 keys, so that the user's entries and another's
  evict each other; an RPC timeout of 1 against ttls 1 and 2, so that an answer
  may be as old as the entry it replaces.
* `Membership`: `MaxUnderWay` 2 bounds requests and statements that outlived
  their callers, together.
* `Reports`: two months and two calls, so that the calendar turns once during a
  report, a trend of one leaves a month out, and a call is charged while another
  decides on its alert. One user, who joins, leaves, is linked and unlinked and
  charged elsewhere at any moment: what is said of several is a sum, and proved.
  `MaxElsewhere` is one charge a month.
* `WorkspaceGate`, `Reports`, `AiProxy`: the scales of the columns differ by a
  factor of 2 to 10 instead of 100 to 100000, and costs are no multiples of the
  coarser unit. The theorems hold for any scales.

Symmetry is used in runs without liveness only, and over constants
that no definition tells apart. Deadlock checking is off where the system really
rests: `webhook*` (Polar has nothing to deliver), `signals_severity` (the month
is over) and `membership_link` (every name is taken and no manager is left to ask).

### Fairness

* `CircuitBreaker`: the clock ticks and requests arrive (WF); an admitted call
  ends (WF per caller), because `asyncio.wait_for` bounds each RPC; calls that
  can succeed again and again do so at some time (SF), that is, clients do not
  cancel every one of them.
* `Gateway`: the same for the clock, for arrivals of each user and for the end
  of a call; a database that is up decides, and is heard, at some time (SF).
* `PolarWebhook`: a handler goes on (WF per delivery), and Polar delivers an
  event that is not acknowledged again and again (SF per event). A failed
  statement is never promised to be retried, since no code retries it.

No other module states fairness, and none of its properties needs it.

`SpendSignals` promises something of the evaluations by a bound and not by
fairness: one runs, and succeeds, before `Overlap` requests are charged. The code
starts one for every allowed request and waits for none, so this is true as long
as the process lives and its statements succeed; an evaluation that fails is not
repeated.

## 4. The proofs

| Module | Theorem | Property |
|---|---|---|
| `GatewayProofs` | `BreakerTypeCorrect`, `BreakerConsistent`, `BreakerCoolsDown` | `TypeOK`, `Consistent`, `CoolsDown` of `CircuitBreaker` |
| | `GatewayTypeCorrect`, `OutagesAreNoticed`, `BlocksAreRecent`, `GatewayFailsClosed` | `GatewayTypeOK`, `OutageIsNoticed`, `BlockIsRecent`, `FailsClosed` |
| `UserQuotaProofs` | `TypeCorrect`, `RateLimited`, `PotentialNeverRises`, `MeterLimited`, `LeakKeepsCeiling` | `TypeOK`, `RateBound`, `NoFreeTokens`, `MeterWithinLimits`, `LongRunCeiling` |
| `WorkspaceGateProofs` | `TypeCorrect`, `AlertsAreTrue`, `AlertsLagLittle`, `OverspendBounded`, `SuspensionIsFinal`, `BooksReconcile` | `TypeOK`, `AlertsTrue`, `AlertLag`, `BoundedOverspend`, `SuspensionDrains`, `Reconciles` |
| | `RefinesLedger` | `ImplementsLedger` |
| | `AlertsOfReportsFit`, `InvoiceAddsUp`, `TrendShowsLatest` | `AlertsFitSpend`, `BreakdownAddsUp`, `TrendIsLatest` of `Reports` |
| `QuotaProbeProofs` | `TypeCorrect`, `ImplementsEager`, `GuessesAreRecent` | `TypeOK`, `ImplementsTtlMap`, `GuessIsRecent` |
| `PolarWebhookProofs` | `TypeCorrect`, `ProcessedReached`, `AcknowledgedSettled` | `TypeOK`, `ProcessedIsApplied`, `AcknowledgedIsSettled` |
| `MembershipProofs` | `TypeCorrect`, `AloneRequestSettles`, `AbandonedStays` | `TypeOK`, `AloneSettles`, `AbandonedForGood` |
| `SpendProofs` | `TypeCorrect`, `NothingUncharged`, `BillBounded` | `TypeOK`, `NeverUncharged`, `BillIsBounded` of `AiProxy` |
| | `AlwaysBoundedDuplicates` | `BoundedDuplicates` of `AnomalyDetector` |
| | `AlwaysForeseen`, `NeverSoothes` | `ExhaustionForeseen` (under `WarnsInTime`), `SpendingNeverSoothes` of `SpendSignals` |
| `Sums` | lemmas only: finite sums, and the largest of finitely many numbers | |

They assume the named assumptions of the modules: sizes, rates and windows are
positive, costs and prices are natural numbers, a tier's budget (4 decimals) is a
multiple of the counters' unit (6), sets of concurrent calls,
requests, evaluations and users are finite, and the ttls have a longest. Nothing
is assumed of the order, the number or the timing of calls.

* **Sums.** Several properties add something up over calls, months, users or the
  messages of a conversation, with the library's `MapThenSumSet`, which recurses
  over subsets. The library's induction theorems cannot be used (they take an
  operator as parameter), but a well-founded order has minimal elements, and that
  can be said with a set: if a statement fails for some subset of a finite set,
  it fails for a smallest one (`Smallest`), and a smallest counterexample less
  one of its elements is none. In this way `Sums` proves that the table of
  partial sums exists and is unique, hence that a sum does not depend on the
  element it starts with (`TotalPick`), that it grows with its summands, and what
  changing or leaving out a summand does (`TotalChange`, `TotalWithin`).
* **Breaker.** `TypeOK /\ Consistent` is inductive. The part that is not
  obvious is that a half-open breaker keeps the opening time it had, at exactly
  the window's end, so that no tick moves it and a new trip starts from 0.
* **User quota.** A bound on what was granted says nothing of what a call with
  an old clock will do next. The invariant adds `LockInv` (one holder, whose
  snapshot is still the row), `PastInv` (nobody works with a time to come) and
  `CreditInv`: consumed plus balance minus the refill up to `last_refill_at`
  never exceeds its value at provisioning. A refill with an old clock takes
  back exactly what it moves `last_refill_at` back by, and the cap only loses
  tokens. `RateBound` and `NoFreeTokens` follow.
  `LeakKeepsCeiling` needs `PeriodInv`: what the bucket function granted is at
  most a budget for each period before this one, plus the part of
  `tokens_used` within the budget. Periods only move forward, and the other function
  only adds to `tokens_used`.
* **Workspace gate.** Steps are classified (`StepShape`) into those that leave
  the accounts alone, that add a call in flight, and that remove one with or
  without its charge. `SnapshotInv` (what a call read is at most the present
  spend) gives `AlertsTrue`. For the over-spend, `BudgetInv` bounds a call's
  snapshot by the highest budget, and `ExposureInv` keeps, for every month, spend
  plus the possible cost of the calls that passed the cap; the bound is a
  counting argument over the set of calls (cardinalities from
  `FiniteSetTheorems`). `AlertLag` alone is not inductive, because a call that
  will add to the spend may have decided already not to fire: `LagInv` counts,
  for each threshold not yet fired, the calls that will stay silent about it
  (`Silent`), and says that, up to the property's slack, spend stays below the
  threshold even if all of them are charged the maximum, or if the one that read
  it last is charged its own cost and the others the maximum. `SuspensionDrains` is
  inductive with `TypeOK`.
  `Reconciles` is inductive as well: a charge adds its cost to one month of the
  workspace, its rounded cost to one month, perhaps another, of the users, and
  one to the requests, so that the sums drift apart by the rounding (`MonthAdds`).
  For the ledger, a call that passed the cap is entitled to its entry (`Entitled`:
  its month is no later than its user's, and by what it read it is within the
  budget); that what it read was reached, and the budget set, `SnapshotInv` and
  `BudgetInv` say. Its commit is then an entry (`CommitEnters`), an error undoes
  both charges and is none (`LedgerStep`).
* **Gateway.** `BlockIsRecent` needs
  an invariant of requests in flight: a pending denial was decided no longer
  ago than its RPC is old, and an open or half-open breaker saw an outage within
  the window and an RPC's life. `FailsClosed` is inductive by itself:
  each way a handler ends is looked at. The breaker's own invariant carries
  over, since every step of a handler is one of the breaker or none
  (`StepImplements`). `OutageIsNoticed` needs `CountInv`: while the breaker is
  closed, its failure count is the number of failures in a row that the handlers
  saw; an open or half-open breaker keeps another count, and what closes it
  clears both.
* **Cache and guesses.** An operation of the lazy cache is mapped to one of the
  map without expired entries. The one that is not obvious is `set`: who evicts
  has swept, so that what it evicts from is exactly the live entries
  (`SweepSparesLive`), and who does not evict has room left, because an
  expired entry in the store makes the live ones fewer than the bound
  (`EvictsAsEager`). For `GuessIsRecent`, `DecidedLately` says that a decision on
  its way is no older than the RPC that carries it, and `EntriesRecent` that an
  entry was decided within an RPC's life of the moment its ttl began; eviction,
  deletion and others' entries only keep or remove (`CacheKeeps`).
* **Webhook.** `ProcessedIsApplied` needs what a delivery at each phase has
  written already; the log is marked from the last phase only, and what an
  event was applied to only grows. `AcknowledgedIsSettled` is not inductive: it
  says nothing of the states in which the tables differ. `CalmInv` does: one
  delivery is at work at most, its event is not acknowledged, what it has written
  is what its phase says (`CalmPhase`), and a user whose tables differ has an event
  that Polar will deliver (`Pending`), whether its delivery is at work, died or
  lost its reply. A quota row that is created late keeps that, since tables that
  agreed without a row did so because the event missed it (`ProvisionCalm`).
* **AI proxy.** How far the bill may pass the charges is a statement about a sum
  over requests at different stages. The invariant (`Covered`) adds to the bill what
  each request was charged and may yet be billed (`Owed`): together that is at
  most what was charged, the excess of tokens beyond the estimates, and the
  rounding of two columns for each message. A step changes one summand and the sum
  with it (`KeepsCovered`, from `TotalChange`), and a sum of natural numbers is
  one. That the estimate of a conversation is a natural number is proved from
  `Sums` too. Nothing is assumed of OpenRouter's tokenizer, nor of the clamp: what
  it cuts off is excess.
* **Membership.** `AloneSettles` follows a request that is still alone: no other
  statement for its user is under way, so that what its first statement wrote
  is undisturbed when the second is answered (`Undisturbed`). `AbandonedForGood`
  needs that a statement under way names a workspace that exists, unless it
  creates it: one that is about another workspace leaves this one alone
  (`ElsewhereKeeps`).
* **Anomaly detector.** How many open rows of a type lie within a window is not
  inductive, for it does not say who will insert next. The invariant gives
  each row an owner among the evaluation slots (`Owned`): open rows of one owner
  and type are more than a window apart (`Apart`), and what a slot is about to
  insert is later than its own rows by as much (`Ahead`), because it found no
  recent row when it looked, and its own are in the table. The rows of a window
  therefore have different owners, and there are no more of them than slots.
* **Signals.** The three signals compare products; they grow with the spend
  because products do (`ProductGrows`). `AlwaysForeseen` keeps that the budget has
  room for what may be charged before the next evaluation, or there was a warning
  (`WarnedInTime`): an evaluation that finds no room finds a projection that
  reaches the medium level (`NearlyExhausted`). It needs `WarnsInTime`, that what is
  charged unseen is a small part of the budget: with the default settings at most
  22 percent of it in a month of 31 days, and 14 in one of 28. A budget that is
  gone in a few requests gets no warning, and neither does one under settings that
  are too lax (`config.py:71-73` allows a trajectory of 1000 percent and a minimum
  of 100 dollars a day).
* **Reports.** With reports or without, a step is one of the gate or leaves it
  alone (`GateSteps`), so the theorems about it hold while reports are made. To
  them come the counters (`CountersPay`): in a month that no call was charged
  across, what this workspace's calls added to them is its spend, up to half a unit
  for each request. What a report has found so far (`ReportFits`) was true when
  it was read, and since spend, requests and the highest budget only grow
  (`TotalsGrow`, `FitsGrows`) it bounds what the tables say later; the order of the
  invoice's SELECTs gives the other side of each bound, and `AlertLag` the alerts
  that it cannot miss. The trend needs that a finite set of numbers can be
  listed in ascending order, and in one way (`AscendingList`); the model says
  ORDER BY with a `CHOOSE` of that list, because the library's sort rests on TLC's
  `SortSeq`, of which the provers have no definition.

Only model-checked, not proved: the liveness properties `Heals`, `Unblocked` and
`Settles`, since the provers know neither fairness nor `ENABLED`. Of `Settles`,
`AcknowledgedSettled` proves the part that is about safety; that everything is
acknowledged in the end stays with TLC. Every other property of a passing run is
a theorem.

## 5. Not modelled

* Header and path parsing in the middleware, the signature check of the webhook
  and the decoding of JWTs: library calls, after or before which nothing has
  changed.
* Body shapes that only the middleware estimates; the price table. Whole tokens and
  dollars stand for the user's balance and meter in `UserQuota`.
* Row-level security, metrics, audit rows, settings and schemas: output that no
  modelled code reads, or limits on the inputs that the models enumerate.
* The admin listings and `get_platform_stats`: one SELECT each of counts and
  sums. The quotient in `get_budget_status`, and the budget beside it.
* The statistics of the cache and of the breaker, which only their own routes read.
* Frontend, seeds and scripts.

## 6. Where code and documentation differ

Run `webhook_sync` shows one: the subscription upsert (`aggregator.py:383`)
compares no timestamp, so of two events delivered out of order the one processed
last stays, though `services/polar.py:7-8` says "keep the subscriptions table in
sync with Polar's state".

The models contain the following too. They are recorded here from reading; a
property that the code does keep is checked in their place.

| Code | Documentation |
|---|---|
| A user's counter has 6 decimals (M7:14), the workspace's total 8 (M13:18), and costs have 8 (`cost_estimator.py:114`): every charge is rounded in one of them only, the smallest to nothing, and the difference grows with the requests (`Reconciles` bounds it) | M13:29-30 "consistency with usage_counters" |
| Four characters are one token in any script (`token_estimator.py:23`), so a text with a token for each character is billed at several times its estimate (`BillIsBounded` says by what) | `token_estimator.py:11-12` "intentionally over-estimates on edge cases (very short tokens, code, non-Latin scripts)" |
| The timeout given to httpx (`openrouter.py:121`) limits each connect, read and write by itself: an answer that keeps coming in parts is waited for without end, so no property says that requests are answered | `openrouter.py:31` "Hard ceiling on how long we wait for OpenRouter" |
| HALF_OPEN admits every caller (`circuit_breaker.py:89`) | `.env.example:110-111` "allowing a single probe request" |
| `check_and_consume_ai_usage` adds to the period's tokens without comparing (M11:192) | M1:25 "Hard monthly ceiling ... Enforced independently of the bucket" |
| No audit row without a quota row or after an internal error (M5:57-64, 170-178) | M5:11 "regardless of outcome" |
| Alerts are decided on the spend read before the locks (M16:147), so two calls may cross a threshold unreported until a later one | M16:205 "each threshold that has been crossed this month" |
| Denials by the user's limits count as blocked (M16:158) | M13:34 "Does not include requests blocked at the user quota level" |
| Two clock samples may book one call in two months (M16:47) | M13:30, the same |
| Concurrent calls pass the cap (M16:93; M16:23-28 accepts it) | M12:24, `README.md:109` "hard" |
| `/ready` looks at the client only (`gatekeeper.py:90`) | `gatekeeper.py:74-76` lists an open breaker |
| In demo mode, errors reach the caller until the breaker opens (`supabase_client.py:187`) | `supabase_client.py:47` "All subsequent RPC calls will use the fail-open fallback" |
| Eviction by earliest expiry (`cache.py:79`) | `cache.py:2` "LRU-style" |
| Events are processed when the log insert failed (`aggregator.py:364`); a retry is applied again (`:380`); failures are never replayed (`:415`) | M10:3-4 "persisted here before processing", "idempotent"; `aggregator.py:318-319` "later replay" |
| Two evaluations may both find no open row (`anomaly_detector.py:275`); a resolved anomaly returns at once (`:269`) | `anomaly_detector.py:20-22`; M15:40 "suppress further alerting" |
| The acceleration signal compares one half of the total with the other (`anomaly_detector.py:229`) | `anomaly_detector.py:17-18` |
| The dollar estimate clamps the input and prices the answer twice (`openrouter.py:56`, `:76`) | `cost_estimator.py:5`, `:103-106` |
| A charge that commits after the RPC's timeout stays, though the caller is denied (`usage.py:52`) | `aggregator.py:134-135` "deducts usage if allowed" |
| An event that names no user is answered as processed (`aggregator.py:433-435`), and its log row stays unprocessed | M10:18-19 "Processing state" |
| A request that passed the role check acts although its manager was demoted meanwhile (`security.py:147`) | `routes/workspace.py:21` "workspace admin or owner" |
| After the entry of a denial expires, a guess may come from a level granted before it (`gatekeeper.py:205`) | `gatekeeper.py:242-246` "what the gate decision would be" |
| A user may join two workspaces (`workspace.py:192`); removing a non-member succeeds and unlinks (`:229`) | M12:67; `routes/workspace.py:141` |
| The invoice joins old counters with present members (M17:53), and its SELECTs see different states (M17:33-75) | M17:196 |
| `workspaces_over_80pct` counts alert rows of 80 and more, several for one workspace (M17:178-184) | its name |

## 7. Plan

Written in this order, the most important behaviour first: breaker, user quota,
workspace gate, gateway, cache, then the components around them, then the roles,
the guesses, the budget status and the faults of the webhook, and the proofs for
all of them. What is left:

1. Model: `WorkspaceGate` composed with the evaluations its calls start, failed
   ones included, and `AiProxy` with `CircuitBreaker`, where what one call's
   failure does to the next matters.
2. Check: three calls in `WorkspaceGate` with a larger `MaxCost`, once the state
   space is reduced.

To check: `tlc -config X.cfg MC….tla` for each run, `tlapm M.tla` for each proof
module.
