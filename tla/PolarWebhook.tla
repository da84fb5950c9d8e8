---------------------------- MODULE PolarWebhook ----------------------------
(***************************************************************************)
(* The receiver of Polar.sh subscription events: concurrent deliveries to  *)
(* polar_webhook (routes/aggregator.py), which writes the event log, the   *)
(* subscription, the tier of the quota row and the log again, in four      *)
(* statements with an await each.                                          *)
(*                                                                         *)
(* Polar is external: it issues events in an order, delivers each in any   *)
(* order until a delivery is acknowledged, and may miss an acknowledgement.*)
(* A delivery begins, here, once its signature is verified: another answer *)
(* than 200 changes nothing, and Polar delivers again.                     *)
(***************************************************************************)
EXTENDS Integers, Sequences

CONSTANTS
    Deliveries,    \* slots for concurrent deliveries
    Users,
    Tiers,         \* billing tiers
    FreeTier,      \* the tier a quota row is provisioned with
    NoRow,         \* stands for the tier of a user without a quota row
    NoUser,        \* stands for the user of an event that names none
    Faults,        \* what may go wrong: "statement", "crash", "lost reply",
                   \* "no client"
    MaxEvents,     \* bound on the events Polar issues
    MaxFaults      \* bound on what goes wrong

ASSUME WebhookAssumption ==
    /\ FreeTier \in Tiers /\ NoRow \notin Tiers /\ NoUser \notin Users
    /\ Faults \subseteq {"statement", "crash", "lost reply", "no client"}
    /\ MaxEvents \in Nat /\ MaxFaults \in Nat

VARIABLES
    event,           \* the events issued so far, in Polar's order
    acked,           \* the events Polar knows to be delivered
    log,             \* polar_webhook_events, by event
    subscriptions,   \* the subscriptions row of each user
    billing_tier,    \* user_quotas.billing_tier_id
    available,       \* has this process a database client? decided at its start
    pc,              \* how far a delivery got
    e,               \* the event of a delivery
    faults,          \* how much went wrong so far
    applied,         \* history: the events each table was written for, and
                     \* those whose user had no quota row to write
    calm             \* history: no statement has failed, and no delivery has
                     \* begun without a client or while another was at work

polar == <<event, acked>>
tables == <<log, subscriptions, billing_tier>>
delivery == <<pc, e>>
vars == <<polar, tables, delivery, available, faults, applied, calm>>

EventIds == 1..MaxEvents
Issued == DOMAIN event

\* active: one of the statuses "active" and "trialing".  An event of another
\* type than subscription.*, or that names no user, is like any other such.
Subscribed == [user : Users, tier : Tiers, active : BOOLEAN]
Other == [user |-> NoUser, tier |-> FreeTier, active |-> FALSE]
Payload == Subscribed \cup {Other}
LogRow == [stored : BOOLEAN, processed : BOOLEAN, error : BOOLEAN]

Absent == [stored |-> FALSE, processed |-> FALSE, error |-> FALSE]
NoSubscription == [none |-> TRUE]
NoEvent == 0

Phases == {"idle", "received", "persisted", "upserted", "synced", "failed",
           "ignored"}

\* A process starts with a client, unless its configuration has none.
MayHaveClient == IF "no client" \in Faults THEN BOOLEAN ELSE {TRUE}

Init ==
    /\ event = << >>
    /\ acked = {}
    /\ log = [i \in EventIds |-> Absent]
    /\ subscriptions = [u \in Users |-> NoSubscription]
    /\ billing_tier \in [Users -> {FreeTier, NoRow}]
    /\ available \in MayHaveClient
    /\ pc = [d \in Deliveries |-> "idle"]
    /\ e = [d \in Deliveries |-> NoEvent]
    /\ faults = 0
    /\ applied = [subscription |-> {}, tier |-> {}, missed |-> {}]
    /\ calm = TRUE

-----------------------------------------------------------------------------
(* Polar, and the sign-up that creates the quota row.                      *)

Issue(payload) ==
    /\ Len(event) < MaxEvents
    /\ event' = Append(event, payload)
    /\ UNCHANGED <<acked, tables, delivery, available, faults, applied, calm>>

\* The signature and its time stamp are those of this delivery.
Deliver(d, i) ==
    /\ pc[d] = "idle"
    /\ i \in Issued \ acked
    /\ pc' = [pc EXCEPT ![d] = "received"]
    /\ e' = [e EXCEPT ![d] = i]
    /\ calm' = (calm /\ available /\ \A other \in Deliveries : pc[other] = "idle")
    /\ UNCHANGED <<polar, tables, available, faults, applied>>

Provision(u) ==
    /\ billing_tier[u] = NoRow
    /\ billing_tier' = [billing_tier EXCEPT ![u] = FreeTier]
    /\ UNCHANGED <<polar, log, subscriptions, delivery, available, faults, applied, calm>>

-----------------------------------------------------------------------------
(* The statements of a delivery.                                           *)

Go(d, from, to) ==
    /\ pc[d] = from
    /\ pc' = [pc EXCEPT ![d] = to]
    /\ UNCHANGED <<polar, e>>

Fault(kind) ==
    /\ kind \in Faults
    /\ faults < MaxFaults
    /\ faults' = faults + 1

\* ignore_duplicates: a row that is there stays as it is.
LogEvent(d) ==
    log' = [log EXCEPT ![e[d]] = IF @.stored THEN @ ELSE [@ EXCEPT !.stored = TRUE]]

\* Seeded fault: an event that is in the log is taken to be done.
AfterPersist_ifNew(d) ==
    IF event[e[d]].user = NoUser THEN "ignored"
    ELSE IF log[e[d]].stored THEN "synced" ELSE "persisted"

\* The log is never consulted: an event that is in it already, and even one
\* marked as processed, is processed again.
AfterPersist(d) == IF event[e[d]].user = NoUser THEN "ignored" ELSE "persisted"

Persist(d) ==
    /\ available
    /\ Go(d, "received", AfterPersist(d))
    /\ LogEvent(d)
    /\ UNCHANGED <<subscriptions, billing_tier, faults, applied>>

\* build_subscription_upsert: the tier of the product, whatever became of
\* the subscription.
WriteSubscription(d) ==
    /\ subscriptions' = [subscriptions EXCEPT ![event[e[d]].user] = event[e[d]]]
    /\ applied' = [applied EXCEPT !.subscription = @ \cup {e[d]}]

\* UPDATE ... eq(user_uuid): succeeds where no row matches, too.
WriteTier(d) ==
    LET u == event[e[d]].user
    IN  IF billing_tier[u] = NoRow
          THEN /\ applied' = [applied EXCEPT !.missed = @ \cup {e[d]}]
               /\ UNCHANGED billing_tier
          ELSE /\ billing_tier' = [billing_tier EXCEPT ![u] = event[e[d]].tier]
               /\ applied' = [applied EXCEPT !.tier = @ \cup {e[d]}]

UpsertSubscription(d) ==
    /\ Go(d, "persisted", "upserted")
    /\ WriteSubscription(d)
    /\ UNCHANGED <<log, billing_tier, faults>>

SyncTier(d) ==
    /\ Go(d, "upserted", "synced")
    /\ WriteTier(d)
    /\ UNCHANGED <<log, subscriptions, faults>>

\* UPDATE ... eq(event_id): without a row there is nothing to mark.
Marked(row) == [row EXCEPT !.processed = @ \/ row.stored]

WithError(row) == [row EXCEPT !.error = @ \/ row.stored]

MarkLog(d) == log' = [log EXCEPT ![e[d]] = Marked(@)]

Done(d) ==
    /\ pc' = [pc EXCEPT ![d] = "idle"]
    /\ e' = [e EXCEPT ![d] = NoEvent]
    /\ UNCHANGED <<event, subscriptions, billing_tier, applied>>

\* The answer is 200, whatever happened.
Reply(d) ==
    /\ Done(d)
    /\ \/ acked' = acked \cup {e[d]} /\ UNCHANGED faults
       \/ Fault("lost reply") /\ UNCHANGED acked

MarkProcessed(d) ==
    /\ pc[d] = "synced"
    /\ MarkLog(d)
    /\ Reply(d)

\* "nothing to process"
Ignore(d) ==
    /\ pc[d] = "ignored"
    /\ Reply(d)
    /\ UNCHANGED log

\* Without a client the event is acknowledged and nothing is stored.
Unavailable(d) ==
    /\ ~available /\ pc[d] = "received"
    /\ Reply(d)
    /\ UNCHANGED log

-----------------------------------------------------------------------------
(* A statement raises or times out, before or after it took effect.        *)

\* "Non-fatal: still attempt to process"
PersistFails(d) ==
    /\ Fault("statement")
    /\ available
    /\ Go(d, "received",
          IF event[e[d]].user = NoUser THEN "ignored" ELSE "persisted")
    /\ LogEvent(d) \/ UNCHANGED log
    /\ UNCHANGED <<subscriptions, billing_tier, applied>>

\* Seeded fault: the rest of the try block runs on after an error.
AfterError_continues == "synced"

AfterError == "failed"

UpsertFails(d) ==
    /\ Fault("statement")
    /\ Go(d, "persisted", AfterError)
    /\ WriteSubscription(d) \/ UNCHANGED <<subscriptions, applied>>
    /\ UNCHANGED <<log, billing_tier>>

SyncFails(d) ==
    /\ Fault("statement")
    /\ Go(d, "upserted", AfterError)
    /\ WriteTier(d) \/ UNCHANGED <<billing_tier, applied>>
    /\ UNCHANGED <<log, subscriptions>>

MarkFails(d) ==
    /\ Fault("statement")
    /\ Go(d, "synced", AfterError)
    /\ MarkLog(d) \/ UNCHANGED log
    /\ UNCHANGED <<subscriptions, billing_tier, applied>>

StoreError(d) ==
    /\ pc[d] = "failed"
    /\ log' = [log EXCEPT ![e[d]] = WithError(@)]
    /\ Reply(d)

\* "except Exception: pass"
StoreErrorFails(d) ==
    /\ pc[d] = "failed"
    /\ Fault("statement")
    /\ Done(d)
    /\ acked' = acked \cup {e[d]}
    /\ UNCHANGED log

\* The process dies, every delivery in flight with it, and another starts.
Crash ==
    /\ \E d \in Deliveries : pc[d] # "idle"
    /\ Fault("crash")
    /\ pc' = [d \in Deliveries |-> "idle"]
    /\ e' = [d \in Deliveries |-> NoEvent]
    /\ available' \in MayHaveClient
    /\ UNCHANGED <<polar, tables, applied, calm>>

Step(d) ==
    /\ \/ Persist(d) \/ UpsertSubscription(d) \/ SyncTier(d)
       \/ MarkProcessed(d) \/ StoreError(d) \/ Ignore(d) \/ Unavailable(d)
    /\ UNCHANGED <<available, calm>>

StatementFails(d) ==
    /\ \/ PersistFails(d) \/ UpsertFails(d) \/ SyncFails(d)
       \/ MarkFails(d) \/ StoreErrorFails(d)
    /\ calm' = FALSE
    /\ UNCHANGED available

Next ==
    \/ \E payload \in Payload : Issue(payload)
    \/ \E d \in Deliveries, i \in Issued : Deliver(d, i)
    \/ \E d \in Deliveries : Step(d) \/ StatementFails(d)
    \/ \E u \in Users : Provision(u)
    \/ Crash

Spec == Init /\ [][Next]_vars

\* A running handler goes on; Polar delivers again what is not acknowledged.
FairSpec ==
    /\ Spec
    /\ \A d \in Deliveries : WF_vars(Step(d))
    /\ \A i \in EventIds : SF_vars(\E d \in Deliveries : Deliver(d, i))

-----------------------------------------------------------------------------
(* Properties                                                              *)

\* Every variable keeps its type, a delivery at work has an event, and only
\* a row that is in the log is marked.
TypeOK ==
    /\ event \in Seq(Payload) /\ Len(event) <= MaxEvents
    /\ acked \subseteq Issued
    /\ log \in [EventIds -> LogRow]
    /\ \A i \in EventIds : log[i].processed \/ log[i].error => log[i].stored
    /\ subscriptions \in [Users -> Subscribed \cup {NoSubscription}]
    /\ billing_tier \in [Users -> Tiers \cup {NoRow}]
    /\ available \in BOOLEAN
    /\ pc \in [Deliveries -> Phases]
    /\ e \in [Deliveries -> Issued \cup {NoEvent}]
    /\ \A d \in Deliveries : pc[d] = "idle" <=> e[d] = NoEvent
    /\ faults \in 0..MaxFaults
    /\ applied \in [subscription : SUBSET Issued, tier : SUBSET Issued,
                    missed : SUBSET Issued]
    /\ calm \in BOOLEAN

\* An event that the log shows as processed has reached the subscription and
\* the quota row, if its user had one: no failure, crash or concurrent delivery
\* of it marks it too early (aggregator.py:383-406).
ProcessedIsApplied ==
    \A i \in EventIds :
      log[i].processed =>
        /\ i \in applied.subscription
        /\ i \in applied.tier \cup applied.missed

\* The tier is that of the subscription, unless there was no quota row when
\* the subscription's event came.
TablesAgree(u) ==
    \/ subscriptions[u] = NoSubscription
    \/ subscriptions[u].tier = billing_tier[u]
    \/ \E i \in applied.missed : event[i] = subscriptions[u]

\* What Polar will not deliver again is done: where nothing but crashes and
\* lost replies went wrong, an acknowledged event is marked as processed, and
\* when all events of a user are acknowledged, whichever came last and however
\* often each did, both tables follow the same one (aggregator.py:363-443).
AcknowledgedIsSettled ==
    calm =>
      /\ \A i \in acked : event[i] # Other => log[i].processed
      /\ \A u \in Users :
           (\A i \in Issued : event[i].user = u => i \in acked) => TablesAgree(u)

\* Crashes and lost replies are survived, between any two statements: where
\* no statement fails, every process has a client and deliveries do not
\* overlap, Polar delivers again until every subscription event is processed
\* and both tables end up with the same event.
Settles ==
    []calm =>
    <>[](/\ acked = Issued
         /\ \A i \in Issued : event[i] # Other => log[i].processed
         /\ \A u \in Users : TablesAgree(u))

\* "keep the subscriptions table in sync with Polar's state"
\* (services/polar.py:7-8), at rest and with every event processed.
InSync ==
    /\ \A d \in Deliveries : pc[d] = "idle"
    /\ \A i \in Issued : event[i] # Other => log[i].processed
    => \A i \in Issued :
         event[i] # Other /\ (\A j \in Issued : j > i => event[j].user # event[i].user)
           => subscriptions[event[i].user] = event[i]
=============================================================================
