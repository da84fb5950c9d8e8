------------------------- MODULE PolarWebhookProofs -------------------------
(***************************************************************************)
(* For any number of deliveries, users and events, and anything that goes  *)
(* wrong: the log of a webhook event is not ahead of the tables, and while *)
(* all is calm what Polar knows to be delivered is settled.                *)
(***************************************************************************)
EXTENDS PolarWebhook, TLAPS

-----------------------------------------------------------------------------
(* Types, in parts: what Polar knows, the tables, the deliveries.          *)

PolarTypes == event \in Seq(Payload) /\ Len(event) <= MaxEvents /\ acked \subseteq Issued

LogTypes ==
    /\ log \in [EventIds -> LogRow]
    /\ \A i \in EventIds : log[i].processed \/ log[i].error => log[i].stored

RowTypes ==
    /\ subscriptions \in [Users -> Subscribed \cup {NoSubscription}]
    /\ billing_tier \in [Users -> Tiers \cup {NoRow}]

DeliveryTypes ==
    /\ pc \in [Deliveries -> Phases]
    /\ e \in [Deliveries -> Issued \cup {NoEvent}]
    /\ \A d \in Deliveries : pc[d] = "idle" <=> e[d] = NoEvent

HistoryTypes ==
    /\ applied \in [subscription : SUBSET Issued, tier : SUBSET Issued,
                    missed : SUBSET Issued]
    /\ calm \in BOOLEAN

FaultTypes == available \in BOOLEAN /\ faults \in 0..MaxFaults

LEMMA Parts ==
    TypeOK <=> /\ PolarTypes /\ LogTypes /\ RowTypes
               /\ DeliveryTypes /\ HistoryTypes /\ FaultTypes
BY DEF TypeOK, PolarTypes, LogTypes, RowTypes, DeliveryTypes, HistoryTypes, FaultTypes

LEMMA PartsNext ==
    ASSUME PolarTypes', LogTypes', RowTypes', DeliveryTypes', HistoryTypes', FaultTypes'
    PROVE  TypeOK'
BY DEF TypeOK, PolarTypes, LogTypes, RowTypes, DeliveryTypes, HistoryTypes, FaultTypes

LEMMA Bounds ==
    /\ MaxEvents \in Nat /\ MaxFaults \in Nat
    /\ FreeTier \in Tiers /\ NoRow \notin Tiers /\ NoUser \notin Users
BY WebhookAssumption

LEMMA IssuedIds ==
    ASSUME PolarTypes
    PROVE  /\ Issued = 1..Len(event) /\ Issued \subseteq EventIds
           /\ NoEvent \notin Issued
           /\ \A i \in Issued : event[i] \in Payload
<1>1. Len(event) \in Nat /\ Issued = 1..Len(event)
  BY DEF PolarTypes, Issued
<1>2. Issued \subseteq EventIds /\ NoEvent \notin Issued
  <2>1. Len(event) <= MaxEvents
    BY DEF PolarTypes
  <2>2. 1..Len(event) \subseteq 1..MaxEvents /\ 0 \notin 1..Len(event)
    BY <1>1, <2>1, Bounds
  <2> QED
    BY <1>1, <2>2 DEF EventIds, NoEvent
<1>3. \A i \in Issued : event[i] \in Payload
  BY <1>1 DEF PolarTypes
<1> QED
  BY <1>1, <1>2, <1>3

LEMMA AtWork ==
    ASSUME PolarTypes, DeliveryTypes, NEW d \in Deliveries, pc[d] # "idle"
    PROVE  /\ e[d] \in Issued /\ e[d] \in EventIds /\ e[d] # NoEvent
           /\ event[e[d]] \in Payload
BY IssuedIds DEF DeliveryTypes

LEMMA SubscribedUser ==
    ASSUME NEW p \in Payload, p.user # NoUser
    PROVE  p \in Subscribed /\ p.user \in Users /\ p.tier \in Tiers
BY DEF Payload, Subscribed, Other

LEMMA InitTypeOK == Init => TypeOK
<1> SUFFICES ASSUME Init PROVE TypeOK
  OBVIOUS
<1>1. event \in Seq(Payload) /\ Len(event) <= MaxEvents /\ Issued = {}
  BY Bounds DEF Init, Issued
<1>2. PolarTypes
  BY <1>1 DEF Init, PolarTypes
<1>3. LogTypes
  BY DEF Init, LogTypes, LogRow, Absent
<1>4. RowTypes
  BY Bounds DEF Init, RowTypes
<1>5. DeliveryTypes
  BY DEF Init, DeliveryTypes, Phases, NoEvent
<1>6. HistoryTypes
  BY DEF Init, HistoryTypes
<1>7. FaultTypes
  <2>1. available \in BOOLEAN
    BY DEF Init, MayHaveClient
  <2>2. faults \in 0..MaxFaults
    BY Bounds DEF Init
  <2> QED
    BY <2>1, <2>2 DEF FaultTypes
<1> QED
  BY <1>2, <1>3, <1>4, <1>5, <1>6, <1>7, Parts

-----------------------------------------------------------------------------
(* A delivery has a user when it is past the log; the log marks an event   *)
(* that has reached the tables, and a delivery is between them where its   *)
(* phase says.                                                             *)

Reached(i) == i \in applied.subscription /\ i \in applied.tier \cup applied.missed

PhaseInv ==
    \A d \in Deliveries :
      /\ pc[d] \in {"persisted", "upserted"} => event[e[d]].user # NoUser
      /\ pc[d] = "upserted" => e[d] \in applied.subscription
      /\ pc[d] = "synced" => Reached(e[d])

IInv == TypeOK /\ PhaseInv /\ ProcessedIsApplied

\* The history only grows.
Grows ==
    /\ applied.subscription \subseteq applied'.subscription
    /\ applied.tier \subseteq applied'.tier
    /\ applied.missed \subseteq applied'.missed

LEMMA InitIInv == Init => IInv
<1> SUFFICES ASSUME Init PROVE IInv
  OBVIOUS
<1>1. PhaseInv /\ ProcessedIsApplied
  BY DEF Init, PhaseInv, ProcessedIsApplied, Absent
<1> QED
  BY <1>1, InitTypeOK DEF IInv

\* What a step may do to a delivery: it goes on with the event it has.
LEMMA GoTypes ==
    ASSUME TypeOK, NEW d \in Deliveries, NEW from, NEW to \in Phases \ {"idle"},
           from # "idle", Go(d, from, to)
    PROVE  /\ PolarTypes' /\ DeliveryTypes' /\ Issued' = Issued
           /\ event' = event /\ e' = e
           /\ e[d] \in Issued /\ e[d] \in EventIds /\ event[e[d]] \in Payload
           /\ pc' = [pc EXCEPT ![d] = to] /\ pc[d] = from
<1>1. PolarTypes /\ DeliveryTypes
  BY Parts
<1>2. event' = event /\ acked' = acked /\ e' = e /\ Issued' = Issued
  BY DEF Go, polar, Issued
<1>3. pc' = [pc EXCEPT ![d] = to] /\ pc[d] = from
  BY DEF Go
<1>4. e[d] \in Issued /\ e[d] \in EventIds /\ e[d] # NoEvent /\ event[e[d]] \in Payload
  BY <1>1, <1>3, AtWork
<1>5. PolarTypes'
  BY <1>1, <1>2 DEF PolarTypes
<1>6. DeliveryTypes'
  BY <1>1, <1>2, <1>3, <1>4 DEF DeliveryTypes
<1> QED
  BY <1>2, <1>3, <1>4, <1>5, <1>6

LEMMA Monotonic ==
    ASSUME Grows, NEW i
    PROVE  /\ i \in applied.subscription => i \in applied'.subscription
           /\ Reached(i) => Reached(i)'
BY DEF Grows, Reached

\* The delivery goes to a phase whose condition is met.
LEMMA GoPhase ==
    ASSUME IInv, NEW d \in Deliveries, NEW to, Grows,
           event' = event, e' = e, pc' = [pc EXCEPT ![d] = to],
           to \in {"persisted", "upserted"} => event[e[d]].user # NoUser,
           to = "upserted" => e[d] \in applied'.subscription,
           to = "synced" => Reached(e[d])'
    PROVE  PhaseInv'
<1> SUFFICES ASSUME NEW other \in Deliveries
             PROVE  /\ pc'[other] \in {"persisted", "upserted"} => event[e[other]].user # NoUser
                    /\ pc'[other] = "upserted" => e[other] \in applied'.subscription
                    /\ pc'[other] = "synced" => Reached(e[other])'
  BY DEF PhaseInv, Reached
<1>1. pc \in [Deliveries -> Phases]
  BY DEF IInv, TypeOK
<1>2. CASE other = d
  BY <1>1, <1>2
<1>3. CASE other # d
  <2>1. pc'[other] = pc[other]
    BY <1>1, <1>3
  <2> QED
    BY <2>1, Monotonic DEF IInv, PhaseInv
<1> QED
  BY <1>2, <1>3

\* The log marks nothing, or an event that has reached both tables.
LEMMA LogStep ==
    ASSUME IInv, Grows,
           \A i \in EventIds :
             log'[i].processed => log[i].processed \/ Reached(i)'
    PROVE  ProcessedIsApplied'
BY Monotonic DEF IInv, ProcessedIsApplied, Reached

-----------------------------------------------------------------------------
(* One lemma per kind of step.                                             *)

LEMMA IssueStep ==
    ASSUME IInv, NEW payload \in Payload, Issue(payload)
    PROVE  IInv'
<1>1. PolarTypes /\ DeliveryTypes /\ HistoryTypes
  BY Parts DEF IInv
<1>2. /\ Len(event) < MaxEvents /\ event' = Append(event, payload)
      /\ UNCHANGED <<acked, tables, delivery, available, faults, applied, calm>>
  BY DEF Issue
<1>3. /\ Len(event) \in Nat
      /\ event' \in Seq(Payload) /\ Len(event') = Len(event) + 1
      /\ \A i \in 1..Len(event) : event'[i] = event[i]
  BY <1>1, <1>2 DEF PolarTypes
<1>4. Len(event') <= MaxEvents /\ 1..Len(event) \subseteq 1..Len(event')
  BY <1>2, <1>3, Bounds
<1>5. Issued \subseteq Issued' /\ Issued = 1..Len(event)
  BY <1>1, <1>3, <1>4, IssuedIds DEF Issued
<1>6. PolarTypes'
  BY <1>1, <1>2, <1>3, <1>4, <1>5 DEF PolarTypes
<1>7. DeliveryTypes' /\ HistoryTypes'
  BY <1>1, <1>2, <1>5 DEF DeliveryTypes, HistoryTypes, delivery
<1>8. LogTypes' /\ RowTypes' /\ FaultTypes'
  BY <1>2, Parts DEF IInv, LogTypes, RowTypes, FaultTypes, tables
<1>9. \A d \in Deliveries : pc[d] # "idle" => event'[e[d]] = event[e[d]]
  BY <1>1, <1>3, <1>5, AtWork
<1>10. PhaseInv'
  BY <1>2, <1>9 DEF IInv, PhaseInv, delivery, Reached
<1>11. ProcessedIsApplied'
  BY <1>2 DEF IInv, ProcessedIsApplied, tables
<1> QED
  BY <1>6, <1>7, <1>8, <1>10, <1>11, PartsNext DEF IInv

LEMMA DeliverStep ==
    ASSUME IInv, NEW d \in Deliveries, NEW i \in Issued, Deliver(d, i)
    PROVE  IInv'
<1>1. /\ PolarTypes /\ DeliveryTypes /\ HistoryTypes
      /\ LogTypes /\ RowTypes /\ FaultTypes
  BY Parts DEF IInv
<1>2. /\ UNCHANGED <<polar, tables, available, faults, applied>>
      /\ pc' = [pc EXCEPT ![d] = "received"] /\ e' = [e EXCEPT ![d] = i]
      /\ calm' = (calm /\ available /\ \A other \in Deliveries : pc[other] = "idle")
  BY DEF Deliver
<1>3. Issued' = Issued /\ i # NoEvent
  BY <1>1, <1>2, IssuedIds DEF polar, Issued
<1>4. PolarTypes' /\ LogTypes' /\ RowTypes' /\ FaultTypes'
  BY <1>1, <1>2, <1>3 DEF PolarTypes, LogTypes, RowTypes, FaultTypes, polar, tables
<1>5. calm' \in BOOLEAN
  BY <1>2
<1>6. HistoryTypes'
  BY <1>1, <1>2, <1>3, <1>5 DEF HistoryTypes
<1>7. DeliveryTypes'
  BY <1>1, <1>2, <1>3 DEF DeliveryTypes, Phases
<1>8. PhaseInv'
  BY <1>1, <1>2 DEF IInv, PhaseInv, polar, Reached, DeliveryTypes
<1>9. ProcessedIsApplied'
  BY <1>2 DEF IInv, ProcessedIsApplied, tables
<1> QED
  BY <1>4, <1>6, <1>7, <1>8, <1>9, PartsNext DEF IInv

LEMMA ProvisionStep ==
    ASSUME IInv, NEW u \in Users, Provision(u)
    PROVE  IInv'
<1>1. RowTypes'
  BY Parts, Bounds DEF IInv, RowTypes, Provision
<1>2. Issued' = Issued
  BY DEF Provision, polar, Issued
<1>3. PolarTypes' /\ LogTypes' /\ DeliveryTypes' /\ HistoryTypes' /\ FaultTypes'
  BY <1>2, Parts DEF IInv, Provision, polar, delivery, PolarTypes, LogTypes,
                     DeliveryTypes, HistoryTypes, FaultTypes
<1>4. PhaseInv' /\ ProcessedIsApplied'
  BY DEF IInv, Provision, polar, delivery, PhaseInv, Reached, ProcessedIsApplied
<1> QED
  BY <1>1, <1>3, <1>4, PartsNext DEF IInv

LEMMA FaultKeeps ==
    ASSUME FaultTypes, NEW kind, Fault(kind)
    PROVE  faults' \in 0..MaxFaults
BY Bounds DEF FaultTypes, Fault

\* The statements of a delivery that change the log alone: the first, and the
\* first as it fails.
LEMMA PersistStep ==
    ASSUME IInv, NEW d \in Deliveries, NEW to,
           to = (IF event[e[d]].user = NoUser THEN "ignored" ELSE "persisted"),
           Go(d, "received", to), LogEvent(d) \/ UNCHANGED log,
           UNCHANGED <<subscriptions, billing_tier, applied, available>>,
           faults' \in 0..MaxFaults, calm' \in BOOLEAN
    PROVE  IInv'
<1>1. LogTypes /\ RowTypes /\ HistoryTypes /\ FaultTypes /\ TypeOK
  BY Parts DEF IInv
<1>2. to \in Phases \ {"idle"}
  BY DEF Phases
<1>3. /\ PolarTypes' /\ DeliveryTypes' /\ Issued' = Issued
      /\ event' = event /\ e' = e
      /\ e[d] \in EventIds /\ pc' = [pc EXCEPT ![d] = to]
  BY <1>1, <1>2, GoTypes
<1>4. /\ log' \in [EventIds -> LogRow]
      /\ \A i \in EventIds : /\ log'[i].processed => log[i].processed
                             /\ log'[i].error => log[i].error
                             /\ log[i].stored => log'[i].stored
  <2>1. CASE LogEvent(d)
    BY <1>1, <1>3, <2>1 DEF LogEvent, LogTypes, LogRow
  <2>2. CASE UNCHANGED log
    BY <1>1, <2>2 DEF LogTypes
  <2> QED
    BY <2>1, <2>2
<1>5. LogTypes'
  <2>1. ASSUME NEW i \in EventIds, log'[i].processed \/ log'[i].error
        PROVE  log'[i].stored
    <3>1. log[i].processed \/ log[i].error
      BY <1>4, <2>1, Zenon
    <3>2. log[i].stored
      BY <1>1, <3>1, Zenon DEF LogTypes
    <3> QED
      BY <1>4, <3>2, Zenon
  <2> QED
    BY <1>4, <2>1, Zenon DEF LogTypes
<1>6. RowTypes' /\ HistoryTypes' /\ FaultTypes'
  BY <1>1, <1>3 DEF RowTypes, HistoryTypes, FaultTypes
<1>7. Grows
  BY DEF Grows
<1>8. PhaseInv'
  BY <1>3, <1>7, GoPhase
<1>9. ProcessedIsApplied'
  <2>1. \A i \in EventIds : log'[i].processed => log[i].processed \/ Reached(i)'
    BY <1>4, Zenon
  <2> QED
    BY <1>7, <2>1, LogStep
<1> QED
  BY <1>3, <1>5, <1>6, <1>8, <1>9, PartsNext DEF IInv

\* The subscription is written, or not.
LEMMA UpsertStep ==
    ASSUME IInv, NEW d \in Deliveries, NEW to \in {"upserted", "failed"},
           Go(d, "persisted", to),
           WriteSubscription(d) \/ (to = "failed" /\ UNCHANGED <<subscriptions, applied>>),
           UNCHANGED <<log, billing_tier, available>>,
           faults' \in 0..MaxFaults, calm' \in BOOLEAN
    PROVE  IInv'
<1>1. LogTypes /\ RowTypes /\ HistoryTypes /\ FaultTypes /\ TypeOK
  BY Parts DEF IInv
<1>2. to \in Phases \ {"idle"}
  BY DEF Phases
<1>3. /\ PolarTypes' /\ DeliveryTypes' /\ Issued' = Issued
      /\ event' = event /\ e' = e /\ pc[d] = "persisted"
      /\ e[d] \in Issued /\ event[e[d]] \in Payload /\ pc' = [pc EXCEPT ![d] = to]
  BY <1>1, <1>2, GoTypes
<1>4. event[e[d]].user # NoUser
  BY <1>3 DEF IInv, PhaseInv
<1>5. event[e[d]] \in Subscribed /\ event[e[d]].user \in Users
  BY <1>3, <1>4, SubscribedUser
<1>6. RowTypes'
  BY <1>1, <1>5 DEF RowTypes, WriteSubscription
<1>7. HistoryTypes'
  BY <1>1, <1>3 DEF HistoryTypes, WriteSubscription
<1>8. LogTypes' /\ FaultTypes'
  BY <1>1 DEF LogTypes, FaultTypes
<1>9. Grows /\ (to = "upserted" => e[d] \in applied'.subscription)
  BY <1>1 DEF Grows, HistoryTypes, WriteSubscription
<1>10. PhaseInv'
  BY <1>3, <1>4, <1>9, GoPhase
<1>11. ProcessedIsApplied'
  BY <1>9, LogStep
<1> QED
  BY <1>3, <1>6, <1>7, <1>8, <1>10, <1>11, PartsNext DEF IInv

\* The tier is written, or not.
LEMMA SyncStep ==
    ASSUME IInv, NEW d \in Deliveries, NEW to \in {"synced", "failed"},
           Go(d, "upserted", to),
           WriteTier(d) \/ (to = "failed" /\ UNCHANGED <<billing_tier, applied>>),
           UNCHANGED <<log, subscriptions, available>>,
           faults' \in 0..MaxFaults, calm' \in BOOLEAN
    PROVE  IInv'
<1>1. LogTypes /\ RowTypes /\ HistoryTypes /\ FaultTypes /\ TypeOK
  BY Parts DEF IInv
<1>2. to \in Phases \ {"idle"}
  BY DEF Phases
<1>3. /\ PolarTypes' /\ DeliveryTypes' /\ Issued' = Issued
      /\ event' = event /\ e' = e /\ pc[d] = "upserted"
      /\ e[d] \in Issued /\ event[e[d]] \in Payload /\ pc' = [pc EXCEPT ![d] = to]
  BY <1>1, <1>2, GoTypes
<1>4. event[e[d]].user # NoUser /\ e[d] \in applied.subscription
  BY <1>3 DEF IInv, PhaseInv
<1>5. event[e[d]].tier \in Tiers /\ event[e[d]].user \in Users
  BY <1>3, <1>4, SubscribedUser
<1>6. RowTypes'
  BY <1>1, <1>5 DEF RowTypes, WriteTier
<1>7. HistoryTypes'
  BY <1>1, <1>3 DEF HistoryTypes, WriteTier
<1>8. LogTypes' /\ FaultTypes'
  BY <1>1 DEF LogTypes, FaultTypes
<1>9. Grows /\ (to = "synced" => Reached(e[d])')
  BY <1>1, <1>3, <1>4 DEF Grows, HistoryTypes, WriteTier, Reached
<1>10. PhaseInv'
  BY <1>3, <1>9, GoPhase
<1>11. ProcessedIsApplied'
  BY <1>9, LogStep
<1> QED
  BY <1>3, <1>6, <1>7, <1>8, <1>10, <1>11, PartsNext DEF IInv

\* The event is marked as processed, and the delivery goes on or ends.
LEMMA MarkTypes ==
    ASSUME IInv, NEW d \in Deliveries, pc[d] = "synced",
           MarkLog(d) \/ UNCHANGED log, applied' = applied
    PROVE  LogTypes' /\ ProcessedIsApplied'
<1>1. LogTypes /\ e[d] \in EventIds /\ Reached(e[d])
  BY Parts, AtWork DEF IInv, PhaseInv
<1>2. /\ log' \in [EventIds -> LogRow]
      /\ \A i \in EventIds : log'[i].processed \/ log'[i].error => log'[i].stored
      /\ \A i \in EventIds : log'[i].processed => log[i].processed \/ i = e[d]
  <2>1. CASE MarkLog(d)
    BY <1>1, <2>1 DEF MarkLog, Marked, LogTypes, LogRow
  <2>2. CASE UNCHANGED log
    BY <1>1, <2>2 DEF LogTypes
  <2> QED
    BY <2>1, <2>2
<1>3. Grows
  BY DEF Grows
<1>4. \A i \in EventIds : log'[i].processed => log[i].processed \/ Reached(i)'
  BY <1>1, <1>2 DEF Reached
<1>5. ProcessedIsApplied'
  BY <1>3, <1>4, LogStep
<1> QED
  BY <1>2, <1>5 DEF LogTypes

LEMMA ErrorTypes ==
    ASSUME IInv, NEW d \in Deliveries, pc[d] = "failed",
           log' = [log EXCEPT ![e[d]] = WithError(@)], applied' = applied
    PROVE  LogTypes' /\ ProcessedIsApplied'
<1>1. LogTypes /\ e[d] \in EventIds
  BY Parts, AtWork DEF IInv
<1>2. /\ log' \in [EventIds -> LogRow]
      /\ \A i \in EventIds : log'[i].processed \/ log'[i].error => log'[i].stored
      /\ \A i \in EventIds : log'[i].processed => log[i].processed
  BY <1>1 DEF WithError, LogTypes, LogRow
<1>3. Grows
  BY DEF Grows
<1>4. ProcessedIsApplied'
  BY <1>2, <1>3, LogStep
<1> QED
  BY <1>2, <1>4 DEF LogTypes

\* The delivery ends, acknowledged or not.
LEMMA DoneStep ==
    ASSUME IInv, NEW d \in Deliveries, pc[d] # "idle", Done(d),
           LogTypes', ProcessedIsApplied', acked' \subseteq acked \cup {e[d]},
           faults' \in 0..MaxFaults, calm' \in BOOLEAN, available' = available
    PROVE  IInv'
<1>1. /\ PolarTypes /\ DeliveryTypes /\ RowTypes /\ HistoryTypes /\ FaultTypes
  BY Parts DEF IInv
<1>2. /\ pc' = [pc EXCEPT ![d] = "idle"] /\ e' = [e EXCEPT ![d] = NoEvent]
      /\ UNCHANGED <<event, subscriptions, billing_tier, applied>>
  BY DEF Done
<1>3. e[d] \in Issued /\ Issued' = Issued /\ NoEvent \notin Issued
  BY <1>1, <1>2, AtWork, IssuedIds DEF Issued
<1>4. PolarTypes'
  BY <1>1, <1>2, <1>3 DEF PolarTypes
<1>5. DeliveryTypes'
  BY <1>1, <1>2, <1>3 DEF DeliveryTypes, Phases
<1>6. RowTypes' /\ HistoryTypes' /\ FaultTypes'
  BY <1>1, <1>2, <1>3 DEF RowTypes, HistoryTypes, FaultTypes
<1>7. PhaseInv'
  BY <1>1, <1>2 DEF IInv, PhaseInv, Reached, DeliveryTypes
<1> QED
  BY <1>4, <1>5, <1>6, <1>7, PartsNext DEF IInv

-----------------------------------------------------------------------------
(* The steps together.                                                     *)

LEMMA ReplyStep ==
    ASSUME IInv, NEW d \in Deliveries, pc[d] # "idle", Reply(d),
           LogTypes', ProcessedIsApplied', UNCHANGED <<available, calm>>
    PROVE  IInv'
<1>1. Done(d) /\ acked' \subseteq acked \cup {e[d]}
  BY DEF Reply
<1>2. faults' \in 0..MaxFaults /\ calm' \in BOOLEAN
  BY Parts, FaultKeeps DEF Reply, IInv, FaultTypes, HistoryTypes
<1> QED
  BY <1>1, <1>2, DoneStep

LEMMA StepKeeps ==
    ASSUME IInv, NEW d \in Deliveries, Step(d)
    PROVE  IInv'
<1>1. /\ UNCHANGED <<available, calm>>
      /\ faults \in 0..MaxFaults /\ calm \in BOOLEAN
      /\ LogTypes /\ ProcessedIsApplied
  BY Parts DEF IInv, Step, FaultTypes, HistoryTypes
<1>2. CASE Persist(d)
  BY <1>1, <1>2, PersistStep DEF Persist, AfterPersist
<1>3. CASE UpsertSubscription(d)
  BY <1>1, <1>3, UpsertStep DEF UpsertSubscription
<1>4. CASE SyncTier(d)
  BY <1>1, <1>4, SyncStep DEF SyncTier
<1>5. CASE MarkProcessed(d)
  <2>1. applied' = applied
    BY <1>5 DEF MarkProcessed, Reply, Done
  <2>2. LogTypes' /\ ProcessedIsApplied'
    BY <1>5, <2>1, MarkTypes DEF MarkProcessed
  <2> QED
    BY <1>1, <1>5, <2>2, ReplyStep DEF MarkProcessed
<1>6. CASE StoreError(d)
  <2>1. applied' = applied
    BY <1>6 DEF StoreError, Reply, Done
  <2>2. LogTypes' /\ ProcessedIsApplied'
    BY <1>6, <2>1, ErrorTypes DEF StoreError
  <2> QED
    BY <1>1, <1>6, <2>2, ReplyStep DEF StoreError
<1>7. CASE Ignore(d) \/ Unavailable(d)
  <2>1. pc[d] # "idle" /\ Reply(d) /\ log' = log
    BY <1>7 DEF Ignore, Unavailable
  <2>2. LogTypes' /\ ProcessedIsApplied'
    BY <1>1, <2>1 DEF Reply, Done, LogTypes, ProcessedIsApplied
  <2> QED
    BY <1>1, <2>1, <2>2, ReplyStep
<1> QED
  BY <1>2, <1>3, <1>4, <1>5, <1>6, <1>7 DEF Step

LEMMA FailureKeeps ==
    ASSUME IInv, NEW d \in Deliveries, StatementFails(d)
    PROVE  IInv'
<1>1. /\ calm' \in BOOLEAN /\ available' = available
      /\ LogTypes /\ ProcessedIsApplied
  BY Parts DEF IInv, StatementFails
<1>2. faults' \in 0..MaxFaults
  BY Parts, FaultKeeps DEF IInv, StatementFails, PersistFails, UpsertFails,
                           SyncFails, MarkFails, StoreErrorFails
<1>3. CASE PersistFails(d)
  BY <1>1, <1>2, <1>3, PersistStep DEF PersistFails
<1>4. CASE UpsertFails(d)
  BY <1>1, <1>2, <1>4, UpsertStep DEF UpsertFails, AfterError
<1>5. CASE SyncFails(d)
  BY <1>1, <1>2, <1>5, SyncStep DEF SyncFails, AfterError
<1>6. CASE MarkFails(d)
  <2>1. /\ Go(d, "synced", "failed") /\ pc[d] = "synced"
        /\ MarkLog(d) \/ UNCHANGED log
        /\ UNCHANGED <<subscriptions, billing_tier, applied>>
    BY <1>6 DEF MarkFails, AfterError, Go
  <2>2. LogTypes' /\ ProcessedIsApplied'
    BY <2>1, MarkTypes
  <2>3. RowTypes /\ HistoryTypes /\ FaultTypes /\ TypeOK /\ "failed" \in Phases \ {"idle"}
    BY Parts DEF IInv, Phases
  <2>4. /\ PolarTypes' /\ DeliveryTypes' /\ Issued' = Issued
        /\ event' = event /\ e' = e /\ pc' = [pc EXCEPT ![d] = "failed"]
    BY <2>1, <2>3, GoTypes
  <2>5. RowTypes' /\ HistoryTypes' /\ FaultTypes'
    BY <1>1, <1>2, <2>1, <2>3, <2>4 DEF RowTypes, HistoryTypes, FaultTypes
  <2>6. Grows
    BY <2>1 DEF Grows
  <2>7. PhaseInv'
    BY <2>4, <2>6, GoPhase
  <2> QED
    BY <2>2, <2>4, <2>5, <2>7, PartsNext DEF IInv
<1>7. CASE StoreErrorFails(d)
  <2>1. pc[d] # "idle" /\ Done(d) /\ acked' = acked \cup {e[d]} /\ log' = log
    BY <1>7 DEF StoreErrorFails
  <2>2. LogTypes' /\ ProcessedIsApplied'
    BY <1>1, <2>1 DEF Done, LogTypes, ProcessedIsApplied
  <2> QED
    BY <1>1, <1>2, <2>1, <2>2, DoneStep
<1> QED
  BY <1>3, <1>4, <1>5, <1>6, <1>7 DEF StatementFails

LEMMA CrashStep ==
    ASSUME IInv, Crash
    PROVE  IInv'
<1>1. /\ pc' = [d \in Deliveries |-> "idle"] /\ e' = [d \in Deliveries |-> NoEvent]
      /\ UNCHANGED <<polar, tables, applied, calm>> /\ available' \in BOOLEAN
  BY DEF Crash, MayHaveClient
<1>2. faults' \in 0..MaxFaults
  BY Parts, FaultKeeps DEF IInv, Crash
<1>3. Issued' = Issued
  BY <1>1 DEF polar, Issued
<1>4. DeliveryTypes'
  BY <1>1 DEF DeliveryTypes, Phases
<1>5. PolarTypes' /\ LogTypes' /\ RowTypes' /\ HistoryTypes' /\ FaultTypes'
  BY <1>1, <1>2, <1>3, Parts DEF IInv, polar, tables, PolarTypes, LogTypes, RowTypes,
                                 HistoryTypes, FaultTypes
<1>6. PhaseInv' /\ ProcessedIsApplied'
  BY <1>1 DEF IInv, tables, PhaseInv, ProcessedIsApplied
<1> QED
  BY <1>4, <1>5, <1>6, PartsNext DEF IInv

LEMMA NextIInv == IInv /\ [Next]_vars => IInv'
<1> SUFFICES ASSUME IInv, [Next]_vars PROVE IInv'
  OBVIOUS
<1>1. CASE UNCHANGED vars
  <2>1. Issued' = Issued
    BY <1>1 DEF vars, polar, Issued
  <2>2. TypeOK'
    BY <1>1, <2>1 DEF IInv, vars, polar, tables, delivery, TypeOK
  <2>3. PhaseInv' /\ ProcessedIsApplied'
    BY <1>1 DEF IInv, vars, polar, tables, delivery, PhaseInv, Reached, ProcessedIsApplied
  <2> QED
    BY <2>2, <2>3 DEF IInv
<1> QED
  BY <1>1, IssueStep, DeliverStep, ProvisionStep, StepKeeps, FailureKeeps, CrashStep
  DEF Next

LEMMA Invariance == Spec => []IInv
BY InitIInv, NextIInv, PTL DEF Spec

\* The variables keep their types, and no row is marked that is not in the
\* log, for any number of deliveries, events and faults.
THEOREM TypeCorrect == Spec => []TypeOK
<1>1. IInv => TypeOK
  BY DEF IInv
<1> QED
  BY <1>1, Invariance, PTL

\* An event that the log shows as processed has reached the tables.
THEOREM ProcessedReached == Spec => []ProcessedIsApplied
<1>1. IInv => ProcessedIsApplied
  BY DEF IInv
<1> QED
  BY <1>1, Invariance, PTL

-----------------------------------------------------------------------------
(* While all is calm one delivery is at work at most.  It brings the tables *)
(* of its user together step by step, and Polar would deliver its event    *)
(* again until it has: a user whose tables differ has an event to come.    *)

Single == \A d, other \in Deliveries : pc[d] # "idle" /\ pc[other] # "idle" => d = other

CalmPhase(d) ==
    /\ pc[d] # "idle" => available /\ e[d] \notin acked
    /\ pc[d] \in {"persisted", "upserted", "synced"} => log[e[d]].stored
    /\ pc[d] \in {"upserted", "synced"} => subscriptions[event[e[d]].user] = event[e[d]]
    /\ pc[d] = "synced" => TablesAgree(event[e[d]].user)
    /\ pc[d] = "ignored" => event[e[d]].user = NoUser
    /\ pc[d] # "failed"

AckedDone == \A i \in acked : event[i].user # NoUser => log[i].processed

Pending ==
    \A u \in Users : TablesAgree(u) \/ \E i \in Issued \ acked : event[i].user = u

CalmInv ==
    calm => /\ Single /\ AckedDone /\ Pending
            /\ \A d \in Deliveries : CalmPhase(d)

LEMMA InitCalm == Init => CalmInv
BY DEF Init, CalmInv, Single, AckedDone, Pending, CalmPhase, TablesAgree

\* A user whose rows a step leaves alone.
LEMMA AgreeKept ==
    ASSUME HistoryTypes, NEW u \in Users, TablesAgree(u),
           subscriptions'[u] = subscriptions[u], billing_tier'[u] = billing_tier[u],
           applied.missed \subseteq applied'.missed,
           \A i \in Issued : event'[i] = event[i]
    PROVE  TablesAgree(u)'
<1>1. applied.missed \subseteq Issued
  BY DEF HistoryTypes
<1> QED
  BY <1>1 DEF TablesAgree

\* The others are idle and stay so.
LEMMA OneAtWork ==
    ASSUME DeliveryTypes, Single, NEW d \in Deliveries, NEW to,
           pc[d] # "idle", pc' = [pc EXCEPT ![d] = to], CalmPhase(d)'
    PROVE  Single' /\ \A other \in Deliveries : CalmPhase(other)'
<1>1. ASSUME NEW other \in Deliveries, other # d
      PROVE  pc'[other] = "idle"
  BY <1>1 DEF DeliveryTypes, Single
<1>2. Single'
  BY <1>1 DEF Single
<1>3. \A other \in Deliveries : other # d => CalmPhase(other)'
  BY <1>1 DEF CalmPhase
<1> QED
  BY <1>2, <1>3

\* A delivery goes on, and Polar hears nothing.
LEMMA GoCalm ==
    ASSUME IInv, CalmInv, calm, NEW d \in Deliveries, NEW from, NEW to,
           from # "idle", Go(d, from, to), CalmPhase(d)', Pending',
           \A i \in EventIds : log[i].processed => log'[i].processed
    PROVE  CalmInv'
<1>1. /\ PolarTypes /\ DeliveryTypes /\ Single /\ AckedDone
      /\ pc[d] # "idle" /\ pc' = [pc EXCEPT ![d] = to]
      /\ event' = event /\ acked' = acked
  BY Parts DEF IInv, CalmInv, Go, polar
<1>2. Single' /\ \A other \in Deliveries : CalmPhase(other)'
  BY <1>1, OneAtWork
<1>3. acked \subseteq EventIds
  BY <1>1, IssuedIds DEF PolarTypes
<1>4. AckedDone'
  BY <1>1, <1>3 DEF AckedDone
<1> QED
  BY <1>2, <1>4 DEF CalmInv

\* The log alone is written.
LEMMA PersistCalm ==
    ASSUME IInv, CalmInv, calm, NEW d \in Deliveries, Persist(d), available' = available
    PROVE  CalmInv'
<1> DEFINE to == AfterPersist(d)
<1>1. /\ PolarTypes /\ DeliveryTypes /\ LogTypes /\ HistoryTypes
      /\ available /\ pc[d] = "received" /\ Pending /\ CalmPhase(d)
      /\ Go(d, "received", to) /\ LogEvent(d)
      /\ UNCHANGED <<polar, e, subscriptions, billing_tier, applied>>
      /\ pc' = [pc EXCEPT ![d] = to]
  BY Parts DEF IInv, CalmInv, Persist, Go
<1>2. e[d] \in EventIds
  BY <1>1, AtWork
<1>3. /\ log'[e[d]].stored
      /\ \A i \in EventIds : log[i].processed => log'[i].processed
  BY <1>1, <1>2 DEF LogEvent, LogTypes, LogRow
<1>4. (to = "ignored" /\ event[e[d]].user = NoUser) \/ to = "persisted"
  BY DEF AfterPersist
<1>5. e[d] \notin acked
  BY <1>1 DEF CalmPhase
<1>6. pc'[d] = to
  BY <1>1 DEF DeliveryTypes
<1>7. CalmPhase(d)'
  BY <1>1, <1>3, <1>4, <1>5, <1>6 DEF CalmPhase, polar
<1>8. Pending'
  BY <1>1 DEF Pending, TablesAgree, polar, Issued
<1> QED
  BY <1>1, <1>3, <1>7, <1>8, GoCalm

\* The subscription of a user whose event is to be acknowledged yet.
LEMMA UpsertCalm ==
    ASSUME IInv, CalmInv, calm, NEW d \in Deliveries, UpsertSubscription(d),
           available' = available
    PROVE  CalmInv'
<1>1. /\ PolarTypes /\ DeliveryTypes /\ RowTypes /\ HistoryTypes
      /\ pc[d] = "persisted" /\ Pending /\ CalmPhase(d)
      /\ Go(d, "persisted", "upserted") /\ WriteSubscription(d)
      /\ UNCHANGED <<polar, e, log, billing_tier>>
      /\ pc' = [pc EXCEPT ![d] = "upserted"]
  BY Parts DEF IInv, CalmInv, UpsertSubscription, Go
<1>2. e[d] \in Issued /\ event[e[d]] \in Payload /\ event[e[d]].user # NoUser
  BY <1>1, AtWork DEF IInv, PhaseInv
<1>3. PICK u \in Users : u = event[e[d]].user
  BY <1>2, SubscribedUser
<1>4. /\ subscriptions' = [subscriptions EXCEPT ![u] = event[e[d]]]
      /\ applied'.missed = applied.missed
  BY <1>1, <1>3 DEF WriteSubscription, HistoryTypes
<1>5. /\ available /\ e[d] \notin acked /\ log[e[d]].stored
      /\ subscriptions'[u] = event[e[d]] /\ pc'[d] = "upserted"
  BY <1>1, <1>4 DEF CalmPhase, RowTypes, DeliveryTypes
<1>6. CalmPhase(d)'
  BY <1>1, <1>3, <1>5 DEF CalmPhase, polar
<1>7. ASSUME NEW w \in Users
      PROVE  TablesAgree(w)' \/ \E i \in Issued' \ acked' : event'[i].user = w
  <2>1. Issued' = Issued /\ event' = event /\ acked' = acked
    BY <1>1 DEF polar, Issued
  <2>2. CASE w = u
    BY <1>2, <1>3, <1>5, <2>1, <2>2
  <2>3. CASE w # u
    <3>1. subscriptions'[w] = subscriptions[w]
      BY <1>1, <1>4, <2>3 DEF RowTypes
    <3> QED
      BY <1>1, <1>4, <2>1, <3>1, AgreeKept DEF Pending
  <2> QED
    BY <2>2, <2>3
<1>8. Pending'
  BY <1>7 DEF Pending
<1> QED
  BY <1>1, <1>6, <1>8, GoCalm

\* The tier, as that of the subscription, or the event is missed.
LEMMA SyncCalm ==
    ASSUME IInv, CalmInv, calm, NEW d \in Deliveries, SyncTier(d), available' = available
    PROVE  CalmInv'
<1>1. /\ PolarTypes /\ DeliveryTypes /\ RowTypes /\ HistoryTypes
      /\ pc[d] = "upserted" /\ Pending /\ CalmPhase(d)
      /\ Go(d, "upserted", "synced") /\ WriteTier(d)
      /\ UNCHANGED <<polar, e, log, subscriptions>>
      /\ pc' = [pc EXCEPT ![d] = "synced"]
  BY Parts DEF IInv, CalmInv, SyncTier, Go
<1>2. e[d] \in Issued /\ event[e[d]] \in Payload /\ event[e[d]].user # NoUser
  BY <1>1, AtWork DEF IInv, PhaseInv
<1>3. PICK u \in Users : u = event[e[d]].user
  BY <1>2, SubscribedUser
<1>4. /\ available /\ e[d] \notin acked /\ log[e[d]].stored
      /\ subscriptions[u] = event[e[d]] /\ pc'[d] = "synced"
  BY <1>1, <1>3 DEF CalmPhase, DeliveryTypes
<1>5. /\ applied.missed \subseteq applied'.missed
      /\ \A w \in Users : w # u => billing_tier'[w] = billing_tier[w]
      /\ billing_tier'[u] = event[e[d]].tier \/ e[d] \in applied'.missed
  BY <1>1, <1>3 DEF WriteTier, RowTypes, HistoryTypes
<1>6. TablesAgree(u)'
  BY <1>1, <1>4, <1>5 DEF TablesAgree, polar
<1>7. CalmPhase(d)'
  BY <1>1, <1>3, <1>4, <1>6 DEF CalmPhase, polar, TablesAgree
<1>8. ASSUME NEW w \in Users
      PROVE  TablesAgree(w)' \/ \E i \in Issued' \ acked' : event'[i].user = w
  <2>1. Issued' = Issued /\ event' = event /\ acked' = acked
    BY <1>1 DEF polar, Issued
  <2>2. CASE w = u
    BY <1>6, <2>2
  <2>3. CASE w # u
    BY <1>1, <1>5, <2>1, <2>3, AgreeKept DEF Pending
  <2> QED
    BY <2>2, <2>3
<1>9. Pending'
  BY <1>8 DEF Pending
<1> QED
  BY <1>1, <1>7, <1>9, GoCalm

\* A delivery ends, and if Polar hears of it there is no more to do.
LEMMA ReplyCalm ==
    ASSUME IInv, CalmInv, calm, NEW d \in Deliveries, pc[d] # "idle", Reply(d),
           available' = available,
           \A i \in EventIds : log[i].processed => log'[i].processed,
           event[e[d]].user # NoUser =>
             log'[e[d]].processed /\ TablesAgree(event[e[d]].user)
    PROVE  CalmInv'
<1>1. /\ PolarTypes /\ DeliveryTypes /\ HistoryTypes
      /\ Single /\ AckedDone /\ Pending
      /\ pc' = [pc EXCEPT ![d] = "idle"]
      /\ UNCHANGED <<event, subscriptions, billing_tier, applied>>
      /\ acked' \subseteq acked \cup {e[d]}
  BY Parts DEF IInv, CalmInv, Reply, Done
<1>2. pc'[d] = "idle" /\ Issued' = Issued
  BY <1>1 DEF DeliveryTypes, Issued
<1>3. CalmPhase(d)'
  BY <1>2 DEF CalmPhase
<1>4. Single' /\ \A other \in Deliveries : CalmPhase(other)'
  BY <1>1, <1>3, OneAtWork
<1>5. acked \subseteq EventIds
  BY <1>1, IssuedIds DEF PolarTypes
<1>6. AckedDone'
  BY <1>1, <1>5 DEF AckedDone
<1>7. ASSUME NEW u \in Users
      PROVE  TablesAgree(u)' \/ \E i \in Issued' \ acked' : event'[i].user = u
  <2>1. CASE TablesAgree(u)
    BY <1>1, <2>1, AgreeKept
  <2>2. CASE \E i \in Issued \ acked : event[i].user = u
    <3>1. PICK i \in Issued \ acked : event[i].user = u
      BY <2>2
    <3>2. CASE i = e[d]
      <4>1. event[e[d]].user = u /\ u # NoUser
        BY <3>1, <3>2, Bounds
      <4>2. TablesAgree(u)
        BY <4>1
      <4> QED
        BY <1>1, <4>2, AgreeKept
    <3>3. CASE i # e[d]
      BY <1>1, <1>2, <3>1, <3>3
    <3> QED
      BY <3>2, <3>3
  <2> QED
    BY <1>1, <2>1, <2>2 DEF Pending
<1>8. Pending'
  BY <1>7 DEF Pending
<1> QED
  BY <1>4, <1>6, <1>8 DEF CalmInv

LEMMA StepCalm ==
    ASSUME IInv, CalmInv, NEW d \in Deliveries, Step(d)
    PROVE  CalmInv'
<1>1. SUFFICES ASSUME calm' PROVE CalmInv'
  BY DEF CalmInv
<1>2. calm /\ available' = available /\ CalmPhase(d) /\ LogTypes
  BY <1>1, Parts DEF Step, CalmInv, IInv
<1>3. CASE Persist(d)
  BY <1>2, <1>3, PersistCalm
<1>4. CASE UpsertSubscription(d)
  BY <1>2, <1>4, UpsertCalm
<1>5. CASE SyncTier(d)
  BY <1>2, <1>5, SyncCalm
<1>6. CASE MarkProcessed(d)
  <2>1. pc[d] = "synced" /\ MarkLog(d) /\ Reply(d)
    BY <1>6 DEF MarkProcessed
  <2>2. e[d] \in EventIds /\ log[e[d]].stored /\ TablesAgree(event[e[d]].user)
    BY <1>2, <2>1, Parts, AtWork DEF IInv, CalmPhase
  <2>3. /\ log'[e[d]].processed
        /\ \A i \in EventIds : log[i].processed => log'[i].processed
    BY <1>2, <2>1, <2>2 DEF MarkLog, Marked, LogTypes, LogRow
  <2> QED
    BY <1>2, <2>1, <2>2, <2>3, ReplyCalm
<1>7. CASE StoreError(d)
  BY <1>2, <1>7 DEF StoreError, CalmPhase
<1>8. CASE Ignore(d)
  <2>1. pc[d] = "ignored" /\ Reply(d) /\ log' = log
    BY <1>8 DEF Ignore
  <2>2. event[e[d]].user = NoUser
    BY <1>2, <2>1 DEF CalmPhase
  <2> QED
    BY <1>2, <2>1, <2>2, ReplyCalm
<1>9. CASE Unavailable(d)
  BY <1>2, <1>9 DEF Unavailable, CalmPhase
<1> QED
  BY <1>3, <1>4, <1>5, <1>6, <1>7, <1>8, <1>9 DEF Step

LEMMA IssueCalm ==
    ASSUME IInv, CalmInv, NEW payload \in Payload, Issue(payload)
    PROVE  CalmInv'
<1>1. SUFFICES ASSUME calm' PROVE CalmInv'
  BY DEF CalmInv
<1>2. /\ PolarTypes /\ DeliveryTypes /\ HistoryTypes
      /\ calm /\ Single /\ AckedDone /\ Pending
      /\ \A d \in Deliveries : CalmPhase(d)
      /\ event' = Append(event, payload)
      /\ UNCHANGED <<acked, tables, delivery, available, applied>>
  BY <1>1, Parts DEF IInv, CalmInv, Issue
<1>3. Issued = 1..Len(event) /\ Len(event) \in Nat /\ event \in Seq(Payload)
  BY <1>2, IssuedIds DEF PolarTypes
<1>4. Issued \subseteq Issued' /\ \A i \in Issued : event'[i] = event[i]
  BY <1>2, <1>3 DEF Issued
<1>5. acked \subseteq Issued
  BY <1>2 DEF PolarTypes
<1>6. Single' /\ AckedDone'
  BY <1>2, <1>4, <1>5 DEF Single, AckedDone, tables, delivery
<1>7. \A u \in Users : TablesAgree(u) => TablesAgree(u)'
  BY <1>2, <1>4, AgreeKept DEF tables
<1>8. Pending'
  BY <1>2, <1>4, <1>7 DEF Pending
<1>9. ASSUME NEW d \in Deliveries
      PROVE  CalmPhase(d)'
  <2>1. /\ CalmPhase(d) /\ pc'[d] = pc[d] /\ e'[d] = e[d] /\ available' = available
        /\ log' = log /\ subscriptions' = subscriptions /\ acked' = acked
    BY <1>2 DEF tables, delivery
  <2>2. CASE pc[d] = "idle"
    BY <2>1, <2>2 DEF CalmPhase
  <2>3. CASE pc[d] # "idle"
    <3>1. e[d] \in Issued /\ event[e[d]] \in Payload /\ event'[e[d]] = event[e[d]]
      BY <1>2, <1>4, <2>3, AtWork
    <3>2. pc[d] = "synced" => TablesAgree(event[e[d]].user)'
      <4>1. SUFFICES ASSUME pc[d] = "synced" PROVE TablesAgree(event[e[d]].user)'
        OBVIOUS
      <4>2. TablesAgree(event[e[d]].user) /\ applied.missed \subseteq Issued
        BY <1>2, <2>1, <4>1 DEF CalmPhase, HistoryTypes
      <4> QED
        BY <1>2, <1>4, <2>1, <3>1, <4>2 DEF TablesAgree, tables, delivery
    <3> QED
      BY <2>1, <3>1, <3>2 DEF CalmPhase, TablesAgree
  <2> QED
    BY <2>2, <2>3
<1> QED
  BY <1>6, <1>8, <1>9 DEF CalmInv

LEMMA DeliverCalm ==
    ASSUME IInv, CalmInv, NEW d \in Deliveries, NEW i \in Issued, Deliver(d, i)
    PROVE  CalmInv'
<1>1. SUFFICES ASSUME calm' PROVE CalmInv'
  BY DEF CalmInv
<1>2. /\ DeliveryTypes /\ calm /\ available /\ i \notin acked
      /\ \A other \in Deliveries : pc[other] = "idle"
      /\ pc' = [pc EXCEPT ![d] = "received"] /\ e' = [e EXCEPT ![d] = i]
      /\ UNCHANGED <<polar, tables, available, applied>>
  BY <1>1, Parts DEF IInv, Deliver
<1>3. /\ pc'[d] = "received" /\ e'[d] = i
      /\ \A other \in Deliveries : other # d => pc'[other] = "idle"
  BY <1>2 DEF DeliveryTypes
<1>4. Single' /\ \A other \in Deliveries : CalmPhase(other)'
  BY <1>2, <1>3 DEF Single, CalmPhase, polar
<1>5. AckedDone' /\ Pending'
  BY <1>2 DEF CalmInv, AckedDone, Pending, TablesAgree, Issued, polar, tables
<1> QED
  BY <1>4, <1>5 DEF CalmInv

\* A new quota row: tables that agreed then did so for an event that missed it.
LEMMA ProvisionCalm ==
    ASSUME IInv, CalmInv, NEW u \in Users, Provision(u)
    PROVE  CalmInv'
<1>1. SUFFICES ASSUME calm' PROVE CalmInv'
  BY DEF CalmInv
<1>2. /\ DeliveryTypes /\ RowTypes /\ PolarTypes
      /\ calm /\ Single /\ AckedDone /\ Pending
      /\ \A d \in Deliveries : CalmPhase(d)
      /\ billing_tier[u] = NoRow /\ billing_tier' = [billing_tier EXCEPT ![u] = FreeTier]
      /\ UNCHANGED <<event, acked, log, subscriptions, pc, e, available, applied>>
  BY <1>1, Parts DEF IInv, CalmInv, Provision, polar, delivery
<1>3. ASSUME NEW w \in Users, TablesAgree(w)
      PROVE  TablesAgree(w)'
  <2>1. CASE w # u
    BY <1>2, <1>3, <2>1 DEF TablesAgree, RowTypes
  <2>2. CASE w = u
    <3>1. subscriptions[u] # NoSubscription => subscriptions[u].tier # NoRow
      BY <1>2, Bounds DEF RowTypes, Subscribed
    <3> QED
      BY <1>2, <1>3, <2>2, <3>1 DEF TablesAgree
  <2> QED
    BY <2>1, <2>2
<1>4. Single' /\ AckedDone' /\ Pending'
  BY <1>2, <1>3 DEF Single, AckedDone, Pending, Issued
<1>5. ASSUME NEW d \in Deliveries
      PROVE  CalmPhase(d)'
  <2>1. CalmPhase(d) /\ pc[d] # "failed"
    BY <1>2 DEF CalmPhase
  <2>2. pc[d] = "synced" => TablesAgree(event[e[d]].user)'
    <3>1. SUFFICES ASSUME pc[d] = "synced" PROVE TablesAgree(event[e[d]].user)'
      OBVIOUS
    <3>2. TablesAgree(event[e[d]].user) /\ subscriptions[event[e[d]].user] = event[e[d]]
      BY <2>1, <3>1 DEF CalmPhase
    <3>3. event[e[d]] \in Payload
      BY <1>2, <3>1, AtWork
    <3>4. CASE event[e[d]].user \in Users
      BY <1>2, <1>3, <3>2, <3>4 DEF TablesAgree
    <3>5. CASE event[e[d]].user \notin Users
      <4>1. billing_tier'[event[e[d]].user] = billing_tier[event[e[d]].user]
        BY <1>2, <3>5 DEF RowTypes
      <4> QED
        BY <1>2, <3>2, <4>1 DEF TablesAgree
    <3> QED
      BY <3>4, <3>5
  <2> QED
    BY <1>2, <2>1, <2>2 DEF CalmPhase, TablesAgree
<1> QED
  BY <1>4, <1>5 DEF CalmInv

LEMMA CrashCalm ==
    ASSUME IInv, CalmInv, Crash
    PROVE  CalmInv'
BY DEF Crash, CalmInv, Single, CalmPhase, AckedDone, Pending, TablesAgree, Issued,
       polar, tables

LEMMA NextCalm == IInv /\ CalmInv /\ [Next]_vars => CalmInv'
<1> SUFFICES ASSUME IInv, CalmInv, [Next]_vars PROVE CalmInv'
  OBVIOUS
<1>1. CASE UNCHANGED vars
  BY <1>1 DEF vars, polar, tables, delivery, CalmInv, Single, CalmPhase, AckedDone,
              Pending, TablesAgree, Issued
<1>2. ASSUME NEW d \in Deliveries, StatementFails(d)
      PROVE  CalmInv'
  BY <1>2 DEF StatementFails, CalmInv
<1> QED
  BY <1>1, <1>2, IssueCalm, DeliverCalm, ProvisionCalm, StepCalm, CrashCalm DEF Next

LEMMA CalmSettles ==
    ASSUME IInv, CalmInv
    PROVE  AcknowledgedIsSettled
<1> SUFFICES ASSUME calm PROVE AcknowledgedIsSettled
  BY DEF AcknowledgedIsSettled
<1>1. PolarTypes /\ AckedDone /\ Pending
  BY Parts DEF IInv, CalmInv
<1>2. ASSUME NEW i \in acked, event[i] # Other
      PROVE  log[i].processed
  <2>1. event[i] \in Payload
    BY <1>1, IssuedIds DEF PolarTypes
  <2>2. event[i].user # NoUser
    BY <1>2, <2>1, Bounds DEF Payload, Subscribed
  <2> QED
    BY <1>1, <2>2 DEF AckedDone
<1>3. ASSUME NEW u \in Users, \A i \in Issued : event[i].user = u => i \in acked
      PROVE  TablesAgree(u)
  BY <1>1, <1>3 DEF Pending
<1> QED
  BY <1>2, <1>3 DEF AcknowledgedIsSettled

\* What Polar will not deliver again is done, through any number of crashes
\* and lost replies, for any number of users and events.
THEOREM AcknowledgedSettled == Spec => []AcknowledgedIsSettled
<1>1. IInv /\ CalmInv => AcknowledgedIsSettled
  BY CalmSettles
<1> QED
  BY <1>1, InitCalm, NextCalm, Invariance, PTL DEF Spec
=============================================================================
