--------------------------- MODULE AnomalyDetector ---------------------------
(***************************************************************************)
(* The background evaluations of one workspace, started after each allowed *)
(* request, and the anomalies they store                                   *)
(* (backend/app/services/anomaly_detector.py).                             *)
(*                                                                         *)
(* What an evaluation finds is the subject of module SpendSignals; here it *)
(* finds any of the given sets.  For each finding it first looks for an    *)
(* open anomaly of the same type in the last 24 hours and then, after      *)
(* another await, inserts its own.  Nothing keeps two evaluations apart.   *)
(***************************************************************************)
EXTENDS Integers, Sequences, FiniteSets

CONSTANTS
    Tasks,      \* slots for concurrent evaluations
    Findings,   \* the sets of types an evaluation may find
    Window,     \* 24 hours, in clock ticks
    MaxTime,    \* bound on the clock
    MaxRows     \* bound on the rows

ASSUME DetectorAssumption ==
    /\ IsFiniteSet(Tasks) /\ Tasks # {}
    /\ Window \in Nat /\ MaxTime \in Nat /\ MaxRows \in Nat

VARIABLES
    now,
    rows,          \* spending_anomalies, in the order of insertion
    phase,            \* "idle", "checking" or "inserting" the first of the queue
    anomalies,     \* what an evaluation has still to store
    detected_at    \* the time an evaluation is about to store

detectorVars == <<now, rows, phase, anomalies, detected_at>>

AnomalyTypes == <<"spend_spike", "budget_trajectory", "rapid_acceleration">>
Types == {AnomalyTypes[i] : i \in DOMAIN AnomalyTypes}

ASSUME FindingsAssumption == Findings \subseteq SUBSET Types

DetectorInit ==
    /\ now = 0
    /\ rows = << >>
    /\ phase = [t \in Tasks |-> "idle"]
    /\ anomalies = [t \in Tasks |-> << >>]
    /\ detected_at = [t \in Tasks |-> 0]

-----------------------------------------------------------------------------
\* _detect_anomalies: in the order the list is built.
Evaluate(t, found) ==
    /\ phase[t] = "idle"
    /\ found # {}
    /\ phase' = [phase EXCEPT ![t] = "checking"]
    /\ anomalies' = [anomalies EXCEPT
                       ![t] = SelectSeq(AnomalyTypes, LAMBDA k : k \in found)]
    /\ UNCHANGED <<now, rows, detected_at>>

\* Seeded fault: only anomalies older than the window count.
Recent_inverted(row) == row.detected_at < now - Window

Recent(row) == row.detected_at >= now - Window

\* An open anomaly of this type, detected in the last 24 hours.
Existing(k) ==
    \E i \in DOMAIN rows :
      rows[i].type = k /\ ~rows[i].resolved /\ Recent(rows[i])

\* On to the next finding; the task ends with the last.
Advance(t) ==
    /\ anomalies' = [anomalies EXCEPT ![t] = Tail(@)]
    /\ phase' = [phase EXCEPT ![t] = IF Len(anomalies[t]) = 1 THEN "idle" ELSE "checking"]

Skip(t) ==
    /\ phase[t] = "checking"
    /\ Existing(Head(anomalies[t]))
    /\ Advance(t)
    /\ UNCHANGED <<now, rows, detected_at>>

FindNone(t) ==
    /\ phase[t] = "checking"
    /\ ~Existing(Head(anomalies[t]))
    /\ phase' = [phase EXCEPT ![t] = "inserting"]
    /\ detected_at' = [detected_at EXCEPT ![t] = now]
    /\ UNCHANGED <<now, rows, anomalies>>

InsertRow(t) ==
    /\ Len(rows) < MaxRows
    /\ rows' = Append(rows, [type |-> Head(anomalies[t]),
                            detected_at |-> detected_at[t],
                            resolved |-> FALSE])

Insert(t) ==
    /\ phase[t] = "inserting"
    /\ InsertRow(t)
    /\ Advance(t)
    /\ UNCHANGED <<now, detected_at>>

\* A statement raises or times out, an insert possibly after it took effect;
\* or the process dies.  The findings left in the list are lost.
Abandon(t) ==
    /\ phase[t] # "idle"
    /\ \/ phase[t] = "inserting" /\ InsertRow(t)
       \/ UNCHANGED rows
    /\ phase' = [phase EXCEPT ![t] = "idle"]
    /\ anomalies' = [anomalies EXCEPT ![t] = << >>]
    /\ UNCHANGED <<now, detected_at>>

\* An administrator closes an anomaly.
resolve_anomaly(i) ==
    /\ ~rows[i].resolved
    /\ rows' = [rows EXCEPT ![i].resolved = TRUE]
    /\ UNCHANGED <<now, phase, anomalies, detected_at>>

Tick ==
    /\ now < MaxTime
    /\ now' = now + 1
    /\ UNCHANGED <<rows, phase, anomalies, detected_at>>

DetectorNext ==
    \/ \E t \in Tasks :
         \/ \E found \in Findings : Evaluate(t, found)
         \/ Skip(t) \/ FindNone(t) \/ Insert(t) \/ Abandon(t)
    \/ \E i \in DOMAIN rows : resolve_anomaly(i)
    \/ Tick

DetectorSpec == DetectorInit /\ [][DetectorNext]_detectorVars

-----------------------------------------------------------------------------
(* Properties                                                              *)

\* The rows that were, or are about to be, detected within 24 hours of row i,
\* of its type and open.
OpenSince(i) ==
    {j \in DOMAIN rows :
       /\ rows[j].type = rows[i].type /\ ~rows[j].resolved
       /\ rows[j].detected_at \in rows[i].detected_at .. rows[i].detected_at + Window}

\* However evaluations interleave, fail half way or insert late, 24 hours hold
\* at most one open anomaly of a type for each evaluation that ran at once.
BoundedDuplicates ==
    \A i \in DOMAIN rows :
      ~rows[i].resolved => Cardinality(OpenSince(i)) <= Cardinality(Tasks)
=============================================================================
