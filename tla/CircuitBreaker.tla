--------------------------- MODULE CircuitBreaker ---------------------------
(***************************************************************************)
(* The process-wide circuit breaker that both quota RPCs go through        *)
(* (backend/app/services/circuit_breaker.py).                              *)
(*                                                                         *)
(* asyncio runs the callers on one thread and a critical section of the    *)
(* breaker contains no await, so each critical section, and everything up  *)
(* to the next suspension, is one step.  The only suspension inside call() *)
(* is "await fn": a caller is admitted in one step and its outcome is      *)
(* recorded in a later one, after any number of steps of other callers.    *)
(*                                                                         *)
(* The lifetime counters and last_failure_at, which only snapshot() reads, *)
(* are left out.                                                           *)
(***************************************************************************)
EXTENDS Integers

CONSTANTS
    Callers,           \* concurrent request handlers of one process
    FailureThreshold,  \* CircuitBreakerConfig.failure_threshold
    RecoveryTimeout,   \* CircuitBreakerConfig.recovery_timeout, in clock ticks
    HalfOpenMax        \* CircuitBreakerConfig.half_open_max_attempts

ASSUME ThresholdsArePositive ==
    /\ FailureThreshold \in Nat \ {0}
    /\ RecoveryTimeout \in Nat \ {0}
    /\ HalfOpenMax \in Nat \ {0}

VARIABLES
    state,                \* "closed" | "open" | "half_open"
    failure_count,
    half_open_successes,
    opened_at,            \* time since the breaker opened, None if unset
    call,                 \* call[c]: "idle", or "awaiting" the wrapped RPC
    answer,               \* how the latest call to end was answered
    healthy,              \* can the database answer?
    exposed               \* callers in flight at a moment it could not

breakerVars == <<state, failure_count, half_open_successes, opened_at>>
callVars == <<call, answer>>
backendVars == <<healthy, exposed>>
vars == <<breakerVars, callVars, backendVars>>

States == {"closed", "open", "half_open"}
Answers == {"none", "result", "fallback", "raised", "cancelled"}

\* opened_at is None: the breaker has no opening on record.
None == -1

(***************************************************************************)
(* time.monotonic() - opened_at is only ever compared with the recovery    *)
(* timeout, so the elapsed time is kept, and stops there.                  *)
(***************************************************************************)
Init ==
    /\ state = "closed"
    /\ failure_count = 0
    /\ half_open_successes = 0
    /\ opened_at = None
    /\ call = [c \in Callers |-> "idle"]
    /\ answer = "none"
    /\ healthy \in BOOLEAN
    /\ exposed = {}

-----------------------------------------------------------------------------
(* _resolve_state: OPEN becomes HALF_OPEN once the recovery window is over. *)

\* Seeded fault: the test for the recovery window can never be met.
RecoveryElapsed_never ==
    state = "open" /\ opened_at # None /\ opened_at > RecoveryTimeout

RecoveryElapsed ==
    state = "open" /\ opened_at # None /\ opened_at >= RecoveryTimeout

ResolvedState == IF RecoveryElapsed THEN "half_open" ELSE state

(* call(), up to the await: an OPEN breaker answers with the fallback at    *)
(* once, otherwise the RPC is started.                                     *)
Begin(c) ==
    /\ call[c] = "idle"
    /\ state' = ResolvedState
    /\ IF RecoveryElapsed
         THEN failure_count' = 0 /\ half_open_successes' = 0
         ELSE UNCHANGED <<failure_count, half_open_successes>>
    /\ \/ /\ ResolvedState = "open"
          /\ answer' = "fallback"
          /\ UNCHANGED <<call, exposed>>
       \/ /\ ResolvedState # "open"
          /\ call' = [call EXCEPT ![c] = "awaiting"]
          /\ exposed' = IF healthy THEN exposed ELSE exposed \cup {c}
          /\ UNCHANGED answer
    /\ UNCHANGED <<opened_at, healthy>>

-----------------------------------------------------------------------------
(* _on_success_unsafe and _on_failure_unsafe: the state that counts is the *)
(* one found when the result is recorded, not the one at admission.        *)

Trip ==
    /\ state' = "open"
    /\ opened_at' = 0
    /\ UNCHANGED half_open_successes

\* Seeded fault: a close leaves the opening time of the last trip behind.
Close_keepsOpening ==
    /\ state' = "closed"
    /\ failure_count' = 0
    /\ UNCHANGED opened_at

Close ==
    /\ state' = "closed"
    /\ failure_count' = 0
    /\ opened_at' = None

\* Seeded fault: a late result sets the recovery window back to its start.
RecordedWhileOpen_restarts ==
    /\ opened_at' = 0
    /\ UNCHANGED <<state, failure_count, half_open_successes>>

\* Neither function has a branch for OPEN: a late result changes nothing.
RecordedWhileOpen == UNCHANGED breakerVars

OnSuccess ==
    \/ /\ state = "half_open"
       /\ half_open_successes' = half_open_successes + 1
       /\ IF half_open_successes' >= HalfOpenMax
            THEN Close
            ELSE UNCHANGED <<state, failure_count, opened_at>>
    \/ /\ state = "closed"
       /\ failure_count' = 0
       /\ UNCHANGED <<state, half_open_successes, opened_at>>
    \/ state = "open" /\ RecordedWhileOpen

\* Seeded fault: the breaker trips one failure late.
ReachesThreshold_late(n) == n > FailureThreshold

ReachesThreshold(n) == n >= FailureThreshold

OnFailure ==
    \/ state = "half_open" /\ Trip /\ UNCHANGED failure_count
    \/ /\ state = "closed"
       /\ failure_count' = failure_count + 1
       /\ IF ReachesThreshold(failure_count')
            THEN Trip
            ELSE UNCHANGED <<state, opened_at, half_open_successes>>
    \/ state = "open" /\ RecordedWhileOpen

-----------------------------------------------------------------------------
(* call(), after the await.                                                *)

Finish(c, ans) ==
    /\ call[c] = "awaiting"
    /\ call' = [call EXCEPT ![c] = "idle"]
    /\ answer' = ans
    /\ exposed' = exposed \ {c}
    /\ UNCHANGED healthy

Succeed(c) ==
    /\ OnSuccess
    /\ Finish(c, "result")

\* A failure that leaves the breaker OPEN, whoever opened it, is answered by
\* the fallback; any other is re-raised to the handler.
FailureAnswer == IF state' = "open" THEN "fallback" ELSE "raised"

\* The RPC raises: an error or a timeout.  It needs a database that was down
\* at some moment of the call.
Fail(c) ==
    /\ ~healthy \/ c \in exposed
    /\ OnFailure
    /\ Finish(c, FailureAnswer)

\* CancelledError is not an Exception: neither branch of the try records it.
Cancel(c) ==
    /\ UNCHANGED breakerVars
    /\ Finish(c, "cancelled")

-----------------------------------------------------------------------------
Tick ==
    /\ opened_at # None
    /\ opened_at < RecoveryTimeout
    /\ opened_at' = opened_at + 1
    /\ UNCHANGED <<state, failure_count, half_open_successes,
                   callVars, backendVars>>

BackendDown ==
    /\ healthy
    /\ healthy' = FALSE
    /\ exposed' = {c \in Callers : call[c] = "awaiting"}
    /\ UNCHANGED <<breakerVars, callVars>>

BackendUp ==
    /\ ~healthy
    /\ healthy' = TRUE
    /\ UNCHANGED <<breakerVars, callVars, exposed>>

Next ==
    \/ \E c \in Callers : Begin(c) \/ Succeed(c) \/ Fail(c) \/ Cancel(c)
    \/ Tick
    \/ BackendDown
    \/ BackendUp

Spec == Init /\ [][Next]_vars

(***************************************************************************)
(* The clock advances; requests keep arriving; an awaited RPC ends, because *)
(* asyncio.wait_for bounds it; and clients do not cancel every call.       *)
(***************************************************************************)
FairSpec ==
    /\ Spec
    /\ WF_vars(Tick)
    /\ WF_vars(\E c \in Callers : Begin(c))
    /\ \A c \in Callers : WF_vars(Succeed(c) \/ Fail(c) \/ Cancel(c))
    /\ SF_vars(\E c \in Callers : Succeed(c))

-----------------------------------------------------------------------------
(* Properties                                                              *)

\* The variables keep their types, and the elapsed time stays in its range.
TypeOK ==
    /\ state \in States
    /\ failure_count \in 0..FailureThreshold
    /\ half_open_successes \in 0..HalfOpenMax
    /\ opened_at \in {None} \cup 0..RecoveryTimeout
    /\ call \in [Callers -> {"idle", "awaiting"}]
    /\ answer \in Answers
    /\ healthy \in BOOLEAN
    /\ exposed \in SUBSET Callers

\* The opening time and the counters always fit the state: _resolve_state
\* can leave OPEN only if opened_at is set, a CLOSED breaker carries no
\* opening into its next trip, and a counter that reached its limit has
\* already changed the state, however the results of calls admitted under
\* different states interleave.
Consistent ==
    /\ state = "closed" => opened_at = None /\ failure_count < FailureThreshold
    /\ state = "open" => opened_at # None
    /\ state = "half_open" => /\ opened_at = RecoveryTimeout
                              /\ half_open_successes < HalfOpenMax

\* The breaker leaves OPEN only for HALF_OPEN, and only when the whole
\* recovery window has passed since the failure that opened it; no late
\* result of an earlier call shortens the window, or stretches it by setting
\* it back.
CoolsDown ==
    [][state = "open" => /\ state' # "closed"
                         /\ state' = "half_open" => opened_at = RecoveryTimeout
                         /\ opened_at' >= opened_at]_vars

\* An outage that ends is forgotten: once the database stays up and late
\* failures of the outage are gone, the breaker ends up CLOSED for good.
Heals == <>[]healthy => <>[](state = "closed")
=============================================================================
