---------------------------- MODULE GatewayProofs ----------------------------
(***************************************************************************)
(* For any number of handlers and users, and any timeouts: the breaker is  *)
(* consistent and cools down, it notices the outages the handlers see and  *)
(* no others, and nobody stays in the cache of blocked users for an old    *)
(* reason.                                                                 *)
(***************************************************************************)
EXTENDS Gateway, TLAPS

-----------------------------------------------------------------------------
(* The breaker by itself: for any number of callers, any thresholds and    *)
(* any recovery window.                                                    *)

\* The inductive invariant: in HALF_OPEN the elapsed time stays at the end
\* of the window, which Tick needs in order not to move it.
BreakerInv == TypeOK /\ Consistent

LEMMA InitBreakerInv == Init => BreakerInv
BY ThresholdsArePositive DEF Init, BreakerInv, TypeOK, Consistent, States,
                              Answers, None

\* Recording a result keeps the four variables of the breaker in order.
LEMMA RecordKeeps ==
    ASSUME BreakerInv, OnSuccess \/ OnFailure
    PROVE  /\ state' \in States
           /\ failure_count' \in 0..FailureThreshold
           /\ half_open_successes' \in 0..HalfOpenMax
           /\ opened_at' \in {None} \cup 0..RecoveryTimeout
           /\ Consistent'
<1> USE ThresholdsArePositive
        DEF BreakerInv, TypeOK, Consistent, States, None,
            Close, Trip, RecordedWhileOpen,
            breakerVars, ReachesThreshold
<1>1. CASE OnSuccess
  BY <1>1 DEF OnSuccess
<1>2. CASE OnFailure
  BY <1>2 DEF OnFailure
<1> QED
  BY <1>1, <1>2

LEMMA FinishKeeps ==
    ASSUME BreakerInv, NEW c \in Callers, NEW ans \in Answers,
           Finish(c, ans)
    PROVE  /\ call' \in [Callers -> {"idle", "awaiting"}]
           /\ answer' \in Answers
           /\ healthy' \in BOOLEAN
           /\ exposed' \in SUBSET Callers
BY DEF BreakerInv, TypeOK, Finish

LEMMA StepBreakerInv == BreakerInv /\ [Next]_vars => BreakerInv'
<1> SUFFICES ASSUME BreakerInv, [Next]_vars
             PROVE  BreakerInv'
  OBVIOUS
<1> USE ThresholdsArePositive
<1>1. ASSUME NEW c \in Callers, Begin(c)
      PROVE  BreakerInv'
  <2> USE DEF BreakerInv, TypeOK, Consistent, States,
              Answers, None
  <2>1. /\ state' \in States
        /\ failure_count' \in 0..FailureThreshold
        /\ half_open_successes' \in 0..HalfOpenMax
        /\ opened_at' \in {None} \cup 0..RecoveryTimeout
        /\ healthy' \in BOOLEAN
        /\ Consistent'
    BY <1>1 DEF Begin, ResolvedState, RecoveryElapsed
  <2>2. /\ call' \in [Callers -> {"idle", "awaiting"}]
        /\ answer' \in Answers
        /\ exposed' \in SUBSET Callers
    <3>1. CASE ResolvedState = "open"
      BY <1>1, <3>1 DEF Begin
    <3>2. CASE ResolvedState # "open"
      BY <1>1, <3>2 DEF Begin
    <3> QED
      BY <3>1, <3>2
  <2> QED
    BY <2>1, <2>2
<1>2. ASSUME NEW c \in Callers, Succeed(c)
      PROVE  BreakerInv'
  <2>1. OnSuccess /\ Finish(c, "result") /\ "result" \in Answers
    BY <1>2 DEF Succeed, Answers
  <2> QED
    BY <2>1, RecordKeeps, FinishKeeps DEF BreakerInv, TypeOK
<1>3. ASSUME NEW c \in Callers, Fail(c)
      PROVE  BreakerInv'
  <2>1. OnFailure /\ Finish(c,
  FailureAnswer) /\ FailureAnswer \in Answers
    BY <1>3 DEF Fail, Answers, FailureAnswer
  <2> QED
    BY <2>1, RecordKeeps, FinishKeeps DEF BreakerInv, TypeOK
<1>4. ASSUME NEW c \in Callers, Cancel(c)
      PROVE  BreakerInv'
  <2>1. UNCHANGED breakerVars /\ Finish(c,
  "cancelled") /\ "cancelled" \in Answers
    BY <1>4 DEF Cancel, Answers
  <2> QED
    BY <2>1, FinishKeeps DEF BreakerInv, TypeOK, Consistent,
                             breakerVars
<1>5. CASE Tick
  BY <1>5 DEF Tick, BreakerInv, TypeOK, Consistent, None,
              callVars, backendVars
<1>6. CASE BackendDown
  BY <1>6 DEF BackendDown, BreakerInv, TypeOK, Consistent,
              breakerVars, callVars
<1>7. CASE BackendUp
  BY <1>7 DEF BackendUp, BreakerInv, TypeOK, Consistent,
              breakerVars, callVars
<1>8. CASE UNCHANGED vars
  BY <1>8 DEF vars, BreakerInv, TypeOK, Consistent,
              breakerVars, callVars,
     backendVars
<1> QED
  BY <1>1, <1>2, <1>3, <1>4, <1>5, <1>6, <1>7, <1>8 DEF Next

LEMMA BreakerInvariant == Spec => []BreakerInv
<1>1. BreakerInv /\ [Next]_vars => BreakerInv'
  BY StepBreakerInv
<1> QED
  BY InitBreakerInv, <1>1, PTL DEF Spec

\* Every behaviour of the breaker is well typed.
THEOREM BreakerTypeCorrect == Spec => []TypeOK
<1>1. BreakerInv => TypeOK
  BY DEF BreakerInv
<1> QED
  BY BreakerInvariant, <1>1, PTL

\* The opening time and the counters fit the state, whatever the order in
\* which calls admitted under different states report their results.
THEOREM BreakerConsistent == Spec => []Consistent
<1>1. BreakerInv => Consistent
  BY DEF BreakerInv
<1> QED
  BY BreakerInvariant, <1>1, PTL

\* OPEN lasts for the whole recovery window and ends in HALF_OPEN.
THEOREM BreakerCoolsDown == Spec => CoolsDown
<1> DEFINE A == state = "open" => /\ state' # "closed"
                                  /\ state' = "half_open" => opened_at = RecoveryTimeout
                                  /\ opened_at' >= opened_at
<1>1. BreakerInv /\ [Next]_vars => [A]_vars
  <2> SUFFICES ASSUME BreakerInv, Next, state = "open"
               PROVE  A
    OBVIOUS
  <2> USE ThresholdsArePositive DEF BreakerInv, TypeOK, None
  <2>1. ASSUME NEW c \in Callers, Begin(c)
        PROVE  A
    BY <2>1 DEF Begin, ResolvedState, RecoveryElapsed
  <2>2. ASSUME OnSuccess \/ OnFailure
        PROVE  A
    BY <2>2 DEF OnSuccess, OnFailure, RecordedWhileOpen,
                breakerVars
  <2>3. ASSUME UNCHANGED breakerVars
        PROVE  A
    BY <2>3 DEF breakerVars
  <2>4. CASE Tick
    BY <2>4 DEF Tick
  <2> QED
    BY <2>1, <2>2, <2>3, <2>4 DEF Next, Succeed, Fail,
                                  Cancel, BackendDown,
       BackendUp
<1> QED
  BY BreakerInvariant, <1>1, PTL DEF Spec, CoolsDown

-----------------------------------------------------------------------------
(* Every step of the gateway is a step of the breaker, or a stutter.       *)

LEMMA PassImplements ==
    ASSUME Pass
    PROVE  Tick \/ UNCHANGED vars
<1>1. CASE opened_at \in 0..RecoveryTimeout - 1
  <2>1. opened_at # -1 /\ opened_at < RecoveryTimeout /\ opened_at' = opened_at + 1
    BY <1>1, GatewayAssumption, ThresholdsArePositive DEF Pass
  <2> QED
    BY <2>1 DEF Pass, Tick, None, callVars, backendVars
<1>2. CASE opened_at \notin 0..RecoveryTimeout - 1
  BY <1>2 DEF Pass, vars, breakerVars, callVars, backendVars
<1> QED
  BY <1>1, <1>2

LEMMA StepImplements == [GatewayNext]_gatewayVars => [Next]_vars
<1> SUFFICES ASSUME [GatewayNext]_gatewayVars
             PROVE  Next \/ UNCHANGED vars
  BY DEF gatewayVars, vars, breakerVars, callVars, backendVars
<1>1. ASSUME NEW c \in Callers, NEW u \in Users, Reject(c, u) \/ Admit(c, u)
      PROVE  Next \/ UNCHANGED vars
  BY <1>1 DEF Reject, Admit, Next
<1>2. ASSUME NEW c \in Callers, Decide(c)
      PROVE  UNCHANGED vars
  BY <1>2 DEF Decide
<1>3. ASSUME NEW c \in Callers, Answered(c) \/ Failed(c) \/ Cancelled(c)
      PROVE  Next
  BY <1>3 DEF Answered, Failed, Failure, Cancelled, Next
<1>4. CASE Pass
  BY <1>4, PassImplements DEF Next
<1>5. CASE DatabaseDown \/ DatabaseUp
  BY <1>5 DEF DatabaseDown, DatabaseUp, Next
<1>6. ASSUME NEW u \in Users, ChangeStanding(u) \/ Evict(u)
      PROVE  UNCHANGED vars
  BY <1>6 DEF ChangeStanding, Evict
<1>7. CASE UNCHANGED gatewayVars
  BY <1>7 DEF gatewayVars
<1> QED
  BY <1>1, <1>2, <1>3, <1>4, <1>5, <1>6, <1>7 DEF GatewayNext, Arrive, End

-----------------------------------------------------------------------------
(* Why a block is recent: the age of every reason, from the moment it      *)
(* arises to the moment it reaches the cache.                              *)

\* The types the argument needs.
Shape ==
    /\ state \in {"closed", "open", "half_open"}
    /\ call \in [Callers -> {"idle", "awaiting"}]
    /\ request \in [Callers -> RequestType \cup {NoRequest}]
    /\ \A c \in Callers : call[c] = "awaiting" => request[c] \in RequestType
    /\ blocked \in [Users -> 0..NegativeTTL]
    /\ bad \in [Users -> 0..Horizon]
    /\ down \in 0..Horizon
    /\ healthy \in BOOLEAN
    /\ standing \in [Users -> BOOLEAN]
    /\ opened_at \in {-1} \cup 0..RecoveryTimeout
    /\ exposed \subseteq Callers

\* A user out of standing is so now; a denial is no older than its call.
DenialInv ==
    /\ \A u \in Users : ~standing[u] => bad[u] = 0
    /\ \A c \in Callers :
         call[c] = "awaiting" /\ request[c].verdict = "deny"
           => bad[request[c].user] <= request[c].age

\* A call can fail for an outage no older than itself; a breaker that cools
\* down is open for an outage no older than the call that tripped it and the
\* time since.
OutageInv ==
    /\ ~healthy => down = 0
    /\ \A c \in exposed : call[c] = "awaiting"
    /\ \A c \in Callers :
         call[c] = "awaiting" /\ c \in exposed
           => ~healthy \/ down <= request[c].age
    /\ state = "open" => opened_at \in 0..RecoveryTimeout
    /\ state = "open" /\ opened_at < RecoveryTimeout
         => ~healthy \/ down <= opened_at + RpcTimeout

IInv == Shape /\ DenialInv /\ OutageInv /\ BlockIsRecent

LEMMA Bounds ==
    /\ NegativeTTL \in Nat /\ NegativeTTL > 0
    /\ RpcTimeout \in Nat /\ RecoveryTimeout \in Nat
    /\ Horizon \in Nat
    /\ Horizon > RecoveryTimeout + RpcTimeout + NegativeTTL
BY GatewayAssumption, ThresholdsArePositive DEF Horizon

LEMMA RequestFields ==
    ASSUME Shape, NEW c \in Callers, call[c] = "awaiting"
    PROVE  /\ request[c] \in RequestType
           /\ request[c].user \in Users
           /\ request[c].verdict \in {"pending", "allow", "deny"}
           /\ request[c].age \in 0..RpcTimeout
BY DEF Shape, RequestType

LEMMA InitIInv == GatewayInit => IInv
<1> SUFFICES ASSUME GatewayInit
             PROVE  IInv
  OBVIOUS
<1>1. /\ Horizon \in 0..Horizon /\ 0 \in 0..Horizon /\ 0 \in 0..NegativeTTL
  BY Bounds
<1>2. /\ state = "closed" /\ opened_at = -1 /\ exposed = {}
      /\ healthy \in BOOLEAN
      /\ call = [c \in Callers |-> "idle"]
  BY DEF GatewayInit, Init, None
<1>3. Shape
  BY <1>1, <1>2 DEF GatewayInit, Shape
<1>4. DenialInv /\ OutageInv
  BY <1>1, <1>2 DEF GatewayInit, DenialInv, OutageInv
<1>5. BlockIsRecent
  BY DEF GatewayInit, BlockIsRecent
<1> QED
  BY <1>3, <1>4, <1>5 DEF IInv

\* A rejection that is cached now has a reason as recent as a cached one may.
LEMMA BlockStep ==
    ASSUME Shape, BlockIsRecent, NEW u \in Users, Block(u),
           bad' = bad, down' = down, healthy' = healthy,
           bad[u] <= RpcTimeout \/ ~healthy \/ down <= RecoveryTimeout + RpcTimeout
    PROVE  BlockIsRecent' /\ blocked' \in [Users -> 0..NegativeTTL]
<1>1. blocked' = [blocked EXCEPT ![u] = NegativeTTL] /\ NegativeTTL \in 0..NegativeTTL
  BY Bounds DEF Block
<1>2. blocked' \in [Users -> 0..NegativeTTL]
  BY <1>1 DEF Shape
<1>3. /\ bad[u] \in 0..Horizon /\ down \in 0..Horizon
      /\ blocked'[u] = NegativeTTL
      /\ \A w \in Users \ {u} : blocked'[w] = blocked[w]
  BY <1>1 DEF Shape
<1>4. \/ bad[u] <= RpcTimeout + NegativeTTL - blocked'[u]
      \/ ~healthy
      \/ down <= RecoveryTimeout + RpcTimeout + NegativeTTL - blocked'[u]
  BY <1>3, Bounds
<1> QED
  BY <1>2, <1>3, <1>4 DEF BlockIsRecent

\* What the end of a call leaves of the calls that go on.
LEMMA EndKeeps ==
    ASSUME IInv, NEW c \in Callers, NEW ans, Finish(c, ans), Forget(c),
           UNCHANGED <<standing, ages>>
    PROVE  /\ call' \in [Callers -> {"idle", "awaiting"}]
           /\ request' \in [Callers -> RequestType \cup {NoRequest}]
           /\ \A d \in Callers : call'[d] = "awaiting" => request'[d] \in RequestType
           /\ exposed' \subseteq Callers /\ healthy' = healthy
           /\ DenialInv'
           /\ \A d \in exposed' : call'[d] = "awaiting"
           /\ \A d \in Callers :
                call'[d] = "awaiting" /\ d \in exposed'
                  => ~healthy' \/ down' <= request'[d].age
<1>1. /\ call' = [call EXCEPT ![c] = "idle"] /\ exposed' = exposed \ {c}
      /\ healthy' = healthy
      /\ request' = [request EXCEPT ![c] = NoRequest]
      /\ standing' = standing /\ bad' = bad /\ down' = down
  BY DEF Finish, Forget, ages
<1>2. /\ call'[c] = "idle"
      /\ \A d \in Callers \ {c} : call'[d] = call[d] /\ request'[d] = request[d]
  BY <1>1 DEF IInv, Shape
<1>3. /\ call' \in [Callers -> {"idle", "awaiting"}]
      /\ request' \in [Callers -> RequestType \cup {NoRequest}]
      /\ \A d \in Callers : call'[d] = "awaiting" => request'[d] \in RequestType
  BY <1>1, <1>2 DEF IInv, Shape
<1>4. DenialInv'
  BY <1>1, <1>2 DEF IInv, DenialInv
<1> QED
  BY <1>1, <1>2, <1>3, <1>4 DEF IInv, Shape, OutageInv

LEMMA AdmitStep ==
    ASSUME IInv, NEW c \in Callers, NEW u \in Users, Admit(c, u)
    PROVE  IInv'
<1> USE DEF IInv
<1>1. /\ call[c] = "idle" /\ state' = ResolvedState
      /\ healthy' = healthy /\ opened_at' = opened_at
      /\ standing' = standing /\ bad' = bad /\ down' = down
  BY DEF Admit, Begin, ages
<1>2. c \notin exposed
  BY <1>1 DEF OutageInv
<1>3. /\ state' \in {"closed", "open", "half_open"}
      /\ state' = "open" => state = "open" /\ ~RecoveryElapsed
  BY <1>1 DEF ResolvedState, Shape
<1>4. CASE call'[c] = "awaiting"
  <2>1. /\ call' = [call EXCEPT ![c] = "awaiting"]
        /\ exposed' = IF healthy THEN exposed ELSE exposed \cup {c}
        /\ state' # "open"
    BY <1>1, <1>4 DEF Admit, Begin
  <2>2. /\ request' = [request EXCEPT ![c] =
                         [user |-> u, verdict |-> "pending", age |-> 0]]
        /\ blocked' = blocked
    BY <1>4 DEF Admit
  <2>3. /\ request'[c] = [user |-> u, verdict |-> "pending", age |-> 0]
        /\ \A d \in Callers \ {c} : call'[d] = call[d] /\ request'[d] = request[d]
    BY <2>1, <2>2 DEF Shape
  <2>4. [user |-> u, verdict |-> "pending", age |-> 0] \in RequestType
    BY Bounds DEF RequestType
  <2>5. Shape'
    BY <1>1, <1>3, <2>1, <2>2, <2>3, <2>4 DEF Shape
  <2>6. DenialInv'
    BY <1>1, <2>3 DEF DenialInv
  <2>7. OutageInv'
    BY <1>1, <1>2, <1>4, <2>1, <2>3 DEF OutageInv, Shape
  <2>8. BlockIsRecent'
    BY <1>1, <2>2 DEF BlockIsRecent
  <2> QED
    BY <2>5, <2>6, <2>7, <2>8
<1>5. CASE call'[c] # "awaiting"
  <2>1. /\ state' = "open" /\ call' = call /\ exposed' = exposed
        /\ request' = request /\ Fallback(u)
    BY <1>1, <1>5 DEF Admit, Begin, Shape
  <2>2. state = "open" /\ ~(opened_at >= RecoveryTimeout)
    BY <1>3, <2>1, Bounds DEF RecoveryElapsed, None, OutageInv
  <2>3. ~healthy \/ down <= RecoveryTimeout + RpcTimeout
    BY <2>2, Bounds DEF OutageInv, Shape
  <2>4. BlockIsRecent' /\ blocked' \in [Users -> 0..NegativeTTL]
    <3>1. CASE Block(u)
      BY <1>1, <2>3, <3>1, BlockStep
    <3>2. CASE blocked' = blocked
      BY <1>1, <3>2 DEF BlockIsRecent, Shape
    <3> QED
      BY <2>1, <3>1, <3>2 DEF Fallback
  <2>5. Shape'
    BY <1>1, <1>3, <2>1, <2>4 DEF Shape
  <2>6. DenialInv' /\ OutageInv'
    BY <1>1, <2>1, <2>2 DEF DenialInv, OutageInv
  <2> QED
    BY <2>4, <2>5, <2>6
<1> QED
  BY <1>4, <1>5

LEMMA AnsweredStep ==
    ASSUME IInv, NEW c \in Callers, Answered(c)
    PROVE  IInv'
<1> USE DEF IInv
<1>1. /\ call[c] = "awaiting" /\ OnSuccess
      /\ Finish(c, "result") /\ Forget(c)
      /\ standing' = standing /\ bad' = bad /\ down' = down /\ healthy' = healthy
  BY DEF Answered, Succeed, Finish, ages
<1>2. UNCHANGED <<standing, ages>>
  BY <1>1 DEF ages
<1>3. /\ request[c] \in RequestType /\ request[c].user \in Users
      /\ request[c].age \in 0..RpcTimeout
  BY <1>1, RequestFields
<1>4. BlockIsRecent' /\ blocked' \in [Users -> 0..NegativeTTL]
  <2>1. CASE request[c].verdict = "deny"
    <3>1. bad[request[c].user] <= request[c].age
      BY <1>1, <2>1 DEF DenialInv
    <3>2. bad[request[c].user] <= RpcTimeout
      BY <1>3, <3>1, Bounds DEF Shape
    <3>3. Block(request[c].user)
      BY <2>1 DEF Answered
    <3> QED
      BY <1>1, <1>3, <3>2, <3>3, BlockStep
  <2>2. CASE blocked' = blocked
    BY <1>1, <2>2 DEF BlockIsRecent, Shape
  <2> QED
    BY <2>1, <2>2 DEF Answered
<1>5. /\ state' \in {"closed", "open", "half_open"}
      /\ opened_at' \in {-1} \cup 0..RecoveryTimeout
      /\ state' = "open" => state = "open" /\ opened_at' = opened_at
  BY <1>1 DEF OnSuccess, Close, RecordedWhileOpen,
              breakerVars, None, Shape
<1>6. Shape'
  BY <1>1, <1>2, <1>4, <1>5, EndKeeps DEF Shape
<1>7. DenialInv'
  BY <1>1, <1>2, EndKeeps
<1>8. OutageInv'
  <2>1. state' = "open" =>
          /\ opened_at' \in 0..RecoveryTimeout
          /\ opened_at' < RecoveryTimeout
               => ~healthy' \/ down' <= opened_at' + RpcTimeout
    BY <1>1, <1>5 DEF OutageInv
  <2>2. ~healthy' => down' = 0
    BY <1>1 DEF OutageInv
  <2> QED
    BY <1>1, <1>2, <2>1, <2>2, EndKeeps DEF OutageInv
<1> QED
  BY <1>4, <1>6, <1>7, <1>8

LEMMA FailedStep ==
    ASSUME IInv, NEW c \in Callers, Failed(c)
    PROVE  IInv'
<1> USE DEF IInv
<1>1. /\ call[c] = "awaiting" /\ OnFailure
      /\ Finish(c, FailureAnswer) /\ Forget(c)
      /\ ~healthy \/ c \in exposed
      /\ standing' = standing /\ bad' = bad /\ down' = down /\ healthy' = healthy
      /\ answer' = FailureAnswer
  BY DEF Failed, Failure, Fail, Finish, ages
<1>2. UNCHANGED <<standing, ages>>
  BY <1>1 DEF ages
<1>3. /\ request[c].user \in Users /\ request[c].age \in 0..RpcTimeout
  BY <1>1, RequestFields
<1>4. ~healthy \/ down <= RpcTimeout
  BY <1>1, <1>3, Bounds DEF OutageInv, Shape
<1>5. /\ state' \in {"closed", "open", "half_open"}
      /\ opened_at' \in {-1} \cup 0..RecoveryTimeout
      /\ \/ state' = "open" /\ opened_at' = 0
         \/ state' = state /\ opened_at' = opened_at
  BY <1>1, Bounds DEF OnFailure, Trip, RecordedWhileOpen,
                      breakerVars, Shape
<1>6. state' = "open" => /\ opened_at' \in 0..RecoveryTimeout
                         /\ opened_at' < RecoveryTimeout
                              => ~healthy \/ down <= opened_at' + RpcTimeout
  <2>1. CASE state' = "open" /\ opened_at' = 0
    BY <1>4, <2>1, Bounds
  <2>2. CASE state' = state /\ opened_at' = opened_at
    BY <2>2 DEF OutageInv
  <2> QED
    BY <1>5, <2>1, <2>2
<1>7. BlockIsRecent' /\ blocked' \in [Users -> 0..NegativeTTL]
  <2>1. CASE Block(request[c].user) /\ answer' = "fallback"
    <3>1. ~healthy \/ down <= RecoveryTimeout + RpcTimeout
      BY <1>4, Bounds DEF Shape
    <3> QED
      BY <1>1, <1>3, <2>1, <3>1, BlockStep
  <2>2. CASE blocked' = blocked
    BY <1>1, <2>2 DEF BlockIsRecent, Shape
  <2> QED
    BY <2>1, <2>2 DEF Failed, Fallback, Raised
<1>8. Shape'
  BY <1>1, <1>2, <1>5, <1>7, EndKeeps DEF Shape
<1>9. DenialInv'
  BY <1>1, <1>2, EndKeeps
<1>10. OutageInv'
  <2>1. ~healthy' => down' = 0
    BY <1>1 DEF OutageInv
  <2> QED
    BY <1>1, <1>2, <1>6, <2>1, EndKeeps DEF OutageInv
<1> QED
  BY <1>7, <1>8, <1>9, <1>10

LEMMA CancelledStep ==
    ASSUME IInv, NEW c \in Callers, Cancelled(c)
    PROVE  IInv'
<1> USE DEF IInv
<1>1. /\ Finish(c, "cancelled") /\ Forget(c)
      /\ state' = state /\ opened_at' = opened_at /\ blocked' = blocked
      /\ standing' = standing /\ bad' = bad /\ down' = down /\ healthy' = healthy
  BY DEF Cancelled, Cancel, Finish, breakerVars, ages
<1>2. UNCHANGED <<standing, ages>>
  BY <1>1 DEF ages
<1>3. Shape' /\ DenialInv'
  BY <1>1, <1>2, EndKeeps DEF Shape
<1>4. OutageInv'
  BY <1>1, <1>2, EndKeeps DEF OutageInv
<1>5. BlockIsRecent'
  BY <1>1 DEF BlockIsRecent
<1> QED
  BY <1>3, <1>4, <1>5

LEMMA DecideStep ==
    ASSUME IInv, NEW c \in Callers, Decide(c)
    PROVE  IInv'
<1> USE DEF IInv
<1> DEFINE verdict == IF standing[request[c].user] THEN "allow" ELSE "deny"
<1>1. /\ call[c] = "awaiting"
      /\ request' = [request EXCEPT ![c].verdict = verdict]
      /\ UNCHANGED <<vars, blocked, standing, ages>>
  BY DEF Decide
<1>2. request[c] \in RequestType /\ request[c].user \in Users
      /\ request[c].age \in 0..RpcTimeout
  BY <1>1, RequestFields
<1>3. /\ request'[c] = [request[c] EXCEPT !.verdict = verdict]
      /\ \A d \in Callers \ {c} : request'[d] = request[d]
  BY <1>1 DEF Shape
<1>4. /\ request'[c] \in RequestType
      /\ request'[c].user = request[c].user /\ request'[c].age = request[c].age
      /\ request'[c].verdict = verdict
  BY <1>2, <1>3 DEF RequestType
<1>5. Shape'
  BY <1>1, <1>3, <1>4 DEF Shape, vars, breakerVars, callVars, backendVars, ages
<1>6. DenialInv'
  <2>1. verdict = "deny" => bad[request[c].user] = 0
    BY <1>2 DEF DenialInv, Shape
  <2>2. verdict = "deny" => bad[request[c].user] <= request[c].age
    BY <1>2, <2>1
  <2> QED
    BY <1>1, <1>3, <1>4, <2>2
       DEF DenialInv, vars, breakerVars, callVars, backendVars, ages
<1>7. OutageInv' /\ BlockIsRecent'
  BY <1>1, <1>3, <1>4
     DEF OutageInv, BlockIsRecent, vars, breakerVars, callVars, backendVars, ages
<1> QED
  BY <1>5, <1>6, <1>7

LEMMA PassStep ==
    ASSUME IInv, Pass
    PROVE  IInv'
<1> USE DEF IInv
<1>1. /\ state' = state /\ call' = call /\ exposed' = exposed
      /\ healthy' = healthy /\ standing' = standing
      /\ \A c \in Callers : call[c] = "awaiting" => request[c].age < RpcTimeout
      /\ request' = [c \in Callers |->
                       IF call[c] = "awaiting"
                         THEN [request[c] EXCEPT !.age = @ + 1] ELSE request[c]]
      /\ blocked' = [u \in Users |-> Younger(blocked[u])]
      /\ bad' = [u \in Users |-> IF standing[u] THEN Older(bad[u], Horizon) ELSE 0]
      /\ down' = IF healthy THEN Older(down, Horizon) ELSE 0
  BY DEF Pass
<1>2. ASSUME NEW c \in Callers, call[c] = "awaiting"
      PROVE  /\ request'[c] \in RequestType
             /\ request'[c].user = request[c].user
             /\ request'[c].verdict = request[c].verdict
             /\ request'[c].age = request[c].age + 1
  <2>1. /\ request[c] \in RequestType /\ request[c].age \in 0..RpcTimeout
        /\ request[c].age < RpcTimeout
    BY <1>1, <1>2, RequestFields
  <2>2. request'[c] = [request[c] EXCEPT !.age = @ + 1]
    BY <1>1, <1>2
  <2>3. request[c].age + 1 \in 0..RpcTimeout
    BY <2>1, Bounds
  <2> QED
    BY <2>1, <2>2, <2>3 DEF RequestType
<1>3. /\ opened_at \in 0..RecoveryTimeout
           => opened_at' \in 0..RecoveryTimeout
              /\ (opened_at' = opened_at + 1 \/ opened_at' = RecoveryTimeout)
      /\ opened_at' \in {-1} \cup 0..RecoveryTimeout
  <2>1. opened_at \in {-1} \cup 0..RecoveryTimeout
    BY DEF Shape
  <2>2. opened_at' = IF opened_at \in 0..(RecoveryTimeout - 1)
                     THEN opened_at + 1 ELSE opened_at
    BY DEF Pass
  <2>3. RecoveryTimeout \in Nat
    BY Bounds
  <2> QED
    BY ONLY <2>1, <2>2, <2>3
<1>4. /\ down \in 0..Horizon /\ down' \in 0..Horizon /\ down' <= down + 1
      /\ ~healthy => down' = 0
  BY <1>1, Bounds DEF Older, Shape
<1>5. \A u \in Users : /\ bad'[u] \in 0..Horizon /\ bad'[u] <= bad[u] + 1
                       /\ bad[u] \in 0..Horizon
                       /\ ~standing[u] => bad'[u] = 0
  BY <1>1, Bounds DEF Older, Shape
<1>6. \A u \in Users : /\ blocked[u] \in 0..NegativeTTL
                       /\ blocked'[u] \in 0..NegativeTTL
                       /\ blocked'[u] > 0 => blocked'[u] = blocked[u] - 1
  BY <1>1, Bounds DEF Younger, Shape
<1>7. Shape'
  <2>1. /\ request' \in [Callers -> RequestType \cup {NoRequest}]
        /\ \A c \in Callers : call'[c] = "awaiting" => request'[c] \in RequestType
    BY <1>1, <1>2 DEF Shape
  <2>2. bad' \in [Users -> 0..Horizon] /\ blocked' \in [Users -> 0..NegativeTTL]
    BY <1>1, <1>5, <1>6
  <2>3. down' \in 0..Horizon
    BY <1>4
  <2>4. opened_at' \in {-1} \cup 0..RecoveryTimeout
    BY <1>3
  <2>5. /\ state' \in {"closed", "open", "half_open"}
        /\ call' \in [Callers -> {"idle", "awaiting"}]
        /\ healthy' \in BOOLEAN
        /\ standing' \in [Users -> BOOLEAN]
        /\ exposed' \subseteq Callers
    BY <1>1, Zenon DEF Shape
  <2> QED
    BY <2>1, <2>2, <2>3, <2>4, <2>5, Zenon DEF Shape
<1>8. DenialInv'
  <2>1. ASSUME NEW c \in Callers, call[c] = "awaiting",
               request[c].verdict = "deny"
        PROVE  bad'[request[c].user] <= request[c].age + 1
    <3>1. bad[request[c].user] <= request[c].age
      BY <2>1 DEF DenialInv
    <3>2. request[c].user \in Users /\ request[c].age \in 0..RpcTimeout
      BY <2>1, RequestFields
    <3> QED
      BY <1>5, <3>1, <3>2, Bounds
  <2> QED
    BY <1>1, <1>2, <1>5, <2>1 DEF DenialInv
<1>9. OutageInv'
  <2>1. down \in Nat /\ down' \in Nat /\ down' <= down + 1
    BY <1>4, Bounds
  <2>2. ASSUME NEW c \in Callers, call[c] = "awaiting", c \in exposed, healthy
        PROVE  down' <= request[c].age + 1
    <3>1. down <= request[c].age
      BY <2>2 DEF OutageInv
    <3>2. request[c].age \in Nat
      BY <2>2, RequestFields, Bounds
    <3> QED
      BY <2>1, <3>1, <3>2
  <2>3. ASSUME state = "open", opened_at' < RecoveryTimeout, healthy
        PROVE  down' <= opened_at' + RpcTimeout
    <3>1. opened_at \in 0..RecoveryTimeout
      BY <2>3 DEF OutageInv
    <3>2. opened_at' = opened_at + 1 /\ opened_at \in Nat
      BY <1>3, <2>3, <3>1, Bounds
    <3>3. down <= opened_at + RpcTimeout
      BY <2>3, <3>2, Bounds DEF OutageInv
    <3> QED
      BY <2>1, <3>2, <3>3, Bounds
  <2>4. state = "open" => opened_at' \in 0..RecoveryTimeout
    BY <1>3 DEF OutageInv
  <2>5. ~healthy => down' = 0
    BY <1>4
  <2>6. \A c \in exposed' : call'[c] = "awaiting"
    BY <1>1 DEF OutageInv
  <2>7. ASSUME NEW c \in Callers, call'[c] = "awaiting", c \in exposed'
        PROVE  ~healthy' \/ down' <= request'[c].age
    <3>1. call[c] = "awaiting" /\ c \in exposed
      BY <1>1, <2>7
    <3>2. request'[c].age = request[c].age + 1
      BY <1>2, <3>1
    <3> QED
      BY <1>1, <2>2, <3>1, <3>2
  <2>8. state' = "open" /\ opened_at' < RecoveryTimeout
          => ~healthy' \/ down' <= opened_at' + RpcTimeout
    BY <1>1, <2>3
  <2> QED
    BY <1>1, <2>4, <2>5, <2>6, <2>7, <2>8 DEF OutageInv
<1>10. BlockIsRecent'
  <2> SUFFICES ASSUME NEW u \in Users, blocked'[u] > 0, healthy
               PROVE  \/ bad'[u] <= RpcTimeout + NegativeTTL - blocked'[u]
                      \/ down' <= RecoveryTimeout + RpcTimeout + NegativeTTL
                                   - blocked'[u]
    BY <1>1 DEF BlockIsRecent
  <2>1. /\ blocked'[u] = blocked[u] - 1 /\ blocked[u] > 0
        /\ blocked[u] \in Nat
    BY <1>6, Bounds
  <2>2. /\ bad[u] \in Nat /\ bad'[u] \in Nat /\ bad'[u] <= bad[u] + 1
        /\ down \in Nat /\ down' \in Nat /\ down' <= down + 1
    BY <1>4, <1>5, Bounds
  <2>3. \/ bad[u] <= RpcTimeout + NegativeTTL - blocked[u]
        \/ down <= RecoveryTimeout + RpcTimeout + NegativeTTL - blocked[u]
    BY <2>1 DEF BlockIsRecent
  <2> QED
    BY <2>1, <2>2, <2>3, Bounds
<1> QED
  BY <1>7, <1>8, <1>9, <1>10

\* The environment: an outage begins or ends, a user's standing changes, an
\* entry is evicted.
LEMMA EnvironmentStep ==
    ASSUME IInv,
           \/ DatabaseDown \/ DatabaseUp
           \/ \E u \in Users : ChangeStanding(u) \/ Evict(u)
    PROVE  IInv'
<1> USE DEF IInv
<1>1. CASE DatabaseDown
  <2>1. /\ state' = state /\ call' = call /\ opened_at' = opened_at
        /\ healthy' = FALSE /\ down' = 0
        /\ exposed' = {c \in Callers : call[c] = "awaiting"}
        /\ blocked' = blocked /\ request' = request /\ standing' = standing
        /\ bad' = bad
    BY <1>1 DEF DatabaseDown, BackendDown, breakerVars,
                callVars
  <2>2. Shape'
    <3>1. down' \in 0..Horizon
      BY <2>1, Bounds
    <3>2. healthy' \in BOOLEAN
      BY <2>1, Zenon
    <3>3. exposed' \subseteq Callers
      BY <2>1, Zenon
    <3> QED
      BY <2>1, <3>1, <3>2, <3>3, Zenon DEF Shape
  <2>3. DenialInv' /\ OutageInv' /\ BlockIsRecent'
    BY <2>1 DEF DenialInv, OutageInv, BlockIsRecent
  <2> QED
    BY <2>2, <2>3
<1>2. CASE DatabaseUp
  <2>1. /\ state' = state /\ call' = call /\ opened_at' = opened_at
        /\ healthy' = TRUE /\ exposed' = exposed /\ ~healthy
        /\ blocked' = blocked /\ request' = request /\ standing' = standing
        /\ bad' = bad /\ down' = down
    BY <1>2 DEF DatabaseUp, BackendUp, breakerVars,
                callVars, ages
  <2>2. down' = 0
    BY <2>1 DEF OutageInv
  <2>3. Shape' /\ DenialInv'
    BY <2>1 DEF Shape, DenialInv
  <2>4. \A c \in Callers : call[c] = "awaiting" => 0 <= request[c].age
    BY RequestFields, Bounds
  <2>5. OutageInv'
    BY <2>1, <2>2, <2>4, Bounds DEF OutageInv
  <2>6. BlockIsRecent'
    BY <2>1, <2>2, Bounds DEF BlockIsRecent, Shape
  <2> QED
    BY <2>3, <2>5, <2>6
<1>3. ASSUME NEW u \in Users, ChangeStanding(u)
      PROVE  IInv'
  <2>1. /\ UNCHANGED <<vars, blocked, request, down>>
        /\ standing' = [standing EXCEPT ![u] = ~@]
        /\ bad' = [bad EXCEPT ![u] = 0]
    BY <1>3 DEF ChangeStanding
  <2>2. /\ bad'[u] = 0 /\ \A w \in Users \ {u} : /\ bad'[w] = bad[w]
                                               /\ standing'[w] = standing[w]
    BY <2>1 DEF Shape
  <2>3. Shape'
    <3>1. standing' \in [Users -> BOOLEAN]
      BY <2>1, Zenon DEF Shape
    <3>2. bad' \in [Users -> 0..Horizon]
      BY <2>1, Bounds DEF Shape
    <3> QED
      BY <2>1, <3>1, <3>2 DEF Shape, vars, breakerVars, callVars, backendVars
  <2>4. \A c \in Callers : call[c] = "awaiting" =>
          request[c].user \in Users /\ 0 <= request[c].age
    BY RequestFields, Bounds
  <2>5. DenialInv'
    BY <2>1, <2>2, <2>4 DEF DenialInv, vars, breakerVars, callVars, backendVars
  <2>6. OutageInv'
    BY <2>1 DEF OutageInv, vars, breakerVars, callVars, backendVars
  <2>7. 0 <= RpcTimeout + NegativeTTL - blocked[u]
    BY Bounds DEF Shape
  <2>8. BlockIsRecent'
    BY <2>1, <2>2, <2>7 DEF BlockIsRecent, vars, breakerVars, callVars, backendVars
  <2> QED
    BY <2>3, <2>5, <2>6, <2>8
<1>4. ASSUME NEW u \in Users, Evict(u)
      PROVE  IInv'
  <2>1. /\ UNCHANGED <<vars, request, standing, ages>>
        /\ blocked' = [blocked EXCEPT ![u] = 0]
    BY <1>4 DEF Evict
  <2>2. blocked'[u] = 0 /\ \A w \in Users \ {u} : blocked'[w] = blocked[w]
    BY <2>1 DEF Shape
  <2>3. Shape'
    BY <2>1, Bounds DEF Shape, vars, breakerVars, callVars, backendVars, ages
  <2>4. DenialInv' /\ OutageInv'
    BY <2>1 DEF DenialInv, OutageInv, vars, breakerVars, callVars, backendVars, ages
  <2>5. BlockIsRecent'
    BY <2>1, <2>2 DEF BlockIsRecent, vars, breakerVars, callVars, backendVars, ages
  <2> QED
    BY <2>3, <2>4, <2>5
<1> QED
  BY <1>1, <1>2, <1>3, <1>4

LEMMA NextIInv == IInv /\ [GatewayNext]_gatewayVars => IInv'
<1> SUFFICES ASSUME IInv, [GatewayNext]_gatewayVars
             PROVE  IInv'
  OBVIOUS
<1>1. ASSUME NEW c \in Callers, NEW u \in Users, Reject(c, u)
      PROVE  IInv'
  BY <1>1 DEF Reject, CachedBlock, IInv, Shape, DenialInv, OutageInv,
              BlockIsRecent, vars, breakerVars, callVars, backendVars, ages
<1>2. CASE UNCHANGED gatewayVars
  BY <1>2 DEF IInv, Shape, DenialInv, OutageInv, BlockIsRecent, gatewayVars,
              vars, breakerVars, callVars, backendVars, ages
<1> QED
  BY <1>1, <1>2, AdmitStep, AnsweredStep, FailedStep, CancelledStep, DecideStep,
     PassStep, EnvironmentStep
  DEF GatewayNext, Arrive, End

\* Whoever is in the cache of blocked users was out of standing, or met an
\* outage, within the ttl, the life of an RPC and, for an outage, the recovery
\* window: late answers and an open breaker block nobody for longer.
THEOREM BlocksAreRecent == GatewaySpec => []BlockIsRecent
<1>1. IInv => BlockIsRecent
  BY DEF IInv
<1> QED
  BY <1>1, InitIInv, NextIInv, PTL DEF GatewaySpec

-----------------------------------------------------------------------------
(* Nothing passes uncharged in production.                                 *)

\* A reply is a rejection, or it is paid for, or the settings let it through.
LEMMA ReplyCloses ==
    ASSUME settings' = settings, NEW u, NEW kind, NEW paid, Reply(u, kind, paid),
           \/ kind \in {"blocked", "denied", "unavailable"}
           \/ paid = TRUE
           \/ settings.DemoMode
           \/ settings.FailOpen
    PROVE  FailsClosed'
<1>1. reply' = [user |-> u, kind |-> kind, paid |-> paid]
  BY DEF Reply
<1>2. reply'.kind = kind /\ reply'.paid = paid
  BY <1>1
<1> QED
  BY <1>2 DEF FailsClosed

LEMMA FallbackCloses ==
    ASSUME settings' = settings, NEW u, Fallback(u) \/ Raised(u)
    PROVE  FailsClosed'
BY ReplyCloses DEF Fallback, Raised

LEMMA ClosedStep == FailsClosed /\ [GatewayNext]_gatewayVars => FailsClosed'
<1> SUFFICES ASSUME FailsClosed, [GatewayNext]_gatewayVars PROVE FailsClosed'
  OBVIOUS
<1>1. ASSUME UNCHANGED <<settings, reply>> PROVE FailsClosed'
  BY <1>1 DEF FailsClosed
<1>2. ASSUME NEW c \in Callers, NEW u \in Users, Reject(c, u) \/ Admit(c, u)
      PROVE  FailsClosed'
  BY <1>1, <1>2, ReplyCloses, FallbackCloses DEF Reject, CachedBlock, Admit
<1>3. ASSUME NEW c \in Callers, Answered(c) \/ Failed(c)
      PROVE  FailsClosed'
  BY <1>3, ReplyCloses, FallbackCloses DEF Answered, Failed
<1>4. ASSUME NEW c \in Callers, Decide(c) \/ Cancelled(c)
      PROVE  FailsClosed'
  BY <1>1, <1>4 DEF Decide, Cancelled
<1>5. CASE \/ Pass \/ DatabaseDown \/ DatabaseUp \/ UNCHANGED gatewayVars
           \/ \E u \in Users : ChangeStanding(u) \/ Evict(u)
  BY <1>1, <1>5 DEF Pass, DatabaseDown, DatabaseUp, ChangeStanding, Evict, gatewayVars
<1> QED
  BY <1>2, <1>3, <1>4, <1>5 DEF GatewayNext, Arrive, End

\* In production, told to fail closed, the gateway lets nothing through that
\* the database has not charged, whatever the breaker and the cache do.
THEOREM GatewayFailsClosed == GatewaySpec => []FailsClosed
<1>1. GatewayInit => FailsClosed
  BY DEF GatewayInit, FailsClosed
<1> QED
  BY <1>1, ClosedStep, PTL DEF GatewaySpec
-----------------------------------------------------------------------------
(* Types, those of the breaker behind the handlers included.               *)

LEMMA BreakerTyped ==
    /\ GatewayInit => BreakerInv
    /\ BreakerInv /\ [GatewayNext]_gatewayVars => BreakerInv'
<1>1. GatewayInit => BreakerInv
  BY InitBreakerInv DEF GatewayInit
<1> QED
  BY <1>1, StepImplements, StepBreakerInv

LEMMA NotNoRequest == \A q \in RequestType : q # NoRequest
<1> SUFFICES ASSUME NEW q \in RequestType, q = NoRequest PROVE FALSE
  OBVIOUS
<1>1. DOMAIN q = {"user", "verdict", "age"}
  BY DEF RequestType
<1>2. DOMAIN q = {"idle"}
  BY DEF NoRequest
<1> QED
  BY <1>1, <1>2

\* A caller has a request exactly while it awaits the RPC.
Paired == \A c \in Callers : call[c] = "awaiting" <=> request[c] # NoRequest

LEMMA EndPaired ==
    ASSUME Shape, Paired, NEW c \in Callers, NEW ans, Finish(c, ans), Forget(c)
    PROVE  Paired'
BY DEF Shape, Paired, Finish, Forget

LEMMA PairedStep ==
    ASSUME IInv, IInv', Paired, [GatewayNext]_gatewayVars
    PROVE  Paired'
<1>0. Shape /\ Shape'
  BY DEF IInv
<1>1. ASSUME UNCHANGED <<call, request>> PROVE Paired'
  BY <1>1 DEF Paired
<1>2. ASSUME NEW c \in Callers, NEW u \in Users, Reject(c, u) \/ Admit(c, u)
      PROVE  Paired'
  <2>1. CASE UNCHANGED <<call, request>>
    BY <1>1, <2>1
  <2>2. CASE Admit(c, u) /\ call'[c] = "awaiting"
    <3>1. /\ call' = [call EXCEPT ![c] = "awaiting"] \/ call' = call
          /\ request' = [request EXCEPT ![c] =
                           [user |-> u, verdict |-> "pending", age |-> 0]]
      BY <2>2 DEF Admit, Begin
    <3>2. request'[c] # NoRequest
      BY <1>0, <2>2, NotNoRequest DEF Shape
    <3> QED
      BY <1>0, <2>2, <3>1, <3>2 DEF Paired, Shape
  <2>3. CASE Admit(c, u) /\ call'[c] # "awaiting"
    <3>1. request' = request /\ call' = call
      BY <1>0, <2>3 DEF Admit, Begin, Shape
    <3> QED
      BY <1>1, <3>1
  <2> QED
    BY <1>2, <2>1, <2>2, <2>3 DEF Reject, vars, breakerVars, callVars, backendVars
<1>3. ASSUME NEW c \in Callers, Decide(c)
      PROVE  Paired'
  <2>1. /\ call[c] = "awaiting" /\ call' = call
        /\ \A d \in Callers \ {c} : request'[d] = request[d]
    BY <1>0, <1>3 DEF Decide, vars, breakerVars, callVars, backendVars, Shape
  <2>2. request'[c] # NoRequest
    BY <1>0, <2>1, NotNoRequest DEF Shape
  <2> QED
    BY <2>1, <2>2 DEF Paired
<1>4. ASSUME NEW c \in Callers, End(c)
      PROVE  Paired'
  BY <1>0, <1>4, EndPaired DEF End, Answered, Failed, Failure, Cancelled,
     Succeed, Fail, Cancel
<1>5. CASE Pass
  <2>1. /\ call' = call
        /\ \A c \in Callers : call[c] # "awaiting" => request'[c] = request[c]
    BY <1>5 DEF Pass
  <2>2. \A c \in Callers : call[c] = "awaiting" => request'[c] # NoRequest
    BY <1>0, <2>1, NotNoRequest DEF Shape
  <2> QED
    BY <2>1, <2>2 DEF Paired
<1>6. CASE \/ DatabaseDown \/ DatabaseUp \/ UNCHANGED gatewayVars
           \/ \E u \in Users : ChangeStanding(u) \/ Evict(u)
  <2>1. UNCHANGED <<call, request>>
    BY <1>6
       DEF DatabaseDown, DatabaseUp, ChangeStanding, Evict, gatewayVars, vars,
           breakerVars, callVars, backendVars,
       BackendDown, BackendUp, callVars
  <2> QED
    BY <1>1, <2>1
<1> QED
  BY <1>2, <1>3, <1>4, <1>5, <1>6 DEF GatewayNext, Arrive

ReplyTyped ==
    /\ settings \in [DemoMode : BOOLEAN, FailOpen : BOOLEAN]
    /\ reply \in ReplyType \cup {NoReply}

LEMMA ReplyOK ==
    ASSUME NEW u \in Users,
           NEW kind \in {"forwarded", "degraded", "blocked", "denied", "unavailable"},
           NEW paid \in BOOLEAN, Reply(u, kind, paid)
    PROVE  reply' \in ReplyType
BY Zenon DEF Reply, ReplyType

LEMMA ReplyStep ==
    ASSUME IInv, ReplyTyped, [GatewayNext]_gatewayVars
    PROVE  ReplyTyped'
<1> SUFFICES settings' = settings /\ (reply' = reply \/ reply' \in ReplyType)
  BY DEF ReplyTyped
<1>1. ASSUME NEW u \in Users, Fallback(u) \/ Raised(u) \/ CachedBlock(u)
      PROVE  reply' \in ReplyType
  BY <1>1, ReplyOK DEF Fallback, Raised, CachedBlock
<1>2. ASSUME NEW c \in Callers, NEW u \in Users, Reject(c, u) \/ Admit(c, u)
      PROVE  settings' = settings /\ (reply' = reply \/ reply' \in ReplyType)
  BY <1>1, <1>2 DEF Reject, Admit
<1>3. ASSUME NEW c \in Callers, Answered(c) \/ Failed(c)
      PROVE  settings' = settings /\ reply' \in ReplyType
  <2>1. request[c].user \in Users
    <3>1. call[c] = "awaiting"
      BY <1>3 DEF Answered, Failed, Failure, Fail, Finish
    <3> QED
      BY <3>1, RequestFields DEF IInv
  <2> QED
    BY <1>1, <1>3, <2>1, ReplyOK DEF Answered, Failed
<1>4. CASE \/ \E c \in Callers : Decide(c) \/ Cancelled(c)
           \/ Pass \/ DatabaseDown \/ DatabaseUp \/ UNCHANGED gatewayVars
           \/ \E u \in Users : ChangeStanding(u) \/ Evict(u)
  BY <1>4 DEF Decide, Cancelled, Pass, DatabaseDown, DatabaseUp, ChangeStanding, Evict,
              gatewayVars
<1> QED
  BY <1>2, <1>3, <1>4 DEF GatewayNext, Arrive, End

-----------------------------------------------------------------------------
(* What the breaker knows of what the handlers saw.                        *)

\* While it is closed the breaker has counted every failure since the last
\* answer, and each once.
CountInv ==
    /\ streak \in 0..FailureThreshold
    /\ state = "closed" => streak = failure_count

LEMMA InitCount == GatewayInit => CountInv
BY ThresholdsArePositive DEF GatewayInit, Init, CountInv

\* A step that ends no RPC with an outcome neither closes nor trips a breaker.
LEMMA SilentStep ==
    ASSUME [GatewayNext]_gatewayVars,
           \A c \in Callers : ~Answered(c) /\ ~Failed(c)
    PROVE  /\ streak' = streak
           /\ state' = "closed" <=> state = "closed"
           /\ state = "closed" => failure_count' = failure_count
<1>1. ASSUME NEW c \in Callers, NEW u \in Users, Reject(c, u) \/ Admit(c, u)
      PROVE  /\ streak' = streak
             /\ state' = "closed" <=> state = "closed"
             /\ state = "closed" => failure_count' = failure_count
  BY <1>1 DEF Reject, Admit, Begin, ResolvedState, RecoveryElapsed, vars,
              breakerVars
<1>2. ASSUME NEW c \in Callers, Decide(c) \/ Cancelled(c)
      PROVE  streak' = streak /\ state' = state /\ failure_count' = failure_count
  BY <1>2 DEF Decide, Cancelled, Cancel, vars, breakerVars
<1>3. CASE \/ Pass \/ DatabaseDown \/ DatabaseUp \/ UNCHANGED gatewayVars
           \/ \E u \in Users : ChangeStanding(u) \/ Evict(u)
  <2>1. streak' = streak /\ state' = state /\ failure_count' = failure_count
    BY <1>3 DEF Pass, DatabaseDown, DatabaseUp, BackendDown, BackendUp,
                ChangeStanding, Evict, gatewayVars, vars, breakerVars
  <2> QED
    BY <2>1
<1> QED
  BY <1>1, <1>2, <1>3 DEF GatewayNext, Arrive, End

\* A failure of a closed breaker is counted, and trips it at the threshold; an
\* answer clears the count, and is all that ever closes the breaker.
LEMMA CountStep ==
    ASSUME BreakerInv, CountInv, [GatewayNext]_gatewayVars
    PROVE  /\ CountInv'
           /\ state = "closed" => (state' = "open" <=> streak' >= FailureThreshold)
<1> USE ThresholdsArePositive
<1>0. /\ FailureThreshold \in Nat /\ FailureThreshold > 0
      /\ failure_count \in 0..FailureThreshold
      /\ state = "closed" => failure_count < FailureThreshold
  BY DEF BreakerInv, TypeOK, Consistent
<1>1. ASSUME NEW c \in Callers, Answered(c)
      PROVE  /\ streak' = 0
             /\ state' = "closed" => failure_count' = 0
             /\ state = "closed" => state' = "closed"
  BY <1>1 DEF Answered, Succeed, OnSuccess, Close, RecordedWhileOpen, breakerVars
<1>2. ASSUME NEW c \in Callers, Failed(c)
      PROVE  /\ streak' = Older(streak, FailureThreshold)
             /\ state' = "closed" =>
                  state = "closed" /\ failure_count' = failure_count + 1
             /\ state = "closed" =>
                  (state' = "open" <=> failure_count + 1 >= FailureThreshold)
             /\ state = "closed" /\ state' # "open" => state' = "closed"
  BY <1>2 DEF Failed, Failure, Fail, OnFailure, Trip, ReachesThreshold,
              RecordedWhileOpen, breakerVars
<1>3. CASE \E c \in Callers : Answered(c)
  BY <1>0, <1>1, <1>3 DEF CountInv
<1>4. CASE \E c \in Callers : Failed(c)
  BY <1>0, <1>2, <1>4 DEF CountInv, Older
<1>5. CASE \A c \in Callers : ~Answered(c) /\ ~Failed(c)
  BY <1>0, <1>5, SilentStep DEF CountInv
<1> QED
  BY <1>3, <1>4, <1>5

\* For any number of handlers, outages and late outcomes: a closed breaker
\* opens exactly when the handlers have seen FailureThreshold failures in a row
\* (circuit_breaker.py:147-166, gateway.py:174-191).
THEOREM OutagesAreNoticed == GatewaySpec => OutageIsNoticed
<1> DEFINE Inv == BreakerInv /\ CountInv
<1>1. GatewayInit => Inv
  BY BreakerTyped, InitCount
<1>2. Inv /\ [GatewayNext]_gatewayVars => Inv'
  BY BreakerTyped, CountStep
<1>3. Inv /\ [GatewayNext]_gatewayVars
        => [state = "closed" =>
              (state' = "open" <=> streak' >= FailureThreshold)]_gatewayVars
  BY CountStep
<1> QED
  BY <1>1, <1>2, <1>3, PTL DEF GatewaySpec, OutageIsNoticed

\* The gateway's types, those of the breaker behind it included; a caller has
\* a request exactly while it awaits the RPC (gateway.py:158-219).
THEOREM GatewayTypeCorrect == GatewaySpec => []GatewayTypeOK
<1> DEFINE Inv == /\ IInv /\ Paired /\ ReplyTyped
                  /\ BreakerInv /\ CountInv
<1>1. GatewayInit => Inv
  <2>1. GatewayInit => Paired /\ ReplyTyped
    BY DEF GatewayInit, Init, Paired, ReplyTyped
  <2> QED
    BY <2>1, InitIInv, BreakerTyped, InitCount
<1>2. Inv /\ [GatewayNext]_gatewayVars => Inv'
  BY NextIInv, PairedStep, ReplyStep, BreakerTyped, CountStep
<1>3. Inv => GatewayTypeOK
  BY DEF IInv, Shape, Paired, ReplyTyped, BreakerInv, CountInv, GatewayTypeOK
<1> QED
  BY <1>1, <1>2, <1>3, PTL DEF GatewaySpec
=============================================================================
