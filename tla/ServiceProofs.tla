---------------------------- MODULE ServiceProofs ----------------------------
(***************************************************************************)
(* The breakers and the client that uses them, for every number of         *)
(* services, callers and retries and every threshold.                      *)
(*                                                                         *)
(* The breaker first.  Both count invariants are inductive given TypeOK: a *)
(* count reaches its threshold only in a step that leaves the same caller  *)
(* at the point that will act on it, and that caller passes through points *)
(* the invariant names until the count is zero or the state has changed.   *)
(*                                                                         *)
(* Then the client, which implements CircuitBreaker: each of its steps is  *)
(* a step of the breakers or leaves them alone, so what is proved of every *)
(* use of the breakers holds of the uses http.rs makes.  And without       *)
(* post_stream, only a service that really fails is ever fast-rejected.    *)
(*                                                                         *)
(* At the end, waiting for an operation, for any poll configurations, any  *)
(* latency of the requests and any lateness of the timer.                  *)
(***************************************************************************)
EXTENDS RetryClient, Operation, TLAPS

(***************************************************************************)
(* The breakers.                                                           *)
(***************************************************************************)

IInv == TypeOK /\ NoLostTrip /\ NoLostClose

LEMMA InitIInv == Init => IInv
<1> SUFFICES ASSUME Init PROVE IInv
  OBVIOUS
<1>1. TypeOK
  BY BreakerAssumption DEF Init, TypeOK, States, Points, Answers, CLOSED
<1>2. NoLostTrip /\ NoLostClose
  BY BreakerAssumption DEF Init, NoLostTrip, NoLostClose
<1> QED
  BY <1>1, <1>2 DEF IInv

\* Every step keeps the variables in their types.
LEMMA TypeStep == TypeOK /\ [Next]_vars => TypeOK'
<1> SUFFICES ASSUME TypeOK, [Next]_vars PROVE TypeOK'
  OBVIOUS
<1> USE BreakerAssumption DEF TypeOK, States, Points, Answers, CLOSED, OPEN,
        HALF_OPEN, Goto, Begin, Match, breakerVars
<1>1. ASSUME NEW c \in Callers, NEW s \in Services, AllowRequest(c, s)
      PROVE  TypeOK'
  BY <1>1 DEF AllowRequest
<1>2. ASSUME NEW c \in Callers, NEW s \in Services, RecordSuccess(c, s)
      PROVE  TypeOK'
  BY <1>2 DEF RecordSuccess
<1>3. ASSUME NEW c \in Callers, NEW s \in Services, RecordFailure(c, s)
      PROVE  TypeOK'
  BY <1>3 DEF RecordFailure
<1>4. ASSUME NEW c \in Callers, Elapsed(c) \/ HalfOpen(c) \/ ResetProbe(c)
      PROVE  TypeOK'
  BY <1>4 DEF Elapsed, HalfOpen, ResetProbe
<1>5. ASSUME NEW c \in Callers, CountSuccess(c) \/ Close(c)
      PROVE  TypeOK'
  BY <1>5 DEF CountSuccess, Close
<1>6. ASSUME NEW c \in Callers, ClearFailures(c) \/ ClearSuccesses(c)
      PROVE  TypeOK'
  BY <1>6 DEF ClearFailures, ClearSuccesses
<1>7. ASSUME NEW c \in Callers, Stamp(c) \/ Judge(c)
      PROVE  TypeOK'
  BY <1>7 DEF Stamp, Judge
<1>8. ASSUME NEW c \in Callers, CountFailure(c) \/ Trip(c)
      PROVE  TypeOK'
  BY <1>8 DEF CountFailure, Trip
<1>9. CASE Tick
  BY <1>9 DEF Tick, Older
<1>10. CASE UNCHANGED vars
  BY <1>10 DEF vars
<1> QED
  BY <1>1, <1>2, <1>3, <1>4, <1>5, <1>6, <1>7, <1>8, <1>9, <1>10
     DEF Next, Operate, Continue

\* A step that moves only the caller d, from a point outside `points`, leaves
\* every caller that was Within(s, points) where it was.
LEMMA StaysWithin ==
  ASSUME TypeOK, NEW d \in Callers, NEW s \in Services, NEW points,
         pc[d] \notin points,
         \A c \in Callers \ {d} : pc'[c] = pc[c] /\ svc'[c] = svc[c],
         Within(s, points)
  PROVE  Within(s, points)'
  BY DEF Within

\* The failure count reaches the threshold only in CountFailure, which goes to
\* "trip"; the state becomes CLOSED only in Close, which goes to "clearFailures".
LEMMA TripStep == IInv /\ [Next]_vars => NoLostTrip'
<1> SUFFICES ASSUME IInv, [Next]_vars, NEW s \in Services,
                    state'[s] = CLOSED, failureCount'[s] >= FailureThreshold
             PROVE  Within(s, {"trip", "clearFailures"})'
  BY DEF NoLostTrip, Within
<1> DEFINE Held == {"trip", "clearFailures"}
<1> USE BreakerAssumption DEF IInv, TypeOK, Points, States, CLOSED, OPEN,
        HALF_OPEN, Goto, Begin, Match, breakerVars
<1>0. state[s] = CLOSED /\ failureCount[s] >= FailureThreshold => Within(s, Held)
  BY DEF NoLostTrip
<1>1. ASSUME NEW c \in Callers, NEW t \in Services, Operate(c, t)
      PROVE  Within(s, Held)'
  <2>1. /\ state' = state /\ failureCount' = failureCount
        /\ pc[c] = "idle"
        /\ \A d \in Callers \ {c} : pc'[d] = pc[d] /\ svc'[d] = svc[d]
    BY <1>1 DEF Operate, AllowRequest, RecordSuccess, RecordFailure
  <2> QED
    BY <1>0, <2>1, StaysWithin
<1>2. ASSUME NEW c \in Callers,
             \/ Elapsed(c) \/ ResetProbe(c) \/ CountSuccess(c)
             \/ ClearSuccesses(c) \/ Stamp(c) \/ Judge(c)
      PROVE  Within(s, Held)'
  <2>1. /\ state' = state /\ failureCount' = failureCount
        /\ pc[c] \notin Held
        /\ \A d \in Callers \ {c} : pc'[d] = pc[d] /\ svc'[d] = svc[d]
    BY <1>2 DEF Elapsed, ResetProbe, CountSuccess, ClearSuccesses, Stamp, Judge
  <2> QED
    BY <1>0, <2>1, StaysWithin
<1>3. ASSUME NEW c \in Callers, HalfOpen(c)
      PROVE  Within(s, Held)'
  <2>1. /\ svc[c] # s /\ state[s] = CLOSED /\ failureCount' = failureCount
        /\ pc[c] \notin Held
        /\ \A d \in Callers \ {c} : pc'[d] = pc[d] /\ svc'[d] = svc[d]
    BY <1>3 DEF HalfOpen
  <2> QED
    BY <1>0, <2>1, StaysWithin
<1>4. ASSUME NEW c \in Callers, Close(c)
      PROVE  Within(s, Held)'
  <2>1. CASE svc[c] = s
    <3>1. pc'[c] = "clearFailures" /\ svc'[c] = s
      BY <1>4, <2>1 DEF Close
    <3> QED
      BY <3>1 DEF Within
  <2>2. CASE svc[c] # s
    <3>1. /\ state'[s] = state[s] /\ failureCount' = failureCount
          /\ pc[c] \notin Held
          /\ \A d \in Callers \ {c} : pc'[d] = pc[d] /\ svc'[d] = svc[d]
      BY <1>4, <2>2 DEF Close
    <3> QED
      BY <1>0, <3>1, StaysWithin
  <2> QED
    BY <2>1, <2>2
<1>5. ASSUME NEW c \in Callers, ClearFailures(c)
      PROVE  Within(s, Held)'
  <2>1. svc[c] # s
    BY <1>5 DEF ClearFailures
  <2>2. PICK d \in Callers : svc[d] = s /\ pc[d] \in Held
    <3>1. state[s] = CLOSED /\ failureCount[s] >= FailureThreshold
      BY <1>5, <2>1 DEF ClearFailures
    <3> QED
      BY <1>0, <3>1 DEF Within
  <2>3. svc'[d] = s /\ pc'[d] = pc[d]
    BY <1>5, <2>1, <2>2 DEF ClearFailures
  <2> QED
    BY <2>2, <2>3 DEF Within
<1>6. ASSUME NEW c \in Callers, CountFailure(c)
      PROVE  Within(s, Held)'
  <2>1. CASE svc[c] = s
    <3>1. pc'[c] = "trip" /\ svc'[c] = s
      BY <1>6, <2>1 DEF CountFailure
    <3> QED
      BY <3>1 DEF Within
  <2>2. CASE svc[c] # s
    <3>1. /\ state' = state /\ failureCount'[s] = failureCount[s]
          /\ pc[c] \notin Held
          /\ \A d \in Callers \ {c} : pc'[d] = pc[d] /\ svc'[d] = svc[d]
      BY <1>6, <2>2 DEF CountFailure
    <3> QED
      BY <1>0, <3>1, StaysWithin
  <2> QED
    BY <2>1, <2>2
<1>7. ASSUME NEW c \in Callers, Trip(c)
      PROVE  Within(s, Held)'
  <2>1. svc[c] # s /\ state[s] = CLOSED /\ failureCount' = failureCount
    BY <1>7 DEF Trip
  <2>2. PICK d \in Callers : svc[d] = s /\ pc[d] \in Held
    BY <1>0, <2>1 DEF Within
  <2>3. svc'[d] = s /\ pc'[d] = pc[d]
    BY <1>7, <2>1, <2>2 DEF Trip
  <2> QED
    BY <2>2, <2>3 DEF Within
<1>8. CASE Tick \/ UNCHANGED vars
  BY <1>0, <1>8 DEF Tick, vars, Within
<1> QED
  BY <1>1, <1>2, <1>3, <1>4, <1>5, <1>6, <1>7, <1>8 DEF Next, Continue

\* The success count grows only in CountSuccess, which goes to "close" when the
\* count reaches the threshold; the points after it end with the count at zero.
LEMMA CloseStep == IInv /\ [Next]_vars => NoLostClose'
<1> SUFFICES ASSUME IInv, [Next]_vars, NEW s \in Services,
                    successCount'[s] >= SuccessThreshold
             PROVE  Within(s, {"close", "clearFailures", "clearSuccesses"})'
  BY DEF NoLostClose, Within
<1> DEFINE Held == {"close", "clearFailures", "clearSuccesses"}
<1> USE BreakerAssumption DEF IInv, TypeOK, Points, Goto, Begin, breakerVars
<1>0. successCount[s] >= SuccessThreshold => Within(s, Held)
  BY DEF NoLostClose
<1>1. ASSUME NEW c \in Callers, NEW t \in Services, Operate(c, t)
      PROVE  Within(s, Held)'
  <2>1. /\ successCount' = successCount /\ pc[c] = "idle"
        /\ \A d \in Callers \ {c} : pc'[d] = pc[d] /\ svc'[d] = svc[d]
    BY <1>1 DEF Operate, AllowRequest, RecordSuccess, RecordFailure
  <2> QED
    BY <1>0, <2>1, StaysWithin
<1>2. ASSUME NEW c \in Callers,
             \/ Elapsed(c) \/ HalfOpen(c)
             \/ Stamp(c) \/ Judge(c) \/ CountFailure(c) \/ Trip(c)
      PROVE  Within(s, Held)'
  <2>1. /\ successCount' = successCount /\ pc[c] \notin Held
        /\ \A d \in Callers \ {c} : pc'[d] = pc[d] /\ svc'[d] = svc[d]
    BY <1>2 DEF Elapsed, HalfOpen, Stamp, Judge, CountFailure, Trip
  <2> QED
    BY <1>0, <2>1, StaysWithin
<1>3. ASSUME NEW c \in Callers, Close(c) \/ ClearFailures(c)
      PROVE  Within(s, Held)'
  <2>1. PICK d \in Callers : svc[d] = s /\ pc[d] \in Held
    BY <1>0, <1>3 DEF Close, ClearFailures, Within
  <2>2. svc'[d] = s /\ pc'[d] \in Held
    BY <1>3, <2>1 DEF Close, ClearFailures
  <2> QED
    BY <2>2 DEF Within
<1>4. ASSUME NEW c \in Callers, ResetProbe(c) \/ ClearSuccesses(c)
      PROVE  Within(s, Held)'
  <2>1. svc[c] # s /\ successCount'[s] = successCount[s]
    BY <1>4 DEF ResetProbe, ClearSuccesses
  <2>2. PICK d \in Callers : svc[d] = s /\ pc[d] \in Held
    BY <1>0, <2>1 DEF Within
  <2>3. svc'[d] = s /\ pc'[d] = pc[d]
    BY <1>4, <2>1, <2>2 DEF ResetProbe, ClearSuccesses
  <2> QED
    BY <2>2, <2>3 DEF Within
<1>5. ASSUME NEW c \in Callers, CountSuccess(c)
      PROVE  Within(s, Held)'
  <2>1. CASE svc[c] = s
    <3>1. pc'[c] = "close" /\ svc'[c] = s
      BY <1>5, <2>1 DEF CountSuccess
    <3> QED
      BY <3>1 DEF Within
  <2>2. CASE svc[c] # s
    <3>1. /\ successCount'[s] = successCount[s] /\ pc[c] \notin Held
          /\ \A d \in Callers \ {c} : pc'[d] = pc[d] /\ svc'[d] = svc[d]
      BY <1>5, <2>2 DEF CountSuccess
    <3> QED
      BY <1>0, <3>1, StaysWithin
  <2> QED
    BY <2>1, <2>2
<1>6. CASE Tick \/ UNCHANGED vars
  BY <1>0, <1>6 DEF Tick, vars, Within
<1> QED
  BY <1>1, <1>2, <1>3, <1>4, <1>5, <1>6 DEF Next, Continue

-----------------------------------------------------------------------------
LEMMA InductiveInvariant == Spec => []IInv
<1>1. IInv /\ [Next]_vars => IInv'
  BY TypeStep, TripStep, CloseStep DEF IInv
<1> QED
  BY InitIInv, <1>1, PTL DEF Spec

\* The breaker's atomics and its callers' program points keep their types in
\* every interleaving (breaker.rs allow_request, record_success, record_failure).
THEOREM TypeCorrect == Spec => []TypeOK
<1>1. IInv => TypeOK
  BY DEF IInv
<1> QED
  BY <1>1, InductiveInvariant, PTL

\* However many tasks race, a breaker that reads CLOSED with its failure count
\* at the threshold has a caller about to open it or to clear the count.
THEOREM NoTripLost == Spec => []NoLostTrip
<1>1. IInv => NoLostTrip
  BY DEF IInv
<1> QED
  BY <1>1, InductiveInvariant, PTL

\* However many tasks race, a success count at the threshold has a caller that
\* has still to close the breaker or to clear the count.
THEOREM NoCloseLost == Spec => []NoLostClose
<1>1. IInv => NoLostClose
  BY DEF IInv
<1> QED
  BY <1>1, InductiveInvariant, PTL

(***************************************************************************)
(* The client.                                                             *)
(***************************************************************************)

\* The part of ClientTypeOK that is about the client's own variables.
ClientShape ==
  /\ stage \in [Callers -> Stages]
  /\ target \in [Callers -> Services]
  /\ verb \in [Callers -> Verbs]
  /\ attempt \in [Callers -> 0 .. Retries]
  /\ answer \in [Callers -> Responses]

\* Where the client is agrees with where its breaker operation is.
InStep ==
  \A c \in Callers :
    pc[c] # "idle" => stage[c] \in {"gated", "recording"} /\ svc[c] = target[c]

LEMMA ClientInitShape == ClientInit => ClientShape /\ InStep
<1> USE ClientAssumption
<1> QED
  BY DEF ClientInit, Init, ClientShape, InStep, Stages, Responses

\* Every step of the client is a step of the breakers or a stutter.
LEMMA ClientStep == ClientShape /\ [ClientNext]_allVars => [Next]_vars
<1> SUFFICES ASSUME ClientShape, [ClientNext]_allVars PROVE [Next]_vars
  OBVIOUS
<1>1. ASSUME NEW c \in Callers, NEW s \in Services, NEW v \in Verbs, Call(c, s, v)
      PROVE  [Next]_vars
  BY <1>1 DEF Call
<1>2. ASSUME NEW c \in Callers, NEW r \in Responses, Respond(c, r)
      PROVE  [Next]_vars
  <2>1. target[c] \in Services
    BY DEF ClientShape
  <2>2. CASE RecordSuccess(c, target[c])
    BY <2>1, <2>2 DEF Next, Operate
  <2>3. CASE RecordFailure(c, target[c])
    BY <2>1, <2>3 DEF Next, Operate
  <2>4. CASE UNCHANGED vars
    BY <2>4
  <2> QED
    BY <1>2, <2>2, <2>3, <2>4 DEF Respond
<1>3. ASSUME NEW c \in Callers, Gate(c)
      PROVE  [Next]_vars
  <2>1. target[c] \in Services
    BY DEF ClientShape
  <2> QED
    BY <1>3, <2>1 DEF Gate, Next, Operate
<1>4. ASSUME NEW c \in Callers, Breaker(c)
      PROVE  [Next]_vars
  BY <1>4 DEF Breaker, Next
<1>5. ASSUME NEW c \in Callers, Token(c) \/ Gated(c) \/ Wake(c) \/ Recorded(c)
      PROVE  [Next]_vars
  BY <1>5 DEF Token, Gated, Wake, Recorded
<1>6. CASE Tick /\ UNCHANGED clientVars
  BY <1>6 DEF Next
<1>7. CASE UNCHANGED allVars
  BY <1>7 DEF allVars
<1> QED
  BY <1>1, <1>2, <1>3, <1>4, <1>5, <1>6, <1>7 DEF ClientNext, Progress

LEMMA ShapeStep == ClientShape /\ [ClientNext]_allVars => ClientShape'
<1> SUFFICES ASSUME ClientShape, [ClientNext]_allVars PROVE ClientShape'
  OBVIOUS
<1> USE ClientAssumption DEF ClientShape, Stages, Responses, Step
<1>1. ASSUME NEW c \in Callers, NEW s \in Services, NEW v \in Verbs, Call(c, s, v)
      PROVE  ClientShape'
  BY <1>1 DEF Call
<1>2. ASSUME NEW c \in Callers, NEW r \in Responses, Respond(c, r)
      PROVE  ClientShape'
  BY <1>2 DEF Respond
<1>3. ASSUME NEW c \in Callers, Token(c) \/ Gated(c) \/ Wake(c)
      PROVE  ClientShape'
  BY <1>3 DEF Token, Gated, Wake
<1>4. ASSUME NEW c \in Callers, Gate(c)
      PROVE  ClientShape'
  BY <1>4 DEF Gate
<1>5. ASSUME NEW c \in Callers, Recorded(c)
      PROVE  ClientShape'
  BY <1>5 DEF Recorded
<1>6. ASSUME UNCHANGED clientVars
      PROVE  ClientShape'
  BY <1>6 DEF clientVars
<1> QED
  BY <1>1, <1>2, <1>3, <1>4, <1>5, <1>6
     DEF ClientNext, Progress, Breaker, allVars

\* A caller enters a breaker operation only with its stage, and leaves the
\* stage only when the operation is over.
LEMMA InStepStep ==
  ClientShape /\ TypeOK /\ InStep /\ [ClientNext]_allVars => InStep'
<1> SUFFICES ASSUME ClientShape, TypeOK, InStep, [ClientNext]_allVars,
                    NEW d \in Callers, pc'[d] # "idle"
             PROVE  stage'[d] \in {"gated", "recording"} /\ svc'[d] = target'[d]
  BY DEF InStep
<1> USE DEF ClientShape, TypeOK, InStep, Stages, Points, Step, Begin, Goto
<1>1. ASSUME NEW c \in Callers, NEW s \in Services, NEW v \in Verbs, Call(c, s, v)
      PROVE  stage'[d] \in {"gated", "recording"} /\ svc'[d] = target'[d]
  BY <1>1 DEF Call, vars
<1>2. ASSUME NEW c \in Callers, NEW r \in Responses, Respond(c, r)
      PROVE  stage'[d] \in {"gated", "recording"} /\ svc'[d] = target'[d]
  BY <1>2 DEF Respond, RecordSuccess, RecordFailure, vars
<1>3. ASSUME NEW c \in Callers, Gate(c)
      PROVE  stage'[d] \in {"gated", "recording"} /\ svc'[d] = target'[d]
  BY <1>3 DEF Gate, AllowRequest
<1>4. ASSUME NEW c \in Callers, Token(c) \/ Gated(c) \/ Wake(c) \/ Recorded(c)
      PROVE  stage'[d] \in {"gated", "recording"} /\ svc'[d] = target'[d]
  BY <1>4 DEF Token, Gated, Wake, Recorded, vars
<1>5. ASSUME NEW c \in Callers, Breaker(c)
      PROVE  stage'[d] \in {"gated", "recording"} /\ svc'[d] = target'[d]
  <2>1. svc' = svc /\ pc[c] # "idle" /\ \A e \in Callers \ {c} : pc'[e] = pc[e]
    BY <1>5 DEF Breaker, Continue, Elapsed, HalfOpen, ResetProbe, CountSuccess,
       Close, ClearFailures, ClearSuccesses, Stamp, Judge, CountFailure, Trip
  <2> QED
    BY <1>5, <2>1 DEF Breaker, clientVars
<1>6. CASE Tick /\ UNCHANGED clientVars
  BY <1>6 DEF Tick, clientVars
<1>7. CASE UNCHANGED allVars
  BY <1>7 DEF allVars, vars, clientVars
<1> QED
  BY <1>1, <1>2, <1>3, <1>4, <1>5, <1>6, <1>7 DEF ClientNext, Progress

-----------------------------------------------------------------------------
LEMMA ClientInvariant == ClientSpec => [](ClientShape /\ IInv /\ InStep)
<1>1. ClientInit => ClientShape /\ IInv /\ InStep
  BY ClientInitShape, InitIInv DEF ClientInit
<1>2. ClientShape /\ IInv /\ InStep /\ [ClientNext]_allVars
        => (ClientShape /\ IInv /\ InStep)'
  BY ClientStep, ShapeStep, InStepStep, TypeStep, TripStep, CloseStep DEF IInv
<1> QED
  BY <1>1, <1>2, PTL DEF ClientSpec

\* The retrying client is an implementation of the breakers' specification, for
\* every number of callers, services and retries (http.rs with_retry,
\* post_stream).
THEOREM ClientUsesBreakers == ClientSpec => Spec
<1>1. ClientInit => Init
  BY DEF ClientInit
<1>2. ClientShape /\ [ClientNext]_allVars => [Next]_vars
  BY ClientStep
<1> QED
  BY <1>1, <1>2, ClientInvariant, PTL DEF ClientSpec, Spec

\* The client's variables keep their types, an attempt never leaves the ladder,
\* and a caller is inside a breaker operation only at its gate and its record.
THEOREM ClientTypeCorrect == ClientSpec => []ClientTypeOK
<1>1. ClientShape /\ IInv /\ InStep => ClientTypeOK
  BY DEF ClientShape, IInv, InStep, ClientTypeOK
<1> QED
  BY <1>1, ClientInvariant, PTL

\* A healthy service: its breaker is untouched, no caller is at a point that
\* would touch it, and all its callers use the json verbs.
Untouched(s) ==
  /\ state[s] = CLOSED /\ failureCount[s] = 0
  /\ \A c \in Callers :
       /\ svc[c] = s => pc[c] \in {"idle", "forgive"}
       /\ target[c] = s /\ stage[c] = "gated" => admitted[c] # "no"
       /\ target[c] = s => verb[c] = "json"

Healthy == \A s \in Services \ (Faulty \cup Streamed) : Untouched(s)

\* A json call records nothing but successes for a service outside Faulty, and
\* a success on a CLOSED breaker only clears a count that is already zero.
LEMMA HealthyStep ==
  ClientShape /\ IInv /\ InStep /\ Healthy /\ [ClientNext]_allVars => Healthy'
<1> SUFFICES ASSUME ClientShape, IInv, InStep, Healthy, [ClientNext]_allVars,
                    NEW s \in Services \ (Faulty \cup Streamed)
             PROVE  Untouched(s)'
  BY DEF Healthy
<1>0. Untouched(s)
  BY DEF Healthy
<1> USE DEF ClientShape, IInv, TypeOK, Untouched, Step, Begin, Goto, Match,
        CLOSED, OPEN, HALF_OPEN, Points, Stages, breakerVars
<1>1. ASSUME NEW c \in Callers, NEW t \in Services, NEW v \in Verbs, Call(c, t, v)
      PROVE  Untouched(s)'
  BY <1>0, <1>1, ClientAssumption DEF Call, vars
<1>2. ASSUME NEW c \in Callers, NEW r \in Responses, Respond(c, r)
      PROVE  Untouched(s)'
  <2>1. CASE target[c] = s
    <3>1. r # "retryable" /\ ~Counts(verb[c], r)
      <4>1. verb[c] = "json"
        BY <1>0, <2>1
      <4>2. r # "retryable"
        BY <1>2, <2>1 DEF Respond
      <4> QED
        BY <4>1, <4>2 DEF Counts
    <3>2. CASE r = "ok"
      BY <1>0, <1>2, <2>1, <3>1, <3>2 DEF Respond, RecordSuccess
    <3>3. CASE r # "ok"
      BY <1>0, <1>2, <2>1, <3>1, <3>3 DEF Respond, vars
    <3> QED
      BY <3>2, <3>3
  <2>2. CASE target[c] # s
    BY <1>0, <1>2, <2>2 DEF Respond, RecordSuccess, RecordFailure, vars
  <2> QED
    BY <2>1, <2>2
<1>3. ASSUME NEW c \in Callers, Gate(c)
      PROVE  Untouched(s)'
  BY <1>0, <1>3 DEF Gate, AllowRequest
<1>4. ASSUME NEW c \in Callers, Token(c) \/ Gated(c) \/ Wake(c) \/ Recorded(c)
      PROVE  Untouched(s)'
  BY <1>0, <1>4 DEF Token, Gated, Wake, Recorded, vars
<1>5. ASSUME NEW c \in Callers, Breaker(c)
      PROVE  Untouched(s)'
  <2>0. pc[c] # "idle"
    BY <1>5 DEF Breaker, Continue, Elapsed, HalfOpen, ResetProbe, CountSuccess,
       Close, ClearFailures, ClearSuccesses, Stamp, Judge, CountFailure, Trip
  <2>1. UNCHANGED << stage, target, verb, svc >>
    BY <1>5 DEF Breaker, clientVars, Continue, Elapsed, HalfOpen, ResetProbe,
       CountSuccess, Close, ClearFailures, ClearSuccesses, Stamp, Judge,
       CountFailure, Trip
  <2>2. CASE svc[c] = s
    <3>1. pc[c] = "forgive"
      BY <1>0, <1>5, <2>2 DEF Breaker, Continue, Elapsed, HalfOpen, ResetProbe,
         CountSuccess, Close, ClearFailures, ClearSuccesses, Stamp, Judge,
         CountFailure, Trip
    <3>2. ClearFailures(c)
      BY <1>5, <3>1 DEF Breaker, Continue, Elapsed, HalfOpen, ResetProbe,
         CountSuccess, Close, ClearFailures, ClearSuccesses, Stamp, Judge,
         CountFailure, Trip
    <3> QED
      BY <1>0, <2>1, <2>2, <3>1, <3>2 DEF ClearFailures
  <2>3. CASE svc[c] # s
    <3>1. state'[s] = state[s] /\ failureCount'[s] = failureCount[s]
      BY <1>5, <2>3 DEF Breaker, Continue, Elapsed, HalfOpen, ResetProbe,
         CountSuccess, Close, ClearFailures, ClearSuccesses, Stamp, Judge,
         CountFailure, Trip
    <3>2. \A d \in Callers \ {c} : pc'[d] = pc[d] /\ admitted'[d] = admitted[d]
      BY <1>5 DEF Breaker, Continue, Elapsed, HalfOpen, ResetProbe,
         CountSuccess, Close, ClearFailures, ClearSuccesses, Stamp, Judge,
         CountFailure, Trip
    <3>3. target[c] # s
      BY <2>3, <2>0 DEF InStep
    <3> QED
      BY <1>0, <2>1, <2>3, <3>1, <3>2, <3>3
  <2> QED
    BY <2>2, <2>3
<1>6. CASE Tick /\ UNCHANGED clientVars
  BY <1>0, <1>6 DEF Tick, clientVars
<1>7. CASE UNCHANGED allVars
  BY <1>0, <1>7 DEF allVars, vars, clientVars
<1> QED
  BY <1>1, <1>2, <1>3, <1>4, <1>5, <1>6, <1>7 DEF ClientNext, Progress

\* A service that never fails with a retryable status, and is not called with
\* post_stream, keeps a closed breaker and none of its calls is rejected,
\* whatever happens to the others (http.rs with_retry; breaker.rs "Breakers are
\* per service").
THEOREM OnlyFaultyTripsHolds == ClientSpec => []OnlyFaultyTrips
<1>1. ClientInit => Healthy
  <2> SUFFICES ASSUME ClientInit, NEW s \in Services \ (Faulty \cup Streamed)
               PROVE  Untouched(s)
    BY DEF Healthy
  <2>1. state[s] = CLOSED /\ failureCount[s] = 0
    BY DEF ClientInit, Init
  <2>2. \A c \in Callers : pc[c] = "idle" /\ stage[c] = "ready"
    BY DEF ClientInit, Init
  <2>3. \A c \in Callers : target[c] = s => verb[c] = "json"
    BY ClientAssumption DEF ClientInit
  <2> QED
    BY <2>1, <2>2, <2>3 DEF Untouched
<1>2. ClientShape /\ IInv /\ InStep /\ Healthy /\ [ClientNext]_allVars => Healthy'
  BY HealthyStep
<1>3. Healthy => OnlyFaultyTrips
  BY DEF Healthy, Untouched, OnlyFaultyTrips
<1> QED
  BY <1>1, <1>2, <1>3, ClientInvariant, PTL DEF ClientSpec

(***************************************************************************)
(* Waiting for an operation.                                               *)
(***************************************************************************)

\* The assumptions, for the configuration in use.
LEMMA AssumptionFacts ==
  /\ MaxLatency \in Nat /\ MaxSlack \in Nat
  /\ \A c \in Configs : /\ c.initial \in Nat \ {0} /\ c.max \in Nat
                        /\ c.deadline \in Nat \ {0} /\ c.initial <= c.max
BY OperationAssumption

-----------------------------------------------------------------------------
LEMMA InitTyped == WaitInit => WaitTypeOK
BY AssumptionFacts DEF WaitInit, WaitTypeOK

LEMMA StepTyped == WaitTypeOK /\ [WaitNext]_waitVars => WaitTypeOK'
<1> SUFFICES ASSUME WaitTypeOK, [WaitNext]_waitVars PROVE WaitTypeOK'
  OBVIOUS
<1> USE AssumptionFacts DEF WaitTypeOK, params, service, client
<1>1. CASE Complete
  BY <1>1 DEF Complete
<1>2. CASE Abort
  BY <1>2 DEF Abort
<1>3. CASE Compile
  BY <1>3 DEF Compile
<1>4. CASE Start
  BY <1>4 DEF Start, Finish, Use, Return
<1>5. CASE CheckDeadline
  BY <1>5 DEF CheckDeadline, Return
<1>6. CASE Sleep
  BY <1>6 DEF Sleep, Backoff, Lesser
<1>7. CASE Fetch
  BY <1>7 DEF Fetch, Done
<1>8. CASE Answer
  BY <1>8 DEF Answer, Finish, Use, Return
<1>9. CASE Get
  BY <1>9 DEF Get, Return
<1>10. CASE UNCHANGED waitVars
  BY <1>10 DEF waitVars
<1> QED
  BY <1>1, <1>2, <1>3, <1>4, <1>5, <1>6, <1>7, <1>8, <1>9, <1>10 DEF WaitNext, Client

\* The variables keep their types; the interval never exceeds the cap.
THEOREM WaitTypeCorrect == WaitSpec => []WaitTypeOK
BY InitTyped, StepTyped, PTL DEF WaitSpec

-----------------------------------------------------------------------------
(* How far past the deadline each point of a wait can be: only a wait that    *)
(* passed the check sleeps, and only one that slept asks.                     *)

Overshoot == config.deadline + config.max + MaxSlack

BoundInv ==
  /\ point = "begin" => elapsed = 0
  /\ point = "sleep" => elapsed < config.deadline
  /\ point \in {"fetch", "flight"} => elapsed < Overshoot
  /\ point \in {"check", "get"} => elapsed < Overshoot + MaxLatency
  /\ elapsed < Overshoot + 2 * MaxLatency

LEMMA InitBound == WaitInit => BoundInv
BY AssumptionFacts DEF WaitInit, BoundInv, Overshoot

LEMMA StepBound == WaitTypeOK /\ BoundInv /\ [WaitNext]_waitVars => BoundInv'
<1> SUFFICES ASSUME WaitTypeOK, BoundInv, [WaitNext]_waitVars PROVE BoundInv'
  OBVIOUS
<1> USE AssumptionFacts DEF WaitTypeOK, BoundInv, Overshoot, params, service, client
<1>1. CASE Complete
  BY <1>1 DEF Complete
<1>2. CASE Abort
  BY <1>2 DEF Abort
<1>3. CASE Compile
  BY <1>3 DEF Compile
<1>4. CASE Start
  BY <1>4 DEF Start, Finish, Use, Return
<1>5. CASE CheckDeadline
  BY <1>5 DEF CheckDeadline, Return
<1>6. CASE Sleep
  BY <1>6 DEF Sleep, Backoff, Lesser
<1>7. CASE Fetch
  BY <1>7 DEF Fetch, Done
<1>8. CASE Answer
  BY <1>8 DEF Answer, Finish, Use, Return
<1>9. CASE Get
  BY <1>9 DEF Get, Return
<1>10. CASE UNCHANGED waitVars
  BY <1>10 DEF waitVars
<1> QED
  BY <1>1, <1>2, <1>3, <1>4, <1>5, <1>6, <1>7, <1>8, <1>9, <1>10 DEF WaitNext, Client

\* No wait lasts longer than its deadline, one interval and two requests,
\* whatever the service does.
THEOREM WaitBoundedHolds == WaitSpec => []WaitBounded
<1>1. BoundInv => WaitBounded
  BY DEF BoundInv, WaitBounded, Overshoot
<1> QED
  BY <1>1, WaitTypeCorrect, InitBound, StepBound, PTL DEF WaitSpec

-----------------------------------------------------------------------------
(* What the client knows of the operation at each point of a wait.            *)

KnownInv ==
  /\ operation = "done" <=> deployed = "new"
  /\ Observed /\ point = "flight" /\ seen = "done" => operation # "running"
  /\ Observed /\ (point = "get" \/ result = "ok") => operation = "done"
  /\ Observed /\ result = "ok" /\ waiter = "workflow" => active
  /\ point # "end" => result = "none"

LEMMA InitKnown == WaitInit => KnownInv
BY DEF WaitInit, KnownInv

LEMMA StepKnown == WaitTypeOK /\ KnownInv /\ [WaitNext]_waitVars => KnownInv'
<1> SUFFICES ASSUME WaitTypeOK, KnownInv, [WaitNext]_waitVars PROVE KnownInv'
  OBVIOUS
<1> USE AssumptionFacts DEF WaitTypeOK, KnownInv, Observed, Waiters, params, service, client
<1>1. CASE Complete
  BY <1>1 DEF Complete
<1>2. CASE Abort
  BY <1>2 DEF Abort
<1>3. CASE Compile
  BY <1>3 DEF Compile
<1>4. CASE Start
  BY <1>4 DEF Start, Finish, Use, Return
<1>5. CASE CheckDeadline
  BY <1>5 DEF CheckDeadline, Return
<1>6. CASE Sleep
  BY <1>6 DEF Sleep, Backoff, Lesser
<1>7. CASE Fetch
  BY <1>7 DEF Fetch, Done
<1>8. CASE Answer
  BY <1>8 DEF Answer, Finish, Use, Return
<1>9. CASE Get
  BY <1>9 DEF Get, Return
<1>10. CASE UNCHANGED waitVars
  BY <1>10 DEF waitVars
<1> QED
  BY <1>1, <1>2, <1>3, <1>4, <1>5, <1>6, <1>7, <1>8, <1>9, <1>10 DEF WaitNext, Client

\* A wait for a named operation succeeds only when the new resource is there, and
\* a workflow's only when it is ACTIVE.
THEOREM SuccessIsRealHolds == WaitSpec => []SuccessIsReal
<1>1. KnownInv => SuccessIsReal
  BY DEF KnownInv, SuccessIsReal
<1> QED
  BY <1>1, WaitTypeCorrect, InitKnown, StepKnown, PTL DEF WaitSpec

-----------------------------------------------------------------------------
(* How long after its end an operation can still be unnoticed: the next       *)
(* interval is at most the time waited so far and one initial interval.       *)

Pause == Lesser(config.max, config.initial + finishedAt + MaxLatency)

NoticeInv ==
  /\ interval <= config.initial + elapsed
  /\ point = "begin" => elapsed = 0
  /\ Observed /\ operation # "running" =>
       /\ point \in {"check", "sleep"} => elapsed <= finishedAt + MaxLatency
       /\ point = "flight" /\ seen = "pending" => elapsed = finishedAt
       /\ point \in {"fetch", "flight"} => elapsed <= finishedAt + MaxLatency + Pause + MaxSlack
       /\ point = "get" => elapsed <= finishedAt + 2 * MaxLatency + Pause + MaxSlack
       /\ elapsed <= finishedAt + 3 * MaxLatency + Pause + MaxSlack

LEMMA InitNotice == WaitInit => NoticeInv
BY AssumptionFacts DEF WaitInit, NoticeInv

LEMMA StepNotice == WaitTypeOK /\ KnownInv /\ NoticeInv /\ [WaitNext]_waitVars => NoticeInv'
<1> SUFFICES ASSUME WaitTypeOK, KnownInv, NoticeInv, [WaitNext]_waitVars PROVE NoticeInv'
  OBVIOUS
<1> USE AssumptionFacts DEF WaitTypeOK, KnownInv, NoticeInv, Observed, Waiters, Pause, Lesser, params, service, client
<1>1. CASE Complete
  BY <1>1 DEF Complete
<1>2. CASE Abort
  BY <1>2 DEF Abort
<1>3. CASE Compile
  BY <1>3 DEF Compile
<1>4. CASE Start
  BY <1>4 DEF Start, Finish, Use, Return
<1>5. CASE CheckDeadline
  BY <1>5 DEF CheckDeadline, Return
<1>6. CASE Sleep
  BY <1>6 DEF Sleep, Backoff, Lesser
<1>7. CASE Fetch
  BY <1>7 DEF Fetch, Done
<1>8. CASE Answer
  BY <1>8 DEF Answer, Finish, Use, Return
<1>9. CASE Get
  BY <1>9 DEF Get, Return
<1>10. CASE UNCHANGED waitVars
  BY <1>10 DEF waitVars
<1> QED
  BY <1>1, <1>2, <1>3, <1>4, <1>5, <1>6, <1>7, <1>8, <1>9, <1>10 DEF WaitNext, Client

\* The end of a named operation is noticed within one interval that is no longer
\* than the wait so far, and three requests.
THEOREM NoticedSoonHolds == WaitSpec => []NoticedSoon
<1>1. NoticeInv /\ WaitTypeOK => NoticedSoon
  BY AssumptionFacts DEF NoticeInv, NoticedSoon, Pause, Lesser, WaitTypeOK
<1> QED
  BY <1>1, WaitTypeCorrect, InitKnown, StepKnown, InitNotice, StepNotice, PTL DEF WaitSpec
=============================================================================
