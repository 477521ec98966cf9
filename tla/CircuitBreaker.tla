--------------------------- MODULE CircuitBreaker ---------------------------
(***************************************************************************)
(* The per-service circuit breakers of gcpx-core (breaker.rs).  A breaker  *)
(* is four atomics and no lock, so every load, store and fetch_add of      *)
(* allow_request, record_success and record_failure is a step of its own   *)
(* and callers interleave between any two of them.  Steps take effect in   *)
(* program order (sequential consistency).                                 *)
(*                                                                         *)
(* Callers are unconstrained here: any caller may start any operation of   *)
(* any breaker at any time.  RetryClient restricts them to the call        *)
(* sequences http.rs makes.                                                *)
(***************************************************************************)
EXTENDS Naturals

CONSTANTS
  Services,          \* the services that own a breaker
  Callers,           \* the tasks that use the breakers concurrently
  FailureThreshold,  \* failures that open a closed breaker
  SuccessThreshold,  \* successes that close a half-open breaker
  Timeout            \* recovery time of an open breaker, in ticks

ASSUME BreakerAssumption ==
  /\ FailureThreshold \in Nat \ {0}
  /\ SuccessThreshold \in Nat \ {0}
  /\ Timeout \in Nat

VARIABLES
  state,         \* [Services -> {CLOSED, OPEN, HALF_OPEN}]
  failureCount,  \* [Services -> Nat]
  successCount,  \* [Services -> Nat]
  sinceFailure,  \* age of last_failure_ms, saturating at Timeout
  pc,            \* where each caller is inside a breaker operation
  svc,           \* the breaker each caller's operation is about
  stamp,         \* age of the now_ms() a caller read but has not stored yet
  admitted       \* answer of the caller's last allow_request

breakerVars == << state, failureCount, successCount, sinceFailure >>
vars == << state, failureCount, successCount, sinceFailure,
           pc, svc, stamp, admitted >>

CLOSED    == "closed"
OPEN      == "open"
HALF_OPEN == "half_open"
States    == {CLOSED, OPEN, HALF_OPEN}

\* A program point is named for the atomic operation that comes next.
Points == {"idle",
           "elapsed", "halfOpen", "resetProbe",
           "forgive", "countSuccess", "close", "clearFailures", "clearSuccesses",
           "stamp", "judge", "countFailure", "trip", "reopen", "dropProbe"}

\* "no": rejected with CircuitOpen.  Otherwise the state that admitted it.
Answers == {"no", "closed", "probe"}

Goto(c, from, to) == pc[c] = from /\ pc' = [pc EXCEPT ![c] = to]

\* The three-way match on the state that every operation starts from.
Match(s, closed, halfOpen, open) ==
  IF state[s] = CLOSED THEN closed
  ELSE IF state[s] = HALF_OPEN THEN halfOpen ELSE open

Begin(c, s, to) ==
  /\ pc[c] = "idle"
  /\ pc' = [pc EXCEPT ![c] = to]
  /\ svc' = [svc EXCEPT ![c] = s]

Init ==
  /\ state = [s \in Services |-> CLOSED]
  /\ failureCount = [s \in Services |-> 0]
  /\ successCount = [s \in Services |-> 0]
  /\ sinceFailure = [s \in Services |-> 0]
  /\ pc = [c \in Callers |-> "idle"]
  /\ svc \in [Callers -> Services]
  /\ stamp = [c \in Callers |-> 0]
  /\ admitted = [c \in Callers |-> "no"]

-----------------------------------------------------------------------------
(* allow_request *)

\* Load the state: anything but OPEN admits at once.
AllowRequest(c, s) ==
  /\ Begin(c, s, Match(s, "idle", "idle", "elapsed"))
  /\ admitted' = [admitted EXCEPT ![c] = Match(s, "closed", "probe", @)]
  /\ UNCHANGED << breakerVars, stamp >>

\* Compare the elapsed time with the timeout.  now_ms() and the load of
\* last_failure_ms are one step: the subtraction saturates at zero, so a
\* stamp written between them reads like one written just before.
Elapsed(c) ==
  /\ \/ sinceFailure[svc[c]] >= Timeout /\ Goto(c, "elapsed", "halfOpen")
        /\ UNCHANGED admitted
     \/ sinceFailure[svc[c]] < Timeout /\ Goto(c, "elapsed", "idle")
        /\ admitted' = [admitted EXCEPT ![c] = "no"]
  /\ UNCHANGED << breakerVars, svc, stamp >>

\* Mutant of HalfOpen: the probe is admitted, the state not stored.
HalfOpenUnstored(c) ==
  /\ Goto(c, "halfOpen", "resetProbe")
  /\ UNCHANGED << breakerVars, svc, stamp, admitted >>

\* state.store(HALF_OPEN): unconditional, whatever the state is by now.
HalfOpen(c) ==
  /\ Goto(c, "halfOpen", "resetProbe")
  /\ state' = [state EXCEPT ![svc[c]] = HALF_OPEN]
  /\ UNCHANGED << failureCount, successCount, sinceFailure, svc, stamp, admitted >>

ResetProbe(c) ==
  /\ Goto(c, "resetProbe", "idle")
  /\ successCount' = [successCount EXCEPT ![svc[c]] = 0]
  /\ admitted' = [admitted EXCEPT ![c] = "probe"]
  /\ UNCHANGED << state, failureCount, sinceFailure, svc, stamp >>

-----------------------------------------------------------------------------
(* record_success *)

RecordSuccess(c, s) ==
  /\ Begin(c, s, Match(s, "forgive", "countSuccess", "idle"))
  /\ UNCHANGED << breakerVars, stamp, admitted >>

CountSuccess(c) ==
  LET n == successCount[svc[c]] + 1 IN
  /\ Goto(c, "countSuccess", IF n >= SuccessThreshold THEN "close" ELSE "idle")
  /\ successCount' = [successCount EXCEPT ![svc[c]] = n]
  /\ UNCHANGED << state, failureCount, sinceFailure, svc, stamp, admitted >>

\* Mutant of Close: the counts of the half-open phase are left behind.
CloseOnly(c) ==
  /\ Goto(c, "close", "idle")
  /\ state' = [state EXCEPT ![svc[c]] = CLOSED]
  /\ UNCHANGED << failureCount, successCount, sinceFailure, svc, stamp, admitted >>

Close(c) ==
  /\ Goto(c, "close", "clearFailures")
  /\ state' = [state EXCEPT ![svc[c]] = CLOSED]
  /\ UNCHANGED << failureCount, successCount, sinceFailure, svc, stamp, admitted >>

ClearFailures(c) ==
  /\ \/ Goto(c, "clearFailures", "clearSuccesses")
     \/ Goto(c, "forgive", "idle")
  /\ failureCount' = [failureCount EXCEPT ![svc[c]] = 0]
  /\ UNCHANGED << state, successCount, sinceFailure, svc, stamp, admitted >>

\* success_count.store(0), the last step of closing and of reopening.
ClearSuccesses(c) ==
  /\ \/ Goto(c, "clearSuccesses", "idle")
     \/ Goto(c, "dropProbe", "idle")
  /\ successCount' = [successCount EXCEPT ![svc[c]] = 0]
  /\ UNCHANGED << state, failureCount, sinceFailure, svc, stamp, admitted >>

-----------------------------------------------------------------------------
(* record_failure *)

\* Read the clock; the value is stored by the next step.
RecordFailure(c, s) ==
  /\ Begin(c, s, "stamp")
  /\ stamp' = [stamp EXCEPT ![c] = 0]
  /\ UNCHANGED << breakerVars, admitted >>

Stamp(c) ==
  /\ Goto(c, "stamp", "judge")
  /\ sinceFailure' = [sinceFailure EXCEPT ![svc[c]] = stamp[c]]
  /\ stamp' = [stamp EXCEPT ![c] = 0]
  /\ UNCHANGED << state, failureCount, successCount, svc, admitted >>

\* Load the state: an OPEN breaker is only stamped.
Judge(c) ==
  /\ Goto(c, "judge", Match(svc[c], "countFailure", "reopen", "idle"))
  /\ UNCHANGED << breakerVars, svc, stamp, admitted >>

\* Mutant of CountFailure: the threshold is passed, not reached.
CountFailurePast(c) ==
  LET n == failureCount[svc[c]] + 1 IN
  /\ Goto(c, "countFailure", IF n > FailureThreshold THEN "trip" ELSE "idle")
  /\ failureCount' = [failureCount EXCEPT ![svc[c]] = n]
  /\ UNCHANGED << state, successCount, sinceFailure, svc, stamp, admitted >>

CountFailure(c) ==
  LET n == failureCount[svc[c]] + 1 IN
  /\ Goto(c, "countFailure", IF n >= FailureThreshold THEN "trip" ELSE "idle")
  /\ failureCount' = [failureCount EXCEPT ![svc[c]] = n]
  /\ UNCHANGED << state, successCount, sinceFailure, svc, stamp, admitted >>

\* state.store(OPEN): for a closed breaker, and for a failed probe.
Trip(c) ==
  /\ \/ Goto(c, "trip", "idle")
     \/ Goto(c, "reopen", "dropProbe")
  /\ state' = [state EXCEPT ![svc[c]] = OPEN]
  /\ UNCHANGED << failureCount, successCount, sinceFailure, svc, stamp, admitted >>

-----------------------------------------------------------------------------
Older(age) == IF age < Timeout THEN age + 1 ELSE age

\* The monotonic clock advances; only ages up to Timeout can be told apart.
Tick ==
  /\ sinceFailure' = [s \in Services |-> Older(sinceFailure[s])]
  /\ stamp' = [c \in Callers |->
                 IF pc[c] = "stamp" THEN Older(stamp[c]) ELSE stamp[c]]
  /\ UNCHANGED << state, failureCount, successCount, pc, svc, admitted >>

\* The steps inside an operation, after its first one.
Continue(c) ==
  \/ Elapsed(c) \/ HalfOpen(c) \/ ResetProbe(c)
  \/ CountSuccess(c) \/ Close(c) \/ ClearFailures(c) \/ ClearSuccesses(c)
  \/ Stamp(c) \/ Judge(c) \/ CountFailure(c) \/ Trip(c)

Operate(c, s) == AllowRequest(c, s) \/ RecordSuccess(c, s) \/ RecordFailure(c, s)

Next ==
  \/ \E c \in Callers, s \in Services : Operate(c, s)
  \/ \E c \in Callers : Continue(c)
  \/ Tick

Spec == Init /\ [][Next]_vars

-----------------------------------------------------------------------------
TypeOK ==
  /\ state \in [Services -> States]
  /\ failureCount \in [Services -> Nat]
  /\ successCount \in [Services -> Nat]
  /\ sinceFailure \in [Services -> 0 .. Timeout]
  /\ pc \in [Callers -> Points]
  /\ svc \in [Callers -> Services]
  /\ stamp \in [Callers -> 0 .. Timeout]
  /\ admitted \in [Callers -> Answers]

\* Some caller is inside an operation on s, at one of the given points.
Within(s, points) == \E c \in Callers : svc[c] = s /\ pc[c] \in points

\* No failure is lost between the counter and the state: a breaker that reads
\* CLOSED has fewer failures than the threshold, unless a caller is about to
\* open it, or to clear the count after closing it (breaker.rs record_failure
\* and record_success, whose stores are separate atomics).
NoLostTrip ==
  \A s \in Services :
    state[s] = CLOSED /\ failureCount[s] >= FailureThreshold
      => Within(s, {"trip", "clearFailures"})

\* No success is lost either: a count that has reached the threshold belongs to
\* a caller that has still to close the breaker or to clear the count, so a
\* breaker with nobody inside is never left half-open with enough successes.
NoLostClose ==
  \A s \in Services :
    successCount[s] >= SuccessThreshold
      => Within(s, {"close", "clearFailures", "clearSuccesses"})

=============================================================================
