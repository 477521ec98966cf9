----------------------------- MODULE RetryClient -----------------------------
(***************************************************************************)
(* The HTTP client of gcpx-core (http.rs) on top of its circuit breakers:  *)
(* token, gate, attempt, record, and the retry ladder around them.  The    *)
(* GCP services are external: a request in flight gets any answer at any   *)
(* time, except that a service outside Faulty never gives an answer        *)
(* is_retryable accepts.                                                   *)
(***************************************************************************)
EXTENDS CircuitBreaker

CONSTANTS
  Retries,  \* length of RETRY_DELAYS: a json call makes Retries + 1 attempts
  Verbs,    \* the kinds of call in use, a subset of {"json", "stream"}
  Faulty,   \* the services that may fail with a retryable status
  Streamed  \* the services post_stream is used on

ASSUME ClientAssumption ==
  /\ Retries \in Nat
  /\ Verbs \subseteq {"json", "stream"}
  /\ Faulty \subseteq Services /\ Streamed \subseteq Services

VARIABLES
  stage,    \* where each caller is in its call
  target,   \* the service the call is for
  verb,     \* "json": get, post, patch, put, delete_ok; "stream": post_stream
  attempt,  \* index of the current attempt on the retry ladder
  answer    \* the class of the last answer received

clientVars == << stage, target, verb, attempt, answer >>
allVars == << vars, clientVars >>

Stages == {"ready", "token", "gate", "gated", "sleep", "flight", "recording"}

\* What an answer is to the client.  "retryable" is what is_retryable accepts:
\* 408, 429, 5xx, a 400/403 naming a rate limit, a 409 that is not "already
\* exists".  "terminal" is any other status, "transport" a failure without a
\* status, ATTEMPT_TIMEOUT among them.  delete_ok's 404 is "ok".
Responses == {"ok", "retryable", "terminal", "transport"}

ClientInit ==
  /\ Init
  /\ stage = [c \in Callers |-> "ready"]
  /\ target \in [Callers -> Services]
  /\ verb \in [Callers -> Verbs]
  /\ \A c \in Callers : verb[c] = "stream" => target[c] \in Streamed
  /\ attempt = [c \in Callers |-> 0]
  /\ answer = [c \in Callers |-> "ok"]

Step(c, from, to) == stage[c] = from /\ stage' = [stage EXCEPT ![c] = to]

-----------------------------------------------------------------------------
\* A call starts.  The json verbs fetch a token first, post_stream after the gate.
Call(c, s, v) ==
  /\ v = "stream" => s \in Streamed
  /\ Step(c, "ready", IF v = "json" THEN "token" ELSE "gate")
  /\ target' = [target EXCEPT ![c] = s]
  /\ verb' = [verb EXCEPT ![c] = v]
  /\ attempt' = [attempt EXCEPT ![c] = 0]
  /\ answer' = [answer EXCEPT ![c] = "ok"]
  /\ UNCHANGED vars

\* The credential source answers, or fails the call before any request is made.
Token(c) ==
  /\ \/ Step(c, "token", IF verb[c] = "json" THEN "gate" ELSE "flight")
     \/ Step(c, "token", "ready")
  /\ UNCHANGED << vars, target, verb, attempt, answer >>

\* breaker.allow_request(service), before the first attempt and every retry.
Gate(c) ==
  /\ Step(c, "gate", "gated")
  /\ AllowRequest(c, target[c])
  /\ UNCHANGED << target, verb, attempt, answer >>

\* allow_request has returned.  A retry was admitted before it sleeps.
Gated(c) ==
  /\ pc[c] = "idle"
  /\ \/ admitted[c] = "no" /\ Step(c, "gated", "ready")
     \/ admitted[c] # "no" /\ verb[c] = "json"
          /\ Step(c, "gated", IF attempt[c] > 0 THEN "sleep" ELSE "flight")
     \/ admitted[c] # "no" /\ verb[c] = "stream" /\ Step(c, "gated", "token")
  /\ UNCHANGED << vars, target, verb, attempt, answer >>

\* The delay and jitter are over: send, without asking the breaker again.
Wake(c) ==
  /\ Step(c, "sleep", "flight")
  /\ UNCHANGED << vars, target, verb, attempt, answer >>

\* Mutant of Counts: every status counts, as in post_stream.
CountsStatus(v, r) == r \in {"retryable", "terminal"}

\* The answers with_retry and post_stream hand to record_failure.
Counts(v, r) == r = "retryable" \/ (v = "stream" /\ r = "terminal")

\* The answer arrives and recording it begins; an answer that is neither a
\* success nor counted ends the call with the breaker as it was.
Respond(c, r) ==
  /\ r = "retryable" => target[c] \in Faulty
  /\ \/ r = "ok" /\ Step(c, "flight", "recording") /\ RecordSuccess(c, target[c])
     \/ Counts(verb[c], r) /\ Step(c, "flight", "recording") /\ RecordFailure(c, target[c])
     \/ r # "ok" /\ ~Counts(verb[c], r) /\ Step(c, "flight", "ready") /\ UNCHANGED vars
  /\ answer' = [answer EXCEPT ![c] = r]
  /\ UNCHANGED << target, verb, attempt >>

\* Mutant of Recorded: one attempt too many on the ladder.
RecordedOnceMore(c) ==
  LET again == verb[c] = "json" /\ answer[c] = "retryable" /\ attempt[c] <= Retries IN
  /\ pc[c] = "idle"
  /\ Step(c, "recording", IF again THEN "gate" ELSE "ready")
  /\ attempt' = [attempt EXCEPT ![c] = IF again THEN @ + 1 ELSE @]
  /\ UNCHANGED << vars, target, verb, answer >>

\* Mutant of Recorded: the ladder is climbed without counting the attempt.
RecordedForEver(c) ==
  LET again == verb[c] = "json" /\ answer[c] = "retryable" IN
  /\ pc[c] = "idle"
  /\ Step(c, "recording", IF again THEN "gate" ELSE "ready")
  /\ UNCHANGED << vars, target, verb, attempt, answer >>

\* The record has been made: climb the ladder, or return.
Recorded(c) ==
  LET again == verb[c] = "json" /\ answer[c] = "retryable" /\ attempt[c] < Retries IN
  /\ pc[c] = "idle"
  /\ Step(c, "recording", IF again THEN "gate" ELSE "ready")
  /\ attempt' = [attempt EXCEPT ![c] = IF again THEN @ + 1 ELSE @]
  /\ UNCHANGED << vars, target, verb, answer >>

\* The steps inside allow_request, record_success and record_failure.
Breaker(c) == Continue(c) /\ UNCHANGED clientVars

Progress(c) == Token(c) \/ Gate(c) \/ Gated(c) \/ Wake(c) \/ Recorded(c) \/ Breaker(c)

ClientNext ==
  \/ \E c \in Callers :
       \/ \E s \in Services, v \in Verbs : Call(c, s, v)
       \/ \E r \in Responses : Respond(c, r)
       \/ Progress(c)
  \/ Tick /\ UNCHANGED clientVars

ClientSpec == ClientInit /\ [][ClientNext]_allVars

\* tokio runs every task that can run and fires every timer.  A json attempt is
\* answered or times out (ATTEMPT_TIMEOUT) and the credential source answers;
\* post_stream sends without a timeout, so its answer may never come.
Fairness ==
  /\ WF_allVars(Tick /\ UNCHANGED clientVars)
  /\ \A c \in Callers :
       /\ WF_allVars(Progress(c))
       /\ WF_allVars(verb[c] = "json" /\ \E r \in Responses : Respond(c, r))

FairClientSpec == ClientSpec /\ Fairness

-----------------------------------------------------------------------------
ClientTypeOK ==
  /\ TypeOK
  /\ stage \in [Callers -> Stages]
  /\ target \in [Callers -> Services]
  /\ verb \in [Callers -> Verbs]
  /\ attempt \in [Callers -> 0 .. Retries]
  /\ answer \in [Callers -> Responses]
  \* A caller is inside a breaker operation only at its gate and its record,
  \* and the operation is on the breaker of the service it calls.
  /\ \A c \in Callers :
       pc[c] # "idle" => stage[c] \in {"gated", "recording"} /\ svc[c] = target[c]

\* A service that never fails with a retryable status, and is not called with
\* post_stream, keeps a closed breaker with nothing counted against it, and no
\* call to it is rejected: client errors, lost connections and the other
\* services' outages leave it alone (http.rs with_retry, breaker.rs "Breakers
\* are per service").
OnlyFaultyTrips ==
  \A s \in Services \ (Faulty \cup Streamed) :
    /\ state[s] = CLOSED /\ failureCount[s] = 0
    /\ \A c \in Callers :
         target[c] = s /\ stage[c] = "gated" /\ pc[c] = "idle" => admitted[c] # "no"

\* Every json call returns, however its attempts fail and however often other
\* callers open and close the breaker meanwhile (http.rs with_retry).
EveryCallReturns ==
  \A c \in Callers : verb[c] = "json" /\ stage[c] # "ready" ~> stage[c] = "ready"

\* As long as calls keep arriving, an open breaker does not stay open: neither
\* rejected calls nor late failures can push its recovery away for ever
\* (breaker.rs allow_request).
OpenRecovers ==
  \A s \in Services :
    []<>(\E c \in Callers : target[c] = s /\ stage[c] = "gate") => []<>(state[s] # OPEN)

=============================================================================
