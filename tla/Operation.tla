------------------------------ MODULE Operation ------------------------------
(***************************************************************************)
(* Waiting for a long-running operation: poll_operation of gcpx-core and   *)
(* the four ways the resource crates use it.                               *)
(*   "workflow"  create_workflow, update_workflow: await_workflow_active   *)
(*   "engine"    create_agent_engine: the resource is in the operation     *)
(*   "vertex"    update_agent_engine, update_memory: poll_vertex, then get *)
(*   "agent"     await_agent: its fetch answers "done" without asking      *)
(* Time is counted from the start of the wait and passes while the client  *)
(* sleeps and while a request is in flight.  The service is external: its  *)
(* operation may finish, fail or run for ever, and a workflow may take a   *)
(* while to be compiled after its operation is done.                       *)
(***************************************************************************)
EXTENDS Naturals

CONSTANTS
  Configs,     \* PollConfigs: records of initial, max (interval) and deadline
  MaxLatency,  \* bound on the time a request takes, its retries included
  MaxSlack     \* bound on how late a sleeping task wakes

ASSUME OperationAssumption ==
  /\ Configs \subseteq [initial : Nat \ {0}, max : Nat, deadline : Nat \ {0}]
  /\ \A c \in Configs : c.initial <= c.max
  /\ MaxLatency \in Nat
  /\ MaxSlack \in Nat

Waiters == {"workflow", "engine", "vertex", "agent"}

VARIABLES
  waiter,      \* which of the four
  config,      \* its PollConfig
  named,       \* whether the service's first answer names an operation
  operation,   \* the service's operation: "running", "done" or "failed"
  finishedAt,  \* when it stopped running
  deployed,    \* the resource as the service has it: "none", "old" or "new"
  active,      \* whether the workflow reports ACTIVE
  elapsed,     \* since the wait began
  interval,    \* the next sleep
  seen,        \* the answer in flight: "done", "pending" or "gone"
  point,       \* "begin", "check", "sleep", "fetch", "flight", "get" or "end"
  result       \* "none", "ok", "failed", "timeout" or "error"

service == << operation, finishedAt, deployed, active >>
client  == << elapsed, interval, seen, point, result >>
params  == << waiter, config, named >>
waitVars == << params, service, client >>

Lesser(a, b) == IF a <= b THEN a ELSE b

WaitInit ==
  /\ waiter \in Waiters
  /\ config \in Configs
  /\ named \in BOOLEAN
  /\ operation = "running"
  /\ finishedAt = 0
  /\ deployed \in {"none", "old"}
  /\ active = (deployed = "old")
  /\ elapsed = 0
  /\ interval = config.initial
  /\ seen = "pending"
  /\ point = "begin"
  /\ result = "none"

-----------------------------------------------------------------------------
(* The service. *)

Complete ==
  /\ operation = "running"
  /\ operation' = "done"
  /\ finishedAt' = elapsed
  /\ deployed' = "new"
  /\ active' \in BOOLEAN
  /\ UNCHANGED << params, client >>

Abort ==
  /\ operation = "running"
  /\ operation' = "failed"
  /\ finishedAt' = elapsed
  /\ UNCHANGED << deployed, active, params, client >>

\* "A workflow briefly reports UNAVAILABLE while its source is compiled."
Compile ==
  /\ deployed = "new" /\ ~active
  /\ active' = TRUE
  /\ UNCHANGED << operation, finishedAt, deployed, params, client >>

-----------------------------------------------------------------------------
(* The client. *)

Return(r) == point' = "end" /\ result' = r

\* Whether the answers of the polling are about the operation: the others have no
\* error in them.
Observed == named /\ waiter # "agent"

\* What the waiter does with a finished operation: the create of an engine reads
\* it from the answer, the others get the resource.
Use ==
  \/ waiter # "engine" /\ point' = "get" /\ UNCHANGED result
  \/ waiter = "engine" /\ named /\ Return("ok")
  \/ waiter = "engine" /\ ~named /\ Return("failed")

\* finish of an answer with or without an error, and then Use; the first without a
\* look at the error.
FinishUnread(failed) == Use

Finish(failed) == IF failed THEN Return("failed") ELSE Use

\* The first answer is the operation itself, whoever waits, and may already be done.
\* One that names no operation has no `done` either.
Start ==
  /\ point = "begin"
  /\ IF named /\ operation # "running" THEN Finish(operation = "failed")
                                       ELSE point' = "check" /\ UNCHANGED result
  /\ UNCHANGED << params, service, elapsed, interval, seen >>

\* One interval too many before giving up.
CheckDeadlineLate ==
  /\ point = "check"
  /\ IF elapsed > config.deadline THEN Return("timeout")
                                  ELSE point' = "sleep" /\ UNCHANGED result
  /\ UNCHANGED << params, service, elapsed, interval, seen >>

CheckDeadline ==
  /\ point = "check"
  /\ IF elapsed >= config.deadline THEN Return("timeout")
                                   ELSE point' = "sleep" /\ UNCHANGED result
  /\ UNCHANGED << params, service, elapsed, interval, seen >>

\* The backoff, doubled up to the cap; and without the cap, or four times.
BackoffUncapped == 2 * interval
BackoffFaster == Lesser(4 * interval, config.max)

Backoff == Lesser(2 * interval, config.max)

\* The start of the wait taken anew in every round.
SleepAnew ==
  /\ point = "sleep"
  /\ elapsed' = interval
  /\ interval' = Backoff
  /\ point' = "fetch"
  /\ UNCHANGED << params, service, seen, result >>

Sleep ==
  /\ point = "sleep"
  /\ \E late \in 0..MaxSlack : elapsed' = elapsed + interval + late
  /\ interval' = Backoff
  /\ point' = "fetch"
  /\ UNCHANGED << params, service, seen, result >>

\* What the waiter's fetch closure asks, at the moment the service answers.
Done ==
  \/ waiter = "agent"
  \/ waiter = "workflow" /\ (IF named THEN operation # "running" ELSE active)
  \/ waiter \in {"engine", "vertex"} /\ (named => operation # "running")

\* Asked for by its name, a workflow that is not there yet answers 404.
Fetch ==
  /\ point = "fetch"
  /\ seen' = IF waiter = "workflow" /\ ~named /\ deployed = "none" THEN "gone"
             ELSE IF Done THEN "done" ELSE "pending"
  /\ point' = "flight"
  /\ UNCHANGED << params, service, elapsed, interval, result >>

\* The answer arrives, or an error, the client's own retries being used up.
Answer ==
  /\ point = "flight"
  /\ \E t \in 0..MaxLatency : elapsed' = elapsed + t
  /\ \/ seen = "done" /\ Finish(Observed /\ operation = "failed")
     \/ seen = "pending" /\ point' = "check" /\ UNCHANGED result
     \/ Return("error")
  /\ UNCHANGED << params, service, interval, seen >>

\* Accepts the workflow whatever its state.
GetAny ==
  /\ point = "get"
  /\ \E t \in 0..MaxLatency : elapsed' = elapsed + t
  /\ \/ deployed # "none" /\ Return("ok")
     \/ Return("error")
  /\ UNCHANGED << params, service, interval, seen >>

Get ==
  /\ point = "get"
  /\ \E t \in 0..MaxLatency : elapsed' = elapsed + t
  /\ \/ deployed # "none" /\ (waiter = "workflow" => active) /\ Return("ok")
     \/ deployed # "none" /\ waiter = "workflow" /\ ~active /\ Return("failed")
     \/ Return("error")
  /\ UNCHANGED << params, service, interval, seen >>

Client == Start \/ CheckDeadline \/ Sleep \/ Fetch \/ Answer \/ Get

WaitNext == Complete \/ Abort \/ Compile \/ Client

WaitSpec == WaitInit /\ [][WaitNext]_waitVars

\* The runtime wakes sleeping tasks and every request is answered or runs into
\* its timeout; the service owes nothing.
FairWaitSpec == WaitSpec /\ WF_waitVars(Client)

-----------------------------------------------------------------------------
(* Properties *)

\* The variables keep their types; the interval never exceeds the cap.
WaitTypeOK ==
  /\ waiter \in Waiters /\ config \in Configs /\ named \in BOOLEAN
  /\ operation \in {"running", "done", "failed"}
  /\ finishedAt \in Nat
  /\ deployed \in {"none", "old", "new"} /\ active \in BOOLEAN
  /\ elapsed \in Nat
  /\ interval \in 1..config.max
  /\ seen \in {"done", "pending", "gone"}
  /\ point \in {"begin", "check", "sleep", "fetch", "flight", "get", "end"}
  /\ result \in {"none", "ok", "failed", "timeout", "error"}

\* A wait overshoots its deadline by one interval and two requests at most
\* ("both waits share one deadline").
WaitBounded ==
  elapsed < config.deadline + config.max + MaxSlack + 2 * MaxLatency

\* A wait whose operation has a name succeeds only when the new resource is
\* there, and a workflow's only when it can be invoked.
SuccessIsReal ==
  Observed /\ result = "ok" => deployed = "new" /\ (waiter = "workflow" => active)

\* An operation's end is noticed after one more interval, which is no longer than
\* the cap and no longer than the wait so far ("a quick one should not wait 30s
\* to be noticed"): the bound counts the request that had just missed it, the
\* one that sees it and the one that gets the resource.
NoticedSoon ==
  Observed /\ operation # "running" =>
    elapsed <= finishedAt
                 + Lesser(config.max, config.initial + finishedAt + MaxLatency)
                 + MaxSlack + 3 * MaxLatency

\* Every wait ends, also when the operation never does.
WaitEnds == <>(point = "end")

=============================================================================
