---------------------------- MODULE ScheduledPair ----------------------------
(***************************************************************************)
(* One recurring resource: a Cloud Workflow that holds the definition and  *)
(* a Cloud Scheduler job that runs it, created, updated and deleted by the *)
(* handlers of gcpx-scheduler (SqlJob), gcpx-snapshot (Snapshot) and       *)
(* gcpx-dataproc (IngestJob, ExportJob).  Every call a handler awaits is a *)
(* step: it takes effect, or is refused, or takes effect with its answer   *)
(* lost (a transport error, or a poll that ran into its deadline); the     *)
(* plugin may also die between two calls.                                  *)
(*                                                                         *)
(* The Pulumi engine and the two GCP services are external.  The engine    *)
(* runs one operation on a resource at a time, records what a successful   *)
(* one returns, and replaces by creating before it deletes, because        *)
(* build_diff_response never asks for delete-before-replace.               *)
(***************************************************************************)
EXTENDS Naturals

CONSTANTS
  Kinds,        \* whose handlers: SqlJob, Snapshot, IngestJob, ExportJob
  Definitions,  \* contents a workflow can have (the SQL, the batch arguments)
  Valid,        \* those that BigQuery's dry run accepts
  Schedules,    \* cron expressions
  Identities,   \* service accounts: a new one is a replacement under old names
  MaxFaults,    \* bound on refused calls, lost answers and crashes
  LostAnswers,  \* whether a call may take effect and still report an error
  Crashes,      \* whether the plugin may die inside an operation
  Leftovers,    \* whether the names may be taken before the first create
  Polls,        \* rounds of polling after a delete (10 in the code)
  Missing       \* stands for a workflow, a job or a record that is not there

ASSUME PairAssumption ==
  /\ Kinds \subseteq {"SqlJob", "Snapshot", "IngestJob", "ExportJob"}
  /\ Valid \subseteq Definitions
  /\ MaxFaults \in Nat
  /\ {LostAnswers, Crashes, Leftovers} \subseteq BOOLEAN
  /\ Polls \in Nat \ {0}

VARIABLES
  kind,       \* which resource this is
  workflow,   \* the workflow under this resource's name, or Missing
  job,        \* the scheduler job under this resource's name, or Missing
  table,      \* Snapshot: whether the snapshot table exists
  recorded,   \* the engine's record of the resource, or Missing
  condemned,  \* the engine has still to delete what a replacement replaced
  op,         \* the operation in progress, or the last one
  goal,       \* its inputs
  pc,         \* the next call of its handler, or "idle"
  polled,     \* rounds of polling done by the delete handler
  outcome,    \* how the last operation ended: "none", "ok", "failed"
  faults      \* faults so far

\* How the four pairs of handlers differ; a name followed by another of the same
\* meaning is a variant a bug could turn it into.
DryRuns        == kind = "SqlJob"                      \* validates before it installs
MakesTable     == kind = "Snapshot"                    \* CREATE TABLE IF NOT EXISTS first
PausesOnCreate == kind # "Snapshot"
RewritesNever == FALSE
RewritesAlways == kind \in {"IngestJob", "ExportJob"}  \* update_workflow on every update

cloud  == << workflow, job, table >>
engine == << recorded, condemned >>
vars   == << kind, cloud, engine, op, goal, pc, polled, outcome, faults >>

Inputs == [def : Definitions, sched : Schedules, paused : {"unset", "yes", "no"},
           identity : Identities]
Workflows == [def : Definitions, identity : Identities]
\* inherited is no field of the service's: the job was paused when a create adopted it,
\* and nobody has paused or resumed it since.
Jobs == [sched : Schedules, identity : Identities, paused : BOOLEAN, inherited : BOOLEAN]
Records == [inputs : Inputs, state : {"ENABLED", "PAUSED"}]

Points == {"idle", "dryRun", "makeTable", "createWorkflow", "adoptWorkflow",
           "updateWorkflow", "createJob", "adoptJob", "rollback", "pauseNew", "patchJob",
           "setPaused", "deleteBoth", "deleteJob", "deleteWorkflow", "poll",
           "succeed", "fail"}

ASSUME MissingAssumption == Missing \notin Workflows \cup Jobs \cup Records

\* Leftovers of an earlier life of the resource include its snapshot table.
Init ==
  /\ kind \in Kinds
  /\ workflow = Missing \/ (Leftovers /\ workflow \in [def : Valid, identity : Identities])
  /\ job = Missing \/ (Leftovers /\ job \in {j \in Jobs : ~j.inherited})
  /\ table = (MakesTable /\ workflow # Missing)
  /\ recorded = Missing
  /\ condemned = FALSE
  /\ op = "none"
  /\ goal \in Inputs
  /\ pc = "idle"
  /\ polled = 0
  /\ outcome = "none"
  /\ faults = 0

-----------------------------------------------------------------------------
(* The engine starts an operation. *)

Start(operation, inputs, step) ==
  /\ pc = "idle"
  /\ op' = operation
  /\ goal' = inputs
  /\ pc' = step
  /\ polled' = 0
  /\ UNCHANGED << cloud, engine, outcome, faults >>

Create(inputs) ==
  /\ recorded # Missing => inputs.identity # recorded.inputs.identity
  /\ ~condemned
  /\ Start("create", inputs, IF DryRuns THEN "dryRun"
                             ELSE IF MakesTable THEN "makeTable" ELSE "createWorkflow")

\* The workflow is rewritten only when its definition differs from the recorded
\* one, except by the Dataproc handlers.
Update(inputs) ==
  /\ recorded # Missing /\ ~condemned
  /\ inputs # recorded.inputs /\ inputs.identity = recorded.inputs.identity
  /\ LET rewrite == RewritesAlways \/ recorded.inputs.def # inputs.def
     IN  Start("update", inputs, IF ~rewrite THEN "patchJob"
                                 ELSE IF DryRuns THEN "dryRun" ELSE "updateWorkflow")

Delete ==
  /\ recorded # Missing
  /\ Start("delete", recorded.inputs, "deleteBoth")

-----------------------------------------------------------------------------
(* The calls of the handlers. *)

\* A call from the point `from`: its effect and then onOk, or an error and then
\* onError, with or without the effect.
Invoke(from, effect, onOk, onError) ==
  /\ pc = from
  /\ \/ effect /\ pc' = onOk /\ UNCHANGED faults
     \/ /\ faults < MaxFaults /\ faults' = faults + 1
        /\ UNCHANGED cloud \/ (LostAnswers /\ effect)
        /\ pc' = onError
  /\ UNCHANGED << engine, op, goal, polled, outcome >>

\* An answer that is not a fault: a conflict, a 404, a definition rejected.
Answer(from, condition, to) ==
  /\ pc = from /\ condition
  /\ pc' = to
  /\ UNCHANGED << cloud, engine, op, goal, polled, outcome, faults >>

DryRunOfCreates ==
  \/ Invoke("dryRun", UNCHANGED cloud,
            IF op = "create" THEN "createWorkflow" ELSE "updateWorkflow", "fail")
  \/ Answer("dryRun", goal.def \notin Valid /\ op = "create", "fail")

DryRun ==
  \/ /\ goal.def \in Valid
     /\ Invoke("dryRun", UNCHANGED cloud,
                 IF op = "create" THEN "createWorkflow" ELSE "updateWorkflow", "fail")
  \/ Answer("dryRun", goal.def \notin Valid, "fail")

MakeTable ==
  Invoke("makeTable", table' = TRUE /\ UNCHANGED << workflow, job >>,
         "createWorkflow", "fail")

InstallWorkflow ==
  /\ workflow' = [def |-> goal.def, identity |-> goal.identity]
  /\ UNCHANGED << job, table >>

\* create_or_adopt: a conflict leads to the adopting update.  A POST retried
\* after its answer was lost meets the workflow it created itself.
CreateWorkflow ==
  \/ workflow = Missing
       /\ \/ Invoke("createWorkflow", InstallWorkflow, "createJob", "fail")
          \/ LostAnswers /\ Invoke("createWorkflow", InstallWorkflow, "adoptWorkflow", "fail")
  \/ Answer("createWorkflow", workflow # Missing, "adoptWorkflow")

\* update_workflow patches sourceContents only.
Redefine == workflow' = [workflow EXCEPT !.def = goal.def] /\ UNCHANGED << job, table >>

AdoptWorkflow == workflow # Missing /\ Invoke("adoptWorkflow", Redefine, "createJob", "fail")

UpdateWorkflow ==
  \/ workflow # Missing /\ Invoke("updateWorkflow", Redefine, "patchJob", "fail")
  \/ Answer("updateWorkflow", workflow = Missing, "fail")

\* Cloud Scheduler ignores the state in the bodies of create and patch.
InstallJob(paused, inherited) ==
  /\ job' = [sched |-> goal.sched, identity |-> goal.identity, paused |-> paused,
              inherited |-> inherited]
  /\ UNCHANGED << workflow, table >>

AfterJobUnpaused == "succeed"

AfterJob == IF PausesOnCreate /\ goal.paused = "yes" THEN "pauseNew" ELSE "succeed"

CreateJob ==
  \/ job = Missing
       /\ \/ Invoke("createJob", InstallJob(FALSE, FALSE), AfterJob, "rollback")
          \/ LostAnswers /\ Invoke("createJob", InstallJob(FALSE, FALSE), "adoptJob", "rollback")
  \/ Answer("createJob", job # Missing, "adoptJob")

\* A job that is adopted stays paused: a create pauses but does not resume.
AdoptJob ==
  job # Missing
    /\ Invoke("adoptJob", InstallJob(job.paused, job.paused), AfterJob, "rollback")

\* Only a failed scheduler half deletes the workflow; the result is ignored.
Rollback ==
  Invoke("rollback", workflow' = Missing /\ UNCHANGED << job, table >>, "fail", "fail")

\* An update pauses or resumes what it is told to; and as a create does, only pauses.
AfterPatchAsCreate == IF goal.paused = "yes" THEN "setPaused" ELSE "succeed"

AfterPatch == IF goal.paused = "unset" THEN "succeed" ELSE "setPaused"

PatchJob ==
  \/ job # Missing
       /\ Invoke("patchJob", InstallJob(job.paused, job.inherited), AfterPatch, "fail")
  \/ Answer("patchJob", job = Missing, "fail")

\* The pause and resume endpoints, after a create and after a patch.
SetPaused ==
  \E from \in {"pauseNew", "setPaused"} :
    job # Missing
      /\ Invoke(from, /\ job' = [job EXCEPT !.paused = (goal.paused = "yes"), !.inherited = FALSE]
                      /\ UNCHANGED << workflow, table >>, "succeed", "fail")

\* delete_scheduler_and_workflow sends both deletes together and drops both
\* results: either may arrive first, and a refused one goes unnoticed.
DeleteHalves ==
  \/ Invoke("deleteBoth", job' = Missing /\ UNCHANGED << workflow, table >>,
            "deleteWorkflow", "deleteWorkflow")
  \/ Invoke("deleteBoth", workflow' = Missing /\ UNCHANGED << job, table >>,
            "deleteJob", "deleteJob")
  \/ Invoke("deleteWorkflow", workflow' = Missing /\ UNCHANGED << job, table >>,
            "poll", "poll")
  \/ Invoke("deleteJob", job' = Missing /\ UNCHANGED << workflow, table >>,
            "poll", "poll")

\* Mutant of Poll: polling without counting the rounds.
PollForEver ==
  /\ pc = "poll"
  /\ pc' = IF job = Missing /\ workflow = Missing THEN "succeed" ELSE "poll"
  /\ UNCHANGED << cloud, engine, op, goal, polled, outcome, faults >>

\* Poll until both halves answer 404, or the rounds are used up.  Any other
\* answer, an error included, asks for another round.
Poll ==
  /\ pc = "poll"
  /\ polled' = polled + 1
  /\ \/ /\ UNCHANGED faults
        /\ pc' = IF (job = Missing /\ workflow = Missing) \/ polled' >= Polls
                   THEN "succeed" ELSE "poll"
     \/ /\ faults < MaxFaults /\ faults' = faults + 1
        /\ pc' = IF polled' >= Polls THEN "succeed" ELSE "poll"
  /\ UNCHANGED << cloud, engine, op, goal, outcome >>

-----------------------------------------------------------------------------
(* The handler returns and the engine records the answer. *)

\* create returns the state the service reports, update the state it asked for.
ReturnedState ==
  IF op = "create" /\ job # Missing
    THEN IF job.paused THEN "PAUSED" ELSE "ENABLED"
    ELSE IF goal.paused = "yes" THEN "PAUSED" ELSE "ENABLED"

Succeed ==
  /\ pc = "succeed"
  /\ pc' = "idle"
  /\ outcome' = "ok"
  /\ \/ op \in {"create", "update"}
          /\ condemned' = (op = "create" /\ recorded # Missing)
          /\ recorded' = [inputs |-> goal, state |-> ReturnedState]
     \/ op = "delete" /\ condemned /\ condemned' = FALSE /\ UNCHANGED recorded
     \/ op = "delete" /\ ~condemned /\ recorded' = Missing /\ UNCHANGED condemned
  /\ UNCHANGED << cloud, op, goal, polled, faults >>

Fail ==
  /\ pc = "fail"
  /\ pc' = "idle"
  /\ outcome' = "failed"
  /\ UNCHANGED << cloud, engine, op, goal, polled, faults >>

\* The plugin dies: the engine keeps its record of before the operation.
Crash ==
  /\ Crashes /\ pc # "idle"
  /\ faults < MaxFaults /\ faults' = faults + 1
  /\ pc' = "idle"
  /\ outcome' = "failed"
  /\ UNCHANGED << cloud, engine, op, goal, polled >>

Handler ==
  /\ UNCHANGED kind
  /\ \/ DryRun \/ MakeTable
     \/ CreateWorkflow \/ AdoptWorkflow \/ UpdateWorkflow
     \/ CreateJob \/ AdoptJob \/ Rollback \/ PatchJob \/ SetPaused
     \/ DeleteHalves \/ Poll
     \/ Succeed \/ Fail

Next ==
  \/ /\ UNCHANGED kind
     /\ \/ \E inputs \in Inputs : Create(inputs) \/ Update(inputs)
        \/ Delete
        \/ Crash
  \/ Handler

Spec == Init /\ [][Next]_vars

\* A handler awaits its calls one after the other, and every call is answered or
\* runs into the client's deadline; the engine and the crashes owe nothing.
FairSpec == Spec /\ WF_vars(Handler)

-----------------------------------------------------------------------------
(* Properties *)

\* Every variable keeps its type, and the delete handler never polls more than
\* the rounds it was given.
PairTypeOK ==
  /\ kind \in Kinds
  /\ workflow \in Workflows \cup {Missing}
  /\ job \in Jobs \cup {Missing}
  /\ table \in BOOLEAN
  /\ recorded \in Records \cup {Missing}
  /\ condemned \in BOOLEAN
  /\ op \in {"none", "create", "update", "delete"}
  /\ goal \in Inputs
  /\ pc \in Points
  /\ polled \in 0..Polls
  /\ outcome \in {"none", "ok", "failed"}
  /\ faults \in 0..MaxFaults

Settled == pc = "idle" /\ outcome = "ok"

\* The pair in the cloud is what these inputs ask for: the job is paused, or runs, as
\* they say, but for one that a create found paused.
Deployed(inputs) ==
  /\ workflow # Missing /\ workflow.def = inputs.def
  /\ job # Missing /\ job.sched = inputs.sched
  /\ inputs.paused = "yes" => job.paused
  /\ inputs.paused = "no" => ~job.paused \/ job.inherited

\* As long as no call has failed, and whatever sequence of creates, updates and
\* deletes led here from whatever was left under the names, the pair is the
\* recorded one, or gone when nothing is recorded.  Snapshot's create forgets to
\* pause, so it is excused, and so is a job that was paused when a create adopted it,
\* until an update says whether it is to run.
PairMatches ==
  faults = 0 /\ Settled /\ PausesOnCreate =>
    IF recorded = Missing THEN workflow = Missing /\ job = Missing
                          ELSE Deployed(recorded.inputs)

\* A create that reports success has deployed its inputs, although calls fail,
\* answers get lost, the plugin dies and earlier operations left halves behind
\* (create_or_adopt's promise, and the pause that follows it; an adopted job that was
\* paused is not resumed).
CreateDeploys == Settled /\ op = "create" /\ PausesOnCreate => Deployed(goal)

\* The SqlJob handlers never leave a query in a workflow that the dry run rejects
\* ("scheduler job would fail at runtime").
OnlyValidInstalled == DryRuns /\ workflow # Missing => workflow.def \in Valid

\* After a successful operation of a Dataproc resource the workflow holds the
\* recorded definition, whatever a failed update had left there (the SqlJob and
\* Snapshot handlers rewrite the workflow only when the record differs).
RunsTheBatch ==
  kind \in {"IngestJob", "ExportJob"} /\ Settled /\ recorded # Missing =>
    workflow # Missing /\ workflow.def = recorded.inputs.def

\* Every operation comes to an end: delete stops polling although a half stays.
OperationEnds == pc # "idle" ~> pc = "idle"

\* What the repository says of the pair and the code does not do.

\* A replacement, once the old resource is deleted, leaves the new one deployed.
ReplaceKeepsPair == Settled /\ recorded # Missing /\ ~condemned => Deployed(recorded.inputs)

=============================================================================
