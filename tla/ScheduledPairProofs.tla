-------------------------- MODULE ScheduledPairProofs --------------------------
(***************************************************************************)
(* Theorems about the recurring resource of ScheduledPair, for every kind  *)
(* of resource, any definitions, schedules and identities, and any number  *)
(* of refused calls, lost answers and crashes.  At the end, HistoryKept of *)
(* SnapshotHistory, whose statements its workflow runs.                    *)
(***************************************************************************)
EXTENDS ScheduledPair, SnapshotHistory, FunctionTheorems, FiniteSetTheorems,
        SequenceTheorems, TLAPS

\* Which operation a point of a handler belongs to.
CreatePoints == {"makeTable", "createWorkflow", "adoptWorkflow", "createJob",
                 "adoptJob", "pauseNew", "rollback"}
UpdatePoints == {"updateWorkflow", "patchJob", "setPaused"}
DeletePoints == {"deleteBoth", "deleteJob", "deleteWorkflow", "poll"}

PointOfOp ==
  /\ pc \in CreatePoints => op = "create"
  /\ pc \in UpdatePoints => op = "update"
  /\ pc \in DeletePoints => op = "delete" /\ polled < Polls
  /\ pc = "dryRun" => op \in {"create", "update"}
  /\ pc = "succeed" => op # "none"

TInv == PairTypeOK /\ PointOfOp

\* The assumptions in the shape the provers use.
LEMMA AssumptionFacts ==
  /\ Polls \in Nat \ {0} /\ MaxFaults \in Nat
  /\ Valid \subseteq Definitions
  /\ Missing \notin Workflows /\ Missing \notin Jobs /\ Missing \notin Records
BY PairAssumption, MissingAssumption

LEMMA InitTyped == Init => TInv
<1> SUFFICES ASSUME Init PROVE TInv
  OBVIOUS
<1>0. kind \in Kinds
  BY DEF Init
<1>1. workflow \in Workflows \cup {Missing} /\ job \in Jobs \cup {Missing}
  BY AssumptionFacts DEF Init, Workflows
<1>2. PointOfOp
  BY DEF Init, PointOfOp, CreatePoints, UpdatePoints, DeletePoints
<1>3. table \in BOOLEAN /\ condemned \in BOOLEAN
  BY DEF Init
<1>4. polled \in 0..Polls /\ faults \in 0..MaxFaults
  BY AssumptionFacts DEF Init
<1>5. recorded \in Records \cup {Missing} /\ goal \in Inputs /\ pc \in Points
  BY DEF Init, Points
<1> QED
  BY <1>0, <1>1, <1>2, <1>3, <1>4, <1>5 DEF Init, TInv, PairTypeOK

LEMMA StepTyped == TInv /\ [Next]_vars => TInv'
<1> SUFFICES ASSUME TInv, [Next]_vars PROVE TInv'
  OBVIOUS
<1>0. UNCHANGED kind
  BY DEF Next, Handler, vars
<1> USE AssumptionFacts, <1>0
<1> USE DEF TInv, PairTypeOK, PointOfOp, CreatePoints, UpdatePoints, DeletePoints,
            Points, cloud, engine
<1>1. ASSUME NEW inputs \in Inputs, Create(inputs) PROVE TInv'
  BY <1>1 DEF Create, Start
<1>2. ASSUME NEW inputs \in Inputs, Update(inputs) PROVE TInv'
  BY <1>2 DEF Update, Start
<1>3. CASE Delete
  BY <1>3 DEF Delete, Start, Records
<1>4. CASE DryRun
  BY <1>4 DEF DryRun, Invoke, Answer
<1>5. CASE MakeTable
  <2>1. table' \in BOOLEAN
    BY <1>5 DEF MakeTable, Invoke
  <2>2. UNCHANGED << workflow, job, recorded, condemned, op, goal, polled, outcome >>
    BY <1>5 DEF MakeTable, Invoke
  <2>3. pc = "makeTable" /\ pc' \in {"createWorkflow", "fail"}
    BY <1>5 DEF MakeTable, Invoke
  <2>4. faults' \in 0..MaxFaults
    BY <1>5 DEF MakeTable, Invoke
  <2> QED
    BY <2>1, <2>2, <2>3, <2>4
<1>6. CASE CreateWorkflow
  BY <1>6 DEF CreateWorkflow, Invoke, Answer, InstallWorkflow, Workflows, Inputs
<1>7. CASE AdoptWorkflow
  BY <1>7 DEF AdoptWorkflow, Invoke, Redefine, Workflows, Inputs
<1>8. CASE UpdateWorkflow
  BY <1>8 DEF UpdateWorkflow, Invoke, Answer, Redefine, Workflows, Inputs
<1>9. CASE CreateJob
  <2>1. [sched |-> goal.sched, identity |-> goal.identity, paused |-> FALSE,
         inherited |-> FALSE] \in Jobs
    BY DEF Inputs, Jobs
  <2>2. job' \in Jobs \cup {Missing} /\ UNCHANGED << workflow, table >>
    BY <1>9, <2>1 DEF CreateJob, Invoke, Answer, InstallJob
  <2>3. /\ pc = "createJob"
        /\ pc' \in {"adoptJob", "pauseNew", "succeed", "rollback"}
        /\ UNCHANGED << recorded, condemned, op, goal, polled, outcome >>
    BY <1>9 DEF CreateJob, Invoke, Answer, AfterJob
  <2>4. faults' \in 0..MaxFaults
    BY <1>9 DEF CreateJob, Invoke, Answer, InstallJob
  <2> QED
    BY <2>2, <2>3, <2>4
<1>10. CASE AdoptJob
  BY <1>10 DEF AdoptJob, Invoke, InstallJob, AfterJob, Jobs, Inputs
<1>11. CASE Rollback
  BY <1>11 DEF Rollback, Invoke
<1>12. CASE PatchJob
  BY <1>12 DEF PatchJob, Invoke, Answer, InstallJob, AfterPatch, Jobs, Inputs
<1>13. CASE SetPaused
  <2>1. job \in Jobs =>
          [job EXCEPT !.paused = (goal.paused = "yes"), !.inherited = FALSE] \in Jobs
    <3>1. (goal.paused = "yes") \in BOOLEAN
      OBVIOUS
    <3> QED
      BY <3>1 DEF Jobs
  <2>2. job' \in Jobs \cup {Missing} /\ UNCHANGED << workflow, table >>
    BY <1>13, <2>1 DEF SetPaused, Invoke
  <2>3. /\ pc \in {"pauseNew", "setPaused"}
        /\ pc' \in {"succeed", "fail"}
        /\ UNCHANGED << recorded, condemned, op, goal, polled, outcome >>
    BY <1>13 DEF SetPaused, Invoke
  <2>4. faults' \in 0..MaxFaults
    BY <1>13 DEF SetPaused, Invoke
  <2> QED
    BY <2>2, <2>3, <2>4
<1>14. CASE DeleteHalves
  BY <1>14 DEF DeleteHalves, Invoke
<1>15. CASE Poll
  BY <1>15 DEF Poll
<1>16. CASE Succeed
  <2>1. [inputs |-> goal, state |-> ReturnedState] \in Records
    BY DEF Records, ReturnedState
  <2> QED
    BY <1>16, <2>1 DEF Succeed
<1>17. CASE Fail
  BY <1>17 DEF Fail
<1>18. CASE Crash
  BY <1>18 DEF Crash
<1>19. CASE UNCHANGED vars
  BY <1>19 DEF vars
<1> QED
  BY <1>1, <1>2, <1>3, <1>4, <1>5, <1>6, <1>7, <1>8, <1>9, <1>10, <1>11, <1>12, <1>13,
     <1>14, <1>15, <1>16, <1>17, <1>18, <1>19 DEF Next, Handler

LEMMA Typed == Spec => []TInv
BY InitTyped, StepTyped, PTL DEF Spec

\* The variables keep their types, and delete polls no more than its rounds.
THEOREM PairTypeCorrect == Spec => []PairTypeOK
BY Typed, PTL DEF TInv

-----------------------------------------------------------------------------
(* What the dry run guards. *)

ValidInv ==
  DryRuns =>
    /\ workflow # Missing => workflow.def \in Valid
    /\ pc \in {"createWorkflow", "adoptWorkflow", "updateWorkflow"} => goal.def \in Valid
    /\ pc # "makeTable"

LEMMA InitValid == Init => ValidInv
BY AssumptionFacts DEF Init, ValidInv

LEMMA StepValid == TInv /\ ValidInv /\ [Next]_vars => ValidInv'
<1> SUFFICES ASSUME TInv, ValidInv, [Next]_vars PROVE ValidInv'
  OBVIOUS
<1>0. UNCHANGED kind
  BY DEF Next, Handler, vars
<1> USE AssumptionFacts, <1>0 DEF TInv, PairTypeOK, PointOfOp, CreatePoints, UpdatePoints,
            DeletePoints, ValidInv, DryRuns, RewritesAlways, MakesTable, cloud, engine
<1>1. ASSUME NEW inputs \in Inputs, Create(inputs) PROVE ValidInv'
  BY <1>1 DEF Create, Start
<1>2. ASSUME NEW inputs \in Inputs, Update(inputs) PROVE ValidInv'
  BY <1>2 DEF Update, Start
<1>3. CASE Delete
  BY <1>3 DEF Delete, Start
<1>4. CASE DryRun
  BY <1>4 DEF DryRun, Invoke, Answer
<1>5. CASE MakeTable
  BY <1>5 DEF MakeTable, Invoke
<1>6. CASE CreateWorkflow
  BY <1>6 DEF CreateWorkflow, Invoke, Answer, InstallWorkflow
<1>7. CASE AdoptWorkflow
  BY <1>7 DEF AdoptWorkflow, Invoke, Redefine, Workflows
<1>8. CASE UpdateWorkflow
  BY <1>8 DEF UpdateWorkflow, Invoke, Answer, Redefine, Workflows
<1>9. CASE CreateJob
  BY <1>9 DEF CreateJob, Invoke, Answer, InstallJob, AfterJob
<1>10. CASE AdoptJob
  BY <1>10 DEF AdoptJob, Invoke, InstallJob, AfterJob
<1>11. CASE Rollback
  BY <1>11 DEF Rollback, Invoke
<1>12. CASE PatchJob
  BY <1>12 DEF PatchJob, Invoke, Answer, InstallJob, AfterPatch
<1>13. CASE SetPaused
  BY <1>13 DEF SetPaused, Invoke, Jobs
<1>14. CASE DeleteHalves
  BY <1>14 DEF DeleteHalves, Invoke
<1>15. CASE Poll
  BY <1>15 DEF Poll
<1>16. CASE Succeed
  BY <1>16 DEF Succeed
<1>17. CASE Fail
  BY <1>17 DEF Fail
<1>18. CASE Crash
  BY <1>18 DEF Crash
<1>19. CASE UNCHANGED vars
  BY <1>19 DEF vars
<1> QED
  BY <1>1, <1>2, <1>3, <1>4, <1>5, <1>6, <1>7, <1>8, <1>9, <1>10,
     <1>11, <1>12, <1>13, <1>14, <1>15, <1>16, <1>17, <1>18, <1>19 DEF Next, Handler

\* A SqlJob's workflow only ever holds a query that the dry run accepted.
THEOREM OnlyValidInstalledHolds == Spec => []OnlyValidInstalled
<1>1. ValidInv => OnlyValidInstalled
  BY DEF ValidInv, OnlyValidInstalled
<1> QED
  BY <1>1, Typed, InitValid, StepValid, PTL DEF Spec

-----------------------------------------------------------------------------
(* What a create has achieved at each of its points. *)

Created == op = "create" /\ (pc = "succeed" \/ Settled)

DeployInv ==
  /\ pc \in {"createJob", "adoptJob", "pauseNew"} \/ Created
       => workflow # Missing /\ workflow.def = goal.def
  /\ pc = "pauseNew" \/ Created => job # Missing /\ job.sched = goal.sched
  /\ Created /\ PausesOnCreate /\ goal.paused = "yes" => job.paused
  /\ Created /\ PausesOnCreate /\ goal.paused = "no" => ~job.paused \/ job.inherited

LEMMA InitDeploy == Init => DeployInv
BY DEF Init, DeployInv, Created, Settled

LEMMA StepDeploy == TInv /\ DeployInv /\ [Next]_vars => DeployInv'
<1> SUFFICES ASSUME TInv, DeployInv, [Next]_vars PROVE DeployInv'
  OBVIOUS
<1>0. UNCHANGED kind
  BY DEF Next, Handler, vars
<1> USE AssumptionFacts, <1>0 DEF TInv, PairTypeOK, PointOfOp, CreatePoints, UpdatePoints,
            DeletePoints, DeployInv, PausesOnCreate, Created, Settled, cloud, engine
<1>1. ASSUME NEW inputs \in Inputs, Create(inputs) PROVE DeployInv'
  BY <1>1 DEF Create, Start
<1>2. ASSUME NEW inputs \in Inputs, Update(inputs) PROVE DeployInv'
  BY <1>2 DEF Update, Start
<1>3. CASE Delete
  BY <1>3 DEF Delete, Start
<1>4. CASE DryRun
  BY <1>4 DEF DryRun, Invoke, Answer
<1>5. CASE MakeTable
  BY <1>5 DEF MakeTable, Invoke
<1>6. CASE CreateWorkflow
  <2>1. pc' \in {"createJob", "adoptWorkflow", "fail"} /\ UNCHANGED goal
    BY <1>6 DEF CreateWorkflow, Invoke, Answer
  <2>2. pc' = "createJob" => workflow' = [def |-> goal.def, identity |-> goal.identity]
    BY <1>6 DEF CreateWorkflow, Invoke, Answer, InstallWorkflow
  <2>3. [def |-> goal.def, identity |-> goal.identity] \in Workflows
    BY DEF Workflows, Inputs
  <2> QED
    BY <2>1, <2>2, <2>3
<1>7. CASE AdoptWorkflow
  <2>1. pc' \in {"createJob", "fail"} /\ UNCHANGED goal
    BY <1>7 DEF AdoptWorkflow, Invoke
  <2>2. pc' = "createJob" => workflow # Missing /\ workflow' = [workflow EXCEPT !.def = goal.def]
    BY <1>7 DEF AdoptWorkflow, Invoke, Redefine
  <2>3. workflow # Missing =>
          /\ [workflow EXCEPT !.def = goal.def] \in Workflows
          /\ [workflow EXCEPT !.def = goal.def].def = goal.def
    BY DEF Workflows, Inputs
  <2> QED
    BY <2>1, <2>2, <2>3
<1>8. CASE UpdateWorkflow
  BY <1>8 DEF UpdateWorkflow, Invoke, Answer, Redefine, Workflows
<1>9. CASE CreateJob
  <2> DEFINE new == [sched |-> goal.sched, identity |-> goal.identity, paused |-> FALSE,
                     inherited |-> FALSE]
  <2>1. pc' \in {"adoptJob", AfterJob, "rollback"} /\ UNCHANGED << op, goal, outcome >>
    BY <1>9 DEF CreateJob, Invoke, Answer, InstallJob
  <2>2. UNCHANGED workflow /\ (pc' = AfterJob => job' = new)
    BY <1>9 DEF CreateJob, Invoke, Answer, InstallJob, AfterJob
  <2>3. new \in Jobs /\ new.sched = goal.sched /\ ~new.paused
    BY DEF Inputs, Jobs
  <2>4. AfterJob = "pauseNew" \/ (AfterJob = "succeed" /\ ~(PausesOnCreate /\ goal.paused = "yes"))
    BY DEF AfterJob
  <2>5. pc = "createJob"
    BY <1>9 DEF CreateJob, Invoke, Answer
  <2> HIDE DEF new
  <2> QED
    BY <2>1, <2>2, <2>3, <2>4, <2>5
<1>10. CASE AdoptJob
  <2> DEFINE new == [sched |-> goal.sched, identity |-> goal.identity, paused |-> job.paused,
                     inherited |-> job.paused]
  <2>1. pc' \in {AfterJob, "rollback"} /\ UNCHANGED << op, goal, outcome >>
    BY <1>10 DEF AdoptJob, Invoke, InstallJob
  <2>2. UNCHANGED workflow /\ (pc' = AfterJob => job' = new)
    BY <1>10 DEF AdoptJob, Invoke, InstallJob, AfterJob
  <2>3. new \in Jobs /\ new.sched = goal.sched /\ new.inherited = new.paused
    BY <1>10 DEF Inputs, Jobs, AdoptJob
  <2>4. AfterJob = "pauseNew" \/ (AfterJob = "succeed" /\ ~(PausesOnCreate /\ goal.paused = "yes"))
    BY DEF AfterJob
  <2>5. pc = "adoptJob"
    BY <1>10 DEF AdoptJob, Invoke
  <2> HIDE DEF new
  <2> QED
    BY <2>1, <2>2, <2>3, <2>4, <2>5
<1>11. CASE Rollback
  BY <1>11 DEF Rollback, Invoke
<1>12. CASE PatchJob
  BY <1>12 DEF PatchJob, Invoke, Answer, InstallJob, AfterPatch
<1>13. CASE SetPaused
  <2> DEFINE new == [job EXCEPT !.paused = (goal.paused = "yes"), !.inherited = FALSE]
  <2>1. pc \in {"pauseNew", "setPaused"} /\ job # Missing /\ UNCHANGED << op, goal, outcome, workflow >>
    BY <1>13 DEF SetPaused, Invoke
  <2>2. pc' = "fail" \/ (pc' = "succeed" /\ job' = new)
    BY <1>13 DEF SetPaused, Invoke
  <2>3. new # Missing /\ new.sched = job.sched /\ new.paused = (goal.paused = "yes")
    BY <2>1 DEF Jobs
  <2> HIDE DEF new
  <2> QED
    BY <2>1, <2>2, <2>3
<1>14. CASE DeleteHalves
  BY <1>14 DEF DeleteHalves, Invoke
<1>15. CASE Poll
  BY <1>15 DEF Poll
<1>16. CASE Succeed
  BY <1>16 DEF Succeed
<1>17. CASE Fail
  BY <1>17 DEF Fail
<1>18. CASE Crash
  BY <1>18 DEF Crash
<1>19. CASE UNCHANGED vars
  BY <1>19 DEF vars
<1> QED
  BY <1>1, <1>2, <1>3, <1>4, <1>5, <1>6, <1>7, <1>8, <1>9, <1>10,
     <1>11, <1>12, <1>13, <1>14, <1>15, <1>16, <1>17, <1>18, <1>19 DEF Next, Handler

\* A create that reports success has deployed its inputs, through any failures;
\* of a Snapshot this is not true, because its create never pauses the job.
THEOREM CreateDeploysHolds == Spec => []CreateDeploys
<1>1. DeployInv => CreateDeploys
  BY DEF DeployInv, CreateDeploys, Created, Deployed
<1> QED
  BY <1>1, Typed, InitDeploy, StepDeploy, PTL DEF Spec

-----------------------------------------------------------------------------
(* A resource that is never replaced.                                       *)

\* There is one identity, so no program changes it.
SameIdentity == \A i, j \in Identities : i = j

\* A create is the first, the others have a record to work on, and nothing is
\* condemned.
PlainInv ==
  /\ ~condemned
  /\ op = "create" /\ pc # "idle" => recorded = Missing
  /\ op \in {"update", "delete"} /\ pc # "idle" => recorded # Missing

\* Initially there is no record and no operation.
LEMMA InitPlain == Init => PlainInv
BY DEF Init, PlainInv

\* No step replaces the resource.
LEMMA StepPlain == SameIdentity /\ TInv /\ PlainInv /\ [Next]_vars => PlainInv'
<1> SUFFICES ASSUME SameIdentity, TInv, PlainInv, [Next]_vars PROVE PlainInv'
  OBVIOUS
<1> USE AssumptionFacts DEF PlainInv, engine
<1>1. ASSUME NEW inputs \in Inputs, Create(inputs) PROVE PlainInv'
  <2>1. recorded # Missing => inputs.identity = recorded.inputs.identity
    BY <1>1 DEF SameIdentity, TInv, PairTypeOK, Records, Inputs
  <2> QED
    BY <1>1, <2>1 DEF Create, Start
<1>2. ASSUME NEW inputs \in Inputs, Update(inputs) PROVE PlainInv'
  BY <1>2 DEF Update, Start
<1>3. CASE Delete
  BY <1>3 DEF Delete, Start
<1>4. CASE UNCHANGED << recorded, condemned, op >> /\ pc # "idle"
  BY <1>4
<1>5. CASE DryRun \/ MakeTable \/ CreateWorkflow \/ AdoptWorkflow \/ UpdateWorkflow
  BY <1>4, <1>5 DEF DryRun, MakeTable, CreateWorkflow, AdoptWorkflow, UpdateWorkflow,
                    Invoke, Answer
<1>6. CASE CreateJob \/ AdoptJob \/ Rollback \/ PatchJob \/ SetPaused
  BY <1>4, <1>6 DEF CreateJob, AdoptJob, Rollback, PatchJob, SetPaused, Invoke, Answer
<1>7. CASE DeleteHalves \/ Poll \/ Fail \/ Crash
  BY <1>4, <1>7 DEF DeleteHalves, Poll, Fail, Crash, Invoke
<1>8. CASE Succeed
  <2>1. pc = "succeed" /\ pc' = "idle" /\ op' = op
    BY <1>8 DEF Succeed
  <2>2. ~condemned'
    BY <1>8, <2>1 DEF Succeed
  <2> QED
    BY <2>1, <2>2
<1>9. CASE UNCHANGED vars
  BY <1>9 DEF vars
<1> QED
  BY <1>1, <1>2, <1>3, <1>5, <1>6, <1>7, <1>8, <1>9 DEF Next, Handler

-----------------------------------------------------------------------------
(* What the workflow of a Dataproc resource holds.                          *)

Batch == kind \in {"IngestJob", "ExportJob"}

\* After its first call an update has the new definition in place, and an operation
\* that ended well left the recorded one there.
BatchInv ==
  Batch =>
    /\ pc \in {"patchJob", "setPaused"} \/ (pc = "succeed" /\ op = "update")
         => workflow # Missing /\ workflow.def = goal.def
    /\ Settled /\ recorded # Missing
         => workflow # Missing /\ workflow.def = recorded.inputs.def

\* Initially no operation has ended.
LEMMA InitBatch == Init => BatchInv
BY DEF Init, BatchInv, Settled

\* Every step keeps the definition where the handlers of Dataproc put it.
LEMMA StepBatch ==
  TInv /\ PlainInv /\ DeployInv /\ BatchInv /\ [Next]_vars => BatchInv'
<1> SUFFICES ASSUME TInv, PlainInv, DeployInv, BatchInv, [Next]_vars PROVE BatchInv'
  OBVIOUS
<1>0. UNCHANGED kind
  BY DEF Next, Handler, vars
<1> USE AssumptionFacts, <1>0 DEF TInv, PairTypeOK, PointOfOp, CreatePoints, UpdatePoints,
            DeletePoints, BatchInv, Batch, Settled, cloud, engine
<1>1. ASSUME NEW inputs \in Inputs, Create(inputs) PROVE BatchInv'
  BY <1>1 DEF Create, Start
<1>2. ASSUME NEW inputs \in Inputs, Update(inputs) PROVE BatchInv'
  BY <1>2 DEF Update, Start, RewritesAlways
<1>3. CASE Delete
  BY <1>3 DEF Delete, Start
<1>4. CASE DryRun
  BY <1>4 DEF DryRun, Invoke, Answer
<1>5. CASE MakeTable \/ CreateWorkflow \/ AdoptWorkflow
  BY <1>5 DEF MakeTable, CreateWorkflow, AdoptWorkflow, Invoke, Answer
<1>6. CASE UpdateWorkflow
  <2>1. pc' \in {"patchJob", "fail"} /\ UNCHANGED << goal, outcome >>
    BY <1>6 DEF UpdateWorkflow, Invoke, Answer
  <2>2. pc' = "patchJob" => workflow # Missing /\ workflow' = [workflow EXCEPT !.def = goal.def]
    BY <1>6 DEF UpdateWorkflow, Invoke, Answer, Redefine
  <2>3. workflow # Missing =>
          /\ [workflow EXCEPT !.def = goal.def] \in Workflows
          /\ [workflow EXCEPT !.def = goal.def].def = goal.def
    BY DEF Workflows, Inputs
  <2> QED
    BY <2>1, <2>2, <2>3
<1>7. CASE CreateJob \/ AdoptJob
  BY <1>7 DEF CreateJob, AdoptJob, Invoke, Answer, InstallJob, AfterJob
<1>8. CASE Rollback
  BY <1>8 DEF Rollback, Invoke
<1>9. CASE PatchJob \/ SetPaused
  <2>1. /\ pc \in {"patchJob", "setPaused", "pauseNew"} /\ pc' \in {"setPaused", "succeed", "fail"}
        /\ pc = "pauseNew" => pc' # "setPaused"
        /\ UNCHANGED << workflow, goal, op, outcome >>
    BY <1>9 DEF PatchJob, SetPaused, Invoke, Answer, InstallJob, AfterPatch
  <2>2. CASE pc = "pauseNew"
    <3>1. pc' \in {"succeed", "fail"} /\ op' = "create"
      BY <2>1, <2>2
    <3> QED
      BY <3>1
  <2>3. CASE pc \in {"patchJob", "setPaused"}
    <3>1. Batch => workflow' # Missing /\ workflow'.def = goal'.def
      BY <2>1, <2>3
    <3>2. pc' # "idle"
      BY <2>1
    <3> QED
      BY <3>1, <3>2
  <2> QED
    BY <2>1, <2>2, <2>3
<1>11. CASE DeleteHalves
  BY <1>11 DEF DeleteHalves, Invoke
<1>12. CASE Poll
  BY <1>12 DEF Poll
<1>13. CASE Succeed
  <2>1. CASE op \in {"create", "update"}
    <3>1. recorded'.inputs = goal
      BY <1>13, <2>1 DEF Succeed
    <3> QED
      BY <1>13, <2>1, <3>1 DEF Succeed, DeployInv, Created
  <2>2. CASE op = "delete"
    BY <1>13, <2>2 DEF Succeed, PlainInv
  <2> QED
    BY <1>13, <2>1, <2>2 DEF Succeed
<1>14. CASE Fail \/ Crash
  BY <1>14 DEF Fail, Crash
<1>15. CASE UNCHANGED vars
  BY <1>15 DEF vars
<1> QED
  BY <1>1, <1>2, <1>3, <1>4, <1>5, <1>6, <1>7, <1>8, <1>9, <1>11, <1>12, <1>13,
     <1>14, <1>15 DEF Next, Handler

\* The workflow of a Dataproc resource that is never replaced holds the recorded
\* definition after every successful operation, whatever failed before it.
THEOREM RunsTheBatchHolds ==
  ASSUME SameIdentity
  PROVE  Spec => []RunsTheBatch
<1>1. BatchInv => RunsTheBatch
  BY DEF BatchInv, Batch, RunsTheBatch
<1> QED
  BY <1>1, Typed, InitDeploy, StepDeploy, InitPlain, StepPlain, InitBatch, StepBatch, PTL
     DEF Spec

-----------------------------------------------------------------------------
(* The pair as long as no call has failed.                                  *)

\* Before the first call that changes anything, and after an operation that was turned
\* down, the pair is the recorded one, or gone once an operation has ended well.
Matched ==
  IF recorded = Missing THEN outcome = "ok" => workflow = Missing /\ job = Missing
                        ELSE Deployed(recorded.inputs)

MatchInv ==
  faults = 0 /\ PausesOnCreate =>
    /\ pc \in {"idle", "dryRun", "makeTable", "createWorkflow", "updateWorkflow",
               "deleteBoth", "fail"} => Matched
    /\ pc # "rollback"
    /\ pc \in {"patchJob", "setPaused"} =>
         /\ workflow # Missing /\ workflow.def = goal.def
         /\ job # Missing
    /\ pc = "setPaused" => job.sched = goal.sched
    /\ pc = "succeed" /\ op = "update" => Deployed(goal)
    /\ pc \in {"deleteWorkflow", "poll"} => job = Missing
    /\ pc \in {"deleteJob", "poll"} => workflow = Missing
    /\ pc = "succeed" /\ op = "delete" => workflow = Missing /\ job = Missing

\* What is left under the names was not made by an operation.
LEMMA InitMatch == Init => MatchInv
BY DEF Init, MatchInv, Matched

\* Every step without a fault takes the pair on to what the next point supposes.
LEMMA StepMatch ==
  TInv /\ PlainInv /\ DeployInv /\ MatchInv /\ [Next]_vars => MatchInv'
<1> SUFFICES ASSUME TInv, PlainInv, DeployInv, MatchInv, [Next]_vars PROVE MatchInv'
  OBVIOUS
<1>k. UNCHANGED kind
  BY DEF Next, Handler, vars
<1> SUFFICES ASSUME faults' = 0, PausesOnCreate PROVE MatchInv'
  BY <1>k DEF MatchInv, PausesOnCreate
<1>0. faults = 0 /\ UNCHANGED kind
  <2>1. faults \in Nat
    BY AssumptionFacts DEF TInv, PairTypeOK
  <2>2. faults' = faults \/ faults' = faults + 1
    <3>1. CASE \/ DryRun \/ MakeTable \/ CreateWorkflow \/ AdoptWorkflow \/ UpdateWorkflow
               \/ CreateJob \/ AdoptJob \/ Rollback \/ PatchJob \/ SetPaused \/ DeleteHalves
      BY <3>1 DEF DryRun, MakeTable, CreateWorkflow, AdoptWorkflow, UpdateWorkflow,
         CreateJob, AdoptJob, Rollback, PatchJob, SetPaused, DeleteHalves, Invoke, Answer
    <3>2. CASE Poll \/ Succeed \/ Fail \/ Crash \/ Delete
      BY <3>2 DEF Poll, Succeed, Fail, Crash, Delete, Start
    <3>3. CASE \E inputs \in Inputs : Create(inputs) \/ Update(inputs)
      BY <3>3 DEF Create, Update, Start
    <3> QED
      BY <3>1, <3>2, <3>3 DEF Next, Handler, vars
  <2> QED
    BY <1>k, <2>1, <2>2
<1> USE AssumptionFacts, <1>0 DEF TInv, PairTypeOK, PointOfOp, CreatePoints, UpdatePoints,
            DeletePoints, MatchInv, Matched, cloud, engine
<1>1. ASSUME NEW inputs \in Inputs, Create(inputs) PROVE MatchInv'
  BY <1>1 DEF Create, Start, Deployed
<1>2. ASSUME NEW inputs \in Inputs, Update(inputs) PROVE MatchInv'
  BY <1>2 DEF Update, Start, Deployed
<1>3. CASE Delete
  BY <1>3 DEF Delete, Start, Deployed
<1>4. CASE DryRun \/ MakeTable
  BY <1>4 DEF DryRun, MakeTable, Invoke, Answer, Deployed, MakesTable
<1>5. CASE CreateWorkflow \/ AdoptWorkflow
  BY <1>5 DEF CreateWorkflow, AdoptWorkflow, Invoke, Answer
<1>6. CASE UpdateWorkflow
  <2>1. workflow # Missing /\ job # Missing
    BY <1>6 DEF UpdateWorkflow, Invoke, Answer, PlainInv, Deployed
  <2>2. pc' = "patchJob" /\ workflow' = [workflow EXCEPT !.def = goal.def]
        /\ UNCHANGED << job, goal >>
    BY <1>6, <2>1 DEF UpdateWorkflow, Invoke, Answer, Redefine
  <2>3. [workflow EXCEPT !.def = goal.def] \in Workflows
        /\ [workflow EXCEPT !.def = goal.def].def = goal.def
    BY <2>1 DEF Workflows, Inputs
  <2> QED
    BY <2>1, <2>2, <2>3
<1>7. CASE CreateJob \/ AdoptJob
  <2>1. AfterJob \in {"pauseNew", "succeed"}
    BY DEF AfterJob
  <2>2. pc' \in {"adoptJob", AfterJob}
    <3>1. CASE CreateJob
      <4>1. faults' # faults + 1
        BY <1>0
      <4> QED
        BY <3>1, <4>1 DEF CreateJob, Invoke, Answer, InstallJob
    <3>2. CASE AdoptJob
      BY <3>2 DEF AdoptJob, Invoke
    <3> QED
      BY <1>7, <3>1, <3>2
  <2>3. op = "create" /\ op' = op
    BY <1>7 DEF CreateJob, AdoptJob, Invoke, Answer
  <2> QED
    BY <2>1, <2>2, <2>3
<1>15. ~Rollback
  BY DEF Rollback, Invoke
<1>8. CASE PatchJob
  <2> DEFINE new == [sched |-> goal.sched, identity |-> goal.identity, paused |-> job.paused,
                     inherited |-> job.inherited]
  <2>1. /\ job' = new /\ UNCHANGED << workflow, goal, op >>
        /\ pc' = IF goal.paused = "unset" THEN "succeed" ELSE "setPaused"
        /\ pc = "patchJob"
    BY <1>8 DEF PatchJob, Invoke, Answer, InstallJob, AfterPatch
  <2>2. new \in Jobs /\ new.sched = goal.sched
    BY <2>1 DEF Inputs, Jobs
  <2> HIDE DEF new
  <2> QED
    BY <2>1, <2>2 DEF Deployed
<1>9. CASE SetPaused
  <2>1. job # Missing /\ job' = [job EXCEPT !.paused = (goal.paused = "yes"), !.inherited = FALSE]
        /\ pc' = "succeed" /\ UNCHANGED << workflow, goal, op >>
        /\ pc \in {"pauseNew", "setPaused"}
    BY <1>9 DEF SetPaused, Invoke
  <2>2. job' \in Jobs /\ job'.sched = job.sched /\ job'.paused = (goal.paused = "yes")
    BY <2>1 DEF Jobs
  <2> QED
    BY <2>1, <2>2 DEF Deployed
<1>10. CASE DeleteHalves
  BY <1>10 DEF DeleteHalves, Invoke
<1>11. CASE Poll
  BY <1>11 DEF Poll
<1>12. CASE Succeed
  <2>1. CASE op \in {"create", "update"}
    <3>1. recorded' = [inputs |-> goal, state |-> ReturnedState] /\ pc' = "idle"
          /\ UNCHANGED << workflow, job >>
      BY <1>12, <2>1 DEF Succeed
    <3>2. Deployed(goal)
      BY <1>12, <2>1 DEF Succeed, DeployInv, Created, Deployed
    <3>3. [inputs |-> goal, state |-> ReturnedState] \in Records
      BY DEF Records, ReturnedState
    <3> QED
      BY <3>1, <3>2, <3>3 DEF Deployed
  <2>2. CASE op = "delete"
    BY <1>12, <2>2 DEF Succeed, PlainInv
  <2> QED
    BY <1>12, <2>1, <2>2 DEF Succeed
<1>13. CASE Fail \/ Crash
  BY <1>13 DEF Fail, Crash, Deployed
<1>14. CASE UNCHANGED vars
  BY <1>14 DEF vars, Deployed
<1> QED
  BY <1>1, <1>2, <1>3, <1>4, <1>5, <1>6, <1>7, <1>8, <1>9, <1>10, <1>11, <1>12, <1>13,
     <1>14, <1>15 DEF Next, Handler

\* As long as no call has failed, the pair of a resource that is never replaced is the
\* recorded one after every successful operation, and gone when nothing is recorded.
THEOREM PairMatchesHolds ==
  ASSUME SameIdentity
  PROVE  Spec => []PairMatches
<1>1. MatchInv => PairMatches
  BY DEF MatchInv, Matched, PairMatches, Settled
<1> QED
  BY <1>1, Typed, InitDeploy, StepDeploy, InitPlain, StepPlain, InitMatch, StepMatch, PTL
     DEF Spec

-----------------------------------------------------------------------------
(***************************************************************************)
(* The history that a snapshot keeps.  The invariant says what an          *)
(* execution that nothing has intruded upon has made so far: after its     *)
(* first statement no open version is out of date, and its second makes    *)
(* the open versions current.                                              *)
(***************************************************************************)

Statements == {"invalidateChanged", "insertNewVersions", "invalidateHardDeletes"}
Names == {"id", "new", "dbt_scd_id", "dbt_updated_at", "dbt_valid_from", "dbt_valid_to"}
Rows == [key : Keys, updatedAt : Nat, from : Nat, to : Nat]

\* The variables keep their types.
HistoryTypeOK ==
  /\ source \in [Keys -> Nat] /\ hard \in BOOLEAN
  /\ columns \in Seq(Names) /\ tableColumns \in Seq(Names)
  /\ rows \in Seq(Rows) /\ clock \in Nat \ {0}
  /\ at \in [Executions -> {"idle", "insertNewVersions", "invalidateHardDeletes"}]
  /\ late \in SUBSET Statements /\ tainted \in SUBSET Executions

\* Nothing is younger than the clock, nor a version younger than its row.
ClockOK ==
  /\ \A key \in Keys : source[key] <= clock
  /\ \A i \in DOMAIN rows :
       /\ rows[i].to <= clock /\ rows[i].updatedAt <= clock
       /\ source[rows[i].key] # 0 => rows[i].updatedAt <= source[rows[i].key]

\* The row of no open version has changed.
NoChange == \A i \in DOMAIN rows : Open(rows[i]) => ~Changed(rows[i])

\* The open versions of the rows of the source are current.
OpenOf(key) == {i \in {j \in DOMAIN rows : Open(rows[j])} : rows[i].key = key}
Current ==
  \A key \in Keys : source[key] # 0 => {rows[i].updatedAt : i \in OpenOf(key)} = {source[key]}

\* What an execution that nothing has intruded upon has made so far.
RunsOK ==
  /\ \A e \in Running \ tainted :
       NoChange /\ (at[e] = "invalidateHardDeletes" => hard /\ Current)
  /\ calm => Running \cap tainted = {}

HistoryInv ==
  /\ HistoryTypeOK /\ ClockOK /\ RunsOK
  /\ tableColumns = <<>> => Running = {} /\ ~settled
  /\ late # {} => ~calm
  /\ HistoryKept

-----------------------------------------------------------------------------
\* SetToSeq has each element of a finite set once.
LEMMA SetToSeqOnce ==
  ASSUME NEW S, IsFiniteSet(S)
  PROVE  \E n \in Nat :
           /\ SetToSeq(S) \in [1..n -> S]
           /\ \A i, j \in 1..n : SetToSeq(S)[i] = SetToSeq(S)[j] => i = j
           /\ \A x \in S : \E i \in 1..n : SetToSeq(S)[i] = x
<1> DEFINE n == Cardinality(S)
           s == SetToSeq(S)
<1>1. n \in Nat /\ ExistsBijection(1..n, S)
  BY FS_CardinalityType
<1>2. PICK b : b \in Bijection(1..n, S)
  BY <1>1 DEF ExistsBijection
<1>3. b \in [1..n -> S] /\ \A i, j \in 1..n : b[i] = b[j] => i = j
  BY <1>2, Fun_BijectionProperties
<1>4. b \in [1..n -> S] /\ IsInjective(b)
  BY <1>3 DEF IsInjective
<1>5. s \in [1..n -> S] /\ IsInjective(s)
  BY <1>4 DEF SetToSeq
<1>6. \A i, j \in 1..n : s[i] = s[j] => i = j
  BY <1>5 DEF IsInjective
<1> HIDE DEF s
<1>7. s \in Injection(1..n, S)
  BY <1>5, <1>6, Fun_IsInj
<1>8. IsFiniteSet(1..n) /\ Cardinality(1..n) = n
  BY <1>1, FS_Interval
<1>9. s \in Surjection(1..n, S)
  BY <1>7, <1>8, FS_Injection
<1>10. \A x \in S : \E i \in 1..n : s[i] = x
  BY <1>9 DEF Surjection
<1> QED
  BY <1>1, <1>5, <1>6, <1>10 DEF s

\* The table as a function.
LEMMA RowsAre ==
  ASSUME HistoryTypeOK
  PROVE  Len(rows) \in Nat /\ DOMAIN rows = 1..Len(rows) /\ rows \in [1..Len(rows) -> Rows]
BY LenProperties DEF HistoryTypeOK

\* A version that is closed now.
Closed(row) == [key |-> row.key, updatedAt |-> row.updatedAt, from |-> row.from, to |-> clock]

\* CloseWhere closes open versions and nothing else.
LEMMA ChangedCloses ==
  ASSUME HistoryTypeOK
  PROVE  /\ CloseWhere(Changed) \in [1..Len(rows) -> Rows]
         /\ \A i \in 1..Len(rows) :
              CloseWhere(Changed)[i] =
                IF Open(rows[i]) /\ Changed(rows[i]) THEN Closed(rows[i]) ELSE rows[i]
<1>1. \A i \in 1..Len(rows) : rows[i] \in Rows
  BY RowsAre
<1>2. \A r \in Rows : [r EXCEPT !.to = clock] = Closed(r) /\ Closed(r) \in Rows
  BY DEF Rows, Closed, HistoryTypeOK
<1>3. CloseWhere(Changed) =
        [i \in 1..Len(rows) |-> IF Open(rows[i]) /\ Changed(rows[i])
                                THEN [rows[i] EXCEPT !.to = clock] ELSE rows[i]]
  BY RowsAre DEF CloseWhere
<1>4. \A i \in 1..Len(rows) : [rows[i] EXCEPT !.to = clock] = Closed(rows[i])
  BY <1>1, <1>2
<1>5. \A i \in 1..Len(rows) : CloseWhere(Changed)[i] =
        IF Open(rows[i]) /\ Changed(rows[i]) THEN Closed(rows[i]) ELSE rows[i]
  BY <1>3, <1>4
<1>6. CloseWhere(Changed) = [i \in 1..Len(rows) |-> CloseWhere(Changed)[i]]
  BY <1>3
<1> QED
  BY <1>1, <1>2, <1>5, <1>6

LEMMA GoneCloses ==
  ASSUME HistoryTypeOK
  PROVE  /\ CloseWhere(Gone) \in [1..Len(rows) -> Rows]
         /\ \A i \in 1..Len(rows) :
              CloseWhere(Gone)[i] =
                IF Open(rows[i]) /\ Gone(rows[i]) THEN Closed(rows[i]) ELSE rows[i]
<1>1. \A i \in 1..Len(rows) : rows[i] \in Rows
  BY RowsAre
<1>2. \A r \in Rows : [r EXCEPT !.to = clock] = Closed(r) /\ Closed(r) \in Rows
  BY DEF Rows, Closed, HistoryTypeOK
<1>3. CloseWhere(Gone) =
        [i \in 1..Len(rows) |-> IF Open(rows[i]) /\ Gone(rows[i])
                                THEN [rows[i] EXCEPT !.to = clock] ELSE rows[i]]
  BY RowsAre DEF CloseWhere
<1>4. \A i \in 1..Len(rows) : [rows[i] EXCEPT !.to = clock] = Closed(rows[i])
  BY <1>1, <1>2
<1>5. \A i \in 1..Len(rows) : CloseWhere(Gone)[i] =
        IF Open(rows[i]) /\ Gone(rows[i]) THEN Closed(rows[i]) ELSE rows[i]
  BY <1>3, <1>4
<1>6. CloseWhere(Gone) = [i \in 1..Len(rows) |-> CloseWhere(Gone)[i]]
  BY <1>3
<1> QED
  BY <1>1, <1>2, <1>5, <1>6

\* Versions makes one of each key, in its order.
LEMMA VersionsAre ==
  ASSUME HistoryTypeOK, NEW n \in Nat, NEW keys \in [1..n -> Keys]
  PROVE  /\ Versions(keys) \in [1..n -> Rows]
         /\ \A i \in 1..n : Versions(keys)[i] = Version(keys[i])
<1>1. \A key \in Keys : Version(key) \in Rows
  BY DEF Version, Rows, HistoryTypeOK
<1> QED
  BY <1>1 DEF Versions

\* What INSERT appends: versions of rows of the source, of each that has no open
\* version, twice of one only if several open versions have changed.
LEMMA InsertedIs ==
  ASSUME HistoryTypeOK
  PROVE  \E n \in Nat : \E keys \in [1..n -> Keys] :
           /\ Inserted = rows \o Versions(keys)
           /\ \A i \in 1..n : source[keys[i]] # 0
           /\ \A key \in Keys : source[key] # 0 /\ OpenOf(key) = {} =>
                \E i \in 1..n : keys[i] = key
           /\ NoChange => /\ \A i \in 1..n : OpenOf(keys[i]) = {}
                          /\ \A i, j \in 1..n : keys[i] = keys[j] => i = j
<1> DEFINE present == {key \in Keys : source[key] # 0}
           of(key) == IF OpenOf(key) = {} THEN {<<key, 0>>}
                      ELSE {<<key, i>> : i \in {i \in OpenOf(key) : Changed(rows[i])}}
           news == UNION {of(key) : key \in present}
           s == SetToSeq(news)
<1>1. \A key \in Keys : OpenOf(key) = {i \in DOMAIN rows : rows[i].key = key /\ Open(rows[i])}
  BY DEF OpenOf
<1>2. Inserted = rows \o Versions([i \in DOMAIN s |-> s[i][1]])
  <2>1. \A key \in Keys :
          {i \in DOMAIN rows : rows[i].key = key /\ Open(rows[i])} = OpenOf(key)
    BY <1>1
  <2>2. {IF {i \in DOMAIN rows : rows[i].key = key /\ Open(rows[i])} = {} THEN {<<key, 0>>}
         ELSE {<<key, i>> : i \in {i \in {i \in DOMAIN rows : rows[i].key = key /\ Open(rows[i])} :
                                      Changed(rows[i])}} : key \in {key \in Keys : source[key] # 0}}
        = {of(key) : key \in present}
    BY <2>1
  <2> QED
    BY <2>2 DEF Inserted, InsertFor
<1>3. IsFiniteSet(news)
  <2>1. news \subseteq Keys \X (0..Len(rows))
    BY RowsAre DEF OpenOf
  <2>2. IsFiniteSet(0..Len(rows))
    BY RowsAre, FS_Interval
  <2>3. IsFiniteSet(Keys \X (0..Len(rows)))
    BY <2>2, HistoryAssumption, FS_Product
  <2> QED
    BY <2>1, <2>3, FS_Subset
<1> HIDE DEF s
<1>4. PICK n \in Nat : /\ s \in [1..n -> news]
                       /\ \A i, j \in 1..n : s[i] = s[j] => i = j
                       /\ \A x \in news : \E i \in 1..n : s[i] = x
  BY <1>3, SetToSeqOnce DEF s
<1> DEFINE keys == [i \in 1..n |-> s[i][1]]
<1>5. \A x \in news : /\ x[1] \in present /\ x = <<x[1], x[2]>>
                       /\ x \in of(x[1])
  OBVIOUS
<1>6. keys \in [1..n -> Keys] /\ \A i \in 1..n : source[keys[i]] # 0
  BY <1>4, <1>5
<1>7. \A key \in Keys : source[key] # 0 /\ OpenOf(key) = {} => \E i \in 1..n : keys[i] = key
  <2> SUFFICES ASSUME NEW key \in Keys, source[key] # 0, OpenOf(key) = {}
               PROVE  \E i \in 1..n : keys[i] = key
    OBVIOUS
  <2>1. <<key, 0>> \in news
    OBVIOUS
  <2>2. PICK i \in 1..n : s[i] = <<key, 0>>
    BY <1>4, <2>1
  <2> QED
    BY <2>2
<1>8. ASSUME NoChange
      PROVE  /\ \A i \in 1..n : OpenOf(keys[i]) = {}
             /\ \A i, j \in 1..n : keys[i] = keys[j] => i = j
  <2>1. \A x \in news : OpenOf(x[1]) = {} /\ x = <<x[1], 0>>
    BY <1>5, <1>8 DEF NoChange, OpenOf
  <2>2. \A i \in 1..n : s[i] = <<keys[i], 0>> /\ OpenOf(keys[i]) = {}
    <3> HIDE DEF news, of
    <3> QED
      BY <1>4, <2>1
  <2> HIDE DEF keys
  <2>3. \A i, j \in 1..n : keys[i] = keys[j] => s[i] = s[j]
    BY <2>2
  <2> QED
    BY <1>4, <2>2, <2>3
<1>9. Inserted = rows \o Versions(keys)
  BY <1>2, <1>4
<1> HIDE DEF keys
<1> QED
  BY <1>6, <1>7, <1>8, <1>9

-----------------------------------------------------------------------------
\* What HistoryTypeOK, ClockOK and NoChange say of the rows that INSERT has appended to.
LEMMA InsertedKeeps ==
  ASSUME HistoryTypeOK, ClockOK
  PROVE  \E m \in Nat : \E r \in [1..m -> Rows] :
           /\ Inserted = r /\ r \in Seq(Rows) /\ Len(rows) <= m
           /\ \A i \in 1..Len(rows) : r[i] = rows[i]
           /\ \A i \in 1..m : i > Len(rows) =>
                r[i] = Version(r[i].key) /\ source[r[i].key] # 0
           /\ \A key \in Keys : source[key] # 0 /\ OpenOf(key) = {} =>
                \E i \in 1..m : i > Len(rows) /\ r[i].key = key
           /\ NoChange => /\ \A i \in 1..m : i > Len(rows) => OpenOf(r[i].key) = {}
                          /\ \A i, j \in 1..m : i > Len(rows) /\ j > Len(rows)
                               /\ r[i].key = r[j].key => i = j
<1> DEFINE l == Len(rows)
<1>1. l \in Nat /\ rows \in [1..l -> Rows] /\ rows \in Seq(Rows)
  BY RowsAre DEF HistoryTypeOK
<1>0. PICK n \in Nat : \E keys \in [1..n -> Keys] :
        /\ Inserted = rows \o Versions(keys)
        /\ \A i \in 1..n : source[keys[i]] # 0
        /\ \A key \in Keys : source[key] # 0 /\ OpenOf(key) = {} =>
             \E i \in 1..n : keys[i] = key
        /\ NoChange => /\ \A i \in 1..n : OpenOf(keys[i]) = {}
                       /\ \A i, j \in 1..n : keys[i] = keys[j] => i = j
  BY InsertedIs
<1>2. PICK keys \in [1..n -> Keys] :
        /\ Inserted = rows \o Versions(keys)
        /\ \A i \in 1..n : source[keys[i]] # 0
        /\ \A key \in Keys : source[key] # 0 /\ OpenOf(key) = {} =>
             \E i \in 1..n : keys[i] = key
        /\ NoChange => /\ \A i \in 1..n : OpenOf(keys[i]) = {}
                       /\ \A i, j \in 1..n : keys[i] = keys[j] => i = j
  BY <1>0
<1> DEFINE v == Versions(keys)
           m == l + n
           r == rows \o v
<1>3. /\ v \in [1..n -> Rows]
      /\ \A i \in 1..n : v[i] = Version(keys[i])
  BY VersionsAre
<1>4. v \in Seq(Rows) /\ Len(v) = n
  <2> HIDE DEF v
  <2> QED
    BY <1>3, IsASeq, LenProperties
<1> HIDE DEF v
<1>5. /\ r \in Seq(Rows) /\ Len(r) = m
      /\ \A i \in 1..m : r[i] = IF i <= l THEN rows[i] ELSE v[i - l]
  BY <1>1, <1>4, ConcatProperties
<1>6. r \in [1..m -> Rows] /\ m \in Nat
  <2> HIDE DEF r
  <2> QED
    BY <1>1, <1>5, LenProperties
<1>7. Inserted = r
  BY <1>2 DEF v
<1> HIDE DEF r, l
<1>8. \A key \in Keys : Version(key).key = key
  BY DEF Version
<1>9. \A i \in 1..l : r[i] = rows[i]
  BY <1>1, <1>5
<1>10. \A i \in 1..m : i > l => i - l \in 1..n /\ r[i] = Version(keys[i - l]) /\ r[i].key = keys[i - l]
  BY <1>1, <1>3, <1>5, <1>8
<1>11. \A i \in 1..m : i > l => r[i] = Version(r[i].key) /\ source[r[i].key] # 0
  BY <1>2, <1>10
<1>12. \A key \in Keys : source[key] # 0 /\ OpenOf(key) = {} =>
         \E i \in 1..m : i > l /\ r[i].key = key
  <2> SUFFICES ASSUME NEW key \in Keys, source[key] # 0, OpenOf(key) = {}
               PROVE  \E i \in 1..m : i > l /\ r[i].key = key
    OBVIOUS
  <2>1. PICK i \in 1..n : keys[i] = key
    BY <1>2
  <2>2. i + l \in 1..m /\ i + l > l /\ (i + l) - l = i
    BY <1>1
  <2> QED
    BY <1>10, <2>1, <2>2
<1>13. ASSUME NoChange
       PROVE  /\ \A i \in 1..m : i > l => OpenOf(r[i].key) = {}
              /\ \A i, j \in 1..m : i > l /\ j > l /\ r[i].key = r[j].key => i = j
  <2>1. \A i \in 1..m : i > l => OpenOf(r[i].key) = {}
    BY <1>2, <1>10, <1>13
  <2>2. \A i, j \in 1..m : i > l /\ j > l /\ r[i].key = r[j].key => i - l = j - l
    BY <1>2, <1>10, <1>13
  <2>3. \A i, j \in 1..m : i - l = j - l => i = j
    BY <1>1
  <2> QED
    BY <2>1, <2>2, <2>3
<1>14. l <= m
  BY <1>1
<1> QED
  BY <1>5, <1>6, <1>7, <1>9, <1>11, <1>12, <1>13, <1>14 DEF l

\* The clock goes on, and nothing else that the source has.
TimePasses ==
  /\ clock' \in Nat /\ clock <= clock' /\ clock' <= clock + 1
  /\ UNCHANGED <<source, hard>>

\* What a step that closes open versions keeps.
LEMMA ClosingKeeps ==
  ASSUME HistoryTypeOK, ClockOK, TimePasses,
         rows' \in [1..Len(rows) -> Rows],
         \A i \in 1..Len(rows) :
           rows'[i] = rows[i] \/ (Open(rows[i]) /\ rows'[i] = Closed(rows[i]))
  PROVE  /\ rows' \in Seq(Rows) /\ Len(rows') = Len(rows)
         /\ DOMAIN rows = 1..Len(rows) /\ DOMAIN rows' = 1..Len(rows)
         /\ \A i \in 1..Len(rows) :
              /\ rows'[i].key = rows[i].key /\ rows'[i].updatedAt = rows[i].updatedAt
              /\ rows'[i] \in Rows
              /\ Open(rows'[i]) => rows'[i] = rows[i]
         /\ ClockOK'
         /\ NoChange => NoChange'
         /\ Disjoint => Disjoint'
<1>1. /\ Len(rows) \in Nat /\ DOMAIN rows = 1..Len(rows) /\ rows \in [1..Len(rows) -> Rows]
      /\ clock \in Nat \ {0} /\ source \in [Keys -> Nat]
  BY RowsAre DEF HistoryTypeOK
<1> DEFINE l == Len(rows)
<1> HIDE DEF l
<1>2. rows' \in Seq(Rows) /\ Len(rows') = l /\ DOMAIN rows' = 1..l
  BY <1>1, IsASeq, LenProperties DEF l
<1>3. \A i \in 1..l :
        /\ rows[i] \in Rows /\ rows'[i] \in Rows
        /\ rows'[i].key = rows[i].key /\ rows'[i].updatedAt = rows[i].updatedAt
        /\ rows'[i].from = rows[i].from /\ rows'[i].to \in {rows[i].to, clock}
        /\ Open(rows'[i]) => rows'[i] = rows[i]
        /\ ~Open(rows[i]) => rows'[i] = rows[i]
  BY <1>1 DEF Closed, Open, l
<1>4. ClockOK'
  <2>1. \A key \in Keys : source'[key] <= clock'
    BY <1>1 DEF ClockOK, TimePasses
  <2>2. ASSUME NEW i \in 1..l
        PROVE  /\ rows'[i].to <= clock' /\ rows'[i].updatedAt <= clock'
               /\ source'[rows'[i].key] # 0 => rows'[i].updatedAt <= source'[rows'[i].key]
    <3>1. /\ rows[i].to \in Nat /\ rows[i].updatedAt \in Nat
          /\ rows[i].to <= clock /\ rows[i].updatedAt <= clock
          /\ source[rows[i].key] # 0 => rows[i].updatedAt <= source[rows[i].key]
      BY <1>1, <1>3 DEF ClockOK, Rows, l
    <3>2. source' = source /\ clock' \in Nat /\ clock <= clock'
      BY DEF TimePasses
    <3>3. /\ rows'[i].to = rows[i].to \/ rows'[i].to = clock
          /\ rows'[i].updatedAt = rows[i].updatedAt /\ rows'[i].key = rows[i].key
      BY <1>3
    <3> QED
      BY <1>1, <3>1, <3>2, <3>3
  <2> QED
    BY <1>2, <2>1, <2>2 DEF ClockOK
<1>5. NoChange => NoChange'
  BY <1>1, <1>2, <1>3 DEF NoChange, Changed, TimePasses, l
<1>6. ASSUME Disjoint PROVE Disjoint'
  BY <1>1, <1>2, <1>3, <1>6 DEF Disjoint, l, Open
<1> QED
  BY <1>1, <1>2, <1>3, <1>4, <1>5, <1>6 DEF l

\* invalidateChanged leaves no open version of a row that has changed.
LEMMA ChangedKeeps ==
  ASSUME HistoryTypeOK, ClockOK, TimePasses, rows' = CloseWhere(Changed)
  PROVE  rows' \in Seq(Rows) /\ ClockOK' /\ NoChange' /\ (Disjoint => Disjoint')
<1>1. /\ rows' \in [1..Len(rows) -> Rows]
      /\ \A i \in 1..Len(rows) :
           rows'[i] = IF Open(rows[i]) /\ Changed(rows[i]) THEN Closed(rows[i]) ELSE rows[i]
  BY ChangedCloses
<1>2. \A i \in 1..Len(rows) :
        rows'[i] = rows[i] \/ (Open(rows[i]) /\ rows'[i] = Closed(rows[i]))
  BY <1>1
<1>3. /\ rows' \in Seq(Rows) /\ DOMAIN rows' = 1..Len(rows)
      /\ \A i \in 1..Len(rows) : Open(rows'[i]) => rows'[i] = rows[i]
      /\ ClockOK' /\ (Disjoint => Disjoint')
  BY <1>1, <1>2, ClosingKeeps, Zenon
<1>4. \A i \in 1..Len(rows) : ~Open(Closed(rows[i]))
  BY DEF Open, Closed, HistoryTypeOK
<1>5. NoChange'
  BY <1>1, <1>3, <1>4 DEF NoChange, Changed, TimePasses
<1> QED
  BY <1>3, <1>5

\* invalidateHardDeletes leaves no open version of a row that is gone, and all others.
LEMMA GoneKeeps ==
  ASSUME HistoryTypeOK, ClockOK, TimePasses, rows' = CloseWhere(Gone)
  PROVE  /\ rows' \in Seq(Rows) /\ ClockOK'
         /\ NoChange => NoChange'
         /\ Disjoint => Disjoint'
         /\ Current => Follows'
<1>1. /\ rows' \in [1..Len(rows) -> Rows]
      /\ \A i \in 1..Len(rows) :
           rows'[i] = IF Open(rows[i]) /\ Gone(rows[i]) THEN Closed(rows[i]) ELSE rows[i]
  BY GoneCloses
<1>2. \A i \in 1..Len(rows) :
        rows'[i] = rows[i] \/ (Open(rows[i]) /\ rows'[i] = Closed(rows[i]))
  BY <1>1
<1>3. /\ rows' \in Seq(Rows) /\ DOMAIN rows' = 1..Len(rows) /\ DOMAIN rows = 1..Len(rows)
      /\ \A i \in 1..Len(rows) :
           /\ Open(rows'[i]) => rows'[i] = rows[i]
           /\ rows'[i].key = rows[i].key /\ rows'[i] \in Rows
      /\ ClockOK' /\ (NoChange => NoChange') /\ (Disjoint => Disjoint')
  BY <1>1, <1>2, ClosingKeeps, Zenon
<1>4. \A i \in 1..Len(rows) : ~Open(Closed(rows[i]))
  BY DEF Open, Closed, HistoryTypeOK
<1>5. \A i \in 1..Len(rows) : Open(rows'[i]) => ~Gone(rows[i])
  BY <1>1, <1>4
<1>6. ASSUME Current PROVE Follows'
  <2>1. \A key \in Keys : source[key] # 0 =>
          {i \in {j \in DOMAIN rows' : Open(rows'[j])} : rows'[i].key = key} = OpenOf(key)
    <3>1. ASSUME NEW i \in 1..Len(rows), source[rows[i].key] # 0
          PROVE  rows'[i] = rows[i]
      BY <1>1, <3>1 DEF Gone
    <3>2. ASSUME NEW key \in Keys, source[key] # 0, NEW i \in 1..Len(rows)
          PROVE  Open(rows'[i]) /\ rows'[i].key = key <=> Open(rows[i]) /\ rows[i].key = key
      BY <1>3, <3>1, <3>2
    <3> QED
      BY <1>3, <3>2 DEF OpenOf
  <2>2. \A key \in Keys : source[key] # 0 =>
          {rows'[i].updatedAt : i \in {i \in {j \in DOMAIN rows' : Open(rows'[j])} : rows'[i].key = key}}
            = {rows[i].updatedAt : i \in OpenOf(key)}
    BY <1>3, <2>1
  <2>3. \A i \in {j \in DOMAIN rows' : Open(rows'[j])} : source[rows'[i].key] # 0
    BY <1>3, <1>5 DEF Gone
  <2>4. source' = source
    BY DEF TimePasses
  <2> QED
    BY <1>6, <2>2, <2>3, <2>4 DEF Follows, Current, Open
<1> QED
  BY <1>3, <1>6

\* insertNewVersions adds what is missing, where no open version was out of date.
LEMMA InsertKeeps ==
  ASSUME HistoryTypeOK, ClockOK, TimePasses, rows' = Inserted
  PROVE  /\ rows' \in Seq(Rows) /\ ClockOK'
         /\ NoChange => NoChange' /\ Current'
         /\ NoChange /\ Disjoint => Disjoint'
<1> DEFINE l == Len(rows)
<1>1. /\ l \in Nat /\ DOMAIN rows = 1..l
      /\ \A i \in 1..l : rows[i] \in Rows
      /\ clock \in Nat \ {0} /\ source \in [Keys -> Nat]
      /\ source' = source /\ clock' \in Nat /\ clock <= clock'
  BY RowsAre DEF HistoryTypeOK, TimePasses
<1>2. PICK m \in Nat : \E r \in [1..m -> Rows] :
        /\ Inserted = r /\ r \in Seq(Rows) /\ Len(rows) <= m
        /\ \A i \in 1..Len(rows) : r[i] = rows[i]
        /\ \A i \in 1..m : i > Len(rows) =>
             r[i] = Version(r[i].key) /\ source[r[i].key] # 0
        /\ \A key \in Keys : source[key] # 0 /\ OpenOf(key) = {} =>
             \E i \in 1..m : i > Len(rows) /\ r[i].key = key
        /\ NoChange => /\ \A i \in 1..m : i > Len(rows) => OpenOf(r[i].key) = {}
                       /\ \A i, j \in 1..m : i > Len(rows) /\ j > Len(rows)
                            /\ r[i].key = r[j].key => i = j
  BY InsertedKeeps
<1>3. /\ rows' \in Seq(Rows) /\ rows' \in [1..m -> Rows] /\ l <= m
      /\ \A i \in 1..l : rows'[i] = rows[i]
      /\ \A i \in 1..m : i > l => rows'[i] = Version(rows'[i].key) /\ source[rows'[i].key] # 0
      /\ \A key \in Keys : source[key] # 0 /\ OpenOf(key) = {} =>
           \E i \in 1..m : i > l /\ rows'[i].key = key
      /\ NoChange => \A i \in 1..m : i > l => OpenOf(rows'[i].key) = {}
      /\ NoChange => \A i, j \in 1..m : i > l /\ j > l /\ rows'[i].key = rows'[j].key => i = j
  BY <1>2
<1>4. DOMAIN rows' = 1..m /\ \A i \in 1..m : i \in 1..l \/ i > l
  BY <1>1, <1>3
<1>5. \A i \in 1..m : i > l =>
        /\ rows'[i].key \in Keys /\ rows'[i].updatedAt = source[rows'[i].key]
        /\ rows'[i].from = clock /\ rows'[i].to = 0
  BY <1>3 DEF Version, Rows
<1> HIDE DEF l
<1>6. ClockOK'
  <2>1. \A key \in Keys : source'[key] <= clock'
    BY <1>1 DEF ClockOK
  <2>2. ASSUME NEW i \in 1..l
        PROVE  /\ rows'[i].to <= clock' /\ rows'[i].updatedAt <= clock'
               /\ source'[rows'[i].key] # 0 => rows'[i].updatedAt <= source'[rows'[i].key]
    <3>1. /\ rows[i].to \in Nat /\ rows[i].updatedAt \in Nat
          /\ rows[i].to <= clock /\ rows[i].updatedAt <= clock
          /\ source[rows[i].key] # 0 => rows[i].updatedAt <= source[rows[i].key]
      BY <1>1 DEF ClockOK, Rows
    <3> QED
      BY <1>1, <1>3, <3>1
  <2>3. ASSUME NEW i \in 1..m, i > l
        PROVE  /\ rows'[i].to <= clock' /\ rows'[i].updatedAt <= clock'
               /\ source'[rows'[i].key] # 0 => rows'[i].updatedAt <= source'[rows'[i].key]
    BY <1>1, <1>5, <2>1, <2>3
  <2> QED
    BY <1>4, <2>1, <2>2, <2>3 DEF ClockOK
<1>7. ASSUME NoChange PROVE NoChange'
  <2>1. \A i \in 1..l : Open(rows'[i]) => ~(source[rows'[i].key] > rows'[i].updatedAt)
    BY <1>1, <1>3, <1>7 DEF NoChange, Changed
  <2>2. \A i \in 1..m : i > l => ~(source[rows'[i].key] > rows'[i].updatedAt)
    BY <1>1, <1>5
  <2> QED
    BY <1>1, <1>4, <2>1, <2>2 DEF NoChange, Changed
<1>8. ASSUME NoChange PROVE Current'
  <2> SUFFICES ASSUME NEW key \in Keys, source[key] # 0
               PROVE  {rows'[i].updatedAt : i \in {j \in 1..m : Open(rows'[j]) /\ rows'[j].key = key}}
                        = {source[key]}
    <3>1. \A key \in Keys : OpenOf(key)' = {j \in 1..m : Open(rows'[j]) /\ rows'[j].key = key}
      BY <1>4 DEF OpenOf, Open
    <3> QED
      BY <1>1, <3>1 DEF Current
  <2>1. \A i \in 1..l : Open(rows'[i]) /\ rows'[i].key = key => rows'[i].updatedAt = source[key]
    <3> SUFFICES ASSUME NEW i \in 1..l, Open(rows[i]), rows[i].key = key
                 PROVE  rows[i].updatedAt = source[key]
      BY <1>3
    <3>1. rows[i].updatedAt \in Nat /\ source[key] \in Nat
      BY <1>1 DEF Rows
    <3>2. ~(source[key] > rows[i].updatedAt)
      BY <1>1, <1>8 DEF NoChange, Changed
    <3>3. rows[i].updatedAt <= source[key]
      BY <1>1 DEF ClockOK
    <3> QED
      BY <3>1, <3>2, <3>3
  <2>2. \A i \in 1..m : i > l /\ rows'[i].key = key => rows'[i].updatedAt = source[key]
    BY <1>5
  <2>3. \E i \in 1..m : Open(rows'[i]) /\ rows'[i].key = key
    <3>1. CASE OpenOf(key) = {}
      BY <1>3, <1>5, <3>1 DEF Open
    <3>2. CASE OpenOf(key) # {}
      <4>1. PICK i \in 1..l : Open(rows[i]) /\ rows[i].key = key
        BY <1>1, <3>2 DEF OpenOf
      <4> QED
        BY <1>1, <1>3, <4>1
    <3> QED
      BY <3>1, <3>2
  <2> QED
    BY <1>4, <2>1, <2>2, <2>3
<1>9. ASSUME NoChange, Disjoint PROVE Disjoint'
  <2>1. SUFFICES ASSUME NEW i \in 1..m, NEW j \in 1..m, i < j, rows'[i].key = rows'[j].key
                 PROVE  ~Open(rows'[i]) /\ rows'[i].to <= rows'[j].from
    BY <1>4 DEF Disjoint, Open
  <2>2. CASE j \in 1..l
    BY <1>1, <1>3, <1>9, <2>1, <2>2 DEF Disjoint
  <2>3. CASE i \in 1..l /\ j > l
    <3>1. OpenOf(rows'[j].key) = {} /\ rows'[j].from = clock /\ rows'[i] = rows[i]
      BY <1>3, <1>5, <1>9, <2>3
    <3>2. ~Open(rows[i])
      BY <1>1, <2>1, <2>3, <3>1 DEF OpenOf
    <3>3. rows[i].to <= clock
      BY <1>1, <2>3 DEF ClockOK
    <3> QED
      BY <3>1, <3>2, <3>3
  <2>4. CASE i > l /\ j > l
    BY <1>3, <1>9, <2>1, <2>4
  <2> QED
    BY <1>1, <1>4, <2>1, <2>2, <2>3, <2>4
<1> QED
  BY <1>3, <1>6, <1>7, <1>8, <1>9

-----------------------------------------------------------------------------
LEMMA HistoryStarts == HistoryInit => HistoryInv
<1> SUFFICES ASSUME HistoryInit PROVE HistoryInv
  OBVIOUS
<1>1. HistoryTypeOK
  BY DEF HistoryInit, HistoryTypeOK, Names
<1>2. ClockOK /\ RunsOK /\ Running = {}
  BY DEF HistoryInit, ClockOK, RunsOK, Running
<1>3. HistoryKept
  BY DEF HistoryInit, HistoryKept, Disjoint
<1> QED
  BY <1>1, <1>2, <1>3 DEF HistoryInit, HistoryInv

\* CreateTable begins with the rows of the source.
LEMMA CreateKeeps == HistoryInv /\ CreateTable => HistoryInv'
<1> SUFFICES ASSUME HistoryInv, CreateTable PROVE HistoryInv'
  OBVIOUS
<1> DEFINE present == {key \in Keys : source[key] # 0}
           s == SetToSeq(present)
<1>1. /\ HistoryTypeOK /\ ClockOK /\ Running = {} /\ ~settled
      /\ UNCHANGED <<source, columns, hard, clock, at, late, tainted, calm, settled>>
      /\ tableColumns' = columns \o Scd /\ rows' = Versions(s)
      /\ late # {} => ~calm
  BY DEF HistoryInv, CreateTable, past
<1>2. present \in SUBSET Keys /\ IsFiniteSet(present)
  BY HistoryAssumption, FS_Subset
<1> HIDE DEF s
<1>3. PICK n \in Nat : /\ s \in [1..n -> present]
                       /\ \A i, j \in 1..n : s[i] = s[j] => i = j
  BY <1>2, SetToSeqOnce DEF s
<1>4. s \in [1..n -> Keys]
  BY <1>3
<1>5. rows' \in [1..n -> Rows] /\ \A i \in 1..n : rows'[i] = Version(s[i])
  BY <1>1, <1>4, VersionsAre
<1>6. /\ rows' \in Seq(Rows) /\ DOMAIN rows' = 1..n
      /\ \A i \in 1..n : /\ rows'[i].key = s[i] /\ rows'[i].updatedAt = source[s[i]]
                         /\ rows'[i].to = 0
  BY <1>3, <1>5, IsASeq DEF Version
<1>7. tableColumns' \in Seq(Names) /\ tableColumns' # <<>>
  <2>1. columns \in Seq(Names) /\ Scd \in Seq(Names) /\ Len(Scd) = 4
    BY <1>1 DEF HistoryTypeOK, Scd, Names
  <2> QED
    BY <1>1, <2>1, ConcatProperties, LenProperties, EmptySeq
<1>8. HistoryTypeOK'
  BY <1>1, <1>6, <1>7 DEF HistoryTypeOK
<1>9. ClockOK'
  <2>1. source \in [Keys -> Nat] /\ clock \in Nat /\ \A key \in Keys : source[key] <= clock
    BY <1>1 DEF ClockOK, HistoryTypeOK
  <2>2. \A i \in 1..n : s[i] \in Keys
    BY <1>4
  <2> QED
    BY <1>1, <1>6, <2>1, <2>2 DEF ClockOK
<1>10. Running' = {} /\ RunsOK'
  BY <1>1 DEF Running, RunsOK
<1>11. Disjoint'
  BY <1>3, <1>6 DEF Disjoint
<1> QED
  BY <1>1, <1>7, <1>8, <1>9, <1>10, <1>11 DEF HistoryInv, HistoryKept

\* The columns are no concern of the rows.
LEMMA ColumnsKeep == HistoryInv /\ (Adapt \/ Widen) => HistoryInv'
<1> SUFFICES ASSUME HistoryInv, Adapt \/ Widen PROVE HistoryInv'
  OBVIOUS
<1>1. /\ UNCHANGED <<source, hard, rows, clock, at, late, tainted, calm, settled>>
      /\ columns' \in Seq(Names) /\ tableColumns' \in Seq(Names)
      /\ tableColumns' = <<>> => tableColumns = <<>>
  <2>1. CASE Adapt
    <3>1. PICK i \in DOMAIN columns : tableColumns' = Append(tableColumns, columns[i])
      BY <2>1 DEF Adapt
    <3>2. columns \in Seq(Names) /\ tableColumns \in Seq(Names) /\ columns[i] \in Names
      BY ElementOfSeq, LenProperties DEF HistoryInv, HistoryTypeOK
    <3>3. tableColumns' \in Seq(Names) /\ tableColumns' # <<>>
      BY <3>1, <3>2, AppendProperties
    <3> QED
      BY <2>1, <3>2, <3>3 DEF Adapt, past
  <2>2. CASE Widen
    BY <2>2 DEF Widen, snapshot, past, HistoryInv, HistoryTypeOK, Names
  <2> QED
    BY <2>1, <2>2
<1>2. HistoryTypeOK' /\ ClockOK'
  BY <1>1 DEF HistoryInv, HistoryTypeOK, ClockOK
<1>3. Running' = Running /\ NoChange' = NoChange /\ Current' = Current
  BY <1>1 DEF Running, NoChange, Current, Open, Changed, OpenOf
<1>4. RunsOK'
  BY <1>1, <1>3 DEF HistoryInv, RunsOK
<1>5. HistoryKept'
  BY <1>1 DEF HistoryInv, HistoryKept, Follows, Disjoint, Open
<1> QED
  BY <1>1, <1>2, <1>3, <1>4, <1>5 DEF HistoryInv

\* Whichever statement it is, the rows stay what they are.
LEMMA ResultKeeps ==
  ASSUME HistoryTypeOK, ClockOK, TimePasses, NEW statement \in Statements,
         rows' = Result(statement)
  PROVE  rows' \in Seq(Rows) /\ ClockOK'
<1>1. CASE statement = "invalidateChanged"
  <2>1. rows' = CloseWhere(Changed)
    BY <1>1 DEF Result
  <2> QED
    BY <2>1, ChangedKeeps
<1>2. CASE statement = "insertNewVersions"
  <2>1. rows' = Inserted
    BY <1>2 DEF Result
  <2> QED
    BY <2>1, InsertKeeps
<1>3. CASE statement = "invalidateHardDeletes"
  <2>1. rows' = CloseWhere(Gone)
    BY <1>3 DEF Result
  <2> QED
    BY <2>1, GoneKeeps
<1> QED
  BY <1>1, <1>2, <1>3 DEF Statements

\* A statement of an execution takes effect at once.
LEMMA ExecuteKeeps ==
  ASSUME HistoryInv, NEW e \in Executions, Execute(e)
  PROVE  HistoryInv'
<1> DEFINE statement == StatementOf(e)
<1>1. /\ HistoryTypeOK /\ ClockOK /\ RunsOK /\ (calm => Disjoint)
      /\ tableColumns # <<>> /\ (late # {} => ~calm)
      /\ UNCHANGED <<source, columns, hard, tableColumns, late>>
      /\ rows' = Result(statement)
      /\ at' = [at EXCEPT ![e] = Following(statement)]
      /\ tainted' = Begun(e) \cup (Running \ {e})
      /\ calm' = (calm /\ Running \subseteq {e})
      /\ settled' = (at'[e] = "idle" /\ e \notin Begun(e))
  BY DEF HistoryInv, HistoryKept, Execute, MayExecute
<1>2. TimePasses
  BY <1>1 DEF Execute, MayExecute, TimePasses, HistoryTypeOK
<1>3. \/ at[e] = "idle" /\ statement = "invalidateChanged"
      \/ at[e] \in {"insertNewVersions", "invalidateHardDeletes"} /\ statement = at[e]
  BY <1>1 DEF HistoryTypeOK, StatementOf
<1> HIDE DEF statement
<1>4. /\ statement \in Statements
      /\ Following(statement) \in {"idle", "insertNewVersions", "invalidateHardDeletes"}
      /\ Following(statement) = "insertNewVersions" <=> statement = "invalidateChanged"
      /\ Following(statement) = "invalidateHardDeletes" <=>
           statement = "insertNewVersions" /\ hard
  BY <1>1, <1>3 DEF Statements, Following
<1>5. rows' \in Seq(Rows) /\ ClockOK'
  BY <1>1, <1>2, <1>4, ResultKeeps
<1>6. Running \in SUBSET Executions /\ Begun(e) \in SUBSET Executions
  BY <1>1 DEF Running, Begun, HistoryTypeOK
<1>7. HistoryTypeOK'
  BY <1>1, <1>2, <1>4, <1>5, <1>6 DEF HistoryTypeOK, TimePasses
<1>8. /\ Running' \subseteq Running \cup {e}
      /\ \A f \in Executions : f # e => at'[f] = at[f]
      /\ at'[e] = Following(statement)
  BY <1>1 DEF Running, HistoryTypeOK
<1>9. ASSUME e \notin Begun(e)
      PROVE  /\ NoChange'
             /\ at'[e] = "invalidateHardDeletes" => hard /\ Current'
             /\ at'[e] = "idle" => Follows'
  <2>1. CASE statement = "invalidateChanged"
    <3>1. rows' = CloseWhere(Changed) /\ at'[e] = "insertNewVersions"
      BY <1>1, <1>4, <1>8, <2>1 DEF Result
    <3> QED
      BY <1>1, <1>2, <3>1, ChangedKeeps
  <2>2. CASE statement # "invalidateChanged"
    <3>1. e \in Running \ tainted /\ statement = at[e]
      BY <1>3, <1>9, <2>2 DEF Running, Begun
    <3>2. NoChange /\ (statement = "invalidateHardDeletes" => hard /\ Current)
      BY <1>1, <3>1 DEF RunsOK
    <3>3. CASE statement = "insertNewVersions"
      <4>1. rows' = Inserted
        BY <1>1, <3>3 DEF Result
      <4>2. NoChange' /\ Current'
        BY <1>1, <1>2, <3>2, <4>1, InsertKeeps
      <4>3. at'[e] = "idle" => ~hard
        BY <1>1, <1>4, <1>8, <3>3 DEF HistoryTypeOK
      <4>4. at'[e] = "idle" => Follows'
        BY <1>1, <4>2, <4>3 DEF Follows, Current, OpenOf, Open
      <4> QED
        BY <1>4, <1>8, <4>2, <4>4
    <3>4. CASE statement = "invalidateHardDeletes"
      <4>1. rows' = CloseWhere(Gone)
        BY <1>1, <3>4 DEF Result
      <4>2. NoChange' /\ Follows'
        BY <1>1, <1>2, <3>2, <3>4, <4>1, GoneKeeps
      <4>3. at'[e] = "idle"
        BY <1>4, <1>8, <3>4
      <4> QED
        BY <4>2, <4>3
    <3> QED
      BY <1>4, <2>2, <3>3, <3>4 DEF Statements
  <2> QED
    BY <2>1, <2>2
<1>10. calm' => e \notin Begun(e) /\ tainted' \subseteq Begun(e)
  BY <1>1, <1>3 DEF RunsOK, Running, Begun
<1>11. RunsOK'
  <2>1. \A f \in Running' \ tainted' : f = e /\ e \notin Begun(e) /\ at'[f] # "idle"
    BY <1>1, <1>8 DEF Running
  <2>2. \A f \in Running' \ tainted' :
          NoChange' /\ (at'[f] = "invalidateHardDeletes" => hard' /\ Current')
    BY <1>1, <1>9, <2>1
  <2>3. calm' => Running' \cap tainted' = {}
    BY <1>1, <1>8, <1>10
  <2> QED
    BY <2>2, <2>3 DEF RunsOK
<1>12. ASSUME calm' PROVE Disjoint'
  <2>1. CASE statement = "invalidateChanged"
    <3>1. rows' = CloseWhere(Changed)
      BY <1>1, <2>1 DEF Result
    <3> QED
      BY <1>1, <1>2, <1>12, <3>1, ChangedKeeps
  <2>2. CASE statement = "insertNewVersions"
    <3>1. rows' = Inserted
      BY <1>1, <2>2 DEF Result
    <3>2. e \in Running \ tainted
      BY <1>3, <1>10, <1>12, <2>2 DEF Running, Begun
    <3>3. NoChange
      BY <1>1, <3>2 DEF RunsOK
    <3> QED
      BY <1>1, <1>2, <1>12, <3>1, <3>3, InsertKeeps
  <2>3. CASE statement = "invalidateHardDeletes"
    <3>1. rows' = CloseWhere(Gone)
      BY <1>1, <2>3 DEF Result
    <3> QED
      BY <1>1, <1>2, <1>12, <3>1, GoneKeeps
  <2> QED
    BY <1>4, <2>1, <2>2, <2>3 DEF Statements
<1>13. HistoryKept'
  BY <1>1, <1>9, <1>12 DEF HistoryKept
<1>14. late' # {} => ~calm'
  BY <1>1
<1> QED
  BY <1>1, <1>5, <1>7, <1>11, <1>13, <1>14 DEF HistoryInv

\* An execution that stops, or whose statement outlives its call.
LEMMA EndsKeep ==
  ASSUME HistoryInv, NEW e \in Executions, Abort(e) \/ Outlive(e)
  PROVE  HistoryInv'
<1>1. /\ HistoryTypeOK /\ ClockOK /\ RunsOK /\ (calm => Disjoint)
      /\ tableColumns # <<>> /\ (late # {} => ~calm)
      /\ UNCHANGED <<source, columns, hard, rows, tableColumns>>
      /\ settled' = FALSE
      /\ clock' \in Nat \ {0} /\ clock <= clock'
  BY DEF HistoryInv, HistoryKept, Abort, Outlive, MayExecute, snapshot, HistoryTypeOK
<1>2. /\ late' \in SUBSET Statements
      /\ \/ at'[e] = "idle" /\ UNCHANGED <<late, tainted, calm>>
         \/ tainted' = tainted \cup {e} /\ calm' = FALSE
      /\ at' = [at EXCEPT ![e] = at'[e]]
      /\ at'[e] \in {"idle", "insertNewVersions", "invalidateHardDeletes"}
  <2>1. StatementOf(e) \in Statements
    BY <1>1 DEF StatementOf, Statements, HistoryTypeOK
  <2>2. Following(StatementOf(e)) \in {"idle", "insertNewVersions", "invalidateHardDeletes"}
    BY DEF Following
  <2> QED
    BY <1>1, <2>1, <2>2 DEF Abort, Outlive, HistoryTypeOK
<1>3. HistoryTypeOK'
  BY <1>1, <1>2 DEF HistoryTypeOK
<1>4. ClockOK'
  <2>1. /\ clock \in Nat /\ source \in [Keys -> Nat] /\ source' = source /\ rows' = rows
        /\ \A i \in DOMAIN rows : rows[i].to \in Nat /\ rows[i].updatedAt \in Nat
    BY <1>1, RowsAre DEF HistoryTypeOK, Rows
  <2>2. \A i \in DOMAIN rows : rows[i].to <= clock' /\ rows[i].updatedAt <= clock'
    BY <1>1, <2>1 DEF ClockOK
  <2>3. \A key \in Keys : source[key] <= clock'
    BY <1>1, <2>1 DEF ClockOK
  <2> QED
    BY <1>1, <2>1, <2>2, <2>3 DEF ClockOK
<1>5. NoChange' = NoChange /\ Current' = Current /\ Disjoint' = Disjoint
  BY <1>1 DEF NoChange, Current, Open, Changed, OpenOf, Disjoint
<1>6. /\ \A f \in Running' \ tainted' : f \in Running \ tainted /\ at'[f] = at[f]
      /\ calm' => calm /\ Running' \subseteq Running /\ tainted' = tainted
  BY <1>1, <1>2 DEF Running, HistoryTypeOK
<1>7. RunsOK'
  BY <1>1, <1>5, <1>6 DEF RunsOK
<1>8. (late' # {} => ~calm') /\ HistoryKept'
  BY <1>1, <1>2, <1>5, <1>6 DEF HistoryKept
<1> QED
  BY <1>1, <1>3, <1>4, <1>7, <1>8 DEF HistoryInv

\* A late statement, and a row of the source that changes, taint whatever is running.
LEMMA IntrusionsKeep ==
  ASSUME HistoryInv,
         \/ \E statement \in late : Finish(statement)
         \/ \E key \in Keys : ChangeRow(key)
  PROVE  HistoryInv'
<1>1. /\ HistoryTypeOK /\ ClockOK /\ RunsOK /\ (calm => Disjoint)
      /\ (late # {} => ~calm) /\ (tableColumns = <<>> => Running = {})
      /\ UNCHANGED <<columns, hard, tableColumns, at>>
      /\ tainted' = tainted \cup Running /\ calm' = (calm /\ Running = {})
      /\ settled' = FALSE
  BY DEF HistoryInv, HistoryKept, Finish, ChangeRow, Intrudes, snapshot
<1>2. Running' = Running /\ Running \in SUBSET Executions
  BY <1>1 DEF Running
<1>3. RunsOK'
  BY <1>1, <1>2 DEF RunsOK
<1>4. /\ HistoryTypeOK' /\ ClockOK' /\ (late' # {} => ~calm') /\ (calm' => Disjoint')
  <2>1. ASSUME NEW statement \in late, Finish(statement)
        PROVE  /\ HistoryTypeOK' /\ ClockOK' /\ (late' # {} => ~calm') /\ (calm' => Disjoint')
    <3>1. statement \in Statements /\ TimePasses /\ late' = late \ {statement} /\ clock' = clock
          /\ (rows' = Result(statement) \/ rows' = rows)
      BY <1>1, <2>1 DEF Finish, TimePasses, HistoryTypeOK
    <3>2. rows' \in Seq(Rows) /\ ClockOK'
      <4>1. CASE rows' = Result(statement)
        BY <1>1, <3>1, <4>1, ResultKeeps
      <4>2. CASE rows' = rows
        BY <1>1, <3>1, <4>2 DEF ClockOK, HistoryTypeOK, TimePasses
      <4> QED
        BY <3>1, <4>1, <4>2
    <3>3. HistoryTypeOK'
      BY <1>1, <1>2, <3>1, <3>2 DEF HistoryTypeOK, TimePasses
    <3> QED
      BY <1>1, <2>1, <3>2, <3>3
  <2>2. ASSUME NEW key \in Keys, ChangeRow(key)
        PROVE  /\ HistoryTypeOK' /\ ClockOK' /\ (late' # {} => ~calm') /\ (calm' => Disjoint')
    <3>1. /\ UNCHANGED <<rows, late>> /\ clock' = clock + 1
          /\ \/ source' = [source EXCEPT ![key] = clock + 1]
             \/ source' = [source EXCEPT ![key] = 0]
      BY <2>2 DEF ChangeRow, snapshot
    <3>2. source \in [Keys -> Nat] /\ clock \in Nat /\ clock + 1 \in Nat \ {0}
      BY <1>1 DEF HistoryTypeOK
    <3>3. /\ source \in [Keys -> Nat] /\ source' \in [Keys -> Nat] /\ clock \in Nat
          /\ \A k \in Keys : source'[k] \in {source[k], 0, clock + 1}
      BY <3>1, <3>2
    <3>7. HistoryTypeOK'
      BY <1>1, <1>2, <3>1, <3>2, <3>3 DEF HistoryTypeOK
    <3>4. ASSUME NEW i \in DOMAIN rows
          PROVE  /\ rows[i].to <= clock + 1 /\ rows[i].updatedAt <= clock + 1
                 /\ source'[rows[i].key] # 0 => rows[i].updatedAt <= source'[rows[i].key]
      <4>1. rows[i] \in Rows
        BY <1>1, RowsAre
      <4>2. /\ rows[i].to <= clock /\ rows[i].updatedAt <= clock
            /\ source[rows[i].key] # 0 => rows[i].updatedAt <= source[rows[i].key]
        BY <1>1 DEF ClockOK
      <4> QED
        BY <3>3, <4>1, <4>2 DEF Rows
    <3>5. ClockOK'
      BY <1>1, <3>1, <3>3, <3>4 DEF ClockOK
    <3>6. Disjoint' = Disjoint
      BY <3>1 DEF Disjoint, Open
    <3> QED
      BY <1>1, <3>1, <3>5, <3>6, <3>7
  <2> QED
    BY <2>1, <2>2
<1> QED
  BY <1>1, <1>2, <1>3, <1>4 DEF HistoryInv, HistoryKept

\* The invariant of the history.
LEMMA HistoryInvariant == HistorySpec => []HistoryInv
<1>1. HistoryInv /\ [HistoryNext]_historyVars => HistoryInv'
  <2> SUFFICES ASSUME HistoryInv, [HistoryNext]_historyVars PROVE HistoryInv'
    OBVIOUS
  <2>1. CASE UNCHANGED historyVars
    <3>1. UNCHANGED <<source, columns, hard, rows, tableColumns, clock, at, late,
                      tainted, calm, settled>>
      BY <2>1 DEF historyVars, snapshot, past
    <3>2. HistoryTypeOK' = HistoryTypeOK /\ ClockOK' = ClockOK
      BY <3>1 DEF HistoryTypeOK, ClockOK
    <3>3. Running' = Running /\ NoChange' = NoChange /\ Current' = Current
      BY <3>1 DEF Running, NoChange, Current, Open, Changed, OpenOf
    <3>4. RunsOK' = RunsOK
      BY <3>1, <3>3 DEF RunsOK
    <3>5. Follows' = Follows /\ Disjoint' = Disjoint
      BY <3>1 DEF Follows, Disjoint, Open
    <3> QED
      BY <3>1, <3>2, <3>3, <3>4, <3>5 DEF HistoryInv, HistoryKept
  <2> QED
    BY <2>1, CreateKeeps, ColumnsKeep, ExecuteKeeps, EndsKeep, IntrusionsKeep DEF HistoryNext
<1> QED
  BY <1>1, HistoryStarts, PTL DEF HistorySpec

\* For any source, any number of executions that overlap, are cut short or are outlived
\* by their statements: one that nothing intruded upon brings the snapshot up to the
\* source, and as long as none was, the versions of a row follow one another (the
\* statements of generate_snapshot_workflow_yaml).
THEOREM HistoryKeptHolds == HistorySpec => []HistoryKept
<1>1. HistoryInv => HistoryKept
  BY DEF HistoryInv
<1> QED
  BY <1>1, HistoryInvariant, PTL
==============================================================================
