--------------------------- MODULE ManagedResource ---------------------------
(***************************************************************************)
(* One resource of a stack under gcpx: a BigQuery table, dataset or        *)
(* routine, a data agent, a conversation, an agent engine or a memory.     *)
(* The Pulumi engine checks, diffs, creates, updates, replaces, refreshes  *)
(* and deletes it through the handlers; the service keeps the objects;     *)
(* others change them too; calls are refused, lost, or repeated by the     *)
(* HTTP client after their answer was lost.  A provider that dies in a     *)
(* call is a call that is lost.                                            *)
(*                                                                         *)
(* What the outputs add to the inputs is left out, so that the comparison  *)
(* of an update (with the outputs) and of a preview (with the old inputs)  *)
(* are the same here.                                                      *)
(***************************************************************************)
EXTENDS BqShapes, AgentShapes, Naturals, Sequences

CONSTANTS
  Kinds,       \* the kinds of resource in use
  Programs,    \* of each kind, the inputs a program may give
  Regions,     \* what the regions answer to the Sync methods: "sync", "404", "501"
  Polls,       \* attempts of verified_delete (10)
  MaxObjects,  \* how many objects the service makes with ids of its own
  MaxCondemned,  \* how many replaced objects wait for their deletion
  MaxPending,    \* how many long-running operations a new one may wait behind
  MaxFaults, MaxDrifts

AllKinds == {"table", "dataset", "routine", "dataAgent", "conversation", "engine", "memory"}

ASSUME ManagedAssumption ==
  /\ Kinds \subseteq AllKinds
  /\ Regions \subseteq {"sync", "404", "501"}
  /\ Polls \in Nat /\ MaxObjects \in Nat /\ MaxCondemned \in Nat
  /\ MaxPending \in Nat /\ MaxFaults \in Nat /\ MaxDrifts \in Nat

VARIABLES
  kind, deleteFirst, region,  \* fixed: the kind, its deleteBeforeReplace, its region
  record,     \* what the stack stores, [id, inputs], or Absent
  condemned,  \* replaced records whose objects are still to be deleted
  op,         \* the operation the engine has in hand
  outcome,    \* how the last one ended: "none", "done", "failed"
  world,      \* the objects of the service, by id
  dying,      \* ids of objects whose deletion the service has accepted
  filled,     \* ids of datasets that others keep tables in
  pending,    \* long-running creates and updates of data agents not applied yet
  numbers,    \* ids the service has assigned so far
  faults, drifts,
  hit,        \* a call of the current operation met a fault
  off,        \* fields of the recorded object that others or a fault may have changed
  lost,       \* ids whose object others deleted, or a delete may still reach
  foreign,    \* ids of objects others made
  loose       \* ids of objects made by a create that failed

fixed == << kind, deleteFirst, region >>
service == << world, dying, filled, pending, numbers >>
stack == << record, condemned, op, outcome >>
history == << faults, drifts, hit, off, lost, foreign, loose >>
managedVars == << fixed, service, stack, history >>

-----------------------------------------------------------------------------
(* The handlers of each kind. *)

Check(p) ==
  CASE kind = "table" -> CheckTable(p)
    [] kind = "dataset" -> ValidDataset(p)
    [] kind = "routine" -> ValidRoutine(p)
    [] kind = "dataAgent" -> CheckAgent(p)
    [] kind = "conversation" -> CheckConversation(p)
    [] kind = "engine" -> CheckEngine(p)
    [] kind = "memory" -> CheckMemory(p)

Diff(olds, news) ==
  CASE kind = "table" -> DiffTable(olds, news)
    [] kind = "dataset" -> DatasetDiff(olds, news)
    [] kind = "routine" -> RoutineDiff(olds, news)
    [] kind = "dataAgent" -> DiffAgent(olds, news)
    [] kind = "conversation" -> DiffConversation(olds, news)
    [] kind = "engine" -> DiffEngine(olds, news)
    [] kind = "memory" -> DiffMemory(olds, news)

Create(p) ==
  CASE kind = "table" -> CreateTable(p)
    [] kind = "dataset" -> CreateDataset(p)
    [] kind = "routine" -> CreateRoutine(p)
    [] kind = "dataAgent" -> CreateAgent(p)
    [] kind = "conversation" -> CreateConversation(p)
    [] kind = "engine" -> CreateEngine(p)
    [] kind = "memory" -> CreateMemory(p)

\* A conversation has no update; its diff never asks for one.
Update(olds, news) ==
  CASE kind = "table" -> UpdateTable(olds, news)
    [] kind = "dataset" -> UpdateDataset(olds, news)
    [] kind = "routine" -> UpdateRoutine(news)
    [] kind = "dataAgent" -> AgentPatch(news)
    [] kind = "engine" -> UpdateEngine(news)
    [] kind = "memory" -> UpdateMemory(news)

Read(o) ==
  CASE kind = "table" -> ReadTable(o)
    [] kind = "dataset" -> ReadDataset(o)
    [] kind = "routine" -> ReadRoutine(o)
    [] kind = "dataAgent" -> ReadAgent(o)
    [] kind = "conversation" -> ReadConversation(o)
    [] kind = "engine" -> ReadEngine(o)
    [] kind = "memory" -> ReadMemory(o)

ObjectFields ==
  CASE kind = "table" -> TableFields
    [] kind = "dataset" -> DatasetReplaced \cup DatasetUpdated
    [] kind = "routine" -> RoutineFields
    [] kind = "dataAgent" -> AgentFields
    [] kind = "conversation" -> ConversationFields
    [] kind = "engine" -> EngineFields
    [] kind = "memory" -> MemoryFields

\* The inputs a program gives to each kind, or leaves Absent.
InputFieldsOf(k) ==
  CASE k = "table" -> TableFields
    [] k = "dataset" -> DatasetFields
    [] k = "routine" -> RoutineFields
    [] k = "dataAgent" -> AgentInputs
    [] k = "conversation" -> ConversationFields
    [] k = "engine" -> EngineFields
    [] k = "memory" -> MemoryFields

\* The labels that tables and datasets may have.
AllLabels ==
  UNION {ListOf(p["labels"]) : p \in UNION {Programs[k] : k \in Kinds \cap {"table", "dataset"}}}

ASSUME ProgramAssumption ==
  /\ \A k \in Kinds : \A p \in Programs[k] : p = [f \in InputFieldsOf(k) |-> p[f]]
  /\ Absent # "global" /\ \A s \in SUBSET AllLabels : s # Absent

Ids ==
  CASE kind = "table" -> TableIds
    [] kind = "dataset" -> DatasetIds
    [] kind = "routine" -> RoutineIds
    [] kind = "dataAgent" -> AgentIds
    [] kind = "conversation" -> ConversationIds
    [] kind = "engine" -> EngineIds
    [] kind = "memory" -> MemoryIds

\* The program names the object, or the service numbers it.
Named == kind \notin {"engine", "memory"}
Verified == kind \in {"table", "dataset", "routine"}

\* The id of the object a create of p makes (n: the number the service gives).
IdOf(p, n) ==
  [f \in Ids \cup {"number"} |->
     IF f = "number" THEN (IF Named THEN 0 ELSE n)
     ELSE IF f = "location" /\ p[f] = Absent THEN "global" ELSE p[f]]

NewObject(body) ==
  [f \in ObjectFields |->
     IF f \in DOMAIN body THEN body[f]
     ELSE IF kind = "dataset" /\ f = "storageBillingModel" THEN "default" ELSE Absent]

\* What a patch makes of an object.  BigQuery adds the labels it is sent to
\* those it has.
Patched(o, patch) ==
  [f \in DOMAIN o |->
     IF f \notin DOMAIN patch THEN o[f]
     ELSE IF f = "labels" /\ Verified
          THEN (IF ListOf(o[f]) \cup ListOf(patch[f]) = {} THEN Absent
                ELSE ListOf(o[f]) \cup ListOf(patch[f]))
          ELSE patch[f]]

Put(id, o) == [i \in DOMAIN world \cup {id} |-> IF i = id THEN o ELSE world[i]]
Without(id) == [i \in DOMAIN world \ {id} |-> world[i]]

-----------------------------------------------------------------------------
Idle == op.step = "idle"
Resting == [step |-> "idle", plan |-> "none", inputs |-> Absent, target |-> Absent, polls |-> 0]

ManagedInit ==
  /\ kind \in Kinds /\ deleteFirst \in BOOLEAN
  /\ region \in (IF kind = "dataAgent" THEN Regions ELSE {"sync"})
  /\ record = Absent /\ condemned = {} /\ op = Resting /\ outcome = "none"
  /\ world = <<>> /\ dying = {} /\ filled = {} /\ pending = <<>> /\ numbers = 0
  /\ faults = 0 /\ drifts = 0 /\ hit = FALSE
  /\ off = {} /\ lost = {} /\ foreign = {} /\ loose = {}

Begin(step, plan, p, target) ==
  /\ op' = [step |-> step, plan |-> plan, inputs |-> p, target |-> target, polls |-> 0]
  /\ outcome' = "none"

Goes(step) == op' = [op EXCEPT !.step = step]

Fails == op' = Resting /\ outcome' = "failed"

\* The operation goes on with the deletion of what is condemned, or ends.
Proceeds(cond) ==
  IF cond = {} THEN op' = Resting /\ outcome' = "done"
  ELSE \E t \in cond : Begin("delete", op.plan, op.inputs, t)

\* A fault of the network or the service in a call of the operation.
Fault == faults < MaxFaults /\ faults' = faults + 1 /\ hit' = TRUE
NoFault == UNCHANGED << faults, hit >>

-----------------------------------------------------------------------------
(* The engine. *)

\* `pulumi up` with a program that passes Check: what its Diff says is done.
Up(p) ==
  /\ Idle /\ Check(p) /\ Len(pending) <= MaxPending
  /\ hit' = FALSE
  /\ IF record = Absent
     THEN Begin("create", "create", p, Absent) /\ UNCHANGED record
     ELSE LET d == Diff(record.inputs, p)  IN
          CASE d.replace # {} /\ deleteFirst ->
                 Begin("delete", "replace", p, record) /\ UNCHANGED record
            [] d.replace # {} /\ ~deleteFirst ->
                 Cardinality(condemned) < MaxCondemned /\ Begin("create", "replace", p, Absent) /\ UNCHANGED record
            [] d.replace = {} /\ d.update # {} ->
                 Begin("update", "update", p, Absent) /\ UNCHANGED record
            [] d.replace = {} /\ d.update = {} ->
                 /\ record' = [record EXCEPT !.inputs = p]
                 /\ Proceeds(condemned)
  /\ UNCHANGED << fixed, service, condemned, faults, drifts, off, lost, foreign, loose >>

\* `pulumi destroy`.
Destroy ==
  /\ Idle
  /\ \E t \in condemned \cup (IF record = Absent THEN {} ELSE {record}) :
       Begin("delete", "destroy", Absent, t)
  /\ hit' = FALSE
  /\ UNCHANGED << fixed, service, record, condemned, faults, drifts, off, lost, foreign, loose >>

\* `pulumi refresh`.
Refresh ==
  /\ Idle /\ record # Absent /\ Len(pending) <= MaxPending
  /\ Begin("read", "refresh", Absent, Absent)
  /\ hit' = FALSE
  /\ UNCHANGED << fixed, service, record, condemned, faults, drifts, off, lost, foreign, loose >>

-----------------------------------------------------------------------------
(* create *)

\* The handler answers with the id: the engine stores the resource and
\* condemns the one it replaces.  An object that shares its id with a condemned
\* one, or whose deletion is under way, will be deleted with it.
Stores(id) ==
  /\ record' = [id |-> id, inputs |-> op.inputs]
  /\ condemned' = condemned \cup (IF record = Absent THEN {} ELSE {record})
  /\ lost' = IF id \in dying \/ id \in {t.id : t \in condemned'}
             THEN lost \cup {id} ELSE lost \ {id}
  /\ Proceeds(condemned')

MakesAnother == ~Named => numbers < MaxObjects
Numbered == numbers' = IF Named THEN numbers ELSE numbers + 1

\* The new object's id, when the name is free.
Free(id) == id \notin DOMAIN world /\ id \notin {pending[i].id : i \in DOMAIN pending}
NextId == IdOf(op.inputs, numbers + 1)

\* A data agent outside the regions with the Sync methods is created by an
\* operation that is still to be applied when the call returns.
LongRunning == kind = "dataAgent" /\ region # "sync"

CreateMakes ==
  /\ op.step = "create" /\ MakesAnother /\ Free(NextId)
  /\ IF LongRunning
     THEN /\ pending' = Append(pending, [id |-> NextId, patch |-> Create(op.inputs).body])
          /\ Goes("wait")
          /\ UNCHANGED << record, condemned, outcome, world, numbers, off, lost, loose >>
     ELSE /\ world' = Put(NextId, NewObject(Create(op.inputs).body))
          /\ Numbered /\ Stores(NextId)
          /\ off' = {} /\ loose' = loose \ {NextId}
          /\ UNCHANGED pending
  /\ NoFault
  /\ UNCHANGED << fixed, dying, filled, drifts, foreign >>

\* 409: the object is there already.
CreateConflicts ==
  /\ op.step = "create" /\ Named /\ ~Free(NextId)
  /\ IF Create(op.inputs).adopts THEN Goes("adopt") /\ UNCHANGED outcome ELSE Fails
  /\ NoFault
  /\ UNCHANGED << fixed, service, record, condemned, drifts, off, lost, foreign, loose >>

\* The request is refused, or it is done and its answer does not arrive.
CreateFails ==
  /\ op.step = "create" /\ Fault /\ Fails
  /\ \/ UNCHANGED << world, numbers, loose >>
     \/ /\ MakesAnother /\ Free(NextId)
        /\ world' = Put(NextId, NewObject(Create(op.inputs).body))
        /\ Numbered
        /\ loose' = loose \cup {NextId}
  /\ UNCHANGED << fixed, record, condemned, dying, filled, pending, drifts, off, lost, foreign >>

\* The answer is lost and the client repeats the request.
CreateRepeats ==
  /\ op.step = "create" /\ Fault /\ MakesAnother /\ Free(NextId) /\ ~LongRunning
  /\ world' = Put(NextId, NewObject(Create(op.inputs).body))
  /\ Numbered
  /\ loose' = loose \cup {NextId}
  /\ UNCHANGED << fixed, stack, dying, filled, pending, drifts, off, lost, foreign >>

\* create_or_adopt: the conflicting object is patched and taken over.
Adopt ==
  LET patch == Create(op.inputs).patch  IN
  /\ op.step = "adopt"
  /\ IF NextId \notin DOMAIN world
     THEN Fails /\ UNCHANGED << record, condemned, world, pending, off, lost, foreign, loose >>
     ELSE IF LongRunning
     THEN /\ pending' = Append(pending, [id |-> NextId, patch |-> patch])
          /\ Goes("wait")
          /\ UNCHANGED << record, condemned, outcome, world, off, lost, foreign, loose >>
     ELSE /\ world' = [world EXCEPT ![NextId] = Patched(@, patch)]
          /\ Stores(NextId)
          /\ off' = ObjectFields \ DOMAIN patch
          /\ foreign' = foreign \ {NextId} /\ loose' = loose \ {NextId}
          /\ UNCHANGED pending
  /\ NoFault
  /\ UNCHANGED << fixed, dying, filled, numbers, drifts >>

AdoptFails ==
  /\ op.step = "adopt" /\ Fault /\ Fails
  /\ \/ UNCHANGED world
     \/ /\ NextId \in DOMAIN world /\ ~LongRunning
        /\ world' = [world EXCEPT ![NextId] = Patched(@, Create(op.inputs).patch)]
  /\ off' = ObjectFields
  /\ UNCHANGED << fixed, record, condemned, dying, filled, pending, numbers, drifts,
                  lost, foreign, loose >>

\* Mutant of AwaitAgent: the agent is taken to be there once the pause is over.
AwaitAgentBlindly ==
  /\ op.step = "wait"
  /\ IF op.plan = "update"
     THEN /\ record' = [record EXCEPT !.inputs = op.inputs] /\ Proceeds(condemned)
          /\ UNCHANGED << condemned, off, lost, foreign, loose >>
     ELSE /\ Stores(NextId) /\ off' = ObjectFields /\ UNCHANGED << foreign, loose >>
  /\ NoFault
  /\ UNCHANGED << fixed, service, drifts >>

\* await_agent: one pause, after which the operation counts as done; the agent
\* is read once.
AwaitAgent ==
  /\ op.step = "wait"
  /\ IF op.plan = "update"
     THEN IF record.id \in DOMAIN world
          THEN /\ record' = [record EXCEPT !.inputs = op.inputs] /\ Proceeds(condemned)
               /\ UNCHANGED << condemned, off, lost, foreign, loose >>
          ELSE Fails /\ UNCHANGED << record, condemned, off, lost, foreign, loose >>
     ELSE IF NextId \in DOMAIN world
          THEN /\ Stores(NextId)
               /\ off' = IF hit \/ drifts > 0 THEN ObjectFields
                         ELSE ObjectFields \ DOMAIN Create(op.inputs).patch
               /\ foreign' = foreign \ {NextId} /\ loose' = loose \ {NextId}
          ELSE /\ Fails /\ loose' = loose \cup {NextId}
               /\ UNCHANGED << record, condemned, off, lost, foreign >>
  /\ NoFault
  /\ UNCHANGED << fixed, service, drifts >>

-----------------------------------------------------------------------------
(* update *)

UpdateDone ==
  LET patch == Update(record.inputs, op.inputs)  IN
  /\ op.step = "update" /\ record.id \in DOMAIN world
  /\ IF LongRunning
     THEN /\ pending' = Append(pending, [id |-> record.id, patch |-> patch])
          /\ Goes("wait")
          /\ UNCHANGED << record, outcome, world, off >>
     ELSE /\ world' = [world EXCEPT ![record.id] = Patched(@, patch)]
          /\ record' = [record EXCEPT !.inputs = op.inputs]
          /\ off' = off \ DOMAIN patch
          /\ Proceeds(condemned)
          /\ UNCHANGED pending
  /\ NoFault
  /\ UNCHANGED << fixed, condemned, dying, filled, numbers, drifts, lost, foreign, loose >>

\* The object is gone.
UpdateMisses ==
  /\ op.step = "update" /\ record.id \notin DOMAIN world
  /\ Fails /\ NoFault
  /\ UNCHANGED << fixed, service, record, condemned, drifts, off, lost, foreign, loose >>

UpdateFails ==
  LET patch == Update(record.inputs, op.inputs)  IN
  /\ op.step = "update" /\ Fault /\ Fails
  /\ \/ UNCHANGED world
     \/ /\ record.id \in DOMAIN world
        /\ world' = [world EXCEPT ![record.id] = Patched(@, patch)]
  /\ off' = off \cup DOMAIN patch
  /\ UNCHANGED << fixed, record, condemned, dying, filled, pending, numbers, drifts,
                  lost, foreign, loose >>

-----------------------------------------------------------------------------
(* read *)

\* A read that finds the object makes its fields the inputs.
ReadFinds ==
  /\ op.step = "read" /\ record.id \in DOMAIN world
  /\ record' = [record EXCEPT !.inputs = Read(world[record.id])]
  /\ off' = {f \in ObjectFields : \/ f \notin DOMAIN Read(world[record.id])
                                 \/ Read(world[record.id])[f] # world[record.id][f]
                                 \/ \E i \in DOMAIN pending : f \in DOMAIN pending[i].patch}
  /\ op' = Resting /\ outcome' = "done"
  /\ NoFault
  /\ UNCHANGED << fixed, service, condemned, drifts, lost, foreign, loose >>

\* A missing agent is forgotten; the BigQuery handlers fail.
ReadMisses ==
  /\ op.step = "read" /\ record.id \notin DOMAIN world
  /\ IF Verified THEN Fails /\ UNCHANGED record
     ELSE record' = Absent /\ op' = Resting /\ outcome' = "done"
  /\ NoFault
  /\ UNCHANGED << fixed, service, condemned, drifts, off, lost, foreign, loose >>

\* Mutant of ReadFails: any error of a read is taken for a 404.
ReadFailsForgets ==
  /\ op.step = "read" /\ Fault
  /\ record' = Absent /\ op' = Resting /\ outcome' = "done"
  /\ UNCHANGED << fixed, service, condemned, drifts, off, lost, foreign, loose >>

ReadFails ==
  /\ op.step = "read" /\ Fault /\ Fails
  /\ UNCHANGED << fixed, service, record, condemned, drifts, off, lost, foreign, loose >>

-----------------------------------------------------------------------------
(* delete *)

\* The delete handler answers that t is gone.
Deleted(t) ==
  /\ record' = IF record = t THEN Absent ELSE record
  /\ condemned' = condemned \ {t}
  /\ IF op.plan = "replace" /\ record = t
     THEN Begin("create", "replace", op.inputs, Absent)
     ELSE Proceeds(condemned')

\* A dataset that holds tables is kept unless its inputs ask for the cascade.
StillContains(t) == kind = "dataset" /\ t.id \in filled /\ ~DeletesContents(t.inputs)

\* The region's 404 for deleteSync reads as "already deleted".
DeleteTakenForDone == kind = "dataAgent" /\ region = "404"

Delete ==
  LET t == op.target  IN
  /\ op.step = "delete" /\ ~StillContains(t)
  /\ \/ /\ ~LongRunning
        /\ world' = Without(t.id) /\ dying' = dying \ {t.id}
     \/ /\ t.id \in DOMAIN world /\ (LongRunning \/ Verified)
        /\ ~DeleteTakenForDone
        /\ dying' = dying \cup {t.id} /\ UNCHANGED world
     \/ /\ DeleteTakenForDone \/ t.id \notin DOMAIN world
        /\ UNCHANGED << world, dying >>
  /\ IF Verified THEN Goes("poll") /\ UNCHANGED << record, condemned, outcome >>
     ELSE Deleted(t)
  /\ filled' = filled \cap DOMAIN world'
  /\ loose' = IF DeleteTakenForDone THEN loose \cup {t.id} ELSE loose
  /\ NoFault
  /\ UNCHANGED << fixed, pending, numbers, drifts, off, lost, foreign >>

DeleteRefused ==
  /\ op.step = "delete" /\ StillContains(op.target) /\ op.target.id \in DOMAIN world
  /\ Fails /\ NoFault
  /\ UNCHANGED << fixed, service, record, condemned, drifts, off, lost, foreign, loose >>

DeleteFails ==
  /\ op.step = "delete" /\ Fault /\ Fails
  /\ \/ UNCHANGED << world, lost >>
     \/ /\ ~StillContains(op.target) /\ ~LongRunning
        /\ world' = Without(op.target.id) /\ lost' = lost \cup {op.target.id}
  /\ filled' = filled \cap DOMAIN world' /\ dying' = dying \cap DOMAIN world'
  /\ UNCHANGED << fixed, record, condemned, pending, numbers, drifts, off,
                  foreign, loose >>

\* verified_delete: poll until a get answers 404.  Any other answer, an error
\* among them, is one attempt less; after the last the deletion counts as done.
PollGone ==
  /\ op.step = "poll" /\ op.target.id \notin DOMAIN world
  /\ Deleted(op.target) /\ NoFault
  /\ UNCHANGED << fixed, service, drifts, off, lost, foreign, loose >>

PollAgain ==
  /\ op.step = "poll" /\ op.polls < Polls
  /\ \/ op.target.id \in DOMAIN world /\ NoFault
     \/ Fault
  /\ op' = [op EXCEPT !.polls = @ + 1]
  /\ UNCHANGED << fixed, service, record, condemned, outcome, drifts, off, lost, foreign, loose >>

PollEnds ==
  /\ op.step = "poll" /\ op.polls = Polls
  /\ Deleted(op.target) /\ NoFault
  /\ lost' = lost \cup ({op.target.id} \cap DOMAIN world)
  /\ UNCHANGED << fixed, service, drifts, off, foreign, loose >>

-----------------------------------------------------------------------------
(* The service and the others. *)

\* An accepted deletion is carried out.
Vanish(id) ==
  /\ id \in dying
  /\ world' = Without(id) /\ dying' = dying \ {id} /\ filled' = filled \ {id}
  /\ UNCHANGED << fixed, stack, pending, numbers, history >>

\* The oldest long-running operation is carried out, or fails.
Settle ==
  LET w == Head(pending)  IN
  /\ pending # <<>> /\ pending' = Tail(pending)
  /\ \/ /\ world' = IF w.id \in DOMAIN world
                     THEN [world EXCEPT ![w.id] = Patched(@, w.patch)]
                     ELSE IF "agentId" \in DOMAIN w.patch
                     THEN Put(w.id, NewObject(w.patch)) ELSE world
        /\ UNCHANGED << faults, hit, off >>
     \/ Fault /\ off' = off \cup DOMAIN w.patch /\ UNCHANGED world
  /\ UNCHANGED << fixed, stack, dying, filled, numbers, drifts, lost, foreign, loose >>

Drift == drifts < MaxDrifts /\ drifts' = drifts + 1

OthersDelete(id) ==
  /\ id \in DOMAIN world /\ Drift
  /\ world' = Without(id) /\ lost' = lost \cup {id}
  /\ dying' = dying \ {id} /\ filled' = filled \ {id}
  /\ UNCHANGED << fixed, stack, pending, numbers, faults, hit, off, foreign, loose >>

OthersChange(id) ==
  /\ id \in DOMAIN world /\ "description" \in ObjectFields /\ Drift
  /\ world' = [world EXCEPT ![id]["description"] = "drift"]
  /\ off' = off \cup {"description"}
  /\ UNCHANGED << fixed, stack, dying, filled, pending, numbers, faults, hit, lost, foreign, loose >>

OthersCreate(p) ==
  /\ Named /\ Check(p) /\ Free(IdOf(p, 0)) /\ Drift
  /\ world' = Put(IdOf(p, 0), NewObject(Create(p).body))
  /\ foreign' = foreign \cup {IdOf(p, 0)}
  /\ UNCHANGED << fixed, stack, dying, filled, pending, numbers, faults, hit, off, lost, loose >>

OthersFill(id) ==
  /\ kind = "dataset" /\ id \in DOMAIN world \ (filled \cup dying) /\ Drift
  /\ filled' = filled \cup {id}
  /\ UNCHANGED << fixed, stack, world, dying, pending, numbers, faults, hit, off, lost, foreign, loose >>

Others ==
  \/ \E id \in DOMAIN world : OthersDelete(id) \/ OthersChange(id) \/ OthersFill(id)
  \/ \E p \in Programs[kind] : OthersCreate(p)

Call ==
  \/ CreateMakes \/ CreateConflicts \/ CreateFails \/ CreateRepeats
  \/ Adopt \/ AdoptFails \/ AwaitAgent
  \/ UpdateDone \/ UpdateMisses \/ UpdateFails
  \/ ReadFinds \/ ReadMisses \/ ReadFails
  \/ Delete \/ DeleteRefused \/ DeleteFails \/ PollGone \/ PollAgain \/ PollEnds

ManagedNext ==
  \/ \E p \in Programs[kind] : Up(p)
  \/ Destroy \/ Refresh
  \/ Call
  \/ \E id \in dying : Vanish(id)
  \/ Settle
  \/ Others

ManagedSpec == ManagedInit /\ [][ManagedNext]_managedVars

-----------------------------------------------------------------------------
(* What the provider promises. *)

\* The fields whose every change is carried to the service, ...
Maintained ==
  CASE kind = "table" -> TableCleared \cup {"expirationTime", "storageBillingModel"}
    [] kind = "dataset" -> DatasetUpdated
    [] kind = "routine" -> RoutineFields \ RoutineReplaced
    [] kind = "dataAgent" -> AgentTexts \cup {"labels", "staging", "published"}
    [] kind = "conversation" -> ConversationFields
    [] kind = "engine" -> EngineTexts \cup EngineSpec
    [] kind = "memory" -> MemoryUpdated \cup {"scope"}

\* ... and those of them that are also cleared when they are left out.
ClearedToo ==
  CASE kind = "table" -> {"description", "friendlyName", "clusterings"}
    [] kind = "dataset" -> {"description", "friendlyName"}
    [] kind = "dataAgent" -> {"staging", "published"}
    [] kind = "memory" -> MemoryUpdated
    [] OTHER -> Maintained

Agree(f, have, want) ==
  IF f = "labels" /\ Verified THEN ListOf(want) \subseteq ListOf(have) ELSE have = want

Recorded == Idle /\ record # Absent

\* Between operations the object is as the recorded inputs say, in every field
\* the provider maintains, except where others or a fault of a call have
\* interfered: the body of the create, the patch of an adoption and the keys of
\* any later diff, refresh or replacement add up to the inputs.
InStep ==
  Recorded /\ record.id \in DOMAIN world \ lost /\ pending = <<>> =>
    LET body == Create(record.inputs).body
        have == world[record.id]
        want == NewObject(body)
    IN  \A f \in Maintained \ off :
          f \in DOMAIN body \cup ClearedToo => Agree(f, have[f], want[f])

\* Between operations the recorded object is there, whatever was replaced,
\* deleted, lost or adopted on the way; except where others deleted it, and
\* where a replacement took over the name that it then deletes.
Exists == Recorded /\ record.id \notin lost => record.id \in DOMAIN world

\* Every object is somebody's: recorded, condemned, made by others, on its way
\* out, or made by a create whose answer was lost.  Nothing else a failed
\* operation did is left behind.
NoStray ==
  Idle => DOMAIN world \subseteq
    {t.id : t \in condemned \cup (IF record = Absent THEN {} ELSE {record})}
      \cup foreign \cup dying \cup loose

\* What a refresh reads back is what the program says: for the fields a read
\* returns, the next preview of the same program has nothing to change.
RefreshKeeps ==
  Recorded /\ record.id \in DOMAIN world \ lost /\ off = {} /\ pending = <<>> =>
    LET read == Read(world[record.id])
        d == Diff(read, record.inputs)
    IN  \A f \in (d.replace \cup d.update) \cap ObjectFields :
          read[f] = Absent \/ record.inputs[f] = Absent \/ f = "labels"

\* A dataset others keep tables in is only deleted with the cascade asked for
\* by the inputs it was last applied with.
ContentsKept ==
  [][\A id \in filled \ dying :
       \/ id \in DOMAIN world' \ dying'
       \/ drifts' # drifts
       \/ \E t \in condemned \cup (IF record = Absent THEN {} ELSE {record}) :
            t.id = id /\ t.inputs["deleteContentsOnDestroy"] = TRUE]_managedVars

\* An operation none of whose calls met a fault fails only for a reason its
\* user can see: the object was deleted by others, the dataset holds tables,
\* the name of a conversation is taken.  A failure leaves nothing that makes
\* the next attempt fail.
OnlyFaultsFail ==
  [][outcome' = "failed" /\ outcome # "failed" =>
       \/ hit' \/ region # "sync"
       \/ op.step \in {"update", "read"} /\ record.id \in lost
       \/ op.step = "adopt" /\ NextId \in lost
       \/ op.step = "delete" /\ op.target.id \in filled
       \/ op.step = "create" /\ kind = "conversation"]_managedVars

=============================================================================
