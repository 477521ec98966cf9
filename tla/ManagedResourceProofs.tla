----------------------- MODULE ManagedResourceProofs -----------------------
(***************************************************************************)
(* Exists, NoStray, ContentsKept, OnlyFaultsFail, InStep and RefreshKeeps, *)
(* for every set of kinds, programs, regions and every number of faults    *)
(* and changes by others.  The first four do not depend on what the shapes *)
(* of the resources are: their proofs open only the patch of a data agent, *)
(* and which creates take over what is there.  The last two are about      *)
(* nothing else: what each kind's body, patch, diff and read do with a     *)
(* field comes first, then how an object turns into what its inputs say.   *)
(***************************************************************************)
EXTENDS ManagedResource, SequenceTheorems, TLAPS

-----------------------------------------------------------------------------
(* The inductive invariant. *)

Stored == condemned \cup (IF record = Absent THEN {} ELSE {record})
Owned == {t.id : t \in Stored}

\* What the engine has in hand concerns a record it has.
OpOK ==
  /\ record # Absent => record = [id |-> record.id, inputs |-> record.inputs]
  /\ op = [step |-> op.step, plan |-> op.plan, inputs |-> op.inputs,
           target |-> op.target, polls |-> op.polls]
  /\ op.step \in {"delete", "poll"} => op.target \in Stored
  /\ op.step \in {"update", "read"} => record # Absent
  /\ op.step = "update" => op.plan = "update"
  /\ op.step \in {"create", "adopt"} => op.plan # "update"
  /\ op.step = "wait" /\ op.plan = "update" => record # Absent
  /\ op.step = "wait" => LongRunning

\* The object a create is waiting for.
Awaited == IF op.step = "wait" /\ op.plan # "update" THEN {NextId} ELSE {}

\* A long-running operation that will make an object.
Makes(w) == "agentId" \in DOMAIN w.patch

Coming == {pending[i].id : i \in {j \in DOMAIN pending : Makes(pending[j])}}

PartsOf(s) == {s[i] : i \in DOMAIN s}

\* No two make the same.
QueueOK ==
  /\ pending \in Seq(PartsOf(pending))
  /\ \A i, j \in DOMAIN pending : i # j /\ Makes(pending[i]) /\ Makes(pending[j]) =>
       pending[i].id # pending[j].id

\* What they will make is not there yet, and is awaited or has been given up.
ComingOK == Coming \cap DOMAIN world = {} /\ Coming \subseteq loose \cup Awaited

Accounted ==
  /\ DOMAIN world \subseteq Owned \cup foreign \cup dying \cup loose \cup Awaited
  /\ op.step = "poll" /\ op.target.id \in DOMAIN world =>
       op.target.id \in foreign \cup dying \cup loose

\* Nothing the provider is going to delete has the id of the record.
Safe ==
  record # Absent /\ record.id \notin lost /\ ~(op.step = "poll" /\ op.target = record) =>
    /\ record.id \in DOMAIN world \ dying
    /\ \A t \in condemned : t.id # record.id

FilledOK ==
  /\ filled \subseteq DOMAIN world /\ (kind # "dataset" => filled = {})
  /\ drifts \in Nat

IInv == OpOK /\ QueueOK /\ ComingOK /\ Accounted /\ Safe /\ FilledOK

-----------------------------------------------------------------------------
(* What an operation of the engine can become.                              *)

\* The step an operation goes on to is the one named, with its parts as they are.
LEMMA Going ==
  ASSUME NEW step, Goes(step), OpOK
  PROVE  op' = [step |-> step, plan |-> op.plan, inputs |-> op.inputs,
                target |-> op.target, polls |-> op.polls]
BY DEF Goes, OpOK

\* An operation that is finished with its own object ends, or deletes something
\* that is condemned.
LEMMA Proceeding ==
  ASSUME NEW cond, Proceeds(cond)
  PROVE  /\ op' = [step |-> op'.step, plan |-> op'.plan, inputs |-> op'.inputs,
                   target |-> op'.target, polls |-> op'.polls]
         /\ op'.step \in {"idle", "delete"}
         /\ op'.step = "delete" => op'.target \in cond
<1>1. CASE cond = {}
  BY <1>1 DEF Proceeds, Resting
<1>2. CASE cond # {}
  <2>1. PICK t \in cond : Begin("delete", op.plan, op.inputs, t)
    BY <1>2 DEF Proceeds
  <2> QED BY <2>1 DEF Begin
<1> QED BY <1>1, <1>2

\* The object an operation makes keeps its id while the operation's inputs and the
\* numbers given stay the same.
LEMMA SameId ==
  ASSUME op'.inputs = op.inputs, UNCHANGED << kind, numbers >>
  PROVE  NextId' = NextId
BY DEF NextId, IdOf, Ids, Named

\* A patch of a data agent makes no agent.
LEMMA PatchMakesNothing ==
  ASSUME NEW p
  PROVE  "agentId" \notin DOMAIN AgentPatch(p)
BY DEF AgentPatch, AgentUpdateMask, AgentTexts

-----------------------------------------------------------------------------
(* Steps that leave the objects and the records where they are.             *)

\* Absent is none of the records of a stack.
NoRecord == \A id, inputs : [id |-> id, inputs |-> inputs] # Absent

\* A record whose inputs change stays the same record of the same object.
SameRecord ==
  \/ record' = record
  \/ /\ record # Absent /\ op.step # "poll"
     /\ record' = [id |-> record.id, inputs |-> record'.inputs]

\* A record that is still there owns the same object.
LEMMA SameOwned ==
  ASSUME NoRecord, SameRecord, UNCHANGED condemned
  PROVE  Owned' = Owned
<1>1. (record' = Absent <=> record = Absent) /\ (record # Absent => record'.id = record.id)
  BY DEF NoRecord, SameRecord
<1>2. Owned = {t.id : t \in condemned} \cup (IF record = Absent THEN {} ELSE {record.id})
  BY DEF Owned, Stored
<1>3. Owned' = {t.id : t \in condemned'} \cup (IF record' = Absent THEN {} ELSE {record'.id})
  BY DEF Owned, Stored
<1> QED BY <1>1, <1>2, <1>3

\* A step that neither makes nor removes an object, a record or a long-running
\* operation keeps the invariant when what it goes on to is an operation of the
\* kind the invariant allows.
LEMMA ObjectsKept ==
  ASSUME NoRecord, IInv, OpOK', SameRecord, Awaited' = Awaited,
         UNCHANGED << kind, condemned, dying, filled, pending, lost, foreign, loose, drifts >>,
         DOMAIN world' = DOMAIN world,
         op.step = "poll" <=> op'.step = "poll",
         op.step = "poll" => op'.target = op.target
  PROVE  IInv'
<1>1. QueueOK'
  BY DEF IInv, QueueOK, PartsOf, Makes
<1>2. ComingOK'
  BY DEF IInv, ComingOK, Coming, Makes
<1>3. Accounted'
  BY SameOwned DEF IInv, Accounted
<1>4. Safe'
  BY DEF IInv, Safe, SameRecord
<1>5. FilledOK'
  BY DEF IInv, FilledOK
<1> QED BY <1>1, <1>2, <1>3, <1>4, <1>5 DEF IInv

-----------------------------------------------------------------------------
(* The engine.                                                              *)

\* pulumi up, destroy and refresh begin an operation, or store new inputs.
LEMMA EngineKeeps ==
  ASSUME NoRecord, IInv, (\E p \in Programs[kind] : Up(p)) \/ Destroy \/ Refresh
  PROVE  IInv'
<1>1. /\ UNCHANGED << kind, region, world, dying, filled, pending, numbers, condemned,
                       lost, foreign, loose, drifts >>
      /\ op.step = "idle"
      /\ \/ record' = record
         \/ record # Absent /\ \E p : record' = [record EXCEPT !.inputs = p]
  BY DEF Up, Destroy, Refresh, Idle, fixed, service
<1>2. SameRecord
  BY <1>1 DEF SameRecord, IInv, OpOK
<1>3. /\ op' = [step |-> op'.step, plan |-> op'.plan, inputs |-> op'.inputs,
                target |-> op'.target, polls |-> op'.polls]
      /\ op'.step \in {"idle", "create", "delete", "update", "read"}
      /\ op'.step = "delete" => op'.target \in condemned \/ (op'.target = record /\ record # Absent /\ record' = record)
      /\ op'.step \in {"update", "read"} => record # Absent
      /\ op'.step = "update" => op'.plan = "update"
      /\ op'.step = "create" => op'.plan # "update"
  <2>1. CASE Destroy
    BY <2>1 DEF Destroy, Begin
  <2>2. CASE Refresh
    BY <2>2 DEF Refresh, Begin
  <2>3. ASSUME NEW p \in Programs[kind], Up(p)
        PROVE  <1>3
    <3>1. \/ Begin("create", "create", p, Absent)
          \/ Begin("delete", "replace", p, record) /\ record # Absent /\ record' = record
          \/ Begin("create", "replace", p, Absent)
          \/ Begin("update", "update", p, Absent) /\ record # Absent
          \/ Proceeds(condemned)
      BY <2>3 DEF Up
    <3>2. CASE Proceeds(condemned)
      BY <3>2, Proceeding
    <3> QED BY <3>1, <3>2 DEF Begin
  <2> QED BY <1>1, <2>1, <2>2, <2>3
<1>4. OpOK'
  BY <1>1, <1>2, <1>3 DEF IInv, OpOK, Stored, SameRecord, NoRecord
<1>5. Awaited' = Awaited
  BY <1>1, <1>3 DEF Awaited
<1>6. op.step # "poll" /\ op'.step # "poll" /\ DOMAIN world' = DOMAIN world
  BY <1>1, <1>3
<1> QED BY <1>1, <1>2, <1>4, <1>5, <1>6, ObjectsKept

-----------------------------------------------------------------------------
(* The queue of long-running operations.                                    *)

\* A sequence is one of its own elements.
LEMMA OwnParts ==
  ASSUME NEW S, NEW s \in Seq(S) PROVE s \in Seq(PartsOf(s))
<1>1. Len(s) \in Nat /\ s \in [1..Len(s) -> S] /\ DOMAIN s = 1..Len(s)
  BY LenProperties
<1>2. s \in [1..Len(s) -> PartsOf(s)]
  BY <1>1 DEF PartsOf
<1> QED BY <1>1, <1>2, SeqDef

\* What a sequence is once an element has been appended.
LEMMA Appended ==
  ASSUME NEW S, NEW s \in Seq(S), NEW w
  PROVE  /\ Append(s, w) \in Seq(S \cup {w})
         /\ DOMAIN s = 1..Len(s) /\ Len(s) \in Nat
         /\ DOMAIN Append(s, w) = 1..(Len(s) + 1)
         /\ \A i \in 1..Len(s) : Append(s, w)[i] = s[i]
         /\ Append(s, w)[Len(s) + 1] = w
<1>1. s \in Seq(S \cup {w})
  BY SeqMonotonic
<1> QED BY <1>1, LenProperties, AppendProperties

\* What is left of a sequence without its head.
LEMMA Shifted ==
  ASSUME NEW S, NEW s \in Seq(S), s # <<>>
  PROVE  /\ Tail(s) \in Seq(S)
         /\ Len(s) \in Nat /\ Len(s) > 0 /\ DOMAIN s = 1..Len(s)
         /\ DOMAIN Tail(s) = 1..(Len(s) - 1)
         /\ \A i \in 1..(Len(s) - 1) : Tail(s)[i] = s[i + 1]
         /\ Head(s) = s[1]
BY LenProperties, HeadTailProperties, EmptySeq

\* A new operation makes nothing that others make already.
LEMMA Queueing ==
  ASSUME QueueOK, NEW w, pending' = Append(pending, w), Makes(w) => w.id \notin Coming
  PROVE  QueueOK' /\ Coming' = Coming \cup (IF Makes(w) THEN {w.id} ELSE {})
<1> DEFINE n == Len(pending)
<1>1. /\ pending' \in Seq(PartsOf(pending) \cup {w})
      /\ DOMAIN pending = 1..n /\ n \in Nat /\ DOMAIN pending' = 1..(n + 1)
      /\ \A i \in 1..n : pending'[i] = pending[i]
      /\ pending'[n + 1] = w
  BY Appended DEF QueueOK
<1>2. pending' \in Seq(PartsOf(pending'))
  BY <1>1, OwnParts
<1>3. \A i \in 1..n : Makes(pending[i]) => pending[i].id \in Coming
  BY <1>1 DEF Coming
<1> HIDE DEF n
<1>4. ASSUME NEW i \in DOMAIN pending', NEW j \in DOMAIN pending', i # j,
             Makes(pending'[i]), Makes(pending'[j])
      PROVE  pending'[i].id # pending'[j].id
  <2>1. CASE i \in 1..n /\ j \in 1..n
    BY <2>1, <1>1, <1>4 DEF QueueOK
  <2>2. CASE i = n + 1 /\ j \in 1..n
    BY <2>2, <1>1, <1>3, <1>4
  <2>3. CASE i \in 1..n /\ j = n + 1
    BY <2>3, <1>1, <1>3, <1>4
  <2> QED BY <1>1, <1>4, <2>1, <2>2, <2>3
<1>5. QueueOK'
  BY <1>2, <1>4 DEF QueueOK, Makes
<1>6. Coming' = {pending'[i].id : i \in {j \in DOMAIN pending' : Makes(pending'[j])}}
  BY DEF Coming, Makes
<1>7. Coming' = Coming \cup (IF Makes(w) THEN {w.id} ELSE {})
  BY <1>1, <1>6 DEF Coming
<1> QED BY <1>5, <1>7

\* When the oldest has been carried out, the others make what they made.
LEMMA Dequeueing ==
  ASSUME QueueOK, pending # <<>>, pending' = Tail(pending)
  PROVE  /\ QueueOK' /\ Coming' \subseteq Coming
         /\ Makes(Head(pending)) => /\ Head(pending).id \in Coming
                                    /\ Head(pending).id \notin Coming'
<1> DEFINE n == Len(pending)
<1>1. /\ pending' \in Seq(PartsOf(pending))
      /\ n \in Nat /\ n > 0 /\ DOMAIN pending = 1..n /\ DOMAIN pending' = 1..(n - 1)
      /\ \A i \in 1..(n - 1) : pending'[i] = pending[i + 1]
      /\ Head(pending) = pending[1]
  BY Shifted DEF QueueOK
<1>2. pending' \in Seq(PartsOf(pending'))
  BY <1>1, OwnParts
<1> HIDE DEF n
<1>3. \A i \in 1..(n - 1) : i + 1 \in DOMAIN pending /\ i + 1 # 1
  BY <1>1
<1>4. ASSUME NEW i \in DOMAIN pending', NEW j \in DOMAIN pending', i # j,
             Makes(pending'[i]), Makes(pending'[j])
      PROVE  pending'[i].id # pending'[j].id
  BY <1>1, <1>3, <1>4 DEF QueueOK
<1>5. QueueOK'
  BY <1>2, <1>4 DEF QueueOK, Makes
<1>6. Coming' = {pending'[i].id : i \in {j \in DOMAIN pending' : Makes(pending'[j])}}
  BY DEF Coming, Makes
<1>7. Coming' \subseteq Coming
  BY <1>1, <1>3, <1>6 DEF Coming
<1>8. Makes(Head(pending)) => Head(pending).id \in Coming
  BY <1>1 DEF Coming
<1>9. ASSUME Makes(Head(pending)) PROVE Head(pending).id \notin Coming'
  <2>1. \A i \in 1..(n - 1) : Makes(pending[i + 1]) => pending[i + 1].id # pending[1].id
    BY <1>1, <1>3, <1>9 DEF QueueOK
  <2> QED BY <1>1, <1>6, <2>1
<1> QED BY <1>5, <1>7, <1>8, <1>9

-----------------------------------------------------------------------------
(* create.                                                                  *)

\* What a create that ends has stored.
LEMMA Storing ==
  ASSUME NoRecord, IInv, NEW id, Stores(id), UNCHANGED dying
  PROVE  /\ record' # Absent /\ record'.id = id
         /\ Owned' = Owned \cup {id}
         /\ OpOK' /\ op'.step # "poll" /\ Awaited' = {}
         /\ record'.id \notin lost' =>
              record'.id \notin dying' /\ \A t \in condemned' : t.id # record'.id
<1>1. /\ record' = [id |-> id, inputs |-> op.inputs]
      /\ condemned' = condemned \cup (IF record = Absent THEN {} ELSE {record})
      /\ Proceeds(condemned')
      /\ lost' = IF id \in dying \/ id \in {t.id : t \in condemned'}
                 THEN lost \cup {id} ELSE lost \ {id}
  BY DEF Stores
<1>2. record' # Absent /\ record'.id = id /\ record'.inputs = op.inputs
  BY <1>1 DEF NoRecord
<1>3. Stored' = Stored \cup {record'}
  BY <1>1, <1>2 DEF Stored
<1>4. Owned' = Owned \cup {id}
  <2>1. Owned' = {t.id : t \in Stored'}
    BY DEF Owned
  <2> QED BY <1>2, <1>3, <2>1 DEF Owned
<1>5. /\ op' = [step |-> op'.step, plan |-> op'.plan, inputs |-> op'.inputs,
                target |-> op'.target, polls |-> op'.polls]
      /\ op'.step \in {"idle", "delete"}
      /\ op'.step = "delete" => op'.target \in condemned'
  BY <1>1, Proceeding
<1>6. OpOK'
  BY <1>1, <1>2, <1>5 DEF OpOK, Stored
<1>7. Awaited' = {} /\ op'.step # "poll"
  BY <1>5 DEF Awaited
<1> QED BY <1>1, <1>2, <1>4, <1>6, <1>7

\* A create that makes or takes over the object keeps the invariant: the object is
\* the record's, and what the record owned is condemned.
LEMMA StoringKeeps ==
  ASSUME NoRecord, IInv, NEW id, Stores(id), Awaited \subseteq {id},
         UNCHANGED << kind, dying, filled, pending, drifts >>,
         DOMAIN world' = DOMAIN world \cup {id}, id \notin Coming,
         foreign \subseteq foreign' \cup {id}, loose \subseteq loose' \cup {id}
  PROVE  IInv'
<1>1. /\ record' # Absent /\ record'.id = id
      /\ Owned' = Owned \cup {id}
      /\ OpOK' /\ op'.step # "poll" /\ Awaited' = {}
      /\ record'.id \notin lost' =>
           record'.id \notin dying' /\ \A t \in condemned' : t.id # record'.id
  BY Storing
<1>2. QueueOK'
  BY DEF IInv, QueueOK, PartsOf, Makes
<1>3. Coming' = Coming
  BY DEF Coming, Makes
<1>4. ComingOK'
  BY <1>1, <1>3 DEF IInv, ComingOK
<1>5. Accounted'
  BY <1>1 DEF IInv, Accounted
<1>6. Safe'
  BY <1>1 DEF Safe
<1>7. FilledOK'
  BY DEF IInv, FilledOK
<1> QED BY <1>1, <1>2, <1>4, <1>5, <1>6, <1>7 DEF IInv

\* A create that begins a long-running operation, and an update that does, wait
\* for it.
LEMMA WaitingKeeps ==
  ASSUME IInv, Goes("wait"), LongRunning, NEW w, pending' = Append(pending, w),
         Makes(w) => op.plan # "update" /\ w.id = NextId /\ w.id \notin DOMAIN world \cup Coming,
         op.step \notin {"wait", "poll"}, op.plan = "update" => record # Absent,
         UNCHANGED << fixed, record, condemned, world, dying, filled, numbers,
                      lost, foreign, loose, drifts >>
  PROVE  IInv'
<1>1. /\ op' = [step |-> "wait", plan |-> op.plan, inputs |-> op.inputs,
                target |-> op.target, polls |-> op.polls]
      /\ op'.inputs = op.inputs
  BY Going DEF IInv
<1>2. UNCHANGED << kind, region, numbers >>
  BY DEF fixed
<1>3. NextId' = NextId
  BY <1>1, <1>2, SameId
<1>4. Awaited = {} /\ Awaited' = IF op.plan # "update" THEN {NextId} ELSE {}
  BY <1>1, <1>3 DEF Awaited
<1>5. OpOK'
  BY <1>1, <1>2 DEF IInv, OpOK, LongRunning
<1>6. QueueOK' /\ Coming' = Coming \cup (IF Makes(w) THEN {w.id} ELSE {})
  BY Queueing DEF IInv
<1>7. ComingOK'
  BY <1>4, <1>6 DEF IInv, ComingOK
<1>8. Accounted'
  BY <1>1, <1>4 DEF IInv, Accounted, Owned, Stored
<1>9. Safe' /\ FilledOK'
  BY <1>1, <1>2 DEF IInv, Safe, FilledOK
<1> QED BY <1>5, <1>6, <1>7, <1>8, <1>9 DEF IInv

\* An operation that ends in an error lets go of what it had in hand.
LEMMA FailingKeeps ==
  ASSUME NoRecord, IInv, Fails, Awaited = {}, op.step # "poll",
         UNCHANGED << kind, record, condemned, filled, pending, foreign, dying, drifts >>,
         NEW made, DOMAIN world' = DOMAIN world \cup made, made \cap Coming = {},
         loose' = loose \cup made, lost' = lost
  PROVE  IInv'
<1>1. op'.step = "idle" /\ OpOK' /\ Awaited' = {}
  BY DEF IInv, Fails, Resting, OpOK, Awaited, Stored
<1>2. QueueOK' /\ Coming' = Coming
  BY DEF IInv, QueueOK, PartsOf, Coming, Makes
<1>3. ComingOK'
  BY <1>1, <1>2 DEF IInv, ComingOK
<1>4. Accounted'
  BY <1>1 DEF IInv, Accounted, Owned, Stored
<1>5. Safe' /\ FilledOK'
  BY <1>1 DEF IInv, Safe, FilledOK
<1> QED BY <1>1, <1>2, <1>3, <1>4, <1>5 DEF IInv

\* One that has made nothing leaves everything in its place.
LEMMA FailingLeaves ==
  ASSUME NoRecord, IInv, Fails, op.step # "wait" \/ op.plan = "update", op.step # "poll",
         UNCHANGED << kind, record, condemned, filled, pending, foreign, dying, loose, lost, drifts >>,
         DOMAIN world' = DOMAIN world
  PROVE  IInv'
<1>1. DOMAIN world' = DOMAIN world \cup {} /\ loose' = loose \cup {} /\ {} \cap Coming = {}
  OBVIOUS
<1>2. Awaited = {}
  BY DEF Awaited
<1> QED BY <1>1, <1>2, FailingKeeps

\* A name that is free is made by nothing.
LEMMA FreeName ==
  ASSUME NEW id, Free(id)
  PROVE  id \notin DOMAIN world \cup Coming
BY DEF Free, Coming

\* The steps of a create, an adoption and the wait that follows them.
LEMMA CreateKeeps ==
  ASSUME NoRecord, IInv,
         \/ CreateMakes \/ CreateConflicts \/ CreateFails \/ CreateRepeats
         \/ Adopt \/ AdoptFails \/ AwaitAgent
  PROVE  IInv'
<1>1. CASE CreateMakes
  <2>1. op.step = "create" /\ NextId \notin DOMAIN world \cup Coming
    BY <1>1, FreeName DEF CreateMakes
  <2>2. Awaited = {} /\ op.plan # "update"
    BY <2>1 DEF Awaited, IInv, OpOK
  <2>3. CASE LongRunning
    <3> DEFINE w == [id |-> NextId, patch |-> Create(op.inputs).body]
    <3>1. /\ pending' = Append(pending, w) /\ Goes("wait")
          /\ UNCHANGED << fixed, record, condemned, world, dying, filled, numbers,
                          lost, foreign, loose, drifts >>
      BY <1>1, <2>3 DEF CreateMakes
    <3>2. w.id = NextId
      OBVIOUS
    <3> HIDE DEF w
    <3> QED BY <2>1, <2>2, <2>3, <3>1, <3>2, WaitingKeeps
  <2>4. CASE ~LongRunning
    <3>1. /\ world' = Put(NextId, NewObject(Create(op.inputs).body))
          /\ Stores(NextId) /\ loose' = loose \ {NextId}
          /\ UNCHANGED << kind, dying, filled, pending, foreign, drifts >>
      BY <1>1, <2>4 DEF CreateMakes, fixed
    <3>2. DOMAIN world' = DOMAIN world \cup {NextId}
      BY <3>1 DEF Put
    <3> QED BY <2>1, <2>2, <3>1, <3>2, StoringKeeps
  <2> QED BY <2>3, <2>4
<1>2. CASE CreateConflicts
  <2>1. /\ op.step = "create"
        /\ UNCHANGED << kind, region, record, condemned, world, dying, filled, pending,
                        lost, foreign, loose, drifts >>
    BY <1>2 DEF CreateConflicts, fixed, service
  <2>2. CASE Fails
    BY <2>1, <2>2, FailingLeaves
  <2>3. CASE Goes("adopt")
    <3>1. op' = [step |-> "adopt", plan |-> op.plan, inputs |-> op.inputs,
                 target |-> op.target, polls |-> op.polls]
      BY <2>3, Going DEF IInv
    <3>2. OpOK'
      BY <2>1, <3>1 DEF IInv, OpOK
    <3>3. SameRecord /\ Awaited' = Awaited /\ op.step # "poll" /\ op'.step # "poll"
          /\ DOMAIN world' = DOMAIN world
      BY <2>1, <3>1 DEF SameRecord, Awaited
    <3> QED BY <2>1, <3>2, <3>3, ObjectsKept
  <2> QED BY <1>2, <2>2, <2>3 DEF CreateConflicts
<1>3. CASE CreateFails
  <2>1. /\ op.step = "create" /\ Fails
        /\ UNCHANGED << kind, record, condemned, dying, filled, pending, lost, foreign, drifts >>
    BY <1>3 DEF CreateFails, fixed
  <2>2. CASE UNCHANGED << world, loose >>
    BY <2>1, <2>2, FailingLeaves
  <2>3. CASE /\ Free(NextId) /\ world' = Put(NextId, NewObject(Create(op.inputs).body))
             /\ loose' = loose \cup {NextId}
    <3>1. DOMAIN world' = DOMAIN world \cup {NextId}
      BY <2>3 DEF Put
    <3>2. NextId \notin Coming
      BY <2>3, FreeName
    <3>3. {NextId} \cap Coming = {} /\ Awaited = {} /\ op.step # "poll"
      BY <2>1, <3>2 DEF Awaited
    <3> QED BY <2>1, <2>3, <3>1, <3>3, FailingKeeps
  <2> QED BY <1>3, <2>2, <2>3 DEF CreateFails
<1>4. CASE CreateRepeats
  <2>1. /\ op.step = "create" /\ Free(NextId) /\ loose' = loose \cup {NextId}
        /\ world' = Put(NextId, NewObject(Create(op.inputs).body))
        /\ UNCHANGED << kind, region, record, condemned, op, dying, filled, pending, lost, foreign, drifts >>
    BY <1>4 DEF CreateRepeats, fixed, stack
  <2>2. DOMAIN world' = DOMAIN world \cup {NextId} /\ NextId \notin Coming
    BY <2>1, FreeName DEF Put
  <2>3. OpOK' /\ Awaited' = {} /\ Awaited = {}
    BY <2>1 DEF IInv, OpOK, Awaited, Stored, LongRunning
  <2>4. QueueOK' /\ Coming' = Coming
    BY <2>1 DEF IInv, QueueOK, PartsOf, Coming, Makes
  <2>5. ComingOK'
    BY <2>1, <2>2, <2>3, <2>4 DEF IInv, ComingOK
  <2>6. Accounted'
    BY <2>1, <2>2, <2>3 DEF IInv, Accounted, Owned, Stored
  <2>7. Safe' /\ FilledOK'
    BY <2>1, <2>2 DEF IInv, Safe, FilledOK
  <2> QED BY <2>3, <2>4, <2>5, <2>6, <2>7 DEF IInv
<1>5. CASE Adopt
  <2>1. op.step = "adopt" /\ Awaited = {} /\ op.plan # "update"
    BY <1>5 DEF Adopt, Awaited, IInv, OpOK
  <2>2. CASE NextId \notin DOMAIN world
    BY <1>5, <2>1, <2>2, FailingLeaves DEF Adopt, fixed
  <2>3. CASE NextId \in DOMAIN world /\ LongRunning
    <3> DEFINE w == [id |-> NextId, patch |-> Create(op.inputs).patch]
    <3>1. /\ pending' = Append(pending, w) /\ Goes("wait")
          /\ UNCHANGED << fixed, record, condemned, world, dying, filled, numbers,
                          lost, foreign, loose, drifts >>
      BY <1>5, <2>3 DEF Adopt
    <3>2. Create(op.inputs).patch = AgentPatch(op.inputs)
      BY <2>3 DEF LongRunning, Create, CreateAgent
    <3>3. ~Makes(w)
      BY <3>2, PatchMakesNothing DEF Makes
    <3> HIDE DEF w
    <3> QED BY <2>1, <2>3, <3>1, <3>3, WaitingKeeps
  <2>4. CASE NextId \in DOMAIN world /\ ~LongRunning
    <3>1. /\ Stores(NextId) /\ loose' = loose \ {NextId} /\ foreign' = foreign \ {NextId}
          /\ UNCHANGED << kind, dying, filled, pending, drifts >>
          /\ DOMAIN world' = DOMAIN world
      BY <1>5, <2>4 DEF Adopt, fixed
    <3>2. DOMAIN world' = DOMAIN world \cup {NextId} /\ NextId \notin Coming
      BY <2>4, <3>1 DEF IInv, ComingOK
    <3> QED BY <2>1, <3>1, <3>2, StoringKeeps
  <2> QED BY <2>2, <2>3, <2>4
<1>6. CASE AdoptFails
  <2>1. /\ op.step = "adopt" /\ Fails
        /\ UNCHANGED << kind, record, condemned, dying, filled, pending, lost, foreign, loose, drifts >>
        /\ DOMAIN world' = DOMAIN world
    BY <1>6 DEF AdoptFails, fixed
  <2> QED BY <2>1, FailingLeaves
<1>7. CASE AwaitAgent
  <2>1. /\ op.step = "wait"
        /\ UNCHANGED << kind, region, world, dying, filled, pending, numbers, drifts >>
    BY <1>7 DEF AwaitAgent, fixed, service
  <2>2. CASE op.plan = "update" /\ record.id \in DOMAIN world
    <3>1. /\ record' = [record EXCEPT !.inputs = op.inputs] /\ Proceeds(condemned)
          /\ UNCHANGED << condemned, lost, foreign, loose, drifts >>
      BY <1>7, <2>2 DEF AwaitAgent
    <3>2. record # Absent /\ SameRecord
      BY <2>1, <2>2, <3>1 DEF IInv, OpOK, SameRecord
    <3>3. /\ op' = [step |-> op'.step, plan |-> op'.plan, inputs |-> op'.inputs,
                    target |-> op'.target, polls |-> op'.polls]
          /\ op'.step \in {"idle", "delete"}
          /\ op'.step = "delete" => op'.target \in condemned
      BY <3>1, Proceeding
    <3>4. OpOK'
      BY <3>1, <3>2, <3>3 DEF IInv, OpOK, Stored, SameRecord, NoRecord
    <3>5. Awaited' = Awaited /\ op'.step # "poll" /\ op.step # "poll"
          /\ DOMAIN world' = DOMAIN world
      BY <2>1, <2>2, <3>3 DEF Awaited
    <3> QED BY <2>1, <3>1, <3>2, <3>4, <3>5, ObjectsKept
  <2>3. CASE op.plan = "update" /\ record.id \notin DOMAIN world
    BY <1>7, <2>1, <2>3, FailingLeaves DEF AwaitAgent
  <2>4. CASE op.plan # "update" /\ NextId \in DOMAIN world
    <3>1. /\ Stores(NextId) /\ loose' = loose \ {NextId} /\ foreign' = foreign \ {NextId}
      BY <1>7, <2>4 DEF AwaitAgent
    <3>2. DOMAIN world' = DOMAIN world \cup {NextId} /\ NextId \notin Coming
          /\ Awaited \subseteq {NextId}
      BY <2>1, <2>4 DEF IInv, ComingOK, Awaited
    <3> QED BY <2>1, <3>1, <3>2, StoringKeeps
  <2>5. CASE op.plan # "update" /\ NextId \notin DOMAIN world
    <3>1. /\ Fails /\ loose' = loose \cup {NextId}
          /\ UNCHANGED << record, condemned, lost, foreign, drifts >>
      BY <1>7, <2>5 DEF AwaitAgent
    <3>2. Awaited = {NextId}
      BY <2>1, <2>5 DEF Awaited
    <3>3. op'.step = "idle" /\ OpOK' /\ Awaited' = {}
      BY <3>1 DEF IInv, Fails, Resting, OpOK, Awaited, Stored
    <3>4. QueueOK' /\ Coming' = Coming
      BY <2>1 DEF IInv, QueueOK, PartsOf, Coming, Makes
    <3>5. ComingOK'
      BY <2>1, <3>1, <3>2, <3>4 DEF IInv, ComingOK
    <3>6. Accounted'
      BY <2>1, <3>1, <3>2, <3>3 DEF IInv, Accounted, Owned, Stored
    <3>7. Safe' /\ FilledOK'
      BY <2>1, <3>1, <3>3 DEF IInv, Safe, FilledOK
    <3> QED BY <3>3, <3>4, <3>5, <3>6, <3>7 DEF IInv
  <2> QED BY <2>2, <2>3, <2>4, <2>5
<1> QED BY <1>1, <1>2, <1>3, <1>4, <1>5, <1>6, <1>7

-----------------------------------------------------------------------------
(* update and read.                                                         *)

\* The steps of an update and of a read.
LEMMA UpdateKeeps ==
  ASSUME NoRecord, IInv,
         UpdateDone \/ UpdateMisses \/ UpdateFails \/ ReadFinds \/ ReadMisses \/ ReadFails
  PROVE  IInv'
<1>1. CASE UpdateDone
  <2>1. op.step = "update" /\ op.plan = "update" /\ record # Absent
    BY <1>1 DEF UpdateDone, IInv, OpOK
  <2>2. CASE LongRunning
    <3> DEFINE w == [id |-> record.id, patch |-> Update(record.inputs, op.inputs)]
    <3>1. /\ pending' = Append(pending, w) /\ Goes("wait")
          /\ UNCHANGED << fixed, record, condemned, world, dying, filled, numbers,
                          lost, foreign, loose, drifts >>
      BY <1>1, <2>2 DEF UpdateDone
    <3>2. Update(record.inputs, op.inputs) = AgentPatch(op.inputs)
      BY <2>2 DEF LongRunning, Update
    <3>3. ~Makes(w)
      BY <3>2, PatchMakesNothing DEF Makes
    <3> HIDE DEF w
    <3> QED BY <2>1, <2>2, <3>1, <3>3, WaitingKeeps
  <2>3. CASE ~LongRunning
    <3>1. /\ record' = [record EXCEPT !.inputs = op.inputs] /\ Proceeds(condemned)
          /\ UNCHANGED << kind, condemned, dying, filled, pending, lost, foreign, loose, drifts >>
          /\ DOMAIN world' = DOMAIN world
      BY <1>1, <2>3 DEF UpdateDone, fixed
    <3>2. SameRecord
      BY <2>1, <3>1 DEF IInv, OpOK, SameRecord
    <3>3. /\ op' = [step |-> op'.step, plan |-> op'.plan, inputs |-> op'.inputs,
                    target |-> op'.target, polls |-> op'.polls]
          /\ op'.step \in {"idle", "delete"}
          /\ op'.step = "delete" => op'.target \in condemned
      BY <3>1, Proceeding
    <3>4. OpOK'
      BY <2>1, <3>1, <3>2, <3>3 DEF IInv, OpOK, Stored, SameRecord, NoRecord
    <3>5. Awaited' = Awaited /\ op'.step # "poll" /\ op.step # "poll"
      BY <2>1, <3>3 DEF Awaited
    <3> QED BY <3>1, <3>2, <3>4, <3>5, ObjectsKept
  <2> QED BY <2>2, <2>3
<1>2. CASE UpdateMisses \/ UpdateFails \/ ReadFails
  <2>1. /\ Fails /\ op.step \notin {"wait", "poll"}
        /\ UNCHANGED << kind, record, condemned, filled, pending, foreign, dying, loose, lost, drifts >>
        /\ DOMAIN world' = DOMAIN world
    BY <1>2 DEF UpdateMisses, UpdateFails, ReadFails, fixed, service
  <2> QED BY <2>1, FailingLeaves
<1>3. CASE ReadFinds
  <2>1. /\ op.step = "read" /\ op' = Resting
        /\ record' = [record EXCEPT !.inputs = Read(world[record.id])]
        /\ UNCHANGED << kind, world, condemned, filled, pending, foreign, dying, loose, lost, drifts >>
    BY <1>3 DEF ReadFinds, fixed, service
  <2>2. record # Absent /\ SameRecord
    BY <2>1 DEF IInv, OpOK, SameRecord
  <2>3. Awaited' = Awaited /\ op'.step # "poll"
    BY <2>1 DEF Resting, Awaited
  <2>5. record' = [id |-> record'.id, inputs |-> record'.inputs]
    BY <2>1, <2>2 DEF IInv, OpOK
  <2>6. OpOK'
    BY <2>1, <2>5 DEF Resting, OpOK
  <2>4. op.step # "poll" /\ DOMAIN world' = DOMAIN world
    BY <2>1
  <2> QED BY <2>1, <2>2, <2>3, <2>4, <2>6, ObjectsKept
<1>4. CASE ReadMisses
  <2>1. /\ op.step = "read" /\ record.id \notin DOMAIN world
        /\ UNCHANGED << kind, world, condemned, filled, drifts, pending, foreign, dying, loose, lost >>
    BY <1>4 DEF ReadMisses, fixed, service
  <2>2. CASE Fails /\ record' = record
    BY <2>1, <2>2, FailingLeaves
  <2>3. CASE record' = Absent /\ op' = Resting
    <3>1. OpOK' /\ Awaited' = {} /\ Awaited = {} /\ op'.step # "poll"
      BY <2>1, <2>3 DEF Resting, OpOK, Awaited
    <3>2. QueueOK' /\ Coming' = Coming
      BY <2>1 DEF IInv, QueueOK, PartsOf, Coming, Makes
    <3>3. ComingOK'
      BY <2>1, <3>1, <3>2 DEF IInv, ComingOK
    <3>4. Owned \subseteq Owned' \cup {record.id}
      BY <2>1, <2>3 DEF Owned, Stored
    <3>5. Accounted'
      BY <2>1, <3>1, <3>4 DEF IInv, Accounted
    <3>6. Safe' /\ FilledOK'
      BY <2>1, <2>3 DEF IInv, Safe, FilledOK
    <3> QED BY <3>1, <3>2, <3>3, <3>5, <3>6 DEF IInv
  <2> QED BY <1>4, <2>2, <2>3 DEF ReadMisses
<1> QED BY <1>1, <1>2, <1>3, <1>4

-----------------------------------------------------------------------------
(* delete.                                                                  *)

\* A delete that ends forgets its record: what is left of the object is being
\* deleted, was made by others, or was given up.
LEMMA DeletedKeeps ==
  ASSUME NoRecord, IInv, op.step \in {"delete", "poll"}, Deleted(op.target),
         UNCHANGED << kind, pending, foreign, drifts >>,
         loose \subseteq loose', lost \subseteq lost',
         DOMAIN world' \subseteq DOMAIN world,
         DOMAIN world \subseteq DOMAIN world' \cup {op.target.id},
         dying \cap DOMAIN world' \subseteq dying', dying' \subseteq dying \cup {op.target.id},
         op.target.id \in DOMAIN world' => op.target.id \in foreign \cup dying' \cup loose',
         filled' \subseteq filled \cap DOMAIN world'
  PROVE  IInv'
<1> DEFINE t == op.target
<1>1. /\ record' = IF record = t THEN Absent ELSE record
      /\ condemned' = condemned \ {t} /\ t \in Stored
      /\ \/ Begin("create", "replace", op.inputs, Absent)
         \/ Proceeds(condemned')
  BY DEF Deleted, IInv, OpOK
<1>2. /\ op' = [step |-> op'.step, plan |-> op'.plan, inputs |-> op'.inputs,
                target |-> op'.target, polls |-> op'.polls]
      /\ op'.step \in {"idle", "delete", "create"}
      /\ op'.step = "delete" => op'.target \in condemned'
      /\ op'.step = "create" => op'.plan # "update"
  BY <1>1, Proceeding DEF Begin
<1>3. OpOK' /\ Awaited' = {} /\ Awaited = {} /\ op'.step # "poll"
  BY <1>1, <1>2 DEF IInv, OpOK, Stored, Awaited
<1>4. QueueOK' /\ Coming' = Coming
  BY DEF IInv, QueueOK, PartsOf, Coming, Makes
<1>5. ComingOK'
  BY <1>3, <1>4 DEF IInv, ComingOK
<1>6. Owned \subseteq Owned' \cup {t.id}
  BY <1>1 DEF Owned, Stored
<1>7. Accounted'
  BY <1>3, <1>6 DEF IInv, Accounted
<1>8. Safe'
  <2>1. SUFFICES ASSUME record' # Absent, record'.id \notin lost'
                 PROVE  /\ record'.id \in DOMAIN world' \ dying'
                        /\ \A r \in condemned' : r.id # record'.id
    BY <1>3 DEF Safe
  <2>2. record' = record /\ record # t /\ t \in condemned
    BY <1>1, <2>1 DEF Stored
  <2>3. record.id \in DOMAIN world \ dying /\ \A r \in condemned : r.id # record.id
    BY <2>1, <2>2 DEF IInv, Safe
  <2> QED BY <1>1, <2>2, <2>3
<1>9. FilledOK'
  BY DEF IInv, FilledOK
<1> QED BY <1>3, <1>4, <1>5, <1>7, <1>8, <1>9 DEF IInv

\* The steps of a delete.
LEMMA DeleteKeeps ==
  ASSUME NoRecord, IInv,
         Delete \/ DeleteRefused \/ DeleteFails \/ PollGone \/ PollAgain \/ PollEnds
  PROVE  IInv'
<1> DEFINE t == op.target
<1>1. CASE Delete
  <2>1. /\ op.step = "delete" /\ t \in Stored
        /\ UNCHANGED << kind, region, pending, foreign, numbers, lost, drifts >>
        /\ filled' = filled \cap DOMAIN world'
        /\ loose \subseteq loose'
    BY <1>1 DEF Delete, fixed, IInv, OpOK
  <2>2. /\ DOMAIN world' \subseteq DOMAIN world
        /\ DOMAIN world \subseteq DOMAIN world' \cup {t.id}
        /\ dying \cap DOMAIN world' \subseteq dying' /\ dying' \subseteq dying \cup {t.id}
        /\ t.id \in DOMAIN world' => t.id \in foreign \cup dying' \cup loose'
    BY <1>1 DEF Delete, Without
  <2>3. CASE Goes("poll") /\ UNCHANGED << record, condemned >>
    <3>1. op' = [step |-> "poll", plan |-> op.plan, inputs |-> op.inputs,
                 target |-> t, polls |-> op.polls]
      BY <2>3, Going DEF IInv
    <3>2. OpOK' /\ Awaited' = {} /\ Awaited = {}
      BY <2>1, <2>3, <3>1 DEF IInv, OpOK, Stored, Awaited
    <3>3. QueueOK' /\ Coming' = Coming
      BY <2>1 DEF IInv, QueueOK, PartsOf, Coming, Makes
    <3>4. ComingOK'
      BY <2>1, <2>2, <3>2, <3>3 DEF IInv, ComingOK
    <3>5. Owned' = Owned
      BY <2>3 DEF Owned, Stored
    <3>6. Accounted'
      BY <2>1, <2>2, <3>1, <3>2, <3>5 DEF IInv, Accounted
    <3>7. Safe'
      BY <2>1, <2>2, <2>3, <3>1 DEF IInv, Safe, Stored
    <3>8. FilledOK'
      BY <2>1 DEF IInv, FilledOK
    <3> QED BY <3>2, <3>3, <3>4, <3>6, <3>7, <3>8 DEF IInv
  <2>4. CASE Deleted(t)
    BY <2>1, <2>2, <2>4, DeletedKeeps
  <2> QED BY <1>1, <2>3, <2>4 DEF Delete
<1>2. CASE DeleteRefused
  <2>1. /\ op.step = "delete" /\ Fails
        /\ UNCHANGED << kind, world, record, condemned, filled, pending, foreign, dying, loose, lost, drifts >>
    BY <1>2 DEF DeleteRefused, fixed, service
  <2> QED BY <2>1, FailingLeaves
<1>3. CASE DeleteFails
  <2>1. /\ op.step = "delete" /\ Fails /\ t \in Stored
        /\ UNCHANGED << kind, record, condemned, pending, drifts, foreign, loose >>
        /\ filled' = filled \cap DOMAIN world' /\ dying' = dying \cap DOMAIN world'
    BY <1>3 DEF DeleteFails, fixed, IInv, OpOK
  <2>2. /\ DOMAIN world' \subseteq DOMAIN world /\ lost \subseteq lost'
        /\ DOMAIN world \subseteq DOMAIN world' \cup lost'
    BY <1>3 DEF DeleteFails, Without
  <2>3. op'.step = "idle" /\ OpOK' /\ Awaited' = {} /\ Awaited = {}
    BY <2>1 DEF IInv, Fails, Resting, OpOK, Awaited, Stored
  <2>4. QueueOK' /\ Coming' = Coming
    BY <2>1 DEF IInv, QueueOK, PartsOf, Coming, Makes
  <2>5. ComingOK'
    BY <2>1, <2>2, <2>3, <2>4 DEF IInv, ComingOK
  <2>6. Accounted'
    BY <2>1, <2>2, <2>3 DEF IInv, Accounted, Owned, Stored
  <2>7. Safe' /\ FilledOK'
    BY <2>1, <2>2, <2>3 DEF IInv, Safe, FilledOK
  <2> QED BY <2>3, <2>4, <2>5, <2>6, <2>7 DEF IInv
<1>4. CASE PollGone \/ PollEnds
  <2>1. /\ op.step = "poll" /\ Deleted(t) /\ lost \subseteq lost'
        /\ UNCHANGED << kind, world, dying, filled, pending, drifts, foreign, loose >>
    BY <1>4 DEF PollGone, PollEnds, fixed, service
  <2>2. t.id \in DOMAIN world => t.id \in foreign \cup dying \cup loose
    BY <2>1 DEF IInv, Accounted
  <2>3. filled \subseteq DOMAIN world
    BY DEF IInv, FilledOK
  <2> QED BY <2>1, <2>2, <2>3, DeletedKeeps
<1>5. CASE PollAgain
  <2>1. /\ op.step = "poll" /\ op' = [op EXCEPT !.polls = @ + 1]
        /\ UNCHANGED << kind, region, record, condemned, world, dying, filled, pending,
                        numbers, foreign, loose, lost, drifts >>
    BY <1>5 DEF PollAgain, fixed, service
  <2>2. op'.step = "poll" /\ op'.target = op.target
    BY <2>1 DEF IInv, OpOK
  <2>3. OpOK' /\ SameRecord /\ Awaited' = Awaited
    BY <2>1, <2>2 DEF IInv, OpOK, SameRecord, Awaited, Stored
  <2>4. DOMAIN world' = DOMAIN world
    BY <2>1
  <2> QED BY <2>1, <2>2, <2>3, <2>4, ObjectsKept
<1> QED BY <1>1, <1>2, <1>3, <1>4, <1>5

-----------------------------------------------------------------------------
(* The service and the others.                                              *)

\* Objects that come and go without the provider: what goes was being deleted or is
\* lost, what comes is the others'.
LEMMA WorldMoves ==
  ASSUME IInv, NEW gone, NEW made,
         DOMAIN world' = (DOMAIN world \ gone) \cup made,
         made \cap Coming = {}, made \subseteq foreign', foreign \subseteq foreign',
         dying \ gone \subseteq dying', dying' \subseteq dying,
         lost \subseteq lost', gone \subseteq lost' \cup dying,
         filled' \subseteq DOMAIN world', kind # "dataset" => filled' = {}, drifts' \in Nat,
         UNCHANGED << kind, region, record, condemned, op, numbers, pending, loose >>
  PROVE  IInv'
<1>1. OpOK'
  BY DEF IInv, OpOK, Stored, LongRunning
<1>2. Awaited' = Awaited
  BY SameId DEF Awaited
<1>3. QueueOK' /\ Coming' = Coming
  BY DEF IInv, QueueOK, PartsOf, Coming, Makes
<1>4. ComingOK'
  BY <1>2, <1>3 DEF IInv, ComingOK
<1>5. Owned' = Owned
  BY DEF Owned, Stored
<1>6. Accounted'
  BY <1>2, <1>5 DEF IInv, Accounted
<1>7. Safe'
  BY DEF IInv, Safe
<1>8. FilledOK'
  BY DEF FilledOK
<1> QED BY <1>1, <1>3, <1>4, <1>6, <1>7, <1>8 DEF IInv

\* A deletion or another operation of the service is carried out, others act.
LEMMA WorldKeeps ==
  ASSUME IInv, (\E id \in dying : Vanish(id)) \/ Settle \/ Others
  PROVE  IInv'
<1>1. ASSUME NEW id \in dying, Vanish(id)
      PROVE  IInv'
  <2>1. /\ DOMAIN world' = (DOMAIN world \ {id}) \cup {} /\ {} \cap Coming = {}
        /\ dying' = dying \ {id} /\ filled' = filled \ {id}
        /\ UNCHANGED << kind, region, record, condemned, op, numbers, pending,
                        lost, foreign, loose, drifts >>
    BY <1>1 DEF Vanish, Without, fixed, stack, history
  <2>2. filled' \subseteq DOMAIN world' /\ (kind # "dataset" => filled' = {}) /\ drifts' \in Nat
    BY <2>1 DEF IInv, FilledOK
  <2> QED BY <2>1, <2>2, WorldMoves
<1>2. CASE Settle
  <2> DEFINE w == Head(pending)
  <2>1. /\ pending # <<>> /\ pending' = Tail(pending)
        /\ UNCHANGED << kind, region, record, condemned, op, numbers, dying, filled,
                        drifts, lost, foreign, loose >>
    BY <1>2 DEF Settle, fixed, stack
  <2>2. /\ QueueOK' /\ Coming' \subseteq Coming
        /\ Makes(w) => w.id \in Coming /\ w.id \notin Coming'
    BY <2>1, Dequeueing DEF IInv
  <2>3. DOMAIN world' = DOMAIN world \cup (IF Makes(w) /\ world' # world THEN {w.id} ELSE {})
    <3>1. w.id \in DOMAIN world => ~Makes(w)
      BY <2>2 DEF IInv, ComingOK
    <3> QED BY <1>2, <3>1 DEF Settle, Put, Makes
  <2>4. OpOK'
    BY <2>1 DEF IInv, OpOK, Stored, LongRunning
  <2>5. Awaited' = Awaited
    BY <2>1, SameId DEF Awaited
  <2>6. ComingOK'
    BY <2>1, <2>2, <2>3, <2>5 DEF IInv, ComingOK
  <2>7. Owned' = Owned
    BY <2>1 DEF Owned, Stored
  <2>8. op.step = "poll" => Awaited = {}
    BY DEF Awaited
  <2>9. Accounted'
    BY <2>1, <2>2, <2>3, <2>5, <2>7, <2>8 DEF IInv, Accounted, ComingOK
  <2>10. Safe' /\ FilledOK'
    BY <2>1, <2>3 DEF IInv, Safe, FilledOK
  <2> QED BY <2>2, <2>4, <2>6, <2>9, <2>10 DEF IInv
<1>3. ASSUME NEW id \in DOMAIN world, OthersDelete(id)
      PROVE  IInv'
  <2>1. /\ DOMAIN world' = (DOMAIN world \ {id}) \cup {} /\ {} \cap Coming = {}
        /\ dying' = dying \ {id} /\ filled' = filled \ {id} /\ lost' = lost \cup {id}
        /\ drifts' = drifts + 1
        /\ UNCHANGED << kind, region, record, condemned, op, numbers, pending, foreign, loose >>
    BY <1>3 DEF OthersDelete, Without, Drift, fixed, stack
  <2>2. filled' \subseteq DOMAIN world' /\ (kind # "dataset" => filled' = {}) /\ drifts' \in Nat
    BY <2>1 DEF IInv, FilledOK
  <2> QED BY <2>1, <2>2, WorldMoves
<1>4. ASSUME NEW id \in DOMAIN world, OthersChange(id) \/ OthersFill(id)
      PROVE  IInv'
  <2>1. /\ DOMAIN world' = (DOMAIN world \ {}) \cup {} /\ {} \cap Coming = {}
        /\ filled' \subseteq filled \cup {id} /\ (kind # "dataset" => filled' = filled)
        /\ drifts' = drifts + 1
        /\ UNCHANGED << kind, region, record, condemned, op, numbers, pending, dying,
                        lost, foreign, loose >>
    BY <1>4 DEF OthersChange, OthersFill, Drift, fixed, stack
  <2>2. filled' \subseteq DOMAIN world' /\ (kind # "dataset" => filled' = {}) /\ drifts' \in Nat
    BY <2>1 DEF IInv, FilledOK
  <2> QED BY <2>1, <2>2, WorldMoves
<1>5. ASSUME NEW p \in Programs[kind], OthersCreate(p)
      PROVE  IInv'
  <2> DEFINE id == IdOf(p, 0)
  <2>1. /\ Free(id) /\ world' = Put(id, NewObject(Create(p).body))
        /\ foreign' = foreign \cup {id} /\ drifts' = drifts + 1
        /\ UNCHANGED << kind, region, record, condemned, op, numbers, pending, dying, filled,
                        lost, loose >>
    BY <1>5 DEF OthersCreate, Drift, fixed, stack
  <2>2. DOMAIN world' = (DOMAIN world \ {}) \cup {id} /\ {id} \cap Coming = {}
    BY <2>1, FreeName DEF Put
  <2>3. filled' \subseteq DOMAIN world' /\ (kind # "dataset" => filled' = {}) /\ drifts' \in Nat
    BY <2>1, <2>2 DEF IInv, FilledOK
  <2> QED BY <2>1, <2>2, <2>3, WorldMoves
<1> QED BY <1>1, <1>2, <1>3, <1>4, <1>5 DEF Others
-----------------------------------------------------------------------------
(* The theorems.                                                            *)

\* The stack before the first deploy.
LEMMA InitOK ==
  ASSUME ManagedInit
  PROVE  IInv
<1>1. /\ record = Absent /\ condemned = {} /\ op = Resting /\ world = <<>> /\ dying = {}
      /\ filled = {} /\ pending = <<>> /\ drifts = 0
  BY DEF ManagedInit
<1>2. OpOK
  BY <1>1 DEF OpOK, Resting
<1>3. DOMAIN pending = {} /\ DOMAIN world = {} /\ pending \in Seq(PartsOf(pending))
  BY <1>1, EmptySeq
<1>4. QueueOK /\ ComingOK
  BY <1>3 DEF QueueOK, ComingOK, Coming
<1>5. Accounted /\ Safe /\ FilledOK
  BY <1>1, <1>3 DEF Accounted, Safe, FilledOK, Resting
<1> QED BY <1>2, <1>4, <1>5 DEF IInv

\* Every step keeps the invariant.
LEMMA NextKeeps ==
  ASSUME NoRecord, IInv, [ManagedNext]_managedVars
  PROVE  IInv'
<1>1. CASE UNCHANGED managedVars
  <2>1. UNCHANGED << kind, region, record, condemned, op, world, dying, filled, pending,
                     numbers, drifts, lost, foreign, loose >>
    BY <1>1 DEF managedVars, fixed, service, stack, history
  <2>2. OpOK' /\ Awaited' = Awaited
    BY <2>1, SameId DEF IInv, OpOK, Stored, LongRunning, Awaited
  <2>3. SameRecord
    BY <2>1 DEF SameRecord
  <2> QED BY <2>1, <2>2, <2>3, ObjectsKept
<1>2. CASE (\E p \in Programs[kind] : Up(p)) \/ Destroy \/ Refresh
  BY <1>2, EngineKeeps
<1>3. CASE Call
  BY <1>3, CreateKeeps, UpdateKeeps, DeleteKeeps DEF Call
<1>4. CASE (\E id \in dying : Vanish(id)) \/ Settle \/ Others
  BY <1>4, WorldKeeps
<1> QED BY <1>1, <1>2, <1>3, <1>4 DEF ManagedNext

\* The invariant holds of the stack throughout.
LEMMA ManagedInvariant ==
  ASSUME NoRecord
  PROVE  ManagedSpec => []IInv
<1>1. ManagedInit => IInv
  BY InitOK
<1>2. IInv /\ [ManagedNext]_managedVars => IInv'
  BY NextKeeps
<1> QED BY <1>1, <1>2, PTL DEF ManagedSpec

\* Exists: between operations the recorded object is there, whatever was replaced,
\* deleted, lost or adopted on the way; except where others deleted it and where a
\* replacement took over the name that it then deletes.
THEOREM ExistsHolds ==
  ASSUME NoRecord
  PROVE  ManagedSpec => []Exists
<1>1. IInv => Exists
  BY DEF IInv, Safe, Exists, Recorded, Idle
<1> QED BY <1>1, ManagedInvariant, PTL

\* NoStray: between operations every object is recorded, condemned, made by others,
\* on its way out, or made by a create whose answer was lost.
THEOREM NoStrayHolds ==
  ASSUME NoRecord
  PROVE  ManagedSpec => []NoStray
<1>1. IInv => NoStray
  BY DEF IInv, Accounted, NoStray, Idle, Awaited, Owned, Stored
<1> QED BY <1>1, ManagedInvariant, PTL

\* A delete goes through with a filled dataset only when its record asks for it.
LEMMA AskedFor ==
  ASSUME IInv, op.step = "delete", ~StillContains(op.target), op.target.id \in filled
  PROVE  \E t \in Stored : t.id = op.target.id /\ DeletesContents(t.inputs)
BY DEF IInv, OpOK, FilledOK, StillContains

\* Only a delete, a deletion under way and the others take an object away.
LEMMA Remains ==
  ASSUME IInv, [ManagedNext]_managedVars, drifts' = drifts,
         NEW id \in DOMAIN world \ dying,
         ~ /\ op.step = "delete" /\ ~StillContains(op.target)
           /\ op.target.id = id
  PROVE  id \in DOMAIN world' \ dying'
<1>1. CASE UNCHANGED << world, dying >>
  BY <1>1
<1>2. CASE Delete \/ DeleteFails
  BY <1>2 DEF Delete, DeleteFails, Without
<1>3. CASE dying' = dying /\ DOMAIN world \subseteq DOMAIN world'
  BY <1>3
<1>4. CASE Call /\ ~(Delete \/ DeleteFails)
  <2>1. CASE CreateMakes \/ CreateConflicts \/ CreateFails \/ CreateRepeats
    BY <2>1, <1>3 DEF CreateMakes, CreateConflicts, CreateFails, CreateRepeats, Put, service
  <2>2. CASE Adopt \/ AdoptFails \/ AwaitAgent
    BY <2>2, <1>3 DEF Adopt, AdoptFails, AwaitAgent, service
  <2>3. CASE UpdateDone \/ UpdateMisses \/ UpdateFails
    BY <2>3, <1>3 DEF UpdateDone, UpdateMisses, UpdateFails, service
  <2>4. CASE ReadFinds \/ ReadMisses \/ ReadFails
    BY <2>4, <1>1 DEF ReadFinds, ReadMisses, ReadFails, service
  <2>5. CASE DeleteRefused \/ PollGone \/ PollAgain \/ PollEnds
    BY <2>5, <1>1 DEF DeleteRefused, PollGone, PollAgain, PollEnds, service
  <2> QED BY <1>4, <2>1, <2>2, <2>3, <2>4, <2>5 DEF Call
<1>5. CASE (\E p \in Programs[kind] : Up(p)) \/ Destroy \/ Refresh
  BY <1>5, <1>1 DEF Up, Destroy, Refresh, service
<1>6. CASE (\E d \in dying : Vanish(d)) \/ Settle
  BY <1>6, <1>3 DEF Vanish, Settle, Put, Without
<1>7. ~Others
  BY DEF Others, OthersDelete, OthersChange, OthersFill, OthersCreate, Drift, IInv, FilledOK
<1>8. CASE UNCHANGED managedVars
  BY <1>8, <1>1 DEF managedVars, service
<1> QED BY <1>2, <1>4, <1>5, <1>6, <1>7, <1>8 DEF ManagedNext

\* ContentsKept: a dataset others keep tables in is only deleted, among the steps of
\* the stack and its service, with the cascade asked for by a recorded apply.
THEOREM ContentsKeptHolds ==
  ASSUME NoRecord
  PROVE  ManagedSpec => ContentsKept
<1> DEFINE Keeps == \A id \in filled \ dying :
              \/ id \in DOMAIN world' \ dying'
              \/ drifts' # drifts
              \/ \E t \in condemned \cup (IF record = Absent THEN {} ELSE {record}) :
                   t.id = id /\ t.inputs["deleteContentsOnDestroy"] = TRUE
<1>1. ASSUME IInv, [ManagedNext]_managedVars, NEW id \in filled \ dying,
             drifts' = drifts, id \notin DOMAIN world' \ dying'
      PROVE  \E t \in Stored : t.id = id /\ DeletesContents(t.inputs)
  <2>1. id \in DOMAIN world \ dying
    BY <1>1 DEF IInv, FilledOK
  <2>2. op.step = "delete" /\ ~StillContains(op.target) /\ op.target.id = id
    BY <1>1, <2>1, Remains
  <2> QED BY <1>1, <2>2, AskedFor
<1>2. IInv /\ [ManagedNext]_managedVars => Keeps
  BY <1>1 DEF Stored, DeletesContents
<1>3. IInv /\ [ManagedNext]_managedVars => [Keeps]_managedVars
  BY <1>2
<1> QED BY <1>3, ManagedInvariant, PTL DEF ManagedSpec, ContentsKept

-----------------------------------------------------------------------------
(* Failures.                                                                *)

\* The service is deleting only what it has; where the Sync methods answer, only what
\* the engine is waiting to see gone or has given up.
DyingOK ==
  /\ dying \subseteq DOMAIN world
  /\ region = "sync" =>
       \A id \in dying : id \in lost \/ (op.step = "poll" /\ op.target.id = id)

\* There nothing is long-running, and what a create is to take over is there.
SyncOK ==
  region = "sync" => /\ pending = <<>>
                     /\ op.step = "adopt" => NextId \in DOMAIN world \cup lost

FInv == kind \in AllKinds /\ DyingOK /\ SyncOK

\* Only the creates of conversations, engines and memories do not take over what is there.
LEMMA AdoptedKinds ==
  ASSUME kind \in AllKinds, NEW p, ~Create(p).adopts
  PROVE  kind \in {"conversation", "engine", "memory"}
<1>1. CreateTable(p).adopts /\ CreateDataset(p).adopts /\ CreateRoutine(p).adopts
  BY DEF CreateTable, CreateDataset, CreateRoutine
<1>2. CreateAgent(p).adopts
  BY DEF CreateAgent
<1>3. kind = "table" => Create(p) = CreateTable(p)
  BY DEF Create
<1>4. kind = "dataset" => Create(p) = CreateDataset(p)
  BY DEF Create
<1>5. kind = "routine" => Create(p) = CreateRoutine(p)
  BY DEF Create
<1>6. kind = "dataAgent" => Create(p) = CreateAgent(p)
  BY DEF Create
<1> QED BY <1>1, <1>2, <1>3, <1>4, <1>5, <1>6 DEF AllKinds

\* A step that does not take away what is awaited gone or to be taken over.
LEMMA FaultsKept ==
  ASSUME FInv, UNCHANGED fixed, dying' \subseteq dying \cap DOMAIN world', lost \subseteq lost',
         DOMAIN world \ DOMAIN world' \subseteq dying \cup lost',
         region = "sync" => pending' = <<>>,
         op.step = "poll" => \/ op'.step = "poll" /\ op'.target = op.target
                             \/ op.target.id \notin dying' \/ op.target.id \in lost',
         op'.step = "adopt" => op.step = "adopt" /\ NextId' = NextId
  PROVE  FInv'
<1>1. UNCHANGED << kind, region >>
  BY DEF fixed
<1>2. DyingOK'
  BY <1>1 DEF FInv, DyingOK
<1>3. ASSUME region = "sync", op'.step = "adopt"
      PROVE  NextId' \in DOMAIN world' \cup lost'
  BY <1>3 DEF FInv, DyingOK, SyncOK
<1> QED BY <1>1, <1>2, <1>3 DEF FInv, SyncOK

\* The engine begins something else.
LEMMA EngineFaults ==
  ASSUME FInv, (\E p \in Programs[kind] : Up(p)) \/ Destroy \/ Refresh
  PROVE  FInv'
<1>1. /\ op.step = "idle" /\ UNCHANGED << fixed, world, dying, pending, lost >>
  BY DEF Up, Destroy, Refresh, Idle, service
<1>2. op'.step # "adopt"
  <2>1. CASE Destroy \/ Refresh
    BY <2>1 DEF Destroy, Refresh, Begin
  <2>2. ASSUME NEW p \in Programs[kind], Up(p)
        PROVE  op'.step # "adopt"
    <3>1. (\E s \in {"create", "delete", "update"} : \E plan, i, t : Begin(s, plan, i, t))
          \/ Proceeds(condemned)
      BY <2>2 DEF Up
    <3> QED BY <3>1, Proceeding DEF Begin
  <2> QED BY <2>1, <2>2
<1>3. dying \subseteq DOMAIN world
  BY DEF FInv, DyingOK
<1> QED BY <1>1, <1>2, <1>3, FaultsKept DEF FInv, SyncOK

\* create, and the wait for an operation.
LEMMA CreateFaults ==
  ASSUME NoRecord, IInv, FInv,
         \/ CreateMakes \/ CreateConflicts \/ CreateFails \/ CreateRepeats
         \/ Adopt \/ AdoptFails \/ AwaitAgent
  PROVE  FInv'
<1>1. dying \subseteq DOMAIN world /\ (region = "sync" => pending = <<>> /\ ~LongRunning)
  BY DEF FInv, DyingOK, SyncOK, LongRunning
<1>2. ASSUME Fails \/ Goes("wait"), UNCHANGED << fixed, dying, lost >>,
             DOMAIN world \subseteq DOMAIN world',
             op.step # "poll", region = "sync" => pending' = <<>>
      PROVE  FInv'
  <2>1. op'.step # "adopt"
    BY <1>2, Going DEF Fails, Resting, IInv
  <2> QED BY <1>1, <1>2, <2>1, FaultsKept
<1>3. ASSUME NEW id, Stores(id), op.step # "poll",
             UNCHANGED << fixed, dying >>, DOMAIN world \subseteq DOMAIN world',
             region = "sync" => pending' = <<>>
      PROVE  FInv'
  <2>1. op'.step \in {"idle", "delete"}
    BY <1>3, Proceeding DEF Stores
  <2>2. UNCHANGED << kind, region >>
    BY <1>3 DEF fixed
  <2>3. region = "sync" => dying \subseteq lost'
    BY <1>3 DEF FInv, DyingOK, Stores
  <2> QED BY <1>1, <1>3, <2>1, <2>2, <2>3 DEF FInv, DyingOK, SyncOK
<1>4. CASE CreateMakes
  <2>1. CASE LongRunning
    BY <1>1, <1>2, <1>4, <2>1 DEF CreateMakes
  <2>2. CASE ~LongRunning
    BY <1>1, <1>3, <1>4, <2>2 DEF CreateMakes, Put
  <2> QED BY <2>1, <2>2
<1>5. CASE CreateConflicts
  <2>1. CASE Fails
    BY <1>1, <1>2, <1>5, <2>1 DEF CreateConflicts, service
  <2>2. CASE Goes("adopt")
    <3>1. /\ UNCHANGED << fixed, service, lost >> /\ op'.step = "adopt" /\ op'.inputs = op.inputs
          /\ op.step = "create"
      BY <1>5, <2>2, Going DEF CreateConflicts, IInv
    <3>2. NextId' = NextId
      BY <3>1, SameId DEF fixed, service
    <3>3. region = "sync" => NextId \in DOMAIN world
      BY <1>1, <1>5 DEF CreateConflicts, Free
    <3> QED BY <1>1, <3>1, <3>2, <3>3 DEF FInv, DyingOK, SyncOK, fixed, service
  <2> QED BY <1>5, <2>1, <2>2 DEF CreateConflicts
<1>6. CASE CreateFails
  BY <1>1, <1>2, <1>6 DEF CreateFails, Put
<1>7. CASE CreateRepeats
  <2>1. op'.step = "create" /\ op.step = "create" /\ UNCHANGED << fixed, dying, lost, pending >>
        /\ DOMAIN world \subseteq DOMAIN world'
    BY <1>7 DEF CreateRepeats, stack, Put
  <2> QED BY <1>1, <2>1, FaultsKept
<1>8. CASE Adopt
  <2>1. CASE Fails /\ UNCHANGED << world, pending, lost >>
    BY <1>1, <1>2, <1>8, <2>1 DEF Adopt
  <2>2. CASE LongRunning /\ Goes("wait") /\ UNCHANGED << world, lost >>
    BY <1>1, <1>2, <1>8, <2>2 DEF Adopt
  <2>3. CASE Stores(NextId) /\ UNCHANGED pending /\ DOMAIN world' = DOMAIN world
    BY <1>1, <1>3, <1>8, <2>3 DEF Adopt
  <2> QED BY <1>8, <2>1, <2>2, <2>3 DEF Adopt
<1>9. CASE AdoptFails
  BY <1>1, <1>2, <1>9 DEF AdoptFails
<1>10. CASE AwaitAgent
  <2>1. /\ UNCHANGED << fixed, world, dying, pending >> /\ op.step = "wait"
        /\ \/ (Proceeds(condemned) \/ Fails) /\ lost' = lost
           \/ Stores(NextId)
    BY <1>10 DEF AwaitAgent, service
  <2>2. CASE Stores(NextId)
    BY <1>1, <1>3, <2>1, <2>2
  <2>3. CASE Fails /\ lost' = lost
    BY <1>1, <1>2, <2>1, <2>3
  <2>4. CASE Proceeds(condemned) /\ lost' = lost
    <3>1. op'.step \in {"idle", "delete"}
      BY <2>4, Proceeding
    <3> QED BY <1>1, <2>1, <2>4, <3>1, FaultsKept
  <2> QED BY <2>1, <2>2, <2>3, <2>4
<1> QED BY <1>4, <1>5, <1>6, <1>7, <1>8, <1>9, <1>10

\* update and read.
LEMMA UpdateFaults ==
  ASSUME IInv, FInv, \/ UpdateDone \/ UpdateMisses \/ UpdateFails
                     \/ ReadFinds \/ ReadMisses \/ ReadFails
  PROVE  FInv'
<1>1. dying \subseteq DOMAIN world /\ (region = "sync" => pending = <<>> /\ ~LongRunning)
  BY DEF FInv, DyingOK, SyncOK, LongRunning
<1>2. /\ UNCHANGED << fixed, dying, lost >> /\ op.step \in {"update", "read"}
      /\ Fails \/ op' = Resting \/ Proceeds(condemned) \/ (LongRunning /\ Goes("wait"))
      /\ pending' = pending \/ LongRunning
  BY DEF UpdateDone, UpdateMisses, UpdateFails, ReadFinds, ReadMisses, ReadFails, service
<1>3. DOMAIN world' = DOMAIN world
  BY DEF UpdateDone, UpdateMisses, UpdateFails, ReadFinds, ReadMisses, ReadFails, service
<1>4. op'.step # "adopt"
  BY <1>2, Going, Proceeding DEF Fails, Resting, IInv
<1> QED BY <1>1, <1>2, <1>3, <1>4, FaultsKept

\* A delete that has answered goes on to something else.
LEMMA DeletedOn ==
  ASSUME NEW t, Deleted(t)
  PROVE  op'.step \in {"idle", "create", "delete"}
BY Proceeding DEF Deleted, Begin

\* delete.
LEMMA DeleteFaults ==
  ASSUME IInv, FInv, \/ Delete \/ DeleteRefused \/ DeleteFails
                     \/ PollGone \/ PollAgain \/ PollEnds
  PROVE  FInv'
<1>1. dying \subseteq DOMAIN world /\ (region = "sync" => pending = <<>> /\ ~LongRunning)
  BY DEF FInv, DyingOK, SyncOK, LongRunning
<1>2. CASE Delete
  <2>1. /\ op.step = "delete" /\ UNCHANGED << fixed, pending, lost >>
        /\ \/ world' = Without(op.target.id) /\ dying' = dying \ {op.target.id}
           \/ dying' = dying \cup {op.target.id} /\ world' = world
              /\ op.target.id \in DOMAIN world /\ (LongRunning \/ Verified)
           \/ UNCHANGED << world, dying >>
        /\ IF Verified THEN Goes("poll") ELSE Deleted(op.target)
    BY <1>2 DEF Delete
  <2>2. /\ op'.step # "adopt"
        /\ Verified => op'.step = "poll" /\ op'.target = op.target
    BY <2>1, Going, DeletedOn DEF IInv
  <2>3. UNCHANGED << kind, region >>
    BY <2>1 DEF fixed
  <2>4. dying' \subseteq DOMAIN world'
    BY <1>1, <2>1 DEF Without
  <2>5. region = "sync" => dying \subseteq lost
    BY <2>1 DEF FInv, DyingOK
  <2>6. region = "sync" => \A id \in dying' : id \in lost \/ (op'.step = "poll" /\ op'.target.id = id)
    BY <1>1, <2>1, <2>2, <2>5
  <2>7. DyingOK'
    BY <2>1, <2>3, <2>4, <2>6 DEF DyingOK
  <2> QED BY <1>1, <2>1, <2>2, <2>3, <2>7 DEF FInv, SyncOK
<1>3. CASE DeleteRefused \/ DeleteFails
  <2>1. /\ op.step = "delete" /\ Fails /\ UNCHANGED << fixed, pending >>
        /\ dying' \subseteq dying \cap DOMAIN world' /\ lost \subseteq lost'
        /\ DOMAIN world \ DOMAIN world' \subseteq lost'
    BY <1>1, <1>3 DEF DeleteRefused, DeleteFails, Without, service
  <2>2. op'.step = "idle"
    BY <2>1 DEF Fails, Resting
  <2> QED BY <1>1, <2>1, <2>2, FaultsKept
<1>4. CASE PollGone
  <2>1. /\ op.target.id \notin DOMAIN world /\ UNCHANGED << fixed, world, dying, pending, lost >>
        /\ Deleted(op.target)
    BY <1>4 DEF PollGone, service
  <2> QED BY <1>1, <2>1, DeletedOn, FaultsKept
<1>5. CASE PollAgain
  <2>1. /\ op.step = "poll" /\ UNCHANGED << fixed, world, dying, pending, lost >>
        /\ op' = [op EXCEPT !.polls = op.polls + 1]
    BY <1>5 DEF PollAgain, service
  <2>2. op'.step = "poll" /\ op'.target = op.target
    BY <2>1 DEF IInv, OpOK
  <2> QED BY <1>1, <2>1, <2>2, FaultsKept
<1>6. CASE PollEnds
  <2>1. /\ UNCHANGED << fixed, world, dying, pending >> /\ Deleted(op.target)
        /\ lost' = lost \cup ({op.target.id} \cap DOMAIN world)
    BY <1>6 DEF PollEnds, service
  <2> QED BY <1>1, <2>1, DeletedOn, FaultsKept
<1> QED BY <1>2, <1>3, <1>4, <1>5, <1>6

\* The service and the others.
LEMMA WorldFaults ==
  ASSUME FInv, (\E id \in dying : Vanish(id)) \/ Settle \/ Others
  PROVE  FInv'
<1>1. dying \subseteq DOMAIN world /\ (region = "sync" => pending = <<>>)
  BY DEF FInv, DyingOK, SyncOK
<1>2. UNCHANGED << fixed, stack, numbers >>
  BY DEF Vanish, Settle, Others, OthersDelete, OthersChange, OthersCreate, OthersFill
<1>3. op' = op /\ NextId' = NextId
  BY <1>2, SameId DEF fixed, stack
<1>4. CASE \E id \in dying : Vanish(id)
  BY <1>1, <1>2, <1>3, <1>4, FaultsKept DEF Vanish, Without, history
<1>5. CASE Settle
  BY <1>1, <1>2, <1>3, <1>5, FaultsKept DEF Settle, Put
<1>6. CASE Others
  BY <1>1, <1>2, <1>3, <1>6, FaultsKept
     DEF Others, OthersDelete, OthersChange, OthersCreate, OthersFill, Without, Put
<1> QED BY <1>4, <1>5, <1>6

\* What is known of failures holds throughout.
LEMMA FaultsInvariant ==
  ASSUME NoRecord
  PROVE  ManagedSpec => [](IInv /\ FInv)
<1>1. ManagedInit => FInv
  BY ManagedAssumption DEF ManagedInit, FInv, DyingOK, SyncOK, Resting
<1>2. IInv /\ FInv /\ [ManagedNext]_managedVars => FInv'
  <2>1. CASE UNCHANGED managedVars
    <3>1. UNCHANGED << fixed, world, dying, pending, lost, op, numbers >>
      BY <2>1 DEF managedVars, service, stack, history
    <3>2. NextId' = NextId
      BY <3>1, SameId DEF fixed
    <3> QED BY <3>1, <3>2 DEF FInv, DyingOK, SyncOK, fixed
  <2> QED BY <2>1, EngineFaults, CreateFaults, UpdateFaults, DeleteFaults, WorldFaults
          DEF ManagedNext, Call
<1> QED BY <1>1, <1>2, ManagedInvariant, PTL DEF ManagedSpec

\* OnlyFaultsFail: an operation none of whose calls met a fault fails only because the
\* object was deleted by others, the dataset holds tables, or the name of a
\* conversation is taken.
THEOREM OnlyFaultsFailHolds ==
  ASSUME NoRecord
  PROVE  ManagedSpec => OnlyFaultsFail
<1> DEFINE Reason == outcome' = "failed" /\ outcome # "failed" =>
              \/ hit' \/ region # "sync"
              \/ op.step \in {"update", "read"} /\ record.id \in lost
              \/ op.step = "adopt" /\ NextId \in lost
              \/ op.step = "delete" /\ op.target.id \in filled
              \/ op.step = "create" /\ kind = "conversation"
<1>1. IInv /\ FInv /\ [ManagedNext]_managedVars => Reason
  <2> SUFFICES ASSUME IInv, FInv, [ManagedNext]_managedVars,
                      outcome' = "failed", outcome # "failed", ~hit', region = "sync"
               PROVE  Reason
    OBVIOUS
  <2>1. ~LongRunning /\ op.step # "wait"
    BY DEF LongRunning, IInv, OpOK
  <2>2. \A cond : ~Proceeds(cond)
    BY DEF Proceeds, Begin
  <2>3. Call
    BY <2>2 DEF ManagedNext, managedVars, stack, Up, Destroy, Refresh, Begin, Vanish, Settle,
               Others, OthersDelete, OthersChange, OthersCreate, OthersFill
  <2>4. CreateConflicts \/ Adopt \/ UpdateMisses \/ ReadMisses \/ DeleteRefused
    <3>1. ~(CreateFails \/ CreateRepeats \/ AdoptFails \/ UpdateFails \/ ReadFails \/ DeleteFails)
      BY DEF CreateFails, CreateRepeats, AdoptFails, UpdateFails, ReadFails, DeleteFails, Fault
    <3>2. ~(CreateMakes \/ AwaitAgent \/ UpdateDone \/ ReadFinds)
      BY <2>1, <2>2 DEF CreateMakes, AwaitAgent, UpdateDone, ReadFinds, Stores
    <3>3. ~(Delete \/ PollGone \/ PollAgain \/ PollEnds)
      BY <2>2 DEF Delete, PollGone, PollAgain, PollEnds, Deleted, Begin
    <3> QED BY <2>3, <3>1, <3>2, <3>3 DEF Call
  <2>5. CASE CreateConflicts
    <3>1. op.step = "create" /\ Named /\ ~Create(op.inputs).adopts
      BY <2>5 DEF CreateConflicts
    <3> QED BY <3>1, AdoptedKinds DEF FInv, Named
  <2>6. CASE Adopt
    <3>1. op.step = "adopt" /\ NextId \notin DOMAIN world
      BY <2>2, <2>6 DEF Adopt, Stores
    <3> QED BY <3>1 DEF FInv, SyncOK
  <2>7. CASE UpdateMisses \/ ReadMisses
    <3>1. op.step \in {"update", "read"} /\ record.id \notin DOMAIN world
      BY <2>7 DEF UpdateMisses, ReadMisses
    <3> QED BY <3>1 DEF IInv, OpOK, Safe
  <2>8. CASE DeleteRefused
    BY <2>8 DEF DeleteRefused, StillContains
  <2> QED BY <2>4, <2>5, <2>6, <2>7, <2>8
<1>2. IInv /\ FInv /\ [ManagedNext]_managedVars => [Reason]_managedVars
  BY <1>1
<1> QED BY <1>2, FaultsInvariant, PTL DEF ManagedSpec, OnlyFaultsFail

-----------------------------------------------------------------------------
(* What a program gives, and what an object has.                            *)

\* The inputs of the kind at hand.
InputFields == InputFieldsOf(kind)

\* Of the kinds whose labels BigQuery adds up.
Labelled == kind \in {"table", "dataset"}
\* The values of the field.
LabelValues == {Absent} \cup SUBSET AllLabels

\* Inputs as a program gives them or a read returns them.
Input(p) ==
  /\ p = [f \in InputFields |-> p[f]]
  /\ Labelled => p["labels"] \in LabelValues

\* Objects as the service keeps them.
Object(o) ==
  /\ o = [f \in ObjectFields |-> o[f]]
  /\ Labelled => o["labels"] \in LabelValues
  /\ kind = "conversation" => o["location"] # Absent

\* The fields that only a replacement changes, ...
FixedFields ==
  CASE kind = "table" -> TableIds
    [] kind = "dataset" -> DatasetReplaced
    [] kind = "routine" -> RoutineReplaced
    [] kind = "dataAgent" -> AgentIds
    [] kind = "conversation" -> ConversationIds
    [] kind = "engine" -> EngineReplaced
    [] kind = "memory" -> MemoryReplaced

\* ... and all that the inputs decide.
Bound == Maintained \cup FixedFields

\* Whether p has something for the field f in the body of a create, ...
Asks(p, f) ==
  CASE kind = "dataAgent" -> \/ f = "staging"
                             \/ f = "published" /\ p["publish"] = TRUE
                             \/ f \in AgentIds \cup AgentTexts \cup {"labels"} /\ p[f] # Absent
    [] kind = "conversation" -> ParseConversation(p)[f] # Absent
    [] kind = "engine" -> f \in EngineIds \/ p[f] # Absent
    [] kind = "memory" -> f \in MemoryIds \/ p[f] # Absent
    [] OTHER -> p[f] # Absent

\* ... and with which value.
Value(p, f) ==
  CASE kind = "dataAgent" -> IF f \in {"staging", "published"} THEN Context(p) ELSE p[f]
    [] kind = "conversation" -> ParseConversation(p)[f]
    [] OTHER -> p[f]

\* The field f of an object is as p says when it has the value x.
Right(f, x, p) ==
  /\ Asks(p, f) => Agree(f, x, Value(p, f))
  /\ ~Asks(p, f) /\ f \in ClearedToo => Agree(f, x, Absent)

-----------------------------------------------------------------------------
\* The fields of a table that the inputs decide are members of no object.
LEMMA TableParsed ==
  ASSUME NEW p, NEW f \in TableIds \cup TableCleared \cup {"expirationTime", "storageBillingModel"}
  PROVE  /\ f \in TableFields /\ ParseTable(p)[f] = p[f]
         /\ f \notin {"deletionProtection", "maxStaleness"}
<1>1. f \in TableFields
  <2>1. f \in TableIds \cup {"description", "friendlyName", "labels", "expirationTime",
                           "clusterings", "storageBillingModel"}
    BY DEF TableCleared
  <2>2. TableIds \cup {"description", "friendlyName", "labels", "expirationTime",
                      "clusterings", "storageBillingModel"} \subseteq TableFields
    BY DEF TableFields
  <2> QED BY <2>1, <2>2
<1>2. ObjectsOf[f] = {o \in Objects : f = o \/ f \in Members(o)}
  BY <1>1 DEF ObjectsOf
<1>3. \A o \in Objects : f # o /\ f \notin Members(o)
  BY DEF Objects, Members, View, MatView, TimePart, RangePart, External, TableIds, TableCleared
<1>4. ObjectsOf[f] = {}
  BY <1>2, <1>3
<1>5. f \notin DOMAIN TableDefaults
  BY DEF TableDefaults, TableIds, TableCleared
<1>6. ParseTable(p)[f] = p[f]
  BY <1>1, <1>4, <1>5 DEF ParseTable
<1>7. f \notin {"deletionProtection", "maxStaleness"}
  BY DEF TableIds, TableCleared
<1> QED BY <1>1, <1>6, <1>7

\* The fields the inputs decide are fields of the object, and of the inputs but for
\* the contexts of a data agent.
LEMMA BoundFields ==
  ASSUME kind \in AllKinds
  PROVE  /\ Bound \subseteq ObjectFields
         /\ kind # "dataAgent" => Bound \subseteq InputFields
<1>1. CASE kind = "table"
  BY <1>1, TableParsed DEF Bound, Maintained, FixedFields, ObjectFields, InputFields, InputFieldsOf
<1>2. CASE kind = "dataset"
  BY <1>2 DEF Bound, Maintained, FixedFields, ObjectFields, InputFields, InputFieldsOf,
              DatasetUpdated, DatasetReplaced, DatasetFields, DatasetIds
<1>3. CASE kind = "routine"
  BY <1>3 DEF Bound, Maintained, FixedFields, ObjectFields, InputFields, InputFieldsOf, RoutineFields
<1>4. CASE kind = "dataAgent"
  BY <1>4 DEF Bound, Maintained, FixedFields, ObjectFields, InputFields, InputFieldsOf, AgentFields
<1>5. CASE kind = "conversation"
  BY <1>5 DEF Bound, Maintained, FixedFields, ObjectFields, InputFields, InputFieldsOf, ConversationFields
<1>6. CASE kind = "engine"
  BY <1>6 DEF Bound, Maintained, FixedFields, ObjectFields, InputFields, InputFieldsOf,
              EngineFields, EngineReplaced, EngineSpec
<1>7. CASE kind = "memory"
  BY <1>7 DEF Bound, Maintained, FixedFields, ObjectFields, InputFields, InputFieldsOf, MemoryFields, MemoryReplaced
<1> QED BY <1>1, <1>2, <1>3, <1>4, <1>5, <1>6, <1>7 DEF AllKinds

\* The body of a create, field by field.
LEMMA BodyIs ==
  ASSUME kind \in AllKinds, NEW p, Input(p), NEW f \in Bound
  PROVE  /\ Asks(p, f) => f \in DOMAIN Create(p).body /\ Create(p).body[f] = Value(p, f)
         /\ f \in DOMAIN Create(p).body => Asks(p, f) \/ (kind = "dataAgent" /\ f \in AgentIds)
<1>1. CASE kind = "table"
  <2>1. f \in TableIds \cup TableCleared \cup {"expirationTime", "storageBillingModel"}
    BY <1>1 DEF Bound, Maintained, FixedFields
  <2>2. /\ Create(p).body = Given(ParseTable(p), TableFields \ {"deletionProtection", "maxStaleness"})
        /\ (Asks(p, f) <=> p[f] # Absent) /\ Value(p, f) = p[f]
    BY <1>1 DEF Create, CreateTable, TableCreateBody, Asks, Value
  <2> QED BY <2>1, <2>2, TableParsed DEF Given
<1>2. CASE kind = "dataset"
  <2>1. f \in DatasetReplaced \cup DatasetUpdated
    BY <1>2 DEF Bound, Maintained, FixedFields
  <2>2. /\ Create(p).body = Given(p, DatasetReplaced \cup DatasetUpdated)
        /\ (Asks(p, f) <=> p[f] # Absent) /\ Value(p, f) = p[f]
    BY <1>2 DEF Create, CreateDataset, DatasetCreateBody, Asks, Value
  <2> QED BY <2>1, <2>2 DEF Given
<1>3. CASE kind = "routine"
  <2>1. f \in RoutineFields
    BY <1>3 DEF Bound, Maintained, FixedFields, RoutineFields
  <2>2. /\ Create(p).body = Given(p, RoutineFields)
        /\ (Asks(p, f) <=> p[f] # Absent) /\ Value(p, f) = p[f]
    BY <1>3 DEF Create, CreateRoutine, RoutineBody, Asks, Value
  <2> QED BY <2>1, <2>2 DEF Given
<1>4. CASE kind = "dataAgent"
  <2>1. f \in AgentTexts \cup {"labels", "staging", "published"} \cup AgentIds
    BY <1>4 DEF Bound, Maintained, FixedFields
  <2>2. Create(p).body = WithPath(AgentBody(p), ParseAgent(p), AgentIds)
    BY <1>4 DEF Create, CreateAgent
  <2>3. DOMAIN AgentBody(p) = {g \in AgentTexts \cup {"labels", "kmsKey"} : p[g] # Absent} \cup {"staging"}
           \cup (IF p["publish"] = TRUE THEN {"published"} ELSE {})
    BY DEF AgentBody
  <2>4. \A g \in DOMAIN AgentBody(p) :
          AgentBody(p)[g] = IF g \in {"staging", "published"} THEN Context(p) ELSE p[g]
    BY DEF AgentBody
  <2>5. DOMAIN Create(p).body = DOMAIN AgentBody(p) \cup AgentIds
    BY <2>2 DEF WithPath
  <2>6. ASSUME f \in AgentIds
        PROVE  Asks(p, f) => f \in DOMAIN Create(p).body /\ Create(p).body[f] = Value(p, f)
    <3>1. f \notin DOMAIN AgentBody(p)
      BY <2>3, <2>6 DEF AgentIds, AgentTexts
    <3>2. f \in DOMAIN Create(p).body /\ Create(p).body[f] = ParseAgent(p)[f]
      BY <2>2, <2>5, <2>6, <3>1 DEF WithPath
    <3>3. Asks(p, f) => p[f] # Absent
      BY <1>4, <2>6 DEF Asks, AgentIds
    <3>4. p[f] # Absent => ParseAgent(p)[f] = p[f]
      <4>1. p = [g \in AgentInputs |-> p[g]]
        BY <1>4 DEF Input, InputFields, InputFieldsOf
      <4>2. f \in AgentInputs
        BY <2>6 DEF AgentInputs
      <4> QED BY <4>1, <4>2 DEF ParseAgent
    <3>5. Value(p, f) = p[f]
      BY <1>4, <2>6 DEF Value, AgentIds
    <3> QED BY <3>2, <3>3, <3>4, <3>5
  <2>7. ASSUME f \notin AgentIds
        PROVE  /\ f \in DOMAIN Create(p).body <=> Asks(p, f)
               /\ Asks(p, f) => Create(p).body[f] = Value(p, f)
    <3>1. ParseAgent(p)[f] = p[f]
      BY <2>7 DEF ParseAgent, AgentIds
    <3>2. f \in DOMAIN Create(p).body <=> f \in DOMAIN AgentBody(p)
      BY <2>5, <2>7
    <3>3. f \in DOMAIN AgentBody(p) => Create(p).body[f] = AgentBody(p)[f]
      BY <2>2 DEF WithPath
    <3>4. f \in DOMAIN AgentBody(p) <=> Asks(p, f)
      BY <1>4, <2>1, <2>3, <2>7 DEF Asks, AgentTexts
    <3>5. Value(p, f) = IF f \in {"staging", "published"} THEN Context(p) ELSE p[f]
      BY <1>4, <3>1 DEF Value
    <3> QED BY <2>4, <3>2, <3>3, <3>4, <3>5
  <2> QED BY <1>4, <2>6, <2>7
<1>5. CASE kind = "conversation"
  <2>1. f \in ConversationFields
    BY <1>5 DEF Bound, Maintained, FixedFields, ConversationFields
  <2>2. /\ Create(p).body = Given(ParseConversation(p), ConversationFields)
        /\ (Asks(p, f) <=> ParseConversation(p)[f] # Absent)
        /\ Value(p, f) = ParseConversation(p)[f]
    BY <1>5 DEF Create, CreateConversation, Asks, Value
  <2> QED BY <2>1, <2>2 DEF Given
<1>6. CASE kind = "engine"
  <2>1. f \in EngineIds \cup EngineTexts \cup EngineSpec
    BY <1>6 DEF Bound, Maintained, FixedFields, EngineReplaced, EngineSpec
  <2>2. /\ Create(p).body = WithPath(Given(p, EngineTexts \cup EngineSpec), p, EngineIds)
        /\ (Asks(p, f) <=> f \in EngineIds \/ p[f] # Absent) /\ Value(p, f) = p[f]
    BY <1>6 DEF Create, CreateEngine, EngineBody, Asks, Value
  <2>3. \A g \in EngineIds : g \notin EngineTexts \cup EngineSpec
    BY DEF EngineIds, EngineTexts, EngineSpec
  <2> QED BY <2>1, <2>2, <2>3 DEF Given, WithPath
<1>7. CASE kind = "memory"
  <2>1. f \in MemoryIds \cup MemoryUpdated \cup {"scope"}
    BY <1>7 DEF Bound, Maintained, FixedFields, MemoryReplaced
  <2>2. /\ Create(p).body = WithPath(Given(p, MemoryUpdated \cup {"scope"}), p, MemoryIds)
        /\ (Asks(p, f) <=> f \in MemoryIds \/ p[f] # Absent) /\ Value(p, f) = p[f]
    BY <1>7 DEF Create, CreateMemory, MemoryBody, Asks, Value
  <2>3. \A g \in MemoryIds : g \notin MemoryUpdated \cup {"scope"}
    BY DEF MemoryIds, MemoryUpdated
  <2> QED BY <2>1, <2>2, <2>3 DEF Given, WithPath
<1> QED BY <1>1, <1>2, <1>3, <1>4, <1>5, <1>6, <1>7 DEF AllKinds

\* Every value agrees with itself.
LEMMA AgreesWithItself == ASSUME NEW f, NEW x PROVE Agree(f, x, x)
BY DEF Agree

\* A new object is as the inputs of its create say.
LEMMA MadeIsRight ==
  ASSUME kind \in AllKinds, NEW p, Input(p), NEW f \in Bound
  PROVE  Right(f, NewObject(Create(p).body)[f], p)
<1>1. f \in ObjectFields
  BY BoundFields
<1>2. Asks(p, f) => NewObject(Create(p).body)[f] = Value(p, f)
  BY <1>1, BodyIs DEF NewObject
<1>3. ~Asks(p, f) /\ f \in ClearedToo => NewObject(Create(p).body)[f] = Absent
  BY <1>1, BodyIs DEF NewObject, ClearedToo, AgentIds
<1> QED BY <1>2, <1>3, AgreesWithItself DEF Right

\* A patch of an adoption carries what the inputs say.
LEMMA AdoptedIsRight ==
  ASSUME kind \in AllKinds, NEW p, Input(p), Create(p).adopts,
         NEW f \in Bound, f \in DOMAIN Create(p).patch
  PROVE  Right(f, Create(p).patch[f], p)
<1>1. CASE kind = "table"
  <2>1. Create(p).patch = TablePatchBody(ParseTable(p), TableAdoptKeys)
    BY <1>1 DEF Create, CreateTable
  <2>2. f \in TableIds \cup TableCleared \cup {"expirationTime", "storageBillingModel"}
    BY <1>1 DEF Bound, Maintained, FixedFields
  <2>3. Create(p).patch[f] = p[f]
    BY <2>1, <2>2, TableParsed DEF TablePatchBody
  <2> QED BY <1>1, <2>3, AgreesWithItself DEF Right, Asks, Value
<1>2. CASE kind = "dataset"
  <2>1. Create(p).patch = DatasetPatchBody(p, DatasetUpdated)
    BY <1>2 DEF Create, CreateDataset
  <2>2. Create(p).patch[f] = p[f]
    BY <2>1 DEF DatasetPatchBody
  <2> QED BY <1>2, <2>2, AgreesWithItself DEF Right, Asks, Value
<1>3. CASE kind = "routine"
  <2>1. Create(p).patch = [g \in RoutineFields |-> p[g]]
    BY <1>3 DEF Create, CreateRoutine, UpdateRoutine
  <2>2. Create(p).patch[f] = p[f]
    BY <2>1
  <2> QED BY <1>3, <2>2, AgreesWithItself DEF Right, Asks, Value
<1>4. CASE kind = "dataAgent"
  <2>1. Create(p).patch = AgentPatch(p)
    BY <1>4 DEF Create, CreateAgent
  <2>2. f \in AgentUpdateMask(p) /\ Create(p).patch[f] =
          IF f \in DOMAIN AgentBody(p) THEN AgentBody(p)[f] ELSE Absent
    BY <2>1 DEF AgentPatch
  <2>3. f \notin AgentIds
    BY <2>2 DEF AgentUpdateMask, AgentIds, AgentTexts
  <2>4. f \in DOMAIN AgentBody(p) <=> Asks(p, f)
    BY <1>4, <2>2, <2>3 DEF Asks, AgentBody, AgentUpdateMask, AgentTexts
  <2>5. f \in DOMAIN AgentBody(p) => AgentBody(p)[f] = Value(p, f)
    BY <1>4 DEF AgentBody, Value
  <2> QED BY <2>2, <2>4, <2>5, AgreesWithItself DEF Right
<1>5. kind \in {"table", "dataset", "routine", "dataAgent"}
  BY AdoptedKinds DEF AllKinds, Create, CreateConversation, CreateEngine, CreateMemory
<1> QED BY <1>1, <1>2, <1>3, <1>4, <1>5

\* What a diff without a replacement says of the fields that only a replacement
\* changes.
LEMMA FixedStay ==
  ASSUME kind \in AllKinds, NEW olds, NEW news, Input(olds), Input(news),
         Diff(olds, news).replace = {}, NEW f \in FixedFields
  PROVE  olds[f] = news[f]
<1>1. CASE kind = "table"
  <2>1. f \in TableIds /\ f \in TableReplaced
    BY <1>1 DEF FixedFields, TableReplaced
  <2>2. f \notin DifferingFields(ParseTable(olds), ParseTable(news), TableReplaced)
    BY <1>1 DEF Diff, DiffTable, TableDiff
  <2> QED BY <2>1, <2>2, TableParsed DEF DifferingFields
<1>2. CASE kind = "dataset"
  BY <1>2 DEF Diff, DatasetDiff, DifferingFields, FixedFields
<1>3. CASE kind = "routine"
  BY <1>3 DEF Diff, RoutineDiff, DifferingFields, FixedFields
<1>4. CASE kind = "dataAgent"
  BY <1>4 DEF Diff, DiffAgent, DifferingFields, FixedFields
<1>5. CASE kind = "conversation"
  <2>1. f \in ConversationFields
    BY <1>5 DEF FixedFields, ConversationFields
  <2> QED BY <1>5, <2>1 DEF Diff, DiffConversation, DifferingFields
<1>6. CASE kind = "engine"
  <2>1. f \in EngineFields /\ f \in EngineReplaced
    BY <1>6 DEF FixedFields, EngineFields, EngineReplaced, EngineSpec
  <2> QED BY <1>6, <2>1 DEF Diff, DiffEngine, DifferingFields
<1>7. CASE kind = "memory"
  <2>1. f \in MemoryFields /\ f \in MemoryReplaced
    BY <1>7 DEF FixedFields, MemoryFields
  <2> QED BY <1>7, <2>1 DEF Diff, DiffMemory, DifferingFields
<1> QED BY <1>1, <1>2, <1>3, <1>4, <1>5, <1>6, <1>7 DEF AllKinds

\* An object is as two inputs say alike that ask for the same.
LEMMA SameRight ==
  ASSUME NEW olds, NEW news, NEW f, NEW x, Right(f, x, olds),
         \/ (Asks(olds, f) <=> Asks(news, f)) /\ (Asks(news, f) => Value(olds, f) = Value(news, f))
         \/ ~Asks(news, f) /\ f \notin ClearedToo
  PROVE  Right(f, x, news)
BY DEF Right

\* Inputs that give a field the same value ask for the same, except of a data agent.
LEMMA SameValue ==
  ASSUME kind \in AllKinds, NEW olds, NEW news, NEW f, olds[f] = news[f],
         Input(olds), Input(news), f \in Bound, kind = "dataAgent" => f \in AgentIds
  PROVE  (Asks(olds, f) <=> Asks(news, f)) /\ Value(olds, f) = Value(news, f)
<1>1. CASE kind = "dataAgent"
  BY <1>1 DEF Asks, Value, AgentIds
<1>2. CASE kind = "conversation"
  <2>1. /\ olds = [g \in ConversationFields |-> olds[g]] /\ news = [g \in ConversationFields |-> news[g]]
        /\ f \in ConversationFields
    BY <1>2, BoundFields DEF Input, InputFields, InputFieldsOf
  <2>2. ParseConversation(olds)[f] = ParseConversation(news)[f]
    BY <2>1 DEF ParseConversation
  <2> QED BY <1>2, <2>2 DEF Asks, Value
<1>3. CASE kind \notin {"dataAgent", "conversation"}
  BY <1>3 DEF Asks, Value
<1> QED BY <1>1, <1>2, <1>3

\* Inputs without a difference ask for the same.
LEMMA NoDiffIsRight ==
  ASSUME kind \in AllKinds, NEW olds, NEW news, Input(olds), Input(news),
         Diff(olds, news).replace = {}, Diff(olds, news).update = {},
         NEW f \in Bound, NEW x, Right(f, x, olds)
  PROVE  Right(f, x, news)
<1>1. CASE f \in FixedFields
  <2>1. kind = "dataAgent" => f \in AgentIds
    BY <1>1 DEF FixedFields
  <2> QED BY <1>1, <2>1, FixedStay, SameValue, SameRight
<1>2. CASE f \notin FixedFields /\ kind = "dataAgent"
  <2>1. AgentBody(olds) = AgentBody(news) /\ (olds["publish"] = TRUE <=> news["publish"] = TRUE)
    BY <1>2 DEF Diff, DiffAgent
  <2>2. f \in AgentTexts \cup {"labels", "staging", "published"} /\ f \notin AgentIds
    BY <1>2 DEF Bound, Maintained, FixedFields
  <2>3. ASSUME NEW p
        PROVE  /\ Asks(p, f) <=> f \in DOMAIN AgentBody(p)
               /\ Asks(p, f) => AgentBody(p)[f] = Value(p, f)
    <3>1. f \in DOMAIN AgentBody(p) <=> Asks(p, f)
      BY <1>2, <2>2 DEF Asks, AgentBody, AgentTexts
    <3>2. f \in DOMAIN AgentBody(p) => AgentBody(p)[f] = Value(p, f)
      BY <1>2 DEF AgentBody, Value
    <3> QED BY <3>1, <3>2
  <2> QED BY <2>1, <2>3, SameRight
<1>3. CASE f \notin FixedFields /\ kind # "dataAgent"
  <2>1. olds[f] = news[f]
    <3>1. CASE kind = "table"
      <4>1. f \in TableUpdated /\ f \in TableCleared \cup {"expirationTime", "storageBillingModel"}
        BY <1>3, <3>1 DEF Bound, Maintained, FixedFields, TableUpdated, TableCleared
      <4>2. f \notin DifferingFields(ParseTable(olds), ParseTable(news), TableUpdated)
        BY <3>1 DEF Diff, DiffTable, TableDiff
      <4> QED BY <4>1, <4>2, TableParsed DEF DifferingFields
    <3>2. CASE kind = "dataset"
      BY <1>3, <3>2 DEF Diff, DatasetDiff, DifferingFields, Bound, Maintained, FixedFields
    <3>3. CASE kind = "routine"
      BY <1>3, <3>3 DEF Diff, RoutineDiff, DifferingFields, Bound, Maintained, FixedFields
    <3>4. CASE kind = "conversation"
      BY <1>3, <3>4 DEF Diff, DiffConversation, DifferingFields, Bound, Maintained, FixedFields
    <3>5. CASE kind = "engine"
      <4>1. f \in EngineFields /\ f \notin EngineReplaced
        BY <1>3, <3>5 DEF Bound, Maintained, FixedFields, EngineFields
      <4> QED BY <3>5, <4>1 DEF Diff, DiffEngine, DifferingFields
    <3>6. CASE kind = "memory"
      <4>1. f \in MemoryFields /\ f \notin MemoryReplaced
        BY <1>3, <3>6 DEF Bound, Maintained, FixedFields, MemoryFields, MemoryReplaced
      <4> QED BY <3>6, <4>1 DEF Diff, DiffMemory, DifferingFields
    <3> QED BY <1>3, <3>1, <3>2, <3>3, <3>4, <3>5, <3>6 DEF AllKinds
  <2> QED BY <1>3, <2>1, SameValue, SameRight
<1> QED BY <1>1, <1>2, <1>3

\* The patch of an update carries what the new inputs say.
LEMMA UpdatedIsRight ==
  ASSUME kind \in AllKinds, kind # "conversation", NEW olds, NEW news, Input(olds), Input(news),
         NEW f \in Bound, f \in DOMAIN Update(olds, news)
  PROVE  Right(f, Update(olds, news)[f], news)
<1>1. CASE kind = "dataAgent"
  <2>1. Update(olds, news) = Create(news).patch /\ Create(news).adopts
    BY <1>1 DEF Update, Create, CreateAgent
  <2> QED BY <2>1, AdoptedIsRight
<1>2. CASE kind # "dataAgent"
  <2>1. Update(olds, news)[f] = news[f]
    <3>1. CASE kind = "table"
      <4>1. Update(olds, news) = TablePatchBody(ParseTable(news), DiffTable(olds, news).update)
        BY <3>1 DEF Update, UpdateTable
      <4>2. f \in TableIds \cup TableCleared \cup {"expirationTime", "storageBillingModel"}
        BY <3>1 DEF Bound, Maintained, FixedFields
      <4> HIDE DEF Bound
      <4> QED BY <4>1, <4>2, TableParsed DEF TablePatchBody
    <3>2. CASE kind = "dataset"
      BY <3>2 DEF Update, UpdateDataset, DatasetPatchBody
    <3>3. CASE kind = "routine"
      BY <3>3 DEF Update, UpdateRoutine
    <3>4. CASE kind = "engine"
      BY <3>4 DEF Update, UpdateEngine
    <3>5. CASE kind = "memory"
      BY <3>5 DEF Update, UpdateMemory
    <3> QED BY <1>2, <3>1, <3>2, <3>3, <3>4, <3>5 DEF AllKinds
  <2> QED BY <1>2, <2>1, AgreesWithItself DEF Right, Asks, Value
<1> QED BY <1>1, <1>2

\* A field the patch of an update leaves out is as the new inputs say when it was as
\* the old ones said.
LEMMA LeftIsRight ==
  ASSUME kind \in AllKinds, kind # "conversation", NEW olds, NEW news, Input(olds), Input(news),
         Diff(olds, news).replace = {},
         NEW f \in Bound, f \notin DOMAIN Update(olds, news), NEW x, Right(f, x, olds)
  PROVE  Right(f, x, news)
<1>1. CASE f \in FixedFields
  <2>1. kind = "dataAgent" => f \in AgentIds
    BY <1>1 DEF FixedFields
  <2> QED BY <1>1, <2>1, FixedStay, SameValue, SameRight
<1>2. CASE f \notin FixedFields /\ kind = "dataAgent"
  <2>1. f \in AgentTexts \cup {"labels"} /\ news[f] = Absent
    BY <1>2 DEF Update, AgentPatch, AgentUpdateMask, Bound, Maintained, FixedFields
  <2>2. f \notin AgentIds \cup {"staging", "published"}
    BY <2>1 DEF AgentIds, AgentTexts
  <2>3. ~Asks(news, f) /\ f \notin ClearedToo
    BY <1>2, <2>1, <2>2 DEF Asks, ClearedToo
  <2> QED BY <2>3, SameRight
<1>3. CASE f \notin FixedFields /\ kind = "table"
  <2>1. /\ Update(olds, news) = TablePatchBody(ParseTable(news), DiffTable(olds, news).update)
        /\ DifferingFields(ParseTable(olds), ParseTable(news), TableUpdated)
             \subseteq DiffTable(olds, news).update
    BY <1>3 DEF Update, UpdateTable, DiffTable, TableDiff
  <2>2. f \in TableUpdated /\ f \in TableCleared \cup {"expirationTime", "storageBillingModel"}
    BY <1>3 DEF Bound, Maintained, FixedFields, TableUpdated, TableCleared
  <2>3. ParseTable(olds)[f] = olds[f] /\ ParseTable(news)[f] = news[f]
    BY <2>2, TableParsed
  <2>4. olds[f] # news[f] => f \in DiffTable(olds, news).update
    BY <2>1, <2>2, <2>3 DEF DifferingFields
  <2>5. olds[f] # news[f] => f \notin TableCleared /\ news[f] = Absent
    BY <2>1, <2>2, <2>3, <2>4 DEF TablePatchBody, TableIfGiven
  <2>6. f \notin TableCleared => f \notin ClearedToo
    BY <1>3 DEF ClearedToo, TableCleared
  <2>7. olds[f] # news[f] => ~Asks(news, f) /\ f \notin ClearedToo
    BY <1>3, <2>5, <2>6 DEF Asks
  <2> QED BY <1>3, <2>7, SameValue, SameRight
<1>4. CASE f \notin FixedFields /\ kind = "dataset"
  <2>1. f \in DatasetUpdated
    BY <1>4 DEF Bound, Maintained, FixedFields
  <2>2. f \in DatasetCleared \cup DatasetLimits
    BY <2>1 DEF DatasetUpdated, DatasetFields, DatasetReplaced, DatasetCleared
  <2>3. Update(olds, news) = DatasetPatchBody(news, DifferingFields(olds, news, DatasetUpdated))
    BY <1>4 DEF Update, UpdateDataset, DatasetDiff
  <2>4. olds[f] # news[f] => f \notin DatasetCleared /\ news[f] = Absent
    BY <2>1, <2>2, <2>3 DEF DatasetPatchBody, DifferingFields
  <2>5. f \notin DatasetCleared => f \notin ClearedToo
    BY <1>4 DEF ClearedToo, DatasetCleared
  <2>6. olds[f] # news[f] => ~Asks(news, f) /\ f \notin ClearedToo
    BY <1>4, <2>4, <2>5 DEF Asks
  <2> QED BY <1>4, <2>6, SameValue, SameRight
<1>5. CASE f \notin FixedFields /\ kind = "routine"
  BY <1>5 DEF Update, UpdateRoutine, Bound, Maintained
<1>6. CASE f \notin FixedFields /\ kind = "engine"
  BY <1>6 DEF Update, UpdateEngine, Bound, Maintained, FixedFields
<1>7. CASE f \notin FixedFields /\ kind = "memory"
  BY <1>7 DEF Update, UpdateMemory, Bound, Maintained, FixedFields, MemoryReplaced
<1> QED BY <1>1, <1>2, <1>3, <1>4, <1>5, <1>6, <1>7 DEF AllKinds

-----------------------------------------------------------------------------
(* The labels, and the fields objects have.                                 *)

\* What BigQuery makes of labels it is sent.
LEMMA LabelsAdded ==
  ASSUME NEW old \in LabelValues, NEW new \in LabelValues, NEW both,
         both = IF ListOf(old) \cup ListOf(new) = {} THEN Absent ELSE ListOf(old) \cup ListOf(new)
  PROVE  /\ both \in LabelValues
         /\ \A want \in LabelValues : ListOf(want) \subseteq ListOf(new) => ListOf(want) \subseteq ListOf(both)
<1>1. ListOf(old) \in SUBSET AllLabels /\ ListOf(new) \in SUBSET AllLabels
  BY DEF LabelValues, ListOf
<1>2. ListOf(both) = ListOf(old) \cup ListOf(new)
  BY <1>1, ProgramAssumption DEF ListOf
<1> QED BY <1>1, <1>2 DEF LabelValues

\* The patches of tables and datasets have labels of their inputs.
LabelsFit(patch) == Labelled /\ "labels" \in DOMAIN patch => patch["labels"] \in LabelValues

\* The labels of a patch are labels of the inputs it is made from.
LEMMA PatchesFit ==
  ASSUME kind \in AllKinds, NEW olds, NEW news, Input(news)
  PROVE  LabelsFit(Create(news).patch) /\ LabelsFit(Update(olds, news))
<1>1. CASE kind = "table"
  <2>1. /\ Create(news).patch = TablePatchBody(ParseTable(news), TableAdoptKeys)
        /\ Update(olds, news) = TablePatchBody(ParseTable(news), DiffTable(olds, news).update)
    BY <1>1 DEF Create, CreateTable, Update, UpdateTable
  <2>2. ParseTable(news)["labels"] = news["labels"]
    BY TableParsed DEF TableCleared
  <2> QED BY <1>1, <2>1, <2>2 DEF LabelsFit, TablePatchBody, Input, Labelled
<1>2. CASE kind = "dataset"
  BY <1>2 DEF Create, CreateDataset, Update, UpdateDataset, DatasetPatchBody, LabelsFit, Input, Labelled
<1>3. CASE kind \notin {"table", "dataset"}
  BY <1>3 DEF LabelsFit, Labelled
<1> QED BY <1>1, <1>2, <1>3

\* What the patched object has in a field of the patch agrees with the inputs.
LEMMA PatchedIsRight ==
  ASSUME kind \in AllKinds, NEW o, Object(o), NEW patch, LabelsFit(patch),
         NEW f \in Bound, f \in DOMAIN patch, NEW p, Input(p), Right(f, patch[f], p)
  PROVE  Right(f, Patched(o, patch)[f], p)
<1>1. f \in DOMAIN o
  BY BoundFields DEF Object
<1>2. CASE f = "labels" /\ Verified
  <2>1. Labelled
    <3>1. CASE kind = "routine"
      BY <1>2, <3>1, BoundFields DEF ObjectFields, RoutineFields, RoutineReplaced, RoutineIds
    <3> QED BY <1>2, <3>1 DEF Verified, Labelled
  <2>2. o[f] \in LabelValues /\ patch[f] \in LabelValues /\ p[f] \in LabelValues
    BY <1>2, <2>1 DEF Object, LabelsFit, Input
  <2>3. Patched(o, patch)[f] = IF ListOf(o[f]) \cup ListOf(patch[f]) = {} THEN Absent
                               ELSE ListOf(o[f]) \cup ListOf(patch[f])
    BY <1>1, <1>2 DEF Patched
  <2>4. Value(p, f) = p[f] /\ Absent \in LabelValues
    BY <2>1 DEF Labelled, Value, LabelValues
  <2>5. \A want \in LabelValues : Agree(f, patch[f], want) => Agree(f, Patched(o, patch)[f], want)
    BY <1>2, <2>2, <2>3, LabelsAdded DEF Agree
  <2> QED BY <2>2, <2>4, <2>5 DEF Right
<1>3. CASE ~(f = "labels" /\ Verified)
  <2>1. Patched(o, patch)[f] = patch[f]
    BY <1>1, <1>3 DEF Patched
  <2> QED BY <2>1
<1> QED BY <1>2, <1>3

\* The objects the service keeps have the fields of their kind.
LEMMA PatchedIsObject ==
  ASSUME NEW o, Object(o), NEW patch, LabelsFit(patch), kind # "conversation"
  PROVE  Object(Patched(o, patch))
<1>1. Patched(o, patch) = [f \in ObjectFields |-> Patched(o, patch)[f]]
  BY DEF Patched, Object
<1>2. ASSUME Labelled
      PROVE  Patched(o, patch)["labels"] \in LabelValues
  <2>1. "labels" \in ObjectFields /\ Verified
    <3>1. CASE kind = "table"
      BY <3>1, TableParsed DEF ObjectFields, TableCleared, Verified
    <3>2. CASE kind = "dataset"
      BY <3>2 DEF ObjectFields, DatasetUpdated, DatasetFields, DatasetReplaced, DatasetIds, Verified
    <3> QED BY <1>2, <3>1, <3>2 DEF Labelled
  <2>2. "labels" \in DOMAIN o /\ o["labels"] \in LabelValues
    BY <1>2, <2>1 DEF Object
  <2>3. CASE "labels" \in DOMAIN patch
    BY <1>2, <2>1, <2>2, <2>3, LabelsAdded DEF Patched, LabelsFit
  <2>4. CASE "labels" \notin DOMAIN patch
    BY <2>2, <2>4 DEF Patched
  <2> QED BY <2>3, <2>4
<1> QED BY <1>1, <1>2 DEF Object

\* What a create makes is an object of the kind.
LEMMA MadeIsObject ==
  ASSUME kind \in AllKinds, NEW p, Input(p)
  PROVE  Object(NewObject(Create(p).body))
<1> DEFINE o == NewObject(Create(p).body)
<1>1. o = [f \in ObjectFields |-> o[f]]
  BY DEF NewObject
<1>2. ASSUME Labelled
      PROVE  o["labels"] \in LabelValues
  <2>1. "labels" \in Bound
    BY <1>2 DEF Labelled, Bound, Maintained, TableCleared, DatasetUpdated, DatasetFields,
                DatasetReplaced, DatasetIds
  <2>2. "labels" \in ObjectFields
    BY <2>1, BoundFields
  <2>3. o["labels"] \in {Absent, p["labels"]}
    BY <1>2, <2>1, <2>2, BodyIs DEF NewObject, Value, Labelled
  <2> QED BY <1>2, <2>3 DEF Input, LabelValues
<1>3. ASSUME kind = "conversation"
      PROVE  o["location"] # Absent
  <2>1. "location" \in Bound /\ "location" \in ObjectFields /\ "location" \in ConversationFields
    BY <1>3 DEF Bound, FixedFields, ObjectFields, ConversationFields, ConversationIds
  <2>2. ParseConversation(p)["location"] = IF p["location"] = Absent THEN "global" ELSE p["location"]
    <3>1. p = [f \in ConversationFields |-> p[f]]
      BY <1>3 DEF Input, InputFields, InputFieldsOf
    <3> QED BY <2>1, <3>1 DEF ParseConversation
  <2>3. Asks(p, "location") /\ Value(p, "location") # Absent
    BY <1>3, <2>2, ProgramAssumption DEF Asks, Value
  <2> QED BY <2>1, <2>3, BodyIs DEF NewObject
<1> QED BY <1>1, <1>2, <1>3 DEF Object

\* A read returns inputs.
LEMMA ReadIsInput ==
  ASSUME kind \in AllKinds, NEW o, Object(o)
  PROVE  Input(Read(o))
<1>1. Read(o) = [f \in InputFields |-> Read(o)[f]]
  <2>1. CASE kind = "table"
    BY <2>1 DEF Read, ReadTable, InputFields, InputFieldsOf
  <2>2. CASE kind = "dataset"
    BY <2>2 DEF Read, ReadDataset, InputFields, InputFieldsOf
  <2>3. CASE kind = "routine"
    BY <2>3 DEF Read, ReadRoutine, InputFields, InputFieldsOf
  <2>4. CASE kind = "dataAgent"
    BY <2>4 DEF Read, ReadAgent, InputFields, InputFieldsOf
  <2>5. CASE kind = "conversation"
    BY <2>5 DEF Read, ReadConversation, InputFields, InputFieldsOf
  <2>6. CASE kind = "engine"
    BY <2>6 DEF Read, ReadEngine, InputFields, InputFieldsOf
  <2>7. CASE kind = "memory"
    BY <2>7 DEF Read, ReadMemory, InputFields, InputFieldsOf
  <2> QED BY <2>1, <2>2, <2>3, <2>4, <2>5, <2>6, <2>7 DEF AllKinds
<1>2. ASSUME Labelled
      PROVE  Read(o)["labels"] = o["labels"]
  <2>1. CASE kind = "table"
    <3>1. "labels" \in TableFields
      BY TableParsed DEF TableCleared
    <3> QED BY <2>1, <3>1 DEF Read, ReadTable, TableRead
  <2>2. CASE kind = "dataset"
    BY <2>2 DEF Read, ReadDataset, DatasetFields
  <2> QED BY <1>2, <2>1, <2>2 DEF Labelled
<1> QED BY <1>1, <1>2 DEF Input, Object

-----------------------------------------------------------------------------
(* What a refresh reads.                                                    *)

\* A field that a read returns as it is in the object is as the inputs made of it say.
LEMMA ReadIsRight ==
  ASSUME kind \in AllKinds, NEW o, Object(o),
         NEW f \in Bound, f \in DOMAIN Read(o), Read(o)[f] = o[f]
  PROVE  Right(f, o[f], Read(o))
<1> DEFINE r == Read(o)
<1>1. CASE kind = "conversation"
  <2>1. r = [g \in ConversationFields |-> r[g]] /\ f \in ConversationFields
    BY <1>1, BoundFields, ReadIsInput DEF Input, InputFields, InputFieldsOf
  <2>2. f = "location" => r[f] # Absent
    BY <1>1 DEF Object
  <2> HIDE DEF r
  <2>3. ParseConversation(r)[f] = r[f]
    BY <2>1, <2>2 DEF ParseConversation
  <2>4. Value(r, f) = r[f] /\ (~Asks(r, f) => r[f] = Absent)
    BY <1>1, <2>3 DEF Asks, Value
  <2>5. r[f] = o[f]
    BY DEF r
  <2> QED BY <2>4, <2>5, AgreesWithItself DEF Right, r
<1>2. CASE kind = "dataAgent"
  <2>1. f \in AgentInputs
    BY <1>2 DEF Read, ReadAgent
  <2>2. f \in AgentIds \cup AgentTexts \cup {"labels"} /\ f \notin {"staging", "published"}
    BY <1>2, <2>1 DEF Bound, Maintained, FixedFields, AgentInputs, AgentIds, AgentTexts,
                      AgentContext, AgentOptions, Sources
  <2> HIDE DEF r
  <2>3. Value(r, f) = r[f] /\ (~Asks(r, f) => r[f] = Absent)
    BY <1>2, <2>2 DEF Asks, Value
  <2>4. r[f] = o[f]
    BY DEF r
  <2> QED BY <2>3, <2>4, AgreesWithItself DEF Right, r
<1>3. CASE kind \notin {"conversation", "dataAgent"}
  <2> HIDE DEF r
  <2>1. Value(r, f) = r[f] /\ (~Asks(r, f) => r[f] = Absent)
    BY <1>3 DEF Asks, Value
  <2>2. r[f] = o[f]
    BY DEF r
  <2> QED BY <2>1, <2>2, AgreesWithItself DEF Right, r
<1> QED BY <1>1, <1>2, <1>3

\* A field of the object is in a diff only when its values differ.
LEMMA DiffersOnly ==
  ASSUME kind \in AllKinds, NEW olds, NEW news, NEW f \in ObjectFields \cap Bound,
         f \in Diff(olds, news).replace \cup Diff(olds, news).update
  PROVE  olds[f] # news[f]
<1>1. CASE kind = "table"
  <2>1. f \in TableIds \cup TableCleared \cup {"expirationTime", "storageBillingModel"}
    BY <1>1 DEF Bound, Maintained, FixedFields
  <2>2. ParseTable(olds)[f] # ParseTable(news)[f]
    BY <1>1 DEF Diff, DiffTable, TableDiff, DifferingFields
  <2> QED BY <2>1, <2>2, TableParsed
<1>2. CASE kind = "dataset"
  BY <1>2 DEF Diff, DatasetDiff, DifferingFields
<1>3. CASE kind = "routine"
  BY <1>3 DEF Diff, RoutineDiff, DifferingFields
<1>4. CASE kind = "dataAgent"
  <2>1. f \in AgentFields /\ f \notin {"context", "publish"}
    BY <1>4 DEF ObjectFields, AgentFields, AgentIds, AgentTexts
  <2> QED BY <1>4, <2>1 DEF Diff, DiffAgent, DifferingFields
<1>5. CASE kind = "conversation"
  BY <1>5 DEF Diff, DiffConversation, DifferingFields
<1>6. CASE kind = "engine"
  BY <1>6 DEF Diff, DiffEngine, DifferingFields
<1>7. CASE kind = "memory"
  BY <1>7 DEF Diff, DiffMemory, DifferingFields
<1> QED BY <1>1, <1>2, <1>3, <1>4, <1>5, <1>6, <1>7 DEF AllKinds

\* What a read returns of the object is what the inputs decide, as the object has it.
LEMMA ReadOf ==
  ASSUME kind \in AllKinds, NEW o, NEW f \in ObjectFields, Read(o)[f] # Absent,
         kind = "dataAgent" => f \in AgentInputs
  PROVE  f \in Bound \ {"staging", "published"} /\ Read(o)[f] = o[f]
<1>1. CASE kind = "table"
  <2>1. f \in TableFields
    BY <1>1 DEF ObjectFields
  <2>2. f \in TableRead /\ Read(o)[f] = o[f]
    BY <1>1, <2>1 DEF Read, ReadTable
  <2> QED BY <1>1, <2>2 DEF TableRead, Bound, Maintained, FixedFields, TableCleared, TableIds
<1>2. CASE kind = "dataset"
  <2>1. f \in DatasetReplaced \cup DatasetUpdated
    BY <1>2 DEF ObjectFields
  <2>2. f \in DatasetFields /\ f \notin {"deleteContentsOnDestroy", "staging", "published"}
    BY <2>1 DEF DatasetReplaced, DatasetUpdated, DatasetFields, DatasetIds, DatasetLimits
  <2>3. Read(o)[f] = o[f]
    BY <1>2, <2>2 DEF Read, ReadDataset
  <2> QED BY <1>2, <2>1, <2>2, <2>3 DEF Bound, Maintained, FixedFields
<1>3. CASE kind = "routine"
  <2>1. f \in RoutineReplaced /\ Read(o)[f] = o[f]
    BY <1>3 DEF Read, ReadRoutine, ObjectFields
  <2> QED BY <1>3, <2>1 DEF Bound, FixedFields, RoutineReplaced, RoutineIds
<1>4. CASE kind = "dataAgent"
  <2>1. f \in AgentFields
    BY <1>4 DEF ObjectFields
  <2>2. f \notin Sources
    BY <2>1 DEF Sources, AgentFields, AgentIds, AgentTexts
  <2>3. f \in AgentIds \cup AgentTexts /\ Read(o)[f] = o[f]
    BY <1>4, <2>2 DEF Read, ReadAgent
  <2> QED BY <1>4, <2>3 DEF Bound, Maintained, FixedFields, AgentIds, AgentTexts
<1>5. CASE kind = "conversation"
  <2>1. f \in ConversationFields /\ f \notin {"staging", "published"}
    BY <1>5 DEF ObjectFields, ConversationFields, ConversationIds
  <2>2. Read(o)[f] = o[f]
    BY <1>5, <2>1 DEF Read, ReadConversation
  <2> QED BY <1>5, <2>1, <2>2 DEF Bound, Maintained
<1>6. CASE kind = "engine"
  <2>1. f \in EngineIds \cup EngineTexts /\ Read(o)[f] = o[f]
    BY <1>6 DEF Read, ReadEngine, ObjectFields
  <2> QED BY <1>6, <2>1 DEF Bound, Maintained, FixedFields, EngineReplaced, EngineIds, EngineTexts
<1>7. CASE kind = "memory"
  <2>1. f \in MemoryIds \cup {"fact"} /\ Read(o)[f] = o[f]
    BY <1>7 DEF Read, ReadMemory, ObjectFields
  <2> QED BY <1>7, <2>1 DEF Bound, Maintained, FixedFields, MemoryReplaced, MemoryIds, MemoryUpdated
<1> QED BY <1>1, <1>2, <1>3, <1>4, <1>5, <1>6, <1>7 DEF AllKinds

\* A refresh of an object that is as the inputs say reads what they say.
LEMMA RefreshAgrees ==
  ASSUME kind \in AllKinds, NEW o, NEW p, Input(p), \A f \in Bound : Right(f, o[f], p),
         NEW f \in ObjectFields,
         f \in Diff(Read(o), p).replace \cup Diff(Read(o), p).update
  PROVE  Read(o)[f] = Absent \/ p[f] = Absent \/ f = "labels"
<1> SUFFICES ASSUME Read(o)[f] # Absent, p[f] # Absent, f # "labels"
             PROVE  FALSE
  OBVIOUS
<1>0. ASSUME kind = "dataAgent"
      PROVE  f \in AgentInputs
  <2>1. f \in AgentFields /\ f \notin {"context", "publish"}
    BY <1>0 DEF ObjectFields, AgentFields, AgentIds, AgentTexts
  <2>2. f \in AgentIds
    BY <1>0, <2>1 DEF Diff, DiffAgent, DifferingFields
  <2> QED BY <2>2 DEF AgentInputs
<1>1. f \in Bound \ {"staging", "published"} /\ Read(o)[f] = o[f]
  BY <1>0, ReadOf
<1>2. Asks(p, f) /\ Value(p, f) = p[f]
  <2>1. CASE kind = "dataAgent"
    BY <1>1, <2>1 DEF Asks, Value, Bound, Maintained, FixedFields
  <2>2. CASE kind = "conversation"
    <3>1. p = [g \in ConversationFields |-> p[g]] /\ f \in ConversationFields
      BY <1>1, <2>2, BoundFields DEF Input, InputFields, InputFieldsOf
    <3>2. ParseConversation(p)[f] = p[f]
      BY <3>1 DEF ParseConversation
    <3> QED BY <2>2, <3>2 DEF Asks, Value
  <2>3. CASE kind \notin {"dataAgent", "conversation"}
    BY <2>3 DEF Asks, Value
  <2> QED BY <2>1, <2>2, <2>3
<1>3. o[f] = p[f]
  BY <1>1, <1>2 DEF Right, Agree
<1> QED BY <1>1, <1>3, DiffersOnly

-----------------------------------------------------------------------------
(* What an object is going to be.                                           *)

\* A long-running operation that will set the field f of the object id.
Touches(w, f, id) == w.id = id /\ f \in DOMAIN w.patch

\* When the operations of the queue have been carried out, the last first, the field f
\* of the object o with this id will be as p says.
Turns(o, queue, f, id, p) ==
  \/ /\ \A i \in DOMAIN queue : ~Touches(queue[i], f, id)
     /\ Right(f, o[f], p)
  \/ \E i \in DOMAIN queue :
       /\ Touches(queue[i], f, id) /\ Right(f, queue[i].patch[f], p)
       /\ \A j \in DOMAIN queue : j > i => ~Touches(queue[j], f, id)

\* An object with the same field turns the same, for inputs that ask for no more.
LEMMA SameTurn ==
  ASSUME NEW o, NEW queue, NEW f, NEW id, NEW p, Turns(o, queue, f, id, p),
         NEW q, NEW r, q[f] = o[f], \A x : Right(f, x, p) => Right(f, x, r)
  PROVE  Turns(q, queue, f, id, r)
BY DEF Turns

\* One more operation comes last.
LEMMA TurnOfAppended ==
  ASSUME NEW S, NEW queue \in Seq(S), NEW w, NEW o, NEW f, NEW id, NEW p,
         \/ ~Touches(w, f, id) /\ Turns(o, queue, f, id, p)
         \/ Touches(w, f, id) /\ Right(f, w.patch[f], p)
  PROVE  Turns(o, Append(queue, w), f, id, p)
<1> DEFINE n == Len(queue)
           more == Append(queue, w)
<1>1. /\ n \in Nat /\ DOMAIN queue = 1..n /\ DOMAIN more = 1..(n + 1)
      /\ \A i \in 1..n : more[i] = queue[i]
      /\ more[n + 1] = w
  BY Appended
<1> HIDE DEF n, more
<1>2. CASE Touches(w, f, id) /\ Right(f, w.patch[f], p)
  <2>1. n + 1 \in DOMAIN more /\ \A j \in DOMAIN more : ~(j > n + 1)
    BY <1>1
  <2> QED BY <1>1, <1>2, <2>1 DEF Turns, more
<1>3. CASE ~Touches(w, f, id) /\ Turns(o, queue, f, id, p)
  <2>1. CASE /\ \A i \in DOMAIN queue : ~Touches(queue[i], f, id)
             /\ Right(f, o[f], p)
    <3>1. \A i \in DOMAIN more : ~Touches(more[i], f, id)
      BY <1>1, <1>3, <2>1
    <3> QED BY <2>1, <3>1 DEF Turns, more
  <2>2. ASSUME NEW i \in DOMAIN queue, Touches(queue[i], f, id), Right(f, queue[i].patch[f], p),
               \A j \in DOMAIN queue : j > i => ~Touches(queue[j], f, id)
        PROVE  Turns(o, more, f, id, p)
    <3>1. i \in DOMAIN more /\ more[i] = queue[i]
      BY <1>1
    <3>2. \A j \in DOMAIN more : j > i => ~Touches(more[j], f, id)
      BY <1>1, <1>3, <2>2
    <3> QED BY <2>2, <3>1, <3>2 DEF Turns
  <2> QED BY <1>3, <2>1, <2>2 DEF Turns, more
<1> QED BY <1>2, <1>3

\* The first has been carried out, or has failed without a bearing on the field.
LEMMA TurnOfTail ==
  ASSUME NEW S, NEW queue \in Seq(S), queue # << >>, NEW o, NEW f, NEW id, NEW p,
         Turns(o, queue, f, id, p), NEW q,
         IF Touches(Head(queue), f, id)
         THEN Right(f, Head(queue).patch[f], p) => Right(f, q[f], p)
         ELSE q[f] = o[f]
  PROVE  Turns(q, Tail(queue), f, id, p)
<1> DEFINE n == Len(queue)
           rest == Tail(queue)
           w == Head(queue)
<1>1. /\ n \in Nat /\ n > 0 /\ DOMAIN queue = 1..n /\ DOMAIN rest = 1..(n - 1)
      /\ \A i \in 1..(n - 1) : rest[i] = queue[i + 1]
      /\ w = queue[1]
  BY Shifted
<1> HIDE DEF n, rest, w
<1>2. \A i \in 1..(n - 1) : i + 1 \in DOMAIN queue
  BY <1>1
<1>3. CASE /\ \A i \in DOMAIN queue : ~Touches(queue[i], f, id)
           /\ Right(f, o[f], p)
  <2>1. \A i \in DOMAIN rest : ~Touches(rest[i], f, id)
    BY <1>1, <1>2, <1>3
  <2>2. q[f] = o[f]
    BY <1>1, <1>3 DEF w
  <2> QED BY <1>3, <2>1, <2>2 DEF Turns, rest
<1>4. ASSUME NEW i \in DOMAIN queue, Touches(queue[i], f, id), Right(f, queue[i].patch[f], p),
             \A j \in DOMAIN queue : j > i => ~Touches(queue[j], f, id)
      PROVE  Turns(q, rest, f, id, p)
  <2>1. CASE i = 1
    <3>1. Right(f, q[f], p)
      BY <1>1, <1>4, <2>1 DEF w
    <3>2. \A j \in 1..(n - 1) : j + 1 > i
      BY <1>1, <2>1
    <3>3. \A j \in DOMAIN rest : ~Touches(rest[j], f, id)
      BY <1>1, <1>2, <1>4, <3>2
    <3> QED BY <3>1, <3>3 DEF Turns
  <2>2. CASE i # 1
    <3>1. i - 1 \in DOMAIN rest /\ rest[i - 1] = queue[i]
      BY <1>1, <2>2
    <3>2. \A j \in DOMAIN rest : j > i - 1 => j + 1 > i
      BY <1>1
    <3>3. \A j \in DOMAIN rest : j > i - 1 => ~Touches(rest[j], f, id)
      BY <1>1, <1>2, <1>4, <3>2
    <3> QED BY <1>4, <3>1, <3>3 DEF Turns
  <2> QED BY <2>1, <2>2
<1> QED BY <1>3, <1>4 DEF Turns, rest

-----------------------------------------------------------------------------
(* The invariant.                                                           *)

\* The plans whose inputs are still to be stored.
Planned == {"create", "replace", "update"}

\* Objects and inputs have the fields of the kind.
ShapesOK ==
  /\ kind \in Kinds
  /\ \A id \in DOMAIN world : Object(world[id])
  /\ record # Absent => Input(record.inputs)
  /\ op.plan \in Planned => Input(op.inputs)
  /\ pending # << >> => kind = "dataAgent"

\* What the engine has in hand is planned.
PlansOK ==
  /\ op.step \in {"create", "adopt"} => op.plan \in {"create", "replace"}
  /\ op.step = "adopt" => Create(op.inputs).adopts
  /\ op.step = "update" => kind # "conversation" /\ Diff(record.inputs, op.inputs).replace = {}
  /\ op.step = "wait" => op.plan \in Planned

\* A create that waits, undisturbed, will find what it asked for.
WaitOK ==
  op.step = "wait" /\ op.plan # "update" /\ ~hit /\ drifts = 0 =>
    /\ NextId \in DOMAIN world =>
         \A f \in Bound \cap DOMAIN Create(op.inputs).patch :
           Turns(world[NextId], pending, f, NextId, op.inputs)
    /\ \A i \in DOMAIN pending : pending[i].id = NextId /\ Makes(pending[i]) =>
         /\ pending[i].patch = Create(op.inputs).body
         /\ \A j \in DOMAIN pending : pending[j].id = NextId => j = i

\* The record stands for its object: nobody has deleted it or is deleting it, and
\* nothing is taking it over.
Living ==
  /\ record # Absent /\ record.id \notin lost /\ ~(op.step = "poll" /\ op.target = record)
  /\ ~(op.step = "wait" /\ op.plan # "update" /\ NextId = record.id)

\* The inputs the object has been sent.
Goal == IF op.step = "wait" /\ op.plan = "update" THEN op.inputs ELSE record.inputs

\* The record's object is, or will be, as these inputs say.
HeldOK ==
  Living => \A f \in Bound \ off : Turns(world[record.id], pending, f, record.id, Goal)

HInv == ShapesOK /\ PlansOK /\ WaitOK /\ HeldOK

\* The shapes are those of the kind, which never changes.
LEMMA SameKind ==
  ASSUME kind' = kind
  PROVE  /\ Bound' = Bound /\ ObjectFields' = ObjectFields
         /\ \A p : Input(p)' <=> Input(p)
         /\ \A o : Object(o)' <=> Object(o)
         /\ \A f, x, p : Right(f, x, p)' <=> Right(f, x, p)
         /\ \A p : Create(p)' = Create(p)
         /\ \A p, q : Diff(p, q)' = Diff(p, q)
<1>1. Bound' = Bound /\ ObjectFields' = ObjectFields
  BY DEF Bound, Maintained, FixedFields, ObjectFields
<1>2. ASSUME NEW f, NEW x, NEW p PROVE Right(f, x, p)' <=> Right(f, x, p)
  BY <1>2 DEF Right, Asks, Value, ClearedToo, Maintained, Agree, Verified
<1>3. ASSUME NEW p PROVE (Input(p)' <=> Input(p)) /\ (Object(p)' <=> Object(p))
  BY <1>1, <1>3 DEF Input, Object, InputFields, Labelled
<1>4. ASSUME NEW p PROVE Create(p)' = Create(p)
  BY <1>4 DEF Create
<1>5. ASSUME NEW p, NEW q PROVE Diff(p, q)' = Diff(p, q)
  BY <1>5 DEF Diff
<1> QED BY <1>1, <1>2, <1>3, <1>4, <1>5

\* What is to be shown of the record's object after a step, ...
LEMMA HeldNext ==
  ASSUME kind' = kind,
         Living' => \A f \in Bound \ off' : Turns(world'[record'.id], pending', f, record'.id, Goal')
  PROVE  HeldOK'
BY SameKind DEF HeldOK, Turns, Touches

\* ... of the shapes of objects and inputs, ...
LEMMA ShapesNext ==
  ASSUME kind' = kind, kind \in Kinds,
         \A id \in DOMAIN world' : Object(world'[id]),
         record' # Absent => Input(record'.inputs),
         op'.plan \in Planned => Input(op'.inputs),
         pending' # << >> => kind = "dataAgent"
  PROVE  ShapesOK'
BY SameKind DEF ShapesOK, Planned

\* ... of what the engine has in hand, ...
LEMMA PlansNext ==
  ASSUME kind' = kind,
         op'.step \in {"create", "adopt"} => op'.plan \in {"create", "replace"},
         op'.step = "adopt" => Create(op'.inputs).adopts,
         op'.step = "update" => kind # "conversation" /\ Diff(record'.inputs, op'.inputs).replace = {},
         op'.step = "wait" => op'.plan \in Planned
  PROVE  PlansOK'
BY SameKind DEF PlansOK, Planned

\* ... and of a create that waits.
LEMMA WaitNext ==
  ASSUME kind' = kind,
         op'.step = "wait" /\ op'.plan # "update" /\ ~hit' /\ drifts' = 0 =>
           /\ NextId' \in DOMAIN world' =>
                \A f \in Bound \cap DOMAIN Create(op'.inputs).patch :
                  Turns(world'[NextId'], pending', f, NextId', op'.inputs)
           /\ \A i \in DOMAIN pending' : pending'[i].id = NextId' /\ Makes(pending'[i]) =>
                /\ pending'[i].patch = Create(op'.inputs).body
                /\ \A j \in DOMAIN pending' : pending'[j].id = NextId' => j = i
  PROVE  WaitOK'
BY SameKind DEF WaitOK, Turns, Touches, Makes

-----------------------------------------------------------------------------
(* Steps that leave the record's object as it is.                           *)

\* The fields of the object that were as its inputs say still are.
LEMMA HeldKept ==
  ASSUME HeldOK, kind' = kind, pending' = pending,
         Living' => /\ Living /\ record'.id = record.id /\ Goal' = Goal /\ off \subseteq off'
                    /\ \A f \in Bound \ off' : world'[record.id][f] = world[record.id][f]
  PROVE  HeldOK'
<1> SUFFICES ASSUME Living', NEW f \in Bound \ off'
             PROVE  Turns(world'[record'.id], pending', f, record'.id, Goal')
  BY HeldNext
<1>1. Turns(world[record.id], pending, f, record.id, Goal)
  BY DEF HeldOK
<1>2. world'[record.id][f] = world[record.id][f]
  OBVIOUS
<1>3. Turns(world'[record.id], pending, f, record.id, Goal)
  BY <1>1, <1>2, SameTurn
<1> QED BY <1>3

\* A create that still waits will find what it would have found.
LEMMA WaitKept ==
  ASSUME WaitOK, kind' = kind, pending' = pending,
         op'.step = "wait" /\ ~hit' /\ drifts' = 0 =>
           /\ op' = op /\ NextId' = NextId /\ ~hit /\ drifts = 0
           /\ NextId \in DOMAIN world' => NextId \in DOMAIN world /\ world'[NextId] = world[NextId]
  PROVE  WaitOK'
<1> SUFFICES ASSUME op'.step = "wait", op'.plan # "update", ~hit', drifts' = 0
             PROVE  /\ NextId' \in DOMAIN world' =>
                         \A f \in Bound \cap DOMAIN Create(op'.inputs).patch :
                           Turns(world'[NextId'], pending', f, NextId', op'.inputs)
                    /\ \A i \in DOMAIN pending' : pending'[i].id = NextId' /\ Makes(pending'[i]) =>
                         /\ pending'[i].patch = Create(op'.inputs).body
                         /\ \A j \in DOMAIN pending' : pending'[j].id = NextId' => j = i
  BY WaitNext
<1> QED BY DEF WaitOK

\* Inputs are stored or in hand as they were.
LEMMA ShapesKept ==
  ASSUME ShapesOK, kind' = kind, pending' = pending,
         \A id \in DOMAIN world' : (id \in DOMAIN world /\ world'[id] = world[id]) \/ Object(world'[id]),
         \/ record' = record
         \/ record' = Absent
         \/ Input(record'.inputs),
         op'.plan \in Planned => Input(op'.inputs)
  PROVE  ShapesOK'
BY ShapesNext DEF ShapesOK

\* An operation that ends or goes on to a deletion is still the one it was.
LEMMA StillPlanned ==
  ASSUME NEW cond, Proceeds(cond)
  PROVE  /\ op'.step \in {"idle", "delete"}
         /\ op'.plan \in Planned => op.plan \in Planned /\ op'.inputs = op.inputs
<1>1. CASE cond = {}
  BY <1>1 DEF Proceeds, Resting, Planned
<1>2. CASE cond # {}
  <2>1. PICK t \in cond : Begin("delete", op.plan, op.inputs, t)
    BY <1>2 DEF Proceeds
  <2> QED BY <2>1 DEF Begin
<1> QED BY <1>1, <1>2

\* An operation that ends in an error is not in hand any more.
LEMMA Failed ==
  ASSUME Fails
  PROVE  op'.step = "idle" /\ op'.plan \notin Planned
BY DEF Fails, Resting, Planned

\* A step that neither waits nor begins anything has nothing to plan or to await.
LEMMA PlansRest ==
  ASSUME kind' = kind, op'.step \in {"idle", "delete", "read", "poll"}
  PROVE  PlansOK' /\ WaitOK'
BY PlansNext, WaitNext

-----------------------------------------------------------------------------
(* The engine.                                                              *)

\* Programs give inputs of the kind.
LEMMA ProgramInputs ==
  ASSUME kind \in Kinds, NEW p \in Programs[kind]
  PROVE  Input(p)
<1>1. p = [f \in InputFields |-> p[f]]
  BY ProgramAssumption DEF InputFields
<1>2. ASSUME Labelled
      PROVE  p["labels"] \in LabelValues
  <2>1. p \in UNION {Programs[k] : k \in Kinds \cap {"table", "dataset"}}
    BY <1>2 DEF Labelled
  <2>2. ListOf(p["labels"]) \subseteq AllLabels
    BY <2>1 DEF AllLabels
  <2> QED BY <2>2 DEF ListOf, LabelValues
<1> QED BY <1>1, <1>2 DEF Input

\* pulumi up, destroy and refresh change no object, and store only inputs without a
\* difference.
LEMMA EngineHolds ==
  ASSUME NoRecord, IInv, FInv, HInv,
         (\E p \in Programs[kind] : Up(p)) \/ Destroy \/ Refresh
  PROVE  HInv'
<1>1. /\ kind' = kind /\ pending' = pending /\ world' = world /\ off' = off /\ lost' = lost
      /\ op.step = "idle" /\ kind \in Kinds /\ kind \in AllKinds
  BY DEF Up, Destroy, Refresh, Idle, fixed, service, HInv, ShapesOK, FInv
<1>2. CASE Destroy \/ Refresh
  <2>1. record' = record /\ op'.step \in {"read", "delete"} /\ op'.plan \notin Planned
    BY <1>2 DEF Destroy, Refresh, Begin, Planned
  <2>2. PlansOK' /\ WaitOK'
    BY <1>1, <2>1, PlansRest
  <2>3. ShapesOK'
    BY <1>1, <2>1, ShapesKept DEF HInv
  <2>4. (Living' => Living) /\ Goal' = Goal
    BY <1>1, <2>1 DEF Living, Goal
  <2>5. HeldOK'
    BY <1>1, <2>1, <2>4, HeldKept DEF HInv
  <2> QED BY <2>2, <2>3, <2>5 DEF HInv
<1>3. ASSUME NEW p \in Programs[kind], Up(p)
      PROVE  HInv'
  <2>1. Input(p)
    BY <1>1, ProgramInputs
  <2>0. \/ /\ record' = record
           /\ \/ Begin("create", "create", p, Absent)
              \/ Begin("delete", "replace", p, record)
              \/ Begin("create", "replace", p, Absent)
              \/ /\ Begin("update", "update", p, Absent)
                 /\ Diff(record.inputs, p).replace = {} /\ Diff(record.inputs, p).update # {}
        \/ /\ record # Absent /\ record' = [record EXCEPT !.inputs = p] /\ Proceeds(condemned)
           /\ Diff(record.inputs, p).replace = {} /\ Diff(record.inputs, p).update = {}
    BY <1>3 DEF Up
  <2>2. CASE /\ record' = record
             /\ \/ Begin("create", "create", p, Absent)
                \/ Begin("delete", "replace", p, record)
                \/ Begin("create", "replace", p, Absent)
                \/ /\ Begin("update", "update", p, Absent)
                   /\ Diff(record.inputs, p).replace = {} /\ Diff(record.inputs, p).update # {}
    <3>1. /\ op'.step \in {"create", "delete", "update"} /\ op'.inputs = p
          /\ op'.step = "create" => op'.plan \in {"create", "replace"}
          /\ op'.step = "update" => Diff(record.inputs, p).replace = {} /\ Diff(record.inputs, p).update # {}
      BY <2>2 DEF Begin
    <3>2. op'.step = "update" => kind # "conversation"
      BY <3>1 DEF Diff, DiffConversation
    <3>3. PlansOK' /\ WaitOK'
      BY <1>1, <2>2, <3>1, <3>2, PlansNext, WaitNext
    <3>4. ShapesOK'
      BY <1>1, <2>1, <2>2, <3>1, ShapesKept DEF HInv
    <3>5. (Living' => Living) /\ Goal' = Goal
      BY <1>1, <2>2, <3>1 DEF Living, Goal
    <3>6. HeldOK'
      BY <1>1, <2>2, <3>5, HeldKept DEF HInv
    <3> QED BY <3>3, <3>4, <3>6 DEF HInv
  <2>3. CASE /\ record # Absent /\ record' = [record EXCEPT !.inputs = p] /\ Proceeds(condemned)
             /\ Diff(record.inputs, p).replace = {} /\ Diff(record.inputs, p).update = {}
    <3>1. record'.id = record.id /\ record'.inputs = p
      BY <2>3 DEF IInv, OpOK
    <3>2. /\ op'.step \in {"idle", "delete"}
          /\ op'.plan \in Planned => op.plan \in Planned /\ op'.inputs = op.inputs
      BY <2>3, StillPlanned
    <3>3. PlansOK' /\ WaitOK'
      BY <1>1, <3>2, PlansRest
    <3>4. ShapesOK'
      <4>1. op'.plan \in Planned => Input(op'.inputs)
        BY <3>2 DEF HInv, ShapesOK
      <4> QED BY <1>1, <2>1, <3>1, <4>1, ShapesKept DEF HInv
    <3>5. ASSUME Living', NEW f \in Bound \ off'
          PROVE  Turns(world'[record'.id], pending', f, record'.id, Goal')
      <4>1. Living /\ Goal = record.inputs /\ Goal' = p
        BY <1>1, <2>3, <3>1, <3>2, <3>5 DEF Living, Goal
      <4>2. Turns(world[record.id], pending, f, record.id, record.inputs)
        BY <1>1, <3>5, <4>1 DEF HInv, HeldOK
      <4>3. Input(record.inputs)
        BY <2>3 DEF HInv, ShapesOK
      <4>4. \A x : Right(f, x, record.inputs) => Right(f, x, p)
        BY <1>1, <2>1, <2>3, <3>5, <4>3, NoDiffIsRight
      <4>5. Turns(world[record.id], pending, f, record.id, p)
        BY <4>2, <4>4, SameTurn
      <4> QED BY <1>1, <3>1, <4>1, <4>5
    <3>6. HeldOK'
      BY <1>1, <3>5, HeldNext
    <3> QED BY <3>3, <3>4, <3>6 DEF HInv
  <2> QED BY <2>0, <2>2, <2>3
<1> QED BY <1>2, <1>3

-----------------------------------------------------------------------------
(* create.                                                                  *)

\* What is stored when a create ends is as its inputs say.
LEMMA StoringHolds ==
  ASSUME NoRecord, HInv, kind' = kind, pending' = pending, NEW id, Stores(id), Input(op.inputs),
         \A i \in DOMAIN world' : (i \in DOMAIN world /\ world'[i] = world[i]) \/ Object(world'[i]),
         \A f \in Bound \ off' : Turns(world'[id], pending, f, id, op.inputs)
  PROVE  HInv'
<1>1. /\ record' = [id |-> id, inputs |-> op.inputs]
      /\ Proceeds(condemned')
  BY DEF Stores
<1>2. record'.id = id /\ record'.inputs = op.inputs
  BY <1>1
<1>3. /\ op'.step \in {"idle", "delete"}
      /\ op'.plan \in Planned => op.plan \in Planned /\ op'.inputs = op.inputs
  BY <1>1, StillPlanned
<1>4. PlansOK' /\ WaitOK'
  BY <1>3, PlansRest
<1>5. ShapesOK'
  <2>1. op'.plan \in Planned => Input(op'.inputs)
    BY <1>3 DEF HInv, ShapesOK
  <2> QED BY <1>2, <2>1, ShapesKept DEF HInv
<1>6. Goal' = op.inputs
  BY <1>2, <1>3 DEF Goal
<1>7. HeldOK'
  BY <1>2, <1>6, HeldNext
<1> QED BY <1>4, <1>5, <1>7 DEF HInv

\* An operation that ends in an error leaves the record's object as it is, but for
\* fields it marks.
LEMMA FailingHolds ==
  ASSUME HInv, kind' = kind, pending' = pending, Fails, record' = record, lost \subseteq lost',
         Living' => Living /\ Goal = record.inputs,
         \A i \in DOMAIN world' : (i \in DOMAIN world /\ world'[i] = world[i]) \/ Object(world'[i]),
         off \subseteq off',
         Living => \A f \in Bound \ off' : world'[record.id][f] = world[record.id][f]
  PROVE  HInv'
<1>1. op'.step = "idle" /\ op'.plan \notin Planned
  BY Failed
<1>2. PlansOK' /\ WaitOK'
  BY <1>1, PlansRest
<1>3. ShapesOK'
  BY <1>1, ShapesKept DEF HInv
<1>4. Goal' = record.inputs
  BY <1>1 DEF Goal
<1>6. HeldOK'
  BY <1>4, HeldKept DEF HInv
<1> QED BY <1>2, <1>3, <1>6 DEF HInv

\* A create that does not succeed at once, or is repeated, may have made an object.
LEMMA MadeOnly ==
  ASSUME IInv, FInv, HInv, op.step = "create",
         \/ world' = world
         \/ Free(NextId) /\ world' = Put(NextId, NewObject(Create(op.inputs).body))
  PROVE  /\ \A i \in DOMAIN world' : (i \in DOMAIN world /\ world'[i] = world[i]) \/ Object(world'[i])
         /\ Living => world'[record.id] = world[record.id]
<1>1. Input(op.inputs) /\ kind \in AllKinds
  BY DEF HInv, PlansOK, ShapesOK, FInv, Planned
<1>2. Object(NewObject(Create(op.inputs).body))
  BY <1>1, MadeIsObject
<1>3. Living => record.id \in DOMAIN world
  BY DEF Living, IInv, Safe
<1> QED BY <1>2, <1>3 DEF Put, Free

\* A create or an adoption whose operation is to be carried out later waits for it.
LEMMA CreateWaits ==
  ASSUME IInv, HInv, Goes("wait"), op.step \in {"create", "adopt"}, LongRunning,
         NEW patch, pending' = Append(pending, [id |-> NextId, patch |-> patch]),
         UNCHANGED << fixed, record, world, numbers, off, lost >>,
         NextId \in DOMAIN world =>
           \A f \in Bound \cap DOMAIN Create(op.inputs).patch :
             f \in DOMAIN patch /\ Right(f, patch[f], op.inputs),
         NextId \notin DOMAIN world => Free(NextId) /\ patch = Create(op.inputs).body,
         NextId \in DOMAIN world => "agentId" \notin DOMAIN patch
  PROVE  HInv'
<1> DEFINE w == [id |-> NextId, patch |-> patch]
           n == Len(pending)
<1>1. /\ op' = [step |-> "wait", plan |-> op.plan, inputs |-> op.inputs,
                target |-> op.target, polls |-> op.polls]
      /\ op'.inputs = op.inputs /\ op'.plan = op.plan /\ op'.step = "wait"
  BY Going DEF IInv
<1>2. kind' = kind /\ kind = "dataAgent" /\ NextId' = NextId
  BY <1>1, SameId DEF fixed, LongRunning
<1>3. op.plan \in {"create", "replace"}
  BY DEF HInv, PlansOK
<1>4. /\ pending' = Append(pending, w) /\ pending \in Seq(PartsOf(pending))
      /\ DOMAIN pending = 1..n /\ n \in Nat /\ DOMAIN pending' = 1..(n + 1)
      /\ \A i \in 1..n : pending'[i] = pending[i]
      /\ pending'[n + 1] = w
  BY Appended DEF IInv, QueueOK
<1>5. w.id = NextId /\ w.patch = patch
  OBVIOUS
<1> HIDE DEF w, n
<1>6. PlansOK'
  BY <1>1, <1>2, <1>3, PlansNext DEF Planned
<1>7. ShapesOK'
  <2>1. Input(op.inputs)
    BY <1>3 DEF HInv, ShapesOK, Planned
  <2> QED BY <1>1, <1>2, <2>1, ShapesNext DEF HInv, ShapesOK
<1>8. HeldOK'
  <2> SUFFICES ASSUME Living', NEW f \in Bound \ off
               PROVE  Turns(world'[record'.id], pending', f, record'.id, Goal')
    BY <1>2, HeldNext
  <2>1. Living /\ record.id # NextId /\ Goal = record.inputs /\ Goal' = record.inputs
    BY <1>1, <1>2, <1>3 DEF Living, Goal
  <2>2. Turns(world[record.id], pending, f, record.id, record.inputs)
    BY <2>1 DEF HInv, HeldOK
  <2>3. ~Touches(w, f, record.id)
    BY <1>5, <2>1 DEF Touches
  <2>4. Turns(world[record.id], pending', f, record.id, record.inputs)
    BY <1>4, <2>2, <2>3, TurnOfAppended
  <2> QED BY <2>1, <2>4
<1>9. WaitOK'
  <2>1. ASSUME NextId \in DOMAIN world, NEW f \in Bound \cap DOMAIN Create(op.inputs).patch
        PROVE  Turns(world[NextId], pending', f, NextId, op.inputs)
    <3>1. Touches(w, f, NextId) /\ Right(f, w.patch[f], op.inputs)
      BY <1>5, <2>1 DEF Touches
    <3> QED BY <1>4, <3>1, TurnOfAppended
  <2>2. ASSUME NEW i \in DOMAIN pending', pending'[i].id = NextId, Makes(pending'[i])
        PROVE  /\ pending'[i].patch = Create(op.inputs).body
               /\ \A j \in DOMAIN pending' : pending'[j].id = NextId => j = i
    <3>1. CASE NextId \in DOMAIN world
      <4>1. ~Makes(w)
        BY <1>5, <3>1 DEF Makes
      <4>2. i \in 1..n /\ pending[i].id = NextId /\ Makes(pending[i])
        BY <1>4, <2>2, <4>1
      <4> QED BY <1>4, <3>1, <4>2 DEF IInv, ComingOK, Coming
    <3>2. CASE NextId \notin DOMAIN world
      <4>1. \A j \in 1..n : pending'[j].id # NextId
        BY <1>4, <3>2 DEF Free
      <4>2. i = n + 1
        BY <1>4, <2>2, <4>1
      <4> QED BY <1>4, <1>5, <3>2, <4>1, <4>2
    <3> QED BY <3>1, <3>2
  <2>3. op'.inputs = op.inputs /\ NextId' = NextId /\ world' = world
    BY <1>1, <1>2
  <2> QED BY <1>2, <2>1, <2>2, <2>3, WaitNext
<1> QED BY <1>6, <1>7, <1>8, <1>9 DEF HInv

\* The requests of a create, with their faults.
LEMMA CreateHolds ==
  ASSUME NoRecord, IInv, FInv, HInv,
         CreateMakes \/ CreateConflicts \/ CreateFails \/ CreateRepeats
  PROVE  HInv'
<1>1. /\ kind' = kind /\ kind \in AllKinds /\ kind \in Kinds /\ op.step = "create"
      /\ op.plan \in {"create", "replace"} /\ Input(op.inputs)
      /\ record # Absent /\ record.id \notin lost => Living /\ Goal = record.inputs
  BY DEF CreateMakes, CreateConflicts, CreateFails, CreateRepeats, fixed, FInv, HInv, PlansOK,
         ShapesOK, Planned, Living, Goal
<1>2. CASE CreateMakes /\ LongRunning
  BY <1>1, <1>2, CreateWaits DEF CreateMakes, Free
<1>3. CASE CreateMakes /\ ~LongRunning
  <2>1. /\ world' = Put(NextId, NewObject(Create(op.inputs).body)) /\ Stores(NextId)
        /\ off' = {} /\ pending' = pending /\ Free(NextId)
    BY <1>3 DEF CreateMakes
  <2>2. \A i \in DOMAIN world' : (i \in DOMAIN world /\ world'[i] = world[i]) \/ Object(world'[i])
    BY <1>1, <2>1, MadeOnly
  <2>3. ASSUME NEW f \in Bound \ off'
        PROVE  Turns(world'[NextId], pending, f, NextId, op.inputs)
    <3>1. world'[NextId] = NewObject(Create(op.inputs).body)
      BY <2>1 DEF Put
    <3>2. Right(f, world'[NextId][f], op.inputs)
      BY <1>1, <3>1, MadeIsRight
    <3>3. \A i \in DOMAIN pending : ~Touches(pending[i], f, NextId)
      BY <2>1 DEF Free, Touches
    <3> QED BY <3>2, <3>3 DEF Turns
  <2> QED BY <1>1, <2>1, <2>2, <2>3, StoringHolds
<1>4. CASE CreateConflicts /\ Create(op.inputs).adopts
  <2>1. /\ Goes("adopt")
        /\ UNCHANGED << record, world, pending, off, lost >>
    BY <1>4 DEF CreateConflicts, service
  <2>2. op'.inputs = op.inputs /\ op'.plan = op.plan /\ op'.step = "adopt"
    BY <2>1, Going DEF IInv
  <2>3. PlansOK' /\ WaitOK'
    BY <1>1, <1>4, <2>2, PlansNext, WaitNext
  <2>4. ShapesOK'
    BY <1>1, <2>1, <2>2, ShapesKept DEF HInv
  <2>5. Living' => Living /\ Goal' = Goal
    BY <1>1, <2>1, <2>2 DEF Living, Goal
  <2>6. HeldOK'
    BY <1>1, <2>1, <2>5, HeldKept DEF HInv
  <2> QED BY <2>3, <2>4, <2>6 DEF HInv
<1>5. CASE (CreateConflicts /\ ~Create(op.inputs).adopts) \/ CreateFails
  <2>1. /\ Fails /\ UNCHANGED << record, pending, off, lost >>
        /\ \/ world' = world
           \/ Free(NextId) /\ world' = Put(NextId, NewObject(Create(op.inputs).body))
    BY <1>5 DEF CreateConflicts, CreateFails, service
  <2>2. /\ \A i \in DOMAIN world' : (i \in DOMAIN world /\ world'[i] = world[i]) \/ Object(world'[i])
        /\ Living => world'[record.id] = world[record.id]
    BY <1>1, <2>1, MadeOnly
  <2>3. Living' => Living /\ Goal = record.inputs
    BY <1>1, <2>1 DEF Living
  <2>4. Living => \A f \in Bound \ off' : world'[record.id][f] = world[record.id][f]
    BY <2>2
  <2> QED BY <1>1, <2>1, <2>2, <2>3, <2>4, FailingHolds
<1>6. CASE CreateRepeats
  <2>1. /\ UNCHANGED << record, op, pending, off, lost >>
        /\ Free(NextId) /\ world' = Put(NextId, NewObject(Create(op.inputs).body))
    BY <1>6 DEF CreateRepeats, stack
  <2>2. /\ \A i \in DOMAIN world' : (i \in DOMAIN world /\ world'[i] = world[i]) \/ Object(world'[i])
        /\ Living => world'[record.id] = world[record.id]
    BY <1>1, <2>1, MadeOnly
  <2>3. PlansOK' /\ WaitOK'
    BY <1>1, <2>1, PlansNext, WaitNext
  <2>4. ShapesOK'
    BY <1>1, <2>1, <2>2, ShapesKept DEF HInv
  <2>5. Living' => Living /\ Goal' = Goal
    BY <1>1, <2>1 DEF Living, Goal
  <2>6. HeldOK'
    BY <1>1, <2>1, <2>2, <2>5, HeldKept DEF HInv
  <2> QED BY <2>3, <2>4, <2>6 DEF HInv
<1> QED BY <1>2, <1>3, <1>4, <1>5, <1>6 DEF CreateConflicts

-----------------------------------------------------------------------------
(* adopt, and the wait for a long-running create.                           *)

\* Conversations take over nothing.
LEMMA AdoptsNoConversation ==
  ASSUME kind \in AllKinds, NEW p, Create(p).adopts
  PROVE  kind # "conversation"
BY DEF Create, CreateConversation

\* The patch of an adoption sets what it is trusted for; the rest is marked.
LEMMA AdoptHolds ==
  ASSUME NoRecord, IInv, FInv, HInv, Adopt
  PROVE  HInv'
<1> DEFINE patch == Create(op.inputs).patch
<1>1. /\ kind' = kind /\ kind \in AllKinds /\ kind \in Kinds /\ op.step = "adopt"
      /\ op.plan \in {"create", "replace"} /\ Input(op.inputs) /\ Create(op.inputs).adopts
      /\ record # Absent /\ record.id \notin lost => Living /\ Goal = record.inputs
      /\ UNCHANGED << fixed, numbers >>
  BY DEF Adopt, fixed, FInv, HInv, PlansOK, ShapesOK, Planned, Living, Goal
<1>2. \A f \in Bound \cap DOMAIN patch : Right(f, patch[f], op.inputs)
  BY <1>1, AdoptedIsRight
<1>3. kind # "conversation" /\ LabelsFit(patch)
  BY <1>1, AdoptsNoConversation, PatchesFit
<1>4. CASE NextId \notin DOMAIN world
  <2>1. Fails /\ UNCHANGED << record, world, pending, off, lost >>
    BY <1>4 DEF Adopt
  <2>2. Living' => Living /\ Goal = record.inputs
    BY <1>1, <2>1 DEF Living
  <2> QED BY <1>1, <2>1, <2>2, FailingHolds
<1>5. CASE NextId \in DOMAIN world /\ LongRunning
  <2>1. /\ pending' = Append(pending, [id |-> NextId, patch |-> patch])
        /\ Goes("wait") /\ UNCHANGED << record, world, off, lost >>
    BY <1>5 DEF Adopt
  <2>2. patch = AgentPatch(op.inputs)
    BY <1>5 DEF LongRunning, Create, CreateAgent
  <2>3. "agentId" \notin DOMAIN patch
    BY <2>2, PatchMakesNothing
  <2> HIDE DEF patch
  <2> QED BY <1>1, <1>2, <1>5, <2>1, <2>3, CreateWaits DEF patch
<1>6. CASE NextId \in DOMAIN world /\ ~LongRunning
  <2>1. /\ world' = [world EXCEPT ![NextId] = Patched(@, patch)]
        /\ Stores(NextId)
        /\ off' = ObjectFields \ DOMAIN patch
        /\ pending' = pending
    BY <1>6 DEF Adopt
  <2>2. pending = << >>
    BY <1>1, <1>6 DEF LongRunning, HInv, ShapesOK, FInv, SyncOK, ManagedAssumption
  <2>3. Object(world[NextId]) /\ Object(Patched(world[NextId], patch))
    BY <1>3, <1>6, PatchedIsObject DEF HInv, ShapesOK
  <2> HIDE DEF patch
  <2>4. world'[NextId] = Patched(world[NextId], patch) /\ DOMAIN world' = DOMAIN world
    BY <1>6, <2>1
  <2>5. \A i \in DOMAIN world' : (i \in DOMAIN world /\ world'[i] = world[i]) \/ Object(world'[i])
    BY <2>1, <2>3, <2>4
  <2>6. ASSUME NEW f \in Bound \ off'
        PROVE  Turns(world'[NextId], pending, f, NextId, op.inputs)
    <3>1. f \in DOMAIN patch
      BY <1>1, <2>1, <2>6, BoundFields
    <3>2. Right(f, patch[f], op.inputs)
      BY <1>2, <3>1
    <3>3. Right(f, world'[NextId][f], op.inputs)
      BY <1>1, <1>3, <2>3, <2>4, <3>1, <3>2, PatchedIsRight
    <3> QED BY <2>2, <3>3 DEF Turns
  <2> QED BY <1>1, <2>1, <2>5, <2>6, StoringHolds
<1> QED BY <1>4, <1>5, <1>6

\* One that may have been lost marks everything.
LEMMA AdoptFailsHolds ==
  ASSUME NoRecord, IInv, FInv, HInv, AdoptFails
  PROVE  HInv'
<1> DEFINE patch == Create(op.inputs).patch
<1>1. /\ kind' = kind /\ kind \in AllKinds /\ op.step = "adopt"
      /\ op.plan \in {"create", "replace"} /\ Input(op.inputs) /\ Create(op.inputs).adopts
      /\ record # Absent /\ record.id \notin lost => Living /\ Goal = record.inputs
      /\ Fails /\ UNCHANGED << record, pending, lost >> /\ off' = ObjectFields
      /\ \/ world' = world
         \/ NextId \in DOMAIN world /\ world' = [world EXCEPT ![NextId] = Patched(@, patch)]
  BY DEF AdoptFails, fixed, FInv, HInv, PlansOK, ShapesOK, Planned, Living, Goal
<1>2. kind # "conversation" /\ LabelsFit(patch)
  BY <1>1, AdoptsNoConversation, PatchesFit
<1>3. NextId \in DOMAIN world => Object(Patched(world[NextId], patch))
  BY <1>2, PatchedIsObject DEF HInv, ShapesOK
<1> HIDE DEF patch
<1>4. \A i \in DOMAIN world' : (i \in DOMAIN world /\ world'[i] = world[i]) \/ Object(world'[i])
  BY <1>1, <1>3
<1>5. op'.step = "idle" /\ op'.plan \notin Planned
  BY <1>1, Failed
<1>6. PlansOK' /\ WaitOK'
  BY <1>1, <1>5, PlansRest
<1>7. ShapesOK'
  BY <1>1, <1>4, <1>5, ShapesKept DEF HInv
<1>8. HeldOK'
  BY <1>1, HeldNext, BoundFields
<1> QED BY <1>6, <1>7, <1>8 DEF HInv

\* The operation waited for has been carried out, or is still in the queue.
LEMMA AwaitHolds ==
  ASSUME NoRecord, IInv, IInv', FInv, HInv, AwaitAgent
  PROVE  HInv'
<1>1. /\ kind' = kind /\ kind \in AllKinds /\ op.step = "wait"
      /\ op.plan \in Planned /\ Input(op.inputs)
      /\ op.plan = "update" => record # Absent
      /\ world' = world /\ pending' = pending
  BY DEF AwaitAgent, fixed, FInv, HInv, PlansOK, ShapesOK, service, IInv, OpOK, NoFault
<1>a. \A i \in DOMAIN world' : (i \in DOMAIN world /\ world'[i] = world[i]) \/ Object(world'[i])
  BY <1>1
<1>2. CASE op.plan = "update" /\ record.id \in DOMAIN world
  <2>1. /\ record' = [record EXCEPT !.inputs = op.inputs] /\ Proceeds(condemned)
        /\ UNCHANGED << off, lost >>
    BY <1>2 DEF AwaitAgent
  <2>2. record'.id = record.id /\ record'.inputs = op.inputs /\ record # Absent
    BY <1>1, <1>2, <2>1 DEF IInv, OpOK
  <2>3. /\ op'.step \in {"idle", "delete"}
        /\ op'.plan \in Planned => op.plan \in Planned /\ op'.inputs = op.inputs
    BY <2>1, StillPlanned
  <2>4. PlansOK' /\ WaitOK'
    BY <1>1, <2>3, PlansRest
  <2>5. ShapesOK'
    <3>1. Input(record'.inputs)
      BY <1>1, <2>2
    <3>2. op'.plan \in Planned => Input(op'.inputs)
      BY <1>1, <2>3
    <3> QED BY <1>1, <1>a, <3>1, <3>2, ShapesKept DEF HInv
  <2>6. Living' => Living /\ Goal' = Goal
    BY <1>1, <1>2, <2>1, <2>2, <2>3 DEF Living, Goal
  <2>7. HeldOK'
    BY <1>1, <2>1, <2>2, <2>6, HeldKept DEF HInv
  <2> QED BY <2>4, <2>5, <2>7 DEF HInv
<1>3. CASE \/ op.plan = "update" /\ record.id \notin DOMAIN world
           \/ op.plan # "update" /\ NextId \notin DOMAIN world
  <2>1. Fails /\ UNCHANGED << record, off, lost >>
    BY <1>3 DEF AwaitAgent
  <2>2. op'.step = "idle"
    BY <2>1, Failed
  <2>3. ASSUME Living'
        PROVE  Living /\ Goal = record.inputs
    <3>1. record.id \in DOMAIN world /\ record # Absent /\ record.id \notin lost
      BY <1>1, <2>1, <2>2, <2>3 DEF IInv, Safe, Living
    <3> QED BY <1>1, <1>3, <3>1 DEF Living, Goal
  <2> QED BY <1>1, <1>a, <2>1, <2>3, FailingHolds
<1>4. CASE op.plan # "update" /\ NextId \in DOMAIN world
  <2>1. /\ Stores(NextId)
        /\ off' = IF hit \/ drifts > 0 THEN ObjectFields
                  ELSE ObjectFields \ DOMAIN Create(op.inputs).patch
    BY <1>1, <1>4 DEF AwaitAgent
  <2>2. ASSUME NEW f \in Bound \ off'
        PROVE  Turns(world'[NextId], pending, f, NextId, op.inputs)
    <3>1. f \in ObjectFields
      BY <1>1, BoundFields
    <3>2. ~hit /\ ~(drifts > 0) /\ f \in DOMAIN Create(op.inputs).patch
      BY <2>1, <2>2, <3>1
    <3>3. drifts = 0
      BY <3>2 DEF IInv, FilledOK
    <3> QED BY <1>1, <1>4, <3>2, <3>3 DEF HInv, WaitOK
  <2> QED BY <1>1, <1>a, <2>1, <2>2, StoringHolds
<1> QED BY <1>2, <1>3, <1>4

-----------------------------------------------------------------------------
(* update.                                                                  *)

\* What is known of an update in hand.
LEMMA InUpdate ==
  ASSUME IInv, FInv, HInv, op.step = "update"
  PROVE  /\ kind \in AllKinds /\ kind \in Kinds /\ kind # "conversation"
         /\ op.plan = "update" /\ record # Absent
         /\ Input(record.inputs) /\ Input(op.inputs)
         /\ Diff(record.inputs, op.inputs).replace = {}
         /\ LabelsFit(Update(record.inputs, op.inputs))
         /\ record.id \notin lost => Living
         /\ Goal = record.inputs
         /\ region = "sync" => pending = << >>
<1>1. /\ kind \in AllKinds /\ kind \in Kinds /\ kind # "conversation"
      /\ op.plan = "update" /\ record # Absent
      /\ Input(record.inputs) /\ Input(op.inputs)
      /\ Diff(record.inputs, op.inputs).replace = {}
  BY DEF IInv, OpOK, FInv, HInv, ShapesOK, PlansOK, Planned
<1>2. LabelsFit(Update(record.inputs, op.inputs))
  BY <1>1, PatchesFit
<1>3. /\ record.id \notin lost => Living
      /\ Goal = record.inputs
  BY <1>1 DEF Living, Goal
<1> QED BY <1>1, <1>2, <1>3 DEF FInv, SyncOK

\* What the record's object has been sent turns it into what the new inputs say.
LEMMA UpdateWaits ==
  ASSUME IInv, FInv, HInv, UpdateDone, LongRunning
  PROVE  HInv'
<1> DEFINE patch == Update(record.inputs, op.inputs)
           w == [id |-> record.id, patch |-> patch]
<1>1. /\ op.step = "update" /\ kind' = kind
      /\ pending' = Append(pending, w) /\ pending \in Seq(PartsOf(pending))
      /\ Goes("wait")
      /\ UNCHANGED << record, world, off, lost >>
  BY DEF UpdateDone, fixed, IInv, QueueOK
<1>2. /\ kind \in AllKinds /\ kind \in Kinds /\ kind # "conversation"
      /\ op.plan = "update" /\ record # Absent
      /\ Input(record.inputs) /\ Input(op.inputs)
      /\ Diff(record.inputs, op.inputs).replace = {}
      /\ record.id \notin lost => Living
      /\ Goal = record.inputs
  BY <1>1, InUpdate
<1>3. op'.step = "wait" /\ op'.plan = op.plan /\ op'.inputs = op.inputs
  BY <1>1, Going DEF IInv
<1>4. PlansOK' /\ WaitOK'
  BY <1>1, <1>2, <1>3, PlansNext, WaitNext DEF Planned
<1>5. ShapesOK'
  BY <1>1, <1>2, <1>3, ShapesNext DEF HInv, ShapesOK, LongRunning
<1>6. HeldOK'
  <2> SUFFICES ASSUME Living', NEW f \in Bound \ off
               PROVE  Turns(world'[record'.id], pending', f, record'.id, Goal')
    BY <1>1, HeldNext
  <2>1. Living /\ Goal' = op.inputs
    BY <1>1, <1>2, <1>3 DEF Living, Goal
  <2>2. Turns(world[record.id], pending, f, record.id, record.inputs)
    BY <1>2, <2>1 DEF HInv, HeldOK
  <2>3. w.id = record.id /\ w.patch = patch
    OBVIOUS
  <2>4. CASE f \in DOMAIN patch
    <3>1. Right(f, patch[f], op.inputs)
      BY <1>2, <2>4, UpdatedIsRight
    <3> HIDE DEF w, patch
    <3>2. Touches(w, f, record.id) /\ Right(f, w.patch[f], op.inputs)
      BY <2>3, <2>4, <3>1 DEF Touches
    <3>3. Turns(world[record.id], pending', f, record.id, op.inputs)
      BY <1>1, <3>2, TurnOfAppended
    <3> QED BY <1>1, <2>1, <3>3
  <2>5. CASE f \notin DOMAIN patch
    <3>1. \A x : Right(f, x, record.inputs) => Right(f, x, op.inputs)
      BY <1>2, <2>5, LeftIsRight
    <3>2. Turns(world[record.id], pending, f, record.id, op.inputs)
      BY <2>2, <3>1, SameTurn
    <3> HIDE DEF w, patch
    <3>3. ~Touches(w, f, record.id)
      BY <2>3, <2>5 DEF Touches
    <3>4. Turns(world[record.id], pending', f, record.id, op.inputs)
      BY <1>1, <3>2, <3>3, TurnOfAppended
    <3> QED BY <1>1, <2>1, <3>4
  <2> QED BY <2>4, <2>5
<1> QED BY <1>4, <1>5, <1>6 DEF HInv

\* The patch of an update sets what the inputs differ in, as far as it reaches.
LEMMA UpdateHolds ==
  ASSUME NoRecord, IInv, FInv, HInv, UpdateDone \/ UpdateMisses \/ UpdateFails
  PROVE  HInv'
<1> DEFINE patch == Update(record.inputs, op.inputs)
<1>1. op.step = "update" /\ kind' = kind
  BY DEF UpdateDone, UpdateMisses, UpdateFails, fixed
<1>2. /\ kind \in AllKinds /\ kind \in Kinds /\ kind # "conversation"
      /\ op.plan = "update" /\ record # Absent
      /\ Input(record.inputs) /\ Input(op.inputs)
      /\ Diff(record.inputs, op.inputs).replace = {}
      /\ LabelsFit(patch)
      /\ record.id \notin lost => Living
      /\ Goal = record.inputs
      /\ region = "sync" => pending = << >>
  BY <1>1, InUpdate
<1>3. ASSUME record.id \in DOMAIN world
      PROVE  Object(world[record.id]) /\ Object(Patched(world[record.id], patch))
  BY <1>2, <1>3, PatchedIsObject DEF HInv, ShapesOK
<1>4. CASE UpdateDone /\ ~LongRunning
  <2>1. /\ record.id \in DOMAIN world
        /\ world' = [world EXCEPT ![record.id] = Patched(@, patch)]
        /\ record' = [record EXCEPT !.inputs = op.inputs]
        /\ off' = off \ DOMAIN patch
        /\ Proceeds(condemned) /\ pending' = pending /\ lost' = lost
    BY <1>4 DEF UpdateDone
  <2>2. record'.id = record.id /\ record'.inputs = op.inputs
    BY <1>2, <2>1 DEF IInv, OpOK
  <2>3. /\ op'.step \in {"idle", "delete"}
        /\ op'.plan \in Planned => op.plan \in Planned /\ op'.inputs = op.inputs
    BY <2>1, StillPlanned
  <2>4. pending = << >>
    BY <1>2, <1>4 DEF LongRunning, HInv, ShapesOK
  <2>5. PlansOK' /\ WaitOK'
    BY <1>1, <2>3, PlansRest
  <2>6. Object(world[record.id]) /\ Object(Patched(world[record.id], patch))
    BY <1>3, <2>1
  <2>7. Input(record'.inputs) /\ (op'.plan \in Planned => Input(op'.inputs))
    BY <1>2, <2>2, <2>3
  <2>8. ASSUME NEW f \in Bound, f \in DOMAIN patch
        PROVE  Right(f, patch[f], op.inputs)
    BY <1>2, <2>8, UpdatedIsRight
  <2>9. ASSUME NEW f \in Bound, f \notin DOMAIN patch, NEW x, Right(f, x, record.inputs)
        PROVE  Right(f, x, op.inputs)
    BY <1>2, <2>9, LeftIsRight
  <2> HIDE DEF patch
  <2>10. world'[record.id] = Patched(world[record.id], patch) /\ DOMAIN world' = DOMAIN world
    BY <2>1
  <2>11. \A i \in DOMAIN world' : (i \in DOMAIN world /\ world'[i] = world[i]) \/ Object(world'[i])
    BY <2>1, <2>6, <2>10
  <2>12. ShapesOK'
    BY <1>1, <2>1, <2>7, <2>11, ShapesKept DEF HInv
  <2>13. ASSUME Living', NEW f \in Bound \ off'
         PROVE  Right(f, world'[record.id][f], op.inputs)
    <3>1. CASE f \in DOMAIN patch
      <4>1. Right(f, patch[f], op.inputs)
        BY <2>8, <3>1
      <4> QED BY <1>2, <2>6, <2>10, <3>1, <4>1, PatchedIsRight
    <3>2. CASE f \notin DOMAIN patch
      <4>1. Living /\ f \notin off
        BY <1>2, <2>1, <2>2, <2>13, <3>2 DEF Living
      <4>2. Turns(world[record.id], pending, f, record.id, record.inputs)
        BY <1>2, <4>1 DEF HInv, HeldOK
      <4>3. Right(f, world[record.id][f], record.inputs)
        BY <2>4, <4>2 DEF Turns
      <4>4. f \in DOMAIN world[record.id]
        BY <1>2, <2>6, BoundFields DEF Object
      <4>5. world'[record.id][f] = world[record.id][f]
        BY <2>10, <3>2, <4>4 DEF Patched
      <4> QED BY <2>9, <3>2, <4>3, <4>5
    <3> QED BY <3>1, <3>2
  <2>14. Goal' = op.inputs
    BY <2>2, <2>3 DEF Goal
  <2>15. HeldOK'
    BY <1>1, <2>1, <2>2, <2>4, <2>13, <2>14, HeldNext DEF Turns
  <2> QED BY <2>5, <2>12, <2>15 DEF HInv
<1>5. CASE UpdateMisses
  <2>1. Fails /\ UNCHANGED << record, world, pending, off, lost >>
    BY <1>5 DEF UpdateMisses, service
  <2>2. Living' => Living /\ Goal = record.inputs
    BY <1>2, <2>1 DEF Living
  <2> QED BY <1>1, <2>1, <2>2, FailingHolds
<1>6. CASE UpdateFails
  <2>1. /\ Fails /\ UNCHANGED << record, pending, lost >>
        /\ off' = off \cup DOMAIN patch
        /\ \/ world' = world
           \/ record.id \in DOMAIN world /\ world' = [world EXCEPT ![record.id] = Patched(@, patch)]
    BY <1>6 DEF UpdateFails
  <2>2. Living' => Living /\ Goal = record.inputs
    BY <1>2, <2>1 DEF Living
  <2> HIDE DEF patch
  <2>3. \A i \in DOMAIN world' : (i \in DOMAIN world /\ world'[i] = world[i]) \/ Object(world'[i])
    BY <1>3, <2>1
  <2>4. ASSUME NEW f \in Bound \ off'
        PROVE  world'[record.id][f] = world[record.id][f]
    <3>1. CASE world' = world
      BY <3>1
    <3>2. CASE record.id \in DOMAIN world /\ world' = [world EXCEPT ![record.id] = Patched(@, patch)]
      <4>1. f \notin DOMAIN patch /\ world'[record.id] = Patched(world[record.id], patch)
        BY <2>1, <2>4, <3>2
      <4>2. f \in DOMAIN world[record.id]
        BY <1>2, <1>3, <3>2, BoundFields DEF Object
      <4> QED BY <4>1, <4>2 DEF Patched
    <3> QED BY <2>1, <3>1, <3>2
  <2> QED BY <1>1, <2>1, <2>2, <2>3, <2>4, FailingHolds
<1> QED BY <1>4, <1>5, <1>6, UpdateWaits

-----------------------------------------------------------------------------
(* read.                                                                    *)

\* A refresh stores what it reads, and trusts what the object has.
LEMMA ReadHolds ==
  ASSUME NoRecord, IInv, FInv, HInv, ReadFinds \/ ReadMisses \/ ReadFails
  PROVE  HInv'
<1>1. /\ kind' = kind /\ kind \in AllKinds /\ op.step = "read" /\ record # Absent
      /\ UNCHANGED << world, pending, lost >>
      /\ record.id \notin lost => Living
      /\ Goal = record.inputs
  BY DEF ReadFinds, ReadMisses, ReadFails, fixed, service, FInv, IInv, OpOK, Living, Goal
<1>2. op'.step = "idle" /\ op'.plan \notin Planned
  BY Failed DEF ReadFinds, ReadMisses, ReadFails, Resting, Planned
<1>3. PlansOK' /\ WaitOK'
  BY <1>1, <1>2, PlansRest
<1>4. CASE ReadFinds
  <2> DEFINE o == world[record.id]
  <2>1. /\ record.id \in DOMAIN world
        /\ record' = [record EXCEPT !.inputs = Read(o)]
        /\ \A f \in ObjectFields \ off' :
             /\ f \in DOMAIN Read(o) /\ Read(o)[f] = o[f]
             /\ \A i \in DOMAIN pending : f \notin DOMAIN pending[i].patch
    BY <1>4 DEF ReadFinds
  <2>2. record'.id = record.id /\ record'.inputs = Read(o)
    BY <1>1, <2>1 DEF IInv, OpOK
  <2>3. Object(o)
    BY <2>1 DEF HInv, ShapesOK
  <2> HIDE DEF o
  <2>4. Input(record'.inputs)
    BY <1>1, <2>2, <2>3, ReadIsInput
  <2>5. ShapesOK'
    BY <1>1, <1>2, <2>4, ShapesKept DEF HInv
  <2>6. ASSUME NEW f \in Bound \ off'
        PROVE  Turns(o, pending, f, record.id, Read(o))
    <3>1. f \in ObjectFields
      BY <1>1, BoundFields
    <3>2. Right(f, o[f], Read(o))
      BY <1>1, <2>1, <2>3, <2>6, <3>1, ReadIsRight
    <3>3. \A i \in DOMAIN pending : ~Touches(pending[i], f, record.id)
      BY <2>1, <2>6, <3>1 DEF Touches
    <3> QED BY <3>2, <3>3 DEF Turns
  <2>7. Goal' = Read(o) /\ world'[record'.id] = o
    BY <1>1, <1>2, <2>2 DEF Goal, o
  <2>8. HeldOK'
    BY <1>1, <2>2, <2>6, <2>7, HeldNext
  <2> QED BY <1>3, <2>5, <2>8 DEF HInv
<1>5. CASE ReadMisses \/ ReadFails
  <2>1. (record' = record \/ record' = Absent) /\ off' = off
    BY <1>5 DEF ReadMisses, ReadFails
  <2>2. ShapesOK'
    BY <1>1, <1>2, <2>1, ShapesKept DEF HInv
  <2>3. Living' => Living /\ record' = record /\ Goal' = Goal
    BY <1>1, <1>2, <2>1 DEF Living, Goal
  <2>4. HeldOK'
    BY <1>1, <2>1, <2>3, HeldKept DEF HInv
  <2> QED BY <1>3, <2>2, <2>4 DEF HInv
<1> QED BY <1>4, <1>5

-----------------------------------------------------------------------------
(* delete.                                                                  *)

\* Objects are deleted, and the others stay as they are.
Fewer == \A i \in DOMAIN world' : i \in DOMAIN world /\ world'[i] = world[i]

\* A step that goes on with the same record, or with none, keeps what its object has.
LEMMA FewerHeld ==
  ASSUME IInv', HInv, kind' = kind, pending' = pending, off' = off, lost \subseteq lost', Fewer,
         op.step # "wait", op'.step # "wait",
         Living' => record' = record /\ ~(op.step = "poll" /\ op.target = record)
  PROVE  HeldOK'
<1>1. Living' => Living /\ record' = record
  BY DEF Living
<1>2. Living' => Goal' = Goal
  BY <1>1 DEF Goal
<1>3. Living' => record'.id \in DOMAIN world'
  BY DEF IInv, Safe, Living
<1>4. Living' => \A f \in Bound \ off' : world'[record.id][f] = world[record.id][f]
  BY <1>1, <1>3 DEF Fewer
<1> QED BY <1>1, <1>2, <1>4, HeldKept DEF HInv

\* The deletion of the record or of what is condemned has come to its end.
LEMMA DeletedHolds ==
  ASSUME NoRecord, IInv', HInv, kind' = kind, pending' = pending, off' = off, lost \subseteq lost',
         Fewer, op.step \in {"delete", "poll"}, Deleted(op.target)
  PROVE  HInv'
<1>1. record' = IF record = op.target THEN Absent ELSE record
  BY DEF Deleted
<1>2. /\ op'.step \in {"idle", "delete", "create"}
      /\ op'.step = "create" => op'.plan = "replace"
      /\ op'.plan \in Planned => op.plan \in Planned /\ op'.inputs = op.inputs
  <2>1. CASE op.plan = "replace" /\ record = op.target
    BY <2>1 DEF Deleted, Begin, Planned
  <2>2. CASE ~(op.plan = "replace" /\ record = op.target)
    BY <2>2, StillPlanned DEF Deleted
  <2> QED BY <2>1, <2>2
<1>3. PlansOK' /\ WaitOK'
  BY <1>2, PlansNext, WaitNext
<1>4. ShapesOK'
  <2>1. op'.plan \in Planned => Input(op'.inputs)
    BY <1>2 DEF HInv, ShapesOK
  <2> QED BY <1>1, <2>1, ShapesKept DEF HInv, Fewer
<1>5. Living' => record' = record /\ record # op.target
  BY <1>1 DEF Living
<1>6. HeldOK'
  BY <1>2, <1>5, FewerHeld
<1> QED BY <1>3, <1>4, <1>6 DEF HInv

\* The requests of a deletion and its polls.
LEMMA DeleteHolds ==
  ASSUME NoRecord, IInv, IInv', HInv,
         Delete \/ DeleteRefused \/ DeleteFails \/ PollGone \/ PollAgain \/ PollEnds
  PROVE  HInv'
<1>1. /\ kind' = kind /\ op.step \in {"delete", "poll"} /\ pending' = pending /\ off' = off
      /\ lost \subseteq lost'
  BY DEF Delete, DeleteRefused, DeleteFails, PollGone, PollAgain, PollEnds, fixed, service
<1>2. Fewer
  BY DEF Delete, DeleteRefused, DeleteFails, PollGone, PollAgain, PollEnds, service, Without, Fewer
<1>3. CASE (Delete \/ PollGone \/ PollEnds) /\ Deleted(op.target)
  BY <1>1, <1>2, <1>3, DeletedHolds
<1>4. CASE DeleteRefused \/ DeleteFails
  <2>1. Fails /\ record' = record /\ op.step = "delete"
    BY <1>4 DEF DeleteRefused, DeleteFails
  <2>2. op'.step = "idle" /\ op'.plan \notin Planned
    BY <2>1, Failed
  <2>3. PlansOK' /\ WaitOK'
    BY <1>1, <2>2, PlansRest
  <2>4. ShapesOK'
    BY <1>1, <1>2, <2>1, <2>2, ShapesKept DEF HInv, Fewer
  <2>5. HeldOK'
    BY <1>1, <1>2, <2>1, <2>2, FewerHeld
  <2> QED BY <2>3, <2>4, <2>5 DEF HInv
<1>5. CASE (Delete /\ Verified) \/ PollAgain
  <2>1. /\ record' = record /\ op'.step = "poll" /\ op'.target = op.target
        /\ op'.plan = op.plan /\ op'.inputs = op.inputs
    <3>1. CASE Delete /\ Verified
      BY <3>1, Going DEF Delete, IInv
    <3>2. CASE PollAgain
      BY <3>2 DEF PollAgain, IInv, OpOK
    <3> QED BY <1>5, <3>1, <3>2
  <2>2. PlansOK' /\ WaitOK'
    BY <1>1, <2>1, PlansRest
  <2>3. ShapesOK'
    <3>1. op'.plan \in Planned => Input(op'.inputs)
      BY <2>1 DEF HInv, ShapesOK
    <3> QED BY <1>1, <1>2, <2>1, <3>1, ShapesKept DEF HInv, Fewer
  <2>4. Living' => ~(op.step = "poll" /\ op.target = record)
    BY <2>1 DEF Living
  <2>5. HeldOK'
    BY <1>1, <1>2, <2>1, <2>4, FewerHeld
  <2> QED BY <2>2, <2>3, <2>5 DEF HInv
<1>6. Delete => Verified \/ Deleted(op.target)
  BY DEF Delete
<1>7. PollGone \/ PollEnds => Deleted(op.target)
  BY DEF PollGone, PollEnds
<1> QED BY <1>3, <1>4, <1>5, <1>6, <1>7

-----------------------------------------------------------------------------
(* The service and the others.                                              *)

\* While the stack stays as it is, so do its plans and what it holds.
LEMMA StackStays ==
  ASSUME IInv, UNCHANGED << kind, numbers, stack >>
  PROVE  /\ op' = op /\ record' = record /\ NextId' = NextId /\ Goal' = Goal
         /\ lost \subseteq lost' => (Living' => Living)
         /\ PlansOK <=> PlansOK'
<1>1. op' = op /\ record' = record /\ kind' = kind
  BY DEF stack
<1>2. NextId' = NextId
  BY <1>1, SameId
<1>3. Goal' = Goal
  BY <1>1 DEF Goal
<1>4. lost \subseteq lost' => (Living' => Living)
  BY <1>1, <1>2 DEF Living
<1>5. PlansOK <=> PlansOK'
  BY <1>1, SameKind DEF PlansOK
<1> QED BY <1>1, <1>2, <1>3, <1>4, <1>5

\* Others, and the service when it carries out a deletion, leave what they do not mark.
LEMMA OthersHold ==
  ASSUME IInv, IInv', FInv, HInv, (\E id \in dying : Vanish(id)) \/ Others
  PROVE  HInv'
<1>1. /\ UNCHANGED << kind, numbers, stack, pending, hit >> /\ kind' = kind /\ pending' = pending
      /\ off \subseteq off' /\ lost \subseteq lost'
  BY DEF Vanish, Others, OthersDelete, OthersChange, OthersFill, OthersCreate, fixed, history
<1>2. /\ op' = op /\ record' = record /\ NextId' = NextId /\ Goal' = Goal
      /\ Living' => Living
      /\ PlansOK'
  BY <1>1, StackStays DEF HInv
<1>3. kind \in AllKinds /\ kind \in Kinds
  BY DEF FInv, HInv, ShapesOK
<1>4. /\ Others => drifts' # 0
      /\ ~Others => drifts' = drifts /\ Fewer
  <2>1. ASSUME Others
        PROVE  drifts' # 0
    <3>1. drifts' = drifts + 1
      BY <2>1 DEF Others, OthersDelete, OthersChange, OthersFill, OthersCreate, Drift
    <3> QED BY <3>1 DEF IInv, FilledOK
  <2>2. ASSUME NEW id \in dying, Vanish(id)
        PROVE  drifts' = drifts /\ Fewer
    BY <2>2 DEF Vanish, history, Without, Fewer
  <2> QED BY <2>1, <2>2
<1>5. WaitOK'
  BY <1>1, <1>2, <1>4, WaitKept DEF HInv, Fewer
<1>6. /\ \A i \in DOMAIN world' : (i \in DOMAIN world /\ world'[i] = world[i]) \/ Object(world'[i])
      /\ \A i \in DOMAIN world' : i \in DOMAIN world =>
           \A f \in Bound \ off' : world'[i][f] = world[i][f]
  <2>1. CASE ~Others
    BY <1>4, <2>1 DEF Fewer
  <2>2. ASSUME NEW id \in DOMAIN world, OthersDelete(id) \/ OthersFill(id)
        PROVE  Fewer
    BY <2>2 DEF OthersDelete, OthersFill, Without, Fewer
  <2>3. ASSUME NEW id \in DOMAIN world, OthersChange(id)
        PROVE  <1>6
    <3> DEFINE o == world[id]
               q == [world[id] EXCEPT !["description"] = "drift"]
    <3>1. /\ DOMAIN world' = DOMAIN world /\ world'[id] = q
          /\ \A i \in DOMAIN world : i # id => world'[i] = world[i]
          /\ "description" \in off'
      BY <2>3 DEF OthersChange
    <3>2. Object(o)
      BY <2>3 DEF HInv, ShapesOK
    <3>3. DOMAIN q = DOMAIN o /\ \A f : f # "description" => q[f] = o[f]
      OBVIOUS
    <3>4. q = [f \in DOMAIN o |-> q[f]] /\ DOMAIN o = ObjectFields
      BY <3>2 DEF Object
    <3>5. Object(q)
      BY <3>2, <3>3, <3>4 DEF Object
    <3>6. \A f \in Bound \ off' : q[f] = o[f]
      BY <3>1, <3>3
    <3> HIDE DEF q
    <3> QED BY <3>1, <3>5, <3>6
  <2>4. ASSUME NEW p \in Programs[kind], OthersCreate(p)
        PROVE  <1>6
    <3>1. Object(NewObject(Create(p).body))
      BY <1>3, ProgramInputs, MadeIsObject
    <3>2. Free(IdOf(p, 0)) /\ world' = Put(IdOf(p, 0), NewObject(Create(p).body))
      BY <2>4 DEF OthersCreate
    <3> QED BY <3>1, <3>2 DEF Put, Free
  <2>5. Fewer => <1>6
    BY DEF Fewer
  <2> QED BY <2>1, <2>2, <2>3, <2>4, <2>5 DEF Others
<1>7. ShapesOK'
  <2>1. op'.plan \in Planned => Input(op'.inputs)
    BY <1>2 DEF HInv, ShapesOK
  <2> QED BY <1>1, <1>2, <1>6, <2>1, ShapesKept DEF HInv
<1>8. HeldOK'
  <2>1. Living' => record.id \in DOMAIN world /\ record.id \in DOMAIN world'
    BY <1>2 DEF Living, IInv, Safe
  <2> QED BY <1>1, <1>2, <1>6, <2>1, HeldKept DEF HInv
<1> QED BY <1>2, <1>5, <1>7, <1>8 DEF HInv

\* A data agent's patch, carried out, leaves it as the patch says.
LEMMA Patching ==
  ASSUME kind = "dataAgent", NEW o, Object(o), NEW patch, NEW f \in Bound
  PROVE  Patched(o, patch)[f] = IF f \in DOMAIN patch THEN patch[f] ELSE o[f]
<1>1. f \in DOMAIN o
  BY BoundFields DEF Object, AllKinds
<1> QED BY <1>1 DEF Patched, Verified

\* The oldest long-running operation is carried out, or fails.
LEMMA SettleHolds ==
  ASSUME IInv, IInv', FInv, HInv, Settle
  PROVE  HInv'
<1> DEFINE w == Head(pending)
           n == Len(pending)
<1>1. /\ UNCHANGED << kind, numbers, stack >> /\ kind' = kind /\ lost \subseteq lost' /\ drifts' = drifts
      /\ pending # << >> /\ pending' = Tail(pending)
      /\ \/ /\ world' = IF w.id \in DOMAIN world
                         THEN [world EXCEPT ![w.id] = Patched(@, w.patch)]
                         ELSE IF Makes(w) THEN Put(w.id, NewObject(w.patch)) ELSE world
            /\ hit' = hit /\ off' = off
         \/ hit' = TRUE /\ off' = off \cup DOMAIN w.patch /\ world' = world
  BY DEF Settle, fixed, Makes, Fault
<1>2. /\ op' = op /\ record' = record /\ NextId' = NextId /\ Goal' = Goal
      /\ Living' => Living
      /\ PlansOK'
  BY <1>1, StackStays DEF HInv
<1>3. kind = "dataAgent" /\ kind \in AllKinds /\ kind \in Kinds
  BY <1>1 DEF HInv, ShapesOK, AllKinds
<1>4. /\ pending \in Seq(PartsOf(pending)) /\ pending # << >>
      /\ n \in Nat /\ n > 0 /\ DOMAIN pending = 1..n /\ DOMAIN pending' = 1..(n - 1)
      /\ \A i \in 1..(n - 1) : pending'[i] = pending[i + 1]
      /\ w = pending[1]
  BY <1>1, Shifted DEF IInv, QueueOK
<1> HIDE DEF n
<1>5. \A i \in DOMAIN world : Object(world[i]) /\ Object(Patched(world[i], w.patch))
  BY <1>3, PatchedIsObject DEF HInv, ShapesOK, LabelsFit, Labelled
<1>6. Object(NewObject(w.patch))
  BY <1>3 DEF Object, NewObject, Labelled
<1>7. ShapesOK'
  <2>1. \A i \in DOMAIN world' : Object(world'[i])
    BY <1>1, <1>5, <1>6 DEF Put
  <2>2. op'.plan \in Planned => Input(op'.inputs)
    BY <1>2 DEF HInv, ShapesOK
  <2>3. record' # Absent => Input(record'.inputs)
    BY <1>2 DEF HInv, ShapesOK
  <2> QED BY <1>1, <1>3, <2>1, <2>2, <2>3, ShapesNext
\* What becomes of an object that is there.
<1>8. ASSUME NEW id \in DOMAIN world, NEW f \in Bound, NEW p, Turns(world[id], pending, f, id, p),
             f \notin off' \/ ~hit'
      PROVE  id \in DOMAIN world' /\ Turns(world'[id], pending', f, id, p)
  <2>1. CASE ~(hit' = TRUE /\ off' = off \cup DOMAIN w.patch /\ world' = world)
    <3>1. w.id = id => world'[id] = Patched(world[id], w.patch)
      BY <1>1, <2>1
    <3>2. w.id # id => world'[id] = world[id]
      BY <1>1, <2>1 DEF Put
    <3>3. id \in DOMAIN world'
      BY <1>1, <2>1 DEF Put
    <3>4. Patched(world[id], w.patch)[f] = IF f \in DOMAIN w.patch THEN w.patch[f] ELSE world[id][f]
      BY <1>3, <1>5, Patching
    <3>5. IF Touches(w, f, id) THEN world'[id][f] = w.patch[f] ELSE world'[id][f] = world[id][f]
      BY <3>1, <3>2, <3>4 DEF Touches
    <3>6. IF Touches(w, f, id)
          THEN Right(f, w.patch[f], p) => Right(f, world'[id][f], p)
          ELSE world'[id][f] = world[id][f]
      BY <3>5
    <3>7. Turns(world'[id], Tail(pending), f, id, p)
      BY <1>4, <1>8, <3>6, TurnOfTail
    <3> QED BY <1>1, <3>3, <3>7
  <2>2. CASE hit' = TRUE /\ off' = off \cup DOMAIN w.patch /\ world' = world
    <3>1. ~Touches(w, f, id)
      BY <1>8, <2>2 DEF Touches
    <3>2. Turns(world'[id], Tail(pending), f, id, p)
      BY <1>4, <1>8, <2>2, <3>1, TurnOfTail
    <3> QED BY <1>1, <2>2, <3>2
  <2> QED BY <2>1, <2>2
<1>9. HeldOK'
  <2> SUFFICES ASSUME Living', NEW f \in Bound \ off'
               PROVE  Turns(world'[record'.id], pending', f, record'.id, Goal')
    BY <1>1, HeldNext
  <2>1. Living /\ record.id \in DOMAIN world /\ f \notin off
    BY <1>1, <1>2 DEF Living, IInv, Safe
  <2>2. Turns(world[record.id], pending, f, record.id, Goal)
    BY <2>1 DEF HInv, HeldOK
  <2> QED BY <1>2, <1>8, <2>1, <2>2
<1>10. WaitOK'
  <2> SUFFICES ASSUME op.step = "wait", op.plan # "update", ~hit', drifts = 0
               PROVE  /\ NextId \in DOMAIN world' =>
                           \A f \in Bound \cap DOMAIN Create(op.inputs).patch :
                             Turns(world'[NextId], pending', f, NextId, op.inputs)
                      /\ \A i \in DOMAIN pending' : pending'[i].id = NextId /\ Makes(pending'[i]) =>
                           /\ pending'[i].patch = Create(op.inputs).body
                           /\ \A j \in DOMAIN pending' : pending'[j].id = NextId => j = i
    BY <1>1, <1>2, WaitNext
  <2>1. /\ ~hit
        /\ world' = IF w.id \in DOMAIN world
                    THEN [world EXCEPT ![w.id] = Patched(@, w.patch)]
                    ELSE IF Makes(w) THEN Put(w.id, NewObject(w.patch)) ELSE world
    BY <1>1
  <2>2. /\ NextId \in DOMAIN world =>
              \A f \in Bound \cap DOMAIN Create(op.inputs).patch :
                Turns(world[NextId], pending, f, NextId, op.inputs)
        /\ \A i \in DOMAIN pending : pending[i].id = NextId /\ Makes(pending[i]) =>
              /\ pending[i].patch = Create(op.inputs).body
              /\ \A j \in DOMAIN pending : pending[j].id = NextId => j = i
    BY <1>1, <2>1 DEF HInv, WaitOK
  <2>3. ASSUME NextId \in DOMAIN world', NEW f \in Bound \cap DOMAIN Create(op.inputs).patch
        PROVE  Turns(world'[NextId], pending', f, NextId, op.inputs)
    <3>1. CASE NextId \in DOMAIN world
      BY <1>8, <2>2, <2>3, <3>1
    <3>2. CASE NextId \notin DOMAIN world
      <4>1. w.id = NextId /\ Makes(w) /\ world'[NextId] = NewObject(w.patch)
        BY <2>1, <2>3, <3>2 DEF Put
      <4>2. 1 \in DOMAIN pending /\ pending[1].id = NextId /\ Makes(pending[1])
        BY <1>4, <4>1
      <4>3. w.patch = Create(op.inputs).body /\ \A j \in DOMAIN pending : pending[j].id = NextId => j = 1
        BY <1>4, <2>2, <4>2
      <4>4. Input(op.inputs)
        BY DEF HInv, ShapesOK, PlansOK
      <4>5. Right(f, world'[NextId][f], op.inputs)
        BY <1>3, <4>1, <4>3, <4>4, MadeIsRight
      <4>6. \A j \in 1..(n - 1) : j + 1 \in DOMAIN pending /\ j + 1 # 1
        BY <1>4
      <4>7. \A j \in DOMAIN pending' : ~Touches(pending'[j], f, NextId)
        BY <1>4, <4>3, <4>6 DEF Touches
      <4> QED BY <4>5, <4>7 DEF Turns
    <3> QED BY <3>1, <3>2
  <2>4. ASSUME NEW i \in DOMAIN pending', pending'[i].id = NextId, Makes(pending'[i])
        PROVE  /\ pending'[i].patch = Create(op.inputs).body
               /\ \A j \in DOMAIN pending' : pending'[j].id = NextId => j = i
    <3>1. i + 1 \in DOMAIN pending /\ pending'[i] = pending[i + 1]
      BY <1>4
    <3>2. /\ pending[i + 1].patch = Create(op.inputs).body
          /\ \A j \in DOMAIN pending : pending[j].id = NextId => j = i + 1
      BY <2>2, <2>4, <3>1
    <3>3. ASSUME NEW j \in DOMAIN pending', pending'[j].id = NextId
          PROVE  j = i
      <4>1. j + 1 \in DOMAIN pending /\ pending'[j] = pending[j + 1]
        BY <1>4
      <4>2. j + 1 = i + 1
        BY <3>2, <3>3, <4>1
      <4> QED BY <1>4, <4>2
    <3> QED BY <3>1, <3>2, <3>3
  <2> QED BY <2>3, <2>4
<1> QED BY <1>2, <1>7, <1>9, <1>10 DEF HInv

-----------------------------------------------------------------------------
\* What an object is, and is going to be, is known throughout.
LEMMA HeldInvariant ==
  ASSUME NoRecord
  PROVE  ManagedSpec => [](IInv /\ FInv /\ HInv)
<1>1. ManagedInit => HInv
  <2> SUFFICES ASSUME ManagedInit PROVE HInv
    OBVIOUS
  <2>1. /\ kind \in Kinds /\ record = Absent /\ op.step = "idle" /\ op.plan \notin Planned
        /\ pending = << >> /\ DOMAIN world = {}
    BY DEF ManagedInit, Resting, Planned
  <2> QED BY <2>1 DEF HInv, ShapesOK, PlansOK, WaitOK, HeldOK, Living
<1>2. IInv /\ IInv' /\ FInv /\ HInv /\ [ManagedNext]_managedVars => HInv'
  <2>1. CASE UNCHANGED managedVars
    <3>1. UNCHANGED << kind, numbers, stack, pending, world, hit, drifts, off, lost >>
          /\ kind' = kind /\ pending' = pending
      BY <2>1 DEF managedVars, fixed, service, history
    <3> SUFFICES ASSUME IInv, IInv', FInv, HInv PROVE HInv'
      OBVIOUS
    <3>2. /\ op' = op /\ record' = record /\ NextId' = NextId /\ Goal' = Goal
          /\ (Living' => Living) /\ PlansOK'
      BY <3>1, StackStays DEF HInv
    <3>3. WaitOK'
      BY <3>1, <3>2, WaitKept DEF HInv
    <3>4. ShapesOK'
      <4>1. op'.plan \in Planned => Input(op'.inputs)
        BY <3>2 DEF HInv, ShapesOK
      <4> QED BY <3>1, <3>2, <4>1, ShapesKept DEF HInv
    <3>5. HeldOK'
      BY <3>1, <3>2, HeldKept DEF HInv
    <3> QED BY <3>2, <3>3, <3>4, <3>5 DEF HInv
  <2> QED BY <2>1, EngineHolds, CreateHolds, AdoptHolds, AdoptFailsHolds, AwaitHolds, UpdateHolds,
             ReadHolds, DeleteHolds, OthersHold, SettleHolds
          DEF ManagedNext, Call
<1> QED BY <1>1, <1>2, FaultsInvariant, PTL DEF ManagedSpec

\* Between operations nothing is in hand: the object is as the record's inputs say.
LEMMA HeldAtRest ==
  ASSUME IInv, HInv, Recorded, record.id \in DOMAIN world \ lost, pending = << >>
  PROVE  /\ Input(record.inputs) /\ kind \in Kinds
         /\ \A f \in Bound \ off : Right(f, world[record.id][f], record.inputs)
<1>1. record # Absent /\ Living /\ Goal = record.inputs
  BY DEF Recorded, Idle, Living, Goal
<1> QED BY <1>1 DEF HInv, ShapesOK, HeldOK, Turns

\* InStep: between operations the object is as the recorded inputs say, in every field
\* the provider maintains, except where others or a fault of a call have interfered.
THEOREM InStepHolds ==
  ASSUME NoRecord
  PROVE  ManagedSpec => []InStep
<1>1. IInv /\ FInv /\ HInv => InStep
  <2> SUFFICES ASSUME IInv, FInv, HInv, Recorded, record.id \in DOMAIN world \ lost, pending = << >>,
                      NEW f \in Maintained \ off, f \in DOMAIN Create(record.inputs).body \cup ClearedToo
               PROVE  Agree(f, world[record.id][f], NewObject(Create(record.inputs).body)[f])
    BY DEF InStep
  <2> DEFINE body == Create(record.inputs).body
             have == world[record.id]
  <2>1. /\ Input(record.inputs) /\ kind \in AllKinds /\ f \in Bound /\ f \in ObjectFields
        /\ Right(f, have[f], record.inputs)
    BY HeldAtRest, BoundFields DEF FInv, Bound
  <2>2. Asks(record.inputs, f) => f \in DOMAIN body /\ NewObject(body)[f] = Value(record.inputs, f)
    BY <2>1, BodyIs DEF NewObject
  <2>3. f \in DOMAIN body => Asks(record.inputs, f) \/ (kind = "dataAgent" /\ f \in AgentIds)
    BY <2>1, BodyIs
  <2>4. ~(kind = "dataAgent" /\ f \in AgentIds)
    BY DEF Maintained, AgentIds, AgentTexts
  <2>5. CASE Asks(record.inputs, f)
    BY <2>1, <2>2, <2>5 DEF Right
  <2>6. CASE ~Asks(record.inputs, f)
    <3>1. f \notin DOMAIN body /\ f \in ClearedToo
      BY <2>3, <2>4, <2>6
    <3>2. NewObject(body)[f] = Absent
      <4>1. ~(kind = "dataset" /\ f = "storageBillingModel")
        BY <3>1 DEF ClearedToo
      <4> QED BY <2>1, <3>1, <4>1 DEF NewObject
    <3> QED BY <2>1, <2>6, <3>1, <3>2 DEF Right
  <2> QED BY <2>5, <2>6
<1> QED BY <1>1, HeldInvariant, PTL

\* RefreshKeeps: for the fields a read returns, a refresh of an object nobody has
\* interfered with leaves the next preview of the same program nothing to change.
THEOREM RefreshKeepsHolds ==
  ASSUME NoRecord
  PROVE  ManagedSpec => []RefreshKeeps
<1>1. IInv /\ FInv /\ HInv => RefreshKeeps
  <2> SUFFICES ASSUME IInv, FInv, HInv, Recorded, record.id \in DOMAIN world \ lost, off = {}, pending = << >>
               PROVE  LET read == Read(world[record.id])
                          d == Diff(read, record.inputs)
                      IN  \A f \in (d.replace \cup d.update) \cap ObjectFields :
                            read[f] = Absent \/ record.inputs[f] = Absent \/ f = "labels"
    BY DEF RefreshKeeps
  <2>1. /\ Input(record.inputs) /\ kind \in AllKinds
        /\ \A f \in Bound : Right(f, world[record.id][f], record.inputs)
    BY HeldAtRest DEF FInv
  <2> QED BY <2>1, RefreshAgrees
<1> QED BY <1>1, HeldInvariant, PTL

=============================================================================
