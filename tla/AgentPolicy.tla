----------------------------- MODULE AgentPolicy -----------------------------
(***************************************************************************)
(* The IAM policy of a data agent (gcpx-agents): the handlers of           *)
(* DataAgentIamPolicy read the policy, change what they have read and      *)
(* write it back under the etag they have read.  Several resources, of     *)
(* several stacks, may speak of one policy, and people change it too.      *)
(*                                                                         *)
(* The service is external: it accepts a policy under the current etag, or *)
(* under none, and gives it a new one.  A request may be executed late,    *)
(* more than once, after its caller has given up, or never.                *)
(***************************************************************************)
EXTENDS Naturals

CONSTANTS
  Grants,      \* the grants of a role to a member
  Resources,   \* the DataAgentIamPolicy resources of this policy
  Blank,       \* the etag of a write that names none
  Missing,     \* stands for the record of a resource that does not exist
  MaxOps,      \* bound on the operations
  MaxChanges,  \* bound on the changes by others
  MaxFaults    \* bound on failed reads and given up calls

ASSUME PolicyAssumption ==
  /\ Blank \notin Nat
  /\ Missing \notin [mode : {"add", "set", "unknown"}, grants : SUBSET Grants, id : Nat]
  /\ {MaxOps, MaxChanges, MaxFaults} \subseteq Nat

VARIABLES
  grants,   \* the service: the grants in force
  etag,     \* the service: their etag
  applied,  \* history: the operations whose write has been accepted
  wire,     \* the writes that have been sent and may still be executed
  pc,       \* where each resource's handler is
  op,       \* the operation each resource's handler is busy with
  record,   \* the engine: each resource's inputs, with the operation they are from
  begun,
  changes,
  faults

service == << grants, etag, applied >>
counters == << begun, changes, faults >>
vars == << service, wire, pc, op, record, counters >>

Modes == {"add", "set"}      \* authoritative = false and true
NoOp == [id |-> 0, kind |-> "add", grants |-> {}]

Init ==
  /\ grants \in SUBSET Grants /\ etag = 0 /\ applied = {}
  /\ wire = {}
  /\ pc = [r \in Resources |-> "idle"]
  /\ op = [r \in Resources |-> NoOp]
  /\ record = [r \in Resources |-> Missing]
  /\ begun = 0 /\ changes = 0 /\ faults = 0

Fault == faults < MaxFaults /\ faults' = faults + 1 /\ UNCHANGED << begun, changes >>

\* The engine calls a handler.
Begin(r, kind, declared) ==
  /\ pc[r] = "idle" /\ begun < MaxOps
  /\ begun' = begun + 1
  /\ op' = [op EXCEPT ![r] = [id |-> begun + 1, kind |-> kind, grants |-> declared]]
  /\ pc' = [pc EXCEPT ![r] = "reading"]
  /\ UNCHANGED << service, wire, record, changes, faults >>

\* Mutant of Differs: the bindings are compared, whether they are authoritative is not.
DiffersInBindings(r, mode, declared) ==
  record[r] = Missing \/ record[r].grants # declared

\* diff_agent_iam_policy, of a resource that exists.
Differs(r, mode, declared) ==
  record[r] # Missing => record[r].mode # mode \/ record[r].grants # declared

\* create and update.
Declare(r, mode, declared) == Differs(r, mode, declared) /\ Begin(r, mode, declared)

\* delete.  The declared grants are not used.
Delete(r) == record[r] # Missing /\ Begin(r, "clear", record[r].grants)

-----------------------------------------------------------------------------
\* Mutant of Merged: an additive write forgets what it has read.
MergedNothing(kind, declared, read) == IF kind = "clear" THEN {} ELSE declared

\* apply_iam_policy with merge_bindings, and the empty policy of delete.
Merged(kind, declared, read) ==
  IF kind = "add" THEN read \union declared
  ELSE IF kind = "set" THEN declared ELSE {}

\* Mutant of Request: the etag is left out.
RequestBlind(r) ==
  [op |-> op[r], etag |-> Blank, body |-> Merged(op[r].kind, op[r].grants, grants)]

\* build_iam_policy_body: the policy and the etag that get_agent_iam_policy answers.
Request(r) ==
  [op |-> op[r], etag |-> etag, body |-> Merged(op[r].kind, op[r].grants, grants)]

\* get_agent_iam_policy, and the sending of set_agent_iam_policy.
Read(r) ==
  /\ pc[r] = "reading"
  /\ wire' = wire \union {Request(r)}
  /\ pc' = [pc EXCEPT ![r] = "writing"]
  /\ UNCHANGED << service, op, record, counters >>

Return(r) == pc' = [pc EXCEPT ![r] = "idle"] /\ op' = [op EXCEPT ![r] = NoOp]

\* The handler returns, the engine stores the inputs or forgets the resource.
Succeed(r) ==
  /\ Return(r)
  /\ record' = [record EXCEPT ![r] =
       IF op[r].kind = "clear" THEN Missing
       ELSE [mode |-> op[r].kind, grants |-> op[r].grants, id |-> op[r].id]]

Fail(r) == Return(r) /\ UNCHANGED record

\* The policy gets a new etag.  Of the writes that are on their way, those under another
\* etag can only be refused.
Put(new) ==
  /\ grants' = new /\ etag' = etag + 1
  /\ wire' = { m \in wire : m.etag \in {etag', Blank} }

\* The service accepts a write.  Its caller may not be waiting any more, and the answer
\* may get lost: then the caller sends the same write again.
Execute(m) ==
  /\ m \in wire
  /\ Put(m.body)
  /\ applied' = applied \union {m.op}
  /\ \/ UNCHANGED << pc, op, record >>
     \/ \E r \in Resources : pc[r] = "writing" /\ op[r] = m.op /\ Succeed(r)
  /\ UNCHANGED counters

Stale(r) == \A m \in wire : m.op # op[r]

\* Mutant of Refused: a conflict is taken for success.
RefusedAdopts(r) ==
  /\ pc[r] = "writing" /\ Stale(r)
  /\ Succeed(r)
  /\ UNCHANGED << service, wire, counters >>

\* A write under another etag is refused, in the end: "ABORTED" is sent again.
Refused(r) ==
  /\ pc[r] = "writing" /\ Stale(r)
  /\ Fail(r)
  /\ UNCHANGED << service, wire, counters >>

\* The policy cannot be read, the attempts of the write are used up, or the plugin dies.
GiveUp(r) ==
  /\ pc[r] # "idle"
  /\ Fault /\ Fail(r)
  /\ UNCHANGED << service, wire >>

\* read_agent_iam_policy: the inputs become all grants in force, without a mode.
Refresh(r) ==
  /\ pc[r] = "idle" /\ record[r] # Missing
  /\ record' = [record EXCEPT ![r] =
       [mode |-> "unknown", grants |-> grants, id |-> record[r].id]]
  /\ UNCHANGED << service, wire, pc, op, counters >>

\* Somebody else changes the policy.
Change(new) ==
  /\ changes < MaxChanges /\ changes' = changes + 1
  /\ Put(new)
  /\ UNCHANGED << applied, pc, op, record, begun, faults >>

Handle(r) ==
  \/ \E mode \in Modes, declared \in SUBSET Grants : Declare(r, mode, declared)
  \/ Delete(r) \/ Read(r) \/ Refused(r) \/ GiveUp(r) \/ Refresh(r)

Next ==
  \/ \E r \in Resources : Handle(r)
  \/ \E m \in wire : Execute(m)
  \/ \E new \in SUBSET Grants : Change(new)
  \/ begun = MaxOps /\ (\A r \in Resources : pc[r] = "idle") /\ UNCHANGED vars

Spec == Init /\ [][Next]_vars

-----------------------------------------------------------------------------
Contract == INSTANCE PolicyContract
              WITH Ids <- 1..MaxOps, performed <- applied, edits <- changes

Records == [mode : Modes \union {"unknown"}, grants : SUBSET Grants, id : Nat]

\* Every operation has a number of its own, and only what is recorded is deleted.
PolicyTypeOK ==
  /\ grants \in SUBSET Grants /\ etag \in Nat /\ applied \in SUBSET Contract!Ops
  /\ wire \in SUBSET [op : Contract!Ops, etag : Nat \union {Blank}, body : SUBSET Grants]
  /\ pc \in [Resources -> {"idle", "reading", "writing"}]
  /\ op \in [Resources -> Contract!Ops \union {NoOp}]
  /\ record \in [Resources -> Records \union {Missing}]
  /\ begun \in 0..MaxOps /\ changes \in 0..MaxChanges /\ faults \in 0..MaxFaults
  /\ \A r \in Resources : pc[r] # "idle" =>
       op[r].id \in 1..begun /\ (op[r].kind = "clear" => record[r] # Missing)

\* However the handlers and other people interleave, and however often, late or never a
\* write is executed: every operation changes the policy as if it were alone, at most
\* once.  "if the policy changed since it was read, the write is rejected rather than
\* silently clobbering it" (handlers.rs:441-442).
ImplementsContract == Contract!Spec

\* What is recorded has been written: a create or update whose write was refused, or
\* whose fate is not known, is not taken for done (handlers.rs:425-448).
SuccessWasApplied ==
  \A r \in Resources : record[r] # Missing =>
    \E done \in applied :
      /\ done.id = record[r].id
      /\ record[r].mode # "unknown" =>
           done.kind = record[r].mode /\ done.grants = record[r].grants

\* "The current policy is read first so bindings owned by someone else survive"
\* (handlers.rs:408-409): deleting a resource takes no grant but its own.
DeleteKeepsOthers ==
  [][\A m \in wire : m.op.kind = "clear" /\ m.op \in applied' \ applied =>
       grants \ m.op.grants \subseteq grants']_vars

=============================================================================
