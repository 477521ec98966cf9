----------------------------- MODULE AgentProofs -----------------------------
(***************************************************************************)
(* What AgentPolicy promises for any number of resources, grants and       *)
(* operations, and what ChatFrames promises for every limit on a message,  *)
(* every length of the stream and every notion of what decodes.            *)
(***************************************************************************)
EXTENDS AgentPolicy, ChatFrames, SequenceTheorems, TLAPS

(***************************************************************************)
(* The access policy of an agent.                                          *)
(***************************************************************************)

Active(r) == pc[r] # "idle"
Fresh(id) == \A done \in applied : done.id # id

\* A write that is on its way carries the current etag and what its operation makes of
\* the current policy.
WireInv ==
  \A m \in wire :
    /\ m.etag = etag
    /\ m.body = Merged(m.op.kind, m.op.grants, grants)
    /\ m.op.id \in 1..begun
    /\ Fresh(m.op.id)

\* An operation that has not written yet is the only one of its number.
IdInv ==
  /\ \A done \in applied : done.id \in 1..begun
  /\ \A r \in Resources : pc[r] = "reading" =>
       Fresh(op[r].id) /\ \A m \in wire : m.op.id # op[r].id
  /\ \A r, q \in Resources : Active(r) /\ Active(q) /\ r # q => op[r].id # op[q].id

IInv == PolicyTypeOK /\ WireInv /\ IdInv

-----------------------------------------------------------------------------
\* An operation under way is one of the contract's.
LEMMA ActiveOp ==
  ASSUME PolicyTypeOK, NEW r \in Resources, Active(r)
  PROVE  op[r] \in Contract!Ops
  BY PolicyAssumption DEF PolicyTypeOK, Active, NoOp, Contract!Ops

\* The initial state satisfies the type invariant.
LEMMA InitType == Init => PolicyTypeOK
  BY PolicyAssumption DEF Init, PolicyTypeOK, NoOp, Contract!Ops

\* A step of a handler keeps the types.
LEMMA HandleType ==
  ASSUME PolicyTypeOK, NEW r \in Resources, Handle(r)
  PROVE  PolicyTypeOK'
<1> USE PolicyAssumption DEF PolicyTypeOK, Modes
<1>1. ASSUME NEW kind \in {"add", "set", "clear"}, NEW declared \in SUBSET Grants,
             Begin(r, kind, declared), kind = "clear" => record[r] # Missing
      PROVE  PolicyTypeOK'
  <2> DEFINE new == [id |-> begun + 1, kind |-> kind, grants |-> declared]
  <2>1. begun + 1 \in 1..MaxOps /\ begun' = begun + 1
    BY <1>1 DEF Begin
  <2>2. new \in Contract!Ops
    BY <2>1 DEF Contract!Ops
  <2>3. op' = [op EXCEPT ![r] = new] /\ pc' = [pc EXCEPT ![r] = "reading"]
    BY <1>1 DEF Begin
  <2>4. op' \in [Resources -> Contract!Ops \union {NoOp}]
    BY <2>2, <2>3
  <2>5. \A q \in Resources : pc'[q] # "idle" =>
          op'[q].id \in 1..begun' /\ (op'[q].kind = "clear" => record[q] # Missing)
    BY <1>1, <2>1, <2>3
  <2> QED
    BY <1>1, <2>1, <2>3, <2>4, <2>5 DEF Begin, service
<1>2. ASSUME NEW mode \in Modes, NEW declared \in SUBSET Grants, Declare(r, mode, declared)
      PROVE  PolicyTypeOK'
  BY <1>1, <1>2 DEF Declare
<1>3. CASE Delete(r)
  <2>1. record[r].grants \in SUBSET Grants
    BY <1>3 DEF Delete, Records
  <2> QED
    BY <1>1, <1>3, <2>1 DEF Delete
<1>4. CASE Read(r)
  <2>1. op[r] \in Contract!Ops
    BY <1>4, ActiveOp DEF Read, Active
  <2>2. Request(r) \in [op : Contract!Ops, etag : Nat \union {Blank}, body : SUBSET Grants]
    BY <2>1 DEF Request, Merged, Contract!Ops
  <2> QED
    BY <1>4, <2>2 DEF Read, service, counters
<1>5. CASE Refused(r)
  BY <1>5 DEF Refused, Fail, Return, service, counters, NoOp
<1>6. CASE GiveUp(r)
  BY <1>6 DEF GiveUp, Fault, Fail, Return, service, NoOp
<1>7. CASE Refresh(r)
  <2>1. record[r] \in Records
    BY <1>7 DEF Refresh
  <2>2. [mode |-> "unknown", grants |-> grants, id |-> record[r].id] \in Records
    BY <2>1 DEF Records, Modes
  <2>3. record' = [record EXCEPT ![r] =
                     [mode |-> "unknown", grants |-> grants, id |-> record[r].id]]
    BY <1>7 DEF Refresh
  <2>4. \A q \in Resources : record[q] # Missing => record'[q] # Missing
    BY <2>2, <2>3 DEF Records, Modes
  <2> QED
    BY <1>7, <2>2, <2>3, <2>4 DEF Refresh, service, counters
<1> QED
  BY <1>2, <1>3, <1>4, <1>5, <1>6, <1>7 DEF Handle

\* A step of the service or of somebody else keeps the types.
LEMMA ServiceType ==
  ASSUME PolicyTypeOK, (\E m \in wire : Execute(m)) \/ (\E new \in SUBSET Grants : Change(new))
  PROVE  PolicyTypeOK'
<1> USE PolicyAssumption DEF PolicyTypeOK, Modes
<1>1. ASSUME NEW m \in wire, Execute(m)
      PROVE  PolicyTypeOK'
  <2>1. m.op \in Contract!Ops /\ m.body \in SUBSET Grants
    OBVIOUS
  <2>2. /\ grants' \in SUBSET Grants /\ etag' \in Nat /\ applied' \in SUBSET Contract!Ops
        /\ wire' \in SUBSET [op : Contract!Ops, etag : Nat \union {Blank}, body : SUBSET Grants]
    BY <1>1, <2>1 DEF Execute, Put
  <2>3. CASE UNCHANGED << pc, op, record >>
    BY <1>1, <2>2, <2>3 DEF Execute, counters
  <2>4. ASSUME NEW r \in Resources, pc[r] = "writing", op[r] = m.op, Succeed(r)
        PROVE  PolicyTypeOK'
    <3>1. op[r] \in Contract!Ops /\ op[r].id \in Nat
      BY <2>1, <2>4 DEF Contract!Ops
    <3>2. op[r].kind # "clear" =>
            [mode |-> op[r].kind, grants |-> op[r].grants, id |-> op[r].id] \in Records
      BY <3>1 DEF Contract!Ops, Records, Modes
    <3>3. record' \in [Resources -> Records \union {Missing}]
      BY <2>4, <3>2 DEF Succeed
    <3>4. pc' = [pc EXCEPT ![r] = "idle"] /\ op' = [op EXCEPT ![r] = NoOp]
      BY <2>4 DEF Succeed, Return
    <3>5. \A q \in Resources : q # r => record'[q] = record[q]
      BY <2>4 DEF Succeed
    <3> QED
      BY <1>1, <2>2, <3>3, <3>4, <3>5 DEF Execute, counters
  <2> QED
    BY <1>1, <2>3, <2>4 DEF Execute
<1>2. ASSUME NEW new \in SUBSET Grants, Change(new)
      PROVE  PolicyTypeOK'
  BY <1>2 DEF Change, Put
<1> QED
  BY <1>1, <1>2

\* The state keeps its types, every operation has a number of its own and only what is
\* recorded is deleted.
THEOREM PolicyTypeCorrect == Spec => []PolicyTypeOK
<1>1. PolicyTypeOK /\ [Next]_vars => PolicyTypeOK'
  <2> SUFFICES ASSUME PolicyTypeOK, [Next]_vars PROVE PolicyTypeOK'
    OBVIOUS
  <2>1. CASE UNCHANGED vars
    BY <2>1 DEF PolicyTypeOK, vars, service, counters
  <2> QED
    BY <2>1, HandleType, ServiceType DEF Next
<1> QED
  BY <1>1, InitType, PTL DEF Spec

-----------------------------------------------------------------------------
\* A new etag leaves no write on its way.
LEMMA PutEmptiesWire ==
  ASSUME PolicyTypeOK, WireInv, NEW new, Put(new)
  PROVE  wire' = {}
<1>1. etag \in Nat /\ etag' = etag + 1 /\ wire' = { m \in wire : m.etag \in {etag', Blank} }
  BY DEF PolicyTypeOK, Put
<1>2. \A m \in wire : m.etag = etag
  BY DEF WireInv
<1>3. etag # etag + 1 /\ etag # Blank
  BY <1>1, PolicyAssumption
<1> QED
  BY <1>1, <1>2, <1>3

\* A step of a handler keeps the numbers apart and the writes up to date.
LEMMA HandleInv ==
  ASSUME IInv, NEW r \in Resources, Handle(r)
  PROVE  WireInv' /\ IdInv'
<1> USE DEF IInv, Active, Fresh
<1>1. ASSUME NEW kind, NEW declared, Begin(r, kind, declared)
      PROVE  WireInv' /\ IdInv'
  <2> DEFINE new == [id |-> begun + 1, kind |-> kind, grants |-> declared]
  <2>1. /\ begun \in Nat /\ begun' = begun + 1 /\ UNCHANGED << grants, etag, applied, wire >>
        /\ op' = [op EXCEPT ![r] = new] /\ pc' = [pc EXCEPT ![r] = "reading"]
    BY <1>1 DEF Begin, service, PolicyTypeOK
  <2>2. 1..begun \subseteq 1..begun' /\ begun + 1 \in 1..begun' /\ begun + 1 \notin 1..begun
    BY <2>1
  <2>3. op'[r].id = begun + 1 /\ \A q \in Resources \ {r} : op'[q] = op[q] /\ pc'[q] = pc[q]
    BY <2>1 DEF PolicyTypeOK
  <2>4. WireInv'
    BY <2>1, <2>2 DEF WireInv
  <2>5. \A done \in applied' : done.id \in 1..begun'
    BY <2>1, <2>2 DEF IdInv
  <2>6. Fresh(op[r].id)' /\ \A m \in wire' : m.op.id # op'[r].id
    BY <2>1, <2>2, <2>3 DEF IdInv, WireInv
  <2>7. \A q \in Resources \ {r} : pc[q] # "idle" => op[q].id # begun + 1
    BY <2>2 DEF PolicyTypeOK
  <2> QED
    BY <2>1, <2>3, <2>4, <2>5, <2>6, <2>7 DEF IdInv
<1>2. CASE Read(r)
  <2>1. /\ pc[r] = "reading" /\ wire' = wire \union {Request(r)}
        /\ pc' = [pc EXCEPT ![r] = "writing"] /\ UNCHANGED << grants, etag, applied, op, begun >>
    BY <1>2 DEF Read, service, counters
  <2>2. /\ Request(r).op = op[r] /\ Request(r).etag = etag
        /\ Request(r).body = Merged(op[r].kind, op[r].grants, grants)
    BY DEF Request
  <2>3. op[r].id \in 1..begun /\ Fresh(op[r].id)
    BY <2>1 DEF PolicyTypeOK, IdInv
  <2>4. WireInv'
    BY <2>1, <2>2, <2>3 DEF WireInv, Merged
  <2>5. \A q \in Resources : pc'[q] = "reading" => q # r /\ pc[q] = "reading"
    BY <2>1 DEF PolicyTypeOK
  <2>6. \A q \in Resources : pc'[q] # "idle" => pc[q] # "idle"
    BY <2>1 DEF PolicyTypeOK
  <2>7. \A q \in Resources : pc'[q] = "reading" =>
          Fresh(op[q].id)' /\ \A m \in wire' : m.op.id # op'[q].id
    BY <2>1, <2>2, <2>5 DEF IdInv
  <2> QED
    BY <2>1, <2>4, <2>6, <2>7 DEF IdInv
<1>3. CASE Refused(r) \/ GiveUp(r)
  <2>1. /\ pc' = [pc EXCEPT ![r] = "idle"] /\ op' = [op EXCEPT ![r] = NoOp]
        /\ UNCHANGED << grants, etag, applied, wire, begun >>
    BY <1>3 DEF Refused, GiveUp, Fail, Return, Fault, service, counters
  <2>2. \A q \in Resources : pc'[q] # "idle" => pc'[q] = pc[q] /\ op'[q] = op[q]
    BY <2>1 DEF PolicyTypeOK
  <2>3. WireInv'
    BY <2>1 DEF WireInv
  <2> QED
    BY <2>1, <2>2, <2>3 DEF IdInv
<1>4. CASE Refresh(r)
  <2>1. UNCHANGED << grants, etag, applied, wire, pc, op, begun >>
    BY <1>4 DEF Refresh, service, counters
  <2> QED
    BY <2>1 DEF WireInv, IdInv
<1> QED
  BY <1>1, <1>2, <1>3, <1>4 DEF Handle, Declare, Delete

\* So does a step of the service or of somebody else.
LEMMA ServiceInv ==
  ASSUME IInv, (\E m \in wire : Execute(m)) \/ (\E new \in SUBSET Grants : Change(new))
  PROVE  WireInv' /\ IdInv'
<1> USE DEF IInv, Active, Fresh
<1>1. ASSUME NEW m \in wire, Execute(m)
      PROVE  WireInv' /\ IdInv'
  <2>1. wire' = {} /\ applied' = applied \union {m.op} /\ UNCHANGED begun
    BY <1>1, PutEmptiesWire DEF Execute, counters
  <2>2. \A q \in Resources : pc'[q] # "idle" => pc'[q] = pc[q] /\ op'[q] = op[q]
    BY <1>1 DEF Execute, Succeed, Return, PolicyTypeOK
  <2>3. m.op.id \in 1..begun
    BY DEF WireInv
  <2>4. \A q \in Resources : pc[q] = "reading" => op[q].id # m.op.id
    BY DEF IdInv
  <2>5. WireInv'
    BY <2>1 DEF WireInv
  <2> QED
    BY <2>1, <2>2, <2>3, <2>4, <2>5 DEF IdInv
<1>2. ASSUME NEW new \in SUBSET Grants, Change(new)
      PROVE  WireInv' /\ IdInv'
  <2>1. wire' = {} /\ UNCHANGED << applied, pc, op, begun >>
    BY <1>2, PutEmptiesWire DEF Change
  <2> QED
    BY <2>1 DEF WireInv, IdInv
<1> QED
  BY <1>1, <1>2

\* Every write on its way is up to date, and no operation is written twice.
LEMMA WritesAreCurrent == Spec => []IInv
<1>1. Init => IInv
  <2>1. Init => WireInv /\ IdInv
    BY DEF Init, WireInv, IdInv, Active
  <2> QED
    BY <2>1, InitType DEF IInv
<1>2. IInv /\ [Next]_vars => IInv'
  <2> SUFFICES ASSUME IInv, [Next]_vars PROVE IInv'
    OBVIOUS
  <2>1. CASE UNCHANGED vars
    BY <2>1 DEF IInv, PolicyTypeOK, WireInv, IdInv, Fresh, Active, vars, service, counters
  <2>2. ASSUME NEW r \in Resources, Handle(r) PROVE IInv'
    BY <2>2, HandleType, HandleInv DEF IInv
  <2>3. ASSUME (\E m \in wire : Execute(m)) \/ (\E new \in SUBSET Grants : Change(new))
        PROVE  IInv'
    BY <2>3, ServiceType, ServiceInv DEF IInv
  <2> QED
    BY <2>1, <2>2, <2>3 DEF Next
<1> QED
  BY <1>1, <1>2, PTL DEF Spec

-----------------------------------------------------------------------------
\* However the handlers, the service and other people interleave, every operation
\* changes the policy as if it were alone, and at most once (handlers.rs:425-448).
THEOREM PolicyImplementsContract == Spec => ImplementsContract
<1>1. Init => Contract!Init
  BY DEF Init, Contract!Init
<1>2. IInv /\ [Next]_vars => [Contract!Next]_<< grants, applied, changes >>
  <2> SUFFICES ASSUME IInv, Next
               PROVE  Contract!Next \/ UNCHANGED << grants, applied, changes >>
    BY DEF vars, service, counters
  <2>1. ASSUME NEW m \in wire, Execute(m)
        PROVE  Contract!Perform(m.op) /\ m.op \in Contract!Ops
    <3>1. grants' = m.body /\ applied' = applied \union {m.op} /\ UNCHANGED changes
      BY <2>1 DEF Execute, Put, counters
    <3>2. m.body = Contract!Effect(m.op, grants)
      BY DEF IInv, WireInv, Merged, Contract!Effect
    <3> QED
      BY <3>1, <3>2 DEF IInv, WireInv, Fresh, PolicyTypeOK, Contract!Perform
  <2>2. ASSUME NEW new \in SUBSET Grants, Change(new)
        PROVE  Contract!Others
    BY <2>2 DEF Change, Put, Contract!Others
  <2>3. ASSUME NEW r \in Resources, Handle(r)
        PROVE  UNCHANGED << grants, applied, changes >>
    BY <2>3 DEF Handle, Declare, Delete, Begin, Read, Refused, GiveUp, Refresh, Fault,
                service, counters
  <2> QED
    BY <2>1, <2>2, <2>3 DEF Next, Contract!Next, vars, service, counters
<1> QED
  BY <1>1, <1>2, WritesAreCurrent, PTL DEF Spec, ImplementsContract, Contract!Spec

\* A create or update that is recorded has been written, as it is recorded
\* (handlers.rs:425-448).
THEOREM RecordedIsWritten == Spec => []SuccessWasApplied
<1>1. Init => SuccessWasApplied
  BY DEF Init, SuccessWasApplied
<1>2. PolicyTypeOK /\ SuccessWasApplied /\ [Next]_vars => SuccessWasApplied'
  <2> SUFFICES ASSUME PolicyTypeOK, SuccessWasApplied, [Next]_vars
               PROVE  SuccessWasApplied'
    OBVIOUS
  <2> USE DEF SuccessWasApplied
  <2>1. CASE UNCHANGED << applied, record >>
    BY <2>1
  <2>2. ASSUME NEW m \in wire, Execute(m)
        PROVE  SuccessWasApplied'
    <3>1. applied' = applied \union {m.op}
      BY <2>2 DEF Execute
    <3>2. CASE UNCHANGED << pc, op, record >>
      BY <3>1, <3>2
    <3>3. ASSUME NEW r \in Resources, op[r] = m.op, Succeed(r)
          PROVE  SuccessWasApplied'
      <4>1. \A q \in Resources \ {r} : record'[q] = record[q]
        BY <3>3 DEF Succeed
      <4>2. record'[r] = IF op[r].kind = "clear" THEN Missing
              ELSE [mode |-> op[r].kind, grants |-> op[r].grants, id |-> op[r].id]
        BY <3>3 DEF Succeed, PolicyTypeOK
      <4>3. op[r] \in applied'
        BY <3>1, <3>3
      <4> QED
        BY <3>1, <4>1, <4>2, <4>3
    <3> QED
      BY <2>2, <3>2, <3>3 DEF Execute
  <2>3. ASSUME NEW r \in Resources, Refresh(r)
        PROVE  SuccessWasApplied'
    <3>1. /\ record[r] # Missing /\ UNCHANGED applied
          /\ record' = [record EXCEPT ![r] =
               [mode |-> "unknown", grants |-> grants, id |-> record[r].id]]
      BY <2>3 DEF Refresh, service
    <3>2. \A q \in Resources \ {r} : record'[q] = record[q]
      BY <3>1
    <3>3. record'[r].mode = "unknown" /\ record'[r].id = record[r].id
      BY <3>1 DEF PolicyTypeOK
    <3> QED
      BY <3>1, <3>2, <3>3
  <2> QED
    BY <2>1, <2>2, <2>3 DEF Next, Handle, Declare, Delete, Begin, Read, Refused, GiveUp, Fail,
       Change, Fault, vars, service, counters
<1> QED
  BY <1>1, <1>2, PolicyTypeCorrect, PTL DEF Spec

(***************************************************************************)
(* The frames of a chat stream.  The parser knows nothing of the sender    *)
(* but its bytes.  The inductive invariant says that its registers         *)
(* nevertheless follow the sender's state: the buffer is the message so    *)
(* far, the depth the number of brackets open, the two flags where in a    *)
(* string the sender is.                                                   *)
(***************************************************************************)

Messages == Seq(Seq(Bytes))

\* The variables keep their types.
FramesTypeOK ==
  /\ open \in Seq({"}", "]"}) /\ text \in {"no", "yes", "escaped"}
  /\ message \in Seq(Bytes) /\ sent \in Messages
  /\ buf \in Seq(Bytes) /\ depth \in Nat
  /\ inString \in BOOLEAN /\ escaped \in BOOLEAN /\ started \in BOOLEAN
  /\ overflowed \in BOOLEAN
  /\ out \in Messages /\ delivered \in Messages

\* The parser's registers are the sender's state.
Follows ==
  /\ buf = message /\ Len(buf) <= MaxFrame
  /\ depth = Len(open)
  /\ (inString <=> text # "no") /\ (escaped <=> text = "escaped")
  /\ started <=> open # <<>>
  /\ open = <<>> => message = <<>> /\ text = "no"
  /\ delivered \o out = sent

\* Past the limit it has let go: what was delivered begins what was sent.
Stopped ==
  /\ Len(buf) <= MaxFrame + 1
  /\ out = <<>>
  /\ IsPrefix(delivered, sent)

FramesInv == IF overflowed THEN Stopped ELSE Follows

-----------------------------------------------------------------------------
(* Prefixes and last elements of sequences.                                 *)

\* A sequence begins what it is continued to.
LEMMA PrefixOfConcat ==
  ASSUME NEW S, NEW s \in Seq(S), NEW t \in Seq(S) PROVE IsPrefix(s, s \o t)
<1>1. SubSeq(s \o t, 1, Len(s)) = s
  BY SubSeqOfConcat1, SubSeqFull, LenProperties, ConcatProperties
<1>2. SubSeq(s, 1, Len(s)) = s
  BY SubSeqFull
<1> QED
  BY <1>1, <1>2, ConcatProperties, LenProperties DEF IsPrefix

\* What begins a sequence begins it when it grows.
LEMMA PrefixOfAppend ==
  ASSUME NEW S, NEW s \in Seq(S), NEW t \in Seq(S), NEW e \in S, IsPrefix(s, t)
  PROVE  IsPrefix(s, Append(t, e))
<1>1. Len(s) \in Nat /\ Len(t) \in Nat /\ Len(s) <= Len(t)
  BY LenProperties DEF IsPrefix
<1>2. SubSeq(Append(t, e), 1, Len(s)) = SubSeq(t, 1, Len(s))
  BY <1>1, AppendProperties
<1> QED
  BY <1>1, <1>2, AppendProperties DEF IsPrefix

\* Only the empty sequence has no elements.
LEMMA EmptyLen ==
  ASSUME NEW S, NEW s \in Seq(S) PROVE (s = <<>>) = (Len(s) = 0)
BY EmptySeq, LenProperties

\* The numbers less one that the depths need.
LEMMA LessOne ==
  ASSUME NEW n \in Nat, n # 0
  PROVE  /\ n > 0 /\ n - 1 \in Nat /\ n - 1 \in Int
         /\ (IF 1 <= n - 1 THEN (n - 1) - 1 + 1 ELSE 0) = n - 1
OBVIOUS

\* The depth stays a natural number.
LEMMA DepthNat == ASSUME depth \in Nat, NEW byte PROVE DepthAfter(byte) \in Nat
<1>1. depth + 1 \in Nat
  OBVIOUS
<1>2. depth > 0 => depth - 1 \in Nat
  OBVIOUS
<1> QED
  BY <1>1, <1>2, Zenon DEF DepthAfter

\* Closing a bracket leaves one open less.
LEMMA FrontLen ==
  ASSUME NEW S, NEW s \in Seq(S), s # <<>>
  PROVE  Front(s) \in Seq(S) /\ Len(Front(s)) = Len(s) - 1
<1>1. Len(s) \in Nat /\ Len(s) # 0
  BY EmptyLen, LenProperties
<1>2. \A i \in 1 .. Len(s) - 1 : s[i] \in S
  BY <1>1, ElementOfSeq
<1>3. Len(s) - 1 \in Int
  BY <1>1, LessOne, Zenon
<1>4. /\ SubSeq(s, 1, Len(s) - 1) \in Seq(S)
      /\ Len(SubSeq(s, 1, Len(s) - 1))
           = IF 1 <= Len(s) - 1 THEN (Len(s) - 1) - 1 + 1 ELSE 0
  BY <1>2, <1>3, SubSeqProperties
<1>5. (IF 1 <= Len(s) - 1 THEN (Len(s) - 1) - 1 + 1 ELSE 0) = Len(s) - 1
  BY <1>1, LessOne, Zenon
<1>6. Front(s) = SubSeq(s, 1, Len(s) - 1)
  BY DEF Front
<1> QED
  BY <1>4, <1>5, <1>6, Zenon

\* Opening a bracket leaves one more.
LEMMA AppendLen ==
  \A S : \A s \in Seq(S), e \in S : Len(Append(s, e)) = Len(s) + 1 /\ Append(s, e) # <<>>
BY AppendProperties

\* Adding a message to what is returned adds it to what is sent.
LEMMA AppendOfConcat ==
  ASSUME NEW S, NEW s \in Seq(S), NEW t \in Seq(S), NEW e \in S
  PROVE  s \o Append(t, e) = Append(s \o t, e)
OBVIOUS

\* The same, with the messages named.
LEMMA AppendMessage ==
  \A s, t \in Seq(Seq(Bytes)), e \in Seq(Bytes) : s \o Append(t, e) = Append(s \o t, e)
BY AppendOfConcat

\* The empty buffer is within every limit.
LEMMA EmptyFits == Len(<<>>) <= MaxFrame
<1>1. 0 <= MaxFrame
  BY FrameAssumption
<1>2. Len(<<>>) = 0
  OBVIOUS
<1> QED
  BY <1>1, <1>2, Zenon

-----------------------------------------------------------------------------
\* Before the first byte both are between two messages.
LEMMA InitFrames == FramesInit => FramesTypeOK /\ FramesInv
<1> SUFFICES ASSUME FramesInit PROVE FramesTypeOK /\ FramesInv
  OBVIOUS
<1>1. FramesTypeOK
  BY EmptySeq DEF FramesInit, FramesTypeOK, Messages
<1>2. Follows /\ ~overflowed
  <2>1. Len(<<>>) = 0 /\ <<>> \o <<>> = <<>>
    OBVIOUS
  <2> QED
    BY <2>1, FrameAssumption DEF FramesInit, Follows
<1> QED
  BY <1>1, <1>2 DEF FramesInv

\* What a byte makes of the sender.
LEMMA SendTyped ==
  ASSUME FramesTypeOK, NEW byte \in Bytes, Send(byte)
  PROVE  /\ open' \in Seq({"}", "]"}) /\ text' \in {"no", "yes", "escaped"}
         /\ message' \in Seq(Bytes) /\ sent' \in Messages
         /\ sent' = sent \/ \E bytes \in Seq(Bytes) : sent' = Append(sent, bytes)
<1> USE DEF FramesTypeOK, Messages
<1>1. text' \in {"no", "yes", "escaped"}
  BY DEF Send, TextAfter
<1>2. open' \in Seq({"}", "]"})
  <2>1. CASE open' = open
    BY <2>1
  <2>2. CASE open' = Append(open, Closer(byte))
    BY <2>2, AppendProperties DEF Closer
  <2>3. CASE open' = Front(open) /\ open # <<>>
    BY <2>3, FrontLen
  <2> QED
    BY <2>1, <2>2, <2>3 DEF Send, OpenAfter, Legal
<1>3. Append(message, byte) \in Seq(Bytes)
  BY AppendProperties
<1>4. message' \in Seq(Bytes)
  BY <1>3, EmptySeq DEF Send
<1>5. sent' = sent \/ \E bytes \in Seq(Bytes) : sent' = Append(sent, bytes)
  BY <1>3 DEF Send
<1>6. sent' \in Messages
  <2>1. \A bytes \in Seq(Bytes) : Append(sent, bytes) \in Seq(Seq(Bytes))
    BY AppendProperties
  <2> QED
    BY <1>5, <2>1, Zenon
<1> QED
  BY <1>1, <1>2, <1>4, <1>5, <1>6

\* A prefix of what was sent stays one.
LEMMA SendKeepsPrefix ==
  ASSUME FramesTypeOK, NEW byte \in Bytes, Send(byte), IsPrefix(delivered, sent)
  PROVE  IsPrefix(delivered, sent')
<1>1. delivered \in Messages /\ sent \in Messages
  BY DEF FramesTypeOK
<1>2. CASE sent' = sent
  BY <1>2
<1>3. ASSUME NEW bytes \in Seq(Bytes), sent' = Append(sent, bytes)
      PROVE  IsPrefix(delivered, sent')
  BY <1>1, <1>3, PrefixOfAppend DEF Messages
<1> QED
  BY <1>2, <1>3, SendTyped

\* A byte leaves the parser's registers their types.
LEMMA PushTyped ==
  ASSUME FramesTypeOK, NEW byte \in Bytes, Push(byte)
  PROVE  /\ buf' \in Seq(Bytes) /\ depth' \in Nat
         /\ inString' \in BOOLEAN /\ escaped' \in BOOLEAN /\ started' \in BOOLEAN
         /\ overflowed' \in BOOLEAN /\ out' \in Messages
<1> USE DEF FramesTypeOK, Messages
<1>1. Append(buf, byte) \in Seq(Bytes)
  BY AppendProperties
<1>2. CASE Skip
  BY <1>2 DEF Skip, parser
<1>3. CASE Overflow(Append(buf, byte))
  BY <1>1, <1>3, EmptySeq DEF Overflow
<1>4. CASE InString(byte, Append(buf, byte))
  BY <1>1, <1>4 DEF InString
<1>5. CASE Structure(byte, Append(buf, byte))
  <2>1. depth' \in Nat
    <3>1. DepthAfter(byte) \in Nat
      BY DepthNat
    <3> QED
      BY <1>5, <3>1 DEF Structure
  <2>2. out' \in Messages /\ buf' \in Seq(Bytes)
    BY <1>1, <1>5, EmptySeq, AppendProperties DEF Structure
  <2> QED
    BY <1>5, <2>1, <2>2 DEF Structure
<1> QED
  BY <1>2, <1>3, <1>4, <1>5 DEF Push

-----------------------------------------------------------------------------
(* The registers follow the sender, byte by byte.                           *)

\* Between two messages nothing happens to either.
LEMMA FollowsOutside ==
  ASSUME FramesTypeOK, Follows, NEW byte \in Bytes, Receive(byte), ~overflowed,
         ~started, byte # "{"
  PROVE  Follows' /\ ~overflowed'
<1>1. open = <<>> /\ text = "no" /\ Skip
  BY DEF Follows, Receive, Push
<1>2. open' = open /\ text' = text /\ message' = message /\ sent' = sent
  BY <1>1 DEF Receive, Send, Legal, OpenAfter, TextAfter
<1> QED
  BY <1>1, <1>2 DEF Follows, Skip, parser, Receive

\* In a string only the flags change.
LEMMA FollowsInString ==
  ASSUME FramesTypeOK, Follows, NEW byte \in Bytes, Receive(byte),
         InString(byte, Append(buf, byte)), inString, ~overflowed,
         Len(Append(buf, byte)) <= MaxFrame
  PROVE  Follows' /\ ~overflowed'
<1>1. text # "no" /\ open # <<>>
  BY DEF Follows
<1>2. open' = open /\ message' = Append(message, byte) /\ sent' = sent
  BY <1>1 DEF Receive, Send, OpenAfter
<1>3. (inString' <=> text' # "no") /\ (escaped' <=> text' = "escaped")
  BY <1>1 DEF Follows, Receive, Send, TextAfter, InString, FramesTypeOK
<1> QED
  BY <1>1, <1>2, <1>3 DEF Follows, InString, Receive

\* Outside strings the depth changes with the brackets; the value is whole when the
\* last of them is closed.
LEMMA FollowsStructure ==
  ASSUME FramesTypeOK, Follows, NEW byte \in Bytes, Receive(byte),
         Structure(byte, Append(buf, byte)), ~inString, ~overflowed,
         started \/ byte = "{", Len(Append(buf, byte)) <= MaxFrame
  PROVE  Follows' /\ ~overflowed'
<1> DEFINE bytes == Append(message, byte)
<1>1. text = "no" /\ ~escaped /\ Append(buf, byte) = bytes
  BY DEF Follows
<1>2. depth = Len(open) /\ depth \in Nat /\ (open = <<>>) = (depth = 0)
  BY EmptyLen DEF Follows, FramesTypeOK
<1>3. text' = (IF byte = "quote" THEN "yes" ELSE "no")
  BY <1>1 DEF Receive, Send, TextAfter
<1>4. (inString' <=> text' # "no") /\ (escaped' <=> text' = "escaped")
  BY <1>1, <1>3 DEF Structure
<1>5. CASE byte \in {"{", "["}
  <2>1. open' = Append(open, Closer(byte))
    BY <1>1, <1>5, <1>2 DEF Receive, Send, OpenAfter, Follows
  <2>2. open' # <<>> /\ Len(open') = Len(open) + 1
    <3>1. Closer(byte) \in {"}", "]"} /\ open \in Seq({"}", "]"})
      BY DEF Closer, FramesTypeOK
    <3>2. Len(Append(open, Closer(byte))) = Len(open) + 1
      BY <3>1, AppendLen, Zenon
    <3>3. Append(open, Closer(byte)) # <<>>
      BY <3>1, AppendLen, Zenon
    <3> QED
      BY <2>1, <3>2, <3>3, Zenon
  <2>3. message' = bytes /\ sent' = sent
    BY <1>5, <2>2 DEF Receive, Send, Follows
  <2>4. depth' = depth + 1 /\ buf' = bytes /\ out' = out /\ started' /\ ~overflowed'
    BY <1>1, <1>5, <1>2 DEF Structure, DepthAfter
  <2> QED
    BY <1>1, <1>2, <1>4, <2>2, <2>3, <2>4 DEF Follows, Receive
<1>6. CASE byte \in {"}", "]"}
  <2>1. open # <<>>
    BY <1>6 DEF Follows
  <2>2. open' = Front(open)
    BY <1>1, <1>6, <2>1 DEF Receive, Send, OpenAfter
  <2>3. Len(open') = depth - 1 /\ open' \in Seq({"}", "]"})
    BY <2>1, <2>2, <1>2, FrontLen DEF FramesTypeOK
  <2>4. depth' = depth - 1
    <3>1. depth \in Nat /\ depth > 0
      BY <1>2, <2>1, LessOne, Zenon
    <3>2. DepthAfter(byte) = depth - 1
      BY <1>6, <3>1 DEF DepthAfter
    <3> QED
      BY <3>2 DEF Structure
  <2>5. (open' = <<>>) = (depth' = 0)
    BY <2>3, <2>4, EmptyLen
  <2>6. message' = (IF depth' = 0 THEN <<>> ELSE bytes)
    BY <2>1, <2>5 DEF Receive, Send
  <2>7. buf' = message' /\ (started' <=> open' # <<>>) /\ ~overflowed'
    BY <1>1, <1>6, <2>4, <2>5, <2>6 DEF Structure
  <2>8. delivered' \o out' = sent'
    <3>1. CASE depth' = 0 /\ IsJson(bytes)
      <4>1. sent' = Append(sent, bytes) /\ out' = Append(out, bytes)
        BY <1>1, <1>6, <2>1, <2>4, <2>5, <3>1 DEF Receive, Send, Structure
      <4>2. bytes \in Seq(Bytes)
        BY AppendProperties DEF FramesTypeOK
      <4>3. delivered \o Append(out, bytes) = Append(delivered \o out, bytes)
        <5>1. out \in Seq(Seq(Bytes)) /\ delivered \in Seq(Seq(Bytes))
          BY DEF FramesTypeOK, Messages
        <5> QED
          BY <4>2, <5>1, AppendMessage, Zenon
      <4> QED
        BY <4>1, <4>3 DEF Follows, Receive
    <3>2. CASE ~(depth' = 0 /\ IsJson(bytes))
      <4>1. sent' = sent /\ out' = out
        BY <1>1, <1>6, <2>1, <2>4, <2>5, <3>2 DEF Receive, Send, Structure
      <4> QED
        BY <4>1 DEF Follows, Receive
    <3> QED
      BY <3>1, <3>2
  <2>9. Len(buf') <= MaxFrame
    <3>1. Len(<<>>) <= MaxFrame
      BY EmptyFits
    <3>2. Len(bytes) <= MaxFrame
      BY <1>1, Zenon
    <3> QED
      BY <2>6, <2>7, <3>1, <3>2, Zenon
  <2> QED
    BY <1>3, <1>4, <1>6, <2>3, <2>4, <2>5, <2>6, <2>7, <2>8, <2>9 DEF Follows
<1>7. CASE byte \notin {"{", "[", "}", "]"}
  <2>1. open # <<>>
    BY <1>7 DEF Follows
  <2>2. open' = open /\ message' = bytes /\ sent' = sent
    BY <1>7, <2>1 DEF Receive, Send, OpenAfter
  <2>3. depth' = depth /\ buf' = bytes /\ out' = out /\ started' /\ ~overflowed'
    BY <1>1, <1>7 DEF Structure, DepthAfter
  <2> QED
    BY <1>1, <1>2, <1>4, <2>1, <2>2, <2>3 DEF Follows, Receive
<1> QED
  BY <1>5, <1>6, <1>7

-----------------------------------------------------------------------------
\* Whatever the byte, the parser follows or has stopped.
LEMMA ReceiveStep ==
  ASSUME FramesTypeOK, FramesInv, NEW byte \in Bytes, Receive(byte)
  PROVE  FramesTypeOK' /\ FramesInv'
<1>1. Send(byte) /\ Push(byte) /\ delivered' = delivered
  BY DEF Receive
<1>2. FramesTypeOK'
  BY <1>1, SendTyped, PushTyped DEF FramesTypeOK
<1>3. CASE overflowed
  <2>1. Stopped /\ Skip
    BY <1>1, <1>3 DEF FramesInv, Push
  <2>2. IsPrefix(delivered', sent')
    BY <1>1, <2>1, SendKeepsPrefix DEF Stopped
  <2> QED
    BY <1>2, <1>3, <2>1, <2>2 DEF FramesInv, Stopped, Skip, parser
<1>4. CASE ~overflowed /\ ~started /\ byte # "{"
  BY <1>2, <1>4, FollowsOutside DEF FramesInv
<1>5. CASE ~overflowed /\ (started \/ byte = "{") /\ Len(Append(buf, byte)) > MaxFrame
  <2>1. Follows /\ Overflow(Append(buf, byte))
    BY <1>1, <1>5 DEF FramesInv, Push
  <2>2. Len(buf') <= MaxFrame + 1
    <3>1. Len(Append(buf, byte)) = Len(buf) + 1 /\ Len(buf) \in Nat
      BY AppendProperties, LenProperties DEF FramesTypeOK
    <3> QED
      BY <2>1, <3>1, FrameAssumption DEF Overflow, Follows
  <2>3. IsPrefix(delivered, sent)
    BY <2>1, PrefixOfConcat DEF Follows, FramesTypeOK, Messages
  <2>4. IsPrefix(delivered', sent')
    BY <1>1, <2>3, SendKeepsPrefix
  <2> QED
    BY <1>2, <2>1, <2>2, <2>4 DEF FramesInv, Stopped, Overflow
<1>6. CASE ~overflowed /\ (started \/ byte = "{") /\ ~(Len(Append(buf, byte)) > MaxFrame)
  <2>1. Follows
    BY <1>6 DEF FramesInv
  <2>2. Len(Append(buf, byte)) <= MaxFrame
    <3>1. Len(Append(buf, byte)) \in Nat
      BY AppendProperties, LenProperties DEF FramesTypeOK
    <3>2. \A n \in Nat : n > MaxFrame \/ n <= MaxFrame
      BY FrameAssumption
    <3> QED
      BY <1>6, <3>1, <3>2, Zenon
  <2>3. CASE inString
    BY <1>1, <1>2, <1>6, <2>1, <2>2, <2>3, FollowsInString DEF Push, FramesInv
  <2>4. CASE ~inString
    BY <1>1, <1>2, <1>6, <2>1, <2>2, <2>4, FollowsStructure DEF Push, FramesInv
  <2> QED
    BY <2>3, <2>4
<1> QED
  BY <1>3, <1>4, <1>5, <1>6

\* The end of a chunk only hands over what is complete.
LEMMA EndChunkStep ==
  ASSUME FramesTypeOK, FramesInv, EndChunk PROVE FramesTypeOK' /\ FramesInv'
<1>1. FramesTypeOK'
  BY EmptySeq, ConcatProperties DEF FramesTypeOK, Messages, EndChunk, sender
<1>2. Follows /\ ~overflowed
  BY DEF FramesInv, Stopped, EndChunk
<1>3. delivered' \o out' = sent'
  <2>1. (delivered \o out) \o <<>> = delivered \o out
    <3>1. out \in Seq(Seq(Bytes)) /\ delivered \in Seq(Seq(Bytes))
      BY DEF FramesTypeOK, Messages
    <3>2. delivered \o out \in Seq(Seq(Bytes))
      BY <3>1, ConcatProperties, Zenon
    <3> QED
      BY <3>2, ConcatEmptySeq, Zenon
  <2> QED
    BY <1>2, <2>1 DEF EndChunk, Follows, sender
<1> QED
  BY <1>1, <1>2, <1>3 DEF FramesInv, Follows, EndChunk, sender

\* The invariant is inductive.
LEMMA FramesStep ==
  FramesTypeOK /\ FramesInv /\ [FramesNext]_frameVars => FramesTypeOK' /\ FramesInv'
<1> SUFFICES ASSUME FramesTypeOK, FramesInv, [FramesNext]_frameVars
             PROVE  FramesTypeOK' /\ FramesInv'
  OBVIOUS
<1>1. CASE EndChunk
  BY <1>1, EndChunkStep
<1>2. ASSUME NEW byte \in Bytes, Receive(byte) PROVE FramesTypeOK' /\ FramesInv'
  BY <1>2, ReceiveStep
<1>3. CASE UNCHANGED frameVars
  BY <1>3 DEF frameVars, sender, parser, FramesTypeOK, FramesInv, Follows, Stopped
<1> QED
  BY <1>1, <1>2, <1>3 DEF FramesNext

\* Messages come out whole, once and in order, however long they are, wherever the
\* stream is cut and whatever the limit is.
THEOREM FramesAreWhole == FramesSpec => []FramesWhole
<1>1. FramesTypeOK /\ FramesInv => FramesWhole
  <2> SUFFICES ASSUME FramesTypeOK, FramesInv PROVE FramesWhole
    OBVIOUS
  <2>1. Len(buf) \in Nat /\ MaxFrame \in Nat
    BY FrameAssumption, LenProperties DEF FramesTypeOK
  <2>2. CASE overflowed
    BY <2>2 DEF FramesInv, Stopped, FramesWhole
  <2>3. CASE ~overflowed
    BY <2>1, <2>3 DEF FramesInv, Follows, FramesWhole, MidValue
  <2> QED
    BY <2>2, <2>3 DEF FramesTypeOK
<1> QED
  BY <1>1, InitFrames, FramesStep, PTL DEF FramesSpec
==============================================================================
