---------------------------- MODULE PolicyContract ----------------------------
(***************************************************************************)
(* What the resources of an agent's IAM policy promise together: every     *)
(* operation changes the policy in one step, as if it were alone, and at   *)
(* most once; other people change the policy as they like.                 *)
(***************************************************************************)
EXTENDS Naturals

CONSTANTS
  Grants,  \* the grants of a role to a member
  Ids      \* the names of operations

VARIABLES
  grants,     \* the grants in force
  performed,  \* the operations that have changed the policy
  edits       \* how often others have

Ops == [id : Ids, kind : {"add", "set", "clear"}, grants : SUBSET Grants]

Effect(op, held) ==
  IF op.kind = "add" THEN held \union op.grants
  ELSE IF op.kind = "set" THEN op.grants ELSE {}

Init == grants \in SUBSET Grants /\ performed = {} /\ edits = 0

Perform(op) ==
  /\ \A done \in performed : done.id # op.id
  /\ grants' = Effect(op, grants)
  /\ performed' = performed \union {op}
  /\ UNCHANGED edits

Others == edits' = edits + 1 /\ grants' \in SUBSET Grants /\ UNCHANGED performed

Next == (\E op \in Ops : Perform(op)) \/ Others

Spec == Init /\ [][Next]_<< grants, performed, edits >>

=============================================================================
