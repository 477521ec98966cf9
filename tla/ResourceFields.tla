--------------------------- MODULE ResourceFields ---------------------------
(***************************************************************************)
(* Property maps, as the handlers of all resources use them: a map is a    *)
(* function from field names to values, Absent for a field not given.      *)
(***************************************************************************)
EXTENDS FiniteSets, TLC

CONSTANT Absent

\* A request body of the given fields of p among fs.
Given(p, fs) == [f \in {g \in fs : p[g] # Absent} |-> p[f]]

\* A body and the fields that the path of its request carries.
WithPath(body, p, ids) ==
  [f \in DOMAIN body \cup ids |-> IF f \in DOMAIN body THEN body[f] ELSE p[f]]

\* The names among keys of the fields that differ between two maps.
DifferingFields(olds, news, keys) == {f \in keys : olds[f] # news[f]}

\* Lists and label maps are values; the empty one is Absent.
ListOf(v) == IF v = Absent THEN {} ELSE v

=============================================================================
