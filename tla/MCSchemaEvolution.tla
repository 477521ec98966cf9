-------------------------- MODULE MCSchemaEvolution --------------------------
(* Constants for model checking SchemaEvolution. *)
EXTENDS SchemaEvolution, TLC

CONSTANTS a, b, c, tmp, d1, d2

OneTemp == << tmp >>

Rank == (a :> 1) @@ (b :> 2) @@ (c :> 3)

\* Without a rename the source is not read: one value is enough.  A second
\* description is written for one column that stays, where a statement may come of it.
Written ==
  { f \in Fields : /\ f.alter # "rename" => f.from = f.name
                   /\ f.desc = d2 => f.alter = "none" /\ f.name = a }

\* Only the order of the renames among themselves matters (Script): they come last,
\* the other fields by name.
Ordered(p) ==
  \A i, j \in DOMAIN p : i < j =>
    /\ p[i].alter = "rename" => p[j].alter = "rename"
    /\ p[j].alter # "rename" => Rank[p[i].name] <= Rank[p[j].name]

\* Every list of fields that Check can accept, up to that order: of up to two, and
\* of three when each has an annotation of its own.
Annotations(p) == { f.alter : f \in ToSet(p) } \ {"none"}
AnyProgram ==
  { p \in SeqOf(Written, 3) :
      /\ Check(p, [ n \in Columns |-> d1 ]) /\ Ordered(p)
      /\ Len(p) = 3 => Cardinality(Annotations(p)) >= 2 }
\* Every name of a program has one role.
Tidy == { p \in AnyProgram : OneRole(p) }

\* A table of three columns, and the program that replaces one of two by the other.
Field(n, alter, from) == [name |-> n, alter |-> alter, from |-> from, desc |-> d1]
Replacement ==
  { << Field(a, "none", a), Field(b, "none", b), Field(c, "none", c) >>,
    << Field(c, "none", c), Field(b, "delete", b), Field(b, "rename", a) >> }

=============================================================================
