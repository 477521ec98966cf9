---------------------------- MODULE MCDbtModels ----------------------------
(* Constants for model checking DbtModels: a chain of three models with a   *)
(* shortcut from the last to the first, and what each of them may be.       *)
EXTENDS DbtModels

CONSTANTS raw, mid, top, s1, s2

Decl(mat, sql, refs) == [mat |-> mat, sql |-> sql, refs |-> refs]

View == Decl("view", s1, << raw >>)
Incrementals == { Decl("incremental", s1, << raw >>), Decl("incremental", s2, << >>) }
Table(refs) == Decl("table", s1, refs)
Inlining(sql, refs) == Decl("ephemeral", sql, refs)

Chain(R, M, T) == { (raw :> r) @@ (mid :> m) @@ (top :> t) : r \in R, m \in M, t \in T }

AllStacks ==
  Chain({Table(<< >>)}, Incrementals \union {View, Inlining(s1, << raw >>)},
        {Table(<< mid >>), Table(<< raw, mid >>), Decl("incremental", s1, << mid, raw >>)})
  \union Chain({Inlining(s1, << >>)}, {View, Inlining(s1, << raw >>)},
               {Table(<< mid >>), Table(<< raw, mid >>)})
  \union Chain({Table(<< >>)}, {Decl("materialized_view", s1, << raw >>)}, {Table(<< mid >>)})
  \union {(raw :> Table(<< >>)), << >>}

\* An ephemeral model and a table that inlines it.
Edited == { (raw :> Inlining(sql, << >>)) @@ (mid :> Table(<< raw >>)) : sql \in Sqls }

=============================================================================
