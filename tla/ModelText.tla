----------------------------- MODULE ModelText -----------------------------
(***************************************************************************)
(* The text of a dbt model (gcpx-dbt): what check_dbt_model accepts and    *)
(* what create_dbt_model makes of it, in one rewriting of the whole text   *)
(* after another: raw regions set aside, blocks, {{ this }}, variables,    *)
(* builtins, macros, references, raw regions put back.                     *)
(*                                                                         *)
(* A text is a sequence of pieces.  A template is one piece, braced when   *)
(* it stands in {{ }}; a tag {% %} is one piece.  Spelling, white space    *)
(* and quoting are left out.                                               *)
(***************************************************************************)
EXTENDS Naturals, Sequences, SequencesExt, FiniteSetsExt

CONSTANTS
  Projects,       \* what a user may declare of a project
  MacroSets,      \* and of macros: sets of [name, params, body]
  Self,           \* the name of the model
  Wired,          \* modelRefs of the model: names to materializations
  Names,          \* what pieces are called
  Alphabet,       \* the pieces a text is made of
  MaxWeight,      \* bound on the text: a tag weighs 1, any other piece 2
  MaxIterations,  \* rounds of macro expansion: 10 in the code
  Oversized(_)    \* whether a text is longer than MAX_INPUT_SIZE, 1 MiB in the code

VARIABLES
  context,        \* what the project has published, <<>> before
  macros,         \* what the macros have published: names to [params, body]
  sql             \* the text of the model

textVars == <<context, macros, sql>>

Kinds == {"text", "tag", "this", "var", "builtin", "config", "ref", "source", "call", "param"}
Made == {"table", "cte", "error"}
Piece(kind, of, args, braced) ==
  [kind |-> kind, of |-> of, args |-> args, braced |-> braced, raw |-> FALSE]
Plain(of) == Piece("text", of, <<>>, FALSE)
Tag(of) == Piece("tag", of, <<>>, FALSE)
Template(kind, of, args) == Piece(kind, of, args, TRUE)

\* The argument of a call is text, or a call that is replaced where it stands; it may
\* become whatever a variable stands for.  In the body of a macro it may be a parameter.
Arguments == [kind : Kinds \ {"config", "ref", "source", "call"}, of : Names, args : {<<>>},
              braced : BOOLEAN, raw : {FALSE}]
Pieces == [kind : Kinds \cup Made, of : Names, args : Seq(Arguments),
           braced : BOOLEAN, raw : BOOLEAN]

\* What an author writes.
Authored ==
  { p \in Pieces : /\ p.kind \in Kinds /\ ~p.raw
                   /\ p.kind \in {"text", "tag"} => ~p.braced
                   /\ p.kind \in {"config", "ref", "source", "call"} => p.braced
                   /\ p.kind = "source" => Len(p.args) = 1 /\ p.args[1].kind = "text"
                   /\ p.kind \notin {"source", "call"} => p.args = <<>>
                   /\ \A i \in DOMAIN p.args :
                        p.args[i].kind \in {"text", "var", "builtin"} /\ ~p.args[i].braced }

\* And what makes the body of a macro: {{ inner('{{ p }}') }} hands a parameter on.
Bodies ==
  Authored \cup
  { p \in Pieces : /\ p.kind = "call" /\ p.braced /\ ~p.raw
                   /\ \A i \in DOMAIN p.args :
                        IF p.args[i].braced THEN p.args[i].kind = "param"
                        ELSE p.args[i].kind \in {"text", "var", "builtin"} }

ASSUME TextAssumption ==
  /\ MaxIterations \in Nat \ {0}
  /\ {"error", "this", "{{", "NUL", "CURRENT_TIMESTAMP", "CURRENT_TIMESTAMP()"} \subseteq Names
  /\ Alphabet \subseteq Authored
  /\ \A p \in Projects : \A x \in DOMAIN p.vars : p.vars[x] \in Authored
  /\ \A ms \in MacroSets : \A m \in ms :
       m.params \in Seq(Names) /\ m.body \in Seq(Bodies) /\ m.name # "{{"

\* Whatever makes a stage return an error.
Error == Piece("error", "error", <<>>, FALSE)
Fails(s) == Error \in ToSet(s)

\* The pieces of a text and their arguments.
Uses(s) == UNION {{s[i]} \cup ToSet(s[i].args) : i \in DOMAIN s}

\* A stage that looks at each piece, but at none of those set aside.
Each(s, Stage(_)) ==
  FlattenSeq([i \in DOMAIN s |-> IF s[i].raw THEN <<s[i]>> ELSE Stage(s[i])])

-----------------------------------------------------------------------------
(* Tags.                                                                    *)

IsTag(p, tag) == p.kind = "tag" /\ p.of = tag /\ ~p.raw
First(s, tag) == SelectInSeq(s, LAMBDA p : IsTag(p, tag))

\* One more piece: held is what has come since an opening tag, with the tag.
Cut(acc, p, opening, closing, body) ==
  IF acc.held = <<>> THEN
    IF IsTag(p, opening) THEN [acc EXCEPT !.held = <<p>>]
    ELSE [acc EXCEPT !.out = Append(@, p)]
  ELSE IF IsTag(p, closing) THEN
    [out |-> acc.out \o FlattenSeq([i \in DOMAIN Tail(acc.held) |-> body[Tail(acc.held)[i]]]),
     held |-> <<>>]
  ELSE [acc EXCEPT !.held = Append(@, p)]

\* The blocks between two tags, their pieces replaced as body says and the tags gone;
\* what is not closed is no block.
InBlocks(s, opening, closing, body) ==
  LET read == FoldLeft(LAMBDA acc, p : Cut(acc, p, opening, closing, body),
                       [out |-> <<>>, held |-> <<>>], s)
  IN  read.out \o read.held

Marked(p) == [p EXCEPT !.raw = TRUE]
\* The code keeps its marks of a raw region apart with NUL, and refuses a text with one.
HasNul(s) == \E p \in Uses(s) : p.kind = "text" /\ p.of = "NUL"
ProtectRaw(s) ==
  IF HasNul(s) THEN <<Error>> ELSE InBlocks(s, "raw", "endraw", [p \in Pieces |-> <<Marked(p)>>])
RestoreRaw(s) == [i \in DOMAIN s |-> [s[i] EXCEPT !.raw = FALSE]]

\* {% if is_incremental() %}: kept or dropped, the tags go either way.
IncrementalBlocks(s, keep) ==
  InBlocks(s, "if", "endif", [p \in Pieces |-> IF keep THEN <<p>> ELSE <<>>])

EntirelyRaw(s) ==
  /\ s # <<>> /\ IsTag(s[1], "raw")
  /\ First(Tail(s), "endraw") # 0 /\ First(Tail(s), "endraw") = Len(s) - 1

-----------------------------------------------------------------------------
(* preprocess.                                                              *)

This(p) ==
  IF p.kind = "this" /\ p.braced THEN <<Piece("table", "this", <<>>, FALSE)>> ELSE <<p>>
ReplaceThis(s) == Each(s, This)

\* The braces around var('x') stay around its value; around a template that is
\* a call nobody knows.
ValueOf(p) ==
  IF p.of \notin DOMAIN context.vars THEN Error
  ELSE LET value == context.vars[p.of] IN
       IF p.braced /\ value.braced THEN Template("call", "{{", <<>>)
       ELSE [value EXCEPT !.braced = p.braced \/ value.braced]

\* A template among the arguments of a call: its end is taken for the call's.
Nested(args) == \E i \in DOMAIN args : args[i].braced

\* A variable is replaced wherever it stands, in the arguments of a call too; with a
\* template there it is some other call (the properties leave those out).
Filled(args) == [i \in DOMAIN args |-> IF args[i].kind = "var" THEN ValueOf(args[i]) ELSE args[i]]
Valued(p) ==
  IF p.kind = "var" THEN ValueOf(p)
  ELSE IF Fails(Filled(p.args)) THEN Error
  ELSE IF Nested(Filled(p.args)) THEN Template("call", "{{", <<>>)
  ELSE [p EXCEPT !.args = Filled(@)]
ExpandVars(s) == Each(s, LAMBDA p : <<Valued(p)>>)

\* dbt_utils.*: replaced where it stands; between braces it is a call again.
Now == Plain("CURRENT_TIMESTAMP()")
Timed(args) == [i \in DOMAIN args |-> IF args[i].kind = "builtin" THEN Now ELSE args[i]]
Built(p) ==
  IF p.kind # "builtin" THEN [p EXCEPT !.args = Timed(@)]
  ELSE IF p.braced THEN Template("call", "CURRENT_TIMESTAMP", <<>>)
  ELSE Now
ExpandBuiltins(s) == Each(s, LAMBDA p : <<Built(p)>>)

\* Mutant of Preprocess: the blocks are found before the raw regions.
PreprocessBlocksFirst(s, keep) ==
  ExpandBuiltins(ExpandVars(ReplaceThis(ProtectRaw(IncrementalBlocks(s, keep)))))

Preprocess(s, keep) ==
  ExpandBuiltins(ExpandVars(ReplaceThis(IncrementalBlocks(ProtectRaw(s), keep))))

-----------------------------------------------------------------------------
(* The scanner's segments, expand_macros and resolve.                       *)

\* What is not config, ref, source or a call loses its braces; so does a call that was
\* given a parameter of no macro, {{ f('{{ q }}: no call, as it does not end in ).
Scanned(p) ==
  IF p.kind = "call" /\ Nested(p.args) THEN Plain("{{")
  ELSE IF p.kind \in {"config", "ref", "source", "call", "var", "builtin"} THEN p
  ELSE [p EXCEPT !.braced = FALSE]

IsCall(p) == p.kind = "call" /\ p.of \in DOMAIN macros /\ ~Nested(p.args) /\ ~p.raw

\* substitute_args: {{ p }} in the body, and in the arguments of a call in it.
Position(params, p) ==
  SelectInSeq(params, LAMBDA param : p.kind = "param" /\ p.braced /\ param = p.of)
Put(params, args, p) ==
  IF Position(params, p) = 0 THEN p ELSE args[Position(params, p)]
Handed(params, args, p) ==
  [p EXCEPT !.args = [j \in DOMAIN @ |-> Put(params, args, @[j])]]
Substituted(macro, args) ==
  [i \in DOMAIN macro.body |->
     Handed(macro.params, args, Put(macro.params, args, macro.body[i]))]

Expanded(p) ==
  LET macro == macros[p.of] IN
  IF Len(p.args) # Len(macro.params) THEN <<Error>> ELSE Substituted(macro, p.args)

Calls(s) == {i \in DOMAIN s : IsCall(s[i])}
Unfolded(p) == IF IsCall(p) THEN Expanded(p) ELSE <<Scanned(p)>>
Round(s) == Each(s, Unfolded)

\* The last round has to find no call; one that changes nothing ends the code's loop.
Grown(s, n) == FoldLeft(LAMBDA t, k : Round(t), s, [k \in 1..n |-> k])
Rounds(s) ==
  LET last == Grown(s, MaxIterations - 1)
  IN  IF Calls(last) = {} THEN Round(last) ELSE <<Error>>

\* The length counts before the first round, with macros or without, and after every
\* round that expanded a call.
TooLong(s) ==
  \/ Oversized(s)
  \/ \E n \in 1..(MaxIterations - 1) : Calls(Grown(s, n - 1)) # {} /\ Oversized(Grown(s, n))

ExpandMacros(s) ==
  IF TooLong(s) THEN <<Error>> ELSE IF DOMAIN macros = {} THEN s ELSE Rounds(s)

\* A reference to an ephemeral model is the name of its CTE.
Reference(p) ==
  IF p.of \notin DOMAIN Wired THEN <<Error>>
  ELSE IF Wired[p.of] = "ephemeral" THEN <<Piece("cte", p.of, <<>>, FALSE)>>
  ELSE <<Piece("table", p.of, <<>>, FALSE)>>

\* Only the source has to be known here, not the table.
SourceTable(p) ==
  IF p.of \notin DOMAIN context.sources THEN <<Error>>
  ELSE <<Piece("table", p.of, p.args, FALSE)>>

Resolved(p) ==
  CASE p.kind = "config" -> <<>>
    [] p.kind = "ref" -> Reference(p)
    [] p.kind = "source" -> SourceTable(p)
    [] OTHER -> <<Scanned(p)>>

\* create_dbt_model: the query of the statement, or an error.
Created(s, keep) ==
  LET expanded == ExpandMacros(Preprocess(s, keep))
      resolved == Each(expanded, Resolved)
  IN  IF Fails(resolved) THEN <<Error>> ELSE RestoreRaw(resolved)

-----------------------------------------------------------------------------
(* check_dbt_project, check_dbt_macro and check_dbt_model.                  *)

Reserved == {"config", "ref", "source"}

ValidProject(p) ==
  /\ \A s \in DOMAIN p.sources : p.sources[s] # {}
  /\ IsInjective(p.models) /\ IsInjective(p.macros)
  /\ ToSet(p.macros) \cap (Reserved \cup ToSet(p.models)) = {}

ValidMacro(m) ==
  /\ m.body # <<>> /\ m.name \notin Reserved
  /\ IsInjective(m.params) /\ ToSet(m.params) \cap Reserved = {}

\* A call the preprocessing resolves needs no macro.
Known(p) ==
  CASE p.kind = "ref" -> p.of \in ToSet(context.models) /\ p.of \in DOMAIN Wired
    [] p.kind = "source" -> /\ p.of \in DOMAIN context.sources
                            /\ p.args[1].of \in context.sources[p.of]
    [] p.kind = "call" -> p.of \in DOMAIN macros
    [] p.kind = "text" -> p.of # "__dbt__cte__"
    [] OTHER -> TRUE

\* At most one config block, and it says how the model is materialized.
ConfigHolds(s) ==
  LET configs == SelectSeq(s, LAMBDA p : p.kind = "config")
  IN  Len(configs) <= 1 /\ \A i \in DOMAIN configs : configs[i].of = "materialized"

\* Mutant of Accepted: the text is scanned as it is written.
AcceptedUnexpanded(s) ==
  /\ s # <<>> /\ ~EntirelyRaw(s)
  /\ ConfigHolds(s) /\ \A i \in DOMAIN s : Known(s[i])

\* The macros are expanded first; the text is the one written, raw regions included.
Accepted(s) ==
  LET expanded == ExpandMacros(s)
  IN  /\ s # <<>> /\ ~EntirelyRaw(s)
      /\ context.models # <<>> => Self \in ToSet(context.models)
      /\ ~Fails(expanded)
      /\ ConfigHolds(expanded) /\ \A i \in DOMAIN expanded : Known(expanded[i])

-----------------------------------------------------------------------------
(* A project and macros are deployed, then a model is written.              *)

TextInit == context = <<>> /\ macros = <<>> /\ sql = <<>>

\* create_dbt_project: the context, for the models that are given it.
DeployProject(p) ==
  /\ context = <<>> /\ ValidProject(p)
  /\ context' = [sources |-> p.sources, models |-> p.models, vars |-> p.vars]
  /\ UNCHANGED <<macros, sql>>

\* create_dbt_macro: name, arguments and text as they were given.
DeployMacros(ms) ==
  /\ macros = <<>> /\ sql = <<>> /\ \A m \in ms : ValidMacro(m)
  /\ macros' = [name \in {m.name : m \in ms} |->
       LET m == CHOOSE d \in ms : d.name = name IN [params |-> m.params, body |-> m.body]]
  /\ UNCHANGED <<context, sql>>

Weight(p) == IF p.kind = "tag" THEN 1 ELSE 2

Write(p) ==
  /\ context # <<>>
  /\ FoldLeft(LAMBDA n, q : n + Weight(q), Weight(p), sql) <= MaxWeight
  /\ sql' = Append(sql, p)
  /\ UNCHANGED <<context, macros>>

TextNext ==
  \/ \E p \in Projects : DeployProject(p)
  \/ \E ms \in MacroSets : DeployMacros(ms)
  \/ \E p \in Alphabet : Write(p)

TextSpec == TextInit /\ [][TextNext]_textVars

-----------------------------------------------------------------------------
(* What the text means, place by place.                                     *)

\* Of the positions of tags: a block is open at i when an opening tag has come since
\* the last closing one, and it is one if it is closed in the end.
Entered(opening, closing, i) ==
  \E j \in opening : j < i /\ \A k \in closing : ~(j < k /\ k < i)
Closed(closing, i) == \E k \in closing : i < k
Within(opening, closing, i) ==
  Entered(opening, closing, i) /\ i \notin closing /\ Closed(closing, i)
Edge(opening, closing, i) ==
  \/ i \in closing /\ Entered(opening, closing, i)
  \/ i \in opening /\ ~Entered(opening, closing, i) /\ Closed(closing, i)

\* What a piece stands for, given what those it brings in stand for.
StandsFor(p, standing) ==
  CASE p.kind = "this" /\ p.braced -> <<Piece("table", "this", <<>>, FALSE)>>
    [] p.kind = "var" -> <<context.vars[p.of]>>
    [] p.kind = "builtin" -> <<Now>>
    [] IsCall(p) -> LET text == Expanded(p) IN FlattenSeq([i \in DOMAIN text |-> standing[text[i]]])
    [] OTHER -> Resolved(p)

\* What the pieces stand for whose calls are nested less than k deep.
Standing[k \in Nat] ==
  [p \in Pieces |-> IF k = 0 THEN <<Error>> ELSE StandsFor(p, Standing[k - 1])]

\* A raw region is its pieces as they are, a block is there or not, and what is
\* neither is what it stands for.
Meaning(s, keep) ==
  LET At(tag) == {i \in DOMAIN s : IsTag(s[i], tag)}
      Raw(i) == Within(At("raw"), At("endraw"), i)
      ifs == {i \in At("if") : ~Raw(i)}
      endifs == {i \in At("endif") : ~Raw(i)}
      Gone(i) == \/ Edge(At("raw"), At("endraw"), i) \/ Edge(ifs, endifs, i)
                 \/ ~keep /\ Within(ifs, endifs, i)
  IN  FlattenSeq([i \in DOMAIN s |->
                    IF Gone(i) THEN <<>> ELSE IF Raw(i) THEN <<s[i]>> ELSE Standing[MaxIterations][s[i]]])

\* Every variable is declared; and what it stands for is known by itself, and no
\* template where it is an argument.
VarsKnown(s) == \A p \in Uses(s) : p.kind = "var" => p.of \in DOMAIN context.vars
VarsResolve(s) ==
  /\ \A p \in Uses(s) : p.kind = "var" =>
       context.vars[p.of].kind # "call" /\ ~Fails(Resolved(context.vars[p.of]))
  /\ \A i \in DOMAIN s : \A p \in ToSet(s[i].args) : p.kind = "var" => ~context.vars[p.of].braced

\* What only create looks at: NUL, and the length of the text as it is after the
\* preprocessing, where the variables are replaced and the raw regions encoded.
Refused(s, keep) == HasNul(s) \/ TooLong(Preprocess(s, keep))

\* None is a template, no builtin stands between braces, and a macro uses neither,
\* nor {{ this }}: what becomes of those is not what they mean (see the README).
Ordinary(s) ==
  /\ \A p \in Uses(s) : p.kind = "var" => context.vars[p.of].kind = "text"
  /\ ~\E p \in Uses(s) : p.kind = "builtin" /\ p.braced
  /\ \A name \in DOMAIN macros : \A p \in Uses(macros[name].body) :
       p.kind \notin {"this", "var", "builtin"}

\* The query sent, if one is, is what the text means, whichever stage came first: a
\* raw region comes through untouched, a block is dropped or kept whole, and everything
\* else is replaced by what it stands for, once, in its place.
RendersAsMeant ==
  context # <<>> /\ Accepted(sql) /\ VarsKnown(sql) /\ Ordinary(sql) =>
    \A keep \in BOOLEAN : ~Refused(sql, keep) => Created(sql, keep) = Meaning(sql, keep)

\* What Check accepts, Create can resolve, but for NUL and for what has become too
\* long: every reference the text comes to contain was seen when the text was checked,
\* but for those of a variable.
AcceptedResolves ==
  context # <<>> /\ Accepted(sql) /\ VarsKnown(sql) /\ VarsResolve(sql)
    /\ "CURRENT_TIMESTAMP" \notin DOMAIN macros =>
    \A keep \in BOOLEAN : Fails(Created(sql, keep)) => Refused(sql, keep)
=============================================================================
