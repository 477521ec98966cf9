------------------------------ MODULE MCTexts ------------------------------
(* The texts the provider reads and writes are independent of each other:   *)
(* each behaviour is one of a stream of a chat, of a model's text, of its   *)
(* options or of the SQL of a snapshot.                                     *)
EXTENDS ChatFrames, ModelText, ModelOptions, SnapshotHistory

CONSTANT notGiven

VARIABLE part
texts == <<part, frameVars, textVars, optionVars, historyVars>>

MCIsJson(bytes) == "bad" \notin ToSet(bytes)

-----------------------------------------------------------------------------
MCWired == "a" :> "table" @@ "e" :> "ephemeral"
MCNames == STRING
MCProjects == {
  [sources |-> [s |-> {"t"}], models |-> <<"a", "e", "w">>, macros |-> <<"m", "n">>,
   vars |-> [x |-> Plain("v"), r |-> Template("ref", "a", <<>>)]],
  [sources |-> [s |-> {}], models |-> <<"a">>, macros |-> <<>>, vars |-> <<>>] }

Macro(name, params, body) == [name |-> name, params |-> params, body |-> body]
Param == Template("param", "p", <<>>)
Loose == Template("param", "q", <<>>)
MCMacroSets == {
  {},
  { Macro("m", <<"p">>, <<Param, Template("ref", "a", <<>>), Param>>),
    Macro("n", <<"p">>, <<Template("call", "m", <<Param>>), Template("call", "m", <<Loose>>)>>),
    Macro("k", <<>>, <<Template("ref", "z", <<>>)>>),
    Macro("loop", <<>>, <<Template("call", "loop", <<>>)>>) },
  { Macro("source", <<>>, <<Plain("z")>>) } }

Var(of, braced) == Piece("var", of, <<>>, braced)
MCAlphabet == {
  Plain("select"), Plain("__dbt__cte__"), Plain("NUL"), Template("this", "this", <<>>),
  Var("x", TRUE), Var("x", FALSE), Var("r", FALSE), Var("u", TRUE),
  Piece("builtin", "now", <<>>, FALSE), Piece("builtin", "now", <<>>, TRUE),
  Template("ref", "a", <<>>), Template("ref", "e", <<>>), Template("ref", "z", <<>>),
  Template("ref", "w", <<>>),
  Template("source", "s", <<Plain("t")>>), Template("source", "s", <<Plain("q")>>),
  Template("config", "materialized", <<>>), Template("config", "none", <<>>),
  Template("call", "m", <<Var("x", FALSE)>>), Template("call", "m", <<>>),
  Template("call", "n", <<Plain("y")>>), Template("call", "k", <<>>), Template("call", "loop", <<>>),
  Tag("if"), Tag("endif"), Tag("raw"), Tag("endraw") }

\* A template in a raw region is encoded to more than twice its length.
MCOversized(s) ==
  FoldLeft(LAMBDA n, p : n + (IF p.raw /\ p.braced THEN 9 ELSE Weight(p)), 0, s) > 10

-----------------------------------------------------------------------------
Written == {
  <<>>,
  [description |-> "a"],
  [description |-> "b", labels_k |-> "l"],
  [require_partition_filter |-> "true", description |-> "a"],
  [partition_expiration_days |-> "7"],
  [partition_expiration_days |-> "unreadable", labels_k |-> "l"],
  [enable_refresh |-> "true", refresh_interval_minutes |-> "30"],
  [refresh_interval_minutes |-> "30"] }
Config(block, mat, keys, strategy, partition, clusters, written) ==
  [block |-> block, mat |-> mat, keys |-> keys, strategy |-> strategy,
   partition |-> partition, clusters |-> clusters, options |-> written]
Configs ==
  {Config("none", "table", {}, notGiven, notGiven, 0, <<>>),
   Config("bare", "table", {}, notGiven, notGiven, 0, [description |-> "a"])}
  \cup {Config("materialized", mat, keys, strategy, partition, clusters, written) :
          mat \in {"table", "view", "materialized_view", "incremental", "ephemeral", "other"},
          keys \in {{}, {"k"}}, strategy \in {notGiven, "append", "delete+insert", "other"},
          partition \in {notGiven, "", "d"}, clusters \in {0, 5}, written \in Written}
MCDeclarations == [config : Configs, yaml : Written \cup {notGiven}, tableId : BOOLEAN]

-----------------------------------------------------------------------------
TextsInit ==
  /\ part \in {"chat", "text", "options", "history"}
  /\ FramesInit /\ TextInit
  /\ IF part = "options" THEN OptionsInit
     ELSE model = notGiven /\ phase = "declared" /\ statement = notGiven
  /\ HistoryInit /\ (part # "history" => hard = FALSE /\ source = [key \in Keys |-> 0])

TextsNext ==
  \/ part = "chat" /\ FramesNext /\ UNCHANGED <<part, textVars, optionVars, historyVars>>
  \/ part = "text" /\ TextNext /\ UNCHANGED <<part, frameVars, optionVars, historyVars>>
  \/ part = "options" /\ OptionsNext /\ UNCHANGED <<part, frameVars, textVars, historyVars>>
  \/ part = "history" /\ HistoryNext /\ UNCHANGED <<part, frameVars, textVars, optionVars>>

TextsSpec == TextsInit /\ [][TextsNext]_texts
=============================================================================
