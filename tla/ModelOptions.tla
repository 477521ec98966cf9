---------------------------- MODULE ModelOptions ----------------------------
(***************************************************************************)
(* The options of a dbt model (gcpx-dbt): they are written in the config   *)
(* block of the SQL, in the YAML of the resource, or in both.  Check       *)
(* compares the two, puts the YAML in the place of the SQL's and validates *)
(* what results; create puts it in its place again and writes it into the  *)
(* statement that makes the table.                                         *)
(*                                                                         *)
(* Options are a function from their names to values; each label is an     *)
(* option of its own.                                                      *)
(***************************************************************************)
EXTENDS Naturals, Sequences, SequencesExt

CONSTANTS
  Declared,   \* what a user may declare: [config, yaml, tableId]
  NotGiven        \* stands for YAML options or a statement that are not there

\* A declaration has its fields.
ASSUME OptionsAssumption ==
  \A d \in Declared :
    /\ d = [config |-> d.config, yaml |-> d.yaml, tableId |-> d.tableId]
    /\ LET c == d.config
       IN  c = [block |-> c.block, mat |-> c.mat, keys |-> c.keys, strategy |-> c.strategy,
                partition |-> c.partition, clusters |-> c.clusters, options |-> c.options]

VARIABLES
  model,          \* what is declared
  phase,          \* "declared", "accepted", "rejected" or "created"
  statement       \* what create has sent

optionVars == <<model, phase, statement>>

-----------------------------------------------------------------------------
(* Reading the config block and the options property.                       *)

Numeric == {"partition_expiration_days", "refresh_interval_minutes"}

\* A number that does not parse is left out.
Readable(name, value) == name \in Numeric => value # "unreadable"
ReadOptions(written) ==
  [name \in {n \in DOMAIN written : Readable(n, written[n])} |-> written[name]]

\* extract_model_config: a model is a table unless the block says otherwise.
ExtractConfig(written) ==
  [written EXCEPT !.mat = IF written.block = "materialized" THEN @ ELSE "table",
                  !.options = ReadOptions(@)]

\* Mutant of SameOptions: an option only the SQL has is not compared.
SameWhereBoth(sql, yaml) ==
  \A name \in DOMAIN sql \cap DOMAIN yaml : yaml[name] = sql[name]

\* diff_options: what the SQL says, the YAML has to say too.
SameOptions(sql, yaml) ==
  \A name \in DOMAIN sql : name \in DOMAIN yaml /\ yaml[name] = sql[name]

\* override_options: the YAML is authoritative.
Effective(config, yaml) ==
  IF yaml = NotGiven THEN config ELSE [config EXCEPT !.options = yaml]

-----------------------------------------------------------------------------
(* validate_model, the part about the config block.                         *)

MaterializedAs == {"table", "view", "materialized_view", "ephemeral", "incremental"}
Strategies == {"merge", "delete+insert", "append"}

Is(options, name, value) == name \in DOMAIN options /\ options[name] = value

Partitions(config) ==
  /\ config.partition # ""
  /\ \/ config.partition # NotGiven
     \/ /\ ~Is(config.options, "require_partition_filter", "true")
        /\ "partition_expiration_days" \notin DOMAIN config.options

Refreshes(config) ==
  LET enabled == Is(config.options, "enable_refresh", "true")
  IN  /\ enabled => config.mat = "materialized_view"
      /\ "refresh_interval_minutes" \in DOMAIN config.options => enabled

\* Nothing is asked of a model without a block; a block has to say materialized.
ValidConfig(config) ==
  /\ config.block # "bare"
  /\ config.block = "materialized" =>
       /\ config.mat \in MaterializedAs
       /\ config.mat = "incremental" => config.keys # {}
       /\ config.strategy \in Strategies \cup {NotGiven}
       /\ config.clusters <= 4
       /\ Partitions(config) /\ Refreshes(config)

-----------------------------------------------------------------------------
OptionsInit ==
  /\ model \in Declared
  /\ phase = "declared" /\ statement = NotGiven

\* check_dbt_model: with a tableId another resource has the options.
Check ==
  LET config == ExtractConfig(model.config)
      effective == Effective(config, model.yaml)
  IN  /\ phase = "declared"
      /\ phase' = IF /\ model.yaml # NotGiven => SameOptions(config.options, model.yaml)
                     /\ ValidConfig(effective)
                     /\ model.tableId => DOMAIN effective.options = {}
                  THEN "accepted" ELSE "rejected"
      /\ UNCHANGED <<model, statement>>

\* The statement a schedule repeats; any other strategy merges as well.
Repeated(config, kind) ==
  IF config.mat # "incremental" THEN [kind |-> kind, keys |-> {}]
  ELSE IF config.strategy = "append" THEN [kind |-> "append", keys |-> {}]
  ELSE [kind |-> IF config.strategy = "delete+insert" THEN "delete+insert" ELSE "merge",
        keys |-> config.keys]

\* generate_ddl, or the MERGE into a table that is there already, or nothing.
StatementKind(config, tableId) ==
  CASE config.mat = "ephemeral" -> "none"
    [] config.mat = "table" -> IF tableId THEN "replaceRows" ELSE "table"
    [] config.mat = "incremental" -> IF tableId THEN "none" ELSE "table"
    [] config.mat \in {"view", "materialized_view"} -> config.mat
    [] OTHER -> "none"

\* to_ddl: an option is written as it was read, but for the days, which become
\* milliseconds under their old name.
Rendered(name, value) ==
  IF name = "partition_expiration_days" THEN "86400000 * " \o value ELSE value
ToDdl(options) == [name \in DOMAIN options |-> Rendered(name, options[name])]

\* create_dbt_model: only a table is partitioned and clustered.
Create ==
  LET config == Effective(ExtractConfig(model.config), model.yaml)
      kind == StatementKind(config, model.tableId)
  IN  /\ phase = "accepted" /\ phase' = "created"
      /\ statement' =
           [kind |-> kind,
            options |-> IF kind \in {"none", "replaceRows"} THEN <<>> ELSE ToDdl(config.options),
            partition |-> IF kind = "table" THEN config.partition ELSE NotGiven,
            clusters |-> IF kind = "table" THEN config.clusters ELSE 0,
            schedule |-> Repeated(config, kind)]
      /\ UNCHANGED model

OptionsNext == Check \/ Create

OptionsSpec == OptionsInit /\ [][OptionsNext]_optionVars

-----------------------------------------------------------------------------
\* Every option a user has written, in the SQL or in the YAML, is on the table with
\* the value written (as to_ddl renders it) and no other is: none is dropped and none
\* changed without a word, of two values neither wins silently.  An ephemeral model
\* has no table.
NoneDropped ==
  LET written == ReadOptions(model.config.options)
      applied == statement.options
      Held(options) == \A name \in DOMAIN options : Is(applied, name, Rendered(name, options[name]))
      source == IF model.yaml = NotGiven THEN written ELSE model.yaml
  IN  statement.kind \notin {"none", "replaceRows"} =>
        /\ Held(written) /\ Held(source)
        /\ \A name \in DOMAIN applied :
             name \in DOMAIN source /\ applied[name] = Rendered(name, source[name])

\* What is applied fits what the table is, whichever of the two it was written in:
\* validated and applied is the same.
FitsTable ==
  LET options == statement.options IN
  /\ statement.kind = "table" =>
       /\ Is(options, "require_partition_filter", "true") => statement.partition # NotGiven
       /\ "partition_expiration_days" \in DOMAIN options => statement.partition # NotGiven
  /\ Is(options, "enable_refresh", "true") => statement.kind = "materialized_view"
  /\ "refresh_interval_minutes" \in DOMAIN options => Is(options, "enable_refresh", "true")
  /\ statement.schedule.kind \in {"merge", "delete+insert"} => statement.schedule.keys # {}

\* What check accepts and create applies are the options the user wrote; where the
\* model has a config block, they fit the table.
OptionsHeld ==
  phase = "created" =>
    /\ NoneDropped
    /\ model.config.block = "materialized" => FitsTable
    /\ model.tableId => DOMAIN statement.options = {}
=============================================================================
