----------------------------- MODULE DbtModels -----------------------------
(***************************************************************************)
(* dbt models (gcpx-dbt): a stack declares models whose SQL refers to      *)
(* other models; the handlers resolve the references, create or replace    *)
(* one BigQuery table or view per model, and return an output from which   *)
(* the models that refer to it are resolved in turn.                       *)
(*                                                                         *)
(* The Pulumi engine and BigQuery are external.  The engine handles a      *)
(* model when those it refers to are done, independent models at the same  *)
(* time, starts nothing more after a failure, and deletes what the stack   *)
(* no longer declares last, dependents first.  A model's name decides its  *)
(* table, so renaming one is declaring another.                            *)
(***************************************************************************)
EXTENDS Naturals, SequencesExt

CONSTANTS
  Models,      \* the names of models
  Sqls,        \* their texts, macros expanded; each selects columns of its own
  Managed,     \* the models declared with a tableId: a Table resource owns theirs
  Stacks,      \* what a user may deploy: functions from models to declarations
  MaxDeploys,  \* bound on the deploys
  MaxFaults,   \* bound on refused calls, lost answers, outlived calls and crashes
  Missing      \* stands for a table, a record or a list of columns that is not there

Materializations == {"table", "view", "materialized_view", "incremental", "ephemeral"}
Declarations == [mat : Materializations, sql : Sqls, refs : Seq(Models)]

ASSUME DbtAssumption ==
  /\ IsFiniteSet(Models) /\ Managed \subseteq Models
  /\ \A s \in Stacks :
       /\ DOMAIN s \subseteq Models
       /\ \A m \in DOMAIN s : s[m] \in Declarations /\ ToSet(s[m].refs) \subseteq DOMAIN s
  /\ {MaxDeploys, MaxFaults} \subseteq Nat
  /\ Missing \notin Sqls

VARIABLES
  live,      \* BigQuery: the table or view under each model's name, or Missing
  jobs,      \* BigQuery: statements still running although their call has returned
  recorded,  \* the engine: each model's inputs and output, or Missing
  stack,     \* the engine: the stack being deployed, or the last one
  pc,        \* where each model is in the deploy
  columns,   \* what get_table_schema has answered for each model
  outcome,   \* how the last deploy ended: "none", "ok" or "failed"
  spoilt,    \* whether the deploy has met a fault or a statement of an earlier one
  clean,     \* how often in a row the stack has failed without one
  stray,     \* history: models whose table may differ from what is recorded
  deploys,
  faults

service == << live, jobs >>
counters == << deploys, faults >>
vars == << service, recorded, stack, pc, columns, outcome, spoilt, clean, stray, counters >>

\* "waiting" and "condemned" have not begun; "schema", "ddl", "dryRun" and "answer"
\* are the calls of create and update.
Active == {"schema", "ddl", "dryRun", "answer"}
Points == {"idle", "waiting", "condemned", "done", "failed"} \union Active

Idle == \A m \in Models : pc[m] = "idle"

-----------------------------------------------------------------------------
\* resolve: references to ephemeral models become CTEs, the others tables.

Names(ctes) == { ctes[i].name : i \in DOMAIN ctes }

\* A CTE that is there already is not added again.
Bring(ctes, c) == IF c.name \in Names(ctes) THEN ctes ELSE Append(ctes, c)

\* Mutant of Inline: a CTE comes before those it reads.
InlineFirst(ctes, m, output) ==
  IF m \in Names(ctes) THEN ctes
  ELSE FoldLeft(Bring, Append(ctes, [name |-> m, body |-> output.body]), output.ctes)

\* An ephemeral model brings the CTEs it reads and then, without looking again whether
\* one of them has its name, itself.
Inline(ctes, m, output) ==
  IF m \in Names(ctes) THEN ctes
  ELSE Append(FoldLeft(Bring, ctes, output.ctes), [name |-> m, body |-> output.body])

Inlined(d) == { r \in ToSet(d.refs) : recorded[r].output.mat = "ephemeral" }

Resolve(d) ==
  [ctes |-> FoldLeft(LAMBDA ctes, r : IF r \in Inlined(d)
                                        THEN Inline(ctes, r, recorded[r].output) ELSE ctes,
                     << >>, d.refs),
   body |-> [sql |-> d.sql, ctes |-> Inlined(d),
             tables |-> ToSet(d.refs) \ Inlined(d)]]

\* The tables a resolved query reads.
Reads(q) == q.body.tables \union UNION { q.ctes[i].body.tables : i \in DOMAIN q.ctes }

\* Mutant of Differs: what the model refers to is not compared.
DiffersInSql(old, d) == old.sql # d.sql \/ old.mat # d.mat

\* diff_dbt_model: of the references their tables' names are compared, of the context
\* the project and the dataset.
Differs(old, d) ==
  old.sql # d.sql \/ old.mat # d.mat \/ ToSet(old.refs) # ToSet(d.refs)

-----------------------------------------------------------------------------
\* generate_ddl and generate_merge_replace_ddl, as what they make of the table.

Kind(mat) == IF mat \in {"table", "incremental"} THEN "table" ELSE mat

\* Mutant of HasStatement: a tableId makes no difference to an incremental model.
HasStatementAlways(m, mat) == mat # "ephemeral"

\* A model without a table sends nothing, nor does an incremental one with a tableId.
HasStatement(m, mat) == mat # "ephemeral" /\ ~(m \in Managed /\ mat = "incremental")

\* A MERGE replaces the rows of a managed table.
Merges(m, mat) == m \in Managed /\ mat = "table"

\* Mutant of Replaces: CREATE VIEW without OR REPLACE.
ReplacesTables(mat) == mat \in {"table", "incremental"}

\* CREATE OR REPLACE; CREATE MATERIALIZED VIEW does not replace.
Replaces(mat) == mat \in {"table", "incremental", "view"}

\* A WITH clause defines a name once.
Distinct(q) == \A i, k \in DOMAIN q.ctes : q.ctes[i].name = q.ctes[k].name => i = k

\* BigQuery executes the statement of j = [model, mat, query].
Possible(j) ==
  LET old == live[j.model] IN
  /\ Distinct(j.query)
  /\ \A t \in Reads(j.query) : live[t] # Missing
  /\ IF Merges(j.model, j.mat)
       THEN old # Missing /\ old.kind = "table" /\ old.cols = j.query.body.sql
       ELSE old # Missing => Replaces(j.mat) /\ old.kind = Kind(j.mat)

Execute(j) ==
  /\ Possible(j)
  /\ live' = [live EXCEPT ![j.model] =
       [kind |-> Kind(j.mat), cols |-> j.query.body.sql, query |-> j.query,
        own |-> ~Merges(j.model, j.mat)]]

\* m, unless a statement of its own still runs.
Settled(m) == IF \E j \in jobs : j.model = m THEN {} ELSE {m}

-----------------------------------------------------------------------------
\* The tables the Table resources own are there, and nothing else.
Init ==
  /\ live \in [Models -> {Missing} \union
                 [kind : {"table"}, cols : Sqls, query : {Missing}, own : {FALSE}]]
  /\ \A m \in Models : live[m] # Missing <=> m \in Managed
  /\ jobs = {}
  /\ recorded = [m \in Models |-> Missing]
  /\ stack = << >>
  /\ pc = [m \in Models |-> "idle"]
  /\ columns = [m \in Models |-> Missing]
  /\ outcome = "none" /\ spoilt = FALSE /\ clean = 0
  /\ stray = {}
  /\ deploys = 0 /\ faults = 0

Fault == faults < MaxFaults /\ faults' = faults + 1 /\ spoilt' = TRUE /\ UNCHANGED deploys
NoFault == UNCHANGED << counters, spoilt >>

Goto(m, to) == pc' = [pc EXCEPT ![m] = to]

Deploy(s) ==
  /\ Idle /\ deploys < MaxDeploys
  /\ DOMAIN s # {} \/ \E m \in Models : recorded[m] # Missing
  /\ deploys' = deploys + 1
  /\ stack' = s
  /\ clean' = IF s = stack THEN clean ELSE 0
  /\ pc' = [m \in Models |-> IF m \in DOMAIN s THEN "waiting"
                             ELSE IF recorded[m] # Missing THEN "condemned" ELSE "idle"]
  /\ spoilt' = (jobs # {})
  /\ UNCHANGED << service, recorded, columns, outcome, stray, faults >>

\* check_dbt_model and diff_dbt_model.  Without a difference the engine stores the new
\* inputs and the model keeps its output.
Begin(m) ==
  LET d == stack[m] IN
  /\ pc[m] = "waiting"
  /\ \A r \in ToSet(d.refs) : pc[r] = "done"
  /\ \A n \in Models : pc[n] # "failed"
  /\ IF recorded[m] # Missing /\ ~Differs(recorded[m].inputs, d)
       THEN Goto(m, "done") /\ recorded' = [recorded EXCEPT ![m].inputs = d]
       ELSE /\ Goto(m, IF d.mat = "incremental" THEN "schema" ELSE "ddl")
            /\ UNCHANGED recorded
  /\ NoFault
  /\ UNCHANGED << service, stack, columns, outcome, clean, stray >>

\* get_table_schema, for the columns the MERGE updates: before the table is rebuilt.
\* Any error is taken for a table that does not exist yet.
GetColumns(m) ==
  /\ pc[m] = "schema" /\ Goto(m, "ddl")
  /\ \/ NoFault /\ columns' = [columns EXCEPT ![m] =
                     IF live[m] = Missing THEN Missing ELSE live[m].cols]
     \/ Fault /\ columns' = [columns EXCEPT ![m] = Missing]
  /\ UNCHANGED << service, recorded, stack, outcome, clean, stray >>

\* Mutant of ExecuteDdl: the error of a refused statement is not returned.
ExecuteDdlAnyway(m) ==
  LET d == stack[m]
      j == [model |-> m, mat |-> d.mat, query |-> Resolve(d)]
      next == IF d.mat = "incremental" /\ recorded[m] = Missing THEN "dryRun" ELSE "answer"
  IN
  /\ pc[m] = "ddl" /\ Goto(m, next)
  /\ \/ IF HasStatement(m, d.mat) /\ Possible(j)
          THEN Execute(j) /\ NoFault ELSE UNCHANGED live /\ NoFault
     \/ Fault /\ UNCHANGED live
  /\ UNCHANGED << jobs, recorded, stack, columns, outcome, clean, stray >>

\* execute_ddl, refused by BigQuery when it cannot be executed.  It returns success
\* although the statement is still running when that takes too long.
ExecuteDdl(m) ==
  LET d == stack[m]
      j == [model |-> m, mat |-> d.mat, query |-> Resolve(d)]
      next == IF d.mat = "incremental" /\ recorded[m] = Missing THEN "dryRun" ELSE "answer"
  IN
  /\ pc[m] = "ddl"
  /\ \/ /\ IF HasStatement(m, d.mat) THEN Execute(j) /\ stray' = stray \ Settled(m)
                                     ELSE UNCHANGED << live, stray >>
        /\ Goto(m, next) /\ NoFault /\ UNCHANGED jobs
     \/ /\ HasStatement(m, d.mat)
        /\ \/ ~Possible(j) /\ NoFault /\ Goto(m, "failed") /\ UNCHANGED << service, stray >>
           \/ Fault /\ Goto(m, "failed") /\ UNCHANGED << service, stray >>
           \/ /\ Fault /\ Goto(m, "failed")
              /\ Execute(j) /\ stray' = stray \union {m} /\ UNCHANGED jobs
           \/ /\ Fault /\ Goto(m, next)
              /\ jobs' = jobs \union {j} /\ stray' = stray \union {m} /\ UNCHANGED live
  /\ UNCHANGED << recorded, stack, columns, outcome, clean >>

\* The MERGE of an incremental model runs on its table: it inserts the columns of the
\* query and updates those it was given.
MergeRuns(m, sql, cols) ==
  live[m] # Missing /\ live[m].kind = "table" /\ live[m].cols = sql /\ cols \in {Missing, sql}

\* Those of the models S whose statement has been executed by now.
Made(S) == { m \in S : HasStatement(m, stack[m].mat) /\ pc[m] \in {"dryRun", "answer"} }

\* Mutant of DryRun: its verdict is ignored.
DryRunIgnored(m) ==
  /\ pc[m] = "dryRun"
  /\ NoFault /\ Goto(m, "answer") /\ UNCHANGED stray
  /\ UNCHANGED << service, recorded, stack, columns, outcome, clean >>

\* The dry run of the MERGE, by create only.  The table stays when it fails.
DryRun(m) ==
  /\ pc[m] = "dryRun"
  /\ \/ /\ MergeRuns(m, stack[m].sql, columns[m])
        /\ NoFault /\ Goto(m, "answer") /\ UNCHANGED stray
     \/ /\ Fault \/ (~MergeRuns(m, stack[m].sql, columns[m]) /\ NoFault)
        /\ Goto(m, "failed") /\ stray' = stray \union Made({m})
  /\ UNCHANGED << service, recorded, stack, columns, outcome, clean >>

\* The handler returns the output.  A model that has become ephemeral leaves its
\* table behind.
Answer(m) ==
  LET d == stack[m]
      q == Resolve(d)
  IN
  /\ pc[m] = "answer" /\ Goto(m, "done")
  /\ recorded' = [recorded EXCEPT ![m] =
       [inputs |-> d,
        output |-> [mat |-> d.mat, ctes |-> q.ctes, body |-> q.body,
                    merge |-> IF d.mat = "incremental" THEN columns[m] ELSE Missing],
        tested |-> d.mat = "incremental" /\ recorded[m] = Missing]]
  /\ columns' = [columns EXCEPT ![m] = Missing]
  /\ stray' = stray \union
       IF d.mat = "ephemeral" /\ live[m] # Missing THEN {m} ELSE {}
  /\ NoFault
  /\ UNCHANGED << service, stack, outcome, clean >>

\* Mutant of Drops: the declaration of a tableId is not looked at.
DropsAny(m) == recorded[m].output.mat # "ephemeral"

\* delete_dbt_model drops the table unless there is none or it is not the model's.  "Already
\* gone" is success.
Drops(m) == recorded[m].output.mat # "ephemeral" /\ m \notin Managed

\* Mutant of Delete: the error of delete_table is swallowed.
DeleteSwallows(m) ==
  /\ pc[m] = "condemned"
  /\ \A n \in Models : pc[n] \in {"idle", "done", "condemned"}
  /\ \A n \in Models : pc[n] = "condemned" => m \notin ToSet(recorded[n].inputs.refs)
  /\ \/ Drops(m) /\ live' = [live EXCEPT ![m] = Missing] /\ NoFault
     \/ Drops(m) /\ Fault /\ UNCHANGED live
     \/ ~Drops(m) /\ UNCHANGED live /\ NoFault
  /\ recorded' = [recorded EXCEPT ![m] = Missing] /\ Goto(m, "idle")
  /\ UNCHANGED << jobs, stack, columns, outcome, clean, stray >>

Delete(m) ==
  /\ pc[m] = "condemned"
  /\ \A n \in Models : pc[n] \in {"idle", "done", "condemned"}
  /\ \A n \in Models : pc[n] = "condemned" => m \notin ToSet(recorded[n].inputs.refs)
  /\ \/ /\ live' = IF Drops(m) THEN [live EXCEPT ![m] = Missing] ELSE live
        /\ recorded' = [recorded EXCEPT ![m] = Missing]
        /\ stray' = IF Drops(m) THEN stray \ Settled(m) ELSE stray
        /\ Goto(m, "idle") /\ NoFault
     \/ /\ Drops(m) /\ Fault /\ Goto(m, "failed") /\ UNCHANGED recorded
        /\ \/ UNCHANGED << live, stray >>
           \/ live' = [live EXCEPT ![m] = Missing] /\ stray' = stray \union {m}
  /\ UNCHANGED << jobs, stack, columns, outcome, clean >>

Succeeded == \A m \in Models : pc[m] \in {"idle", "done"}
Failed == \E m \in Models : pc[m] = "failed"

\* The engine ends the deploy: all is done, or something failed and nothing is running.
End ==
  /\ ~Idle
  /\ \A m \in Models : pc[m] \notin Active
  /\ Succeeded \/ Failed
  /\ pc' = [m \in Models |-> "idle"]
  /\ outcome' = IF Failed THEN "failed" ELSE "ok"
  /\ clean' = IF Failed /\ ~spoilt THEN clean + 1 ELSE 0
  /\ spoilt' = FALSE
  /\ columns' = [m \in Models |-> Missing]
  /\ UNCHANGED << service, recorded, stack, stray, counters >>

\* The plugin dies: what it was doing fails, and a table made but not yet recorded stays.
Crash ==
  /\ \E m \in Models : pc[m] \in Active
  /\ Fault
  /\ pc' = [m \in Models |-> IF pc[m] \in Active THEN "failed" ELSE pc[m]]
  /\ stray' = stray \union Made({ m \in Models : pc[m] \in Active })
  /\ UNCHANGED << service, recorded, stack, columns, outcome, clean >>

\* A statement that outlived its call ends, or fails.
Finish(j) ==
  /\ j \in jobs /\ jobs' = jobs \ {j}
  /\ \/ Execute(j)
     \/ UNCHANGED live
  /\ stray' = stray \union {j.model}
  /\ NoFault
  /\ UNCHANGED << recorded, stack, pc, columns, outcome, clean >>

\* read_dbt_model: any error of get_table means that the table is gone, and the engine
\* forgets the model.
Refresh(m) ==
  /\ Idle /\ recorded[m] # Missing /\ recorded[m].output.mat # "ephemeral"
  /\ recorded' = [recorded EXCEPT ![m] = Missing]
  /\ \/ live[m] = Missing /\ NoFault /\ UNCHANGED << stray, spoilt >>
     \/ Fault /\ stray' = stray \union {m}
  /\ outcome' = "none" /\ clean' = 0
  /\ UNCHANGED << service, stack, pc, columns >>

Handle(m) ==
  Begin(m) \/ GetColumns(m) \/ ExecuteDdl(m) \/ DryRun(m) \/ Answer(m) \/ Delete(m)

Next ==
  \/ \E s \in Stacks : Deploy(s)
  \/ \E m \in Models : Handle(m) \/ Refresh(m)
  \/ \E j \in jobs : Finish(j)
  \/ End \/ Crash
  \/ Idle /\ deploys = MaxDeploys /\ UNCHANGED vars

Spec == Init /\ [][Next]_vars

-----------------------------------------------------------------------------
\* A query defines the CTEs it reads, and each of them after those it reads itself.
Ordered(q) ==
  /\ q.body.ctes \subseteq Names(q.ctes)
  /\ \A i \in DOMAIN q.ctes :
       q.ctes[i].body.ctes \subseteq { q.ctes[k].name : k \in 1..(i - 1) }

\* However models are changed between ephemeral and not, and reach an ephemeral one on
\* several ways, the queries that are recorded, that BigQuery was given and that still
\* run read no CTE before its definition (resolver.rs:47-75).
CtesClosed ==
  /\ \A m \in Models :
       /\ recorded[m] # Missing => Ordered(recorded[m].output)
       /\ live[m] # Missing /\ live[m].query # Missing => Ordered(live[m].query)
  /\ \A j \in jobs : Ordered(j.query)

\* A model is built when the tables it refers to are there: "a model cannot be built
\* before the models it references exist" (lib.rs:9-12), as long as nothing has
\* happened to those tables behind the record.
RefsExist ==
  \A m \in Models : pc[m] = "ddl" /\ HasStatement(m, stack[m].mat) /\ Inlined(stack[m]) = {} =>
    \A t \in ToSet(stack[m].refs) \ stray : live[t] # Missing

\* The table of m is of the kind d asks for and, when no CTE has a part in it, made
\* from the text of d.
Fits(m, d) ==
  HasStatement(m, d.mat) =>
    /\ live[m] # Missing /\ live[m].kind = Kind(d.mat)
    /\ live[m].query.ctes = << >> => /\ live[m].query.body.sql = d.sql
                                     /\ live[m].query.body.tables = ToSet(d.refs)

\* After a successful deploy the models it declares have the tables it asks for, also
\* those it found nothing to do for: an earlier failure has left no other text or kind
\* behind.  Of tables with a CTE only the kind is meant (handlers.rs:400-445).
UpToDate ==
  Idle /\ outcome = "ok" => \A m \in DOMAIN stack \ stray : Fits(m, stack[m])

\* Between deploys no table is left that nobody knows of: whatever failed, a model that
\* is not recorded, or recorded as ephemeral, has none (handlers.rs:1052-1115).
NoOrphans ==
  Idle => \A m \in Models \ (Managed \union stray) :
    recorded[m] = Missing \/ recorded[m].output.mat = "ephemeral" => live[m] = Missing

\* A stack that the tables do not stand in the way of: of the same kind, there when
\* they are recorded, of the same columns when they are managed.
Unobstructed ==
  \A m \in DOMAIN stack :
    /\ ToSet(stack[m].refs) \subseteq { r \in DOMAIN stack : stack[r].mat # "ephemeral" }
    /\ live[m] # Missing => live[m].kind = Kind(stack[m].mat)
    /\ recorded[m] # Missing /\ recorded[m].output.mat # "ephemeral" => live[m] # Missing
    /\ m \in Managed => stack[m].mat \in {"table", "incremental"} /\ live[m].cols = stack[m].sql

Incremental == { m \in DOMAIN stack : stack[m].mat = "incremental" }
Materialized == { m \in DOMAIN stack : stack[m].mat = "materialized_view" }

\* Whatever earlier deploys left half done, deploying a stack again puts it right: it
\* fails without a fault at most once for each incremental model, whose MERGE was
\* built from the columns of a table that was replaced since.  Materialized views
\* are excused (handlers.rs:470-620, resolver.rs:121-178).
Converges ==
  Idle /\ outcome = "failed" /\ Unobstructed /\ Materialized = {} =>
    clean <= Cardinality(Incremental)

\* The MERGE that a create returns, for a schedule to run, runs on the table it made
\* ("MERGE SQL validation failed (would fail at scheduler runtime)", handlers.rs:622-640).
MergeMatches ==
  \A m \in Models \ stray :
    pc[m] \in {"idle", "done"} /\ recorded[m] # Missing /\ recorded[m].tested =>
      MergeRuns(m, recorded[m].output.body.sql, recorded[m].output.merge)

\* A table that a Table resource owns is neither dropped nor replaced by the model that
\* fills it, its partitioning and columns stay (handlers.rs:509-517, 1067-1074).
ManagedKept == \A m \in Managed : live[m] # Missing /\ ~live[m].own

\* The references are compared "on the parts that mean something" (handlers.rs:406-407),
\* and a model "Always replaces on any change." (schema.json:1066): after a successful
\* deploy a model inlines what is recorded of the ephemeral ones.
InlinesCurrent ==
  Idle /\ outcome = "ok" =>
    \A m \in DOMAIN stack \ stray : HasStatement(m, stack[m].mat) =>
      live[m].query.ctes = Resolve(stack[m]).ctes

=============================================================================
