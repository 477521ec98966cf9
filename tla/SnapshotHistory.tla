-------------------------- MODULE SnapshotHistory --------------------------
(***************************************************************************)
(* What the statements of a Snapshot make of its table (gcpx-snapshot      *)
(* ddl.rs, workflow.rs): the history of a source whose rows change, kept   *)
(* by the executions of the scheduled workflow, each a sequence of         *)
(* statements with nothing around them.  The source changes at any time,   *)
(* an execution may be cut short, executions may overlap, and a statement  *)
(* may outlive its call and take effect when the next has run.             *)
(***************************************************************************)
EXTENDS Naturals, Sequences, SequencesExt

CONSTANTS
  Keys,         \* values of uniqueKey; a row of the source is its key and updatedAt
  Executions,   \* executions of the workflow that may overlap
  MaxClock      \* bound: changes of the source and executions

ASSUME HistoryAssumption == IsFiniteSet(Keys)

VARIABLES
  source,       \* updatedAt of the row with each key, 0 when there is none
  columns,      \* the columns of the source
  hard,         \* invalidateHardDeletes
  rows,         \* the versions in the snapshot table
  tableColumns, \* its columns; none before it is created
  clock,
  at,           \* the next statement of each execution, or "idle"
  late,         \* statements that have outlived their calls
  \* what the properties need to know of the past
  tainted,      \* executions between whose statements something else happened
  calm,         \* no execution so far was one of them
  settled       \* the last thing that happened is the end of one that was not

snapshot == <<rows, tableColumns>>
past == <<tainted, calm, settled>>
historyVars == <<source, columns, hard, snapshot, clock, at, late, past>>

Scd == <<"dbt_scd_id", "dbt_updated_at", "dbt_valid_from", "dbt_valid_to">>

HistoryInit ==
  /\ source \in [Keys -> {0, 1}] /\ columns = <<"id">>
  /\ hard \in BOOLEAN
  /\ rows = <<>> /\ tableColumns = <<>>
  /\ clock = 1
  /\ at = [e \in Executions |-> "idle"] /\ late = {}
  /\ tainted = {} /\ calm = TRUE /\ settled = FALSE

Running == {e \in Executions : at[e] # "idle"}

-----------------------------------------------------------------------------
(* The statements.  CURRENT_TIMESTAMP is the clock; a version with to = 0   *)
(* has no dbt_valid_to.                                                     *)

Open(row) == row.to = 0
Version(key) == [key |-> key, updatedAt |-> source[key], from |-> clock, to |-> 0]
Versions(keys) == [i \in DOMAIN keys |-> Version(keys[i])]
CloseWhere(Cond(_)) ==
  [i \in DOMAIN rows |-> IF Open(rows[i]) /\ Cond(rows[i]) THEN [rows[i] EXCEPT !.to = clock]
                                                           ELSE rows[i]]

Changed(row) == source[row.key] > row.updatedAt
Gone(row) == source[row.key] = 0

\* A row of the source is inserted once for each version it is joined with, and
\* once when there is none.
InsertFor(Joined(_)) ==
  LET matches(key) == {i \in DOMAIN rows : rows[i].key = key /\ Joined(rows[i])}
      news == UNION {IF matches(key) = {} THEN {<<key, 0>>}
                     ELSE {<<key, i>> : i \in {i \in matches(key) : Changed(rows[i])}} :
                       key \in {key \in Keys : source[key] # 0}}
      keys == SetToSeq(news)
  IN  rows \o Versions([i \in DOMAIN keys |-> keys[i][1]])

InsertedBesideClosed == LET any(row) == TRUE IN InsertFor(any)
Inserted == InsertFor(Open)

\* INSERT has no list of columns: they go by position.
ColumnsFit == tableColumns = columns \o Scd

Result(statement) ==
  CASE statement = "invalidateChanged" -> CloseWhere(Changed)
    [] statement = "insertNewVersions" -> Inserted
    [] statement = "invalidateHardDeletes" -> CloseWhere(Gone)

Executes(statement) == statement = "insertNewVersions" => ColumnsFit

\* What follows it in the workflow.
Following(statement) ==
  CASE statement = "invalidateChanged" -> "insertNewVersions"
    [] statement = "insertNewVersions" /\ hard -> "invalidateHardDeletes"
    [] OTHER -> "idle"

-----------------------------------------------------------------------------
\* Whatever happens comes between the statements of the executions of others.
Intrudes(others) ==
  /\ tainted' = tainted \cup others
  /\ calm' = (calm /\ others = {})

CreateTable ==
  /\ tableColumns = <<>>
  /\ tableColumns' = columns \o Scd
  /\ rows' = Versions(SetToSeq({key \in Keys : source[key] # 0}))
  /\ UNCHANGED <<source, columns, hard, clock, at, late, past>>

\* update_snapshot, after the fingerprint of the source's schema has changed: one
\* ALTER TABLE for each column that the table has not, in the source's order.
Adapt ==
  /\ tableColumns # <<>>
  /\ \E i \in DOMAIN columns :
       /\ columns[i] \notin ToSet(tableColumns)
       /\ \A j \in 1..(i - 1) : columns[j] \in ToSet(tableColumns)
       /\ tableColumns' = Append(tableColumns, columns[i])
  /\ UNCHANGED <<source, columns, hard, rows, clock, at, late, past>>

\* An execution begins with its first statement.
StatementOf(e) == IF at[e] = "idle" THEN "invalidateChanged" ELSE at[e]
MayExecute(e) ==
  /\ tableColumns # <<>>
  /\ IF at[e] = "idle" THEN clock < MaxClock /\ clock' = clock + 1 ELSE clock' = clock
Begun(e) == IF at[e] = "idle" THEN tainted \ {e} ELSE tainted

Execute(e) ==
  /\ MayExecute(e) /\ Executes(StatementOf(e))
  /\ rows' = Result(StatementOf(e))
  /\ at' = [at EXCEPT ![e] = Following(StatementOf(e))]
  /\ tainted' = Begun(e) \cup (Running \ {e})
  /\ calm' = (calm /\ Running \subseteq {e})
  /\ settled' = (at'[e] = "idle" /\ e \notin Begun(e))
  /\ UNCHANGED <<source, columns, hard, tableColumns, late>>

\* A statement that fails ends the execution: the workflow catches nothing.
Abort(e) ==
  /\ MayExecute(e)
  /\ at' = [at EXCEPT ![e] = "idle"]
  /\ settled' = FALSE
  /\ UNCHANGED <<source, columns, hard, snapshot, late, tainted, calm>>

\* jobs.query answers after its timeout although the statement goes on.
Outlive(e) ==
  /\ MayExecute(e) /\ Executes(StatementOf(e))
  /\ late' = late \cup {StatementOf(e)}
  /\ at' = [at EXCEPT ![e] = Following(StatementOf(e))]
  /\ tainted' = tainted \cup {e} /\ calm' = FALSE /\ settled' = FALSE
  /\ UNCHANGED <<source, columns, hard, snapshot>>

Finish(statement) ==
  /\ late' = late \ {statement}
  /\ rows' = IF Executes(statement) THEN Result(statement) ELSE rows
  /\ Intrudes(Running) /\ settled' = FALSE
  /\ UNCHANGED <<source, columns, hard, tableColumns, clock, at>>

-----------------------------------------------------------------------------
ChangeRow(key) ==
  /\ clock < MaxClock /\ clock' = clock + 1
  /\ source' \in {[source EXCEPT ![key] = clock + 1], [source EXCEPT ![key] = 0]}
  /\ Intrudes(Running) /\ settled' = FALSE
  /\ UNCHANGED <<columns, hard, snapshot, at, late>>

Widen ==
  /\ columns = <<"id">> /\ columns' = <<"id", "new">>
  /\ UNCHANGED <<source, hard, snapshot, clock, at, late, past>>

HistoryNext ==
  \/ CreateTable \/ Adapt \/ Widen
  \/ \E e \in Executions : Execute(e) \/ Abort(e) \/ Outlive(e)
  \/ \E statement \in late : Finish(statement)
  \/ \E key \in Keys : ChangeRow(key)

HistorySpec == HistoryInit /\ [][HistoryNext]_historyVars

-----------------------------------------------------------------------------
\* Of every row of the source the version that is open is the current one, and
\* with invalidateHardDeletes no other is.
Follows ==
  LET open == {i \in DOMAIN rows : Open(rows[i])}
  IN  /\ \A key \in Keys : source[key] # 0 =>
           {rows[i].updatedAt : i \in {i \in open : rows[i].key = key}} = {source[key]}
      /\ hard => \A i \in open : source[rows[i].key] # 0

\* The versions of a row follow one another.
Disjoint ==
  \A i, j \in DOMAIN rows : i < j /\ rows[i].key = rows[j].key =>
    ~Open(rows[i]) /\ rows[i].to <= rows[j].from

\* An execution that nothing intrudes upon brings the table up to the source,
\* whatever executions before it have left: cut short after the old versions were
\* closed, overlapping, or on a source that changed under them.  And as long as
\* none was intruded upon, no version is lost or doubled: those of a row follow
\* one another, although executions are cut short.
HistoryKept == (settled => Follows) /\ (calm => Disjoint)
=============================================================================
