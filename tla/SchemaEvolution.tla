--------------------------- MODULE SchemaEvolution ---------------------------
(***************************************************************************)
(* TableSchema (gcpx-bq/schema): a declared list of columns, annotated     *)
(* with alter: insert, delete or rename, is turned into one BigQuery       *)
(* script that changes the table in place.                                 *)
(*                                                                         *)
(* BigQuery and the Pulumi engine are external.  BigQuery executes the     *)
(* statements of a script one after the other and keeps what they did when *)
(* a later one fails.  The engine checks and diffs a program against the   *)
(* inputs of the last successful operation, updates against its outputs,   *)
(* and runs one operation on the resource at a time.                       *)
(*                                                                         *)
(* A column name stands for all its spellings (names are compared ignoring *)
(* case), a column's data for the values its rows hold: it is what a drop  *)
(* destroys and a rename must carry along.  Types, modes, defaults and     *)
(* nested fields of a column never lead to a statement and are left out.   *)
(***************************************************************************)
EXTENDS Naturals, SequencesExt

CONSTANTS
  Columns,     \* the names a program may use
  Temps,       \* __gcpx_tmp_0, __gcpx_tmp_1, ...: a sequence of further names
  Descs,       \* descriptions
  Protected,   \* the columns consumerConstraints names
  Initial,     \* the sets of columns the table may have before the resource
  Programs,    \* the lists of fields a user may declare
  Disciplined, \* whether a user refreshes before changing a program that failed
  MaxUpdates,  \* bound on the previews with a changed or retried program
  MaxFaults    \* bound on the faults between two refreshes

Names == Columns \union ToSet(Temps)
Alters == {"none", "insert", "delete", "rename"}

\* A field of the program: from is read for renames only.
Fields == [name : Columns, alter : Alters, from : Columns, desc : Descs]

ASSUME SchemaAssumption ==
  /\ Temps \in Seq(ToSet(Temps)) /\ ToSet(Temps) \intersect Columns = {}
  /\ Protected \subseteq Columns
  /\ Initial \subseteq SUBSET Columns
  /\ Programs \subseteq Seq(Fields)
  /\ Disciplined \in BOOLEAN /\ {MaxUpdates, MaxFaults} \subseteq Nat

VARIABLES
  live,     \* BigQuery: the table's columns, a function from their names
  script,   \* BigQuery: what is left of the script the provider waits for
  orphan,   \* BigQuery: what is left of a script nobody waits for any more
  inputs,   \* the engine: the fields of the last program applied, with deleted ones
  outputs,  \* the engine: the columns the provider recorded
  held,     \* the data those columns held when they were recorded
  created,  \* the engine: whether the resource exists
  news,     \* the program being applied, or the last one
  stage,    \* "idle", "update" (the handler is called) or "sent" (a script is out)
  last,     \* how the last update ended: "none", "same", "ok", "failed", or that
            \* the program that has just succeeded is applied "again"
  before,   \* the table when the last script was sent
  condemned,\* the recorded data of the columns its program deletes
  born,     \* how often columns were added: makes their data distinct
  updates,  \* previews so far
  faults    \* faults since the last refresh

service == << live, script, orphan, born >>
record == << inputs, outputs, held, created >>
intent == << news, before, condemned >>
vars == << service, record, intent, stage, last, updates, faults >>

-----------------------------------------------------------------------------
\* What the fields of a program say.

Declared(p) == { f \in ToSet(p) : f.alter # "delete" }
Deleted(p) == { f.name : f \in { g \in ToSet(p) : g.alter = "delete" } }
NamesOf(F) == { f.name : f \in F }

\* clean_fields, as the name and description of each column.
Clean(p) == [ n \in NamesOf(Declared(p)) |-> (CHOOSE f \in Declared(p) : f.name = n).desc ]

\* The same fields when they are read back as old inputs: deleted ones are still
\* among them, and of two fields with one name the first is found.
Listed(p) == [ n \in NamesOf(ToSet(p)) |-> p[SelectInSeq(p, LAMBDA f : f.name = n)].desc ]

\* validate: active names are distinct, a rename names its source (by Fields);
\* neither rename nor delete on create, else unannotated columns are in olds.
Valid(p, olds) ==
  /\ p # << >>
  /\ \A i, j \in DOMAIN p :
       p[i].alter # "delete" /\ p[j].alter # "delete" /\ p[i].name = p[j].name => i = j
  /\ IF olds = << >>
     THEN \A f \in ToSet(p) : f.alter \in {"none", "insert"}
     ELSE \A f \in ToSet(p) : f.alter = "none" => f.name \in DOMAIN olds

\* validate_schema_drop_safety.
Safe(drops) == drops \intersect Protected = {}

\* check_table_schema; olds are the old inputs, << >> before a create.
Check(p, olds) == Valid(p, olds) /\ Safe(Deleted(p))

-----------------------------------------------------------------------------
\* compute_diff and build_batch_ddl.

Drop(names) == [op |-> "drop", names |-> names]
Rename(from, to) == [op |-> "rename", from |-> from, to |-> to]
Add(cols) == [op |-> "add", cols |-> cols]
Describe(n, d) == [op |-> "describe", name |-> n, desc |-> d]

\* The fields of p that Is holds of, in their order.
Those(p, Is(_)) == FoldLeft(LAMBDA s, f : IF Is(f) THEN Append(s, f) ELSE s, << >>, p)

\* Mutants: every column not declared is dropped; the new name is looked for instead
\* of the old one; renames and inserts are repeated for ever.
DropsInferred(old, p) == DOMAIN old \ NamesOf(ToSet(p))
RenamesOfKnown(old, p) == Those(p, LAMBDA f : f.alter = "rename" /\ f.name \in DOMAIN old)
RenamesAlways(old, p) == Those(p, LAMBDA f : f.alter = "rename")
AddsAlways(old, p) == { f \in ToSet(p) : f.alter = "insert" }

Drops(old, p) == Deleted(p) \intersect DOMAIN old
Renames(old, p) == Those(p, LAMBDA f : f.alter = "rename" /\ f.from \in DOMAIN old)
Adds(old, p) == { f \in ToSet(p) : f.alter = "insert" /\ f.name \notin DOMAIN old }
Redescribed(old, p) ==
  Those(p, LAMBDA f : f.alter = "none" /\ f.name \in DOMAIN old /\ old[f.name] # f.desc)

\* break_rename_cycles: from each rename not yet visited follow the targets; a walk
\* of several renames that ends at the source it began with is a cycle.
Onward(renames, walk) ==
  { i \in DOMAIN renames \ walk.seen : renames[i].from = walk.target }
Follow(renames, start) ==
  LET Walk[walk \in [seen : SUBSET DOMAIN renames, target : Columns]] ==
        IF Onward(renames, walk) = {} THEN walk
        ELSE LET i == Min(Onward(renames, walk))
             IN  Walk[[seen |-> walk.seen \union {i}, target |-> renames[i].name]]
  IN  Walk[start]
BreakCycles(renames) ==
  LET Start(found, i) ==
        LET walk == Follow(renames, [seen |-> found.seen \union {i}, target |-> renames[i].name])
            spare == Temps[(Len(found.ops) \div 2) + 1]
        IN IF i \in found.seen THEN found
           ELSE [seen |-> walk.seen,
                 ops |-> IF walk.target = renames[i].from /\ walk.seen # found.seen \union {i}
                         THEN found.ops \o << Rename(renames[i].from, spare),
                                              Rename(spare, renames[i].name) >>
                         ELSE found.ops]
  IN FoldLeftDomain(Start, [seen |-> {}, ops |-> << >>], renames).ops

\* The statements of an update, in the order they are executed.
Script(old, p) ==
  LET renames == Renames(old, p)
      described == Redescribed(old, p)
  IN (IF Drops(old, p) = {} THEN << >> ELSE << Drop(Drops(old, p)) >>)
     \o BreakCycles(renames)
     \o [ i \in DOMAIN renames |-> Rename(renames[i].from, renames[i].name) ]
     \o (IF Adds(old, p) = {} THEN << >>
         ELSE << Add([ n \in NamesOf(Adds(old, p)) |-> Clean(p)[n] ]) >>)
     \o [ i \in DOMAIN described |-> Describe(described[i].name, described[i].desc) ]

-----------------------------------------------------------------------------
\* BigQuery.  A table keeps at least one column; DROP COLUMN has IF EXISTS and ADD
\* COLUMN has IF NOT EXISTS, RENAME COLUMN has neither.
Possible(s, t) ==
  CASE s.op = "drop"     -> DOMAIN t \subseteq s.names => t = << >>
    [] s.op = "rename"   -> s.from \in DOMAIN t /\ s.to \notin DOMAIN t
    [] s.op = "add"      -> TRUE
    [] s.op = "describe" -> s.name \in DOMAIN t

Effect(s, t, fresh) ==
  CASE s.op = "drop"     -> Restrict(t, DOMAIN t \ s.names)
    [] s.op = "rename"   -> [ n \in (DOMAIN t \ {s.from}) \union {s.to} |->
                                IF n = s.to THEN t[s.from] ELSE t[n] ]
    [] s.op = "add"      -> [ n \in DOMAIN t \union DOMAIN s.cols |->
                                IF n \in DOMAIN t THEN t[n]
                                ELSE [data |-> << n, fresh >>, desc |-> s.cols[n]] ]
    [] s.op = "describe" -> [t EXCEPT ![s.name].desc = s.desc]

\* The next statement of a script takes effect.
Execute(q) ==
  /\ q # << >> /\ Possible(Head(q), live)
  /\ live' = Effect(Head(q), live, born)
  /\ born' = IF DOMAIN live' \subseteq DOMAIN live \/ Head(q).op = "rename" THEN born ELSE born + 1

\* What a whole script would make of the table t, up to a statement it cannot execute.
Run(s, t) ==
  FoldLeft(LAMBDA r, q : IF r.done /\ Possible(q, r.t)
                         THEN [done |-> TRUE, t |-> Effect(q, r.t, born)]
                         ELSE [done |-> FALSE, t |-> r.t],
           [done |-> TRUE, t |-> t], s)

\* It cannot be executed, or fails for a reason of BigQuery's own.
Fails(q) ==
  /\ q # << >>
  /\ \/ ~Possible(Head(q), live) /\ UNCHANGED faults
     \/ faults < MaxFaults /\ faults' = faults + 1
  /\ UNCHANGED << live, born >>

\* patch_table with the clean fields: it can add columns, not remove any.
Patch(p) ==
  /\ DOMAIN live \subseteq DOMAIN Clean(p)
  /\ live' = [ n \in DOMAIN Clean(p) |->
                 [data |-> IF n \in DOMAIN live THEN live[n].data ELSE << n, born >>,
                  desc |-> Clean(p)[n]] ]
  /\ born' = IF DOMAIN live' = DOMAIN live THEN born ELSE born + 1
  /\ UNCHANGED << script, orphan >>

-----------------------------------------------------------------------------
\* The table belongs to another resource and may have columns already.
Init ==
  /\ \E S \in Initial, d \in Descs : live = [ n \in S |-> [data |-> << n, 0 >>, desc |-> d] ]
  /\ script = << >> /\ orphan = << >>
  /\ inputs = << >> /\ outputs = << >> /\ held = << >> /\ created = FALSE
  /\ news = << >> /\ stage = "idle" /\ last = "none" /\ before = << >> /\ condemned = {}
  /\ born = 1 /\ updates = 0 /\ faults = 0

DescsOf(t) == [ n \in DOMAIN t |-> t[n].desc ]
DataOf(t) == [ n \in DOMAIN t |-> t[n].data ]

\* The update succeeds: build_schema_output of the clean fields is recorded.
Record(p, t) ==
  /\ inputs' = Listed(p) /\ outputs' = Clean(p)
  /\ held' = DataOf(Restrict(t, DOMAIN t \intersect DOMAIN Clean(p)))
  /\ created' = TRUE
  /\ stage' = "idle" /\ last' = "ok"

\* The update fails: the engine keeps what it had.
Reject == stage' = "idle" /\ last' = "failed" /\ UNCHANGED record

\* check_table_schema and create_table_schema; the answer may be lost.
Create(p) ==
  /\ stage = "idle" /\ ~created /\ orphan = << >>
  /\ Check(p, << >>) /\ Patch(p) /\ news' = p
  /\ \/ Record(p, live') /\ UNCHANGED faults
     \/ faults < MaxFaults /\ faults' = faults + 1 /\ Reject
  /\ before' = live /\ condemned' = {}
  /\ UNCHANGED updates

\* check_table_schema and diff_table_schema.  Without a difference the engine
\* stores the new inputs and leaves the resource alone.
Preview(p) ==
  /\ stage = "idle" /\ created /\ orphan = << >> /\ updates < MaxUpdates
  /\ Disciplined /\ last = "failed" => p = news
  /\ Check(p, inputs)
  /\ updates' = updates + 1 /\ news' = p
  /\ IF Script(inputs, p) # << >>
     THEN /\ stage' = "update" /\ UNCHANGED inputs
          /\ last' = IF last = "ok" /\ p = news THEN "again" ELSE "none"
     ELSE inputs' = Listed(p) /\ last' = "same" /\ UNCHANGED stage
  /\ before' = live /\ condemned' = {}
  /\ UNCHANGED << service, outputs, held, created, faults >>

\* update_table_schema up to its request.
Update ==
  /\ stage = "update"
  /\ IF Safe(Drops(outputs, news))
     THEN IF Script(outputs, news) = << >>
          THEN Record(news, live) /\ UNCHANGED script
          ELSE /\ script' = Script(outputs, news) /\ stage' = "sent"
               /\ UNCHANGED << record, last >>
     ELSE Reject /\ UNCHANGED script
  /\ condemned' = { held[n] : n \in Deleted(news) \intersect DOMAIN held }
  /\ UNCHANGED << live, orphan, born, news, before, updates, faults >>

\* BigQuery works on the script the handler waits for; the last statement's effect
\* and the answer are two steps.
Work ==
  /\ stage = "sent"
  /\ \/ Execute(script) /\ script' = Tail(script) /\ UNCHANGED << record, stage, last, faults >>
     \/ Fails(script) /\ script' = << >> /\ Reject
  /\ UNCHANGED << orphan, intent, updates >>

\* ... and on one that nobody waits for.
WorkOn ==
  /\ \/ Execute(orphan) /\ orphan' = Tail(orphan) /\ UNCHANGED faults
     \/ Fails(orphan) /\ orphan' = << >>
  /\ UNCHANGED << script, record, intent, stage, last, updates >>

Answer ==
  /\ stage = "sent" /\ script = << >>
  /\ Record(news, live)
  /\ UNCHANGED << service, intent, updates, faults >>

Fault == orphan = << >> /\ faults < MaxFaults /\ faults' = faults + 1

\* A transport error, a timeout or the end of the plugin: the script goes on alone.
GiveUp ==
  /\ stage = "sent" /\ Fault
  /\ orphan' = script /\ script' = << >> /\ Reject
  /\ UNCHANGED << live, born, intent, updates >>

\* A retryable status although the script was accepted: post_json sends it again.
Resend ==
  /\ stage = "sent" /\ Fault
  /\ orphan' = script /\ script' = Script(outputs, news)
  /\ UNCHANGED << live, born, record, intent, stage, last, updates >>

\* jobs.query answers 200 with jobComplete = false; execute_ddl takes it for success.
Outlive ==
  /\ stage = "sent" /\ script # << >> /\ Fault
  /\ orphan' = script /\ script' = << >> /\ Record(news, Run(script, live).t)
  /\ UNCHANGED << live, born, intent, updates >>

\* read_table_schema: the live columns become both outputs and inputs.
Refresh ==
  /\ stage = "idle" /\ created /\ orphan = << >>
  /\ outputs' = DescsOf(live) /\ inputs' = DescsOf(live) /\ held' = DataOf(live)
  /\ last' = "none" /\ faults' = 0
  /\ news' = << >> /\ before' = << >> /\ condemned' = {}
  /\ UNCHANGED << service, created, stage, updates >>

\* delete_table_schema leaves the table alone.
Delete ==
  /\ stage = "idle" /\ created /\ orphan = << >>
  /\ created' = FALSE /\ inputs' = << >> /\ outputs' = << >> /\ held' = << >> /\ last' = "none"
  /\ news' = << >> /\ before' = << >> /\ condemned' = {}
  /\ UNCHANGED << service, stage, updates, faults >>

Next ==
  \/ \E p \in Programs : Create(p) \/ Preview(p)
  \/ Update \/ Work \/ WorkOn \/ Answer
  \/ GiveUp \/ Resend \/ Outlive
  \/ Refresh \/ Delete

Spec == Init /\ [][Next]_vars

-----------------------------------------------------------------------------
Data(t) == { t[n].data : n \in DOMAIN t }

\* Where the data of a declared column was in the columns S: a rename that has still
\* to be done takes it from its source.
Source(f, S) == IF f.alter = "rename" /\ f.from \in S THEN f.from ELSE f.name
Sources(p) == { f.from : f \in { g \in ToSet(p) : g.alter = "rename" } }

\* Every name of a program has one role: declared, deleted, or renamed from.
OneRole(p) ==
  /\ \A i, j \in DOMAIN p : p[i].name = p[j].name => i = j
  /\ Sources(p) \intersect NamesOf(ToSet(p)) = {}
  /\ \A i, j \in DOMAIN p :
       p[i].alter = "rename" /\ p[j].alter = "rename" /\ p[i].from = p[j].from => i = j

\* A program can be carried out on the table t: the unannotated columns are there,
\* each rename is either to be done or done, and some column is left.
Feasible(p, t) ==
  /\ \A f \in ToSet(p) :
       /\ f.alter = "none" => f.name \in DOMAIN t
       /\ f.alter = "rename" => (f.from \in DOMAIN t) # (f.name \in DOMAIN t)
  /\ DOMAIN t \subseteq Deleted(p) => DOMAIN t \intersect Deleted(p) = {}

\* What the program p makes of the table t: its columns, each with its own data.
Applied(p, t, result) ==
  /\ DOMAIN result = (DOMAIN t \ (Deleted(p) \union Sources(p))) \union NamesOf(Declared(p))
  /\ \A f \in Declared(p) :
       /\ Source(f, DOMAIN t) \in DOMAIN t => result[f.name].data = t[Source(f, DOMAIN t)].data
       /\ f.alter = "none" => result[f.name].desc = f.desc

\* Whatever is lost, repeated or cut short, no column's data is destroyed but that
\* of the recorded columns the program deletes: the order and the IF EXISTS of the
\* statements, and the comparison with the record, must not hit another column
\* (diff.rs:36-44, ddl.rs:23-41, handlers.rs:267-338).
OnlyDeletedLost ==
  [][Data(live) \ Data(live') \subseteq condemned]_vars

\* An update that was answered with success, of a feasible program on a table the
\* record described, has left the columns and data the program asks for
\* (handlers.rs:254-349).
SuccessIsApplied ==
  [][stage = "sent" /\ script = << >> /\ last' = "ok"
       /\ outputs = DescsOf(before) /\ Feasible(news, before)
     => Applied(news, before, live')]_vars

\* When the program that has just succeeded is applied again, annotations and all,
\* nothing is sent (the Idempotent comments of diff.rs:37, 47 and 57).
ReapplyIsNoop ==
  [][stage = "update" /\ last = "again" => stage' = "idle"]_vars

\* Wherever a failed update stopped, once its scripts have ended a refresh and the
\* same program finish what it began, with the data the table had before
\* (handlers.rs:189-229, validate.rs:54-81, diff.rs:34-87).
Recoverable ==
  stage = "idle" /\ last = "failed" /\ created /\ orphan = << >> /\ Feasible(news, before) =>
    LET result == Run(Script(DescsOf(live), news), live) IN
    /\ Check(news, DescsOf(live))
    /\ result.done /\ Applied(news, before, result.t)

\* No step of an update, the first or a repeated one, destroys the recorded data of
\* a column its program renames: re-applying an unchanged schema is a no-op
\* (CHANGELOG.md:195).
RenamedKept ==
  [][\A f \in { g \in Declared(news) : g.alter = "rename" } :
       LET n == Source(f, DOMAIN held) IN
       n \in DOMAIN held /\ held[n] \in Data(live) => held[n] \in Data(live')]_vars

=============================================================================
