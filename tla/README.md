# Verification of the gcpx Pulumi provider

TLA+ models of `pulumi-rs-provider-gcpx`, the TLC runs that check them on small
instances, and TLAPS proofs of their most important properties for every
instance. `PROJECT.json` maps every definition of a model to the lines of the
source it stands for, and lists the runs, the hazards each property is for, the
findings and the theorems.

1. [The system](#1-the-system)
2. [The modules](#2-the-modules)
3. [What the runs check](#3-what-the-runs-check)
4. [Bounds, fairness and abstractions](#4-bounds-fairness-and-abstractions)
5. [What is proved](#5-what-is-proved)
6. [Findings and other differences](#6-findings-and-other-differences)
7. [What is not modelled](#7-what-is-not-modelled)
8. [Plan](#8-plan)

To repeat a run: `tlc -config MCSchemaEvolution.cfg MCSchemaEvolution`; to
repeat a proof: `tlapm ServiceProofs.tla`.

## 1. The system

The provider is one process (a gRPC server) that the Pulumi engine starts. The
engine calls `check`, `diff`, `create`, `read`, `update` and `delete` for the
resources of a stack, handlers of different resources concurrently, and keeps
in its state file what the last successful operation of each resource took
(inputs) and returned (outputs). The provider itself stores nothing between
calls, with one exception, the circuit breakers. Everything that makes it hard
is therefore between three parties: the record the engine keeps, the state of
the services, and a handler that awaits several calls in a row, any of which
can be refused, lose its answer, or be the last one before the process dies.

| Component (crate) | State it keeps or changes | Operations | Hard behaviour | What makes it correct | Module |
|---|---|---|---|---|---|
| Circuit breakers (`gcpx-core/breaker.rs`) | per service four atomics: state, two counters, a time stamp | `allow_request`, `record_success`, `record_failure` | no lock: every load, store and fetch_add interleaves with those of other tasks | no failure or success is lost between a counter and the state; an open breaker recovers | `CircuitBreaker` |
| HTTP client (`gcpx-core/http.rs`) | none; a call's position on the retry ladder | `get_json`, `post_json`, `patch_json`, `put_json`, `delete_ok`, `post_stream` | retries race with other callers' openings and closings; the breaker is asked before the backoff sleep | bounded attempts; a call returns; only failures of a service count against it | `RetryClient` |
| Long-running operations (`gcpx-core/lro.rs`) | the deadline and interval of a wait | `poll_operation`, `finish` | the operation ends between two polls, after the deadline, or never; its end and the state of the resource are two reads | bounded wait, no success without the resource | `Operation` |
| Scheduled SQL (`gcpx-scheduler`), snapshots (`gcpx-snapshot`), Dataproc jobs (`gcpx-dataproc`) | a Cloud Workflow and a Cloud Scheduler job under one name, for snapshots a table | create with adoption and rollback, update, delete with polling | partial failure, lost answers, crashes, leftovers, replacement under the same names | the pair is what is recorded; a create that succeeds has deployed its inputs; nothing invalid is installed | `ScheduledPair` |
| Schema evolution (`gcpx-bq/schema`) | the columns of a table, changed in place by a script | check, diff, create, read, update, delete of `TableSchema` | a script is not a transaction, may run twice or outlive its call; two records (inputs, outputs) that lag behind | no data is lost but what is deleted; a failed update can be repeated; re-applying is a no-op | `SchemaEvolution` |
| dbt models (`gcpx-dbt` handlers and resolver) | one table or view per model; each model's output, from which others are resolved | check, diff, create, read, update, delete of `Model` | a graph deployed in parallel, records of different ages, statements that outlive their call | references exist, the tables are those declared, no orphans, managed tables stay | `DbtModels` |
| Agent IAM policies (`gcpx-agents`) | one policy with an etag, shared with others | create, read, update, delete of `DataAgentIamPolicy` | read-modify-write against other writers, repeated and late writes | every operation acts as if alone, at most once | `AgentPolicy` |
| BigQuery tables, datasets, routines (`gcpx-bq`), data agents, conversations, agent engines, memories (`gcpx-agents`) | one object of a service each | check, diff, create (with adoption of what is there, `gcpx-core/lifecycle.rs`), read, update, delete (verified for BigQuery) | lost and repeated calls, others that change or delete the object, replacement, operations of a region that end later than the call | the object is as the record says; nothing is left behind; only faults fail | `ResourceFields`, `BqShapes`, `AgentShapes`, `ManagedResource` |
| Chat streams (`gcpx-agents/chat.rs`) | a frame parser's buffer, depth and flags | `push`, `is_mid_value` over chunks | chunks end anywhere, in a string, an escape, a character; a limit | every message whole, once, in order | `ChatFrames`; the request is in `RetryClient` |
| dbt text and options (`scanner`, `macros`, `preprocess`, `options`, `validate`, `parse`), dbt projects and macros | none; a model is given the project's and the macros' outputs | functions from text to text or errors | seven rewritings of one text in a row, bounded macro expansion, two places for options | what check accepts can be created; the query sent is what the text means; the options are those written | `ModelText`, `ModelOptions` |
| Snapshot text and schema adaptation (`gcpx-snapshot/ddl.rs`, `workflow.rs`) | the versions in the snapshot table | CREATE, three scheduled statements, the ALTERs of an update | statements that are no transaction, on a source that changes, by executions that overlap, fail and are outlived | the current version is open, versions follow one another | `SnapshotHistory` |
| Credentials, dispatch, schema, error texts, test doubles, packaging | none of their own | – | – | not modelled, see [7](#7-what-is-not-modelled) | – |

They interact by calls only: handlers call the operations of a service crate
(`ops.rs`), these call the HTTP client, which asks and tells the breaker of its
service. The breakers are the only state the handlers share inside the process;
outside of it they share the services.

## 2. The modules

| Module | Role | Relation to the others |
|---|---|---|
| `CircuitBreaker` | the breakers, used in any order by any tasks | – |
| `RetryClient` | the client: `EXTENDS CircuitBreaker` and restricts its callers to what `http.rs` does | implements `CircuitBreaker` (proved) |
| `Operation` | the four waits | – |
| `ScheduledPair` | four kinds of handlers over one workflow and one job | its "lost answer" includes a wait of `Operation` that ran into its deadline |
| `SchemaEvolution` | one `TableSchema` on one table | – |
| `DbtModels` | a stack of models | – |
| `PolicyContract` | what the policy resources promise together: atomic operations | – |
| `AgentPolicy` | how they do it: reads, writes, etags | implements `PolicyContract` (checked and proved) |
| `ResourceFields` | property maps: given fields, differing fields | – |
| `BqShapes`, `AgentShapes` | fields, validation, diffs, bodies and reads of three BigQuery and four agent resources | extend `ResourceFields` |
| `ManagedResource` | one such resource between the engine, the handlers, the service and others | extends both shapes |
| `ChatFrames` | the frame parser beside the sender of the stream | – |
| `ModelText` | the text of a dbt model from check to the query | – |
| `ModelOptions` | its options from SQL and YAML to the statement | – |
| `SnapshotHistory` | the rows of a snapshot under its statements | the workflow that runs them is a definition in `ScheduledPair` |
| `MCTexts` | the last four side by side: each behaviour is one of them | extends the four |
| `MC*` | constants for TLC | extend the module they are named for |
| `ServiceProofs`, `ScheduledPairProofs`, `AgentProofs`, `ManagedResourceProofs`, `DbtModelsProofs`, `SchemaEvolutionProofs`, `ModelTextProofs` | theorems and proofs | extend the module they are named for; `ServiceProofs` is about `CircuitBreaker`, `RetryClient` and `Operation`, `AgentProofs` about `AgentPolicy` and `ChatFrames`, `ScheduledPairProofs` has `SnapshotHistory`, `DbtModelsProofs` has `ModelOptions` |
| `FoldInduction` | induction over the folds of the community modules, for any operation and any relation | instantiated by `SchemaEvolutionProofs`, `DbtModelsProofs` and `ModelTextProofs` |

A definition whose comment begins with "Mutant of" (or that stands before
another of the same meaning and is said to be a variant) is not part of the
specification: it is a bug somebody could put into the next definition, and the
property it is listed with in `PROJECT.json` is violated when it is put in its
place. That is how we know that a property that holds says something.

### CircuitBreaker

A program point of a caller (`pc`) is named for the atomic operation that comes
next; every load, store and `fetch_add` of `breaker.rs` is an action. Values that
depend on the state just read (`Match`) are branches of the same step, because
nothing is shared in between. `sinceFailure` is the age of `last_failure_ms`,
which saturates at the timeout because `elapsed_ms >= timeout_ms` is all the code
asks; `stamp` is the age of a `now_ms()` that has been read and not stored yet.

### RetryClient

`stage` is where a call is: token, gate (`allow_request`), sleep, flight,
recording. The json verbs run `with_retry` (token first, gate, attempt, record,
ladder), `stream` runs `post_stream` (gate first, then token, one attempt). The
breaker operations are those of `CircuitBreaker`, step by step. `Responses` are
the four classes of answers the code tells apart.

### Operation

The wait counts time from its own start. `Complete`, `Abort` and `Compile` are the
service's; `Start`, `CheckDeadline`, `Sleep`, `Fetch`, `Answer`, `Get` are the
statements of `poll_operation` and of its callers. The answer `Start` gets is the
operation itself, so one that is done with an error fails every caller at once; of the
later answers those of `await_agent` have no error in them (`Observed`). The four callers differ in
what their fetch closure asks (`Done`) and in what they do with the end
(`Use`): the operators are the `match`es of `scheduler/ops.rs` 271-326 and
`agents/ops.rs` 582-646, 739-779.

### ScheduledPair

One module for four handlers, because they are the same protocol with four
differences, which stand at its top (`DryRuns`, `MakesTable`, `PausesOnCreate`,
`RewritesAlways`). Every awaited call is an action named for it; `Invoke` gives
each the same three fates: done, refused, done without an answer. `Crash` ends an
operation at any call. `Create`, `Update`, `Delete`, `Succeed` and `Fail` are the
engine's side. A job's `inherited` is a history variable: it was paused when a create
adopted it, and no handler has paused or resumed it since.

### SchemaEvolution

`Script` is `compute_diff` and `build_batch_ddl`: drops, cycle breaking, renames,
adds, descriptions, in that order. BigQuery executes a script statement by
statement (`Work`) and a script nobody waits for goes on alone (`WorkOn`): that
is what a lost answer (`GiveUp`), a request sent twice (`Resend`) and an
incomplete job taken for success (`Outlive`) have in common. A column carries
*data*, a token made when it is added: a drop destroys it and a rename carries it,
which is what the properties are about. `inputs` and `outputs` are the two
records: the preview compares with the first, the update with the second. The
records are sets of columns; `Follow` is what a program makes of such a set, one
step (`Onward`) for each of its fields.

### DbtModels

The engine deploys a stack: models wait for those they refer to, independent ones
proceed together, a failure stops what has not begun, what is no longer declared
is deleted last. Each handler is its calls in order: `GetColumns`, `ExecuteDdl`,
`DryRun`, `Answer`; `Resolve` is the resolver, with references to ephemeral models
inlined as CTEs. The CTEs a model brings through another one come in the other's
order, and a name may come twice in one query, with the same text each time (the test at
`resolver.rs` 831 has a single path; `CtesClosed` says that each reads earlier ones
only, which is what BigQuery needs). `stray` is a history variable: the models whose table was
changed by something their record cannot know (a statement executed without an
answer, one that outlived its call, a create that failed after its table was made).
Properties that compare tables with records excuse exactly those.

### AgentPolicy and PolicyContract

`PolicyContract` has one policy and operations that change it in one step, at most
once each. `AgentPolicy` is the code: `Declare` or `Delete` starts a handler,
`Read` is `get_agent_iam_policy` with the request it leads to, `Execute` is the
service accepting a write that has been sent, `Refused` the conflict, `GiveUp`
every other end. A write stays executable after its caller has given up, because
the request may still be on its way; the answer to an executed write may be lost,
after which the client's retry is refused under the old etag.

### ResourceFields, BqShapes and AgentShapes

A property map is a function from field names to values with `Absent` for what is
not given; a nested object has a field of its own and its members are fields
named `object.member`. The shapes are the `parse_*`, `validate_*`, `compute_diff`,
`build_*_body` and `read_*` functions of each resource: which fields are replaced,
which are updated, which are sent although they are to be cleared and which
only when given, and what a read knows. Values are few; validity of a single
value (a cron text, a region's name) is a value `"bad"` or `"out"`.

### ManagedResource

The seven resources are one protocol with different shapes, which are chosen by
`kind`. `Up`, `Destroy` and `Refresh` are the engine's; the rest of `Call` is
one action per awaited call and fate: done, conflicting (409), missing (404),
failed with or without effect, repeated by the client after its answer was lost.
`CreateConflicts` and `Adopt` are `create_or_adopt`, `Delete`, `PollGone`,
`PollAgain` and `PollEnds` are `verified_delete`, `AwaitAgent` is the wait in
regions without the Sync methods (`region`). `Vanish` and `Settle` are the
service doing later what it accepted earlier; `Others*` are its other users. The
variables below "a call of the current operation" are history: which fields (`off`)
and ids (`lost`, `foreign`, `loose`) a fault or somebody else has touched, which
is what a property excuses.

### ChatFrames

The sender's state says what its bytes *mean* (open brackets, inside a string,
escaped); the parser sees the bytes. `Push` is the loop body of
`FrameParser::push` with a disjunct for each way through it. `EndChunk` is enabled after
every byte, so that every division of the stream into chunks is a behaviour. Out of
a limit of 8 MiB the model has a constant, and out of UTF-8 and JSON decoding a
predicate on the bytes of a message.

### ModelText and ModelOptions

A text is a sequence of pieces: words, `{{ }}` templates and `{% %}` tags (`Names` is
what a piece may be called). Each function of `preprocess.rs`, `macros.rs` and
`resolver.rs` that passes over the text is an operator on such sequences, and
`Created` applies them in the order of `create_dbt_model`. A function that looks for
one kind of template says what becomes of *one* piece (`This`, `Valued`, `Built`,
`Unfolded`, `Resolved`), and `Each` applies it to those not set aside; one that looks
for a pair of tags is a fold over the text that holds back what has come since an
opening tag (`Cut`, `InBlocks`); the rounds of macro expansion are a fold over their
numbers. `Accepted` is `check_dbt_model`, which expands macros but does not
preprocess. `Meaning` is the reference, and does nothing in that order: by the
positions of the tags it says which pieces are inside a raw region or a block, and
by the nesting of the calls (`Standing`) what any other one stands for. Arguments are pieces too.
In the body of a macro one may be a template that names a parameter, as in
`{{ inner('{{ col }}') }}` (`macros.rs` 199-220), which `Handed` replaces; one that is left
over ends the call at its own braces (`Nested`). The argument
of a `source` is a word: a variable in its place is left out. `Oversized` is the limit of
1 MiB, which `ExpandMacros` applies before the first round and after each that expanded
something, and `HasNul` what `protect_raw_regions` refuses; `Self` is the model's own
name, which a project that lists its models has to list. In `ModelOptions`, `Check` and
`Create` are the two handlers, with the comparison of the two places options
are written in, the precedence of the YAML, the validation and the statement.

### SnapshotHistory

The table is a sequence of versions and a sequence of columns. Each scheduled
statement is an operator on the rows (`Result`), an execution is its statements
one after the other. `Abort` ends an execution at a statement, `Outlive` lets a
statement take effect when the next ones have run (`Finish`), `ChangeRow` changes the
source at any moment, `Adapt` adds the missing columns one at a time, and two executions
may be under way at once. `tainted`
names the executions between whose statements something else happened.

## 3. What the runs check

| Run | Properties | What it shows |
|---|---|---|
| `client` | `ClientTypeOK`, `NoLostTrip`, `NoLostClose`, `OnlyFaultyTrips`, `EveryCallReturns`, `OpenRecovers` | two tasks and two services, of which one fails and is streamed from; every atomic operation of a breaker interleaves, under fairness |
| `operation` | `WaitTypeOK`, `WaitBounded`, `SuccessIsReal`, `NoticedSoon`, `WaitEnds` | four waits, three configurations, an operation that ends at any moment or never |
| `pair` | `PairMatches`, `CreateDeploys`, `OnlyValidInstalled`, `RunsTheBatch`, `OperationEnds` | four kinds of resource through any sequence of operations with two faults |
| `schema` | `Recoverable`, `OnlyDeletedLost`, `SuccessIsApplied`, `ReapplyIsNoop` | three programs in a row, cut short, repeated or outlived at any statement |
| `dbt` | `CtesClosed`, `RefsExist`, `UpToDate`, `NoOrphans`, `Converges`, `MergeMatches`, `ManagedKept` | three deploys of changing stacks with one fault and refreshes |
| `policy` | `SuccessWasApplied`, `ImplementsContract` | two resources and other people on one policy |
| `managed` | `InStep`, `Exists`, `NoStray`, `RefreshKeeps`, `ContentsKept`, `OnlyFaultsFail` | seven kinds of resource through any sequence of ups, refreshes and destroys, in regions with and without the Sync methods, with one fault and one change by others |
| `texts` | `FramesWhole`, `RendersAsMeant`, `AcceptedResolves`, `OptionsHeld`, `HistoryKept` | every chat stream cut anywhere, every model text, every combination of options, every history of a snapshot, within the bounds |
| `pair_replace`, `schema_reuse`, `dbt_stale`, `policy_delete` | `ReplaceKeepsPair`, `RenamedKept`, `InlinesCurrent`, `DeleteKeepsOthers` | *violated*: see [6](#6-findings-and-other-differences) |

The properties are stated in words before their definitions. In short:

- **Breakers.** `NoLostTrip`: a breaker that reads CLOSED with its failures at the
  threshold has somebody about to open it or to clear the count. `NoLostClose`: the
  same of successes and closing. Both are about sequences of separate stores that
  other tasks cut into.
- **Client.** `OnlyFaultyTrips`: a service that never answers with a retryable
  status keeps a closed breaker and rejects nobody. `EveryCallReturns`,
  `OpenRecovers`: liveness.
- **Waits.** `WaitBounded`: one interval and two requests past the deadline at most.
  `NoticedSoon`: an operation's end is noticed within one interval, and that is no
  longer than the wait so far. `SuccessIsReal`: see above.
- **Pairs.** `PairMatches`: without faults, the cloud is the record after every
  operation, in definition, schedule and pause. `CreateDeploys`: with faults, a create that
  *succeeds* has deployed the definition and the schedule of its inputs, and the pause
  they ask for. Both look at the pause from either side (`Deployed`): a job that is to be paused is
  paused, one that is to run is not paused, and the one exception is a job that was paused
  when a create adopted it, until an update pauses or resumes it (see
  [6](#6-findings-and-other-differences)). `OnlyValidInstalled`: nothing is installed that has not passed the dry run.
  `RunsTheBatch`: a Dataproc resource never runs another definition than the
  recorded one after a success.
- **Schema.** `OnlyDeletedLost`: no data is destroyed but that of the columns
  the program deletes, through any faults. `SuccessIsApplied`: an update that
  succeeds did what the program says. `Recoverable`: after any failure, refresh and
  repeat finish the work, with the original data. `ReapplyIsNoop`: nothing is sent
  for a program that has just succeeded.
- **dbt.** `RefsExist`: nothing is built before what it reads. `UpToDate`: after a
  successful deploy the tables are the declared ones. `NoOrphans`: no table
  without a record. `Converges`: a deploy repeated without faults fails at most
  once per incremental model. `CtesClosed`, `MergeMatches`, `ManagedKept`: see the
  module.
- **Managed resources.** `InStep`: whatever sequence of creates, adoptions, patches
  and refreshes led there, the object has the recorded value in every field the
  provider maintains that nobody else touched. (A field that a create of the record would
  not send and a patch would not clear keeps what it had: that is difference (d) in
  [6](#6-findings-and-other-differences).) `Exists`: a recorded object is there.
  `NoStray`: an object nobody records was made by others or by a create without
  an answer. `RefreshKeeps`: what a refresh reads is no difference. `ContentsKept`:
  a dataset with tables goes only when its inputs say so. `OnlyFaultsFail`: a
  failure leaves nothing that fails the next attempt.
- **Chat.** `FramesWhole`: the caller gets the messages the sender completed, each
  whole and once, whatever the chunks; past the limit, a beginning of them.
- **dbt text.** `RendersAsMeant`: the pipeline of rewritings computes `Meaning`, unless
  create refuses the text. `AcceptedResolves`: a reference that only an expansion brings in
  was seen by check, so that nothing makes create fail on an accepted text but what create
  alone looks at (`Refused`): NUL, and the length of the preprocessed text.
- **dbt options.** `OptionsHeld`: none written is dropped or changed silently, and
  what was validated is what is applied.
- **Snapshots.** `HistoryKept`: an undisturbed execution brings the table up to
  the source whatever earlier ones left; while none was disturbed, the versions of
  a row follow one another.
- **Policies.** `ImplementsContract`: refinement. `SuccessWasApplied`: what is
  recorded was written.

## 4. Bounds, fairness and abstractions

### Bounds

| Run | Bounds | Why they are enough |
|---|---|---|
| `client` | 2 tasks, 2 services, thresholds 2 (failures) and 1 (successes), timeout 1, 1 retry (4 in the code) | a task with a stale decision beside one that trips or closes; a failure threshold of 2 has a count below it; one retry has the first gate, the gate after a failure, the sleep and the end of the ladder. The counters themselves are not bounded: a failure is counted only while the state was read as CLOSED, so the state space is finite. All its invariants are proved without bounds |
| `operation` | three configurations in the proportions of `quick`, `default`, `slow`, latency and lateness up to 1 | the interval reaches its cap in some and not in others, and the deadline is no multiple of it. Proved without bounds |
| `pair` | 3 definitions (one invalid), 2 schedules, 1 identity, 2 faults, 2 polls (10 in the code) | two faults fail an operation and its repetition or rollback; the number of operations is not bounded |
| `schema` | 3 names, one temporary, 2 descriptions, every program of up to 2 fields and those of 3 with two annotations, 3 previews, 1 fault between refreshes | a program, its repetition and another one. `OnlyDeletedLost` has also been checked with 2 faults (5.2 million states) |
| `dbt` | 3 models in a chain with a shortcut, 2 texts, 19 stacks, 3 deploys, 1 fault | first deploy, change, repetition. It also holds with 2 faults (5.0 million states, 95 s) |
| `policy` | 2 resources, 2 grants, 3 operations, 1 change by others, 1 fault | two conflicting operations and a third after them. Proved without bounds |
| `managed` | 7 kinds, 3 to 5 programs each, regions with Sync and without ("501"), 1 poll (10 in the code), 3 objects numbered by the service, 1 condemned, no operation waiting behind another, 1 fault, 1 change by others | each kind's programs differ in a field of every sort (id, replaced, updated, only ever set, not read back, labels); one poll has the attempt that succeeds and the end of the attempts; three numbers are a create, its repetition and a replacement |
| `texts` | streams of 8 bytes, messages of 5; texts of weight 6 (three units, or six tags), 3 rounds of macros (10 in the code), 2 projects, 3 macro sets, a length limit of 10; 41 508 declarations of options; 2 keys, 2 executions, 5 ticks | a message of 5 bytes has a nested bracket, or a string with an escape, and 8 bytes have two messages or one beyond the limit; three units are a block and a raw region nested either way, or a call whose expansion has a reference; one of the macros hands its parameter on to another and leaves a second one over; a template in a raw region counts 9 and everything else what it weighs, so that preprocessing (two such templates in one region) and macros both pass the limit; five ticks are two executions of each and a change of a row between any two statements |

`Programs <- Tidy` in `schema`: every name in a program has one role. A program
that deletes a column and gives its name to another one loses data when applied
twice; that is the run `schema_reuse`. `Disciplined = TRUE`: a program that failed
is repeated, or the state refreshed, before another is tried. With `FALSE` TLC finds
`OnlyDeletedLost` violated after three previews and one fault, because the record
no longer describes the table. It is an assumption about users that nothing in
the provider enforces.

`CHECK_DEADLOCK FALSE` stands in `operation` (a wait ends), in the schema runs
(the previews are used up), in `managed` (a failed create whose service has no
number left) and in `texts` (streams, texts and clocks end). The other models never stop.

### Fairness

Only where liveness is checked, and only of the provider's own steps:

- `RetryClient`: tokio runs every task that can run and every timer fires
  (`WF(Progress)`, `WF(Tick)`); a *json* attempt is answered or ends with
  `ATTEMPT_TIMEOUT` (`http.rs` 34). `post_stream` has no timeout, so nothing is
  assumed of its answer, and `EveryCallReturns` is about json calls only.
- `Operation`: the client's own steps. The service owes nothing: `WaitEnds` holds
  for an operation that never ends, because of the deadline.
- `ScheduledPair`: the handler's steps, since every call runs into the client's
  timeout at last. The engine, the user and the crashes owe nothing.

The runs with liveness use no symmetry.

### Abstractions worth knowing

- Atomics are sequentially consistent. `breaker.rs` uses
  `Acquire`/`Release` for the state and `Relaxed` for the rest; the reorderings of
  different atomics that these allow are not modelled.
- A crash of the plugin happens between two calls; whether the call under way took
  effect is a choice. What was sent may still be executed.
- Services are external: they do what the code expects of their API, at any
  moment, refusing for no reason included. Eventual consistency of reads is not
  modelled. The delete of a workflow is immediate or refused.
- The engine runs one operation per resource at a time, records nothing of a
  failed one, and creates before it deletes when it replaces, because
  `build_diff_response` never asks for the other order.
- Texts, names and bindings are values: spelling, YAML, escaping and validation
  messages are left out; `ModelText` has a text as a sequence of pieces.
- Values of fields are few in `BqShapes` (an external table has its five, `skipLeadingRows` of
  its `csvOptions` among them). `deletionProtection` excludes an expiration only
  when it is true (`table/validate.rs` 152).
- `ManagedResource` leaves out what outputs add to inputs, so that the comparison of
  an update (with the outputs) and that of a preview (with the old inputs) are the
  same there.
- `SnapshotHistory`: a row of the source is its key and its `updatedAt`, which grows
  when the row changes; a statement sees one state of the source and is atomic.
- Types, modes and nested fields of columns lead
  to no statement and are left out of `SchemaEvolution`.
- Etags are always issued and never empty (see 6).

## 5. What is proved

TLAPS checks these for *every* value of the constants that satisfies the module's
assumption (`BreakerAssumption`, `ClientAssumption`, `OperationAssumption`,
`PairAssumption`, `MissingAssumption`, `SchemaAssumption`, `DbtAssumption`,
`PolicyAssumption`, `ManagedAssumption`, `ProgramAssumption`, `FrameAssumption`,
`OptionsAssumption`, `HistoryAssumption`, `TextAssumption`; TLC evaluates them in the runs).
`TextAssumption` says that what a user declares, in a project, a macro or a model, is a
text that somebody can write (`Authored`; in the body of a macro also a call that hands a
parameter on, `Bodies`), that no macro is called `{{`, that the names the pipeline itself uses
are names, and that there is a round of macro expansion. Nothing is assumed of `Oversized`. A theorem
that needs more says so in its `ASSUME`:

| Hypothesis | Theorems | What it says |
|---|---|---|
| `SameIdentity` | `PairMatchesHolds`, `RunsTheBatchHolds` | there is one service account; without it a replacement removes the pair (run `pair_replace`) |
| `OneRoles` | those of SchemaEvolutionProofs | no program uses a name for two columns; without it run `schema_reuse` |
| `Disciplined` | `OnlyDeletedLostHolds` | a failed program is repeated, or the state refreshed, before another one is tried; see [4](#bounds) |
| `MissingIsNone`, `NoRecord` | those of DbtModelsProofs and ManagedResourceProofs | `Missing`, or `Absent`, is no record, as TLC takes a model value |

### ServiceProofs

*Breakers:* `TypeCorrect`, `NoTripLost`, `NoCloseLost`. The inductive
invariant is `IInv == TypeOK /\ NoLostTrip /\ NoLostClose`: the two properties are
inductive together with the types because they name the program points at which
somebody is responsible for the discrepancy. Each step either leaves the witness
where it is or is the step that settles the matter.

*Client:* `ClientTypeCorrect`; `ClientUsesBreakers`, the refinement:
every step of the client is a step of `CircuitBreaker` or leaves its variables
alone, so `NoLostTrip` and `NoLostClose` hold of the client;
`OnlyFaultyTripsHolds`, for the json verbs. The strengthening (`Healthy`) says that
no operation on the breaker of a healthy service is anywhere inside
`record_failure` or beyond the first load of `allow_request`.

*Waits:* `WaitTypeCorrect`; `WaitBoundedHolds` from `BoundInv`, which
bounds the elapsed time at each point of the loop; `SuccessIsRealHolds` from
`KnownInv`, what the client knows of the operation at each point;
`NoticedSoonHolds` from `NoticeInv`, the time since the end of the operation at each
point, with `interval <= initial + elapsed`, the fact that a doubled interval
never exceeds the wait so far.

### ScheduledPairProofs

*Pairs:* `PairTypeCorrect` (from `TInv`: which operation a point
belongs to, so that only `delete` polls and never beyond its rounds);
`OnlyValidInstalledHolds` (from `ValidInv`: wherever a workflow is about to be
written, the goal has passed the dry run); `CreateDeploysHolds` (from `DeployInv`: what has been
installed at each point of a create, which every fault leaves by the error path; a job
that this create made runs, and one that it found paused is `inherited`).
`PairMatchesHolds` and `RunsTheBatchHolds` rest on `PlainInv` (nothing is replaced),
`DeployInv`, and what is in place at each point of an update: `BatchInv` through any
faults, `MatchInv` without.

*Snapshots:* `HistoryKeptHolds`, for any finite set of keys, any executions at once and any
length of time. `HistoryInv` adds to the types: no version is younger than the clock or
than its row (`ClockOK`), and (`RunsOK`) an execution that nothing has intruded
upon finds, after its first statement, that the row of no open version has changed, and
after its second, that every row of the source has exactly its current value open. Each
statement is shown to carry one to the next; the versions of a row follow one another
because a new one is inserted at the clock and every earlier one ends before.

### SchemaEvolutionProofs

Any columns, tables, numbers of updates and faults, and any programs in which every name
has one role.

- `ReapplyIsNoopHolds`, from `RInv`: what is left of a script are statements of the
  program, and after a success the record is the program's.
- `OnlyDeletedLostHolds`, from `LInv`. A drop destroys what a *name* stands for when it is
  executed; the property is about data. So the invariant says that the record has the data
  of the columns it names: after a success in what the scripts still under way will
  make of the table (`ForetoldOK`), while a program has not succeeded for the columns it deletes
  (`SyncedOK`, which needs `Disciplined`), hence what a drop that was sent finds is
  condemned (`CondemnedOK`). `SentOK`: what an outlived script has not done is still to
  come in the one that is waited for, so the two can run into each other.
- `SuccessIsAppliedHolds`, from `SInv`: the table is on the way from the one the update
  found to the one the program asks for, and what is missing is still in the script
  (`ProgressOK`).
- `RecoverableHolds`, from `PInv`: whatever part of the statements took effect, in any
  scripts, the table is one that some of them make of the one found first
  (`Partial`); on such a table the program passes its check, and its script runs to the end
  and gives what was asked.

### DbtModelsProofs

Any models, stacks, deploys and faults. The common invariant
`IInv` has `JobsOK` (a statement that outlived its call is one its model sends, and its
table counts as stray), `ManagedOK` (a managed table is of kind table, so only a MERGE is
possible) and `OrphansOK` (a model without a record has a table only between
its statement and its answer): `ManagedKeptHolds`, `NoOrphansHolds`.

- `RefsExistHolds`: `RInv` adds that what a begun model refers to is done, hence
  recorded, hence there.
- `MergeMatchesHolds`: `MInv` adds that a MERGE recorded as tested runs, and so does
  the one of a create that is about to return.
- `CtesClosedHolds`: `CInv` says that whatever is recorded, was given to BigQuery or still
  runs has been resolved, and its CTEs read earlier ones only. That it is so of what the
  resolver makes is an induction over two nested folds (`Bringing`, over the CTEs that come with an
  ephemeral model, and `Resolving`, over the references).
- `UpToDateHolds`: `UInv` says that a recorded model's table is the one its
  inputs ask for (`FitsOK`), that a done model is recorded as declared (`DoneOK`), and that a
  successful deploy has gone through all of them (`DeployOK`).
- `ConvergesHolds`: `KInv` counts. As long as deploys of one stack fail without a fault, and
  the stack is not `Stuck` (its tables stand in its way and will go on doing so), each
  failure is that of the dry run of a MERGE that was built from the old columns of a table
  the same handler has then rebuilt. `CountOK`: as many deploys have failed as there
  are incremental models whose table has the columns of its query (`Rebuilt`), which none
  loses again. It needs `ColumnsOK`, what the columns of a MERGE were read from, `QuietOK`, that
  nothing is executed behind such a deploy, and that there are finitely many models. A
  statement that BigQuery refuses in such a deploy, on the other hand, shows that the stack
  is stuck (`RefusedIsStuck`).

*Options:* `OptionsHeldHolds`, for any declarations, from `OptionsInv`: what check
has found still holds when create runs, and the statement is made of the options
check has seen.

### AgentProofs

*Policies:* `PolicyTypeCorrect`; `PolicyImplementsContract`;
`RecordedIsWritten`. The key is `WireInv`: *every* write still on its way carries
the current etag and exactly what its operation makes of the current policy, since
any accepted write or foreign change makes the others refusable. So when it is
executed, the step is an atomic operation of the contract; `IdInv` (operation
numbers are unique, and one that has not written is fresh) gives the at-most-once.

*Chat:* `FramesAreWhole`, for every limit, every notion of what decodes
and every division into chunks. The invariant is `FramesTypeOK /\ FramesInv`. Until
the limit is met the parser `Follows` the sender: its buffer is the message so far,
its depth the number of open brackets, its two flags the sender's position in a
string, and what it has delivered and collected is what was completed. After the
limit it has `Stopped`, and what it delivered is a prefix of what was sent, which
only grows. Each byte is one step of the proof for each way through `push`; the
facts about sequences and counts it uses are lemmas at the top of the module.

### ManagedResourceProofs

Every kind of resource, whatever its programs, and any number of faults, changes by
others, condemned objects and long-running operations.

`ExistsHolds`, `NoStrayHolds`, `ContentsKeptHolds`: the properties speak of
the times between operations, so the invariant `IInv` says what holds inside one:
`OpOK`, what the engine has in hand belongs to a record it has; `QueueOK` and
`ComingOK`, no two long-running operations make the same object, and what they will
make is not there yet and is awaited or given up; `Accounted`, every object is
somebody's, and one whose deletion is being polled would be somebody's without its record;
`Safe`, the recorded object is there, is not dying, and shares its id with nothing that
is going to be deleted; `FilledOK`, only datasets that are there hold tables.
`lost` is where adoptions of a dying or condemned name go, which is why the
invariant survives them, and difference (a) of [6](#6-findings-and-other-differences)
is outside `Exists`.

`OnlyFaultsFailHolds`: `FInv` adds that what is dying is loose or being waited for
(`DyingOK`) and what an operation in regions without the Sync methods knows (`SyncOK`).

`InStepHolds` and `RefreshKeepsHolds` depend on the shapes of the seven resources.
The first part of the argument is about the shapes alone: for each kind, what the body of a
create and that of a patch, the diff and the read do with one field. `ProgramAssumption`,
that a program has the fields of its kind and `Absent` is the value of none that is
given, is all they need of the programs. The second part is `HInv`:

- `ShapesOK`, an object has the fields of its kind, and inputs are a program's or what a
  read makes of an object.
- `PlansOK`, what the engine has in hand is what the diff of the record and the new inputs
  allows, and `WaitOK`, what a create is waiting for is what its body makes.
- `HeldOK`: as long as the record stands for its object (`Living`), each field that nobody
  else has touched `Turns` into what the inputs say. *Turns* is about the object
  after all long-running operations that are still queued, and the inputs are those of the
  record or, in the wait of an update, those being sent (`Goal`). So a patch that was
  accepted and whose answer is still to come, the same patch repeated by the client, and
  one that a failed update left queued are one case.

### ModelTextProofs

Any projects, macros, alphabets and texts, any notion of too long, and any number of rounds;
macros may hand their parameters on. The invariant is only the type, `TextType`, with what
was deployed (`Deployed`): the handlers keep nothing, so both theorems are about functions
of a text. The first part of the module has what the proofs need of sequences: `FlattenSeq`
one text after another, texts put together piece by piece (`Becomes`), two such passes as one
(`BecomesTwice`), one over texts that are put together (`BecomesFlat`), and what a stage makes
of a piece.

- `AcceptedResolvesHolds`. Check expands the text as it was written, create one that was
  preprocessed first, and the two are not the same: create has no blocks that are dropped,
  has raw regions set aside and variables replaced. `Covers` relates them: each piece of the
  text created is `Harmless` (set aside, or neither a call nor a reference that fails) or
  `Like` one of the text checked, the same but for harmless arguments (`CallsAlike`).
  Preprocessing establishes it (`PreprocessCovers`, `Safe` being what the hypotheses say of a
  piece), and a round keeps it (`RoundCovers`, with `HandedLike` for the calls in a body that
  are handed such arguments). So when the checked text has no call left after the last round,
  neither has the created one, and a reference that would fail is one that check has refused.
  What is not so related is the length and NUL: that is `Refused`.
- `RendersAsMeantHolds`. *Places:* `Accounted` says what the fold over the blocks knows
  after so many pieces: which are out already, which are held, and what becomes of these
  if the block is closed and if it is not. `BlocksPlaces` is its end: the text by the
  positions of its tags. Everything that comes after the blocks is done to each piece by
  itself, so it can be done at its place.
  *Rounds:* what is left of a piece after k rounds, and resolution, is a function of the
  piece alone (`Unwound`, by `UnwoundText`): expanding a text is expanding its pieces. That is
  compared with `Standing`, by induction on k: for pieces without variables and the like
  (`Still`, which is all there is in a macro besides calls of such arguments: `StillMacros`,
  `StillEnds`), then for a call (`CallEnds`), then for any (`PieceEnds`). A call does not end as
  itself but as the same call with the arguments as they were written (`SameCall`), and handing
  these to a call in the macro's body gives the same again (`HandedSame`). Two sides of the
  induction are thus a call after the preprocessing and one before. A call nobody knows would stay
  a call in every round, so an accepted text reaches none: the pieces it reaches are a
  `Complete` set (`AcceptedReaches`).

All conditions are in the properties, so the theorems have no hypothesis but the
module's. `Refused` is what create alone looks at; `Ordinary` excludes what the pipeline really
renders otherwise than meant (see [6](#6-findings-and-other-differences)), and
`VarsKnown`/`VarsResolve` what check does not look into: a variable's value.

### FoldInduction

The library's induction theorems take an operator as a parameter, which the
provers cannot instantiate. `FoldInduction` is the way around: its constants `Op` and
`Holds` are given their values by `INSTANCE`, it proves that a fold from the left *walks*
from one result to the next, and that what the base has and every step keeps, the result
has. `SetInduction` is induction over the natural numbers, from the well-foundedness
of `<`, and `RecursionRecurs` says that a function defined by what it is at zero and at the
next number exists and is what it was defined to be. The schema script, BigQuery's execution
of it, the resolver's CTEs, and the blocks and macro rounds of a model's text are reasoned about
in this way.

### What is only model-checked

- Liveness (`EveryCallReturns`, `OpenRecovers`, `WaitEnds`, `OperationEnds`), which is out
  of the prover's reach.
- The properties that are violated.

## 6. Findings and other differences

Violated in a run, with a trace TLC prints:

- **`pair_replace`** A new `serviceAccount` replaces a `SqlJob` under the same names
  (`scheduler/handlers.rs` 92): the create adopts the old workflow and job, the
  delete of the old resource then removes both.
- **`schema_reuse`** A program that deletes `b` and renames `a` to `b` is accepted;
  applied again, unchanged, it drops the renamed column (`schema/diff.rs` 38).
- **`dbt_stale`** When the text of an ephemeral model changes, the models that
  inline it see no difference and keep the old text (`dbt/handlers.rs` 1165).
- **`policy_delete`** Deleting a `DataAgentIamPolicy` writes an empty policy although
  the comment before it says that the bindings of others survive
  (`agents/handlers.rs` 408-415).

Seen while modelling or in a trace of an earlier version, kept as description:

*Breakers and client.* The comment at `breaker.rs` 114 speaks of one probe, but
every caller is admitted while half-open (107). `HALF_OPEN` is stored on an
elapsed time read earlier, also over a CLOSED state (113-115). `http.rs` 136-142
asks the breaker before the sleep, so an attempt is sent to a breaker opened
meanwhile. `post_stream` hands every non-success status to `record_failure`
(307-308), so five malformed chat requests open the breaker of their service,
which 160 says must not happen ("tripping the breaker on them would let one
malformed request block every other resource"); this is why `OnlyFaultyTrips` is
about the json verbs.

*Pairs.* Whether an update of a `SqlJob` rewrites the workflow is decided by the
record (`handlers.rs` 267), which a failed update leaves behind: going back to the
recorded query then succeeds with the other one installed (`RunsTheBatch` fails of
SQL jobs and snapshots;
`tests/lifecycle.rs` 111 calls that worse than failing). A failed create whose
pause is refused leaves both halves running (211; `tests/lifecycle.rs` 272), and
the rollback removes an adopted workflow too and none of an ambiguous job
(201-207). `delete` looks at neither result and reports success after ten rounds
(`job_lifecycle.rs` 19-37), and `verified_delete` does likewise. A snapshot created
paused runs (`snapshot/handlers.rs` 197-226). A create only ever pauses: with `paused` false
(or not given) over a paused job that was left under its name, it adopts the job, rewrites
it, leaves it paused and succeeds, with PAUSED among its outputs (`scheduler/handlers.rs` 211-218,
`ingest.rs` 385-393, `export.rs` 325-333), though `schema.json` 1189 lets `paused` say whether the job
starts paused. Only an update that states `paused` resumes it (319-324), and there is none
as long as the program does not change; `Deployed` excepts such a job (`inherited`). An update with `paused` unset records
ENABLED whatever the job is (342). Adoption keeps the old service account
(`ops.rs` 172).

*Waits.* After its operation a workflow's state is read once, against the comment at
`ops.rs` 271 (310-317). An update answered without an operation name sees the old
revision's ACTIVE (290). `await_agent` answers done without asking (`agents/ops.rs`
582-601), and an unnamed Vertex operation counts as done.

*Schema.* A column the last program deleted and the next one inserts is not added:
the preview compares with inputs that still list it (`handlers.rs` 81). A
rename cycle is broken by two renames that are followed by the original ones, which
then fail (`diff.rs` 109-179, `ddl.rs` 43); chains in the wrong order fail. A
delete left in the program gives a difference on every preview. A delete of
a column that the record no longer lists is ignored, as is an insert of a name
the same program frees by a rename. A rename with neither name present is recorded
as done. `execute_ddl` ignores `jobComplete` (`ops.rs` 158-168). Protected columns
can be renamed. Changes of type, mode, and of the description of a renamed column
are ignored.

*dbt.* `read_dbt_model` takes every error of `get_table` for a deletion. Changes of
`vars` and `sources` are no difference. `CREATE MATERIALIZED VIEW` has no OR
REPLACE, so a changed one always fails (against the comment at 444). An update that
was executed and reported as failed, and is then rolled back in the program, finds no
difference. The MERGE of an incremental model is built from the columns read
before its table is replaced, on updates without a dry run; on the first create it
only inserts. A table that becomes ephemeral stays; table and view cannot be
exchanged; a create that fails after its table was made leaves it.

*dbt text.* A builtin, or a variable whose value is a template, is expanded inside
its braces, and what remains, `{{ CURRENT_TIMESTAMP() }}`, is a call that nobody
resolves and that reaches BigQuery, although check accepts the text
(`scanner.rs` 145-152, `resolver.rs` 91-98; `preprocess.rs` 11 and
`CHANGELOG.md` 134-137 describe both as supported). The bodies of macros are never
preprocessed: `{{ this }}`, `{{ var() }}`, blocks, raw regions and builtins in them
stay, and check accepts them. The comment at `scanner.rs` 154-156 speaks of
preserving the original braces, which are dropped. Check scans the text without
preprocessing it, so templates in raw regions are validated and a `config` there
counts, the value of a variable is not scanned, and an unknown variable is found by
create only. `if` blocks do not nest: the first `endif` closes. A chain of exactly ten
macros is an error. `substitute_args` replaces one parameter after the other, so
the value of the first is searched for the second. The limit of 1 MiB (`macros.rs` 35-42,
105-107) is applied by check to the text as written and by create to the preprocessed one,
which is longer where a raw region was encoded or a variable replaced; and NUL is refused by
`protect_raw_regions` (`preprocess.rs` 155-159), which check does not run, before the
variables are replaced, so that one in a variable's value passes. Both refuse in create what
check has accepted, and the properties on texts except both (`Refused`); the 1 MiB is not applied
to the text after resolution. A template among the arguments of a call ends the call at its own
braces (`scanner.rs` 100-116): a parameter of no macro in the body of one, or a variable whose value
is a template, leaves a piece of a call, which is text, or a call nobody knows. In the model that is
`Plain("{{")` and a call named `{{`; a variable of that kind is outside both properties
(`VarsResolve`, `Ordinary`), and an author who writes a template into an argument of the model's text,
or one that names a model or a source into an argument in a macro, is outside the model
(`Authored`, `Bodies`).

*dbt options.* Without a `config` block options are not validated. A number that
does not parse is dropped silently. `partition_expiration_days` is written under its
own name with the value in milliseconds (`options.rs` 43-45), that is 86 400 000 times as
long; `OptionsHeld` compares with what `to_ddl` makes of a value. The options of an
ephemeral model are dropped. A view with `partition_by` may require a partition
filter. An empty `unique_key` list is accepted.

*Chat.* When a message passes the limit, the messages that were completed earlier in
the same chunk are lost with it (`chat.rs` 70-116); the fuzz target exempts
that case.

*Snapshots.* The INSERT has no list of columns and selects `src.*` followed by the four
`dbt_` columns (`ddl.rs` 62-68). After the source gains a column every INSERT
fails, whether or not the table was adapted, since an ALTER adds the column after the
`dbt_` ones; and the UPDATE before it has already closed the changed versions, so
the history closes and does not open (`schema.json` 1328 says the table evolves to match
the source). `HistoryKept` speaks of executions that end, which these never do.
Two executions that insert at the same moment leave the current version twice until
the row changes again. A row that changes between the two statements has two
open versions until the next execution. Each statement has its own
`CURRENT_TIMESTAMP`, so a version ends a little before the next one begins. A new
`uniqueKey` replaces the resource and keeps the table (`CREATE TABLE IF NOT
EXISTS`).

*Managed resources.* (a) A replacement that keeps its name creates, meets the old
object, adopts it, and then deletes it as the old resource: success, and nothing is
there. (b) A refresh drops the fields a read does not return, so the next
`up` replaces or changes; an agent without a location differs from one in
"global". (c) Accepted differences without effect: `maxStaleness`, the refresh settings of
a materialized view, the expiration of partitions, `deletionProtection` on
create, an agent's `kmsKey` on update. (d) An optional field that is removed from the program is often
not cleared, and labels of BigQuery are only added. (e) Adoption leaves the
fields that would need a replacement as they are. (f) The refresh of a deleted BigQuery
object fails, that of a deleted agent forgets it. (g) A conversation whose create lost its
answer cannot be created again (409 is an error there); any change of one with the
same id meets itself. (h) An engine or memory whose create lost its answer, or
was repeated by the client, is left behind; a memory whose operation has no
response gets an id that names no memory. (i) A range partitioning that lacks a
member counts as none. (j) `verified_delete` reports success when its polls run
out (its comment at `lifecycle.rs` 44 says "until confirmed gone"). (k) In regions
without the Sync methods (`ops.rs` 8-14) the wait asks nothing about the operation:
a create fails when the agent is not there yet, an update is reported as applied
although it may fail, and a 404 of the method is taken for a deleted agent. (l)
`publish` going from true to false erases the published context. (m) An update that
took effect and was reported as failed, then taken back in the program, leaves
the object changed with no difference to see.

*Policies.* A refresh makes all grants in force the inputs, without
`authoritative`, so the next deploy always has a difference. Grants dropped from an additive declaration
stay in force. A policy without an etag would be written unconditionally
(`api_body.rs` 177). Conditions of bindings are not read, so they are lost by a
write.

## 7. What is not modelled

- **Credentials** (`auth.rs`): a provider resolved once in front of an external
  token cache; `RetryClient` has the call as a step that may fail.
- **Error texts, sanitizing, output and JSON building, protobuf access**:
  conversions without state. What they decide, such as which status is retryable
  or which fields differ, is in the models of their callers.
- **Dispatch, schema, binary** (`gcpx-provider`, `pulumi-resource-gcpx`): a
  stateless table from types to handlers and a static document.
- **Dataproc text and fingerprints** (`workflow_template.rs`, `parse.rs`,
  `types.rs`): a definition is one value in `ScheduledPair`; what reaches it is
  the formatting of arguments.
- **`validate_model_schema`** (contracts, tests and columns of a model) and the merge of
  a project's options: comparisons of two maps with a message for each entry.
- **How chat messages become an answer** (`chat.rs`, absorbing thoughts, texts, queries,
  charts): a fold that picks fields.
- **The characters inside a template**: `ModelText` begins with the scanner's pieces, so
  quoting, white space and unbalanced braces are left out.
- **Eventual consistency, quotas, cost**: the services are as strong as the code
  supposes; estimates and the limit on billed bytes are one refusal among others.
- **Test doubles, Python packaging, examples, fuzz targets, scripts**.

## 8. Plan

The order is by what can go wrong with data or access first. Done:

1. `CircuitBreaker`, `RetryClient`: the state all handlers share. 2. `Operation`.
3. `ScheduledPair`. 4. `SchemaEvolution`. 5. `DbtModels`. 6. `AgentPolicy` with its
abstract specification. 7. `ManagedResource` with the shapes of seven resources.
8. `ChatFrames`. 9. `ModelText`. 10. `ModelOptions`. 11. `SnapshotHistory`. 12. The proofs
of all of them: every safety property of a passing run is a theorem.

Left, none of it needed by what is there:

13. Dataproc: which inputs reach the fingerprint, and so which changes are noticed.
14. Abstract specifications: `BreakerContract`, a breaker of atomic operations that the
    breakers implement when used by one task at a time; a managed object that the
    shapes of `ManagedResource` implement.
15. Proofs: type invariants of the models whose proofs did without one.
16. Chat messages into an answer, over `ChatFrames`.

The runs that show a difference give up their place when a component needs it; their
description stays in [6](#6-findings-and-other-differences).
