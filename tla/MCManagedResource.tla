------------------------- MODULE MCManagedResource -------------------------
(* Programs of each kind that differ in a field of every sort: an id, one   *)
(* that is replaced, one that is updated, one that is only ever set, one    *)
(* that a read leaves out, labels.                                          *)
EXTENDS ManagedResource

CONSTANTS absent, MCKinds, MCRegions

With(fields, ids, given) ==
  [f \in fields |-> IF f \in DOMAIN given THEN given[f]
                    ELSE IF f \in ids THEN "x" ELSE absent]

Table(given) == With(TableFields, TableIds, given)
Partitioned(days) ==
  "timePartitioning" :> "t" @@ "timePartitioning.type" :> "DAY"
    @@ "timePartitioning.expirationMs" :> days
Tables == {
  Table("description" :> "a" @@ "labels" :> {"l"} @@ "expirationTime" :> 1
          @@ "deletionProtection" :> FALSE @@ Partitioned(1)),
  Table("clusterings" :> <<"c">> @@ "labels" :> {"m"} @@ Partitioned(2)),
  Table("view" :> "v" @@ "view.query" :> "q" @@ "tableId" :> "y") }

Dataset(given) == With(DatasetFields, DatasetIds, given @@ [location |-> "us"])
Datasets == {
  Dataset([description |-> "a", labels |-> {"l"}, maxTimeTravelHours |-> "48"]),
  Dataset([friendlyName |-> "b", storageBillingModel |-> "LOGICAL"]),
  Dataset([deleteContentsOnDestroy |-> TRUE, labels |-> {"m"}, location |-> "eu"]),
  Dataset([datasetId |-> "y", storageBillingModel |-> "PHYSICAL"]) }

Routine(given) == With(RoutineFields, RoutineReplaced, [definitionBody |-> "q"] @@ given)
Routines == {
  Routine(<<>>),
  Routine([description |-> "a", returnType |-> "INT64"]),
  With(RoutineFields, RoutineReplaced, [definitionBody |-> "r", language |-> "JS",
                                        importedLibraries |-> "lib"]),
  Routine([routineId |-> "y", description |-> "b"]) }

Agent(given) ==
  With(AgentInputs, AgentIds, given @@ [systemInstruction |-> "s", lookerExplores |-> {},
                                        tables |-> {"t"}, models |-> {}])
DataAgents == {
  Agent([displayName |-> "a", labels |-> {"l"}, kmsKey |-> "k", tables |-> {"t", "bad"}]),
  Agent([models |-> {[materialization |-> "table", tableRef |-> "u"],
                     [materialization |-> "ephemeral", tableRef |-> "v"]},
         description |-> "b", publish |-> TRUE]),
  Agent([location |-> absent, publish |-> TRUE, lookerExplores |-> {"e"}]) }

Conversation(given) == With(ConversationFields, ConversationIds, [agents |-> {"a"}] @@ given)
Conversations == {
  Conversation(<<>>),
  Conversation([labels |-> {"l"}]),
  Conversation([conversationId |-> "y"]),
  Conversation([location |-> absent]),
  With(ConversationFields, ConversationIds, [agents |-> {"b"}, conversationId |-> "y"]) }

Engine(given) == With(EngineFields, EngineIds \cup {"displayName"}, given)
Engines == {
  Engine(<<>>),
  Engine([description |-> "a", pickleUri |-> "gs"]),
  Engine([pythonVersion |-> "3", env |-> "e"]),
  Engine([location |-> "eu", secretEnv |-> "s", displayName |-> "b"]) }

MemoryOf(given) == With(MemoryFields, MemoryIds \cup {"fact"}, given)
Memories == {
  MemoryOf(<<>>),
  MemoryOf([displayName |-> "a", fact |-> "f"]),
  MemoryOf([scope |-> "s", description |-> "b"]),
  MemoryOf([engineId |-> "y"]) }

MCPrograms ==
  [k \in MCKinds |->
     CASE k = "table" -> Tables
       [] k = "dataset" -> Datasets
       [] k = "routine" -> Routines
       [] k = "dataAgent" -> DataAgents
       [] k = "conversation" -> Conversations
       [] k = "engine" -> Engines
       [] k = "memory" -> Memories]
=============================================================================
