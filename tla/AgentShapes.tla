----------------------------- MODULE AgentShapes -----------------------------
(***************************************************************************)
(* What gcpx-agents makes of the inputs of its DataAgent, Conversation,    *)
(* AgentEngine and Memory resources.                                       *)
(***************************************************************************)
EXTENDS ResourceFields

\* Where an agent is grounded: Looker explores if there are any whole ones,
\* else the tables named and the models that have a table.  A reference is a
\* name, or "bad" when it does not have its three parts.
Grounded(refs) == refs \ {"bad"}

TablesOfModels(models) ==
  Grounded({m.tableRef : m \in {n \in models : n.materialization # "ephemeral"}})

Datasources(p) ==
  IF Grounded(p["lookerExplores"]) # {}
  THEN [kind |-> "looker", refs |-> Grounded(p["lookerExplores"])]
  ELSE [kind |-> "bigquery", refs |-> Grounded(p["tables"]) \cup TablesOfModels(p["models"])]

-----------------------------------------------------------------------------
(* Data agents. *)

AgentIds == {"project", "location", "agentId"}
AgentTexts == {"displayName", "description"}
AgentOptions == {"chartRendering", "pythonAnalysis", "model"}
AgentContext == {"systemInstruction", "exampleQueries", "glossaryTerms"} \cup AgentOptions
Sources == {"lookerExplores", "tables", "models"}
AgentInputs == AgentIds \cup AgentTexts \cup {"labels", "kmsKey", "publish"}
  \cup AgentContext \cup Sources

\* The fields of the agent the service keeps.
AgentFields == AgentIds \cup AgentTexts \cup {"labels", "kmsKey", "staging", "published"}

ParseAgent(p) == [p EXCEPT !["location"] = IF @ = Absent THEN "global" ELSE @]

ValidAgent(p) ==
  /\ \A f \in AgentIds \cup {"systemInstruction"} : p[f] # Absent
  /\ Datasources(p).refs # {}
  /\ p["chartRendering"] # "bad" /\ p["exampleQueries"] # "bad" /\ p["agentId"] # "bad"

Context(p) ==
  [f \in {g \in AgentContext : p[g] # Absent} \cup {"datasources"} |->
     IF f = "datasources" THEN Datasources(p) ELSE p[f]]

\* The context goes to staging, and is published too on request.
AgentBody(p) ==
  [f \in {g \in AgentTexts \cup {"labels", "kmsKey"} : p[g] # Absent} \cup {"staging"}
           \cup (IF p["publish"] = TRUE THEN {"published"} ELSE {}) |->
     IF f \in {"staging", "published"} THEN Context(p) ELSE p[f]]

\* dataAnalyticsAgent, which holds both contexts, is always in the mask; the
\* key is in none.
AgentUpdateMask(p) ==
  {"staging", "published"} \cup {f \in AgentTexts \cup {"labels"} : p[f] # Absent}

\* The patch sets what the mask names, to nothing where the body has nothing.
AgentPatch(p) ==
  [f \in AgentUpdateMask(p) |-> IF f \in DOMAIN AgentBody(p) THEN AgentBody(p)[f] ELSE Absent]

CheckAgent(p) == ValidAgent(ParseAgent(p))

\* The identity is compared as given: an agent whose location is left out and
\* one in the location that is its default are different.
DiffAgent(olds, news) ==
  [replace |-> DifferingFields(olds, news, AgentIds),
   update |-> {f \in {"context"} : AgentBody(olds) # AgentBody(news)}
     \cup {f \in {"publish"} : (olds[f] = TRUE) # (news[f] = TRUE)}]

CreateAgent(p) ==
  [body |-> WithPath(AgentBody(p), ParseAgent(p), AgentIds),
   adopts |-> TRUE, patch |-> AgentPatch(p)]

\* A read returns the texts and whether the agent is published, no context.
ReadAgent(o) ==
  [f \in AgentInputs |-> IF f \in AgentIds \cup AgentTexts THEN o[f]
                         ELSE IF f \in Sources THEN {} ELSE Absent]

-----------------------------------------------------------------------------
(* Conversations. *)

ConversationIds == {"project", "location", "conversationId"}
ConversationFields == ConversationIds \cup {"agents", "labels"}

ParseConversation(p) == [p EXCEPT !["location"] = IF @ = Absent THEN "global" ELSE @]

CheckConversation(p) == \A f \in {"project", "conversationId", "agents"} : p[f] # Absent

\* The service has no update: every change is a replacement.
DiffConversation(olds, news) ==
  [replace |-> DifferingFields(olds, news, ConversationFields), update |-> {}]

CreateConversation(p) ==
  LET c == ParseConversation(p)  IN
  [body |-> Given(c, ConversationFields), adopts |-> FALSE, patch |-> <<>>]

ReadConversation(o) ==
  [f \in ConversationFields |-> IF f = "labels" THEN Absent ELSE o[f]]

-----------------------------------------------------------------------------
(* Agent engines: the service assigns the id. *)

EngineIds == {"project", "location"}
EngineSpec == {"pickleUri", "requirementsUri", "dependencyFilesUri", "pythonVersion",
               "env", "secretEnv"}
EngineTexts == {"displayName", "description"}
EngineFields == EngineIds \cup EngineTexts \cup EngineSpec
EngineReplaced == EngineIds \cup {"pythonVersion"}

CheckEngine(p) ==
  /\ \A f \in EngineIds \cup {"displayName"} : p[f] # Absent
  /\ p["location"] # "global"
  /\ \A f \in {"pickleUri", "requirementsUri", "dependencyFilesUri", "secretEnv"} : p[f] # "bad"

DiffEngine(olds, news) ==
  LET changed == DifferingFields(olds, news, EngineFields)  IN
  [replace |-> changed \cap EngineReplaced, update |-> changed \ EngineReplaced]

EngineBody(p) == Given(p, EngineTexts \cup EngineSpec)

CreateEngine(p) ==
  [body |-> WithPath(EngineBody(p), p, EngineIds), adopts |-> FALSE, patch |-> <<>>]

\* The mask is "displayName,description,spec".
UpdateEngine(p) == [f \in EngineTexts \cup EngineSpec |-> p[f]]

ReadEngine(o) == [f \in EngineFields |-> IF f \in EngineIds \cup EngineTexts THEN o[f] ELSE Absent]

-----------------------------------------------------------------------------
(* Memories of an engine: the service assigns the id. *)

MemoryIds == {"project", "location", "engineId"}
MemoryUpdated == {"fact", "displayName", "description"}
MemoryReplaced == MemoryIds \cup {"scope"}
MemoryFields == MemoryReplaced \cup MemoryUpdated

CheckMemory(p) == \A f \in MemoryIds \cup {"fact"} : p[f] # Absent

DiffMemory(olds, news) ==
  LET changed == DifferingFields(olds, news, MemoryFields)  IN
  [replace |-> changed \cap MemoryReplaced, update |-> changed \ MemoryReplaced]

MemoryBody(p) == Given(p, MemoryUpdated \cup {"scope"})

CreateMemory(p) ==
  [body |-> WithPath(MemoryBody(p), p, MemoryIds), adopts |-> FALSE, patch |-> <<>>]

\* The mask is "fact,displayName,description".
UpdateMemory(p) == [f \in MemoryUpdated |-> p[f]]

ReadMemory(o) == [f \in MemoryFields |-> IF f \in MemoryIds \cup {"fact"} THEN o[f] ELSE Absent]

=============================================================================
