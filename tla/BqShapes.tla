------------------------------ MODULE BqShapes ------------------------------
(***************************************************************************)
(* What gcpx-bq makes of the inputs of its Table, Dataset and Routine      *)
(* resources: how they are parsed and validated, which changes are         *)
(* replacements and which updates, what goes into the bodies of the        *)
(* requests, and what a read gives back.                                   *)
(*                                                                         *)
(* In a body Absent stands for a field sent to be cleared ("" for a text,  *)
(* null for the clustering).  A nested object has a field of its own that  *)
(* says whether it is there, and its members are fields named              *)
(* "object.member".                                                        *)
(***************************************************************************)
EXTENDS ResourceFields

-----------------------------------------------------------------------------
(* Tables. *)

TableIds == {"project", "dataset", "tableId"}

View == {"view.query", "view.useLegacySql"}
MatView == {"materializedView.query", "materializedView.enableRefresh",
            "materializedView.refreshIntervalMs", "materializedView.maxStaleness"}
TimePart == {"timePartitioning.type", "timePartitioning.field",
             "timePartitioning.expirationMs"}
RangePart == {"rangePartitioning.field", "rangePartitioning.range"}
External == {"external.sourceUris", "external.sourceFormat", "external.autodetect",
             "external.connectionId", "external.skipLeadingRows"}

\* The nested objects of a table and their members.
Objects == {"view", "materializedView", "timePartitioning", "rangePartitioning", "external"}
Members(o) == CASE o = "view" -> View
                [] o = "materializedView" -> MatView
                [] o = "timePartitioning" -> TimePart
                [] o = "rangePartitioning" -> RangePart
                [] o = "external" -> External

TableFields ==
  TableIds \cup Objects
    \cup {"description", "friendlyName", "labels", "expirationTime", "deletionProtection",
          "clusterings", "storageBillingModel", "maxStaleness", "encryptionKmsKey"}
    \cup UNION {Members(o) : o \in Objects}

\* Missing members have defaults; a range partitioning that lacks a member is
\* taken for none at all.
TableDefaults == [f \in {"timePartitioning.type", "external.sourceFormat"} |-> "default"]

ObjectsOf == [f \in TableFields |-> {o \in Objects : f = o \/ f \in Members(o)}]

ParseTable(p) ==
  LET there == {o \in Objects : /\ p[o] # Absent
                                /\ o = "rangePartitioning" => \A f \in RangePart : p[f] # Absent}
  IN  [f \in TableFields |->
         IF ~(ObjectsOf[f] \subseteq there) THEN Absent
         ELSE IF p[f] = Absent /\ f \in DOMAIN TableDefaults THEN TableDefaults[f] ELSE p[f]]

\* The values of clusterings, of texts and of dates are valid; what is validated
\* is what may stand together.
ValidTable(t) ==
  /\ \A f \in TableIds : t[f] # Absent
  /\ t["view"] = Absent \/ t["materializedView"] = Absent
  /\ t["view"] # Absent => t["view.query"] # Absent
  /\ t["materializedView"] # Absent => t["materializedView.query"] # Absent
  /\ t["timePartitioning"] = Absent \/ t["rangePartitioning"] = Absent
  /\ t["maxStaleness"] # Absent => t["materializedView"] # Absent
  /\ t["view"] # Absent =>
       \A f \in {"timePartitioning", "rangePartitioning", "clusterings"} : t[f] = Absent
  /\ t["external"] # Absent =>
       /\ t["view"] = Absent /\ t["materializedView"] = Absent
       /\ t["external.sourceUris"] # Absent
  /\ t["deletionProtection"] = TRUE => t["expirationTime"] = Absent

TableReplaced == TableIds \cup Objects \cup View \cup {"materializedView.query"}
  \cup (TimePart \ {"timePartitioning.expirationMs"}) \cup RangePart \cup External
  \cup {"encryptionKmsKey"}

TableUpdated == {"description", "friendlyName", "labels", "expirationTime",
  "deletionProtection", "clusterings", "storageBillingModel", "maxStaleness"}

\* Members compared only when both tables have the object.
MemberUpdated == {"timePartitioning.expirationMs"} \cup (MatView \ {"materializedView.query"})

TableDiff(old, new) ==
  [replace |-> DifferingFields(old, new, TableReplaced),
   update |-> DifferingFields(old, new, TableUpdated)
     \cup {f \in MemberUpdated : /\ old[f] # new[f]
                                 /\ \A o \in Objects : f \in Members(o) =>
                                      old[o] # Absent /\ new[o] # Absent}]

\* The body of tables.insert has everything given but these two.
TableCreateBody(t) ==
  Given(t, TableFields \ {"deletionProtection", "maxStaleness"})

\* The body of tables.patch: three fields are sent even when they are to be
\* cleared, three only when given, any other key of the diff is skipped.
TableCleared == {"description", "friendlyName", "clusterings", "labels"}
TableIfGiven == {"expirationTime", "deletionProtection", "storageBillingModel"}

\* Mutant of TablePatchBody: nothing is sent to be cleared.
TablePatchGiven(t, keys) ==
  [f \in {g \in keys \cap (TableCleared \cup TableIfGiven) : t[g] # Absent} |-> t[f]]

TablePatchBody(t, keys) ==
  [f \in (keys \cap TableCleared) \cup {g \in keys \cap TableIfGiven : t[g] # Absent} |-> t[f]]

TableAdoptKeys == TableCleared \cup TableIfGiven

\* A read knows of these fields only and leaves the others out.
TableRead == TableIds \cup {"description", "friendlyName", "labels", "expirationTime"}

\* The handlers, as what they ask of the service.
CheckTable(p) == ValidTable(ParseTable(p))

DiffTable(olds, news) == TableDiff(ParseTable(olds), ParseTable(news))

\* Mutant of CreateTable: a table that is there already is an error.
CreateTableOnce(p) ==
  LET t == ParseTable(p)  IN
  [body |-> TableCreateBody(t), adopts |-> FALSE, patch |-> TablePatchBody(t, TableAdoptKeys)]

CreateTable(p) ==
  LET t == ParseTable(p)  IN
  [body |-> TableCreateBody(t), adopts |-> TRUE, patch |-> TablePatchBody(t, TableAdoptKeys)]

ReadTable(o) == [f \in TableFields |-> IF f \in TableRead THEN o[f] ELSE Absent]

UpdateTable(olds, news) ==
  TablePatchBody(ParseTable(news), DiffTable(olds, news).update)

-----------------------------------------------------------------------------
(* Datasets. *)

DatasetIds == {"project", "datasetId"}
DatasetLimits == {"defaultTableExpirationMs", "defaultPartitionExpirationMs",
                  "storageBillingModel", "maxTimeTravelHours"}
DatasetFields == DatasetIds \cup DatasetLimits
  \cup {"location", "description", "friendlyName", "labels", "deleteContentsOnDestroy"}

\* maxTimeTravelHours is 0 or 48 to 168; "out" stands for any other number.
ValidDataset(d) ==
  /\ \A f \in DatasetIds \cup {"location"} : d[f] # Absent
  /\ d["maxTimeTravelHours"] # "out"

DatasetReplaced == DatasetIds \cup {"location"}
DatasetUpdated == DatasetFields \ (DatasetReplaced \cup {"deleteContentsOnDestroy"})

DatasetDiff(old, new) ==
  [replace |-> DifferingFields(old, new, DatasetReplaced),
   update |-> DifferingFields(old, new, DatasetUpdated)]

DatasetCreateBody(d) == Given(d, DatasetReplaced \cup DatasetUpdated)

DatasetCleared == {"description", "friendlyName", "labels"}

DatasetPatchBody(d, keys) ==
  [f \in (keys \cap DatasetCleared) \cup {g \in keys \cap DatasetLimits : d[g] # Absent} |-> d[f]]

CreateDataset(d) ==
  [body |-> DatasetCreateBody(d), adopts |-> TRUE, patch |-> DatasetPatchBody(d, DatasetUpdated)]

\* Mutant of ReadDataset: the location is taken to be the usual one.
ReadDatasetUs(o) ==
  [f \in DatasetFields |-> IF f = "location" THEN "us"
                           ELSE IF f = "deleteContentsOnDestroy" THEN Absent ELSE o[f]]

\* deleteContentsOnDestroy is no field of the service's.
ReadDataset(o) ==
  [f \in DatasetFields |-> IF f = "deleteContentsOnDestroy" THEN Absent ELSE o[f]]

UpdateDataset(olds, news) == DatasetPatchBody(news, DatasetDiff(olds, news).update)

\* Mutant of DeletesContents: contents go too unless that is forbidden.
DeletesContentsUnlessTold(d) == d["deleteContentsOnDestroy"] # FALSE

\* A dataset that holds tables is only deleted on request.
DeletesContents(d) == d["deleteContentsOnDestroy"] = TRUE

-----------------------------------------------------------------------------
(* Routines. *)

RoutineIds == {"project", "dataset", "routineId"}
RoutineReplaced == RoutineIds \cup {"routineType", "language"}
RoutineFields == RoutineReplaced \cup {"definitionBody", "description", "returnType",
  "determinismLevel", "importedLibraries", "arguments"}

ValidRoutine(r) ==
  /\ \A f \in RoutineReplaced \cup {"definitionBody"} : r[f] # Absent
  /\ r["language"] = "SQL" => r["importedLibraries"] = Absent

RoutineDiff(old, new) ==
  [replace |-> DifferingFields(old, new, RoutineReplaced),
   update |-> DifferingFields(old, new, RoutineFields \ RoutineReplaced)]

RoutineBody(r) == Given(r, RoutineFields)

\* An update puts the whole routine: what is not given is cleared.
UpdateRoutine(r) == [f \in RoutineFields |-> r[f]]

CreateRoutine(r) == [body |-> RoutineBody(r), adopts |-> TRUE, patch |-> UpdateRoutine(r)]

ReadRoutine(o) == [f \in RoutineFields |-> IF f \in RoutineReplaced THEN o[f] ELSE Absent]

=============================================================================
