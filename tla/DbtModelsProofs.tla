--------------------------- MODULE DbtModelsProofs ---------------------------
(***************************************************************************)
(* ManagedKept, NoOrphans, RefsExist, MergeMatches, CtesClosed, UpToDate   *)
(* and Converges, for any models, stacks and numbers of deploys and faults.*)
(* The folds of Inline and Resolve are reasoned about by FoldInduction.    *)
(* At the end, OptionsHeld of ModelOptions, for any declarations.          *)
(***************************************************************************)
EXTENDS DbtModels, ModelOptions, FiniteSetTheorems, TLAPS

\* Missing is neither a table nor a record.
MissingIsNone ==
  /\ \A k, c, q, o : [kind |-> k, cols |-> c, query |-> q, own |-> o] # Missing
  /\ \A i, o, t : [inputs |-> i, output |-> o, tested |-> t] # Missing

\* A statement that outlived its call is one its model sends, and its table may change.
JobsOK ==
  \A j \in jobs : j.model \in Models /\ HasStatement(j.model, j.mat) /\ j.model \in stray

\* What each model has is there for it, and a record is one.
ShapesOK ==
  /\ DOMAIN live = Models /\ DOMAIN recorded = Models /\ DOMAIN pc = Models
  /\ \A m \in Models : recorded[m] # Missing =>
       recorded[m] = [inputs |-> recorded[m].inputs, output |-> recorded[m].output,
                      tested |-> recorded[m].tested]

\* A table that a Table resource owns is a table, which only a MERGE can replace.
ManagedOK ==
  \A m \in Managed : live[m] # Missing /\ ~live[m].own /\ live[m].kind = "table"

\* Has the statement of m been executed, and its handler not returned?
Making(m) == pc[m] \in {"dryRun", "answer"} /\ HasStatement(m, stack[m].mat)

Tableless(m) == recorded[m] = Missing \/ recorded[m].output.mat = "ephemeral"

\* A model without a table has none, but for the one its handler is making.
OrphansOK ==
  \A m \in Models \ (Managed \cup stray) : Tableless(m) /\ ~Making(m) => live[m] = Missing

IInv == JobsOK /\ ShapesOK /\ ManagedOK /\ OrphansOK

-----------------------------------------------------------------------------
(* The statements.                                                          *)

\* A statement its model sends leaves the managed tables what they are, and changes
\* no table but the model's.
LEMMA ExecuteKeeps ==
  ASSUME MissingIsNone, IInv, NEW j, j.model \in Models, HasStatement(j.model, j.mat), Execute(j)
  PROVE  /\ ManagedOK' /\ DOMAIN live' = Models /\ live'[j.model] # Missing
         /\ \A m \in Models \ {j.model} : live'[m] = live[m]
<1> DEFINE new == [kind |-> Kind(j.mat), cols |-> j.query.body.sql, query |-> j.query,
                   own |-> ~Merges(j.model, j.mat)]
<1>1. live' = [live EXCEPT ![j.model] = new] /\ Possible(j) /\ DOMAIN live = Models
  BY DEF Execute, IInv, ShapesOK
<1>2. DOMAIN live' = Models /\ \A m \in Models \ {j.model} : live'[m] = live[m]
  BY <1>1
<1>3. ASSUME j.model \in Managed
      PROVE  new # Missing /\ ~new.own /\ new.kind = "table"
  <2>1. live[j.model] # Missing /\ live[j.model].kind = "table"
    BY <1>3 DEF IInv, ManagedOK
  <2>2. j.mat # "ephemeral" /\ j.mat # "incremental"
    BY <1>3 DEF HasStatement
  <2>3. j.mat = "table"
    BY <1>1, <1>3, <2>1, <2>2 DEF Possible, Merges, Replaces, Kind
  <2> QED BY <1>3, <2>3 DEF MissingIsNone, Merges, Kind
<1>4. live'[j.model] = new
  BY <1>1
<1>5. Managed \subseteq Models /\ new # Missing
  BY DbtAssumption DEF MissingIsNone
<1> HIDE DEF new
<1>6. ManagedOK'
  BY <1>2, <1>3, <1>4, <1>5 DEF IInv, ManagedOK
<1> QED BY <1>2, <1>4, <1>5, <1>6

-----------------------------------------------------------------------------
(* The steps.                                                               *)

\* Before the first deploy only the tables of Table resources are there.
LEMMA InitOK ==
  ASSUME Init, MissingIsNone
  PROVE  IInv
<1>1. JobsOK /\ ShapesOK
  BY DEF Init, JobsOK, ShapesOK
<1>2. \A m \in Managed : m \in Models /\ live[m] # Missing
  BY DbtAssumption DEF Init
<1>3. \A m \in Managed : live[m] \in [kind : {"table"}, cols : Sqls, query : {Missing}, own : {FALSE}]
  BY <1>2 DEF Init
<1>4. ManagedOK
  BY <1>2, <1>3 DEF ManagedOK
<1>5. OrphansOK
  BY DEF Init, OrphansOK
<1> QED BY <1>1, <1>4, <1>5 DEF IInv

\* A statement that still runs keeps its table stray.
LEMMA SettledKeeps ==
  ASSUME JobsOK, NEW m, UNCHANGED jobs, stray \ Settled(m) \subseteq stray'
  PROVE  JobsOK'
<1>1. ASSUME NEW j \in jobs
      PROVE  j.model \notin Settled(m)
  BY DEF Settled
<1> QED BY <1>1 DEF JobsOK

\* A step of one handler that changes no table and records nothing keeps the invariant
\* when it makes stray what it leaves behind.
LEMMA MovesKeep ==
  ASSUME IInv, UNCHANGED << live, jobs, recorded, stack >>, stray \subseteq stray',
         DOMAIN pc' = Models,
         \A m \in Models : Making(m) /\ ~Making(m)' => m \in stray'
  PROVE  IInv'
<1>1. JobsOK' /\ ShapesOK' /\ ManagedOK'
  BY DEF IInv, JobsOK, ShapesOK, ManagedOK
<1>2. OrphansOK'
  BY DEF IInv, OrphansOK, Tableless
<1> QED BY <1>1, <1>2 DEF IInv

\* begin: without a difference the new inputs are recorded.
LEMMA BeginKeeps ==
  ASSUME MissingIsNone, IInv, NEW m \in Models, Begin(m)
  PROVE  IInv'
<1>1. /\ pc[m] = "waiting" /\ UNCHANGED << live, jobs, stack, stray >>
      /\ \E to \in {"done", "schema", "ddl"} : pc' = [pc EXCEPT ![m] = to]
  BY DEF Begin, Goto, service
<1>2. DOMAIN pc' = Models /\ \A n \in Models : ~Making(n) => ~Making(n)'
  BY <1>1 DEF IInv, ShapesOK, Making
<1>3. \A n \in Models : Making(n) => Making(n)'
  BY <1>1 DEF IInv, ShapesOK, Making
<1>4. CASE UNCHANGED recorded
  BY <1>1, <1>2, <1>3, <1>4, MovesKeep
<1>5. CASE recorded[m] # Missing /\ recorded' = [recorded EXCEPT ![m].inputs = stack[m]]
  <2>1. recorded' = [recorded EXCEPT ![m] = [inputs |-> stack[m], output |-> recorded[m].output,
                                             tested |-> recorded[m].tested]]
    <3>1. recorded[m] = [inputs |-> recorded[m].inputs, output |-> recorded[m].output,
                         tested |-> recorded[m].tested]
      BY <1>5 DEF IInv, ShapesOK
    <3>2. [recorded[m] EXCEPT !.inputs = stack[m]]
            = [inputs |-> stack[m], output |-> recorded[m].output, tested |-> recorded[m].tested]
      BY <3>1
    <3> QED BY <1>5, <3>2
  <2>2. ShapesOK' /\ \A n \in Models : Tableless(n)' <=> Tableless(n)
    BY <1>2, <1>5, <1>1, <2>1 DEF IInv, ShapesOK, Tableless, MissingIsNone
  <2>3. JobsOK' /\ ManagedOK'
    BY <1>1 DEF IInv, JobsOK, ManagedOK
  <2>4. OrphansOK'
    BY <1>1, <1>2, <1>3, <2>2 DEF IInv, OrphansOK
  <2> QED BY <2>2, <2>3, <2>4 DEF IInv
<1> QED BY <1>4, <1>5 DEF Begin

\* execute_ddl: the table is made, or may be, or is not.
LEMMA ExecuteDdlKeeps ==
  ASSUME MissingIsNone, IInv, NEW m \in Models, ExecuteDdl(m)
  PROVE  IInv'
<1> DEFINE j == [model |-> m, mat |-> stack[m].mat, query |-> Resolve(stack[m])]
           sends == HasStatement(m, stack[m].mat)
<1>1. /\ pc[m] = "ddl" /\ UNCHANGED << recorded, stack >>
      /\ \E to \in {"dryRun", "answer", "failed"} : pc' = [pc EXCEPT ![m] = to]
  BY DEF ExecuteDdl, Goto
<1>2. j.model = m /\ j.mat = stack[m].mat
  OBVIOUS
<1>3. ShapesOK => DOMAIN pc' = Models /\ DOMAIN recorded' = Models
  BY <1>1 DEF ShapesOK
<1>4. \A n \in Models \ {m} : Making(n)' = Making(n) /\ Tableless(n)' = Tableless(n)
  BY <1>1 DEF IInv, ShapesOK, Making, Tableless
<1>5. ~Making(m) /\ Tableless(m)' = Tableless(m)
  BY <1>1 DEF Making, Tableless
<1> HIDE DEF j, sends
<1>6. CASE sends /\ Execute(j) /\ UNCHANGED jobs /\ stray' = stray \ Settled(m)
           /\ pc'[m] \in {"dryRun", "answer"}
  <2>1. /\ ManagedOK' /\ DOMAIN live' = Models
        /\ \A n \in Models \ {m} : live'[n] = live[n]
    BY <1>2, <1>6, ExecuteKeeps DEF sends
  <2>2. JobsOK'
    BY <1>6, SettledKeeps DEF IInv
  <2>3. Making(m)'
    BY <1>1, <1>6 DEF Making, sends
  <2>4. ShapesOK'
    BY <1>1, <1>3, <2>1 DEF IInv, ShapesOK
  <2>5. OrphansOK'
    BY <1>4, <1>6, <2>1, <2>3 DEF IInv, OrphansOK, Settled
  <2> QED BY <2>1, <2>2, <2>4, <2>5 DEF IInv
<1>7. CASE sends /\ Execute(j) /\ UNCHANGED jobs /\ stray' = stray \cup {m}
  <2>1. /\ ManagedOK' /\ DOMAIN live' = Models
        /\ \A n \in Models \ {m} : live'[n] = live[n]
    BY <1>2, <1>7, ExecuteKeeps DEF sends
  <2>2. JobsOK' /\ ShapesOK'
    BY <1>1, <1>3, <1>7, <2>1 DEF IInv, JobsOK, ShapesOK
  <2>3. OrphansOK'
    BY <1>4, <1>7, <2>1 DEF IInv, OrphansOK
  <2> QED BY <2>1, <2>2, <2>3 DEF IInv
<1>8. CASE sends /\ jobs' = jobs \cup {j} /\ UNCHANGED live /\ stray' = stray \cup {m}
  <2>1. JobsOK' /\ ShapesOK' /\ ManagedOK'
    BY <1>1, <1>2, <1>3, <1>8 DEF IInv, JobsOK, ShapesOK, ManagedOK, sends
  <2>2. OrphansOK'
    BY <1>4, <1>8 DEF IInv, OrphansOK
  <2> QED BY <2>1, <2>2 DEF IInv
<1>9. CASE UNCHANGED << live, jobs, stray >>
  <2>1. \A n \in Models : Making(n) => Making(n)'
    BY <1>4, <1>5
  <2>2. DOMAIN pc' = Models
    BY <1>3 DEF IInv
  <2> QED BY <1>1, <1>9, <2>1, <2>2, MovesKeep
<1> QED
  <2>1. \A to : Goto(m, to) /\ ShapesOK => pc'[m] = to
    BY DEF Goto, ShapesOK
  <2>2. ShapesOK
    BY DEF IInv
  <2> QED BY <1>6, <1>7, <1>8, <1>9, <2>1, <2>2 DEF ExecuteDdl, j, sends, service

\* The handler returns its output.
LEMMA AnswerKeeps ==
  ASSUME MissingIsNone, IInv, NEW m \in Models, Answer(m)
  PROVE  IInv'
<1> DEFINE q == Resolve(stack[m])
           output == [mat |-> stack[m].mat, ctes |-> q.ctes, body |-> q.body,
                      merge |-> IF stack[m].mat = "incremental" THEN columns[m] ELSE Missing]
           record == [inputs |-> stack[m], output |-> output,
                      tested |-> stack[m].mat = "incremental" /\ recorded[m] = Missing]
<1>1. /\ pc[m] = "answer" /\ pc' = [pc EXCEPT ![m] = "done"] /\ UNCHANGED << live, jobs, stack >>
      /\ recorded' = [recorded EXCEPT ![m] = record]
      /\ stray' = stray \cup (IF stack[m].mat = "ephemeral" /\ live[m] # Missing THEN {m} ELSE {})
  BY DEF Answer, Goto, service
<1>2. /\ record # Missing /\ record.output.mat = stack[m].mat
      /\ record = [inputs |-> record.inputs, output |-> record.output, tested |-> record.tested]
  BY DEF MissingIsNone
<1> HIDE DEF record
<1>3. JobsOK' /\ ManagedOK' /\ ShapesOK'
  BY <1>1, <1>2 DEF IInv, JobsOK, ManagedOK, ShapesOK
<1>4. \A n \in Models \ {m} : Making(n)' = Making(n) /\ Tableless(n)' = Tableless(n)
  BY <1>1 DEF IInv, ShapesOK, Making, Tableless
<1>5. Tableless(m)' => stack[m].mat = "ephemeral"
  BY <1>1, <1>2 DEF IInv, ShapesOK, Tableless
<1>6. OrphansOK'
  BY <1>1, <1>4, <1>5 DEF IInv, OrphansOK
<1> QED BY <1>3, <1>6 DEF IInv

\* delete_dbt_model drops the table of a model that has one of its own.
LEMMA DeleteKeeps ==
  ASSUME MissingIsNone, IInv, NEW m \in Models, Delete(m)
  PROVE  IInv'
<1> DEFINE dropped == [live EXCEPT ![m] = Missing]
<1>1. pc[m] = "condemned" /\ UNCHANGED << jobs, stack >>
  BY DEF Delete
<1>2. \A n \in Models : UNCHANGED stack /\ (\E to \in {"idle", "failed"} : Goto(m, to)) =>
        Making(n)' = Making(n) /\ DOMAIN pc' = Models
  BY <1>1 DEF IInv, ShapesOK, Making, Goto
<1>3. /\ DOMAIN dropped = Models /\ dropped[m] = Missing
      /\ \A n \in Models \ {m} : dropped[n] = live[n]
  BY DEF IInv, ShapesOK
<1> HIDE DEF dropped
<1>4. CASE /\ live' = IF Drops(m) THEN dropped ELSE live
           /\ recorded' = [recorded EXCEPT ![m] = Missing]
           /\ stray' = IF Drops(m) THEN stray \ Settled(m) ELSE stray
           /\ Goto(m, "idle")
  <2>1. DOMAIN pc' = Models /\ \A n \in Models : Making(n)' = Making(n)
    BY <1>1, <1>2, <1>4
  <2>2. JobsOK'
    BY <1>1, <1>4, SettledKeeps DEF IInv
  <2>3. ShapesOK' /\ ManagedOK'
    BY <1>3, <1>4, <2>1, DbtAssumption DEF IInv, ShapesOK, ManagedOK, Drops
  <2>4. \A n \in Models \ {m} : Tableless(n)' = Tableless(n)
    BY <1>4 DEF IInv, ShapesOK, Tableless
  <2>5. ~Making(m)
    BY <1>1 DEF Making
  <2>6. CASE Drops(m)
    <3>1. OrphansOK'
      BY <1>3, <1>4, <2>1, <2>4, <2>6 DEF IInv, OrphansOK, Settled
    <3> QED BY <2>2, <2>3, <3>1 DEF IInv
  <2>7. CASE ~Drops(m)
    <3>1. m \in Managed \/ Tableless(m)
      BY <2>7 DEF Drops, Tableless
    <3>2. OrphansOK'
      BY <1>4, <2>1, <2>4, <2>5, <2>7, <3>1 DEF IInv, OrphansOK
    <3> QED BY <2>2, <2>3, <3>2 DEF IInv
  <2> QED BY <2>6, <2>7
<1>5. CASE Drops(m) /\ UNCHANGED << recorded, live, stray >> /\ Goto(m, "failed")
  BY <1>1, <1>2, <1>5, MovesKeep
<1>6. CASE Drops(m) /\ UNCHANGED recorded /\ live' = dropped /\ stray' = stray \cup {m}
           /\ Goto(m, "failed")
  <2>1. DOMAIN pc' = Models /\ \A n \in Models : Making(n)' = Making(n)
    BY <1>1, <1>2, <1>6
  <2>2. JobsOK' /\ ShapesOK' /\ ManagedOK'
    BY <1>1, <1>3, <1>6, <2>1, DbtAssumption DEF IInv, JobsOK, ShapesOK, ManagedOK, Drops
  <2>3. OrphansOK'
    BY <1>3, <1>6, <2>1 DEF IInv, OrphansOK, Tableless
  <2> QED BY <2>2, <2>3 DEF IInv
<1> QED BY <1>4, <1>5, <1>6 DEF Delete, dropped

\* A statement that outlived its call ends.
LEMMA FinishKeeps ==
  ASSUME MissingIsNone, IInv, NEW j \in jobs, Finish(j)
  PROVE  IInv'
<1>1. /\ j.model \in Models /\ HasStatement(j.model, j.mat)
      /\ jobs' = jobs \ {j} /\ stray' = stray \cup {j.model}
      /\ UNCHANGED << recorded, stack, pc >>
  BY DEF Finish, IInv, JobsOK
<1>2. /\ ManagedOK' /\ DOMAIN live' = Models
      /\ \A n \in Models \ {j.model} : live'[n] = live[n]
  <2>1. CASE Execute(j)
    BY <1>1, <2>1, ExecuteKeeps
  <2>2. CASE UNCHANGED live
    BY <2>2 DEF IInv, ManagedOK, ShapesOK
  <2> QED BY <2>1, <2>2 DEF Finish
<1>3. JobsOK' /\ ShapesOK'
  BY <1>1, <1>2 DEF IInv, JobsOK, ShapesOK
<1>4. OrphansOK'
  BY <1>1, <1>2 DEF IInv, OrphansOK, Tableless, Making
<1> QED BY <1>2, <1>3, <1>4 DEF IInv

\* The engine, the other calls of the handlers, and the death of the plugin.
LEMMA OthersKeep ==
  ASSUME MissingIsNone, IInv,
         \/ \E s \in Stacks : Deploy(s)
         \/ \E m \in Models : GetColumns(m) \/ DryRun(m) \/ Refresh(m)
         \/ End \/ Crash \/ UNCHANGED vars
  PROVE  IInv'
<1>1. ASSUME NEW s \in Stacks, Deploy(s)
      PROVE  IInv'
  <2>1. /\ \A m \in Models : pc[m] = "idle" /\ pc'[m] \in {"waiting", "condemned", "idle"}
        /\ DOMAIN pc' = Models /\ UNCHANGED << live, jobs, recorded, stray >>
    BY <1>1 DEF Deploy, Idle, service
  <2>2. \A m \in Models : ~Making(m) /\ ~Making(m)'
    BY <2>1 DEF Making
  <2>3. JobsOK' /\ ShapesOK' /\ ManagedOK'
    BY <2>1 DEF IInv, JobsOK, ShapesOK, ManagedOK
  <2>4. OrphansOK'
    BY <2>1, <2>2 DEF IInv, OrphansOK, Tableless
  <2> QED BY <2>3, <2>4 DEF IInv
<1>2. ASSUME NEW m \in Models, GetColumns(m)
      PROVE  IInv'
  <2>1. /\ pc[m] = "schema" /\ pc' = [pc EXCEPT ![m] = "ddl"]
        /\ UNCHANGED << live, jobs, recorded, stack, stray >>
    BY <1>2 DEF GetColumns, Goto, service
  <2>2. DOMAIN pc' = Models /\ \A n \in Models : Making(n) => Making(n)'
    BY <2>1 DEF IInv, ShapesOK, Making
  <2> QED BY <2>1, <2>2, MovesKeep
<1>3. ASSUME NEW m \in Models, DryRun(m)
      PROVE  IInv'
  <2>1. /\ pc[m] = "dryRun" /\ UNCHANGED << live, jobs, recorded, stack >>
        /\ \/ pc' = [pc EXCEPT ![m] = "answer"] /\ stray' = stray
           \/ pc' = [pc EXCEPT ![m] = "failed"] /\ stray' = stray \cup Made({m})
    BY <1>3 DEF DryRun, Goto, service
  <2>2. Making(m) => m \in Made({m})
    BY DEF Making, Made
  <2>3. DOMAIN pc' = Models /\ \A n \in Models : Making(n) /\ ~Making(n)' => n \in stray'
    BY <2>1, <2>2 DEF IInv, ShapesOK, Making
  <2> QED BY <2>1, <2>3, MovesKeep
<1>4. ASSUME NEW m \in Models, Refresh(m)
      PROVE  IInv'
  <2>1. /\ recorded' = [recorded EXCEPT ![m] = Missing] /\ UNCHANGED << live, jobs, stack, pc >>
        /\ \/ live[m] = Missing /\ stray' = stray
           \/ stray' = stray \cup {m}
    BY <1>4 DEF Refresh, service
  <2>2. JobsOK' /\ ShapesOK' /\ ManagedOK'
    BY <2>1 DEF IInv, JobsOK, ShapesOK, ManagedOK
  <2>3. \A n \in Models \ {m} : Tableless(n)' = Tableless(n) /\ Making(n)' = Making(n)
    BY <2>1 DEF IInv, ShapesOK, Tableless, Making
  <2>4. OrphansOK'
    BY <2>1, <2>3 DEF IInv, OrphansOK
  <2> QED BY <2>2, <2>4 DEF IInv
<1>5. CASE End
  <2>1. /\ \A m \in Models : pc[m] \notin Active
        /\ DOMAIN pc' = Models /\ UNCHANGED << live, jobs, recorded, stack, stray >>
    BY <1>5 DEF End, service
  <2>2. \A m \in Models : ~Making(m)
    BY <2>1 DEF Making, Active
  <2> QED BY <2>1, <2>2, MovesKeep
<1>6. CASE Crash
  <2> DEFINE A == { m \in Models : pc[m] \in Active }
  <2>1. /\ pc' = [m \in Models |-> IF pc[m] \in Active THEN "failed" ELSE pc[m]]
        /\ stray' = stray \cup Made(A) /\ UNCHANGED << live, jobs, recorded, stack >>
    BY <1>6 DEF Crash, service
  <2>2. \A m \in Models : Making(m) => m \in Made(A)
    BY DEF Making, Made, Active
  <2>3. DOMAIN pc' = Models
    BY <2>1
  <2> HIDE DEF A
  <2> QED BY <2>1, <2>2, <2>3, MovesKeep
<1>7. CASE UNCHANGED vars
  <2>1. UNCHANGED << live, jobs, recorded, stack, pc, stray >>
    BY <1>7 DEF vars, service
  <2>2. DOMAIN pc' = Models /\ \A m \in Models : Making(m) => Making(m)'
    BY <2>1 DEF IInv, ShapesOK, Making
  <2> QED BY <2>1, <2>2, MovesKeep
<1> QED BY <1>1, <1>2, <1>3, <1>4, <1>5, <1>6, <1>7

\* Every step keeps the invariant.
LEMMA NextKeeps ==
  ASSUME MissingIsNone, IInv, [Next]_vars
  PROVE  IInv'
BY BeginKeeps, ExecuteDdlKeeps, AnswerKeeps, DeleteKeeps, FinishKeeps, OthersKeep
   DEF Next, Handle

\* The invariant holds throughout.
LEMMA DbtInvariant ==
  ASSUME MissingIsNone
  PROVE  Spec => []IInv
<1>1. Init => IInv
  BY InitOK
<1>2. IInv /\ [Next]_vars => IInv'
  BY NextKeeps
<1> QED BY <1>1, <1>2, PTL DEF Spec

-----------------------------------------------------------------------------
\* ManagedKept: a table that a Table resource owns is neither dropped nor replaced by
\* the model that fills it, also not by a statement that outlived its call.
THEOREM ManagedKeptHolds ==
  ASSUME MissingIsNone
  PROVE  Spec => []ManagedKept
<1>1. IInv => ManagedKept
  BY DEF IInv, ManagedOK, ManagedKept
<1> QED BY <1>1, DbtInvariant, PTL

\* NoOrphans: between deploys a model that is not recorded, or recorded as ephemeral,
\* has no table, unless something happened behind the record.
THEOREM NoOrphansHolds ==
  ASSUME MissingIsNone
  PROVE  Spec => []NoOrphans
<1>1. IInv => NoOrphans
  BY DEF IInv, OrphansOK, NoOrphans, Tableless, Making, Idle
<1> QED BY <1>1, DbtInvariant, PTL

-----------------------------------------------------------------------------
(* What a model refers to.                                                  *)

Refs(m) == ToSet(stack[m].refs)

\* A model that has been begun refers to models that are done, which are recorded.
BegunOK ==
  /\ \A m \in Models : pc[m] = "waiting" \/ pc[m] \in Active => Refs(m) \subseteq Models
  /\ \A m \in Models : pc[m] \in Active => \A r \in Refs(m) : pc[r] = "done"
  /\ \A m \in Models : pc[m] = "done" => recorded[m] # Missing

\* A model that is recorded with a table, or whose handler has made it, has one.
TablesOK ==
  \A m \in Models \ (Managed \cup stray) : ~Tableless(m) \/ Making(m) => live[m] # Missing

RInv == BegunOK /\ TablesOK

\* Initially no model is begun or recorded.
LEMMA InitRefs ==
  ASSUME Init
  PROVE  RInv
BY DEF Init, RInv, BegunOK, Active, TablesOK, Tableless, Making

\* A step that begins nothing, finishes nothing and records nothing keeps what is known of the
\* models that are begun.
LEMMA BegunKeeps ==
  ASSUME BegunOK, UNCHANGED << recorded, stack >>,
         \A m \in Models : \/ pc'[m] = pc[m]
                           \/ pc[m] \in Active /\ (pc'[m] \in Active \/ pc'[m] = "failed")
  PROVE  BegunOK'
BY DEF BegunOK, Refs, Active

\* begin.
LEMMA BeginRefs ==
  ASSUME MissingIsNone, IInv, IInv', RInv, NEW m \in Models, Begin(m)
  PROVE  RInv'
<1>1. /\ pc[m] = "waiting" /\ UNCHANGED << live, jobs, stack, stray >>
      /\ \A r \in Refs(m) : pc[r] = "done"
      /\ \E to \in {"done", "schema", "ddl"} : pc' = [pc EXCEPT ![m] = to]
  BY DEF Begin, Goto, service, Refs
<1>2. \A n \in Models : Making(n)' = Making(n)
  BY <1>1 DEF IInv, ShapesOK, Making
<1>3. CASE UNCHANGED recorded /\ pc'[m] \in {"schema", "ddl"}
  <2>1. BegunOK'
    BY <1>1, <1>3 DEF IInv, ShapesOK, RInv, BegunOK, Active, Refs
  <2>2. TablesOK'
    BY <1>1, <1>2, <1>3 DEF RInv, TablesOK, Tableless
  <2> QED BY <2>1, <2>2 DEF RInv
<1>4. CASE recorded[m] # Missing /\ recorded' = [recorded EXCEPT ![m].inputs = stack[m]]
           /\ pc'[m] = "done"
  <2>1. recorded[m] = [inputs |-> recorded[m].inputs, output |-> recorded[m].output,
                       tested |-> recorded[m].tested]
    BY <1>4 DEF IInv, ShapesOK
  <2>2. [recorded[m] EXCEPT !.inputs = stack[m]]
          = [inputs |-> stack[m], output |-> recorded[m].output, tested |-> recorded[m].tested]
    BY <2>1
  <2>3. recorded' = [recorded EXCEPT ![m] = [inputs |-> stack[m], output |-> recorded[m].output,
                                             tested |-> recorded[m].tested]]
    BY <1>4, <2>2
  <2>4. \A n \in Models : /\ Tableless(n)' <=> Tableless(n)
                          /\ recorded'[n] = Missing <=> recorded[n] = Missing
    BY <1>4, <2>3 DEF IInv, ShapesOK, Tableless, MissingIsNone
  <2>5. BegunOK'
    BY <1>1, <1>4, <2>4 DEF IInv, ShapesOK, RInv, BegunOK, Active, Refs
  <2>6. TablesOK'
    BY <1>1, <1>2, <2>4 DEF RInv, TablesOK
  <2> QED BY <2>5, <2>6 DEF RInv
<1> QED
  <2>1. \A to : Goto(m, to) => pc'[m] = to
    BY DEF IInv, ShapesOK, Goto
  <2> QED BY <1>3, <1>4, <2>1 DEF Begin

\* execute_ddl.
LEMMA ExecuteDdlRefs ==
  ASSUME MissingIsNone, IInv, RInv, NEW m \in Models, ExecuteDdl(m)
  PROVE  RInv'
<1> DEFINE j == [model |-> m, mat |-> stack[m].mat, query |-> Resolve(stack[m])]
           sends == HasStatement(m, stack[m].mat)
<1>1. /\ pc[m] = "ddl" /\ UNCHANGED << recorded, stack >>
      /\ \E to \in {"dryRun", "answer", "failed"} : pc' = [pc EXCEPT ![m] = to]
  BY DEF ExecuteDdl, Goto
<1>2. BegunOK'
  BY <1>1, BegunKeeps DEF Active, IInv, ShapesOK, RInv
<1>3. \A n \in Models \ {m} : Making(n)' = Making(n) /\ Tableless(n)' = Tableless(n)
  BY <1>1 DEF IInv, ShapesOK, Making, Tableless
<1>4. Tableless(m)' = Tableless(m)
  BY <1>1 DEF Tableless
<1>5. j.model = m /\ j.mat = stack[m].mat
  OBVIOUS
<1> HIDE DEF j
<1>6. CASE sends /\ Execute(j) /\ stray \ {m} \subseteq stray'
  <2>1. live'[m] # Missing /\ \A n \in Models \ {m} : live'[n] = live[n]
    BY <1>5, <1>6, ExecuteKeeps
  <2> QED BY <1>2, <1>3, <1>6, <2>1 DEF RInv, TablesOK
<1>7. CASE UNCHANGED live /\ stray' = stray \cup {m}
  BY <1>2, <1>3, <1>7 DEF RInv, TablesOK
<1>8. CASE UNCHANGED << live, stray >> /\ (~sends \/ pc'[m] = "failed")
  <2>1. ~Making(m)'
    BY <1>1, <1>8 DEF Making
  <2> QED BY <1>2, <1>3, <1>4, <1>8, <2>1 DEF RInv, TablesOK
<1> QED
  <2>1. \A to : Goto(m, to) => pc'[m] = to
    BY DEF IInv, ShapesOK, Goto
  <2>2. Settled(m) \subseteq {m}
    BY DEF Settled
  <2> QED BY <1>6, <1>7, <1>8, <2>1, <2>2 DEF ExecuteDdl, j, service

\* The handler returns its output: the table is there, unless the model has none.
LEMMA AnswerRefs ==
  ASSUME MissingIsNone, IInv, RInv, NEW m \in Models, Answer(m)
  PROVE  RInv'
<1> DEFINE q == Resolve(stack[m])
           output == [mat |-> stack[m].mat, ctes |-> q.ctes, body |-> q.body,
                      merge |-> IF stack[m].mat = "incremental" THEN columns[m] ELSE Missing]
           record == [inputs |-> stack[m], output |-> output,
                      tested |-> stack[m].mat = "incremental" /\ recorded[m] = Missing]
<1>1. /\ pc[m] = "answer" /\ pc' = [pc EXCEPT ![m] = "done"] /\ UNCHANGED << live, jobs, stack >>
      /\ recorded' = [recorded EXCEPT ![m] = record] /\ stray \subseteq stray'
  BY DEF Answer, Goto, service
<1>2. record # Missing /\ record.output.mat = stack[m].mat
  BY DEF MissingIsNone
<1> HIDE DEF record
<1>3. BegunOK'
  BY <1>1, <1>2 DEF IInv, ShapesOK, RInv, BegunOK, Active, Refs
<1>4. \A n \in Models \ {m} : Making(n)' = Making(n) /\ Tableless(n)' = Tableless(n)
  BY <1>1 DEF IInv, ShapesOK, Making, Tableless
<1>5. ~Making(m)' /\ (~Tableless(m)' /\ m \notin Managed => Making(m))
  BY <1>1, <1>2 DEF IInv, ShapesOK, Making, Tableless, HasStatement
<1>6. TablesOK'
  BY <1>1, <1>4, <1>5 DEF RInv, TablesOK
<1> QED BY <1>3, <1>6 DEF RInv

\* delete_dbt_model.
LEMMA DeleteRefs ==
  ASSUME IInv, RInv, NEW m \in Models, Delete(m)
  PROVE  RInv'
<1>1. /\ pc[m] = "condemned" /\ UNCHANGED << jobs, stack >>
      /\ \A n \in Models : pc[n] \in {"idle", "done", "condemned"}
      /\ \E to \in {"idle", "failed"} : pc' = [pc EXCEPT ![m] = to]
      /\ live' = live \/ live' = [live EXCEPT ![m] = Missing]
      /\ \/ recorded' = [recorded EXCEPT ![m] = Missing] /\ stray \ Settled(m) \subseteq stray'
         \/ UNCHANGED recorded /\ stray \subseteq stray' /\ (live' = live \/ m \in stray')
  BY DEF Delete, Goto
<1>2. BegunOK'
  BY <1>1 DEF IInv, ShapesOK, RInv, BegunOK, Active
<1>3. \A n \in Models \ {m} : live'[n] = live[n] /\ Tableless(n)' = Tableless(n)
  BY <1>1 DEF IInv, ShapesOK, Tableless
<1>4. \A n \in Models : ~Making(n)'
  BY <1>1 DEF IInv, ShapesOK, Making
<1>5. Settled(m) \subseteq {m}
  BY DEF Settled
<1>6. Tableless(m)' \/ m \in stray' \/ (live' = live /\ Tableless(m)' = Tableless(m) /\ (m \in stray => m \in stray'))
  BY <1>1 DEF IInv, ShapesOK, Tableless
<1>7. TablesOK'
  BY <1>1, <1>3, <1>4, <1>5, <1>6 DEF RInv, TablesOK
<1> QED BY <1>2, <1>7 DEF RInv

\* A statement that outlived its call ends: its table is stray from then on.
LEMMA FinishRefs ==
  ASSUME MissingIsNone, IInv, RInv, NEW j \in jobs, Finish(j)
  PROVE  RInv'
<1>1. /\ j.model \in Models /\ HasStatement(j.model, j.mat)
      /\ stray' = stray \cup {j.model} /\ UNCHANGED << recorded, stack, pc >>
  BY DEF Finish, IInv, JobsOK
<1>2. \A n \in Models \ {j.model} : live'[n] = live[n]
  BY <1>1, ExecuteKeeps DEF Finish
<1>3. BegunOK'
  BY <1>1, BegunKeeps DEF RInv, Active
<1>4. TablesOK'
  BY <1>1, <1>2 DEF RInv, TablesOK, Tableless, Making
<1> QED BY <1>3, <1>4 DEF RInv

\* The engine, the other calls of the handlers, and the death of the plugin.
LEMMA OthersRefs ==
  ASSUME IInv, RInv,
         \/ \E s \in Stacks : Deploy(s)
         \/ \E m \in Models : GetColumns(m) \/ DryRun(m) \/ Refresh(m)
         \/ End \/ Crash \/ UNCHANGED vars
  PROVE  RInv'
<1>1. ASSUME NEW s \in Stacks, Deploy(s)
      PROVE  RInv'
  <2>1. /\ stack' = s /\ UNCHANGED << live, recorded, stray >>
        /\ \A m \in Models : /\ pc'[m] \in {"waiting", "condemned", "idle"}
                             /\ pc'[m] = "waiting" => m \in DOMAIN s
    BY <1>1 DEF Deploy, service
  <2>2. \A m \in DOMAIN s : ToSet(s[m].refs) \subseteq Models
    BY DbtAssumption
  <2>3. BegunOK'
    BY <2>1, <2>2 DEF BegunOK, Active, Refs
  <2>4. TablesOK'
    BY <2>1 DEF RInv, TablesOK, Tableless, Making
  <2> QED BY <2>3, <2>4 DEF RInv
<1>2. ASSUME NEW m \in Models, GetColumns(m)
      PROVE  RInv'
  <2>1. /\ pc[m] = "schema" /\ pc' = [pc EXCEPT ![m] = "ddl"]
        /\ UNCHANGED << live, jobs, recorded, stack, stray >>
    BY <1>2 DEF GetColumns, Goto, service
  <2>2. BegunOK'
    BY <2>1, BegunKeeps DEF Active, IInv, ShapesOK, RInv
  <2>3. TablesOK'
    BY <2>1 DEF IInv, ShapesOK, RInv, TablesOK, Tableless, Making
  <2> QED BY <2>2, <2>3 DEF RInv
<1>3. ASSUME NEW m \in Models, DryRun(m)
      PROVE  RInv'
  <2>1. /\ pc[m] = "dryRun" /\ UNCHANGED << live, jobs, recorded, stack >> /\ stray \subseteq stray'
        /\ \E to \in {"answer", "failed"} : pc' = [pc EXCEPT ![m] = to]
    BY <1>3 DEF DryRun, Goto, service
  <2>2. BegunOK'
    BY <2>1, BegunKeeps DEF Active, IInv, ShapesOK, RInv
  <2>3. TablesOK'
    BY <2>1 DEF IInv, ShapesOK, RInv, TablesOK, Tableless, Making
  <2> QED BY <2>2, <2>3 DEF RInv
<1>4. ASSUME NEW m \in Models, Refresh(m)
      PROVE  RInv'
  <2>1. /\ recorded' = [recorded EXCEPT ![m] = Missing] /\ UNCHANGED << live, jobs, stack, pc >>
        /\ stray \subseteq stray' /\ \A n \in Models : pc[n] = "idle"
    BY <1>4 DEF Refresh, service, Idle
  <2>2. BegunOK'
    BY <2>1 DEF BegunOK, Active
  <2>3. TablesOK'
    BY <2>1 DEF IInv, ShapesOK, RInv, TablesOK, Tableless, Making
  <2> QED BY <2>2, <2>3 DEF RInv
<1>5. CASE End
  <2>1. (\A m \in Models : pc'[m] = "idle") /\ UNCHANGED << live, jobs, recorded, stack, stray >>
    BY <1>5 DEF End, service
  <2> QED BY <2>1 DEF RInv, BegunOK, Active, TablesOK, Tableless, Making
<1>6. CASE Crash
  <2>1. /\ \A m \in Models : pc'[m] = IF pc[m] \in Active THEN "failed" ELSE pc[m]
        /\ stray \subseteq stray' /\ UNCHANGED << live, jobs, recorded, stack >>
    BY <1>6 DEF Crash, service
  <2>2. BegunOK'
    BY <2>1, BegunKeeps DEF RInv
  <2>3. TablesOK'
    BY <2>1 DEF RInv, TablesOK, Tableless, Making, Active
  <2> QED BY <2>2, <2>3 DEF RInv
<1>7. CASE UNCHANGED vars
  <2>1. UNCHANGED << live, jobs, recorded, stack, pc, stray >>
    BY <1>7 DEF vars, service
  <2> QED BY <2>1 DEF RInv, BegunOK, Active, TablesOK, Tableless, Making, Refs
<1> QED BY <1>1, <1>2, <1>3, <1>4, <1>5, <1>6, <1>7

\* Every step keeps what is known of the references.
LEMMA NextRefs ==
  ASSUME MissingIsNone, IInv, RInv, [Next]_vars
  PROVE  RInv'
BY NextKeeps, BeginRefs, ExecuteDdlRefs, AnswerRefs, DeleteRefs, FinishRefs, OthersRefs
   DEF Next, Handle

\* RefsExist: a model is built when the tables it refers to are there, as long as
\* nothing has happened to those tables behind the record.
THEOREM RefsExistHolds ==
  ASSUME MissingIsNone
  PROVE  Spec => []RefsExist
<1>1. Init => RInv
  BY InitRefs
<1>2. IInv /\ RInv /\ [Next]_vars => RInv'
  BY NextRefs
<1>3. IInv /\ RInv => RefsExist
  <2>1. SUFFICES ASSUME IInv, RInv, NEW m \in Models, pc[m] = "ddl", Inlined(stack[m]) = {},
                        NEW t \in Refs(m) \ stray
                 PROVE  live[t] # Missing
    BY DEF RefsExist, Refs
  <2>2. t \in Models /\ recorded[t] # Missing
    BY <2>1 DEF RInv, BegunOK, Active
  <2>3. recorded[t].output.mat # "ephemeral"
    BY <2>1 DEF Inlined, Refs
  <2> QED BY <2>1, <2>2, <2>3 DEF IInv, ManagedOK, RInv, TablesOK, Tableless
<1> QED BY <1>1, <1>2, <1>3, DbtInvariant, PTL DEF Spec

-----------------------------------------------------------------------------
(* The MERGE of an incremental model.                                       *)

Tested(m) == recorded[m] # Missing /\ recorded[m].tested

\* A tested MERGE runs on the table, unless a handler has replaced it and not returned.
TestedOK ==
  \A m \in Models \ stray :
    Tested(m) /\ ~(pc[m] = "answer" /\ HasStatement(m, stack[m].mat)) =>
      MergeRuns(m, recorded[m].output.body.sql, recorded[m].output.merge)

\* So does the one of a create that is about to return.
CreatedOK ==
  \A m \in Models \ stray :
    pc[m] = "answer" /\ recorded[m] = Missing /\ stack[m].mat = "incremental" =>
      MergeRuns(m, stack[m].sql, columns[m])

MInv == TestedOK /\ CreatedOK /\ DOMAIN columns = Models

\* Initially nothing is recorded.
LEMMA InitMerge ==
  ASSUME Init
  PROVE  MInv
BY DEF Init, MInv, TestedOK, CreatedOK, Tested

\* A step that touches neither the table nor the record of a model that is not stray,
\* and lets no handler go on to its answer, keeps what is known of the MERGEs.
LEMMA MergesKeep ==
  ASSUME MInv, UNCHANGED stack, stray \subseteq stray', DOMAIN columns' = Models,
         \A m \in Models \ stray' :
           /\ live'[m] = live[m]
           /\ recorded'[m] = recorded[m] \/ recorded'[m] = Missing
           /\ pc'[m] = "answer" => pc[m] = "answer" /\ columns'[m] = columns[m]
                                   /\ recorded'[m] = recorded[m]
           /\ pc[m] = "answer" /\ HasStatement(m, stack[m].mat) => pc'[m] = "answer"
  PROVE  MInv'
<1>1. TestedOK'
  BY DEF MInv, TestedOK, Tested, MergeRuns
<1>2. CreatedOK'
  BY DEF MInv, CreatedOK, MergeRuns
<1> QED BY <1>1, <1>2 DEF MInv

\* begin: the record keeps its output.
LEMMA BeginMerge ==
  ASSUME MissingIsNone, IInv, MInv, NEW m \in Models, Begin(m)
  PROVE  MInv'
<1>1. /\ pc[m] = "waiting" /\ UNCHANGED << live, stack, stray, columns >>
      /\ \E to \in {"done", "schema", "ddl"} : pc' = [pc EXCEPT ![m] = to]
  BY DEF Begin, Goto, service
<1>2. CASE UNCHANGED recorded
  BY <1>1, <1>2, MergesKeep DEF IInv, ShapesOK, MInv
<1>3. CASE recorded[m] # Missing /\ recorded' = [recorded EXCEPT ![m].inputs = stack[m]]
  <2> DEFINE record == [inputs |-> stack[m], output |-> recorded[m].output,
                        tested |-> recorded[m].tested]
  <2>1. recorded[m] = [inputs |-> recorded[m].inputs, output |-> recorded[m].output,
                       tested |-> recorded[m].tested]
    BY <1>3 DEF IInv, ShapesOK
  <2>2. [recorded[m] EXCEPT !.inputs = stack[m]] = record
    BY <2>1
  <2>3. recorded' = [recorded EXCEPT ![m] = record] /\ record # Missing
        /\ record.output = recorded[m].output /\ record.tested = recorded[m].tested
    BY <1>3, <2>2 DEF MissingIsNone
  <2> HIDE DEF record
  <2>4. recorded'[m] = record /\ \A n \in Models \ {m} : recorded'[n] = recorded[n]
    BY <2>3 DEF IInv, ShapesOK
  <2>5. \A n \in Models : pc'[n] = "answer" <=> pc[n] = "answer"
    BY <1>1 DEF IInv, ShapesOK
  <2>6. TestedOK'
    BY <1>1, <1>3, <2>3, <2>4, <2>5 DEF MInv, TestedOK, Tested, MergeRuns
  <2>7. CreatedOK'
    BY <1>1, <2>3, <2>4, <2>5 DEF MInv, CreatedOK, MergeRuns
  <2> QED BY <1>1, <2>6, <2>7 DEF MInv
<1> QED BY <1>2, <1>3 DEF Begin

\* execute_ddl: a create of an incremental model goes on to the dry run.
LEMMA ExecuteDdlMerge ==
  ASSUME MissingIsNone, IInv, MInv, NEW m \in Models, ExecuteDdl(m)
  PROVE  MInv'
<1> DEFINE j == [model |-> m, mat |-> stack[m].mat, query |-> Resolve(stack[m])]
           sends == HasStatement(m, stack[m].mat)
           next == IF stack[m].mat = "incremental" /\ recorded[m] = Missing
                   THEN "dryRun" ELSE "answer"
<1>1. /\ pc[m] = "ddl" /\ UNCHANGED << recorded, stack, columns >>
      /\ \E to \in {next, "failed"} : pc' = [pc EXCEPT ![m] = to]
      /\ stray \ {m} \subseteq stray'
  BY DEF ExecuteDdl, Goto, Settled
<1>2. /\ \A n \in Models \ {m} : pc'[n] = pc[n]
      /\ pc'[m] \in {next, "failed"}
  BY <1>1 DEF IInv, ShapesOK
<1>3. j.model = m /\ j.mat = stack[m].mat
  OBVIOUS
<1> HIDE DEF j
<1>4. \A n \in Models \ {m} : live'[n] = live[n]
  <2>1. CASE sends /\ Execute(j)
    BY <1>3, <2>1, ExecuteKeeps
  <2>2. CASE UNCHANGED live
    BY <2>2
  <2> QED BY <2>1, <2>2 DEF ExecuteDdl, j, service
<1>5. m \notin stray' => \/ UNCHANGED << live, stray >>
                         \/ sends /\ pc'[m] = next
  <2>1. \A to : Goto(m, to) => pc'[m] = to
    BY DEF IInv, ShapesOK, Goto
  <2> QED BY <2>1 DEF ExecuteDdl, service
<1>6. CreatedOK'
  <2>1. ASSUME NEW n \in Models \ stray', pc'[n] = "answer", recorded'[n] = Missing,
               stack'[n].mat = "incremental"
        PROVE  MergeRuns(n, stack[n].sql, columns[n])'
    <3>1. n # m
      BY <1>1, <1>2, <2>1
    <3> QED BY <1>1, <1>2, <1>4, <2>1, <3>1 DEF MInv, CreatedOK, MergeRuns
  <2> QED BY <2>1 DEF CreatedOK
<1>7. TestedOK'
  <2>1. ASSUME NEW n \in Models \ stray', Tested(n)',
               ~(pc'[n] = "answer" /\ HasStatement(n, stack'[n].mat))
        PROVE  MergeRuns(n, recorded[n].output.body.sql, recorded[n].output.merge)'
    <3>1. CASE n # m
      BY <1>1, <1>2, <1>4, <2>1, <3>1 DEF MInv, TestedOK, Tested, MergeRuns
    <3>2. CASE n = m
      <4>1. UNCHANGED << live, stray >>
        BY <1>1, <1>5, <2>1, <3>2 DEF Tested
      <4> QED BY <1>1, <2>1, <3>2, <4>1 DEF MInv, TestedOK, Tested, MergeRuns
    <3> QED BY <3>1, <3>2
  <2> QED BY <2>1 DEF TestedOK
<1> QED BY <1>1, <1>6, <1>7 DEF MInv

\* The handler returns its output: a create has tested the MERGE it returns.
LEMMA AnswerMerge ==
  ASSUME MissingIsNone, IInv, MInv, NEW m \in Models, Answer(m)
  PROVE  MInv'
<1> DEFINE q == Resolve(stack[m])
           output == [mat |-> stack[m].mat, ctes |-> q.ctes, body |-> q.body,
                      merge |-> IF stack[m].mat = "incremental" THEN columns[m] ELSE Missing]
           record == [inputs |-> stack[m], output |-> output,
                      tested |-> stack[m].mat = "incremental" /\ recorded[m] = Missing]
<1>1. /\ pc[m] = "answer" /\ pc' = [pc EXCEPT ![m] = "done"] /\ UNCHANGED << live, stack >>
      /\ recorded' = [recorded EXCEPT ![m] = record] /\ stray \subseteq stray'
      /\ columns' = [columns EXCEPT ![m] = Missing]
  BY DEF Answer, Goto, service
<1>2. record.tested => /\ stack[m].mat = "incremental" /\ recorded[m] = Missing
                       /\ record.output.merge = columns[m]
  OBVIOUS
<1>3. record.output.body.sql = stack[m].sql
  BY DEF Resolve
<1> HIDE DEF record
<1>4. /\ recorded'[m] = record /\ pc'[m] = "done"
      /\ \A n \in Models \ {m} : /\ recorded'[n] = recorded[n] /\ pc'[n] = pc[n]
                                 /\ columns'[n] = columns[n]
      /\ DOMAIN columns' = Models
  BY <1>1 DEF IInv, ShapesOK, MInv
<1>5. TestedOK'
  BY <1>1, <1>2, <1>3, <1>4 DEF MInv, TestedOK, CreatedOK, Tested, MergeRuns
<1>6. CreatedOK'
  BY <1>1, <1>4 DEF MInv, CreatedOK, MergeRuns
<1> QED BY <1>4, <1>5, <1>6 DEF MInv

\* delete_dbt_model: what is dropped is forgotten, or stray.
LEMMA DeleteMerge ==
  ASSUME IInv, MInv, NEW m \in Models, Delete(m)
  PROVE  MInv'
<1>1. /\ pc[m] = "condemned" /\ UNCHANGED << stack, columns >>
      /\ \E to \in {"idle", "failed"} : pc' = [pc EXCEPT ![m] = to]
      /\ live' = live \/ live' = [live EXCEPT ![m] = Missing]
      /\ \/ recorded' = [recorded EXCEPT ![m] = Missing] /\ stray \ {m} \subseteq stray'
         \/ UNCHANGED recorded /\ stray \subseteq stray' /\ (live' = live \/ m \in stray')
  BY DEF Delete, Goto, Settled
<1>2. \A n \in Models \ {m} : /\ live'[n] = live[n] /\ recorded'[n] = recorded[n]
                              /\ pc'[n] = pc[n]
  BY <1>1 DEF IInv, ShapesOK
<1>3. pc'[m] \in {"idle", "failed"}
  BY <1>1 DEF IInv, ShapesOK
<1>4. \/ recorded'[m] = Missing \/ m \in stray'
      \/ recorded'[m] = recorded[m] /\ live' = live /\ m \notin stray
  BY <1>1 DEF IInv, ShapesOK
<1>5. TestedOK'
  BY <1>1, <1>2, <1>3, <1>4 DEF MInv, TestedOK, Tested, MergeRuns
<1>6. CreatedOK'
  BY <1>1, <1>2, <1>3 DEF MInv, CreatedOK, MergeRuns
<1> QED BY <1>1, <1>5, <1>6 DEF MInv

\* A statement that outlived its call ends: its table is stray from then on.
LEMMA FinishMerge ==
  ASSUME MissingIsNone, IInv, MInv, NEW j \in jobs, Finish(j)
  PROVE  MInv'
<1>1. /\ j.model \in Models /\ HasStatement(j.model, j.mat)
      /\ stray' = stray \cup {j.model} /\ UNCHANGED << recorded, stack, pc, columns >>
  BY DEF Finish, IInv, JobsOK
<1>2. \A n \in Models \ {j.model} : live'[n] = live[n]
  BY <1>1, ExecuteKeeps DEF Finish
<1> QED BY <1>1, <1>2, MergesKeep DEF MInv

\* The engine, the other calls of the handlers, and the death of the plugin.
LEMMA OthersMerge ==
  ASSUME IInv, MInv,
         \/ \E s \in Stacks : Deploy(s)
         \/ \E m \in Models : GetColumns(m) \/ DryRun(m) \/ Refresh(m)
         \/ End \/ Crash \/ UNCHANGED vars
  PROVE  MInv'
<1>1. ASSUME NEW s \in Stacks, Deploy(s)
      PROVE  MInv'
  <2>1. /\ \A m \in Models : pc[m] # "answer" /\ pc'[m] # "answer"
        /\ UNCHANGED << live, recorded, columns, stray >>
    BY <1>1 DEF Deploy, Idle, service
  <2> QED BY <2>1 DEF MInv, TestedOK, CreatedOK, Tested, MergeRuns
<1>2. ASSUME NEW m \in Models, GetColumns(m)
      PROVE  MInv'
  <2>1. /\ pc[m] = "schema" /\ pc' = [pc EXCEPT ![m] = "ddl"]
        /\ UNCHANGED << live, recorded, stack, stray >>
        /\ \E c : columns' = [columns EXCEPT ![m] = c]
    BY <1>2 DEF GetColumns, Goto, service
  <2>2. \A n \in Models \ {m} : columns'[n] = columns[n] /\ pc'[n] = pc[n]
    BY <2>1 DEF IInv, ShapesOK, MInv
  <2>3. pc'[m] = "ddl" /\ DOMAIN columns' = Models
    BY <2>1 DEF IInv, ShapesOK, MInv
  <2> QED BY <2>1, <2>2, <2>3, MergesKeep
<1>3. ASSUME NEW m \in Models, DryRun(m)
      PROVE  MInv'
  <2>1. /\ pc[m] = "dryRun" /\ UNCHANGED << live, recorded, stack, columns >>
        /\ stray \subseteq stray'
        /\ \/ pc' = [pc EXCEPT ![m] = "failed"]
           \/ pc' = [pc EXCEPT ![m] = "answer"] /\ MergeRuns(m, stack[m].sql, columns[m])
    BY <1>3 DEF DryRun, Goto, service
  <2>2. \A n \in Models \ {m} : pc'[n] = pc[n]
    BY <2>1 DEF IInv, ShapesOK
  <2>3. pc'[m] \in {"failed", "answer"}
        /\ (pc'[m] = "answer" => MergeRuns(m, stack[m].sql, columns[m]))
    BY <2>1 DEF IInv, ShapesOK
  <2>4. TestedOK'
    BY <2>1, <2>2, <2>3 DEF MInv, TestedOK, Tested, MergeRuns
  <2>5. CreatedOK'
    BY <2>1, <2>2, <2>3 DEF MInv, CreatedOK, MergeRuns
  <2> QED BY <2>1, <2>4, <2>5 DEF MInv
<1>4. ASSUME NEW m \in Models, Refresh(m)
      PROVE  MInv'
  <2>1. /\ recorded' = [recorded EXCEPT ![m] = Missing]
        /\ UNCHANGED << live, stack, pc, columns >>
        /\ stray \subseteq stray' /\ \A n \in Models : pc[n] = "idle"
    BY <1>4 DEF Refresh, service, Idle
  <2>2. recorded'[m] = Missing /\ \A n \in Models \ {m} : recorded'[n] = recorded[n]
    BY <2>1 DEF IInv, ShapesOK
  <2> QED BY <2>1, <2>2, MergesKeep DEF MInv
<1>5. CASE End
  <2>1. /\ \A m \in Models : pc'[m] = "idle" /\ pc[m] \notin Active
        /\ UNCHANGED << live, recorded, stack, stray >> /\ DOMAIN columns' = Models
    BY <1>5 DEF End, service
  <2> QED BY <2>1, MergesKeep DEF Active
<1>6. CASE Crash
  <2> DEFINE A == { m \in Models : pc[m] \in Active }
  <2>1. /\ \A m \in Models : pc'[m] = IF pc[m] \in Active THEN "failed" ELSE pc[m]
        /\ stray' = stray \cup Made(A) /\ UNCHANGED << live, recorded, stack, columns >>
    BY <1>6 DEF Crash, service
  <2>2. \A m \in Models : pc[m] = "answer" /\ HasStatement(m, stack[m].mat) => m \in Made(A)
    BY DEF Made, Active
  <2>3. \A m \in Models : pc'[m] # "answer"
    BY <2>1 DEF Active
  <2> HIDE DEF A
  <2> QED BY <2>1, <2>2, <2>3, MergesKeep DEF MInv
<1>7. CASE UNCHANGED vars
  <2>1. UNCHANGED << live, recorded, stack, pc, columns, stray >>
    BY <1>7 DEF vars, service
  <2> QED BY <2>1, MergesKeep DEF MInv
<1> QED BY <1>1, <1>2, <1>3, <1>4, <1>5, <1>6, <1>7

\* Every step keeps what is known of the MERGEs.
LEMMA NextMerge ==
  ASSUME MissingIsNone, IInv, MInv, [Next]_vars
  PROVE  MInv'
BY BeginMerge, ExecuteDdlMerge, AnswerMerge, DeleteMerge, FinishMerge, OthersMerge
   DEF Next, Handle

\* MergeMatches: the MERGE that a create returns, for a schedule to run, runs on the
\* table it made, for as long as nothing happens to the table behind the record.
THEOREM MergeMatchesHolds ==
  ASSUME MissingIsNone
  PROVE  Spec => []MergeMatches
<1>1. Init => MInv
  BY InitMerge
<1>2. IInv /\ MInv /\ [Next]_vars => MInv'
  BY NextMerge
<1>3. MInv => MergeMatches
  BY DEF MInv, TestedOK, MergeMatches, Tested
<1> QED BY <1>1, <1>2, <1>3, DbtInvariant, PTL DEF Spec
-----------------------------------------------------------------------------
(* The CTEs of a query.                                                     *)

Bodies == [sql : Sqls, ctes : SUBSET Models, tables : SUBSET Models]
Ctes == [name : Models, body : Bodies]

\* Each CTE of a list reads only those before it.
InOrder(ctes) ==
  \A i \in 1..Len(ctes) : ctes[i].body.ctes \subseteq { ctes[k].name : k \in 1..(i - 1) }

\* A query as resolve makes it.
Query(q) == q.ctes \in Seq(Ctes) /\ q.body \in Bodies /\ Ordered(q)

\* Ordered, of a list with its domain known.
LEMMA OrderedIsInOrder ==
  ASSUME NEW q, q.ctes \in Seq(Ctes)
  PROVE  Ordered(q) <=> q.body.ctes \subseteq Names(q.ctes) /\ InOrder(q.ctes)
<1>1. DOMAIN q.ctes = 1..Len(q.ctes)
  OBVIOUS
<1> QED BY <1>1 DEF Ordered, InOrder

\* A CTE may follow those it reads.
LEMMA AppendInOrder ==
  ASSUME NEW ctes \in Seq(Ctes), InOrder(ctes), NEW c \in Ctes, c.body.ctes \subseteq Names(ctes)
  PROVE  /\ Append(ctes, c) \in Seq(Ctes) /\ InOrder(Append(ctes, c))
         /\ Names(Append(ctes, c)) = Names(ctes) \cup {c.name}
<1> DEFINE more == Append(ctes, c)
<1>1. /\ more \in Seq(Ctes) /\ Len(more) = Len(ctes) + 1 /\ more[Len(ctes) + 1] = c
      /\ \A i \in 1..Len(ctes) : more[i] = ctes[i]
  OBVIOUS
<1>2. DOMAIN ctes = 1..Len(ctes) /\ DOMAIN more = 1..(Len(ctes) + 1) /\ Len(ctes) \in Nat
  BY <1>1
<1> HIDE DEF more
<1>3. Names(more) = Names(ctes) \cup {c.name}
  BY <1>1, <1>2 DEF Names
<1>4. ASSUME NEW i \in 1..Len(more)
      PROVE  more[i].body.ctes \subseteq { more[k].name : k \in 1..(i - 1) }
  <2>1. CASE i \in 1..Len(ctes)
    <3>1. \A k \in 1..(i - 1) : more[k] = ctes[k]
      BY <1>1, <1>2, <2>1
    <3>2. { more[k].name : k \in 1..(i - 1) } = { ctes[k].name : k \in 1..(i - 1) }
      BY <3>1
    <3> QED BY <1>1, <2>1, <3>2 DEF InOrder
  <2>2. CASE i = Len(ctes) + 1
    <3>1. Names(ctes) = { more[k].name : k \in 1..(i - 1) }
      BY <1>1, <1>2, <2>2 DEF Names
    <3> QED BY <1>1, <2>2, <3>1
  <2> QED BY <1>1, <1>2, <1>4, <2>1, <2>2
<1> QED BY <1>1, <1>3, <1>4 DEF InOrder, more

\* The fold of Inline, over the CTEs an ephemeral model brings, c = << there, brought >>.
BringOne(c, ctes, x) == Bring(ctes, x)
Brought(c, k, ctes) ==
  /\ ctes \in Seq(Ctes) /\ InOrder(ctes) /\ Names(c[1]) \subseteq Names(ctes)
  /\ \A i \in 1..k : c[2][i].name \in Names(ctes)
Bringing == INSTANCE FoldInduction WITH Op <- BringOne, Holds <- Brought

\* They keep their order among those that are there.
LEMMA BringKeeps ==
  ASSUME NEW there \in Seq(Ctes), InOrder(there), NEW more \in Seq(Ctes), InOrder(more)
  PROVE  /\ FoldLeft(Bring, there, more) \in Seq(Ctes) /\ InOrder(FoldLeft(Bring, there, more))
         /\ Names(there) \cup Names(more) \subseteq Names(FoldLeft(Bring, there, more))
<1> DEFINE c == << there, more >>
           n == Len(more)
<1>1. FoldLeft(Bring, there, more) = Bringing!Fold(c, there, more)
  BY DEF FoldLeft, MapThenFoldSet, Bringing!Fold, Bringing!Step, BringOne, Max, Bringing!Largest
<1>2. n \in Nat /\ DOMAIN more = 1..n /\ c[1] = there /\ c[2] = more
  OBVIOUS
<1> HIDE DEF c, n
<1>3. Brought(c, 0, there)
  BY <1>2 DEF Brought
<1>4. ASSUME NEW k \in 1..n, NEW ctes, Brought(c, k - 1, ctes)
      PROVE  Brought(c, k, BringOne(c, ctes, more[k]))
  <2>1. more[k] \in Ctes /\ k \in Nat /\ \A i \in 1..k : i \in 1..(k - 1) \/ i = k
    BY <1>2
  <2>2. more[k].body.ctes \subseteq Names(ctes)
    <3>1. more[k].body.ctes \subseteq { more[i].name : i \in 1..(k - 1) }
      BY <1>2, <1>4 DEF InOrder, n
    <3> QED BY <1>2, <1>4, <3>1 DEF Brought
  <2>3. CASE more[k].name \in Names(ctes)
    BY <1>2, <1>4, <2>1, <2>3 DEF Brought, BringOne, Bring
  <2>4. CASE more[k].name \notin Names(ctes)
    <3>1. BringOne(c, ctes, more[k]) = Append(ctes, more[k])
      BY <2>4 DEF BringOne, Bring
    <3>2. /\ Append(ctes, more[k]) \in Seq(Ctes) /\ InOrder(Append(ctes, more[k]))
          /\ Names(Append(ctes, more[k])) = Names(ctes) \cup {more[k].name}
      BY <1>4, <2>1, <2>2, AppendInOrder DEF Brought
    <3> QED BY <1>2, <1>4, <2>1, <3>1, <3>2 DEF Brought
  <2> QED BY <2>3, <2>4
<1>5. Brought(c, n, Bringing!Fold(c, there, more))
  BY <1>2, <1>3, <1>4, Bringing!FoldInduction
<1>6. Names(more) \subseteq Names(Bringing!Fold(c, there, more))
  BY <1>2, <1>5 DEF Brought, Names
<1> QED BY <1>1, <1>2, <1>5, <1>6 DEF Brought

\* An ephemeral model is inlined after the CTEs it reads.
LEMMA InlineKeeps ==
  ASSUME NEW ctes \in Seq(Ctes), InOrder(ctes), NEW m \in Models, NEW output, Query(output)
  PROVE  /\ Inline(ctes, m, output) \in Seq(Ctes) /\ InOrder(Inline(ctes, m, output))
         /\ Names(ctes) \cup {m} \subseteq Names(Inline(ctes, m, output))
<1> DEFINE own == [name |-> m, body |-> output.body]
           all == FoldLeft(Bring, ctes, output.ctes)
<1>1. CASE m \in Names(ctes)
  BY <1>1 DEF Inline
<1>2. CASE m \notin Names(ctes)
  <2>1. Inline(ctes, m, output) = Append(all, own)
    BY <1>2 DEF Inline
  <2>2. output.ctes \in Seq(Ctes) /\ InOrder(output.ctes) /\ output.body.ctes \subseteq Names(output.ctes)
    BY OrderedIsInOrder DEF Query
  <2>3. own \in Ctes /\ own.name = m /\ own.body.ctes = output.body.ctes
    BY DEF Query, Ctes
  <2>4. /\ all \in Seq(Ctes) /\ InOrder(all)
        /\ Names(ctes) \cup Names(output.ctes) \subseteq Names(all)
    BY <2>2, BringKeeps
  <2> HIDE DEF own, all
  <2> QED BY <2>1, <2>2, <2>3, <2>4, AppendInOrder
<1> QED BY <1>1, <1>2

\* The fold of Resolve, over what the model declared as d refers to.
ResolveOne(d, ctes, r) ==
  IF r \in Inlined(d) THEN Inline(ctes, r, recorded[r].output) ELSE ctes
Resolved(d, k, ctes) ==
  /\ ctes \in Seq(Ctes) /\ InOrder(ctes)
  /\ \A i \in 1..k : d.refs[i] \in Inlined(d) => d.refs[i] \in Names(ctes)
Resolving == INSTANCE FoldInduction WITH Op <- ResolveOne, Holds <- Resolved

\* resolve makes a query of what its model refers to when that has been made by it, too.
LEMMA ResolveIsQuery ==
  ASSUME NEW d \in Declarations,
         \A r \in ToSet(d.refs) : Query(recorded[r].output)
  PROVE  Query(Resolve(d))
<1> DEFINE n == Len(d.refs)
           ctes == Resolve(d).ctes
<1>1. ctes = Resolving!Fold(d, << >>, d.refs)
  BY DEF Resolve, FoldLeft, MapThenFoldSet, Resolving!Fold, Resolving!Step, ResolveOne, Max,
         Resolving!Largest
<1>2. /\ n \in Nat /\ DOMAIN d.refs = 1..n /\ d.refs \in Seq(Models) /\ d.sql \in Sqls
      /\ \A k \in 1..n : d.refs[k] \in Models /\ d.refs[k] \in ToSet(d.refs)
  BY DEF Declarations, ToSet
<1> HIDE DEF n
<1>3. Resolved(d, 0, << >>)
  BY DEF Resolved, InOrder
<1>4. ASSUME NEW k \in 1..n, NEW acc, Resolved(d, k - 1, acc)
      PROVE  Resolved(d, k, ResolveOne(d, acc, d.refs[k]))
  <2> DEFINE r == d.refs[k]
  <2>1. r \in Models /\ r \in ToSet(d.refs) /\ \A i \in 1..k : i \in 1..(k - 1) \/ i = k
    BY <1>2
  <2>2. CASE r \in Inlined(d)
    <3>1. ResolveOne(d, acc, r) = Inline(acc, r, recorded[r].output)
      BY <2>2 DEF ResolveOne
    <3>2. /\ Inline(acc, r, recorded[r].output) \in Seq(Ctes)
          /\ InOrder(Inline(acc, r, recorded[r].output))
          /\ Names(acc) \cup {r} \subseteq Names(Inline(acc, r, recorded[r].output))
      BY <1>4, <2>1, InlineKeeps DEF Resolved
    <3> QED BY <1>4, <2>1, <3>1, <3>2 DEF Resolved
  <2>3. CASE r \notin Inlined(d)
    BY <1>4, <2>1, <2>3 DEF Resolved, ResolveOne
  <2> QED BY <2>2, <2>3
<1>5. Resolved(d, n, Resolving!Fold(d, << >>, d.refs))
  BY <1>2, <1>3, <1>4, Resolving!FoldInduction
<1> HIDE DEF ctes
<1>6. ctes \in Seq(Ctes) /\ InOrder(ctes) /\ Inlined(d) \subseteq Names(ctes)
  <2>1. Inlined(d) \subseteq { d.refs[i] : i \in 1..n }
    BY <1>2 DEF Inlined, ToSet
  <2> QED BY <1>1, <1>5, <2>1 DEF Resolved
<1>7. Resolve(d).body = [sql |-> d.sql, ctes |-> Inlined(d), tables |-> ToSet(d.refs) \ Inlined(d)]
  BY DEF Resolve
<1>8. Resolve(d).body \in Bodies
  <2>1. ToSet(d.refs) \subseteq Models /\ Inlined(d) \subseteq Models
    BY <1>2 DEF ToSet, Inlined
  <2> QED BY <1>2, <1>7, <2>1 DEF Bodies
<1> QED BY <1>6, <1>7, <1>8, OrderedIsInOrder DEF Query, ctes

\* Only what the stack declares is begun.
StackOK ==
  /\ \A m \in DOMAIN stack : m \in Models /\ stack[m] \in Declarations
  /\ \A m \in Models : pc[m] = "waiting" \/ pc[m] \in Active => m \in DOMAIN stack

\* What is recorded, what BigQuery was given and what still runs has been resolved.
QueriesOK ==
  /\ \A m \in Models : recorded[m] # Missing => Query(recorded[m].output)
  /\ \A m \in Models : live[m] # Missing /\ live[m].query # Missing => Query(live[m].query)
  /\ \A j \in jobs : Query(j.query)

CInv == StackOK /\ QueriesOK

\* A model at work resolves to a query.
LEMMA AtWorkIsQuery ==
  ASSUME RInv, CInv, NEW m \in Models, pc[m] \in Active
  PROVE  Query(Resolve(stack[m])) /\ stack[m] \in Declarations
<1>1. stack[m] \in Declarations
  BY DEF CInv, StackOK
<1>2. \A r \in ToSet(stack[m].refs) : r \in Models /\ recorded[r] # Missing
  BY DEF RInv, BegunOK, Refs
<1>3. \A r \in ToSet(stack[m].refs) : Query(recorded[r].output)
  BY <1>2 DEF CInv, QueriesOK
<1> QED BY <1>1, <1>3, ResolveIsQuery

\* An executed statement makes the table of its model from its query.
LEMMA ExecuteMakes ==
  ASSUME IInv, NEW j, j.model \in Models, Execute(j)
  PROVE  /\ live'[j.model].query = j.query /\ live'[j.model].kind = Kind(j.mat)
         /\ \A m \in Models \ {j.model} : live'[m] = live[m]
BY DEF Execute, IInv, ShapesOK

\* A step that records and makes nothing but what has been resolved.
LEMMA QueriesKeep ==
  ASSUME QueriesOK,
         \A m \in Models : \/ recorded'[m] = Missing
                           \/ recorded[m] # Missing /\ recorded'[m].output = recorded[m].output
                           \/ Query(recorded'[m].output),
         \A m \in Models : live'[m] = live[m] \/ live'[m] = Missing \/ Query(live'[m].query),
         \A j \in jobs' : j \in jobs \/ Query(j.query)
  PROVE  QueriesOK'
BY DEF QueriesOK

\* A step of one handler begins nothing.
LEMMA StackKeeps ==
  ASSUME CInv, UNCHANGED stack,
         \A m \in Models : pc'[m] = "waiting" \/ pc'[m] \in Active =>
                             pc[m] = "waiting" \/ pc[m] \in Active
  PROVE  StackOK'
BY DEF CInv, StackOK

\* Every step keeps what is known of the queries.
LEMMA NextQueries ==
  ASSUME MissingIsNone, IInv, RInv, CInv, [Next]_vars
  PROVE  CInv'
<1>1. ASSUME NEW s \in Stacks, Deploy(s)
      PROVE  CInv'
  <2>1. /\ stack' = s /\ UNCHANGED << live, jobs, recorded >>
        /\ \A m \in Models : /\ pc'[m] \in {"waiting", "condemned", "idle"}
                             /\ pc'[m] = "waiting" => m \in DOMAIN s
    BY <1>1 DEF Deploy, service
  <2>2. StackOK'
    BY <2>1, DbtAssumption DEF StackOK, Active
  <2> QED BY <2>1, <2>2 DEF CInv, QueriesOK
<1>2. ASSUME NEW m \in Models, Begin(m)
      PROVE  CInv'
  <2>1. /\ pc[m] = "waiting" /\ UNCHANGED << live, jobs, stack >>
        /\ \E to : pc' = [pc EXCEPT ![m] = to]
        /\ \/ UNCHANGED recorded
           \/ recorded[m] # Missing /\ recorded' = [recorded EXCEPT ![m].inputs = stack[m]]
    BY <1>2 DEF Begin, Goto, service
  <2>2. \A n \in Models : \/ recorded'[n] = recorded[n]
                          \/ recorded[n] # Missing /\ recorded'[n].output = recorded[n].output
    <3>1. CASE UNCHANGED recorded
      BY <3>1
    <3>2. CASE recorded[m] # Missing /\ recorded' = [recorded EXCEPT ![m].inputs = stack[m]]
      <4>1. recorded'[m] = [recorded[m] EXCEPT !.inputs = stack[m]]
            /\ \A n \in Models \ {m} : recorded'[n] = recorded[n]
        BY <3>2 DEF IInv, ShapesOK
      <4>2. recorded[m] = [inputs |-> recorded[m].inputs, output |-> recorded[m].output,
                           tested |-> recorded[m].tested]
        BY <3>2 DEF IInv, ShapesOK
      <4>3. [recorded[m] EXCEPT !.inputs = stack[m]].output = recorded[m].output
        BY <4>2
      <4> QED BY <3>2, <4>1, <4>3
    <3> QED BY <2>1, <3>1, <3>2
  <2>3. QueriesOK'
    BY <2>1, <2>2, QueriesKeep DEF CInv
  <2>4. StackOK'
    BY <2>1, StackKeeps DEF IInv, ShapesOK
  <2> QED BY <2>3, <2>4 DEF CInv
<1>3. ASSUME NEW m \in Models, GetColumns(m) \/ DryRun(m)
      PROVE  CInv'
  <2>1. /\ pc[m] \in Active /\ UNCHANGED << live, jobs, recorded, stack >>
        /\ \E to : pc' = [pc EXCEPT ![m] = to]
    BY <1>3 DEF GetColumns, DryRun, Goto, service, Active
  <2>2. StackOK'
    BY <2>1, StackKeeps DEF IInv, ShapesOK
  <2> QED BY <2>1, <2>2 DEF CInv, QueriesOK
<1>4. ASSUME NEW m \in Models, ExecuteDdl(m)
      PROVE  CInv'
  <2> DEFINE j == [model |-> m, mat |-> stack[m].mat, query |-> Resolve(stack[m])]
  <2>1. /\ pc[m] = "ddl" /\ UNCHANGED << recorded, stack >>
        /\ \E to : pc' = [pc EXCEPT ![m] = to]
        /\ \/ Execute(j) \/ UNCHANGED live
        /\ jobs' \subseteq jobs \cup {j}
    BY <1>4 DEF ExecuteDdl, Goto, service
  <2>2. j.model = m /\ j.query = Resolve(stack[m])
    OBVIOUS
  <2>3. Query(j.query)
    BY <2>1, <2>2, AtWorkIsQuery DEF Active
  <2> HIDE DEF j
  <2>4. \A n \in Models : live'[n] = live[n] \/ Query(live'[n].query)
    BY <2>1, <2>2, <2>3, ExecuteMakes
  <2>5. QueriesOK'
    BY <2>1, <2>3, <2>4, QueriesKeep DEF CInv
  <2>6. StackOK'
    BY <2>1, StackKeeps DEF IInv, ShapesOK, Active
  <2> QED BY <2>5, <2>6 DEF CInv
<1>5. ASSUME NEW m \in Models, Answer(m)
      PROVE  CInv'
  <2> DEFINE q == Resolve(stack[m])
             output == [mat |-> stack[m].mat, ctes |-> q.ctes, body |-> q.body,
                        merge |-> IF stack[m].mat = "incremental" THEN columns[m] ELSE Missing]
             record == [inputs |-> stack[m], output |-> output,
                        tested |-> stack[m].mat = "incremental" /\ recorded[m] = Missing]
  <2>1. /\ pc[m] = "answer" /\ pc' = [pc EXCEPT ![m] = "done"] /\ UNCHANGED << live, jobs, stack >>
        /\ recorded' = [recorded EXCEPT ![m] = record]
    BY <1>5 DEF Answer, Goto, service
  <2>2. Query(q)
    BY <2>1, AtWorkIsQuery DEF Active
  <2>3. Query(record.output)
    <3>1. record.output.ctes = q.ctes /\ record.output.body = q.body
      OBVIOUS
    <3> QED BY <2>2, <3>1 DEF Query, Ordered
  <2> HIDE DEF record
  <2>4. \A n \in Models : recorded'[n] = recorded[n] \/ Query(recorded'[n].output)
    BY <2>1, <2>3 DEF IInv, ShapesOK
  <2>5. QueriesOK'
    BY <2>1, <2>4, QueriesKeep DEF CInv
  <2>6. StackOK'
    BY <2>1, StackKeeps DEF IInv, ShapesOK, Active
  <2> QED BY <2>5, <2>6 DEF CInv
<1>6. ASSUME NEW m \in Models, Delete(m) \/ Refresh(m)
      PROVE  CInv'
  <2>1. /\ UNCHANGED << jobs, stack >>
        /\ pc' = pc \/ \E to \in {"idle", "failed"} : pc' = [pc EXCEPT ![m] = to]
        /\ live' = live \/ live' = [live EXCEPT ![m] = Missing]
        /\ recorded' = recorded \/ recorded' = [recorded EXCEPT ![m] = Missing]
    BY <1>6 DEF Delete, Refresh, Goto, service
  <2>2. \A n \in Models : (live'[n] = live[n] \/ live'[n] = Missing)
                          /\ (recorded'[n] = recorded[n] \/ recorded'[n] = Missing)
    BY <2>1 DEF IInv, ShapesOK
  <2>3. QueriesOK'
    BY <2>1, <2>2, QueriesKeep DEF CInv
  <2>4. StackOK'
    BY <2>1, StackKeeps DEF IInv, ShapesOK, Active
  <2> QED BY <2>3, <2>4 DEF CInv
<1>7. ASSUME NEW j \in jobs, Finish(j)
      PROVE  CInv'
  <2>1. /\ jobs' \subseteq jobs /\ UNCHANGED << recorded, stack, pc >>
        /\ Execute(j) \/ UNCHANGED live
    BY <1>7 DEF Finish
  <2>2. j.model \in Models /\ Query(j.query)
    BY DEF IInv, JobsOK, CInv, QueriesOK
  <2>3. \A n \in Models : live'[n] = live[n] \/ Query(live'[n].query)
    BY <2>1, <2>2, ExecuteMakes
  <2>4. QueriesOK'
    BY <2>1, <2>3, QueriesKeep DEF CInv
  <2>5. StackOK'
    BY <2>1, StackKeeps
  <2> QED BY <2>4, <2>5 DEF CInv
<1>8. CASE End \/ Crash \/ UNCHANGED vars
  <2>1. /\ UNCHANGED << live, jobs, recorded, stack >>
        /\ \A m \in Models : pc'[m] \in {pc[m], "idle", "failed"}
    BY <1>8 DEF End, Crash, vars, service
  <2>2. StackOK'
    BY <2>1, StackKeeps DEF Active
  <2> QED BY <2>1, <2>2 DEF CInv, QueriesOK
<1> QED BY <1>1, <1>2, <1>3, <1>4, <1>5, <1>6, <1>7, <1>8 DEF Next, Handle

\* What is known of the queries holds throughout.
LEMMA QueriesInvariant ==
  ASSUME MissingIsNone
  PROVE  Spec => [](IInv /\ RInv /\ CInv)
<1>1. Init => CInv
  <2> SUFFICES ASSUME Init PROVE CInv
    OBVIOUS
  <2>1. \A m \in Models : live[m] # Missing => live[m].query = Missing
    BY DEF Init
  <2> QED BY <2>1 DEF Init, CInv, StackOK, QueriesOK, Active
<1>2. Init => RInv
  BY InitRefs
<1>3. IInv /\ RInv /\ [Next]_vars => RInv'
  BY NextRefs
<1>4. IInv /\ RInv /\ CInv /\ [Next]_vars => CInv'
  BY NextQueries
<1> QED BY <1>1, <1>2, <1>3, <1>4, DbtInvariant, PTL DEF Spec

\* CtesClosed: however models are changed between ephemeral and not, no query that is
\* recorded, was executed or still runs reads a CTE before its definition.
THEOREM CtesClosedHolds ==
  ASSUME MissingIsNone
  PROVE  Spec => []CtesClosed
<1>1. CInv => CtesClosed
  BY DEF CInv, QueriesOK, CtesClosed, Query
<1> QED BY <1>1, QueriesInvariant, PTL
-----------------------------------------------------------------------------
(* The tables after a successful deploy.                                    *)

\* The table of a recorded model is the one its inputs ask for, unless its handler has
\* replaced it; then it is the one the stack asks for.
FitsOK ==
  \A m \in Models \ stray :
    /\ recorded[m] # Missing /\ ~Making(m) => Fits(m, recorded[m].inputs)
    /\ Making(m) => Fits(m, stack[m])

\* A model that is done is recorded as the stack declares it.
DoneOK ==
  \A m \in Models : pc[m] = "done" => recorded[m] # Missing /\ recorded[m].inputs = stack[m]

\* During a deploy every declared model is on its way, after a successful one recorded
\* as it is declared.
DeployOK ==
  /\ ~Idle => \A m \in DOMAIN stack : pc[m] \notin {"idle", "condemned"}
  /\ Idle /\ outcome = "ok" =>
       \A m \in DOMAIN stack : recorded[m] # Missing /\ recorded[m].inputs = stack[m]

UInv == FitsOK /\ DoneOK /\ DeployOK

\* Between deploys nothing is at work.
LEMMA IdleMakesNothing ==
  ASSUME Idle
  PROVE  \A m \in Models : ~Making(m)
BY DEF Idle, Making

\* begin: without a difference the table the old inputs ask for is the one the new ask for.
LEMMA BeginFits ==
  ASSUME MissingIsNone, IInv, CInv, UInv, NEW m \in Models, Begin(m)
  PROVE  UInv'
<1>1. /\ pc[m] = "waiting" /\ UNCHANGED << live, jobs, stack, stray >>
      /\ \/ UNCHANGED recorded /\ \E to \in {"schema", "ddl"} : pc' = [pc EXCEPT ![m] = to]
         \/ /\ recorded[m] # Missing /\ ~Differs(recorded[m].inputs, stack[m])
            /\ recorded' = [recorded EXCEPT ![m].inputs = stack[m]]
            /\ pc' = [pc EXCEPT ![m] = "done"]
  BY DEF Begin, Goto, service
<1>2. /\ \A n \in Models \ {m} : pc'[n] = pc[n] /\ recorded'[n] = recorded[n]
      /\ pc'[m] \in {"schema", "ddl", "done"} /\ DOMAIN pc' = Models
  BY <1>1 DEF IInv, ShapesOK
<1>3. \/ recorded'[m] = recorded[m] /\ pc'[m] # "done"
      \/ /\ recorded[m] # Missing /\ ~Differs(recorded[m].inputs, stack[m])
         /\ recorded'[m] # Missing /\ recorded'[m].inputs = stack[m]
  <2>1. CASE recorded[m] # Missing /\ recorded' = [recorded EXCEPT ![m].inputs = stack[m]]
    <3>1. recorded'[m] = [recorded[m] EXCEPT !.inputs = stack[m]]
      BY <2>1 DEF IInv, ShapesOK
    <3>2. recorded[m] = [inputs |-> recorded[m].inputs, output |-> recorded[m].output,
                         tested |-> recorded[m].tested]
      BY <2>1 DEF IInv, ShapesOK
    <3>3. [recorded[m] EXCEPT !.inputs = stack[m]]
            = [inputs |-> stack[m], output |-> recorded[m].output, tested |-> recorded[m].tested]
      BY <3>2
    <3>4. recorded'[m] # Missing /\ recorded'[m].inputs = stack[m]
      BY <3>1, <3>3 DEF MissingIsNone
    <3> QED BY <1>1, <1>2, <2>1, <3>4
  <2>2. CASE UNCHANGED recorded /\ \E to \in {"schema", "ddl"} : pc' = [pc EXCEPT ![m] = to]
    BY <2>2 DEF IInv, ShapesOK
  <2> QED BY <1>1, <2>1, <2>2
<1>4. \A n \in Models : Making(n)' = Making(n)
  BY <1>1, <1>2 DEF Making
<1>5. ~Making(m)
  BY <1>1 DEF Making
<1>6. \A n \in Models : \A d : Fits(n, d)' = Fits(n, d)
  BY <1>1 DEF Fits
<1>7. \A old : ~Differs(old, stack[m]) /\ Fits(m, old) => Fits(m, stack[m])
  BY DEF Differs, Fits
<1>8. FitsOK'
  BY <1>1, <1>2, <1>3, <1>4, <1>5, <1>6, <1>7 DEF UInv, FitsOK
<1>9. DoneOK'
  BY <1>1, <1>2, <1>3 DEF UInv, DoneOK
<1>10. DeployOK'
  <2>1. ~Idle /\ ~Idle'
    BY <1>1, <1>2 DEF Idle
  <2>2. \A n \in DOMAIN stack : n \in Models
    BY DEF CInv, StackOK
  <2> QED BY <1>1, <1>2, <2>1, <2>2 DEF UInv, DeployOK
<1> QED BY <1>8, <1>9, <1>10 DEF UInv

\* A step of a handler at work that neither records nor finishes anything.
LEMMA AtWorkKeeps ==
  ASSUME IInv, CInv, UInv, NEW m \in Models, pc[m] \in Active,
         UNCHANGED << recorded, stack >>,
         \E to \in Active \cup {"failed"} : pc' = [pc EXCEPT ![m] = to]
  PROVE  DoneOK' /\ DeployOK'
<1>1. /\ \A n \in Models \ {m} : pc'[n] = pc[n]
      /\ pc'[m] \in Active \cup {"failed"} /\ DOMAIN pc' = Models
  BY DEF IInv, ShapesOK
<1>2. ~Idle /\ ~Idle'
  BY <1>1 DEF Idle, Active
<1>3. \A n \in DOMAIN stack : n \in Models
  BY DEF CInv, StackOK
<1> QED BY <1>1, <1>2, <1>3 DEF UInv, DoneOK, DeployOK, Active

\* execute_ddl: the table is the one the stack asks for.
LEMMA ExecuteDdlFits ==
  ASSUME MissingIsNone, IInv, RInv, CInv, UInv, NEW m \in Models, ExecuteDdl(m)
  PROVE  UInv'
<1> DEFINE j == [model |-> m, mat |-> stack[m].mat, query |-> Resolve(stack[m])]
           sends == HasStatement(m, stack[m].mat)
<1>1. /\ pc[m] = "ddl" /\ UNCHANGED << recorded, stack >>
      /\ \E to \in {"dryRun", "answer", "failed"} : pc' = [pc EXCEPT ![m] = to]
  BY DEF ExecuteDdl, Goto
<1>2. DoneOK' /\ DeployOK'
  BY <1>1, AtWorkKeeps DEF Active
<1>3. \A n \in Models \ {m} : pc'[n] = pc[n] /\ Making(n)' = Making(n)
  BY <1>1 DEF IInv, ShapesOK, Making
<1>4. ~Making(m)
  BY <1>1 DEF Making
<1>5. j.model = m /\ j.mat = stack[m].mat /\ j.query = Resolve(stack[m])
  OBVIOUS
<1> HIDE DEF j
<1>6. CASE sends /\ Execute(j) /\ stray \ {m} \subseteq stray' /\ (m \in stray' \/ Making(m)')
  <2>1. /\ live'[m] # Missing /\ live'[m].query = j.query /\ live'[m].kind = Kind(j.mat)
        /\ \A n \in Models \ {m} : live'[n] = live[n]
    BY <1>5, <1>6, ExecuteMakes, ExecuteKeeps
  <2>2. j.query.ctes = << >> => j.query.body.tables = ToSet(stack[m].refs)
    <3>1. /\ Query(Resolve(stack[m])) /\ Resolve(stack[m]).body.ctes = Inlined(stack[m])
          /\ Resolve(stack[m]).body.tables = ToSet(stack[m].refs) \ Inlined(stack[m])
      BY <1>1, AtWorkIsQuery DEF Active, Resolve
    <3>2. Names(<< >>) = {}
      BY DEF Names
    <3> QED BY <1>5, <3>1, <3>2 DEF Query, Ordered
  <2>3. j.query.body.sql = stack[m].sql
    <3>1. Resolve(stack[m]).body.sql = stack[m].sql
      BY DEF Resolve
    <3> QED BY <1>5, <3>1
  <2>4. Fits(m, stack[m])'
    BY <1>1, <1>5, <2>1, <2>2, <2>3 DEF Fits
  <2>5. FitsOK'
    BY <1>1, <1>3, <1>6, <2>1, <2>4 DEF UInv, FitsOK, Fits
  <2> QED BY <1>2, <2>5 DEF UInv
<1>7. CASE UNCHANGED live /\ stray' = stray \cup {m}
  BY <1>1, <1>2, <1>3, <1>7 DEF UInv, FitsOK, Fits
<1>8. CASE UNCHANGED << live, stray >> /\ ~Making(m)'
  BY <1>1, <1>2, <1>3, <1>4, <1>8 DEF UInv, FitsOK, Fits
<1> QED
  <2>1. \A to : Goto(m, to) => pc'[m] = to
    BY DEF IInv, ShapesOK, Goto
  <2>2. Settled(m) \subseteq {m}
    BY DEF Settled
  <2>3. sends /\ pc'[m] \in {"dryRun", "answer"} => Making(m)'
    BY <1>1 DEF Making
  <2>4. ~sends \/ pc'[m] = "failed" => ~Making(m)'
    BY <1>1 DEF Making
  <2> QED BY <1>6, <1>7, <1>8, <2>1, <2>2, <2>3, <2>4 DEF ExecuteDdl, j, service

\* The handler returns its output, with the inputs the table was made from.
LEMMA AnswerFits ==
  ASSUME MissingIsNone, IInv, CInv, UInv, NEW m \in Models, Answer(m)
  PROVE  UInv'
<1> DEFINE q == Resolve(stack[m])
           output == [mat |-> stack[m].mat, ctes |-> q.ctes, body |-> q.body,
                      merge |-> IF stack[m].mat = "incremental" THEN columns[m] ELSE Missing]
           record == [inputs |-> stack[m], output |-> output,
                      tested |-> stack[m].mat = "incremental" /\ recorded[m] = Missing]
<1>1. /\ pc[m] = "answer" /\ pc' = [pc EXCEPT ![m] = "done"] /\ UNCHANGED << live, jobs, stack >>
      /\ recorded' = [recorded EXCEPT ![m] = record] /\ stray \subseteq stray'
  BY DEF Answer, Goto, service
<1>2. record # Missing /\ record.inputs = stack[m]
  BY DEF MissingIsNone
<1> HIDE DEF record
<1>3. /\ \A n \in Models \ {m} : pc'[n] = pc[n] /\ recorded'[n] = recorded[n]
      /\ pc'[m] = "done" /\ recorded'[m] = record /\ DOMAIN pc' = Models
  BY <1>1 DEF IInv, ShapesOK
<1>4. ~Making(m)' /\ \A n \in Models \ {m} : Making(n)' = Making(n)
  BY <1>1, <1>3 DEF Making
<1>5. m \notin stray => Fits(m, stack[m])
  <2>1. CASE HasStatement(m, stack[m].mat)
    BY <1>1, <2>1 DEF Making, UInv, FitsOK
  <2>2. CASE ~HasStatement(m, stack[m].mat)
    BY <2>2 DEF Fits
  <2> QED BY <2>1, <2>2
<1>6. FitsOK'
  BY <1>1, <1>2, <1>3, <1>4, <1>5 DEF UInv, FitsOK, Fits
<1>7. DoneOK'
  BY <1>1, <1>2, <1>3 DEF UInv, DoneOK
<1>8. DeployOK'
  <2>1. ~Idle /\ ~Idle'
    BY <1>1, <1>3 DEF Idle
  <2>2. \A n \in DOMAIN stack : n \in Models
    BY DEF CInv, StackOK
  <2> QED BY <1>1, <1>3, <2>1, <2>2 DEF UInv, DeployOK
<1> QED BY <1>6, <1>7, <1>8 DEF UInv

\* delete_dbt_model.
LEMMA DeleteFits ==
  ASSUME IInv, CInv, UInv, NEW m \in Models, Delete(m)
  PROVE  UInv'
<1>1. /\ pc[m] = "condemned" /\ UNCHANGED << stack, outcome >>
      /\ \E to \in {"idle", "failed"} : pc' = [pc EXCEPT ![m] = to]
      /\ live' = live \/ live' = [live EXCEPT ![m] = Missing]
      /\ \/ recorded' = [recorded EXCEPT ![m] = Missing] /\ stray \ Settled(m) \subseteq stray'
         \/ UNCHANGED recorded /\ stray \subseteq stray' /\ (live' = live \/ m \in stray')
  BY DEF Delete, Goto
<1>2. /\ \A n \in Models \ {m} : /\ pc'[n] = pc[n] /\ recorded'[n] = recorded[n]
                                 /\ live'[n] = live[n]
      /\ pc'[m] \in {"idle", "failed"} /\ DOMAIN pc' = Models
  BY <1>1 DEF IInv, ShapesOK
<1>3. \/ recorded'[m] = Missing \/ m \in stray'
      \/ recorded'[m] = recorded[m] /\ live' = live /\ m \notin stray
  BY <1>1 DEF IInv, ShapesOK
<1>4. /\ ~Making(m) /\ ~Making(m)' /\ \A n \in Models \ {m} : Making(n)' = Making(n)
      /\ Settled(m) \subseteq {m}
  BY <1>1, <1>2 DEF Making, Settled
<1>5. FitsOK'
  BY <1>1, <1>2, <1>3, <1>4 DEF UInv, FitsOK, Fits
<1>6. DoneOK'
  BY <1>1, <1>2 DEF UInv, DoneOK
<1>7. DeployOK'
  <2>1. ~Idle
    BY <1>1 DEF Idle
  <2>2. \A n \in DOMAIN stack : n \in Models /\ n # m
    BY <1>1, <2>1 DEF CInv, StackOK, UInv, DeployOK
  <2>3. \A n \in DOMAIN stack : pc'[n] \notin {"idle", "condemned"}
    BY <1>2, <2>1, <2>2 DEF UInv, DeployOK
  <2>4. Idle' => DOMAIN stack = {}
    BY <2>2, <2>3 DEF Idle
  <2> QED BY <1>1, <2>3, <2>4 DEF DeployOK
<1> QED BY <1>5, <1>6, <1>7 DEF UInv

\* A statement that outlived its call ends: its table is stray from then on.
LEMMA FinishFits ==
  ASSUME MissingIsNone, IInv, UInv, NEW j \in jobs, Finish(j)
  PROVE  UInv'
<1>1. /\ j.model \in Models /\ HasStatement(j.model, j.mat)
      /\ stray' = stray \cup {j.model} /\ UNCHANGED << recorded, stack, pc, outcome >>
  BY DEF Finish, IInv, JobsOK
<1>2. \A n \in Models \ {j.model} : live'[n] = live[n]
  BY <1>1, ExecuteKeeps DEF Finish
<1>3. FitsOK'
  BY <1>1, <1>2 DEF UInv, FitsOK, Fits, Making
<1> QED BY <1>1, <1>3 DEF UInv, DoneOK, DeployOK, Idle

\* The engine, the other calls of the handlers, and the death of the plugin.
LEMMA OthersFit ==
  ASSUME IInv, CInv, UInv,
         \/ \E s \in Stacks : Deploy(s)
         \/ \E m \in Models : GetColumns(m) \/ DryRun(m) \/ Refresh(m)
         \/ End \/ Crash \/ UNCHANGED vars
  PROVE  UInv'
<1>1. ASSUME NEW s \in Stacks, Deploy(s)
      PROVE  UInv'
  <2>1. /\ stack' = s /\ Idle /\ UNCHANGED << live, recorded, stray, outcome >>
        /\ pc' = [m \in Models |-> IF m \in DOMAIN s THEN "waiting"
                                   ELSE IF recorded[m] # Missing THEN "condemned" ELSE "idle"]
        /\ DOMAIN s # {} \/ \E m \in Models : recorded[m] # Missing
    BY <1>1 DEF Deploy, service
  <2>2. /\ \A m \in DOMAIN s : m \in Models /\ pc'[m] = "waiting"
        /\ \A m \in Models : pc'[m] \in {"waiting", "condemned", "idle"}
    BY <2>1, DbtAssumption
  <2>3. \A m \in Models : ~Making(m) /\ ~Making(m)'
    BY <2>1, <2>2, IdleMakesNothing DEF Making
  <2>4. FitsOK'
    BY <2>1, <2>3 DEF UInv, FitsOK, Fits
  <2>5. ~Idle'
    <3>1. CASE DOMAIN s # {}
      BY <2>2, <3>1 DEF Idle
    <3>2. CASE DOMAIN s = {}
      <4>1. PICK m \in Models : recorded[m] # Missing
        BY <2>1, <3>2
      <4>2. pc'[m] # "idle"
        BY <2>1, <4>1
      <4> QED BY <4>2 DEF Idle
    <3> QED BY <3>1, <3>2
  <2> QED BY <2>1, <2>2, <2>4, <2>5 DEF UInv, DoneOK, DeployOK
<1>2. ASSUME NEW m \in Models, GetColumns(m)
      PROVE  UInv'
  <2>1. /\ pc[m] = "schema" /\ pc' = [pc EXCEPT ![m] = "ddl"]
        /\ UNCHANGED << live, recorded, stack, stray >>
    BY <1>2 DEF GetColumns, Goto, service
  <2>2. DoneOK' /\ DeployOK'
    BY <2>1, AtWorkKeeps DEF Active
  <2>3. \A n \in Models : Making(n)' = Making(n)
    BY <2>1 DEF IInv, ShapesOK, Making
  <2> QED BY <2>1, <2>2, <2>3 DEF UInv, FitsOK, Fits
<1>3. ASSUME NEW m \in Models, DryRun(m)
      PROVE  UInv'
  <2>1. /\ pc[m] = "dryRun" /\ UNCHANGED << live, recorded, stack >>
        /\ \/ pc' = [pc EXCEPT ![m] = "answer"] /\ stray' = stray
           \/ pc' = [pc EXCEPT ![m] = "failed"] /\ stray' = stray \cup Made({m})
    BY <1>3 DEF DryRun, Goto, service
  <2>2. DoneOK' /\ DeployOK'
    BY <2>1, AtWorkKeeps DEF Active
  <2>3. Making(m) => m \in Made({m})
    BY DEF Making, Made
  <2>4. \A n \in Models \ stray' : Making(n)' = Making(n)
    BY <2>1, <2>3 DEF IInv, ShapesOK, Making
  <2> QED BY <2>1, <2>2, <2>4 DEF UInv, FitsOK, Fits
<1>4. ASSUME NEW m \in Models, Refresh(m)
      PROVE  UInv'
  <2>1. /\ recorded' = [recorded EXCEPT ![m] = Missing] /\ UNCHANGED << live, stack, pc >>
        /\ stray \subseteq stray' /\ Idle /\ outcome' = "none"
    BY <1>4 DEF Refresh, service
  <2>2. \A n \in Models : recorded'[n] = Missing \/ recorded'[n] = recorded[n]
    BY <2>1 DEF IInv, ShapesOK
  <2>3. Idle' /\ \A n \in Models : ~Making(n) /\ ~Making(n)' /\ pc'[n] # "done"
    BY <2>1, IdleMakesNothing DEF Idle, Making
  <2> QED BY <2>1, <2>2, <2>3 DEF UInv, FitsOK, Fits, DoneOK, DeployOK
<1>5. CASE End
  <2>1. /\ \A m \in Models : pc'[m] = "idle" /\ pc[m] \notin Active
        /\ UNCHANGED << live, recorded, stack, stray >>
        /\ ~Idle /\ (outcome' = "ok" => Succeeded)
    BY <1>5 DEF End, service, Failed, Succeeded
  <2>2. \A m \in Models : ~Making(m) /\ ~Making(m)'
    BY <2>1 DEF Making, Active
  <2>3. FitsOK' /\ DoneOK'
    BY <2>1, <2>2 DEF UInv, FitsOK, Fits, DoneOK
  <2>4. Idle' /\ \A m \in DOMAIN stack : m \in Models /\ pc[m] \notin {"idle", "condemned"}
    BY <2>1 DEF CInv, StackOK, UInv, DeployOK, Idle
  <2>5. DeployOK'
    BY <2>1, <2>4 DEF UInv, DoneOK, DeployOK, Succeeded
  <2> QED BY <2>3, <2>5 DEF UInv
<1>6. CASE Crash
  <2> DEFINE A == { m \in Models : pc[m] \in Active }
  <2>1. /\ \A m \in Models : pc'[m] = IF pc[m] \in Active THEN "failed" ELSE pc[m]
        /\ stray' = stray \cup Made(A) /\ UNCHANGED << live, recorded, stack, outcome >>
        /\ \E m \in Models : pc[m] \in Active
    BY <1>6 DEF Crash, service
  <2>2. \A m \in Models : Making(m) => m \in Made(A)
    BY DEF Making, Made, Active
  <2> HIDE DEF A
  <2>3. \A m \in Models : ~Making(m)'
    BY <2>1 DEF Making, Active
  <2>4. FitsOK'
    BY <2>1, <2>2, <2>3 DEF UInv, FitsOK, Fits
  <2>5. ~Idle /\ ~Idle' /\ \A m \in DOMAIN stack : m \in Models
    BY <2>1 DEF Idle, Active, CInv, StackOK
  <2>6. DoneOK' /\ DeployOK'
    BY <2>1, <2>5 DEF UInv, DoneOK, DeployOK
  <2> QED BY <2>4, <2>6 DEF UInv
<1>7. CASE UNCHANGED vars
  <2>1. UNCHANGED << live, recorded, stack, pc, stray, outcome >>
    BY <1>7 DEF vars, service
  <2> QED BY <2>1 DEF UInv, FitsOK, Fits, Making, DoneOK, DeployOK, Idle
<1> QED BY <1>1, <1>2, <1>3, <1>4, <1>5, <1>6, <1>7

\* Every step keeps what is known of the tables.
LEMMA NextFits ==
  ASSUME MissingIsNone, IInv, RInv, CInv, UInv, [Next]_vars
  PROVE  UInv'
BY BeginFits, ExecuteDdlFits, AnswerFits, DeleteFits, FinishFits, OthersFit
   DEF Next, Handle

\* What is known of the tables holds throughout.
LEMMA FitsInvariant ==
  ASSUME MissingIsNone
  PROVE  Spec => [](IInv /\ RInv /\ CInv /\ UInv)
<1>1. Init => UInv
  BY DEF Init, UInv, FitsOK, DoneOK, DeployOK, Making
<1>2. IInv /\ RInv /\ CInv /\ UInv /\ [Next]_vars => UInv'
  BY NextFits
<1> QED BY <1>1, <1>2, QueriesInvariant, PTL DEF Spec

\* UpToDate: after a successful deploy the declared models have the tables they ask
\* for, also those the deploy found nothing to do for, as long as nothing has happened
\* to those tables behind the record.
THEOREM UpToDateHolds ==
  ASSUME MissingIsNone
  PROVE  Spec => []UpToDate
<1>1. CInv /\ UInv => UpToDate
  <2>1. SUFFICES ASSUME CInv, UInv, Idle, outcome = "ok", NEW m \in DOMAIN stack \ stray
                 PROVE  Fits(m, stack[m])
    BY DEF UpToDate
  <2>2. m \in Models /\ recorded[m] # Missing /\ recorded[m].inputs = stack[m]
    BY <2>1 DEF CInv, StackOK, UInv, DeployOK
  <2> QED BY <2>1, <2>2, IdleMakesNothing DEF UInv, FitsOK
<1> QED BY <1>1, FitsInvariant, PTL

-----------------------------------------------------------------------------
(* Deploying a stack again.                                                 *)

\* The table of m stands in the way of its declaration, and deploying the stack again
\* does not change that: it is of another kind, or gone without a difference to the
\* record, or managed with other columns.
Barred(m) ==
  \/ live[m] # Missing /\ live[m].kind # Kind(stack[m].mat)
  \/ /\ live[m] = Missing /\ recorded[m] # Missing /\ recorded[m].output.mat # "ephemeral"
     /\ ~Differs(recorded[m].inputs, stack[m]) /\ pc[m] \notin Active
  \/ m \in Managed /\ (stack[m].mat \notin {"table", "incremental"} \/ live[m].cols # stack[m].sql)

\* The stack is none that Converges is about.
Stuck ==
  \/ Materialized # {}
  \/ \E m \in DOMAIN stack :
       \/ ~(ToSet(stack[m].refs) \subseteq { r \in DOMAIN stack : stack[r].mat # "ephemeral" })
       \/ Barred(m)

\* The incremental models whose table has the columns of their query, but for those
\* whose MERGE has been built from other ones and is about to be refused.
Doubtful(m) == pc[m] = "dryRun" /\ columns[m] \notin {Missing, stack[m].sql}
Rebuilt ==
  { m \in Incremental : live[m] # Missing /\ live[m].cols = stack[m].sql /\ ~Doubtful(m) }

\* The deploys in a row that have failed, the one under way counted when it will.
Refusals == IF Failed THEN clean + 1 ELSE clean

\* Each of them has rebuilt the table of a model, and none does so twice.
CountOK == Idle \/ ~spoilt => Stuck \/ Refusals <= Cardinality(Rebuilt)

\* The columns of a MERGE are those of the table when it was built.
ColumnsOf(m) ==
  /\ pc[m] = "ddl" /\ stack[m].mat = "incremental" =>
       columns[m] = IF live[m] = Missing THEN Missing ELSE live[m].cols
  /\ pc[m] = "dryRun" =>
       /\ stack[m].mat = "incremental" /\ live[m] # Missing /\ live[m].kind = "table"
       /\ IF m \in Managed THEN columns[m] = live[m].cols ELSE live[m].cols = stack[m].sql
ColumnsOK == DOMAIN columns = Models /\ (~spoilt => \A m \in Models : ColumnsOf(m))

\* Nothing is executed behind a deploy that counts.
QuietOK == (Idle /\ clean > 0) \/ (~Idle /\ ~spoilt) => jobs = {}

MatOf(r) == r # Missing => r.output.mat = r.inputs.mat
MatsOK == \A m \in Models : MatOf(recorded[m])

CleanOK == clean \in Nat /\ (DOMAIN stack = {} => clean = 0)

KInv == CountOK /\ ColumnsOK /\ QuietOK /\ MatsOK /\ CleanOK

\* There are finitely many models.
LEMMA FewModels ==
  ASSUME NEW S \in SUBSET Models
  PROVE  IsFiniteSet(S) /\ Cardinality(S) \in Nat
BY FS_Subset, FS_CardinalityType, DbtAssumption

\* A step after which the deploy does not count.
LEMMA SpoiltCounts ==
  ASSUME CInv', MatsOK', CleanOK', DOMAIN columns' = Models,
         spoilt' \/ Idle', Idle' => clean' = 0
  PROVE  KInv'
<1>1. ColumnsOK'
  <2>1. Idle' => \A m \in Models : ColumnsOf(m)'
    BY DEF Idle, ColumnsOf
  <2> QED BY <2>1 DEF ColumnsOK
<1>2. Idle' => ~Failed'
  BY DEF Idle, Failed
<1>3. Rebuilt' \in SUBSET Models
  BY DEF CInv, StackOK, Rebuilt, Incremental
<1>4. CountOK'
  <2>1. Cardinality(Rebuilt') \in Nat
    BY <1>3, FewModels
  <2>2. Cardinality(Rebuilt)' = Cardinality(Rebuilt')
    OBVIOUS
  <2> QED BY <1>2, <2>1, <2>2 DEF CountOK, Refusals
<1>5. QuietOK'
  BY DEF QuietOK
<1> QED BY <1>1, <1>4, <1>5 DEF KInv

\* A model nothing happens to stands in the way as before, and is rebuilt as before.
LEMMA UntouchedCounts ==
  ASSUME UNCHANGED stack, NEW n, live'[n] = live[n], recorded'[n] = recorded[n],
         columns'[n] = columns[n], pc'[n] = pc[n]
  PROVE  Barred(n)' = Barred(n) /\ ColumnsOf(n)' = ColumnsOf(n) /\ Doubtful(n)' = Doubtful(n)
<1>1. Barred(n)' = Barred(n)
  BY DEF Barred
<1>2. ColumnsOf(n)' = ColumnsOf(n)
  BY DEF ColumnsOf
<1> QED BY <1>1, <1>2 DEF Doubtful

\* A step of the handler of m in a deploy that counts.
LEMMA HandlerCounts ==
  ASSUME CInv, CInv', KInv, ~Idle, ~Idle', ~spoilt, ~spoilt', UNCHANGED << stack, clean, jobs >>,
         NEW m \in Models, DOMAIN columns' = Models,
         \A n \in Models \ {m} : /\ pc'[n] = pc[n] /\ live'[n] = live[n]
                                 /\ recorded'[n] = recorded[n] /\ columns'[n] = columns[n],
         MatOf(recorded'[m]), ColumnsOf(m)', m \in DOMAIN stack /\ Barred(m) => Barred(m)',
         \/ Stuck'
         \/ /\ m \in Rebuilt => m \in Rebuilt'
            /\ pc'[m] = "failed" => m \in Rebuilt' \ Rebuilt
  PROVE  KInv'
<1>1. \A n \in Models \ {m} :
        /\ Barred(n)' = Barred(n) /\ ColumnsOf(n)' = ColumnsOf(n) /\ Doubtful(n)' = Doubtful(n)
  BY UntouchedCounts
<1>2. DOMAIN stack \subseteq Models /\ Incremental' = Incremental /\ Incremental \subseteq Models
  BY DEF CInv, StackOK, Incremental
<1>3. Stuck => Stuck'
  <2>1. Materialized' = Materialized
    BY DEF Materialized
  <2>2. \A n \in DOMAIN stack : Barred(n) => Barred(n)'
    BY <1>1, <1>2
  <2> QED BY <2>1, <2>2 DEF Stuck
<1>4. Rebuilt \in SUBSET Models /\ Rebuilt' \in SUBSET Models
  BY <1>2 DEF Rebuilt
<1>5. \A n \in Models \ {m} : n \in Rebuilt => n \in Rebuilt'
  BY <1>1, <1>2 DEF Rebuilt
<1>6. ASSUME ~Stuck'
      PROVE  Refusals' <= Cardinality(Rebuilt')
  <2>1. Rebuilt \subseteq Rebuilt' /\ Refusals <= Cardinality(Rebuilt)
    BY <1>3, <1>4, <1>5, <1>6 DEF KInv, CountOK
  <2>2. /\ IsFiniteSet(Rebuilt) /\ IsFiniteSet(Rebuilt')
        /\ Cardinality(Rebuilt) \in Nat /\ Cardinality(Rebuilt') \in Nat
    BY <1>4, FewModels
  <2>3. clean \in Nat /\ clean' = clean
    BY DEF KInv, CleanOK
  <2>4. Failed' => Failed \/ pc'[m] = "failed"
    BY DEF Failed
  <2>5. CASE pc'[m] = "failed"
    <3>1. m \in Rebuilt' /\ m \notin Rebuilt
      BY <1>6, <2>5
    <3>2. Cardinality(Rebuilt \cup {m}) = Cardinality(Rebuilt) + 1
      BY <2>2, <3>1, FS_AddElement
    <3>3. Rebuilt \cup {m} \in SUBSET Rebuilt'
      BY <2>1, <3>1
    <3>4. Cardinality(Rebuilt \cup {m}) <= Cardinality(Rebuilt')
      BY <2>2, <3>3, FS_Subset
    <3>5. clean + 1 <= Cardinality(Rebuilt')
      BY <2>1, <2>2, <2>3, <3>2, <3>4 DEF Refusals
    <3>6. Refusals' = clean + 1
      BY <2>3, <2>5 DEF Refusals, Failed
    <3> QED BY <3>5, <3>6
  <2>6. CASE pc'[m] # "failed"
    <3>1. Cardinality(Rebuilt) <= Cardinality(Rebuilt')
      BY <2>1, <2>2, FS_Subset
    <3>2. Refusals' = Refusals \/ (Refusals' = clean /\ Refusals = clean + 1)
      BY <2>3, <2>4, <2>6 DEF Refusals
    <3> QED BY <2>1, <2>2, <2>3, <3>1, <3>2 DEF Refusals
  <2> QED BY <2>5, <2>6
<1>7. CountOK'
  <2>1. (Refusals <= Cardinality(Rebuilt))' <=> Refusals' <= Cardinality(Rebuilt')
    OBVIOUS
  <2> QED BY <1>6, <2>1 DEF CountOK
<1>8. ColumnsOK' /\ QuietOK' /\ MatsOK' /\ CleanOK'
  BY <1>1 DEF KInv, ColumnsOK, QuietOK, MatsOK, CleanOK
<1> QED BY <1>7, <1>8 DEF KInv

\* A step of the handler of m.
LEMMA HandlerKeeps ==
  ASSUME CInv, CInv', KInv, ~Idle, ~Idle', UNCHANGED << stack, clean >>, spoilt => spoilt',
         NEW m \in Models, DOMAIN columns' = Models,
         \A n \in Models \ {m} : /\ pc'[n] = pc[n] /\ live'[n] = live[n]
                                 /\ recorded'[n] = recorded[n] /\ columns'[n] = columns[n],
         MatOf(recorded'[m]),
         ~spoilt' => /\ UNCHANGED jobs /\ ColumnsOf(m)'
                     /\ m \in DOMAIN stack /\ Barred(m) => Barred(m)'
                     /\ \/ Stuck'
                        \/ /\ m \in Rebuilt => m \in Rebuilt'
                           /\ pc'[m] = "failed" => m \in Rebuilt' \ Rebuilt
  PROVE  KInv'
<1>1. CASE spoilt'
  <2>1. MatsOK' /\ CleanOK'
    BY DEF KInv, MatsOK, CleanOK
  <2> QED BY <1>1, <2>1, SpoiltCounts
<1>2. CASE ~spoilt'
  BY <1>2, HandlerCounts
<1> QED BY <1>1, <1>2

\* What a handler at m leaves of the others.
LEMMA OneHandler ==
  ASSUME IInv, KInv, NEW m \in Models, pc[m] # "idle",
         NEW to, to # "idle", pc' = [pc EXCEPT ![m] = to]
  PROVE  /\ ~Idle /\ ~Idle' /\ pc'[m] = to /\ \A n \in Models \ {m} : pc'[n] = pc[n]
BY DEF IInv, ShapesOK, Idle

\* begin: nothing is executed, and without a difference the record is that of the stack.
LEMMA BeginCounts ==
  ASSUME MissingIsNone, IInv, CInv, CInv', KInv, NEW m \in Models, Begin(m)
  PROVE  KInv'
<1> DEFINE same == recorded[m] # Missing /\ ~Differs(recorded[m].inputs, stack[m])
<1>1. /\ pc[m] = "waiting" /\ UNCHANGED << live, jobs, stack, columns, clean, spoilt >>
      /\ ~same => /\ UNCHANGED recorded
                  /\ pc' = [pc EXCEPT ![m] = IF stack[m].mat = "incremental"
                                               THEN "schema" ELSE "ddl"]
      /\ same => /\ recorded' = [recorded EXCEPT ![m].inputs = stack[m]]
                 /\ pc' = [pc EXCEPT ![m] = "done"]
  BY DEF Begin, Goto, service, NoFault
<1>2. /\ ~Idle /\ ~Idle' /\ \A n \in Models \ {m} : pc'[n] = pc[n]
      /\ pc'[m] \in {"schema", "ddl", "done"}
      /\ pc'[m] = "ddl" => stack[m].mat # "incremental"
  BY <1>1, OneHandler
<1>3. \A n \in Models \ {m} : recorded'[n] = recorded[n]
  BY <1>1 DEF IInv, ShapesOK
<1>4. /\ ~same => recorded'[m] = recorded[m]
      /\ same => /\ recorded'[m] # Missing /\ recorded'[m].inputs = stack[m]
                 /\ recorded'[m].output = recorded[m].output
  <2>1. CASE same
    <3>1. recorded'[m] = [recorded[m] EXCEPT !.inputs = stack[m]]
      BY <1>1, <2>1 DEF IInv, ShapesOK
    <3>2. recorded[m] = [inputs |-> recorded[m].inputs, output |-> recorded[m].output,
                         tested |-> recorded[m].tested]
      BY <2>1 DEF IInv, ShapesOK
    <3>3. [recorded[m] EXCEPT !.inputs = stack[m]]
            = [inputs |-> stack[m], output |-> recorded[m].output, tested |-> recorded[m].tested]
      BY <3>2
    <3> QED BY <2>1, <3>1, <3>3 DEF MissingIsNone
  <2>2. CASE ~same
    BY <1>1, <2>2
  <2> QED BY <2>1, <2>2
<1>5. MatOf(recorded'[m])
  BY <1>4 DEF KInv, MatsOK, MatOf, Differs
<1>6. ColumnsOf(m)'
  BY <1>1, <1>2 DEF ColumnsOf
<1>7. Barred(m) => Barred(m)'
  <2>1. ~Differs(stack[m], stack[m])
    BY DEF Differs
  <2>2. "done" \notin Active /\ (same => pc'[m] = "done")
    BY <1>1, OneHandler DEF Active
  <2> QED BY <1>1, <1>4, <2>1, <2>2 DEF Barred
<1>8. m \in Rebuilt => m \in Rebuilt'
  BY <1>1, <1>2 DEF Rebuilt, Incremental, Doubtful
<1> QED BY <1>1, <1>2, <1>3, <1>5, <1>6, <1>7, <1>8, HandlerKeeps DEF KInv, ColumnsOK

\* get_table_schema, without a fault: the columns are those of the table.
LEMMA GetColumnsCounts ==
  ASSUME IInv, CInv, CInv', KInv, NEW m \in Models, GetColumns(m)
  PROVE  KInv'
<1>1. /\ pc[m] = "schema" /\ pc' = [pc EXCEPT ![m] = "ddl"]
      /\ UNCHANGED << live, jobs, stack, recorded, clean >>
      /\ spoilt => spoilt'
      /\ \E c : columns' = [columns EXCEPT ![m] = c]
      /\ ~spoilt' => columns' = [columns EXCEPT ![m] =
                                   IF live[m] = Missing THEN Missing ELSE live[m].cols]
  BY DEF GetColumns, Goto, service, NoFault, Fault
<1>2. ~Idle /\ ~Idle' /\ pc'[m] = "ddl" /\ \A n \in Models \ {m} : pc'[n] = pc[n]
  BY <1>1, OneHandler
<1>3. /\ DOMAIN columns' = Models /\ \A n \in Models \ {m} : columns'[n] = columns[n]
      /\ ~spoilt' => columns'[m] = IF live[m] = Missing THEN Missing ELSE live[m].cols
  BY <1>1 DEF KInv, ColumnsOK
<1>4. ~spoilt' => ColumnsOf(m)'
  BY <1>1, <1>2, <1>3 DEF ColumnsOf
<1>5. Barred(m) => Barred(m)'
  BY <1>1, <1>2 DEF Barred, Active
<1>6. m \in Rebuilt => m \in Rebuilt'
  BY <1>1, <1>2 DEF Rebuilt, Incremental, Doubtful
<1>7. MatOf(recorded'[m])
  BY <1>1 DEF KInv, MatsOK
<1> QED BY <1>1, <1>2, <1>3, <1>4, <1>5, <1>6, <1>7, HandlerKeeps

\* The dry run of the MERGE: it is refused for other columns than those of the table
\* the handler has just made.
LEMMA DryRunCounts ==
  ASSUME IInv, CInv, CInv', KInv, NEW m \in Models, m \in DOMAIN stack, DryRun(m)
  PROVE  KInv'
<1> DEFINE runs == MergeRuns(m, stack[m].sql, columns[m])
<1>1. /\ pc[m] = "dryRun" /\ UNCHANGED << live, jobs, stack, recorded, columns, clean >>
      /\ spoilt => spoilt'
      /\ \E to \in {"answer", "failed"} : pc' = [pc EXCEPT ![m] = to]
      /\ ~spoilt' /\ runs => pc' = [pc EXCEPT ![m] = "answer"]
      /\ ~spoilt' /\ ~runs => pc' = [pc EXCEPT ![m] = "failed"]
  BY DEF DryRun, Goto, service, NoFault, Fault
<1>2. /\ ~Idle /\ ~Idle' /\ \A n \in Models \ {m} : pc'[n] = pc[n]
      /\ pc'[m] \in {"answer", "failed"}
      /\ ~spoilt' /\ runs => pc'[m] = "answer"
  BY <1>1, OneHandler
<1>3. DOMAIN columns' = Models /\ MatOf(recorded'[m])
  BY <1>1 DEF KInv, ColumnsOK, MatsOK
<1>4. ColumnsOf(m)'
  BY <1>1, <1>2 DEF ColumnsOf
<1>5. pc[m] \in Active /\ (Barred(m) => Barred(m)')
  BY <1>1 DEF Barred, Active
<1>6. m \in Rebuilt => m \in Rebuilt'
  BY <1>1, <1>2 DEF Rebuilt, Incremental, Doubtful
<1>7. ASSUME ~spoilt', ~runs
      PROVE  Stuck' \/ m \in Rebuilt' \ Rebuilt
  <2>1. ColumnsOf(m)
    BY <1>1, <1>7 DEF KInv, ColumnsOK
  <2>2. /\ m \in Incremental /\ live[m] # Missing /\ live[m].kind = "table"
        /\ IF m \in Managed THEN columns[m] = live[m].cols ELSE live[m].cols = stack[m].sql
    BY <1>1, <2>1 DEF ColumnsOf, Incremental
  <2>3. live[m].cols # stack[m].sql \/ columns[m] \notin {Missing, stack[m].sql}
    BY <1>7, <2>2 DEF MergeRuns
  <2>4. CASE m \in Managed
    <3>1. live[m].cols # stack[m].sql
      BY <2>2, <2>3, <2>4
    <3>2. Barred(m)'
      BY <1>1, <2>4, <3>1 DEF Barred
    <3> QED BY <1>1, <3>2 DEF Stuck
  <2>5. CASE m \notin Managed
    <3>1. live[m].cols = stack[m].sql /\ Doubtful(m)
      BY <1>1, <2>2, <2>3, <2>5 DEF Doubtful
    <3>2. m \notin Rebuilt
      BY <3>1 DEF Rebuilt
    <3>3. m \in Rebuilt'
      BY <1>1, <1>2, <2>2, <3>1 DEF Rebuilt, Incremental, Doubtful
    <3> QED BY <3>2, <3>3
  <2> QED BY <2>4, <2>5
<1> QED BY <1>1, <1>2, <1>3, <1>4, <1>5, <1>6, <1>7, HandlerKeeps

\* The handler returns.
LEMMA AnswerCounts ==
  ASSUME MissingIsNone, IInv, CInv, CInv', KInv, NEW m \in Models, Answer(m)
  PROVE  KInv'
<1> DEFINE q == Resolve(stack[m])
           output == [mat |-> stack[m].mat, ctes |-> q.ctes, body |-> q.body,
                      merge |-> IF stack[m].mat = "incremental" THEN columns[m] ELSE Missing]
           record == [inputs |-> stack[m], output |-> output,
                      tested |-> stack[m].mat = "incremental" /\ recorded[m] = Missing]
<1>1. /\ pc[m] = "answer" /\ pc' = [pc EXCEPT ![m] = "done"]
      /\ UNCHANGED << live, jobs, stack, clean, spoilt >>
      /\ recorded' = [recorded EXCEPT ![m] = record]
      /\ columns' = [columns EXCEPT ![m] = Missing]
  BY DEF Answer, Goto, service, NoFault
<1>2. ~Idle /\ ~Idle' /\ pc'[m] = "done" /\ \A n \in Models \ {m} : pc'[n] = pc[n]
  BY <1>1, OneHandler
<1>3. MatOf(record)
  BY DEF MatOf
<1> HIDE DEF record
<1>4. /\ DOMAIN columns' = Models /\ recorded'[m] = record
      /\ \A n \in Models \ {m} : columns'[n] = columns[n] /\ recorded'[n] = recorded[n]
  BY <1>1 DEF KInv, ColumnsOK, IInv, ShapesOK
<1>5. ColumnsOf(m)'
  BY <1>2 DEF ColumnsOf
<1>6. Barred(m) => Barred(m)'
  BY <1>1 DEF Barred, Active
<1>7. m \in Rebuilt => m \in Rebuilt'
  BY <1>1, <1>2 DEF Rebuilt, Incremental, Doubtful
<1> QED BY <1>1, <1>2, <1>3, <1>4, <1>5, <1>6, <1>7, HandlerKeeps

\* Over references of which none is inlined the fold of Resolve makes no CTE.
NoCtes(d, k, ctes) == Inlined(d) = {} => ctes = << >>
Referring == INSTANCE FoldInduction WITH Op <- ResolveOne, Holds <- NoCtes

\* A model of which no reference is inlined has no CTEs.
LEMMA NothingInlined ==
  ASSUME NEW d \in Declarations, Inlined(d) = {}
  PROVE  Resolve(d).ctes = << >>
<1>1. Resolve(d).ctes = Referring!Fold(d, << >>, d.refs)
  BY DEF Resolve, FoldLeft, MapThenFoldSet, Referring!Fold, Referring!Step, ResolveOne, Max,
         Referring!Largest
<1>2. Len(d.refs) \in Nat /\ DOMAIN d.refs = 1..Len(d.refs)
  BY DEF Declarations
<1>3. NoCtes(d, 0, << >>)
  BY DEF NoCtes
<1>4. \A k \in 1..Len(d.refs) : \A acc :
        NoCtes(d, k - 1, acc) => NoCtes(d, k, ResolveOne(d, acc, d.refs[k]))
  BY DEF NoCtes, ResolveOne
<1>5. NoCtes(d, Len(d.refs), Referring!Fold(d, << >>, d.refs))
  BY <1>2, <1>3, <1>4, Referring!FoldInduction
<1> QED BY <1>1, <1>5 DEF NoCtes

\* A statement is refused only because of the stack.
LEMMA RefusedIsStuck ==
  ASSUME IInv, RInv, CInv, UInv, KInv, NEW m \in Models, pc[m] = "ddl",
         HasStatement(m, stack[m].mat), ~Stuck
  PROVE  Possible([model |-> m, mat |-> stack[m].mat, query |-> Resolve(stack[m])])
<1> DEFINE d == stack[m]
           j == [model |-> m, mat |-> d.mat, query |-> Resolve(d)]
<1>1. m \in DOMAIN stack /\ d \in Declarations /\ d.mat \in Materializations
  BY DEF CInv, StackOK, Active, Declarations
<1>2. /\ ~Barred(m) /\ d.mat # "materialized_view" /\ d.mat # "ephemeral"
      /\ \A r \in ToSet(d.refs) : r \in DOMAIN stack /\ stack[r].mat # "ephemeral" /\ ~Barred(r)
  BY <1>1 DEF Stuck, Materialized, HasStatement
<1>3. ASSUME NEW r \in ToSet(d.refs)
      PROVE  recorded[r].output.mat # "ephemeral" /\ live[r] # Missing
  <2>1. r \in Models /\ pc[r] = "done"
    BY DEF RInv, BegunOK, Refs, Active
  <2>2. recorded[r] # Missing /\ recorded[r].inputs = stack[r]
    BY <2>1 DEF UInv, DoneOK
  <2>3. recorded[r].output.mat = stack[r].mat /\ stack[r].mat # "ephemeral"
    BY <1>2, <2>1, <2>2 DEF KInv, MatsOK, MatOf
  <2>4. ~Differs(recorded[r].inputs, stack[r]) /\ pc[r] \notin Active
    BY <2>1, <2>2 DEF Differs, Active
  <2> QED BY <1>2, <2>2, <2>3, <2>4 DEF Barred
<1>4. Inlined(d) = {}
  BY <1>3 DEF Inlined
<1>5. /\ Resolve(d).ctes = << >> /\ Resolve(d).body.tables = ToSet(d.refs)
      /\ Resolve(d).body.sql = d.sql
  BY <1>1, <1>4, NothingInlined DEF Resolve
<1>6. j.model = m /\ j.mat = d.mat /\ j.query = Resolve(d)
  OBVIOUS
<1> HIDE DEF j
<1>7. Distinct(j.query)
  BY <1>5, <1>6 DEF Distinct
<1>8. Reads(j.query) = ToSet(d.refs)
  BY <1>5, <1>6 DEF Reads
<1>9. CASE Merges(m, d.mat)
  <2>1. m \in Managed /\ live[m] # Missing /\ live[m].kind = "table"
    BY <1>9 DEF Merges, IInv, ManagedOK
  <2>2. live[m].cols = d.sql
    BY <1>2, <2>1 DEF Barred
  <2> QED BY <1>3, <1>5, <1>6, <1>7, <1>8, <1>9, <2>1, <2>2 DEF Possible, j
<1>10. CASE ~Merges(m, d.mat)
  <2>1. Replaces(d.mat)
    BY <1>1, <1>2 DEF Replaces, Materializations
  <2>2. live[m] # Missing => live[m].kind = Kind(d.mat)
    BY <1>2 DEF Barred
  <2> QED BY <1>3, <1>6, <1>7, <1>8, <1>10, <2>1, <2>2 DEF Possible, j
<1> QED BY <1>9, <1>10

\* execute_ddl: the table has the columns of the query from then on.
LEMMA ExecuteDdlCounts ==
  ASSUME MissingIsNone, IInv, RInv, CInv, CInv', UInv, KInv, NEW m \in Models, ExecuteDdl(m)
  PROVE  KInv'
<1> DEFINE j == [model |-> m, mat |-> stack[m].mat, query |-> Resolve(stack[m])]
           sends == HasStatement(m, stack[m].mat)
           next == IF stack[m].mat = "incremental" /\ recorded[m] = Missing THEN "dryRun" ELSE "answer"
<1>1. /\ pc[m] = "ddl" /\ UNCHANGED << recorded, stack, columns, clean >>
      /\ spoilt => spoilt'
      /\ \E to \in {next, "failed"} : pc' = [pc EXCEPT ![m] = to]
      /\ live' = live \/ Execute(j)
      /\ ~spoilt' =>
           /\ UNCHANGED jobs
           /\ \/ sends /\ Execute(j) /\ pc' = [pc EXCEPT ![m] = next]
              \/ ~sends /\ UNCHANGED live /\ pc' = [pc EXCEPT ![m] = next]
              \/ sends /\ ~Possible(j) /\ UNCHANGED live /\ pc' = [pc EXCEPT ![m] = "failed"]
  BY DEF ExecuteDdl, Goto, service, NoFault, Fault
<1>2. /\ ~Idle /\ ~Idle' /\ \A n \in Models \ {m} : pc'[n] = pc[n]
      /\ \A to : pc' = [pc EXCEPT ![m] = to] => pc'[m] = to
  <2>1. /\ "dryRun" # "idle" /\ "answer" # "idle" /\ "failed" # "idle"
        /\ next \in {"dryRun", "answer"}
    OBVIOUS
  <2>2. DOMAIN pc = Models
    BY DEF IInv, ShapesOK
  <2> QED BY <1>1, <2>1, <2>2, OneHandler
<1>3. m \in DOMAIN stack /\ stack[m] \in Declarations
  BY <1>1 DEF CInv, StackOK, Active
<1>4. /\ j.model = m /\ j.mat = stack[m].mat /\ j.query = Resolve(stack[m])
      /\ j.query.body.sql = stack[m].sql
  BY DEF Resolve
<1> HIDE DEF j
<1>5. ASSUME sends, Execute(j)
      PROVE  /\ live'[m] # Missing /\ live'[m].kind = Kind(stack[m].mat)
             /\ live'[m].cols = stack[m].sql
  <2>1. live'[m].cols = j.query.body.sql
    BY <1>4, <1>5 DEF Execute, IInv, ShapesOK
  <2> QED BY <1>4, <1>5, <2>1, ExecuteMakes, ExecuteKeeps
<1>6. \A n \in Models \ {m} : live'[n] = live[n]
  BY <1>1, <1>4 DEF Execute, IInv, ShapesOK
<1>7. DOMAIN columns' = Models /\ MatOf(recorded'[m])
  BY <1>1 DEF KInv, ColumnsOK, MatsOK
<1>8. ASSUME ~spoilt'
      PROVE  ColumnsOf(m)
  BY <1>1, <1>8 DEF KInv, ColumnsOK
<1>9. CASE ~spoilt' /\ sends /\ Execute(j) /\ pc' = [pc EXCEPT ![m] = next]
  <2>1. pc'[m] = next
    BY <1>2, <1>9
  <2>2. ColumnsOf(m)'
    <3>1. CASE next = "answer"
      BY <2>1, <3>1 DEF ColumnsOf
    <3>2. CASE next = "dryRun"
      <4>1. stack[m].mat = "incremental" /\ m \notin Managed
        BY <1>9, <3>2 DEF HasStatement
      <4> QED BY <1>1, <1>5, <1>9, <2>1, <3>2, <4>1 DEF ColumnsOf, Kind
    <3> QED BY <3>1, <3>2
  <2>3. Barred(m) => Barred(m)'
    <3>1. CASE m \in Managed /\ stack[m].mat \notin {"table", "incremental"}
      BY <1>1, <3>1 DEF Barred
    <3>2. CASE m \in Managed /\ stack[m].mat \in {"table", "incremental"}
      <4>1. stack[m].mat = "table" /\ Merges(m, stack[m].mat)
        BY <1>9, <3>2 DEF HasStatement, Merges
      <4>2. live[m] # Missing /\ live[m].kind = "table" /\ live[m].cols = stack[m].sql
        BY <1>4, <1>9, <4>1 DEF Execute, Possible
      <4> QED BY <1>1, <3>2, <4>1, <4>2 DEF Barred, Kind
    <3>3. CASE m \notin Managed
      <4>1. live[m] # Missing => live[m].kind = Kind(stack[m].mat)
        BY <1>4, <1>9, <3>3 DEF Execute, Possible, Merges
      <4> QED BY <1>1, <3>3, <4>1 DEF Barred, Active
    <3> QED BY <3>1, <3>2, <3>3
  <2>4. m \in Rebuilt => m \in Rebuilt'
    <3>1. SUFFICES ASSUME m \in Rebuilt PROVE m \in Rebuilt'
      OBVIOUS
    <3>2. columns[m] = stack[m].sql
      BY <1>1, <1>8, <1>9, <3>1 DEF Rebuilt, Incremental, ColumnsOf
    <3> QED BY <1>1, <1>5, <1>9, <3>1, <3>2 DEF Rebuilt, Incremental, Doubtful
  <2>5. pc'[m] # "failed"
    BY <2>1
  <2> QED BY <1>1, <1>2, <1>6, <1>7, <1>9, <2>2, <2>3, <2>4, <2>5, HandlerKeeps
<1>10. CASE ~spoilt' /\ ~sends /\ UNCHANGED live /\ pc' = [pc EXCEPT ![m] = next]
  <2>1. pc'[m] = next
    BY <1>2, <1>10
  <2>2. ColumnsOf(m)'
    <3>1. CASE next = "answer"
      BY <2>1, <3>1 DEF ColumnsOf
    <3>2. CASE next = "dryRun"
      <4>1. stack[m].mat = "incremental" /\ m \in Managed
        BY <1>10, <3>2 DEF HasStatement
      <4>2. live[m] # Missing /\ live[m].kind = "table"
        BY <4>1 DEF IInv, ManagedOK
      <4> QED BY <1>1, <1>8, <1>10, <2>1, <3>2, <4>1, <4>2 DEF ColumnsOf
    <3> QED BY <3>1, <3>2
  <2>3. Barred(m) => Barred(m)'
    BY <1>1, <1>10 DEF Barred, Active
  <2>4. m \in Rebuilt => m \in Rebuilt'
    BY <1>1, <1>8, <1>10 DEF Rebuilt, Incremental, Doubtful, ColumnsOf
  <2>5. pc'[m] # "failed"
    BY <2>1
  <2> QED BY <1>1, <1>2, <1>6, <1>7, <1>10, <2>2, <2>3, <2>4, <2>5, HandlerKeeps
<1>11. CASE ~spoilt' /\ sends /\ ~Possible(j) /\ UNCHANGED live /\ pc' = [pc EXCEPT ![m] = "failed"]
  <2>1. pc'[m] = "failed"
    BY <1>2, <1>11
  <2>2. Stuck
    BY <1>1, <1>11, RefusedIsStuck DEF j
  <2>3. ColumnsOf(m)'
    BY <2>1 DEF ColumnsOf
  <2>4. \A n \in DOMAIN stack : Barred(n) => Barred(n)'
    <3>1. SUFFICES ASSUME NEW n \in DOMAIN stack, Barred(n) PROVE Barred(n)'
      OBVIOUS
    <3>2. n \in Models /\ (pc'[n] \in Active => pc[n] \in Active)
      BY <1>1, <1>2, <2>1, <3>1 DEF CInv, StackOK, Active
    <3> QED BY <1>1, <1>11, <3>1, <3>2 DEF Barred
  <2>5. Stuck'
    BY <1>1, <2>2, <2>4 DEF Stuck, Materialized
  <2> QED BY <1>1, <1>2, <1>3, <1>6, <1>7, <1>11, <2>3, <2>4, <2>5, HandlerKeeps
<1>12. CASE spoilt'
  BY <1>1, <1>2, <1>6, <1>7, <1>12, HandlerKeeps
<1> QED BY <1>1, <1>9, <1>10, <1>11, <1>12

\* delete_dbt_model: what is deleted is not of the stack.
LEMMA DeleteCounts ==
  ASSUME IInv, CInv, CInv', UInv, KInv, NEW m \in Models, Delete(m)
  PROVE  KInv'
<1>1. /\ pc[m] = "condemned" /\ UNCHANGED << jobs, stack, columns, clean >>
      /\ spoilt => spoilt'
      /\ ~spoilt' => pc' = [pc EXCEPT ![m] = "idle"]
      /\ \E to \in {"idle", "failed"} : pc' = [pc EXCEPT ![m] = to]
      /\ live' = live \/ live' = [live EXCEPT ![m] = Missing]
      /\ recorded' = [recorded EXCEPT ![m] = Missing] \/ UNCHANGED recorded
  BY DEF Delete, Goto, NoFault, Fault
<1>2. /\ \A n \in Models \ {m} : /\ pc'[n] = pc[n] /\ recorded'[n] = recorded[n]
                                 /\ live'[n] = live[n]
      /\ pc'[m] \in {"idle", "failed"} /\ (~spoilt' => pc'[m] = "idle")
      /\ recorded'[m] \in {Missing, recorded[m]}
  BY <1>1 DEF IInv, ShapesOK
<1>3. ~Idle /\ m \notin DOMAIN stack
  BY <1>1 DEF Idle, UInv, DeployOK
<1>4. /\ MatOf(recorded'[m]) /\ MatsOK' /\ CleanOK'
      /\ DOMAIN columns' = Models
  BY <1>1, <1>2 DEF KInv, MatsOK, MatOf, CleanOK, ColumnsOK
<1>5. CASE Idle'
  <2>1. DOMAIN stack = {}
    <3>1. SUFFICES ASSUME NEW n \in DOMAIN stack PROVE FALSE
      OBVIOUS
    <3>2. n \in Models \ {m} /\ pc[n] # "idle"
      BY <1>3 DEF CInv, StackOK, UInv, DeployOK
    <3> QED BY <1>2, <1>5, <3>2 DEF Idle
  <2>2. clean' = 0
    BY <1>1, <2>1 DEF KInv, CleanOK
  <2> QED BY <1>4, <1>5, <2>2, SpoiltCounts
<1>6. CASE ~Idle'
  <2>1. ColumnsOf(m)'
    BY <1>2 DEF ColumnsOf
  <2>2. m \notin Rebuilt
    BY <1>3 DEF Rebuilt, Incremental
  <2> QED BY <1>1, <1>2, <1>3, <1>4, <1>6, <2>1, <2>2, HandlerKeeps
<1> QED BY <1>5, <1>6

\* A deploy of the same stack finds what the last one has left, one of another stack
\* starts the count again.
LEMMA DeployCounts ==
  ASSUME IInv, CInv, CInv', KInv, NEW s \in Stacks, Deploy(s)
  PROVE  KInv'
<1>1. /\ stack' = s /\ Idle /\ UNCHANGED << live, jobs, recorded, columns >>
      /\ pc' = [m \in Models |-> IF m \in DOMAIN s THEN "waiting"
                                 ELSE IF recorded[m] # Missing THEN "condemned" ELSE "idle"]
      /\ DOMAIN s # {} \/ \E m \in Models : recorded[m] # Missing
      /\ clean' = (IF s = stack THEN clean ELSE 0)
      /\ ~spoilt' => jobs = {}
  BY DEF Deploy, service
<1>2. DOMAIN s \subseteq Models /\ \A m \in Models : pc'[m] \in {"waiting", "condemned", "idle"}
  BY <1>1, DbtAssumption
<1>3. ~Idle'
  <2>1. CASE DOMAIN s # {}
    BY <1>1, <1>2, <2>1 DEF Idle
  <2>2. CASE DOMAIN s = {}
    <3>1. PICK m \in Models : recorded[m] # Missing
      BY <1>1, <2>2
    <3>2. pc'[m] # "idle"
      BY <1>1, <3>1
    <3> QED BY <3>2 DEF Idle
  <2> QED BY <2>1, <2>2
<1>4. MatsOK' /\ CleanOK' /\ DOMAIN columns' = Models
  BY <1>1 DEF KInv, MatsOK, CleanOK, ColumnsOK
<1>5. CASE spoilt'
  BY <1>3, <1>4, <1>5, SpoiltCounts
<1>6. CASE ~spoilt'
  <2>1. ColumnsOK'
    <3>1. \A m \in Models : ColumnsOf(m)'
      BY <1>2 DEF ColumnsOf
    <3> QED BY <1>4, <3>1 DEF ColumnsOK
  <2>2. QuietOK'
    BY <1>1, <1>6 DEF QuietOK
  <2>3. ~Failed /\ ~Failed'
    BY <1>1, <1>2 DEF Failed, Idle
  <2>4. CountOK'
    <3>1. CASE s = stack
      <4>1. CASE Stuck
        <5>1. UNCHANGED stack
          BY <1>1, <3>1
        <5>2. \A n \in DOMAIN stack : Barred(n) => Barred(n)'
          BY <1>1, <1>2, <5>1 DEF Barred, Active
        <5>3. Stuck'
          BY <4>1, <5>1, <5>2 DEF Stuck, Materialized
        <5> QED BY <5>3 DEF CountOK
      <4>2. CASE ~Stuck
        <5>1. UNCHANGED << stack, clean >>
          BY <1>1, <3>1
        <5>2. clean <= Cardinality(Rebuilt)
          BY <1>1, <2>3, <4>2 DEF KInv, CountOK, Refusals
        <5>3. Rebuilt' = Rebuilt
          <6>1. \A n \in Models : ~Doubtful(n) /\ ~Doubtful(n)'
            BY <1>1, <1>2 DEF Doubtful, Idle
          <6>2. Incremental' = Incremental /\ Incremental \subseteq Models
            BY <5>1 DEF Incremental, CInv, StackOK
          <6> QED BY <1>1, <5>1, <6>1, <6>2 DEF Rebuilt
        <5> QED BY <2>3, <5>1, <5>2, <5>3 DEF CountOK, Refusals
      <4> QED BY <4>1, <4>2
    <3>2. CASE s # stack
      <4>1. Rebuilt' \in SUBSET Models
        BY DEF CInv, StackOK, Rebuilt, Incremental
      <4>2. Cardinality(Rebuilt') \in Nat
        BY <4>1, FewModels
      <4>3. Refusals' = 0
        BY <1>1, <2>3, <3>2 DEF Refusals
      <4>4. 0 <= Cardinality(Rebuilt')
        BY <4>2
      <4> QED BY <4>3, <4>4 DEF CountOK
    <3> QED BY <3>1, <3>2
  <2> QED BY <1>4, <2>1, <2>2, <2>4 DEF KInv
<1> QED BY <1>5, <1>6

\* The end of a deploy that has failed without a fault counts.
LEMMA EndCounts ==
  ASSUME IInv, CInv, CInv', KInv, End
  PROVE  KInv'
<1>1. /\ ~Idle /\ \A m \in Models : pc[m] \notin Active /\ pc'[m] = "idle"
      /\ clean' = IF Failed /\ ~spoilt THEN clean + 1 ELSE 0
      /\ columns' = [m \in Models |-> Missing]
      /\ UNCHANGED << live, jobs, recorded, stack >> /\ ~spoilt'
  BY DEF End, service
<1>2. Idle' /\ ~Failed'
  BY <1>1 DEF Idle, Failed
<1>3. MatsOK' /\ DOMAIN columns' = Models
  BY <1>1 DEF KInv, MatsOK
<1>4. CASE ~(Failed /\ ~spoilt)
  <2>1. clean' = 0 /\ CleanOK'
    BY <1>1, <1>4 DEF CleanOK
  <2> QED BY <1>2, <1>3, <2>1, SpoiltCounts
<1>5. CASE Failed /\ ~spoilt
  <2>1. clean' = clean + 1 /\ clean \in Nat /\ Refusals = clean + 1
    BY <1>1, <1>5 DEF KInv, CleanOK, Refusals
  <2>2. Stuck \/ clean' <= Cardinality(Rebuilt)
    BY <1>1, <1>5, <2>1 DEF KInv, CountOK
  <2>3. DOMAIN stack \subseteq Models /\ Incremental' = Incremental /\ Incremental \subseteq Models
    BY <1>1 DEF CInv, StackOK, Incremental
  <2>4. \A n \in Models : ~Doubtful(n) /\ ~Doubtful(n)' /\ (Barred(n) => Barred(n)')
    BY <1>1 DEF Doubtful, Barred, Active
  <2>5. Rebuilt' = Rebuilt
    BY <1>1, <2>3, <2>4 DEF Rebuilt
  <2>6. Stuck => Stuck'
    BY <1>1, <2>3, <2>4 DEF Stuck, Materialized
  <2>7. CountOK'
    BY <1>2, <2>2, <2>5, <2>6 DEF CountOK, Refusals
  <2>8. ColumnsOK'
    BY <1>1, <1>3 DEF ColumnsOK, ColumnsOf
  <2>9. QuietOK'
    BY <1>1, <1>5 DEF KInv, QuietOK
  <2>10. CleanOK'
    <3>1. DOMAIN stack # {}
      <4>1. SUFFICES ASSUME DOMAIN stack = {} PROVE FALSE
        OBVIOUS
      <4>2. Rebuilt = {} /\ ~Stuck
        BY <4>1 DEF Rebuilt, Incremental, Stuck, Materialized
      <4>3. Cardinality(Rebuilt) = 0
        BY <4>2, FS_EmptySet
      <4> QED BY <2>1, <2>2, <4>2, <4>3
    <3> QED BY <1>1, <2>1, <3>1 DEF CleanOK
  <2> QED BY <1>3, <2>7, <2>8, <2>9, <2>10 DEF KInv
<1> QED BY <1>4, <1>5

\* A refresh starts the count again, a crash spoils the deploy, and a statement that
\* outlived its call ends only behind a deploy that does not count.
LEMMA OthersCount ==
  ASSUME IInv, CInv, CInv', KInv,
         \/ \E m \in Models : Refresh(m)
         \/ \E j \in jobs : Finish(j)
         \/ Crash \/ UNCHANGED vars
  PROVE  KInv'
<1>1. ASSUME NEW m \in Models, Refresh(m)
      PROVE  KInv'
  <2>1. /\ recorded' = [recorded EXCEPT ![m] = Missing] /\ Idle /\ clean' = 0
        /\ UNCHANGED << stack, pc, columns >>
    BY <1>1 DEF Refresh
  <2>2. \A n \in Models : recorded'[n] \in {Missing, recorded[n]}
    BY <2>1 DEF IInv, ShapesOK
  <2>3. MatsOK' /\ CleanOK' /\ DOMAIN columns' = Models /\ Idle'
    BY <2>1, <2>2 DEF KInv, MatsOK, MatOf, CleanOK, ColumnsOK, Idle
  <2> QED BY <2>1, <2>3, SpoiltCounts
<1>2. ASSUME NEW j \in jobs, Finish(j)
      PROVE  KInv'
  <2>1. UNCHANGED << recorded, stack, pc, columns, clean, spoilt >> /\ jobs # {}
    BY <1>2 DEF Finish, NoFault
  <2>2. MatsOK' /\ CleanOK' /\ DOMAIN columns' = Models /\ Idle' = Idle
    BY <2>1 DEF KInv, MatsOK, CleanOK, ColumnsOK, Idle
  <2>3. (Idle => clean = 0) /\ (~Idle => spoilt)
    BY <2>1 DEF KInv, QuietOK, CleanOK
  <2> QED BY <2>1, <2>2, <2>3, SpoiltCounts
<1>3. CASE Crash
  <2>1. /\ UNCHANGED << recorded, stack, columns, clean >> /\ spoilt'
        /\ \E m \in Models : pc[m] \in Active /\ pc'[m] = "failed"
    BY <1>3 DEF Crash, Fault
  <2>2. MatsOK' /\ CleanOK' /\ DOMAIN columns' = Models /\ ~Idle'
    BY <2>1 DEF KInv, MatsOK, CleanOK, ColumnsOK, Idle
  <2> QED BY <2>1, <2>2, SpoiltCounts
<1>4. CASE UNCHANGED vars
  <2>1. UNCHANGED << live, jobs, recorded, stack, pc, columns, spoilt, clean >>
    BY <1>4 DEF vars, service
  <2>2. /\ Idle' = Idle /\ Failed' = Failed /\ Incremental' = Incremental
        /\ Materialized' = Materialized
        /\ \A n : /\ Barred(n)' = Barred(n) /\ Doubtful(n)' = Doubtful(n)
                  /\ ColumnsOf(n)' = ColumnsOf(n)
    BY <2>1 DEF Idle, Failed, Incremental, Materialized, Barred, Doubtful, ColumnsOf
  <2>3. Rebuilt' = Rebuilt /\ Stuck' = Stuck
    BY <2>1, <2>2 DEF Rebuilt, Stuck
  <2>4. CountOK' /\ ColumnsOK'
    BY <2>1, <2>2, <2>3 DEF KInv, CountOK, ColumnsOK, Refusals
  <2>5. QuietOK' /\ MatsOK' /\ CleanOK'
    BY <2>1, <2>2 DEF KInv, QuietOK, MatsOK, CleanOK
  <2> QED BY <2>4, <2>5 DEF KInv
<1> QED BY <1>1, <1>2, <1>3, <1>4

\* Every step keeps the count.
LEMMA NextCounts ==
  ASSUME MissingIsNone, IInv, RInv, CInv, UInv, KInv, [Next]_vars
  PROVE  KInv'
<1>1. CInv'
  BY NextQueries
<1>2. ASSUME NEW m \in Models, DryRun(m)
      PROVE  m \in DOMAIN stack
  BY <1>2 DEF DryRun, CInv, StackOK, Active
<1> QED
  BY <1>1, <1>2, BeginCounts, GetColumnsCounts, ExecuteDdlCounts, DryRunCounts, AnswerCounts,
     DeleteCounts, DeployCounts, EndCounts, OthersCount
     DEF Next, Handle

\* Converges: deploying a stack again puts right whatever earlier deploys left half done.
\* Without a fault it fails at most once for each incremental model, since a deploy that
\* fails has rebuilt the table of one, whose columns its next MERGE is built from
\* (handlers.rs:470-620, resolver.rs:121-178).
THEOREM ConvergesHolds ==
  ASSUME MissingIsNone
  PROVE  Spec => []Converges
<1>1. Init => KInv
  <2> SUFFICES ASSUME Init PROVE KInv
    OBVIOUS
  <2>1. /\ Idle /\ ~Failed /\ Incremental = {} /\ clean = 0 /\ jobs = {}
        /\ columns = [m \in Models |-> Missing] /\ recorded = [m \in Models |-> Missing]
    BY DEF Init, Idle, Failed, Incremental
  <2>2. CountOK
    <3>1. Rebuilt \in SUBSET Models
      BY <2>1 DEF Rebuilt
    <3>2. 0 <= Cardinality(Rebuilt)
      BY <3>1, FewModels
    <3> QED BY <2>1, <3>2 DEF CountOK, Refusals
  <2>3. ColumnsOK
    BY <2>1 DEF ColumnsOK, ColumnsOf, Idle
  <2> QED BY <2>1, <2>2, <2>3 DEF KInv, QuietOK, MatsOK, MatOf, CleanOK
<1>2. IInv /\ RInv /\ CInv /\ UInv /\ KInv /\ [Next]_vars => KInv'
  BY NextCounts
<1>3. CInv /\ KInv => Converges
  <2> SUFFICES ASSUME CInv, KInv, Idle, Unobstructed, Materialized = {}
               PROVE  clean <= Cardinality(Incremental)
    BY DEF Converges
  <2>1. ~Stuck
    BY DEF Unobstructed, Stuck, Barred
  <2>2. ~Failed
    BY DEF Idle, Failed
  <2>3. clean <= Cardinality(Rebuilt)
    BY <2>1, <2>2 DEF KInv, CountOK, Refusals
  <2>4. Rebuilt \in SUBSET Incremental /\ Incremental \in SUBSET Models
    BY DEF Rebuilt, Incremental, CInv, StackOK
  <2>5. IsFiniteSet(Incremental) /\ Cardinality(Rebuilt) <= Cardinality(Incremental)
    BY <2>4, FewModels, FS_Subset
  <2>6. Cardinality(Rebuilt) \in Nat /\ Cardinality(Incremental) \in Nat /\ clean \in Nat
    BY <2>4, FewModels DEF KInv, CleanOK
  <2> QED BY <2>3, <2>5, <2>6
<1> QED BY <1>1, <1>2, <1>3, FitsInvariant, PTL DEF Spec

-----------------------------------------------------------------------------
(* The options of a model. *)

\* What create makes of the model, and with which options.
Applied == Effective(ExtractConfig(model.config), model.yaml)

\* What check has found holds until create, and what create has sent is made of it.
OptionsInv ==
  /\ model \in Declared
  /\ phase \in {"accepted", "created"} =>
       /\ model.yaml # NotGiven => SameOptions(ReadOptions(model.config.options), model.yaml)
       /\ ValidConfig(Applied)
       /\ model.tableId => DOMAIN Applied.options = {}
  /\ phase = "created" =>
       LET kind == StatementKind(Applied, model.tableId)
       IN  /\ statement.kind = kind
           /\ statement.options = IF kind \in {"none", "replaceRows"} THEN <<>>
                                  ELSE ToDdl(Applied.options)
           /\ kind = "table" => statement.partition = Applied.partition
           /\ statement.schedule = Repeated(Applied, kind)

\* What is applied is the model's own block, with the YAML's options if there are any.
LEMMA AppliedIsDeclared ==
  ASSUME model \in Declared
  PROVE  /\ Applied.block = model.config.block
         /\ ExtractConfig(model.config).options = ReadOptions(model.config.options)
         /\ Applied.options = IF model.yaml = NotGiven THEN ReadOptions(model.config.options)
                              ELSE model.yaml
<1> DEFINE c == model.config
           e == ExtractConfig(c)
<1>1. c = [block |-> c.block, mat |-> c.mat, keys |-> c.keys, strategy |-> c.strategy,
           partition |-> c.partition, clusters |-> c.clusters, options |-> c.options]
  BY OptionsAssumption
<1>2. e = [block |-> c.block, mat |-> IF c.block = "materialized" THEN c.mat ELSE "table",
           keys |-> c.keys, strategy |-> c.strategy, partition |-> c.partition,
           clusters |-> c.clusters, options |-> ReadOptions(c.options)]
  <2> DEFINE m == IF c.block = "materialized" THEN c.mat ELSE "table"
             o == ReadOptions(c.options)
  <2>1. e = [c EXCEPT !.mat = m, !.options = o]
    BY DEF ExtractConfig
  <2> HIDE DEF c, e, m, o
  <2>2. e = [block |-> c.block, mat |-> m, keys |-> c.keys, strategy |-> c.strategy,
             partition |-> c.partition, clusters |-> c.clusters, options |-> o]
    BY <1>1, <2>1
  <2> QED
    BY <2>2 DEF m, o
<1>3. Applied = IF model.yaml = NotGiven THEN e ELSE [e EXCEPT !.options = model.yaml]
  BY DEF Applied, Effective
<1> HIDE DEF c, e
<1> QED BY <1>2, <1>3 DEF c, e

LEMMA OptionsInvariant == OptionsSpec => []OptionsInv
<1>1. OptionsInit => OptionsInv
  BY DEF OptionsInit, OptionsInv
<1>2. ASSUME OptionsInv, [OptionsNext]_optionVars
      PROVE  OptionsInv'
  <2>1. CASE Check
    <3>1. UNCHANGED <<model, statement>> /\ Applied' = Applied
      BY <2>1 DEF Check, Applied
    <3>2. phase' \in {"accepted", "rejected"}
      BY <2>1 DEF Check
    <3>3. ASSUME phase' = "accepted"
          PROVE  /\ model.yaml # NotGiven =>
                      SameOptions(ReadOptions(model.config.options), model.yaml)
                 /\ ValidConfig(Applied)
                 /\ model.tableId => DOMAIN Applied.options = {}
      BY <1>2, <2>1, <3>3, AppliedIsDeclared DEF Check, Applied, OptionsInv
    <3> QED
      BY <1>2, <3>1, <3>2, <3>3 DEF OptionsInv
  <2>2. CASE Create
    <3>1. phase = "accepted" /\ phase' = "created" /\ UNCHANGED model /\ Applied' = Applied
      BY <2>2 DEF Create, Applied
    <3>2. LET kind == StatementKind(Applied, model.tableId)
          IN  /\ statement'.kind = kind
              /\ statement'.options = IF kind \in {"none", "replaceRows"} THEN <<>>
                                      ELSE ToDdl(Applied.options)
              /\ kind = "table" => statement'.partition = Applied.partition
              /\ statement'.schedule = Repeated(Applied, kind)
      BY <2>2 DEF Create, Applied
    <3> QED
      BY <1>2, <3>1, <3>2 DEF OptionsInv
  <2>3. CASE UNCHANGED optionVars
    BY <1>2, <2>3 DEF OptionsInv, optionVars, Applied
  <2> QED
    BY <1>2, <2>1, <2>2, <2>3 DEF OptionsNext
<1> QED
  BY <1>1, <1>2, PTL DEF OptionsSpec

\* Whatever may be declared: an accepted model's options are on its table with the
\* values written and no other is, and they fit the table (check_dbt_model and
\* create_dbt_model, with extract_model_config and override_options).
THEOREM OptionsHeldHolds == OptionsSpec => []OptionsHeld
<1>1. ASSUME OptionsInv, phase = "created"
      PROVE  /\ NoneDropped
             /\ model.config.block = "materialized" => FitsTable
             /\ model.tableId => DOMAIN statement.options = {}
  <2> DEFINE written == ReadOptions(model.config.options)
             source == IF model.yaml = NotGiven THEN written ELSE model.yaml
             kind == StatementKind(Applied, model.tableId)
  <2>1. Applied.options = source /\ Applied.block = model.config.block
    BY <1>1, AppliedIsDeclared DEF OptionsInv
  <2>2. /\ statement.kind = kind
        /\ statement.options = IF kind \in {"none", "replaceRows"} THEN <<>> ELSE ToDdl(source)
        /\ kind = "table" => statement.partition = Applied.partition
        /\ statement.schedule = Repeated(Applied, kind)
    BY <1>1, <2>1 DEF OptionsInv
  <2>3. /\ model.yaml # NotGiven => SameOptions(written, model.yaml)
        /\ ValidConfig(Applied)
        /\ model.tableId => DOMAIN source = {}
    BY <1>1, <2>1 DEF OptionsInv
  <2>4. SameOptions(written, source)
    BY <2>3 DEF SameOptions
  <2>5. DOMAIN ToDdl(source) = DOMAIN source
        /\ \A name \in DOMAIN source : ToDdl(source)[name] = Rendered(name, source[name])
    BY DEF ToDdl
  <2>6. DOMAIN statement.options = {} \/ statement.options = ToDdl(source)
    BY <2>2
  <2> HIDE DEF written, source, kind
  <2>7. NoneDropped
    <3>1. SUFFICES ASSUME statement.kind \notin {"none", "replaceRows"} PROVE NoneDropped
      BY DEF NoneDropped
    <3>2. statement.options = ToDdl(source)
      BY <2>2, <3>1
    <3>3. \A name \in DOMAIN written : name \in DOMAIN source /\ source[name] = written[name]
      BY <2>4 DEF SameOptions
    <3>4. /\ \A name \in DOMAIN written :
               Is(statement.options, name, Rendered(name, written[name]))
          /\ \A name \in DOMAIN source :
               Is(statement.options, name, Rendered(name, source[name]))
      BY <2>5, <3>2, <3>3 DEF Is
    <3> QED
      BY <2>5, <3>2, <3>4 DEF NoneDropped, written, source
  <2>8. ASSUME model.config.block = "materialized" PROVE FitsTable
    <3>1. /\ Applied.mat = "incremental" => Applied.keys # {}
          /\ Partitions(Applied) /\ Refreshes(Applied)
      BY <2>1, <2>3, <2>8 DEF ValidConfig
    <3>2. \A name, value : Is(statement.options, name, value) =>
            name \in DOMAIN source /\ value = Rendered(name, source[name])
      BY <2>5, <2>6 DEF Is
    <3>3. /\ Is(statement.options, "require_partition_filter", "true") =>
               Is(source, "require_partition_filter", "true")
          /\ Is(statement.options, "enable_refresh", "true") =>
               Is(source, "enable_refresh", "true")
      BY <3>2 DEF Is, Rendered
    <3>4. statement.kind = "table" =>
            /\ Is(statement.options, "require_partition_filter", "true") =>
                 statement.partition # NotGiven
            /\ "partition_expiration_days" \in DOMAIN statement.options =>
                 statement.partition # NotGiven
      BY <2>1, <2>2, <2>5, <2>6, <3>1, <3>3 DEF Partitions
    <3>5. Is(statement.options, "enable_refresh", "true") =>
            statement.kind = "materialized_view"
      BY <2>1, <2>2, <3>1, <3>3 DEF Refreshes, StatementKind, kind
    <3>6. "refresh_interval_minutes" \in DOMAIN statement.options =>
            Is(statement.options, "enable_refresh", "true")
      BY <2>1, <2>5, <2>6, <3>1 DEF Refreshes, Is, Rendered
    <3>7. statement.schedule.kind \in {"merge", "delete+insert"} => statement.schedule.keys # {}
      BY <2>2, <3>1 DEF Repeated, StatementKind, kind
    <3> QED
      BY <3>4, <3>5, <3>6, <3>7 DEF FitsTable
  <2>9. model.tableId => DOMAIN statement.options = {}
    BY <2>3, <2>5, <2>6
  <2> QED
    BY <2>7, <2>8, <2>9
<1>2. OptionsInv => OptionsHeld
  BY <1>1 DEF OptionsHeld
<1> QED
  BY <1>2, OptionsInvariant, PTL
==============================================================================
