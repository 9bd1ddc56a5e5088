---------------------------- MODULE MigrateProofs ----------------------------
(***************************************************************************)
(* Theorems about Migrate, for any schema, any rows and any faults.  They  *)
(* rest on those of LoaderProofs: the migration is shown to implement      *)
(* Loader, whose invariants then hold of it.                               *)
(***************************************************************************)
EXTENDS Migrate, LoaderProofs

-----------------------------------------------------------------------------
(* The driver keeps to the loader's protocol.                                *)

\* A step of the migration is a step of the loader, or leaves it alone.
LEMMA LoaderSteps == [MNext]_mvars => [Next]_vars
  <1> SUFFICES ASSUME [MNext]_mvars PROVE [Next]_vars
    OBVIOUS
  <1> USE DEF Next, Process, Environment
  <1>1. CASE Start
    BY <1>1 DEF Start
  <1>2. CASE \/ CreateTables \/ WriteSanitizedRowsReports \/ CreateIndexes \/ AddForeignKeys
             \/ ResetSequence \/ ResetSequenceFails \/ WriteSequenceResetReports
    BY <1>2 DEF CreateTables, WriteSanitizedRowsReports, CreateIndexes, AddForeignKeys,
                ResetSequence, ResetSequenceFails, WriteSequenceResetReports
  <1>3. CASE StreamTable
    BY <1>3 DEF StreamTable
  <1>4. CASE \/ CreateIndexesFails \/ AddForeignKeysFails \/ SequencesFail \/ Succeed
             \/ StatementFails
    BY <1>4 DEF CreateIndexesFails, AddForeignKeysFails, SequencesFail, Succeed,
                StatementFails, Abort
  <1>5. CASE Disturb
    BY <1>5 DEF Disturb
  <1>6. CASE UNCHANGED mvars
    BY <1>6 DEF mvars
  <1> QED
    BY <1>1, <1>2, <1>3, <1>4, <1>5, <1>6 DEF MNext, MProcess

\* Every behaviour of the migration is, for the loader's variables, a behaviour
\* of Loader.
THEOREM MigrateImplementsLoader == MSpec => ImplementsLoader
  <1>1. MInit => Init
    BY DEF MInit
  <1> QED
    BY <1>1, LoaderSteps, PTL DEF MSpec, Spec, ImplementsLoader

\* So the loader's guarantees about the state file hold of whole migrations.
THEOREM MigrationsKeepCheckpointsSound ==
    ASSUME KeysInRange, "readTruncated" \notin Faults
    PROVE  MSpec => [](CheckpointSound /\ CompletedIsComplete /\ ProgressNeverOverstated)
  BY MigrateImplementsLoader, CheckpointsAreSound, CompletedTablesAreComplete,
     ProgressIsNeverOverstated, PTL DEF ImplementsLoader

\* Nor does a migration put anything into the target but rows of the source.
THEOREM MigrationsDeliverOnlySourceRows == MSpec => []OnlySourceRows
  BY MigrateImplementsLoader, DeliversOnlySourceRows, PTL DEF ImplementsLoader

\* So what Transfer promises, the driver with its phases and retries keeps as well, and
\* tables no client writes to are copied exactly.
THEOREM MigrationsImplementTransfer ==
    ASSUME KeysInRange, "readTruncated" \notin Faults
    PROVE  MSpec => ImplementsTransfer /\ []QuietIsExact
  BY MigrateImplementsLoader, LoaderImplementsTransfer, QuietTablesAreExact, PTL
     DEF ImplementsLoader

\* And a migration whose only failures are those of queries and COPYs has each row of
\* a completed table once, through all its runs (main.go:233, loader.go:286).
THEOREM MigrationsAreExact ==
    ASSUME KeysInRange, Faults \subseteq {"queryErr", "copyErr"}
    PROVE  MSpec => []CompletedIsExact
  BY MigrateImplementsLoader, CompletedTablesAreExact, PTL DEF ImplementsLoader

-----------------------------------------------------------------------------
(* Streamed tables.                                                          *)

\* The loader goes through the tables in order and leaves each completed.
LEMMA StreamedStep ==
    ASSUME TypeOK, StreamedInv, [Next]_vars
    PROVE  StreamedInv'
  <1> USE DEF memory, cur
  <1>o. /\ Len(TableOrder) \in Nat /\ idx \in 1 .. Len(TableOrder) + 1
        /\ \A i \in 1 .. Len(TableOrder) : TableOrder[i] \in Tables
    BY CurIsTable, OrderAssumption DEF TypeOK
  <1>p. prog \in [Tables -> Progress]
    BY DEF TypeOK
  <1>1. CASE prog' = prog /\ idx' = idx /\ pc # "down" /\ pc' # "down"
    BY <1>1 DEF StreamedInv
  <1>2. CASE Shutdown
    BY <1>2 DEF StreamedInv, Shutdown
  <1>3. CASE NewLoader
    BY <1>3, <1>o DEF StreamedInv, NewLoader
  <1>4. CASE SkipTable
    <2>1. idx' = idx + 1 /\ prog' = prog /\ pc' = pc /\ pc # "down"
      BY <1>4 DEF SkipTable
    <2>2. prog[TableOrder[idx]].status = "completed"
      BY <1>4 DEF SkipTable
    <2>3. ASSUME NEW i \in 1 .. idx PROVE prog[TableOrder[i]].status = "completed"
      BY <1>o, <2>1, <2>2, <2>3 DEF StreamedInv
    <2> QED
      BY <1>o, <2>1, <2>3 DEF StreamedInv
  <1>5. ASSUME pc # "down", pc' # "down", idx <= Len(TableOrder),
               NEW r, prog' = [prog EXCEPT ![TableOrder[idx]] = r],
               idx' = idx \/ (idx' = idx + 1 /\ r.status = "completed")
        PROVE  StreamedInv'
    <2>1. ASSUME NEW i \in 1 .. idx - 1 PROVE prog'[TableOrder[i]].status = "completed"
      <3>1. i \in 1 .. Len(TableOrder) /\ TableOrder[i] # TableOrder[idx]
        BY <1>o, <1>5, OrderAssumption
      <3> QED
        BY <1>o, <1>p, <1>5, <3>1, <2>1 DEF StreamedInv
    <2>2. idx' = idx + 1 => prog'[TableOrder[idx]].status = "completed"
      BY <1>o, <1>p, <1>5
    <2>3. ASSUME NEW i \in 1 .. idx' - 1 PROVE prog'[TableOrder[i]].status = "completed"
      BY <1>o, <1>5, <2>1, <2>2, <2>3
    <2> QED
      BY <1>5, <2>3 DEF StreamedInv
  <1>6. CASE BeginTable
    <2>1. prog' = [prog EXCEPT ![TableOrder[idx]] = [prog[TableOrder[idx]] EXCEPT !.status = "running"]]
      BY <1>6 DEF BeginTable, SetStatus
    <2> QED
      BY <1>6, <2>1, <1>5 DEF BeginTable
  <1>7. CASE AdvancePK
    <2>1. idx <= Len(TableOrder)
      BY <1>7 DEF AdvancePK, TypeOK
    <2>2. prog' = [prog EXCEPT ![TableOrder[idx]] =
                     [prog[TableOrder[idx]] EXCEPT !.CompletedRows = @ + Cardinality(chunk),
                                                   !.LastPKValue = currentPK']]
      BY <1>7 DEF AdvancePK
    <2> QED
      BY <1>7, <2>1, <2>2, <1>5 DEF AdvancePK
  <1>8. CASE AdvanceCursor
    <2>1. idx <= Len(TableOrder)
      BY <1>8 DEF AdvanceCursor, TypeOK
    <2>2. prog' = [prog EXCEPT ![TableOrder[idx]] =
                     [prog[TableOrder[idx]] EXCEPT !.CompletedRows = @ + Cardinality(chunk)]]
      BY <1>8 DEF AdvanceCursor
    <2> QED
      BY <1>8, <2>1, <2>2, <1>5 DEF AdvanceCursor
  <1>9. CASE FinishTable
    <2>1. idx <= Len(TableOrder)
      BY <1>9 DEF FinishTable, TypeOK
    <2> DEFINE r == [prog[TableOrder[idx]] EXCEPT !.status = "completed", !.CompletedRows = totalRows]
    <2>2. prog' = [prog EXCEPT ![TableOrder[idx]] = r]
      BY <1>9 DEF FinishTable
    <2>3. r.status = "completed"
      BY <2>1, <1>o, <1>p DEF Progress
    <2> HIDE DEF r
    <2> QED
      BY <1>9, <2>1, <2>2, <2>3, <1>5 DEF FinishTable
  <1>10. CASE \/ CountRows \/ FetchRange \/ ReadChunk \/ LastChunk \/ OpenCursor \/ ReadBatch
              \/ LastBatch \/ CopyFrom \/ CopyConflict \/ QueryError \/ CopyError
    <2>1. prog' = prog /\ idx' = idx /\ pc # "down" /\ pc' # "down"
      BY <1>10 DEF CountRows, FetchRange, ReadChunk, LastChunk, OpenCursor, ReadBatch,
                   LastBatch, CopyFrom, CopyConflict, QueryError, CopyError
    <2> QED
      BY <2>1, <1>1
  <1>11. CASE FailTable \/ Exit \/ Crash \/ TornSave
    BY <1>11, <1>2 DEF FailTable, Exit, Crash, TornSave
  <1>12. CASE SourceInsert \/ UNCHANGED vars
    <2>1. prog' = prog /\ idx' = idx /\ pc' = pc
      BY <1>12 DEF SourceInsert, vars
    <2> QED
      BY <2>1 DEF StreamedInv
  <1> QED
    BY <1>3, <1>4, <1>6, <1>7, <1>8, <1>9, <1>10, <1>11, <1>12 DEF Next, Process, Environment

-----------------------------------------------------------------------------
(* Types.                                                                    *)

\* The loop counter of a phase, and the phase it moves to, stay in range.
LEMMA NextTableType ==
    ASSUME NEW p, NEW q, NextTable(p, q), at \in 1 .. Len(TableOrder), Len(TableOrder) \in Nat
    PROVE  at' \in 1 .. Len(TableOrder) /\ phase' \in {p, q}
  BY DEF NextTable

\* There is a first table.
LEMMA SomeTable == Len(TableOrder) \in Nat /\ 1 <= Len(TableOrder)
  BY OrderAssumption, PlanAssumption

\* What an ended process leaves in the driver's variables.
LEMMA GoneType ==
    ASSUME Gone
    PROVE  /\ phase' = "none" /\ at' = 1 /\ at' \in 1 .. Len(TableOrder)
           /\ recorder' \in SUBSET (Tables \X Keys) /\ unsupported' \in SUBSET Tables
           /\ resetFailed' \in BOOLEAN
  <1>1. resetFailed' \in BOOLEAN
    BY Zenon DEF Gone
  <1> QED
    BY <1>1, SomeTable DEF Gone

\* Every step keeps the types of the migration's own variables.
LEMMA MStepType ==
    ASSUME MTypeOK, TypeOK', [MNext]_mvars
    PROVE  MTypeOK'
  <1> USE DEF catalog, reports, noted, driver
  <1>n. Len(TableOrder) \in Nat /\ 1 <= Len(TableOrder)
    BY SomeTable
  <1>1. CASE Start
    <2>1. migrated' \in BOOLEAN
      BY <1>1, Zenon DEF Start
    <2> QED
      BY <1>1, <2>1 DEF Start, MTypeOK
  <1>2. CASE CreateTables
    BY <1>2 DEF CreateTables, MTypeOK
  <1>3. CASE StreamTable
    <2>1. CASE UNCHANGED driver
      BY <1>3, <2>1 DEF StreamTable, MTypeOK
    <2>2. CASE FailTable /\ Gone
      BY <1>3, <2>2, <1>n, GoneType DEF StreamTable, MTypeOK
    <2>3. CASE /\ ReadChunk \/ ReadBatch
               /\ recorder' = recorder \cup Sanitized(chunk')
               /\ UNCHANGED <<phase, at, unsupported, resetFailed>>
      <3>1. cur \in Tables /\ chunk' \subseteq Keys
        <4>1. pc \notin {"down", "table"}
          BY <2>3 DEF ReadChunk, ReadBatch
        <4> QED
          BY <4>1, CurIsTable, <1>n DEF cur, MTypeOK, TypeOK
      <3>2. Sanitized(chunk') \subseteq Tables \X Keys
        BY <3>1 DEF Sanitized
      <3>3. recorder' \in SUBSET (Tables \X Keys)
        BY <2>3, <3>2 DEF MTypeOK
      <3> QED
        BY <1>3, <2>3, <3>3 DEF StreamTable, MTypeOK
    <2> QED
      BY <1>3, <2>1, <2>2, <2>3 DEF StreamTable
  <1>4. CASE WriteSanitizedRowsReports
    <2>1. at' = at /\ phase' = "index" /\ sanitizedReport' = recorder
      BY <1>4 DEF WriteSanitizedRowsReports
    <2> QED
      BY <1>4, <2>1 DEF WriteSanitizedRowsReports, MTypeOK
  <1>5. CASE CreateIndexes
    <2>1. at' \in 1 .. Len(TableOrder) /\ phase' \in {"index", "fk"}
      BY <1>5, <1>n, NextTableType DEF CreateIndexes, MTypeOK
    <2> QED
      BY <1>5, <2>1, <1>n DEF CreateIndexes, MTypeOK
  <1>6. CASE CreateIndexesFails \/ AddForeignKeysFails \/ SequencesFail \/ StatementFails
    <2>1. Gone /\ UNCHANGED <<catalog, reports, migrated>>
      BY <1>6 DEF CreateIndexesFails, AddForeignKeysFails, SequencesFail, StatementFails, Abort
    <2>2. errors' \in Nat
      BY <1>6 DEF CreateIndexesFails, AddForeignKeysFails, SequencesFail, StatementFails, MTypeOK
    <2> QED
      BY <2>1, <2>2, <1>n, GoneType DEF MTypeOK
  <1>7. CASE AddForeignKeys
    <2>1. at' \in 1 .. Len(TableOrder) /\ phase' \in {"fk", "sequence"}
      BY <1>7, <1>n, NextTableType DEF AddForeignKeys, MTypeOK
    <2>2. constraints' \subseteq Fks
      BY <1>7 DEF AddForeignKeys, MTypeOK, FksOf
    <2> QED
      BY <1>7, <2>1, <2>2, <1>n DEF AddForeignKeys, MTypeOK
  <1>8. CASE ResetSequence
    <2>1. PICK max \in Keys \cup {0} :
             /\ nextval' = [nextval EXCEPT ![TableOrder[at]] =
                              IF TableOrder[at] \notin IdentityTables \/ max < 0 THEN @ ELSE max + 1]
             /\ resetFailed' = (resetFailed \/ (TableOrder[at] \in IdentityTables /\ max < 0))
      BY <1>8 DEF ResetSequence
    <2>2. max \in Int
      BY KeysAssumption
    <2>3. nextval' \in [Tables -> Nat \ {0}]
      <3>1. ASSUME NEW t \in Tables PROVE nextval'[t] \in Nat \ {0}
        BY <2>1, <2>2 DEF MTypeOK
      <3> QED
        BY <2>1, <3>1 DEF MTypeOK
    <2>4. resetFailed' \in BOOLEAN
      BY <2>1, Zenon
    <2>6. unsupported' \in SUBSET Tables
      BY <1>8 DEF ResetSequence, MTypeOK, Tables
    <2>5. at' \in 1 .. Len(TableOrder) + 1 /\ phase' = "sequence"
      BY <1>8, <1>n DEF ResetSequence, MTypeOK
    <2> QED
      BY <1>8, <2>3, <2>4, <2>5, <2>6 DEF ResetSequence, MTypeOK
  <1>9. CASE Succeed
    <2>1. migrated' \in BOOLEAN
      BY <1>9, Zenon DEF Succeed
    <2> QED
      BY <1>9, <2>1, <1>n, GoneType DEF Succeed, MTypeOK
  <1>10. CASE Disturb
    <2>1. Gone \/ UNCHANGED driver
      BY <1>10 DEF Disturb
    <2>2. UNCHANGED <<catalog, reports, migrated, errors>>
      BY <1>10 DEF Disturb
    <2> QED
      BY <2>1, <2>2, <1>n, GoneType DEF MTypeOK
  <1>11. CASE UNCHANGED mvars
    BY <1>11 DEF mvars, MTypeOK
  <1>12. CASE ResetSequenceFails
    <2>1. resetFailed' \in BOOLEAN
      <3>1. resetFailed' = resetFailed \/ resetFailed' = TRUE
        BY <1>12, Zenon DEF ResetSequenceFails
      <3> QED
        BY <3>1, Zenon DEF MTypeOK
    <2>2. unsupported' \in SUBSET Tables /\ errors' \in Nat
      BY <1>12, TablesAssumption DEF ResetSequenceFails, MTypeOK
    <2>3. at' \in 1 .. Len(TableOrder) + 1 /\ phase' = "sequence"
      BY <1>12, <1>n DEF ResetSequenceFails, MTypeOK
    <2> QED
      BY <1>12, <2>1, <2>2, <2>3 DEF ResetSequenceFails, MTypeOK
  <1>13. CASE WriteSequenceResetReports
    <2>1. sequenceReport' \in SUBSET Tables
      BY <1>13 DEF WriteSequenceResetReports, MTypeOK
    <2> QED
      BY <1>13, <2>1, <1>n DEF WriteSequenceResetReports, MTypeOK
  <1> QED
    BY <1>1, <1>2, <1>3, <1>4, <1>5, <1>6, <1>7, <1>8, <1>9, <1>10, <1>11, <1>12, <1>13
       DEF MNext, MProcess

\* Type correctness of the migration.
THEOREM MigrationTypeCorrect == MSpec => []MTypeOK
  <1>1. MInit => MTypeOK
    <2> SUFFICES ASSUME MInit PROVE MTypeOK
      OBVIOUS
    <2>1. TypeOK
      BY InitType DEF MInit
    <2>2. resetFailed \in BOOLEAN /\ migrated \in BOOLEAN
      BY Zenon DEF MInit
    <2> QED
      BY <2>1, <2>2, SomeTable DEF MInit, MTypeOK
  <1>2. MTypeOK /\ TypeOK' /\ [MNext]_mvars => MTypeOK'
    BY MStepType
  <1>3. MSpec => []TypeOK
    BY MigrateImplementsLoader, TypeCorrect, PTL DEF ImplementsLoader
  <1> QED
    BY <1>1, <1>2, <1>3, PTL DEF MSpec

-----------------------------------------------------------------------------
(* The phases.                                                               *)

\* The driver's phase and the loader's program counter move together.
LEMMA PhaseStep ==
    ASSUME MTypeOK, PhaseInv, [MNext]_mvars
    PROVE  PhaseInv'
  <1> USE DEF catalog, reports, noted, driver, memory
  <1>1. CASE Start
    BY <1>1 DEF Start, NewLoader, PhaseInv
  <1>2. CASE CreateTables
    BY <1>2 DEF CreateTables, PhaseInv, vars
  <1>3. CASE StreamTable
    <2>0. phase = "copy" /\ pc # "down" /\ at = 1 /\ ~migrated /\ ~migrated'
      <3>1. phase = "copy" /\ migrated' = migrated
        BY <1>3 DEF StreamTable
      <3> QED
        BY <3>1, Zenon DEF PhaseInv
    <2>1. \/ FailTable /\ Gone
          \/ /\ phase' = phase /\ at' = at
             /\ \/ SkipTable \/ BeginTable \/ CountRows \/ FetchRange \/ AdvancePK \/ LastChunk
                \/ OpenCursor \/ AdvanceCursor \/ LastBatch \/ FinishTable
                \/ CopyFrom \/ CopyConflict \/ ReadChunk \/ ReadBatch
      BY <1>3 DEF StreamTable
    <2>2. CASE FailTable /\ Gone
      BY <2>0, <2>2 DEF FailTable, Shutdown, Gone, PhaseInv
    <2>3. CASE phase' = phase /\ at' = at /\ ~(FailTable /\ Gone)
      <3>1. pc' # "down"
        BY <2>1, <2>3 DEF SkipTable, BeginTable, CountRows, FetchRange, AdvancePK, LastChunk,
               OpenCursor, AdvanceCursor, LastBatch, FinishTable, CopyFrom, CopyConflict,
               ReadChunk, ReadBatch
      <3> QED
        BY <2>0, <2>3, <3>1 DEF PhaseInv
    <2> QED
      BY <2>1, <2>2, <2>3
  <1>4. CASE WriteSanitizedRowsReports
    <2>1. idx = Len(TableOrder) + 1
      BY <1>4, SomeTable DEF WriteSanitizedRowsReports, MTypeOK, TypeOK
    <2> QED
      BY <1>4, <2>1 DEF WriteSanitizedRowsReports, PhaseInv, vars
  <1>5. CASE CreateIndexes
    <2>1. phase' \in {"index", "fk"}
      BY <1>5 DEF CreateIndexes, NextTable
    <2> QED
      BY <1>5, <2>1 DEF CreateIndexes, PhaseInv, vars
  <1>6. CASE AddForeignKeys
    <2>1. phase' \in {"fk", "sequence"}
      BY <1>6 DEF AddForeignKeys, NextTable
    <2> QED
      BY <1>6, <2>1 DEF AddForeignKeys, PhaseInv, vars
  <1>7. CASE ResetSequence \/ ResetSequenceFails
    BY <1>7 DEF ResetSequence, ResetSequenceFails, PhaseInv, vars
  <1>11. CASE WriteSequenceResetReports
    BY <1>11 DEF WriteSequenceResetReports, PhaseInv, vars
  <1>8. CASE \/ CreateIndexesFails \/ AddForeignKeysFails \/ SequencesFail \/ Succeed
             \/ StatementFails
    <2>1. pc' = "down" /\ idx' = 1 /\ phase' = "none" /\ at' = 1
      BY <1>8 DEF CreateIndexesFails, AddForeignKeysFails, SequencesFail, Succeed,
                  StatementFails, Abort, Exit, Shutdown, Gone
    <2> QED
      BY <2>1 DEF PhaseInv
  <1>9. CASE Disturb
    <2>1. CASE phase = "copy" /\ (QueryError \/ CopyError) /\ UNCHANGED driver
      <3>1. pc' # "down" /\ phase' = "copy" /\ at' = at /\ migrated' = migrated
        BY <1>9, <2>1 DEF Disturb, QueryError, CopyError
      <3> QED
        BY <2>1, <3>1 DEF PhaseInv
    <2>2. CASE (TornSave \/ Crash) /\ Gone
      <3>1. pc' = "down" /\ phase' = "none" /\ at' = 1
        BY <2>2 DEF TornSave, Crash, Shutdown, Gone
      <3> QED
        BY <3>1 DEF PhaseInv
    <2>3. CASE SourceInsert /\ UNCHANGED driver
      <3>1. pc' = pc /\ idx' = idx /\ phase' = phase /\ at' = at /\ migrated' = migrated
        BY <1>9, <2>3 DEF Disturb, SourceInsert
      <3> QED
        BY <3>1 DEF PhaseInv
    <2> QED
      BY <1>9, <2>1, <2>2, <2>3 DEF Disturb
  <1>10. CASE UNCHANGED mvars
    BY <1>10 DEF mvars, vars, PhaseInv
  <1> QED
    BY <1>1, <1>2, <1>3, <1>4, <1>5, <1>6, <1>7, <1>8, <1>9, <1>10, <1>11 DEF MNext, MProcess

-----------------------------------------------------------------------------
(* What the phases after the copy do.                                        *)

\* IsMax gives an upper bound.
LEMMA MaxBounds ==
    ASSUME NEW m \in Keys \cup {0}, NEW S \in SUBSET Keys, IsMax(m, S), NEW k \in S
    PROVE  k \in Int /\ m \in Int /\ k <= m
  BY KeysAssumption DEF IsMax

\* One turn of the index loop.
LEMMA CreateIndexesStep ==
    ASSUME MTypeOK, CatalogInv, CreateIndexes
    PROVE  CatalogInv'
  <1>1. /\ indexed' = indexed \cup ({TableOrder[at]} \cap UniqueIndexTables)
        /\ phase = "index"
    BY DEF CreateIndexes
  <1>2. at \in 1 .. Len(TableOrder) /\ indexed \subseteq UniqueIndexTables
    BY <1>1, SomeTable DEF MTypeOK
  <1>3. ASSUME NEW i \in 1 .. at PROVE {TableOrder[i]} \cap UniqueIndexTables \subseteq indexed'
    BY <1>1, <1>2, <1>3 DEF CatalogInv
  <1>4. CASE at < Len(TableOrder)
    <2>1. phase' = "index" /\ at' = at + 1
      BY <1>4 DEF CreateIndexes, NextTable
    <2> QED
      BY <1>2, <1>3, <2>1 DEF CatalogInv
  <1>5. CASE ~(at < Len(TableOrder))
    <2>1. phase' = "fk" /\ at' = 1 /\ at = Len(TableOrder)
      BY <1>2, <1>5, SomeTable DEF CreateIndexes, NextTable
    <2>2. ASSUME NEW t \in UniqueIndexTables PROVE t \in indexed'
      <3>1. PICK i \in 1 .. Len(TableOrder) : t = TableOrder[i]
        BY SchemaAssumption DEF Tables
      <3> QED
        BY <1>3, <2>1, <3>1
    <2>3. indexed' = UniqueIndexTables
      BY <1>1, <1>2, <2>2
    <2> QED
      BY <2>1, <2>3 DEF CatalogInv
  <1> QED
    BY <1>4, <1>5

\* One turn of the foreign-key loop.
LEMMA AddForeignKeysStep ==
    ASSUME MTypeOK, CatalogInv, AddForeignKeys
    PROVE  CatalogInv'
  <1>1. /\ constraints' = constraints \cup FksOf(TableOrder[at]) /\ phase = "fk"
        /\ indexed' = indexed /\ indexed = UniqueIndexTables
    BY DEF AddForeignKeys, CatalogInv
  <1>2. at \in 1 .. Len(TableOrder) /\ constraints \subseteq Fks
    BY <1>1, SomeTable DEF MTypeOK
  <1>3. ASSUME NEW i \in 1 .. at PROVE FksOf(TableOrder[i]) \subseteq constraints'
    BY <1>1, <1>2, <1>3 DEF CatalogInv
  <1>4. CASE at < Len(TableOrder)
    <2>1. phase' = "fk" /\ at' = at + 1
      BY <1>4 DEF AddForeignKeys, NextTable
    <2> QED
      BY <1>1, <1>2, <1>3, <2>1 DEF CatalogInv
  <1>5. CASE ~(at < Len(TableOrder))
    <2>1. phase' = "sequence" /\ at' = 1 /\ at = Len(TableOrder)
      BY <1>2, <1>5, SomeTable DEF AddForeignKeys, NextTable
    <2>2. ASSUME NEW f \in Fks PROVE f \in constraints'
      <3>1. PICK i \in 1 .. Len(TableOrder) : ChildOf[f] = TableOrder[i]
        BY FksAssumption DEF Tables
      <3> QED
        BY <1>3, <2>1, <3>1 DEF FksOf
    <2>3. constraints' = Fks
      BY <1>1, <1>2, <2>2 DEF FksOf
    <2> QED
      BY <1>1, <2>1, <2>3 DEF CatalogInv
  <1> QED
    BY <1>4, <1>5

\* One turn of the sequence loop: if the table behind it is past its keys or listed
\* as unsupported, so are all before it.
LEMMA SequenceTurn ==
    ASSUME MTypeOK, CatalogInv, phase = "sequence", phase' = "sequence",
           at <= Len(TableOrder), at' = at + 1, UNCHANGED <<target, constraints, indexed>>,
           ~resetFailed' => ~resetFailed, unsupported \subseteq unsupported',
           \A t \in Tables : t # TableOrder[at] => nextval'[t] = nextval[t],
           ~resetFailed' /\ TableOrder[at] \in IdentityTables \ unsupported' =>
               \A k \in Have[TableOrder[at]] : k < nextval'[TableOrder[at]]
    PROVE  CatalogInv'
  <1>1. at \in 1 .. Len(TableOrder) /\ at \in Nat
    BY SomeTable DEF MTypeOK
  <1>2. Have' = Have
    BY DEF Have
  <1>3. ASSUME ~resetFailed', NEW i \in 1 .. at, TableOrder[i] \in IdentityTables \ unsupported',
               NEW k \in Have[TableOrder[i]]
        PROVE  k < nextval'[TableOrder[i]]
    <2>1. CASE i = at
      BY <1>3, <2>1
    <2>2. CASE i # at
      <3>1. TableOrder[i] # TableOrder[at] /\ i \in 1 .. at - 1
        BY <1>1, <1>3, <2>2, SomeTable, OrderAssumption
      <3>2. nextval'[TableOrder[i]] = nextval[TableOrder[i]]
        BY <3>1, <1>3, SchemaAssumption, TablesAssumption
      <3>3. ~resetFailed
        BY <1>3
      <3> QED
        BY <1>3, <3>1, <3>2, <3>3 DEF CatalogInv
    <2> QED
      BY <2>1, <2>2
  <1>4. constraints' = Fks /\ indexed' = UniqueIndexTables
    BY DEF CatalogInv
  <1> QED
    BY <1>1, <1>2, <1>3, <1>4 DEF CatalogInv

\* A table whose sequence is set.
LEMMA ResetSequenceStep ==
    ASSUME MTypeOK, CatalogInv, ResetSequence
    PROVE  CatalogInv'
  <1>1. /\ phase = "sequence" /\ phase' = "sequence" /\ at' = at + 1
        /\ UNCHANGED <<target, constraints, indexed>> /\ at <= Len(TableOrder)
        /\ unsupported \subseteq unsupported'
    BY DEF ResetSequence, vars
  <1>2. at \in 1 .. Len(TableOrder)
    BY <1>1, SomeTable DEF MTypeOK
  <1> DEFINE t == TableOrder[at]
  <1>4. PICK max \in Keys \cup {0} :
           /\ IsMax(max, Have[t])
           /\ nextval' = [nextval EXCEPT ![t] =
                            IF t \notin IdentityTables \/ max < 0 THEN @ ELSE max + 1]
           /\ resetFailed' = (resetFailed \/ (t \in IdentityTables /\ max < 0))
    BY DEF ResetSequence
  <1>5. t \in Tables /\ Have[t] \in SUBSET Keys
    BY <1>2, CurIsTable DEF Have
  <1>6. ASSUME ~resetFailed' PROVE ~resetFailed /\ ~(t \in IdentityTables /\ max < 0)
    BY <1>4, <1>6, Zenon
  <1>7. ASSUME ~resetFailed', t \in IdentityTables, NEW k \in Have[t] PROVE k < nextval'[t]
    <2>1. k \in Int /\ max \in Int /\ k <= max
      BY <1>4, <1>5, MaxBounds
    <2>2. nextval'[t] = max + 1
      BY <1>4, <1>5, <1>6, <1>7 DEF MTypeOK
    <2> QED
      BY <2>1, <2>2
  <1>8. \A u \in Tables : u # t => nextval'[u] = nextval[u]
    BY <1>4, <1>5 DEF MTypeOK
  <1> QED
    BY <1>1, <1>6, <1>7, <1>8, SequenceTurn

\* A table whose sequence is not set is listed, or the reset has failed.
LEMMA ResetSequenceFailsStep ==
    ASSUME MTypeOK, CatalogInv, ResetSequenceFails
    PROVE  CatalogInv'
  <1>1. /\ phase = "sequence" /\ phase' = "sequence" /\ at' = at + 1
        /\ UNCHANGED <<target, constraints, indexed, nextval>> /\ at <= Len(TableOrder)
        /\ unsupported \subseteq unsupported'
    BY DEF ResetSequenceFails, vars, catalog
  <1>2. (unsupported' = unsupported \cup {TableOrder[at]} /\ resetFailed' = resetFailed)
        \/ resetFailed' = TRUE
    BY Zenon DEF ResetSequenceFails
  <1>3. ~resetFailed' => ~resetFailed
    BY <1>2, Zenon
  <1>4. ~resetFailed' => TableOrder[at] \in unsupported'
    BY <1>2
  <1> QED
    BY <1>1, <1>3, <1>4, SequenceTurn

\* The sequence loop is over and its report written.
LEMMA SequenceReportStep ==
    ASSUME MTypeOK, CatalogInv, WriteSequenceResetReports
    PROVE  CatalogInv'
  <1>1. /\ phase = "sequence" /\ phase' = "finish" /\ at > Len(TableOrder)
        /\ sequenceReport' = unsupported
        /\ UNCHANGED <<target, catalog, resetFailed>>
    BY DEF WriteSequenceResetReports, vars, noted
  <1>2. Have' = Have /\ nextval' = nextval
    BY <1>1 DEF Have, catalog
  <1>3. ASSUME ~resetFailed', NEW t \in IdentityTables \ unsupported, NEW k \in Have[t]
        PROVE  k < nextval[t]
    <2>1. PICK i \in 1 .. Len(TableOrder) : t = TableOrder[i]
      BY SchemaAssumption, TablesAssumption DEF Tables
    <2>2. i \in 1 .. at - 1
      BY <1>1, SomeTable DEF MTypeOK
    <2>3. ~resetFailed
      BY <1>1, <1>3, Zenon
    <2> QED
      BY <1>1, <1>3, <2>1, <2>2, <2>3 DEF CatalogInv
  <1>4. constraints' = Fks /\ indexed' = UniqueIndexTables
    BY <1>1 DEF CatalogInv, catalog
  <1> QED
    BY <1>1, <1>2, <1>3, <1>4 DEF CatalogInv

\* Every step keeps what the phases have achieved.
LEMMA CatalogStep ==
    ASSUME MTypeOK, PhaseInv, CatalogInv, [MNext]_mvars
    PROVE  CatalogInv'
  <1> USE DEF catalog, reports, noted, driver
  <1>1. CASE phase' \notin {"index", "fk", "sequence", "finish"}
    BY <1>1 DEF CatalogInv
  <1>2. CASE UNCHANGED <<target, catalog, reports, driver>>
    BY <1>2 DEF CatalogInv, Have
  <1>3. CASE Start \/ CreateTables
    BY <1>3, <1>1 DEF Start, CreateTables
  <1>11. CASE WriteSanitizedRowsReports
    <2>1. phase' = "index" /\ at' = 1
      BY <1>11 DEF WriteSanitizedRowsReports, PhaseInv
    <2> QED
      BY <2>1 DEF CatalogInv
  <1>4. CASE StreamTable
    <2>1. phase' \in {"copy", "none"}
      BY <1>4 DEF StreamTable, Gone
    <2> QED
      BY <2>1, <1>1
  <1>5. CASE CreateIndexes
    BY <1>5, CreateIndexesStep
  <1>6. CASE AddForeignKeys
    BY <1>6, AddForeignKeysStep
  <1>7. CASE ResetSequence
    BY <1>7, ResetSequenceStep
  <1>12. CASE ResetSequenceFails
    BY <1>12, ResetSequenceFailsStep
  <1>13. CASE WriteSequenceResetReports
    BY <1>13, SequenceReportStep
  <1>8. CASE \/ CreateIndexesFails \/ AddForeignKeysFails \/ SequencesFail \/ Succeed
             \/ StatementFails
    BY <1>8, <1>1 DEF CreateIndexesFails, AddForeignKeysFails, SequencesFail, Succeed,
                      StatementFails, Abort, Gone
  <1>9. CASE Disturb
    <2>1. CASE phase = "copy" /\ UNCHANGED driver
      BY <2>1, <1>1
    <2>2. CASE Gone
      BY <2>2, <1>1 DEF Gone
    <2>3. CASE SourceInsert /\ UNCHANGED driver
      BY <1>9, <2>3, <1>2 DEF Disturb, SourceInsert
    <2> QED
      BY <1>9, <2>1, <2>2, <2>3 DEF Disturb
  <1>10. CASE UNCHANGED mvars
    BY <1>10, <1>2 DEF mvars, vars
  <1> QED
    BY <1>3, <1>4, <1>5, <1>6, <1>7, <1>8, <1>9, <1>10, <1>11, <1>12, <1>13 DEF MNext, MProcess

-----------------------------------------------------------------------------
(* What a success means.                                                     *)

\* A run that succeeds has done all it should, and nothing undoes it before
\* the next run starts.
LEMMA SuccessStep ==
    ASSUME MTypeOK, IInv, PhaseInv, StreamedInv, CatalogInv, SuccessInv, [MNext]_mvars
    PROVE  SuccessInv'
  <1> USE DEF catalog, reports, noted, driver
  <1>1. CASE ~migrated'
    BY <1>1 DEF SuccessInv, MigratedIsComplete, MigratedIsConstrained, SequencesAhead
  <1>2. CASE UNCHANGED <<baseline, target, catalog, reports, migrated>>
    BY <1>2 DEF SuccessInv, MigratedIsComplete, MigratedIsConstrained, SequencesAhead, Have
  <1>3. CASE Succeed
    <2>1. /\ phase = "finish" /\ ~resetFailed
          /\ UNCHANGED <<baseline, target, catalog, reports>>
      BY <1>3 DEF Succeed, Exit, databases
    <2>2. Have' = Have
      BY <2>1 DEF Have
    <2>3. ASSUME NEW t \in Tables PROVE baseline[t] \subseteq Have[t]
      <3>1. PICK i \in 1 .. Len(TableOrder) : t = TableOrder[i]
        BY DEF Tables
      <3>2. prog[t].status = "completed"
        BY <2>1, <3>1, SomeTable DEF PhaseInv, StreamedInv
      <3> QED
        BY <3>2 DEF IInv, ProgressInv, ProgressSound
    <2>4. ASSUME NEW t \in IdentityTables \ sequenceReport, NEW k \in Have[t]
          PROVE  k < nextval[t]
      BY <2>1, <2>4 DEF CatalogInv
    <2>5. constraints' = Fks /\ indexed' = UniqueIndexTables
      BY <2>1 DEF CatalogInv
    <2> QED
      BY <2>1, <2>2, <2>3, <2>4, <2>5
         DEF SuccessInv, MigratedIsComplete, MigratedIsConstrained, SequencesAhead
  <1>4. CASE phase # "none" /\ migrated' = migrated
    BY <1>4, <1>1, Zenon DEF PhaseInv
  <1>5. CASE Start
    BY <1>5, <1>1 DEF Start
  <1>6. CASE \/ CreateTables \/ StreamTable \/ WriteSanitizedRowsReports \/ CreateIndexes
             \/ AddForeignKeys \/ ResetSequence \/ ResetSequenceFails
             \/ WriteSequenceResetReports
    BY <1>6, <1>4 DEF CreateTables, StreamTable, WriteSanitizedRowsReports, CreateIndexes,
       AddForeignKeys, ResetSequence, ResetSequenceFails, WriteSequenceResetReports
  <1>9. CASE CreateIndexesFails \/ AddForeignKeysFails \/ SequencesFail \/ StatementFails
    <2>1. migrated' = migrated /\ UNCHANGED <<baseline, target, catalog, reports>>
      BY <1>9 DEF CreateIndexesFails, AddForeignKeysFails, SequencesFail, StatementFails,
                  Abort, Exit, databases
    <2> QED
      BY <2>1, <1>2
  <1>7. CASE Disturb
    <2>1. migrated' = migrated /\ UNCHANGED <<catalog, reports>>
      BY <1>7 DEF Disturb
    <2>2. phase # "none" \/ SourceInsert
      BY <1>7 DEF Disturb, Crash, PhaseInv
    <2>3. CASE SourceInsert
      BY <2>1, <2>3, <1>2 DEF SourceInsert
    <2> QED
      BY <2>1, <2>2, <2>3, <1>4
  <1>8. CASE UNCHANGED mvars
    BY <1>8, <1>2 DEF mvars, vars
  <1> QED
    BY <1>3, <1>5, <1>6, <1>7, <1>8, <1>9 DEF MNext, MProcess

\* The inductive invariant of a whole migration: the loader's, the place of the
\* driver among its phases, and what each phase has finished so far.
THEOREM MigrationInvariant ==
    ASSUME KeysInRange, "readTruncated" \notin Faults
    PROVE  MSpec => [](MTypeOK /\ MInv)
  <1> DEFINE Extra == PhaseInv /\ StreamedInv /\ CatalogInv /\ SuccessInv
  <1>1. MInit => Extra
    <2> SUFFICES ASSUME MInit PROVE Extra
      OBVIOUS
    <2>1. ~migrated
      BY Zenon DEF MInit
    <2> QED
      BY <2>1 DEF MInit, Init, PhaseInv, StreamedInv, CatalogInv, SuccessInv,
                  MigratedIsComplete, MigratedIsConstrained, SequencesAhead
  <1>2. MTypeOK /\ IInv /\ Extra /\ [MNext]_mvars => Extra'
    BY PhaseStep, StreamedStep, CatalogStep, SuccessStep, LoaderSteps DEF MTypeOK
  <1>3. MSpec => []IInv
    BY MigrateImplementsLoader, LoaderInvariant, PTL DEF ImplementsLoader
  <1>4. MTypeOK /\ IInv /\ Extra => MTypeOK /\ MInv
    BY DEF MInv
  <1> QED
    BY <1>1, <1>2, <1>3, <1>4, MigrationTypeCorrect, PTL DEF MSpec

\* A run that reports success leaves all the rows in the target, whatever the runs
\* before it went through.
THEOREM SuccessIsComplete ==
    ASSUME KeysInRange, "readTruncated" \notin Faults
    PROVE  MSpec => []MigratedIsComplete
  <1>1. MTypeOK /\ MInv => MigratedIsComplete
    BY DEF MInv, SuccessInv
  <1> QED
    BY <1>1, MigrationInvariant, PTL

\* It leaves every unique index and every foreign key of the plan in force, though
\* the driver stops at the first statement that fails.
THEOREM SuccessIsConstrained ==
    ASSUME KeysInRange, "readTruncated" \notin Faults
    PROVE  MSpec => []MigratedIsConstrained
  <1>1. MTypeOK /\ MInv => MigratedIsConstrained
    BY DEF MInv, SuccessInv
  <1> QED
    BY <1>1, MigrationInvariant, PTL

\* It leaves every sequence past all the copied keys, those of tables that an
\* earlier run completed too, except where its own report says unsupported.
THEOREM SuccessAdvancesSequences ==
    ASSUME KeysInRange, "readTruncated" \notin Faults
    PROVE  MSpec => []SequencesAhead
  <1>1. MTypeOK /\ MInv => SequencesAhead
    BY DEF MInv, SuccessInv
  <1> QED
    BY <1>1, MigrationInvariant, PTL

\* Indexes and foreign keys are only added to a target that has all the rows.
THEOREM ConstraintsComeLast ==
    ASSUME KeysInRange, "readTruncated" \notin Faults
    PROVE  MSpec => DataBeforeConstraints
  <1> DEFINE Ready == \A t \in Tables : baseline[t] \subseteq Have[t]
  <1>1. ASSUME MTypeOK, MInv, [MNext]_mvars, <<indexed, constraints>>' # <<indexed, constraints>>
        PROVE  Ready
    <2>1. phase \in {"index", "fk"}
      BY <1>1 DEF MNext, MProcess, mvars, catalog, Start, CreateTables, StreamTable,
                  WriteSanitizedRowsReports, CreateIndexes, CreateIndexesFails, AddForeignKeys,
                  AddForeignKeysFails, ResetSequence, ResetSequenceFails,
                  WriteSequenceResetReports, SequencesFail, Succeed, StatementFails, Disturb, Abort
    <2>2. idx = Len(TableOrder) + 1 /\ pc = "table"
      BY <1>1, <2>1 DEF MInv, PhaseInv
    <2>3. ASSUME NEW t \in Tables PROVE baseline[t] \subseteq Have[t]
      <3>1. PICK i \in 1 .. Len(TableOrder) : t = TableOrder[i]
        BY DEF Tables
      <3>2. prog[t].status = "completed"
        BY <1>1, <2>2, <3>1, SomeTable DEF MInv, StreamedInv
      <3> QED
        BY <1>1, <3>2 DEF MInv, IInv, ProgressInv, ProgressSound
    <2> QED
      BY <2>3
  <1> HIDE DEF Ready
  <1>2. MTypeOK /\ MInv /\ [MNext]_mvars =>
           [<<indexed, constraints>>' # <<indexed, constraints>> => Ready]_mvars
    BY <1>1
  <1> QED
    BY <1>2, MigrationInvariant, PTL DEF MSpec, DataBeforeConstraints, Ready
=============================================================================
