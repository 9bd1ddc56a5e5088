------------------------------- MODULE Migrate -------------------------------
(***************************************************************************)
(* runMigrate of cmd/qantaradb/main.go, past its safety gates: the phases  *)
(* of one run around the streaming of the tables, and what is left of them *)
(* when the run ends early and another one starts.                         *)
(*                                                                         *)
(* The module is composed from the actions of Loader.  While tables are    *)
(* streamed the phase is "copy" and every step is a step of Loader; in the *)
(* other phases the loader is idle (pc = "table") and the driver sends     *)
(* statements to PostgreSQL.  Any error makes the driver exit, but those   *)
(* of the sequence loop, which are noted: in a phase after the copy that   *)
(* is Loader's Exit, before it its Crash.                                  *)
(***************************************************************************)
EXTENDS Loader

CONSTANTS
    Fks,               \* the foreign keys of the planned tables
    ChildOf, ParentOf, \* their tables; the parent may be one that is not planned
    Refers,            \* Refers[f][k]: the parent row child row k refers to, or None
    CompositeFks,      \* foreign keys over several columns: the inspector lists one
                       \* per column, all under the constraint's name
    UniqueIndexTables, \* tables with a UNIQUE index, other than PRIMARY, on the key
    IdentityTables,    \* tables whose key column gets GENERATED ... AS IDENTITY
    DirtyRows,         \* DirtyRows[t]: rows with text that PostgreSQL cannot store
    MaxErrors          \* bound: how many statements and reports after the copy may fail

ASSUME FksAssumption ==
    /\ ChildOf \in [Fks -> Tables] /\ DOMAIN ParentOf = Fks
    /\ Refers \in [Fks -> [Keys -> Keys \cup {None}]]
    /\ CompositeFks \subseteq Fks
ASSUME PlanAssumption == TableOrder # <<>>
ASSUME SchemaAssumption ==
    /\ UniqueIndexTables \subseteq Tables /\ IdentityTables \subseteq UniqueTables
    /\ DirtyRows \in [Tables -> SUBSET Keys]
ASSUME ErrorsAssumption == MaxErrors \in Nat

VARIABLES
    (* the target's catalog *)
    indexed,           \* tables whose UNIQUE index is in place
    constraints,       \* foreign keys in place
    nextval,           \* nextval[t]: what the sequence of t yields next
    (* the disk *)
    sanitizedReport,   \* rows listed in qantaradb_sanitized_rows_report
    sequenceReport,    \* tables "unsupported" in qantaradb_sequence_reset_report
    (* the process *)
    phase,             \* where runMigrate is; "none" when no process runs
    at,                \* position in TableOrder of the phases that loop over it
    recorder,          \* the loader's SanitizedRecorder
    unsupported,       \* the tables with an "unsupported" item of the reset
    resetFailed,       \* the reset's Status is "reset_failed"
    (* history *)
    migrated,          \* the last run ended by reporting success
    (* the environment *)
    errors             \* how many statements and reports have failed

catalog == <<indexed, constraints, nextval>>
reports == <<sanitizedReport, sequenceReport>>
noted == <<recorder, unsupported, resetFailed>>
driver == <<phase, at, noted>>
mvars == <<vars, catalog, reports, driver, migrated, errors>>

-----------------------------------------------------------------------------
(* Helpers.                                                                *)

FksOf(t) == {f \in Fks : ChildOf[f] = t}

\* A row of f's child table, among rows, refers to no row of its parent table.
Dangling(f, rows, have) ==
    \E k \in rows : Refers[f][k] # None /\ Refers[f][k] \notin have[ParentOf[f]]

\* What PostgreSQL asks of the parent table of a foreign key.
Referable(t) == t \in UniqueTables \cup indexed

\* The joined ALTER TABLE statements of t are one implicit transaction; one of
\* them that fails undoes them all.
AddFails(t) ==
    \E f \in FksOf(t) :
        \/ f \in constraints \cup CompositeFks      \* the constraint already exists
        \/ ParentOf[f] \in Tables => \* or else the relation does not exist
              ~Referable(ParentOf[f]) \/ Dangling(f, Have[t], Have)

\* A COPY that the indexes and foreign keys of an earlier run refuse.
Refused ==
    \/ cur \in indexed /\ \E k \in chunk : k \in Have[cur]
    \/ \E f \in FksOf(cur) \cap constraints :
          Dangling(f, chunk, [Have EXCEPT ![cur] = @ \cup chunk])

\* MySQL's own foreign keys, which its clients cannot break.
SourceConsistent(rows) ==
    \A f \in Fks : ParentOf[f] \in Tables => ~Dangling(f, rows[ChildOf[f]], rows)

\* What SanitizedRecorder.Record is told of while rows of cur are read.
Sanitized(rows) == {<<cur, k>> : k \in rows \cap DirtyRows[cur]}

\* The process ends, in success or not.
Gone ==
    /\ phase' = "none" /\ at' = 1
    /\ recorder' = {} /\ unsupported' = {} /\ resetFailed' = FALSE

\* os.Exit(1), from a phase after the copy.
Abort ==
    /\ Exit /\ Gone
    /\ UNCHANGED <<catalog, reports, migrated>>

\* Mutant of NextTable: the loop leaves out the last table.
NextTableStopsShort(thisPhase, nextPhase) ==
    /\ at' = IF at + 1 < Len(TableOrder) THEN at + 1 ELSE 1
    /\ phase' = IF at + 1 < Len(TableOrder) THEN thisPhase ELSE nextPhase

\* The turn of a loop over TableOrder is over.
NextTable(thisPhase, nextPhase) ==
    /\ at' = IF at < Len(TableOrder) THEN at + 1 ELSE 1
    /\ phase' = IF at < Len(TableOrder) THEN thisPhase ELSE nextPhase

-----------------------------------------------------------------------------
MInit ==
    /\ Init /\ SourceConsistent(source)
    /\ indexed = {} /\ constraints = {}
    /\ nextval = [t \in Tables |-> 1]
    /\ sanitizedReport = {} /\ sequenceReport = {}
    /\ phase = "none" /\ at = 1
    /\ recorder = {} /\ unsupported = {} /\ resetFailed = FALSE
    /\ migrated = FALSE /\ errors = 0

\* The operator starts `migrate --execute`.
Start ==
    /\ NewLoader
    /\ phase = "none" /\ phase' = "create" /\ migrated' = FALSE
    /\ UNCHANGED <<catalog, reports, at, noted, errors>>

\* Mutant of CreateTables: the tables are dropped first.
CreateTablesDropped ==
    /\ phase = "create"
    /\ phase' = "copy"
    /\ target' = [t \in Tables |-> [k \in Keys |-> 0]]
    /\ UNCHANGED <<databases, file, pc, memory, faults, catalog, reports,
                   at, noted, migrated, errors>>

\* Mutant of CreateTables: the foreign keys are part of CREATE TABLE.
CreateTablesConstrained ==
    /\ phase = "create"
    /\ phase' = "copy"
    /\ constraints' = {f \in Fks : ParentOf[f] \in Tables}
    /\ UNCHANGED <<vars, indexed, nextval, reports, at, noted, migrated, errors>>

\* CREATE TABLE IF NOT EXISTS for every table: nothing to see in a later run.
CreateTables ==
    /\ phase = "create"
    /\ phase' = "copy"
    /\ UNCHANGED <<vars, catalog, reports, at, noted, migrated, errors>>

\* StreamTable.  Reading a row records what was sanitized in it, before the row
\* is copied; a COPY also meets the constraints of earlier runs.
StreamTable ==
    /\ phase = "copy"
    /\ \/ /\ \/ SkipTable \/ BeginTable \/ CountRows \/ FetchRange \/ AdvancePK \/ LastChunk
             \/ OpenCursor \/ AdvanceCursor \/ LastBatch \/ FinishTable
             \/ CopyFrom /\ ~Refused
             \/ CopyConflict /\ (Conflicts \/ Refused)
          /\ UNCHANGED driver
       \/ /\ ReadChunk \/ ReadBatch
          /\ recorder' = recorder \cup Sanitized(chunk')
          /\ UNCHANGED <<phase, at, unsupported, resetFailed>>
       \/ FailTable /\ Gone
    /\ UNCHANGED <<catalog, reports, migrated, errors>>

\* Mutant of WriteSanitizedRowsReports: the loop over the tables ends one early.
WriteReportEarly ==
    /\ phase = "copy" /\ pc = "table" /\ idx >= Len(TableOrder)
    /\ sanitizedReport' = recorder
    /\ phase' = "index"
    /\ idx' = Len(TableOrder) + 1
    /\ UNCHANGED <<databases, target, file, pc, prog, currentPK, maxVal, totalRows, chunk,
                   unread, faults, catalog, sequenceReport, at, noted, migrated, errors>>

WriteSanitizedRowsReports ==
    /\ phase = "copy" /\ pc = "table" /\ idx > Len(TableOrder)
    /\ sanitizedReport' = recorder
    /\ phase' = "index"
    /\ UNCHANGED <<vars, catalog, sequenceReport, at, noted, migrated, errors>>

\* CREATE UNIQUE INDEX IF NOT EXISTS.
CreateIndexes ==
    /\ phase = "index"
    /\ LET t == TableOrder[at] IN
          /\ t \in UniqueIndexTables => \A k \in Keys : target[t][k] <= 1
          /\ indexed' = indexed \cup ({t} \cap UniqueIndexTables)
    /\ NextTable("index", "fk")
    /\ UNCHANGED <<vars, constraints, nextval, reports, noted, migrated, errors>>

CreateIndexesFails ==
    /\ phase = "index"
    /\ LET t == TableOrder[at] IN t \in UniqueIndexTables /\ \E k \in Keys : target[t][k] > 1
    /\ Abort /\ UNCHANGED errors

AddForeignKeys ==
    /\ phase = "fk"
    /\ LET t == TableOrder[at] IN
          /\ ~AddFails(t)
          /\ constraints' = constraints \cup FksOf(t)
    /\ NextTable("fk", "sequence")
    /\ UNCHANGED <<vars, indexed, nextval, reports, noted, migrated, errors>>

AddForeignKeysFails ==
    /\ phase = "fk"
    /\ AddFails(TableOrder[at])
    /\ Abort /\ UNCHANGED errors

\* Mutant of ResetSequence: setval(max, false).
ResetSequenceNotCalled ==
    /\ phase = "sequence" /\ at <= Len(TableOrder)
    /\ LET t == TableOrder[at] IN
       \E max \in Keys \cup {0} :
          /\ IsMax(max, Have[t])
          /\ nextval' = [nextval EXCEPT ![t] = IF t \notin IdentityTables \/ max < 0 THEN @
                                               ELSE IF max = 0 THEN 1 ELSE max]
          /\ resetFailed' = (resetFailed \/ (t \in IdentityTables /\ max < 0))
          /\ unsupported' = unsupported \cup ({t} \ PKTables)
    /\ at' = at + 1
    /\ UNCHANGED <<vars, indexed, constraints, reports, phase, recorder, migrated, errors>>

\* setval(max, true), or (1, false) when MAX is zero or the table is empty.  A
\* negative MAX is below the sequence's MINVALUE; the loop goes on all the same.
ResetSequence ==
    /\ phase = "sequence" /\ at <= Len(TableOrder)
    /\ LET t == TableOrder[at] IN
       \E max \in Keys \cup {0} :
          /\ IsMax(max, Have[t])
          /\ nextval' = [nextval EXCEPT ![t] = IF t \notin IdentityTables \/ max < 0 THEN @
                                               ELSE max + 1]
          /\ resetFailed' = (resetFailed \/ (t \in IdentityTables /\ max < 0))
          /\ unsupported' = unsupported \cup ({t} \ PKTables)
    /\ at' = at + 1
    /\ UNCHANGED <<vars, indexed, constraints, reports, phase, recorder, migrated, errors>>

\* One of the three queries fails.  If it is the one for the sequence's name, the
\* table is "unsupported" and the Status stays what it was; if it is MAX or setval,
\* the reset has failed.  No sequence is set, and the loop goes on.
ResetSequenceFails ==
    /\ phase = "sequence" /\ at <= Len(TableOrder)
    /\ errors < MaxErrors /\ errors' = errors + 1
    /\ LET t == TableOrder[at] IN
          /\ t \in PKTables
          /\ \/ unsupported' = unsupported \cup {t} /\ UNCHANGED resetFailed
             \/ t \in IdentityTables /\ resetFailed' = TRUE /\ UNCHANGED unsupported
    /\ at' = at + 1
    /\ UNCHANGED <<vars, catalog, reports, phase, recorder, migrated>>

WriteSequenceResetReports ==
    /\ phase = "sequence" /\ at > Len(TableOrder)
    /\ sequenceReport' = unsupported
    /\ phase' = "finish" /\ at' = 1
    /\ UNCHANGED <<vars, catalog, sanitizedReport, noted, migrated, errors>>

SequencesFail ==
    /\ phase = "finish" /\ resetFailed
    /\ Abort /\ UNCHANGED errors

\* The final report, and exit code 0.
Succeed ==
    /\ phase = "finish" /\ ~resetFailed
    /\ Exit /\ Gone
    /\ migrated' = TRUE
    /\ UNCHANGED <<catalog, reports, errors>>

\* After the copy, a statement fails for a reason of the server's or the connection's
\* and is undone, or a report cannot be written: the driver exits.
StatementFails ==
    /\ phase = "sequence" => at > Len(TableOrder)
    /\ phase # "create"
    /\ errors < MaxErrors /\ errors' = errors + 1
    /\ Abort

\* The environment of Loader.  A statement of the "create" phase that fails is,
\* for what it leaves behind, a crash there.
Disturb ==
    /\ \/ phase = "copy" /\ QueryError /\ UNCHANGED driver
       \/ phase = "copy" /\ CopyError /\ ~Refused /\ UNCHANGED driver
       \/ phase = "copy" /\ TornSave /\ Gone
       \/ Crash /\ Gone
       \/ SourceInsert /\ SourceConsistent(source') /\ UNCHANGED driver
    /\ UNCHANGED <<catalog, reports, migrated, errors>>

MProcess ==
    \/ Start \/ CreateTables \/ StreamTable \/ WriteSanitizedRowsReports
    \/ CreateIndexes \/ CreateIndexesFails \/ AddForeignKeys \/ AddForeignKeysFails
    \/ ResetSequence \/ WriteSequenceResetReports \/ SequencesFail \/ Succeed

MNext == MProcess \/ ResetSequenceFails \/ StatementFails \/ Disturb

MSpec == MInit /\ [][MNext]_mvars

\* As in Loader: sequential code, and an operator who starts it again.
MFairSpec == MSpec /\ WF_mvars(MProcess)

-----------------------------------------------------------------------------
(* Properties.                                                             *)

\* Every variable keeps its type.
MTypeOK ==
    /\ TypeOK
    /\ indexed \in SUBSET UniqueIndexTables /\ constraints \in SUBSET Fks
    /\ nextval \in [Tables -> Nat \ {0}]
    /\ sanitizedReport \in SUBSET (Tables \X Keys) /\ sequenceReport \in SUBSET Tables
    /\ phase \in {"none", "create", "copy", "index", "fk", "sequence", "finish"}
    /\ at \in 1 .. Len(TableOrder) + 1
    /\ phase # "sequence" => at <= Len(TableOrder)
    /\ recorder \in SUBSET (Tables \X Keys) /\ unsupported \in SUBSET Tables
    /\ resetFailed \in BOOLEAN /\ migrated \in BOOLEAN
    /\ errors \in Nat

\* A run that reports success leaves every row the source had throughout in
\* the target, however many runs died before it.
MigratedIsComplete == migrated => \A t \in Tables : baseline[t] \subseteq Have[t]

\* It leaves every UNIQUE index and every foreign key of the plan in force.
MigratedIsConstrained == migrated => indexed = UniqueIndexTables /\ constraints = Fks

\* It leaves every sequence past all the keys, so that the first INSERT of the
\* application cannot collide with a copied row, but for the tables that its sequence
\* report calls unsupported: their sequence was not asked for or not found, and the
\* run still ends with "All sequences synchronized successfully." (main.go:313).
SequencesAhead ==
    migrated => \A t \in IdentityTables \ sequenceReport : \A k \in Have[t] : k < nextval[t]

\* No index and no foreign key is created before all the rows are in: a
\* constraint is never built over, or enforced on, half of the data.
DataBeforeConstraints ==
    [][<<indexed, constraints>>' # <<indexed, constraints>> =>
        \A t \in Tables : baseline[t] \subseteq Have[t]]_mvars

\* A run ended short of success and left a foreign key in place.
Wedged == phase = "none" /\ ~migrated /\ constraints # {}

\* Running the tool again after every failure gets the migration done, unless a run
\* is ended between its first foreign key and its success.
EventuallyMigrated == <>(migrated \/ Wedged)

\* Once all tables are recorded as completed, a retry gets to the end.
SavedJobsFinish == <>(\A t \in Tables : Saved(t)) => <>migrated

\* The driver runs the loader within its protocol: whatever the loader
\* guarantees under any driver holds of the whole migration.
ImplementsLoader == Spec

-----------------------------------------------------------------------------
(* The strengthening.                                                      *)

\* The driver's phase and the loader's pc and idx move together.
PhaseInv ==
    /\ phase = "none" <=> pc = "down"
    /\ phase \in {"none", "create", "copy"} => at = 1
    /\ phase \notin {"none", "copy"} => pc = "table"
    /\ phase \in {"index", "fk", "sequence", "finish"} => idx = Len(TableOrder) + 1
    /\ migrated => phase = "none"

\* The tables the driver has been through are completed in memory.
StreamedInv ==
    /\ pc = "down" => idx = 1
    /\ pc # "down" => \A i \in 1 .. idx - 1 : prog[TableOrder[i]].status = "completed"

\* What the phases after the copy have done so far.
CatalogInv ==
    /\ phase = "index" => \A i \in 1 .. at - 1 : {TableOrder[i]} \cap UniqueIndexTables \subseteq indexed
    /\ phase \in {"fk", "sequence", "finish"} => indexed = UniqueIndexTables
    /\ phase = "fk" => \A i \in 1 .. at - 1 : FksOf(TableOrder[i]) \subseteq constraints
    /\ phase \in {"sequence", "finish"} => constraints = Fks
    /\ phase = "sequence" /\ ~resetFailed =>
          \A i \in 1 .. at - 1 : TableOrder[i] \in IdentityTables \ unsupported =>
              \A k \in Have[TableOrder[i]] : k < nextval[TableOrder[i]]
    /\ phase = "finish" /\ ~resetFailed =>
          \A t \in IdentityTables \ sequenceReport : \A k \in Have[t] : k < nextval[t]

\* What a success leaves behind.
SuccessInv == MigratedIsComplete /\ MigratedIsConstrained /\ SequencesAhead

MInv == IInv /\ PhaseInv /\ StreamedInv /\ CatalogInv /\ SuccessInv
=============================================================================
