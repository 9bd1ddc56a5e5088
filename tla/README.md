# QantaraDB in TLA+

QantaraDB copies a MySQL database into PostgreSQL: it inspects the source
schema, plans table order and column types, creates the tables, streams the
rows with a resumable loader, applies indexes, foreign keys and sequences, and
validates the result. This directory holds a TLA+ model of that program, the
TLC runs that check it on small instances and TLAPS proofs about it.

## 1. The system

| component | state it keeps | operations | interacts with |
| --- | --- | --- | --- |
| `cmd/qantaradb` (driver) | report files between runs; flags and config in a run | `inspect`, `plan`, `migrate`, `validate`, `resume`, `report`, `preflight` | calls every other component in a fixed order, exits the process on the first error |
| `loader` | `JobState` in memory and in a JSON state file; the sanitized-row recorder in memory | `NewLoader`/`loadState`, `StreamTable` (by key ranges or by one cursor), `saveState`, `SanitizedRowsReport` | MySQL (SELECT), PostgreSQL (COPY), the disk |
| `planner` | none | `CreatePlan`, `sortTablesTopologically` | schema from the inspector, types from the mapper |
| `ddl` | none | `GenerateDDL` (tables, indexes, foreign keys) | plan and schema |
| `mapper` | none | `MapType` | planner, validator |
| `validator` | none between runs; report files | `Validate`, sample checksums, drill-down, foreign-key audit, sequence reset, `DetermineValidationStatus`, `DetermineStagingReadiness` | both databases, the report files |
| `inspector` | none | `Inspect` | MySQL catalog |
| `preflight` | none | `RunPreflight` | the inspected schema |
| `report` | report files | writers | driver |
| scripts, e2e runner | none | call the binary | driver |

The program is sequential: `Workers` in the configuration is read by nothing,
and the mutexes in the loader are never contended. What makes it hard is not
threads but

* **crashes and restarts**: the target, the state file and the report files
  outlive the process; every call to a database is a point where it may die,
  and the rows and the checkpoint that covers them are committed separately;
* **errors nobody looks at**: `saveState` and `loadState` errors are dropped,
  `rows.Err()` is never read, several audit queries fail silently;
* **a source that keeps changing** while it is counted, ranged over and read;
* **re-running** a sequence of phases of which some are idempotent
  (`CREATE TABLE IF NOT EXISTS`) and some are not (`ADD CONSTRAINT`);
* **number formats**: 64-bit keys that overflow, and that lose bits in JSON;
* **ordering** of tables by their foreign keys, with cycles and exclusions;
* **a verdict condensed from many partial observations**, which must not say
  more than was seen.

What makes each component correct:

* *loader*: a saved checkpoint never passes a row that has not arrived; a table
  saved as completed has all its rows; the state file never moves back;
  progress is not overstated; a run ends; statements that fail are made good by
  running again.
* *planner*: the plan holds each table once; parents come before children
  unless a circle forbids it, and only then is the order given up.
* *driver, ddl, sequence reset*: success means all rows, all constraints and all
  sequences but those reported as unsupported; constraints come after the data; a run
  that failed before its first foreign key can be retried; sanitized rows are reported.
* *validator*: a validation that does not fail implies that the data is
  complete and consistent; `VALIDATION_PASSED` implies that what was sampled is
  equal; staging is blocked under the documented conditions; it ends.
* *mapper, conversion of values, normalization*: a value either arrives as it was
  or cannot be copied; what was changed on the way, or afterwards in a column that is
  not compared as text, does not pass for equal; what is equal does not count as
  different.
* *inspector, choice of keys, ddl*: keys, unique indexes, foreign keys and
  auto_increments of MySQL are in PostgreSQL when a migration succeeds.
* *driver's commands*: no flags and configurations change tables or rows of a target
  that the gates exclude; a success is complete whatever ran before; a verdict
  rests on reports that are at least as new.

## 2. Modules

    Transfer            what copying promises, abstractly
       ^  refines
    Loader  <-- EXTENDS -- Migrate       Commands      Planner
                                                                  
    Checksums <-- Validator              Normalization, Mapper, Checksums <-- Columns
                                                        Mapper <-- Schema

Each of Loader, Migrate, Commands, Planner, Validator, Columns and Schema has an
MC module with the values for TLC, and a module of proofs.

**Transfer** has three variables: the rows that must arrive, the rows that have
arrived, the tables declared done. A table is declared only when its rows have
arrived; declarations may be forgotten and made again.

**Loader** is `loader/loader.go`. A row is its key; the target counts copies of
rows, so loss and duplication are both visible. `pc` is the next call to the
outside world, and an action is that call with the assignments that follow:
`NewLoader` (load the state file), `SkipTable`/`BeginTable` (`StreamTable`'s
early return and start), `CountRows`, then `FetchRange`, `ReadChunk`, `CopyFrom`,
`AdvancePK`, `LastChunk` (`streamWithPKChunking`) or `OpenCursor`, `ReadBatch`,
`CopyFrom`, `AdvanceCursor`, `LastBatch` (`streamWithCursor`), and `FinishTable`.
`CopyConflict` is the COPY that PostgreSQL refuses for a key that is there,
`CopyError` and `QueryError` are statements that fail, `FailTable` and `Exit` what
follows. `saveState` may fail silently, and leave the file as it was or truncated;
`TornSave` is a crash between truncation and writing; `Decode` is the JSON round trip, with the rounding of a float64.
`Crash` may follow any step. Integers wrap at `MinInt`/`MaxInt`.

**Planner** is the topological sort of `planner/planner.go` with its map
iteration order left open (`SeedQueue` takes any table), the exclusions, and
`CreatePlan`'s fallback to the schema's order, a table at a time.

**Migrate** composes the driver with the loader: `phase` walks through
`runMigrate` (create, copy with the report of sanitized rows, index, fk, sequence,
finish). In `copy` a step is a
step of Loader, with the constraints of earlier runs able to refuse a COPY
(`Refused`) and the recorder updated; in the other phases the driver sends
statements to a catalog (`indexed`, `constraints`, `nextval`) and the loader
stands still. Every `os.Exit(1)` is `Abort` and is followed by another `Start`.
After the copy a statement or a report fails because it must (`CreateIndexesFails`,
`AddForeignKeysFails`, a setval below MINVALUE), or for a reason of the server's
(`StatementFails`, `ResetSequenceFails`). The latter has the three queries of
`sequence.go`: an error of `pg_get_serial_sequence` puts the table into `unsupported`
and leaves the status alone, one of MAX or setval makes it `resetFailed`; the report
is written either way (`sequenceReport`), and `SequencesFail` or `Succeed` follows.
The sequences of `plan.Tables` are reset in the order of `TableOrder`: the two
list the same tables, and the resets do not depend on each other.

**Validator** is one `validate` run and its repetition: a step is a query. It
starts from any target that a migration may have left (some of the source's
rows, keyless tables possibly with rows twice, foreign keys in place or not),
and clients insert into the source while it works. `looks` says how the two
copies of a row compare under `normalizeChecksumValue`, one of ten ways (a row whose
columns differ in several ways has the look that decides: `mixed` is one column that
cannot be compared and another that differs): all that the checksums depend on, as `LooksSuffice` of Columns establishes. The foreign-key audit holds
one connection of the pool and asks for another. `Determine` computes the status
and the staging gate. **Checksums** is the switch at the end of
`calculateSampleChecksum` and the drill-down's items, in terms of looks.

**Columns** follows one value of one column: `CreatePlan` maps its type (**Mapper**
is `mapper.go`), `ReadRow` converts it (`normalizeValueForCopy`), `CopyFrom` or
`CopyRefused` is what PostgreSQL makes of it, `Edit` is an application that
writes over the copy any value of the column's type that its CHECK admits (`Editable`:
documents, floats, NaN, dates and times among them), `Validate` compares what both drivers return
(**Normalization** is `normalization.go` and the sanitizing of texts). What Go's
library, pgx and the databases do with a value are constants (`JsonForm`,
`TimeForm`, `Decimal`, `LowerCase`, `Decoded`, `Printed`) and the external
definitions `Scanned`, `Encoded` and `Editable`; where they depend on the version of a
driver the model leaves the outcome open (`MayFail`).

**Schema** follows a run of `migrate` through the catalogs: what `inspector.go`
reads of MySQL's (PRIMARY is passed over, an expression does not scan, a foreign
key is a row per column), the key the planner picks, the statements of `ddl.go`
phase by phase (`Turn` is one turn of a phase's loop, `After` the order of the
phases), and what PostgreSQL has after each: names taken, columns that are unique,
foreign keys, identities, sequences that were set, and which tables the reset reports
as unsupported; any of its queries may fail (`ResetSequenceFails`). Its tables come in an order
that is a constant, and may be there before.

**Commands** is what an operator does: `migrate`, `resume` and `validate` one
after the other, with any flags, on several configurations that may share a
source, a target, a state file or an output file. It has both gates, the plan,
one COPY and one save per table, the setval of every sequence (`ResetSequences`, which
`migrate` reaches through the gates and `validate` through none; `past` is what the
commands have set), and every report in the order in which it is
written; a `Stop` may come anywhere and leave a file torn. `Existing` is what the
targets hold before the first command. What a database's DSN
contains is given by `Local`, `NameWords` and `DsnWords`.

An operator with the comment "Mutant of" is not part of the specification: it is
a plausible mistake in the operator it precedes, kept to confirm that the
properties would notice it.

## 3. Runs

TLC runs that must pass:

| run | instance and bounds | what it shows |
| --- | --- | --- |
| `loader_faults` | 3 tables (keyed, keyed without a key in the target, keyless), keys 1, 2, 5, batches of 2, each table empty, partly or wholly filled, two events among six kinds of fault and client inserts | checkpoints and completed marks never overtake the data; progress is not overstated for tables no client wrote to; the state file moves forward; every run ends; Transfer is implemented |
| `planner_all` | 3 tables and one outside, 3 foreign keys placed in every way, every exclusion and map order | the plan is complete, ordered, and falls back exactly when blocked; planning ends |
| `schema_all` | 3 tables, two with names that differ in a capital only; 11 forms of a parent (a natural key, an enum with "pri", bigint unsigned, an index on an expression or a long text, ...), 7 of a child, 2 of the twin; every exclusion; any tables there before | what of keys, unique indexes, foreign keys and auto_increments a successful migration has kept, whatever queries of the sequence reset fail, and which foreign keys stop one |
| `migrate_faults` | parent and child with a unique index, keys -1, 1, 2, any contents, three events among failed and lost COPYs, failed and torn saves, crashes and client inserts, and one failing statement or report after the copy (`MaxErrors`) | success is real (rows, unique indexes, foreign keys, sequences but those reported as unsupported); constraints come last; the driver uses the loader within its protocol |
| `migrate_clean` | 3 tables, any contents, two failing queries or COPYs, two failing statements or reports after the copy | retrying finishes every migration, but for one that was stopped between its first foreign key and its success (`Wedged`); completed keyed tables are exact copies |
| `validator_faults` | 2 tables, 4 keys, samples of two rows, a pool of 2, two foreign keys, one fault or client insert at any query | what the status vouches for is true; only values that cannot be compared hide a mismatch from the gate; every validation ends |
| `columns_all` | 28 kinds of column, the ends of every integer range, texts of each kind normalization tells apart with NULs, invalid UTF-8 and blanks, 16 configurations, one overwriting with any value of the type | which values are refused; that changed values are noticed, and overwritten ones in columns of booleans, numbers, dates, times and arrays; that intact ones agree, and looks are enough |
| `commands_all` | 4 configurations (shared default state file, shared target, a target that is not local and has tables and rows already), 3 commands with any flags, 2 stops, truncated inspections or failing resets of sequences | what a protected database keeps, and what `validate` sets in it; when success is complete; what a validation certifies; that a verdict is backed |

The bounds let the interesting cases happen: keys 1, 2 and 5 in batches of two
give a full chunk, an empty one and one that holds only the last row; two faults
are needed for a failed save followed by a crash, and for a failure of the retry;
a sample of two rows hides a difference behind a value that cannot be compared
and leaves rows that no sample sees, and four keys leave a row between minimum
and maximum; a pool of two is the least that the audit can run with; three
commands are one that leaves a state file, one that meets it under another
configuration, and one that certifies. A behaviour holds any number of runs of
the process in Loader, Migrate and Validator: only faults are bounded. Int64 is
scaled down to -16 .. 15, and 2^53 to 15; Columns has the true ranges, as numbers
of bits. Planner, Schema, Columns and Commands stop when the plan is made, the
run is over, the value is compared or no command is left, so their runs do not
check for deadlock; no other passing run switches that check off.

*Fairness.* `FairSpec` and `MFairSpec` are weakly fair to the process: the code
is sequential, has no lock to wait for, and every query is assumed to return.
Starting the tool again counts as a step of it, since `EventuallyMigrated` asks
what retrying can achieve. Faults and clients are never fair; `MaxFaults` bounds
how often they act in a behaviour, `MaxErrors` how many statements and reports fail
after the copy. Schema, Columns and Commands have no fairness:
nothing temporal is asked of them.

TLC runs that must fail, each for a disagreement between code and documents:

| run | what happens |
| --- | --- |
| `loader_wedged` | a crash after a COPY commits and before its checkpoint is saved (`loader.go:286`, `:312`): the resumed run repeats the COPY, which the primary key refuses, in every later run |
| `loader_truncated` | `rows.Err()` is not consulted (`loader.go:269`, `:354`): a dropped connection passes for the end and the table is marked completed |
| `migrate_rerun` | after a crash among the foreign keys every retry stops at a constraint that already exists (`main.go:286`) |
| `commands_targets` | a second configuration that keeps the default state file skips all tables and succeeds: the file does not say whose tables it has (`loader.go:149`) |

## 4. Proofs

TLAPS proves the following for every value of the constants that satisfies the
assumptions in the modules, whatever the number of tables, rows, configurations
and faults.

*Loader* (`LoaderProofs`). `TypeCorrect`. `CheckpointsAreSound` and
`CompletedTablesAreComplete` rest on `IInv` (`LoaderInvariant`), because a
checkpoint is only as good as what the process knows when it saves it:
`ProgressInv` (both progress maps claim only what is so, and memory is ahead of
the file), `ChunkInv` (everything below `currentPK` has arrived and the chunk
holds the next `BatchSize` keys), `CursorInv` (every row has arrived, is in the
batch or is still to come), `FinishInv`, `ModeInv` and `SourceInv`. They assume
`KeysInRange` (keys and one batch beyond them stay within int64 and 2^53) and
`"readTruncated" \notin Faults`; section 5 and `loader_truncated` show that
neither can be dropped. `LoaderImplementsTransfer` is the refinement, from the
same invariant. `StateFileOnlyAdvances` adds `AheadInv`: the checkpoints on disk are
not past those in memory, nor those past `currentPK`, so that whatever is saved moves
forward; tables read by a cursor have none. `CompletedTablesAreExact` is about the
runs whose only faults are failing queries and COPYs (`Faults \subseteq {"queryErr",
"copyErr"}`; `loader_wedged` shows what a crash between a COPY and its checkpoint
does): there each record of either map says exactly which rows have one copy
(`CleanInv`), but for the table between its COPY and its checkpoint.
`ProgressIsNeverOverstated` needs `CountInv` beside `IInv`: of a table that no client
writes to, the rows counted in either map, with the chunk that was just copied and
not yet counted, are at most the copies in the target, and the COUNT(*) is at most
what the source holds. When a table is finished the COUNT(*) replaces the count; it
is then that `FinishInv` (every row has arrived) bounds it by the copies. Copies are
pairs of a row and a number, so that a COPY adds as many as its chunk has rows
(`CopiesCount`). `DeliversOnlySourceRows` has none of the other theorems' conditions:
also with truncated reads and keys at the ends of int64 the target holds rows of the
source only, and a row once where its key is in the target. Validator's `WorldInv`
assumes that of the target it starts from. With `CompletedTablesAreComplete` it gives
`QuietTablesAreExact`: a completed table that no client writes to, and whose key is in
the target, is an exact copy whatever went wrong on the way.

*Planner* (`PlannerProofs`). `ParentsComeFirst`: in-degrees count the edges that
are still to be relaxed, so a table enters the queue only after its parents left
it. `FallbackIsForced`: the sort is cut short exactly when some set of tables
blocks itself. `PlanIsComplete`: either way the plan has each table once.
`PlannerTypeCorrect`.

*Migrate* (`MigrateProofs`). `MigrateImplementsLoader`: every step of the driver
is a step of Loader or leaves it alone, so the loader's theorems carry over
(`MigrationsKeepCheckpointsSound`, `MigrationsAreExact`,
`MigrationsDeliverOnlySourceRows`, `MigrationsImplementTransfer`). `SuccessIsComplete`, `SuccessIsConstrained`
and `SuccessAdvancesSequences`: a reported success has all rows, all unique indexes
and foreign keys, and all sequences but those that the run's report calls
unsupported; their invariant `MInv` (`MigrationInvariant`) adds to `IInv`
how phase and loader move together, that the tables behind the driver are
completed in memory, and what the catalog phases have done so far.
`ConstraintsComeLast` is an action property; `MigrationTypeCorrect` the types.

*Validator* (`ValidatorProofs`). `SuccessMeansComplete`: the target of a keyed
table holds only rows of the baseline, the baseline is at most what was counted
in the source, so counts that agree leave no room for a missing row, although
only the first rows are sampled. The invariant (`ValidatorInvariant`) carries that
from the moment a table is counted (`CountInv`) through the table's record
(`TablesInv`) to the status; `PhaseInv` ties position, connections and status to
the phase; `MaskedInv` ties the drill-down to the checksum's status, from which
`OnlyMaskedDifferencesPass` follows. `SuccessMeansNoOrphans` holds since the
source has no orphans: it is the counts and not the audit that give it.
`PassedMeansVerified` adds that no result set is cut short (`VerifiedInvariant`).
These rest on what the model says of the world (`WorldInv`): the migration wrote
into keyed tables only rows of the source, and clients of the source insert but
do not delete. With deletions the counts prove nothing.

*Columns* (`ColumnsProofs`). `SamplesFollowLooks`: for a sample of any size and
whatever the values, the status and the drill-down depend on the looks of its rows
only, so that Validator stands for all values; `LooksAreEnough` is what the run checks
of it. The other theorems rest on `ColumnInv` (`ColumnInvariant`), the conjunction of
`ValuesInv` (what is sent and stored is clean), `SourceInv` (the value is one that the
column delivers), `MarkedInv` (a text with NULs or invalid UTF-8 keeps the rest of it)
and `CourseInv` (each step leaves what it made: the mapped type, the value sent, a
target that is what COPY may have stored or a client may have written, and for a
refusal its ground). None of the properties is inductive by itself, as the verdict is
about what several steps made of the value. `ColumnsTypeCorrect` says with the types
that every sample gets a status.
* `SanitizingIsReported`: PostgreSQL holds no NUL and no invalid text, so what was
  recorded is different from the source as text, and is then flagged as sanitized
  or not comparable.
* `RefusalsAreListed`: type by type, the width of a MySQL integer against that of the
  column it is mapped to, and the texts against what PostgreSQL parses. `mediumint` is
  the one integer type that does not fit.
* `IntactCopiesAgree`, `EditsAreNoticed`, `ChangesAreNoticed`: for each way a value can
  take (integer, boolean, decimal, float, date, time of day), its two forms agree after
  normalization exactly if they mean the same. `EditsAreNoticed` excepts columns of
  texts, bytes, geometries and JSON documents (`Untyped`): they are compared as texts,
  so that a JSON 7 and the "7" written over it look alike (`normalization.go:26-37`).
  `SamplesTellOfRows` says it of samples of any size, with the same exceptions: one row
  that was edited or changed is not hidden by the others.

What these assume of the libraries is named in Columns, and TLC evaluates it on the
run's values: no number, date or document is the text NULL, and no integer `true` or
`false` (`NamesAssumption`); `normalizeString` finds in a number's or a date's text the
meaning it has in its column (`NumbersAssumption`, `StampsAssumption`); a year fits 15
bits (`BitsAssumption`); what pgx decodes is clean (`DecodedAssumption`); the struct that a
time of day is decoded into is printed like no time of day (`ClocksAssumption`).

*Schema* (`SchemaProofs`). `KeepsUniqueness`, `KeepsForeignKeys`,
`RefusalsOfForeignKeys` and `KeepsSequences`, for every schema, order and list of
exclusions, from one invariant (`SchemaInv`, `SchemaInvariant`): what each phase has
put in the catalogs for the tables it is past (`Been`), and that a name or a foreign
key in them comes from a planned table; `SchemaTypeCorrect` is part of it. They
assume of MySQL only that indexes and foreign keys are over columns that exist and
that a table does not name two foreign keys alike (`SchemasAssumption`), and of the
planner that a table is planned once (proved in `PlannerProofs`). The loops go over
the same tables, so that the invariant of one, added to the invariant of the next,
is what a property needs: `RefusedForeignKeys` takes what `CreateInv` says of keys and
what `IndexInv` says of unique indexes to rule out the other grounds.

*Commands* (`CommandsProofs`). `OthersKeepWhatTheyHave`: no command changes tables or
rows of a database that is not local or whose name does not allow it, and of its
sequences `validate` alone sets some, each past the keys its table holds. It needs the
types and `PhaseInv` only. From `CInv` (`CommandsInvariant`): `OwnedInv`, what a
state file calls completed is complete for the job that said so and stays so
under every command; `StreamedInv`, the same of the process at hand; `PhaseInv`,
who is past the gates passed them; `AuditInv`, the reports of the command at hand.
`OverridesNeverDecide` needs only that "qantara" contains "qa"; it is proved and not
run, since the documents say the opposite (section 5).

Model-checked only: liveness (`EveryRunEnds`, `EventuallyMigrated`,
`EventuallyPlanned`, `EveryValidationEnds`), for which the prover has no
support. Every safety property that a passing run checks is a theorem.
`ProgressNeverOverstated` is stated for tables no client wrote to: otherwise a resumed
run counts rows inserted below its checkpoint that it will not read.
`SequencesAhead` and `SequencesFollow` except the tables that the run's own report
calls unsupported, and `EventuallyMigrated` the runs that `migrate_rerun` is about.
`PassedIsVerified` is checked with at most one truncated result; if both samples of a
table are cut at the same row it fails. `CertifiedIsComplete` is about targets that
hold rows of the source only: two sources merged into one target can agree in count,
bounds and sample.

## 5. Divergences seen and not given a run

Loader and state file
* A table without a planned key is copied again from its first row on resume
  (`loader.go:334`), into a target with no key to refuse it; `docs/COMMANDS.md:94`
  promises a resume "without repeating tables or rows that have already completed".
* A checkpoint past 2^53 is rounded by its JSON round trip (`loader.go:220`), and
  the resumed run may skip rows (with `ExactBound` at 4 in `loader_faults`,
  `CheckpointSound` fails).
* `saveState` does not make the directory of the state file, and its error is
  dropped: before the first report has made `reports/`, nothing is kept
  (`loader.go:128`).

Planner, schema and DDL
* A foreign key from a table to itself or to another schema makes
  `sortTablesTopologically` report a circle (`planner.go:191`), and all tables
  lose their order. The comment at `planner.go:52` promises a warning; none is given.
* A foreign key to an excluded table is generated anyway (`ddl.go:94`), and
  every run stops there; so is one over two columns, once per column.
* Only `auto_increment` columns, and those with "pri" in their type, become keys
  of the target (`planner.go:77`); PRIMARY itself is passed over
  (`inspector.go:223`): natural and composite primary keys are lost, and a foreign
  key to one cannot be added.
* Two indexes whose names are put together alike are one in PostgreSQL, and
  `IF NOT EXISTS` passes over the second, unique or not (`ddl.go:84`).
* An index on an expression has no COLUMN_NAME and fails the inspection of the
  whole schema (`inspector.go:219`). Prefix and full-text indexes become indexes of
  whole columns. Views are migrated as tables (`inspector.go:87`).
* A table whose name has capitals gets its sequence reset under the folded name:
  not at all, or that of another table (`sequence.go:30`).
* An error of `pg_get_serial_sequence` makes its table "unsupported" and leaves the
  status `reset_passed` (`sequence.go:32-37`): `migrate` ends with "All sequences
  synchronized successfully." (`main.go:313`) though one was never set, and its first
  INSERT collides. `SequencesAhead` and `SequencesFollow` make the exception.
* `mediumint` maps to `smallint` (`mapper.go:38`), which COPY refuses beyond 32767;
  `docs/TYPE_MAPPING.md:15` maps it to `integer` and says that it fits.
  `RefusalsAreKnown` makes the exception.
* `bigint unsigned` maps to `numeric(20,0)`, which gets no identity and so no sequence;
  `docs/FOODTECH_MIGRATION_GUIDE.md:21` says of such keys that the tool "maps them to
  Postgres `BIGINT` and synchronizes Postgres sequences". `SequencesFollow` makes the
  exception. Members of an enum are lowered with its
  type (`mapper.go:26`).

Values and validation
* An intact JSON document or time of day is a `real_mismatch`: pgx decodes what
  MySQL keeps as text (`IntactAgrees` makes the exception).
* A value that cannot be compared hides rows of the same sample that differ, and
  the gate is `ready` (`validator.go:420`; `OnlyMasked` makes the exception), though
  `docs/QANTARADB_STAGING_READINESS_GATE.md:39` blocks staging when "real checksum
  mismatches exist".
* Zero dates are refused by COPY as texts; with parseTime the MySQL driver makes them
  the year 1, and they are changed and pass. `docs/TYPE_MAPPING.md:46-47` has them
  turned into NULL or the Unix epoch to prevent just that (`RefusalsAreKnown` and
  `ChangesAreSeen` make the exceptions).
* JSON documents, texts, bytes and geometries are compared as texts: a JSON 7 that an
  application overwrites by the string "7" passes (`normalization.go:26-37`).
* Values are joined by "|" unescaped before they are hashed (`validator.go:388`).
* The audit's pattern for replacement characters is `LIKE '%%'` once formatted
  (`validator.go:293`), which every text matches; the status ignores the result.
* With a pool of one connection the foreign-key audit waits for itself
  (`validator.go:258`).
* The gate does not look at the bounds (`status.go:51`): a report can be
  `VALIDATION_FAILED` and `ready`.

Commands
* `resume` is a dry run unless `--execute` is given (`main.go:430`), against
  `docs/COMMANDS.md:94`.
* The production gate never refuses what the local gate lets pass
  (theorem `OverridesNeverDecide`): `--force-destructive-production-drop` and
  `allow_destructive_production_operations` decide nothing, where
  `docs/COMMANDS.md:120` calls them the "First Override" and the "CLI Override", and
  the message at `main.go:171-178` says "To migrate onto a production target, you must
  either" pass the one or set the other. Its own check of names
  with "prod" (`main.go:583`) is unreachable.
* A DSN of key/value form has no host for `extractHost` and counts as local
  (`main.go:614`).
* `validate` sets sequences of the target behind no gate at all (`main.go:358`,
  `sequence.go:69`), back as well as forward (`OthersAreLeftAlone` makes the exception),
  and overwrites
  the report of sanitized rows with that of its own, empty recorder
  (`main.go:380`); rows sanitized by a run that failed are in no report either
  (`sanitized_report.go:42`). `docs/QANTARADB_STAGING_READINESS_GATE.md:41` blocks
  staging when "sanitized rows exist without `qantaradb_sanitized_rows_report`".
* The table list's error is not read (`inspector.go:93`): one that is cut short is
  a smaller schema, migrated and validated with success.
* `report` prints figures that are constants in the program (`main.go:443`).

## 6. Not modelled

`inspect`, `plan`, `report` and the preflight command write files that no other
modelled part reads; preflight's warnings and the wording, sorting and samples of
all reports are left out, as are the benchmark script, pgloader files and
docker-compose, which call other programs. The type-mapping and encoding audits
of `validate` run queries whose results the status ignores. YAML and environment
variables are constants here, and so is how a DSN is taken apart.

`Transfer`, `Loader` and `Migrate` model a source whose clients insert; updates
and deletions are left out. No client inserts into the target while sequences
are reset (`sequence.go:69`). Schema and Commands do not model the rows of a chunk,
Migrate not the forms of a schema: each refers to the other by what succeeds or
fails.

## 7. What could follow

1. Validator composed with Migrate, so that a validation starts from the states a
   migration reaches; so far `DeliversOnlySourceRows` shows that they are among those
   it starts from, as far as the rows go.
2. Keys at the top of int64, where `currentPK` wraps (`KeysInRange` keeps clear of them).
3. A source whose clients update and delete, with what the checksums then show.
