------------------------------ MODULE Validator ------------------------------
(***************************************************************************)
(* validator/validator.go, status.go and sequence.go: `validate` compares  *)
(* the two databases table by table, audits the foreign keys, resets the   *)
(* sequences, and condenses what it saw into a status and a staging gate.  *)
(*                                                                         *)
(* A step is a query, with the assignments up to the next one.  Clients    *)
(* may go on inserting into the source between any two of them.            *)
(*                                                                         *)
(* A row is its key; looks tells how the two copies of a row compare once  *)
(* rendered and normalized (normalization.go), which is all that the       *)
(* checksums see of its columns.                                           *)
(***************************************************************************)
EXTENDS Integers, FiniteSets, Sequences, Checksums

CONSTANTS
    TableList,        \* plan.Tables: in the order of the schema
    IdentityTables,   \* tables whose key, if planned, has a sequence in the target
    Keys,             \* the row keys that can occur
    InitialPKMaps,    \* the sets of tables that may be planned with a key
    InitialRows,      \* the contents the source may start with
    InitialLooks,     \* how the copies of each row may compare
    SampleSize,       \* LIMIT 100
    Fks, ChildOf, ParentOf, Refers,   \* as in Migrate, between planned tables
    PoolSize,         \* connections of the PostgreSQL pool
    Faults,           \* what the environment may do: fail a query, cut a result
                      \* short, kill the process, insert a row into the source
    MaxFaults,        \* bound: how often, in a behaviour
    None              \* no key: NULL, read as ""

Tables == {TableList[i] : i \in 1 .. Len(TableList)}

ASSUME ListAssumption ==
    /\ TableList \in Seq(Tables) /\ TableList # <<>>
    /\ \A i, j \in 1 .. Len(TableList) : TableList[i] = TableList[j] => i = j
ASSUME TablesAssumption == IdentityTables \subseteq Tables /\ InitialPKMaps \subseteq SUBSET Tables
ASSUME KeysAssumption == Keys \subseteq Int /\ IsFiniteSet(Keys) /\ None \notin Keys
ASSUME NoneAssumption == None \notin {"VALIDATION_PARTIAL", "VALIDATION_PASSED", "ready"}
ASSUME RowsAssumption ==
    /\ InitialRows \subseteq [Tables -> SUBSET Keys]
    /\ InitialLooks \subseteq [Tables -> [Keys -> Looks]]
ASSUME SizesAssumption == SampleSize \in Nat \ {0} /\ PoolSize \in Nat \ {0}
ASSUME FksAssumption ==
    /\ ChildOf \in [Fks -> Tables] /\ ParentOf \in [Fks -> Tables]
    /\ Refers \in [Fks -> [Keys -> Keys \cup {None}]]
ASSUME FaultAssumption ==
    /\ Faults \subseteq {"queryErr", "readTruncated", "crash", "insert"} /\ MaxFaults \in Nat

VARIABLES
    pkMap,           \* tables with a PrimaryKeyColumn in the plan
    (* the databases *)
    source, target,  \* the keys of the rows they hold
    surplus,         \* surplus[t]: second copies of rows in a target table without a key
    looks,
    constraints,     \* foreign keys in place in the target
    nextval,         \* what each sequence yields next
    baseline,        \* history: the rows of the source when the validation began
    (* the process *)
    pc,              \* the query it makes next; "idle" when no process runs
    at,              \* position in TableList of the loop it is in
    val,             \* what has been read about the table at hand
    srcSample,       \* the source rows of its sample
    tables,          \* report.TablesValidation
    drilldown,       \* tables with a real_mismatch item in report.ChecksumDrilldown
    fkPassed,        \* report.FKIntegrityPassed
    fksLeft,         \* constraints the list has still to return
    held,            \* connections of the pool in use
    items,           \* report.SequenceValidation.Items: the status for each table
    status, gate,    \* of the last validation; None when it ended without a report
    faults

world == <<pkMap, target, surplus, looks, constraints>>
report == <<tables, drilldown, fkPassed, items>>
results == <<status, gate>>
vars == <<source, baseline, world, nextval, pc, at, val, srcSample, report, fksLeft,
          held, results, faults>>

-----------------------------------------------------------------------------
(* Helpers.                                                                *)

\* TableValidation, before and after the comparisons.
Reading == [srcCount : Nat, tgtCount : Nat, srcMin : Keys \cup {None}, srcMax : Keys \cup {None},
            tgtMin : Keys \cup {None}, tgtMax : Keys \cup {None}, checksum : ChecksumStatuses]
Validation == [CountMatch : BOOLEAN, PrimaryKeyMinMatch : BOOLEAN,
               PrimaryKeyMaxMatch : BOOLEAN, ChecksumStatus : ChecksumStatuses]

Unread == [srcCount |-> 0, tgtCount |-> 0, srcMin |-> None, srcMax |-> None,
           tgtMin |-> None, tgtMax |-> None, checksum |-> "passed"]
Unvalidated == [t \in Tables |-> [CountMatch |-> FALSE, PrimaryKeyMinMatch |-> TRUE,
                                  PrimaryKeyMaxMatch |-> TRUE, ChecksumStatus |-> "passed"]]

NoItems == [t \in Tables |-> "not_run"]

cur == TableList[at]

Fault(f) == f \in Faults /\ faults < MaxFaults /\ faults' = faults + 1

Dangling(f, rows, have) ==
    \E k \in rows : Refers[f][k] # None /\ Refers[f][k] \notin have[ParentOf[f]]

\* MySQL's own foreign keys.
SourceConsistent(rows) == \A f \in Fks : ~Dangling(f, rows[ChildOf[f]], rows)

\* MIN and MAX of a key column: NULL for an empty table.
IsMin(m, S) == IF S = {} THEN m = None ELSE m \in S /\ \A k \in S : m <= k
IsMax(m, S) == IF S = {} THEN m = None ELSE m \in S /\ \A k \in S : k <= m

\* SELECT ... ORDER BY key ASC LIMIT 100.
FirstRows(S) == {k \in S : Cardinality({j \in S : j < k}) < SampleSize}

\* What rows.Next returns of it before the connection is lost.
IsCutShort(rows, all) ==
    rows \subseteq all /\ rows # all /\ \A j \in rows, k \in all \ rows : j < k

\* Mutant of TableResult: a target with rows missing passes for equal.
TableResultTolerant(v) ==
    [CountMatch |-> v.srcCount >= v.tgtCount,
     PrimaryKeyMinMatch |-> v.srcMin = v.tgtMin,
     PrimaryKeyMaxMatch |-> v.srcMax = v.tgtMax,
     ChecksumStatus |-> v.checksum]

TableResult(v) ==
    [CountMatch |-> v.srcCount = v.tgtCount,
     PrimaryKeyMinMatch |-> v.srcMin = v.tgtMin,
     PrimaryKeyMaxMatch |-> v.srcMax = v.tgtMax,
     ChecksumStatus |-> v.checksum]

\* sequenceReport.Status.
ResetFailed == \E t \in Tables : items[t] = "reset_failed"

\* Mutant of DetermineValidationStatus: row counts are left to the checksums.
StatusIgnoresCounts ==
    IF \/ ~fkPassed \/ ResetFailed
       \/ \E t \in Tables : tables[t].ChecksumStatus = "real_mismatch"
    THEN "VALIDATION_FAILED"
    ELSE IF \E t \in Tables : tables[t].ChecksumStatus # "passed" \/ items[t] # "reset_passed"
    THEN "VALIDATION_PARTIAL"
    ELSE "VALIDATION_PASSED"

DetermineValidationStatus ==
    IF \/ ~fkPassed \/ ResetFailed
       \/ \E t \in Tables :
             \/ ~tables[t].CountMatch
             \/ ~tables[t].PrimaryKeyMinMatch \/ ~tables[t].PrimaryKeyMaxMatch
             \/ tables[t].ChecksumStatus = "real_mismatch"
    THEN "VALIDATION_FAILED"
    ELSE IF \E t \in Tables : tables[t].ChecksumStatus # "passed" \/ items[t] # "reset_passed"
    THEN "VALIDATION_PARTIAL"
    ELSE "VALIDATION_PASSED"

\* Mutant of DetermineStagingReadiness: row counts stand for the checksums.
ReadinessIgnoresChecksums ==
    IF fkPassed /\ ~ResetFailed /\ \A t \in Tables : tables[t].CountMatch
    THEN "ready" ELSE "blocked"

\* The caller passes FALSE for sanitizedRowsReportMissing.
DetermineStagingReadiness ==
    IF \/ ~fkPassed \/ ResetFailed
       \/ \E t \in Tables :
             ~tables[t].CountMatch \/ tables[t].ChecksumStatus = "real_mismatch"
    THEN "blocked" ELSE "ready"

\* The process ends in an error, before there is a report.
Abort ==
    /\ pc' = "idle" /\ at' = 1 /\ val' = Unread /\ srcSample' = {}
    /\ fksLeft' = {} /\ held' = 0
    /\ UNCHANGED <<source, baseline, world, nextval, report, results>>

-----------------------------------------------------------------------------
\* What a migration may leave: only rows of the source, each of them once where
\* the target has a key; any foreign key that the rows allow may be missing.
Init ==
    /\ pkMap \in InitialPKMaps
    /\ source \in InitialRows /\ SourceConsistent(source)
    /\ looks \in InitialLooks
    /\ target \in [Tables -> SUBSET Keys] /\ \A t \in Tables : target[t] \subseteq source[t]
    /\ surplus \in [Tables -> 0 .. 1]
    /\ \A t \in Tables : t \in pkMap \/ target[t] = {} => surplus[t] = 0
    /\ constraints \in SUBSET {f \in Fks : ~Dangling(f, target[ChildOf[f]], target)}
    /\ nextval = [t \in Tables |-> 1]
    /\ baseline = source
    /\ pc = "idle" /\ at = 1 /\ val = Unread /\ srcSample = {}
    /\ tables = Unvalidated /\ drilldown = {} /\ fkPassed = TRUE
    /\ items = NoItems
    /\ fksLeft = {} /\ held = 0
    /\ status = None /\ gate = None
    /\ faults = 0

\* The operator runs `validate`.
Validate ==
    /\ pc = "idle" /\ pc' = "countSource"
    /\ baseline' = source
    /\ tables' = Unvalidated /\ drilldown' = {} /\ fkPassed' = TRUE /\ items' = NoItems
    /\ status' = None /\ gate' = None
    /\ UNCHANGED <<source, world, nextval, at, val, srcSample, fksLeft, held, faults>>

(* The loop over the tables *)

CountSource ==
    /\ pc = "countSource" /\ pc' = "countTarget"
    /\ val' = [val EXCEPT !.srcCount = Cardinality(source[cur])]
    /\ UNCHANGED <<source, baseline, world, nextval, at, srcSample, report, fksLeft, held,
                   results, faults>>

CountTarget ==
    /\ pc = "countTarget"
    /\ val' = [val EXCEPT !.tgtCount = Cardinality(target[cur]) + surplus[cur]]
    /\ pc' = IF cur \in pkMap THEN "sourceBounds" ELSE "record"
    /\ UNCHANGED <<source, baseline, world, nextval, at, srcSample, report, fksLeft, held,
                   results, faults>>

\* A COUNT that fails ends the validation.
CountFails ==
    /\ pc \in {"countSource", "countTarget"}
    /\ Fault("queryErr")
    /\ Abort

\* A MIN and MAX that fails leaves the bounds as empty as those of no rows.
SourceBounds ==
    /\ pc = "sourceBounds" /\ pc' = "targetBounds"
    /\ \/ /\ \E lo, hi \in Keys \cup {None} :
                /\ IsMin(lo, source[cur]) /\ IsMax(hi, source[cur])
                /\ val' = [val EXCEPT !.srcMin = lo, !.srcMax = hi]
          /\ UNCHANGED faults
       \/ Fault("queryErr") /\ UNCHANGED val
    /\ UNCHANGED <<source, baseline, world, nextval, at, srcSample, report, fksLeft, held,
                   results>>

TargetBounds ==
    /\ pc = "targetBounds"
    /\ pc' = IF val.srcCount > 0 THEN "sourceSample" ELSE "record"
    /\ \/ /\ \E lo, hi \in Keys \cup {None} :
                /\ IsMin(lo, target[cur]) /\ IsMax(hi, target[cur])
                /\ val' = [val EXCEPT !.tgtMin = lo, !.tgtMax = hi]
          /\ UNCHANGED faults
       \/ Fault("queryErr") /\ UNCHANGED val
    /\ UNCHANGED <<source, baseline, world, nextval, at, srcSample, report, fksLeft, held,
                   results>>

\* As everywhere rows.Err() is not consulted.
SourceSample ==
    /\ pc = "sourceSample" /\ pc' = "targetSample"
    /\ \/ srcSample' = FirstRows(source[cur]) /\ UNCHANGED faults
       \/ /\ Fault("readTruncated")
          /\ srcSample' \in SUBSET Keys /\ IsCutShort(srcSample', FirstRows(source[cur]))
    /\ UNCHANGED <<source, baseline, world, nextval, at, val, report, fksLeft, held, results>>

TargetSample ==
    /\ pc = "targetSample" /\ pc' = "record"
    /\ \E rows \in SUBSET Keys :
          /\ \/ rows = FirstRows(target[cur]) /\ UNCHANGED faults
             \/ Fault("readTruncated") /\ IsCutShort(rows, FirstRows(target[cur]))
          /\ val' = [val EXCEPT !.checksum = Checksum(srcSample, rows, looks[cur])]
          /\ drilldown' =
                IF /\ val'.checksum \in {"unsupported_comparison", "real_mismatch"}
                   /\ HasRealMismatch(srcSample, rows, looks[cur])
                THEN drilldown \cup {cur} ELSE drilldown
    /\ UNCHANGED <<source, baseline, world, nextval, at, srcSample, tables, fkPassed, items,
                   fksLeft, held, results>>

SampleFails ==
    /\ pc \in {"sourceSample", "targetSample"} /\ pc' = "record"
    /\ Fault("queryErr")
    /\ val' = [val EXCEPT !.checksum = "unsupported_comparison"]
    /\ UNCHANGED <<source, baseline, world, nextval, at, srcSample, report, fksLeft, held,
                   results>>

\* The turn of a loop over the tables is over.
NextTable(again, after) ==
    /\ at' = IF at < Len(TableList) THEN at + 1 ELSE 1
    /\ pc' = IF at < Len(TableList) THEN again ELSE after

RecordTable ==
    /\ pc = "record"
    /\ tables' = [tables EXCEPT ![cur] = TableResult(val)]
    /\ val' = Unread /\ srcSample' = {}
    /\ NextTable("countSource", "listFks")
    /\ UNCHANGED <<source, baseline, world, nextval, drilldown, fkPassed, items, fksLeft, held,
                   results, faults>>

(* The foreign-key audit *)

\* The list keeps its connection until its last row is read.
ListForeignKeys ==
    /\ pc = "listFks" /\ held < PoolSize
    /\ \/ fksLeft' = constraints /\ held' = held + 1 /\ pc' = "checkFk" /\ UNCHANGED faults
       \/ Fault("queryErr") /\ pc' = "sequence" /\ UNCHANGED <<fksLeft, held>>
    /\ UNCHANGED <<source, baseline, world, nextval, at, val, srcSample, report, results>>

\* Mutant of CheckForeignKey: the nested query never gives its connection back.
CheckForeignKeyLeaks ==
    /\ pc = "checkFk" /\ held < PoolSize
    /\ \E f \in fksLeft :
          /\ fksLeft' = fksLeft \ {f}
          /\ fkPassed' = (fkPassed /\ ~Dangling(f, target[ChildOf[f]], target))
    /\ held' = held + 1
    /\ UNCHANGED <<source, baseline, world, nextval, pc, at, val, srcSample, tables, drilldown,
                   items, results, faults>>

\* A second connection counts the orphans of one constraint; an error there, or
\* at the end of the list, leaves FKIntegrityPassed as it is.
CheckForeignKey ==
    /\ pc = "checkFk" /\ held < PoolSize
    /\ \E f \in fksLeft :
          \/ /\ fksLeft' = fksLeft \ {f}
             /\ fkPassed' = (fkPassed /\ ~Dangling(f, target[ChildOf[f]], target))
             /\ UNCHANGED faults
          \/ Fault("queryErr") /\ fksLeft' = fksLeft \ {f} /\ UNCHANGED fkPassed
          \/ Fault("readTruncated") /\ fksLeft' = {} /\ UNCHANGED fkPassed
    /\ UNCHANGED <<source, baseline, world, nextval, pc, at, val, srcSample, tables, drilldown,
                   items, held, results>>

ForeignKeysChecked ==
    /\ pc = "checkFk" /\ fksLeft = {}
    /\ pc' = "sequence" /\ held' = held - 1
    /\ UNCHANGED <<source, baseline, world, nextval, at, val, srcSample, report, fksLeft,
                   results, faults>>

(* ResetAndValidateSequences *)

\* Mutant of ResetSequence: setval(max, false).
ResetSequenceNotCalled ==
    /\ pc = "sequence"
    /\ \E max \in Keys \cup {None} :
          /\ IsMax(max, target[cur])
          /\ items' = [items EXCEPT ![cur] =
                IF cur \notin pkMap THEN "unsupported"
                ELSE IF cur \notin IdentityTables THEN "no_sequence" ELSE "reset_passed"]
          /\ nextval' = [nextval EXCEPT ![cur] =
                IF cur \notin pkMap \cap IdentityTables THEN @ ELSE IF max = None THEN 1 ELSE max]
    /\ NextTable("sequence", "determine")
    /\ UNCHANGED <<source, baseline, world, val, srcSample, tables, drilldown, fkPassed,
                   fksLeft, held, results, faults>>

\* SELECT MAX and setval; a negative MAX is below the sequence's MINVALUE.
ResetSequence ==
    /\ pc = "sequence"
    /\ \E max \in Keys \cup {None} :
          /\ IsMax(max, target[cur])
          /\ LET below == max # None /\ max < 0 IN
             items' = [items EXCEPT ![cur] =
                IF cur \notin pkMap THEN "unsupported"
                ELSE IF cur \notin IdentityTables THEN "no_sequence"
                ELSE IF below THEN "reset_failed" ELSE "reset_passed"]
          /\ nextval' = [nextval EXCEPT ![cur] =
                IF cur \notin pkMap \cap IdentityTables THEN @
                ELSE IF max = None THEN 1
                ELSE IF max < 0 THEN @ ELSE max + 1]
    /\ NextTable("sequence", "determine")
    /\ UNCHANGED <<source, baseline, world, val, srcSample, tables, drilldown, fkPassed,
                   fksLeft, held, results, faults>>

\* One of its queries fails: the first of them only makes the table unsupported.
ResetFails ==
    /\ pc = "sequence" /\ cur \in pkMap
    /\ Fault("queryErr")
    /\ \/ items' = [items EXCEPT ![cur] = "unsupported"]
       \/ cur \in IdentityTables /\ items' = [items EXCEPT ![cur] = "reset_failed"]
    /\ NextTable("sequence", "determine")
    /\ UNCHANGED <<source, baseline, world, nextval, val, srcSample, tables, drilldown,
                   fkPassed, fksLeft, held, results>>

\* The report is written and the process ends.
Determine ==
    /\ pc = "determine"
    /\ status' = DetermineValidationStatus
    /\ gate' = DetermineStagingReadiness
    /\ pc' = "idle"
    /\ UNCHANGED <<source, baseline, world, nextval, at, val, srcSample, report, fksLeft, held,
                   faults>>

(* The environment *)

\* Clients of the source.
SourceInsert ==
    /\ Fault("insert")
    /\ \E t \in Tables : \E k \in Keys \ source[t] :
          source' = [source EXCEPT ![t] = @ \cup {k}]
    /\ SourceConsistent(source')
    /\ UNCHANGED <<baseline, world, nextval, pc, at, val, srcSample, report, fksLeft, held,
                   results>>

Crash == pc # "idle" /\ Fault("crash") /\ Abort

-----------------------------------------------------------------------------
Process ==
    \/ Validate \/ CountSource \/ CountTarget \/ SourceBounds \/ TargetBounds
    \/ SourceSample \/ TargetSample \/ RecordTable
    \/ ListForeignKeys \/ CheckForeignKey \/ ForeignKeysChecked
    \/ ResetSequence \/ Determine

Environment == CountFails \/ SampleFails \/ ResetFails \/ SourceInsert \/ Crash

Next == Process \/ Environment

Spec == Init /\ [][Next]_vars

\* The code is sequential and every query returns.
FairSpec == Spec /\ WF_vars(Process)

-----------------------------------------------------------------------------
(* Properties.                                                             *)

\* Every variable keeps its type.
TypeOK ==
    /\ pkMap \in SUBSET Tables
    /\ source \in [Tables -> SUBSET Keys] /\ baseline \in [Tables -> SUBSET Keys]
    /\ target \in [Tables -> SUBSET Keys] /\ surplus \in [Tables -> Nat]
    /\ looks \in [Tables -> [Keys -> Looks]]
    /\ constraints \in SUBSET Fks /\ fksLeft \in SUBSET Fks
    /\ nextval \in [Tables -> Nat \ {0}]
    /\ pc \in {"idle", "countSource", "countTarget", "sourceBounds", "targetBounds",
               "sourceSample", "targetSample", "record", "listFks", "checkFk", "sequence",
               "determine"}
    /\ at \in 1 .. Len(TableList)
    /\ val \in Reading /\ srcSample \in SUBSET Keys
    /\ tables \in [Tables -> Validation] /\ drilldown \in SUBSET Tables
    /\ fkPassed \in BOOLEAN /\ held \in 0 .. PoolSize
    /\ items \in [Tables -> {"not_run", "unsupported", "no_sequence", "reset_failed",
                             "reset_passed"}]
    /\ status \in {None, "VALIDATION_FAILED", "VALIDATION_PARTIAL", "VALIDATION_PASSED"}
    /\ gate \in {None, "blocked", "ready"}
    /\ faults \in Nat

Succeeded == status \in {"VALIDATION_PARTIAL", "VALIDATION_PASSED"}

\* However little of a table is sampled, whatever queries failed unnoticed and
\* whatever clients inserted meanwhile: unless the status is VALIDATION_FAILED,
\* the tables with a key have every row the source had when validation began.
SucceededIsComplete ==
    Succeeded => \A t \in pkMap : baseline[t] \subseteq target[t]

\* The audit sees only constraints that are in place, which have no orphans, and
\* its errors count as success; still no orphan gets past the status, even where
\* the constraint is missing.
SucceededHasNoOrphans ==
    Succeeded => \A f \in Fks :
        ChildOf[f] \in pkMap /\ ParentOf[f] \in pkMap =>
            ~Dangling(f, target[ChildOf[f]], target)

\* The sampled rows are the same text on both sides.
Alike(t) == \A k \in FirstRows(target[t]) : looks[t][k] \in Same

\* VALIDATION_PASSED vouches for what it was asked to look at: the first rows of
\* every table are the same on both sides, and the sequences are past the keys.
PassedIsVerified ==
    status = "VALIDATION_PASSED" => \A t \in Tables :
        /\ Alike(t)
        /\ \A k \in target[t] : k < nextval[t]

\* The pool never runs dry under the audit: every validation ends.
EveryValidationEnds == pc # "idle" ~> pc = "idle"

\* The documentation blocks staging when real checksum mismatches exist.  The gate
\* is ready over rows that differ in one case only: the sample of their table
\* holds a value that cannot be compared, which decides the status of the table
\* before its differences are looked at.
OnlyMasked ==
    gate = "ready" =>
        \A t \in drilldown : tables[t].ChecksumStatus = "unsupported_comparison"

-----------------------------------------------------------------------------
(* The strengthening.                                                      *)

\* The migration wrote nothing into a keyed table but rows of the source, each
\* once, and the source only grows.
WorldInv ==
    /\ SourceConsistent(source) /\ SourceConsistent(baseline)
    /\ \A t \in Tables : baseline[t] \subseteq source[t] /\ target[t] \subseteq baseline[t]
    /\ \A t \in pkMap : surplus[t] = 0

\* The source is counted after the validation began.
CountInv ==
    /\ pc \in {"countTarget", "sourceBounds", "targetBounds", "sourceSample", "targetSample",
              "record"} => Cardinality(baseline[cur]) <= val.srcCount
    /\ pc \in {"sourceBounds", "targetBounds", "sourceSample", "targetSample", "record"} =>
          val.tgtCount = Cardinality(target[cur]) + surplus[cur]

\* The tables the loop has been through.
Validated(t) ==
    \/ pc \in {"listFks", "checkFk", "sequence", "determine"}
    \/ \E i \in 1 .. at - 1 : TableList[i] = t

TablesInv ==
    pc # "idle" => \A t \in pkMap :
        Validated(t) /\ tables[t].CountMatch => baseline[t] \subseteq target[t]

\* What a process holds and has decided in each phase.
PhaseInv ==
    /\ held = IF pc = "checkFk" THEN 1 ELSE 0
    /\ pc \in {"idle", "listFks", "checkFk", "determine"} => at = 1
    /\ pc # "idle" => status = None

VInv == WorldInv /\ PhaseInv /\ CountInv /\ TablesInv /\ SucceededIsComplete

SampleInv ==
    pc = "record" /\ cur \in pkMap /\ val.checksum = "passed" =>
        val.srcCount = 0 \/ Alike(cur)

ChecksumsInv ==
    pc # "idle" => \A t \in pkMap :
        Validated(t) /\ tables[t].CountMatch /\ tables[t].ChecksumStatus = "passed" => Alike(t)

ItemsInv ==
    \A t \in Tables : items[t] = "reset_passed" =>
        t \in pkMap /\ \A k \in target[t] : k < nextval[t]

\* A table enters the drilldown with a status, at hand or recorded, that says so.
MaskedInv ==
    /\ pc # "idle" => gate = None
    /\ pc # "idle" => \A t \in drilldown :
          IF pc = "record" /\ t = cur
          THEN val.checksum \in {"unsupported_comparison", "real_mismatch"}
          ELSE /\ Validated(t)
               /\ tables[t].ChecksumStatus \in {"unsupported_comparison", "real_mismatch"}
    /\ OnlyMasked

VerifiedInv == SampleInv /\ ChecksumsInv /\ ItemsInv /\ PassedIsVerified
=============================================================================
