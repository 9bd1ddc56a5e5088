--------------------------- MODULE ValidatorProofs ---------------------------
(***************************************************************************)
(* Theorems about Validator for any tables, rows, foreign keys, sample     *)
(* size and pool, and any number of faults.                                *)
(***************************************************************************)
EXTENDS Validator, FiniteSetTheorems, TLAPS

\* Every position of the list holds a table, and every table has a position.
LEMMA Positions ==
    /\ \A i \in 1 .. Len(TableList) : TableList[i] \in Tables
    /\ \A t \in Tables : \E i \in 1 .. Len(TableList) : TableList[i] = t
    /\ Len(TableList) \in Nat \ {0}
  BY ListAssumption DEF Tables

\* A set of keys can be counted.
LEMMA KeySetsAreFinite ==
    ASSUME NEW S \in SUBSET Keys
    PROVE  IsFiniteSet(S) /\ Cardinality(S) \in Nat
  BY KeysAssumption, FS_Subset, FS_CardinalityType

\* The turn of a loop stays within the list.
LEMMA NextTableStays ==
    ASSUME at \in 1 .. Len(TableList), NEW again, NEW after, NextTable(again, after)
    PROVE  /\ at' \in 1 .. Len(TableList)
           /\ \/ pc' = again /\ at' = at + 1 /\ at < Len(TableList)
              \/ pc' = after /\ at' = 1 /\ at = Len(TableList)
  BY Positions DEF NextTable

\* The checksum of two samples has one of the statuses the report knows.
LEMMA ChecksumType ==
    ASSUME NEW src, NEW tgt, NEW look
    PROVE  Checksum(src, tgt, look) \in ChecksumStatuses
  <1> DEFINE seen == {look[k] : k \in src \cup tgt}
             same == src = tgt /\ seen \subseteq Same
             unsure == seen \cap Incomparable # {}
             differ == src # tgt \/ seen \cap {"null", "altered", "different"} # {}
             cleaned == seen \cap {"sanitized", "marked"} # {}
  <1>1. Checksum(src, tgt, look) =
          IF same THEN "passed" ELSE IF unsure THEN "unsupported_comparison"
          ELSE IF differ THEN "real_mismatch"
          ELSE IF cleaned THEN "sanitized_equivalent" ELSE "normalized_equivalent"
    BY Zenon DEF Checksum
  <1> HIDE DEF same, unsure, differ, cleaned
  <1> QED
    BY <1>1 DEF ChecksumStatuses

-----------------------------------------------------------------------------
(* Types.                                                                    *)

\* The initial states are well typed.
LEMMA InitType == Init => TypeOK
  <1> SUFFICES ASSUME Init PROVE TypeOK
    OBVIOUS
  <1>1. source \in [Tables -> SUBSET Keys] /\ looks \in [Tables -> [Keys -> Looks]]
        /\ pkMap \in SUBSET Tables
    BY RowsAssumption, TablesAssumption DEF Init
  <1>2. tables \in [Tables -> Validation] /\ val \in Reading
    BY DEF Init, Unvalidated, Unread, Validation, Reading, ChecksumStatuses
  <1>3. items \in [Tables -> {"not_run", "unsupported", "no_sequence", "reset_failed",
                              "reset_passed"}]
    BY DEF Init, NoItems
  <1> QED
    BY <1>1, <1>2, <1>3, Positions, SizesAssumption DEF Init, TypeOK

\* Ending in an error keeps the types.
LEMMA AbortType ==
    ASSUME TypeOK, Abort, faults' \in Nat
    PROVE  TypeOK'
  <1>1. val' \in Reading
    BY DEF Abort, Unread, Reading, ChecksumStatuses
  <1> QED
    BY <1>1, Positions, SizesAssumption DEF Abort, TypeOK, world, report, results

\* Every step keeps the types.
LEMMA StepType == TypeOK /\ PhaseInv /\ [Next]_vars => TypeOK'
  <1> SUFFICES ASSUME TypeOK, PhaseInv, [Next]_vars PROVE TypeOK'
    OBVIOUS
  <1> USE DEF world, report, results
  <1>c. cur \in Tables /\ at \in 1 .. Len(TableList)
    BY Positions DEF TypeOK, cur
  <1>n. /\ Cardinality(source[cur]) \in Nat
        /\ Cardinality(target[cur]) + surplus[cur] \in Nat
    <2>1. source[cur] \in SUBSET Keys /\ target[cur] \in SUBSET Keys /\ surplus[cur] \in Nat
      BY <1>c DEF TypeOK
    <2>2. Cardinality(source[cur]) \in Nat /\ Cardinality(target[cur]) \in Nat
      BY <2>1, KeySetsAreFinite
    <2> QED
      BY <2>1, <2>2
  <1>f. \A f : Fault(f) => faults' \in Nat
    BY DEF Fault, TypeOK
  <1>1. CASE Validate
    <2>1. tables' \in [Tables -> Validation]
      BY <1>1 DEF Validate, Unvalidated, Validation, ChecksumStatuses
    <2>2. items' \in [Tables -> {"not_run", "unsupported", "no_sequence", "reset_failed",
                                 "reset_passed"}]
      BY <1>1 DEF Validate, NoItems
    <2> QED
      BY <1>1, <2>1, <2>2 DEF Validate, TypeOK
  <1>2. CASE CountSource
    <2>1. val' \in Reading
      BY <1>2, <1>n DEF CountSource, TypeOK, Reading
    <2> QED
      BY <1>2, <2>1 DEF CountSource, TypeOK
  <1>3. CASE CountTarget
    <2>1. val' \in Reading
      BY <1>3, <1>n DEF CountTarget, TypeOK, Reading
    <2> QED
      BY <1>3, <2>1 DEF CountTarget, TypeOK
  <1>4. CASE SourceBounds
    <2>1. val' \in Reading
      BY <1>4 DEF SourceBounds, TypeOK, Reading
    <2> QED
      BY <1>4, <1>f, <2>1 DEF SourceBounds, TypeOK
  <1>5. CASE TargetBounds
    <2>1. val' \in Reading
      BY <1>5 DEF TargetBounds, TypeOK, Reading
    <2> QED
      BY <1>5, <1>f, <2>1 DEF TargetBounds, TypeOK
  <1>6. CASE SourceSample
    <2>1. srcSample' \in SUBSET Keys
      BY <1>6, <1>c DEF SourceSample, FirstRows, TypeOK
    <2> QED
      BY <1>6, <1>f, <2>1 DEF SourceSample, TypeOK
  <1>7. CASE TargetSample
    <2>1. PICK rows \in SUBSET Keys :
             val' = [val EXCEPT !.checksum = Checksum(srcSample, rows, looks[cur])]
      BY <1>7, Zenon DEF TargetSample
    <2>2. Checksum(srcSample, rows, looks[cur]) \in ChecksumStatuses
      BY ChecksumType
    <2>3. val' \in Reading
      BY <2>1, <2>2 DEF TypeOK, Reading
    <2>4. faults' \in Nat /\ drilldown' \in SUBSET Tables
      BY <1>7, <1>f, <1>c DEF TargetSample, TypeOK
    <2> QED
      BY <1>7, <2>3, <2>4 DEF TargetSample, TypeOK
  <1>8. CASE RecordTable
    <2>1. TableResult(val) \in Validation
      BY DEF TableResult, TypeOK, Reading, Validation
    <2>2. val' \in Reading /\ tables' \in [Tables -> Validation]
      BY <1>8, <2>1 DEF RecordTable, Unread, Reading, ChecksumStatuses, TypeOK
    <2>3. at' \in 1 .. Len(TableList) /\ pc' \in {"countSource", "listFks"}
      BY <1>8, <1>c, NextTableStays DEF RecordTable
    <2> QED
      BY <1>8, <2>2, <2>3 DEF RecordTable, TypeOK
  <1>9. CASE ListForeignKeys
    BY <1>9, <1>f, SizesAssumption DEF ListForeignKeys, TypeOK
  <1>10. CASE CheckForeignKey
    <2>1. faults' \in Nat /\ fksLeft' \in SUBSET Fks /\ fkPassed' \in BOOLEAN
      BY <1>10, <1>f DEF CheckForeignKey, TypeOK
    <2> QED
      BY <1>10, <2>1 DEF CheckForeignKey, TypeOK
  <1>11. CASE ForeignKeysChecked
    BY <1>11, SizesAssumption DEF ForeignKeysChecked, TypeOK, PhaseInv
  <1>12. CASE ResetSequence
    <2>1. nextval' \in [Tables -> Nat \ {0}]
      <3>1. PICK max \in Keys \cup {None} :
               nextval' = [nextval EXCEPT ![cur] =
                  IF cur \notin pkMap \cap IdentityTables THEN @
                  ELSE IF max = None THEN 1
                  ELSE IF max < 0 THEN @ ELSE max + 1]
        BY <1>12 DEF ResetSequence
      <3>2. max # None => max \in Int
        BY KeysAssumption
      <3> QED
        BY <1>c, <3>1, <3>2 DEF TypeOK
    <2>2. items' \in [Tables -> {"not_run", "unsupported", "no_sequence", "reset_failed",
                                 "reset_passed"}]
      BY <1>12 DEF ResetSequence, TypeOK
    <2>3. at' \in 1 .. Len(TableList) /\ pc' \in {"sequence", "determine"}
      BY <1>12, <1>c, NextTableStays DEF ResetSequence
    <2> QED
      BY <1>12, <2>1, <2>2, <2>3 DEF ResetSequence, TypeOK
  <1>13. CASE Determine
    BY <1>13 DEF Determine, DetermineValidationStatus, DetermineStagingReadiness, TypeOK
  <1>14. CASE CountFails
    BY <1>14, <1>f, AbortType DEF CountFails
  <1>15. CASE SampleFails
    <2>1. val' \in Reading
      BY <1>15 DEF SampleFails, TypeOK, Reading, ChecksumStatuses
    <2> QED
      BY <1>15, <1>f, <2>1 DEF SampleFails, TypeOK
  <1>16. CASE ResetFails
    <2>1. items' \in [Tables -> {"not_run", "unsupported", "no_sequence", "reset_failed",
                                 "reset_passed"}]
      BY <1>16 DEF ResetFails, TypeOK
    <2>2. at' \in 1 .. Len(TableList) /\ pc' \in {"sequence", "determine"}
      BY <1>16, <1>c, NextTableStays DEF ResetFails
    <2> QED
      BY <1>16, <1>f, <2>1, <2>2 DEF ResetFails, TypeOK
  <1>17. CASE SourceInsert
    <2>1. source' \in [Tables -> SUBSET Keys]
      BY <1>17 DEF SourceInsert, TypeOK
    <2> QED
      BY <1>17, <1>f, <2>1 DEF SourceInsert, TypeOK
  <1>18. CASE Crash
    BY <1>18, <1>f, AbortType DEF Crash
  <1>19. CASE UNCHANGED vars
    BY <1>19 DEF vars, TypeOK
  <1> QED
    BY <1>1, <1>2, <1>3, <1>4, <1>5, <1>6, <1>7, <1>8, <1>9, <1>10, <1>11, <1>12, <1>13,
       <1>14, <1>15, <1>16, <1>17, <1>18, <1>19 DEF Next, Process, Environment

-----------------------------------------------------------------------------
(* Invariants.                                                               *)

\* All the steps there are, for proofs that look at few of them.
LEMMA StepForm ==
    ASSUME [Next]_vars
    PROVE  \/ Validate \/ CountSource \/ CountTarget \/ SourceBounds \/ TargetBounds
           \/ SourceSample \/ TargetSample \/ RecordTable \/ ListForeignKeys
           \/ CheckForeignKey \/ ForeignKeysChecked \/ ResetSequence \/ Determine
           \/ CountFails \/ SampleFails \/ ResetFails \/ SourceInsert \/ Crash
           \/ UNCHANGED vars
  BY DEF Next, Process, Environment

\* Only clients write to the source and nobody to the target; the history of the
\* source is taken when the validation begins.
LEMMA StepWorld ==
    ASSUME [Next]_vars
    PROVE  /\ UNCHANGED world
           /\ Validate \/ baseline' = baseline
           /\ SourceInsert \/ source' = source
  BY StepForm DEF Validate, CountSource, CountTarget, SourceBounds, TargetBounds, SourceSample,
     TargetSample, RecordTable, ListForeignKeys, CheckForeignKey, ForeignKeysChecked,
     ResetSequence, Determine, CountFails, SampleFails, ResetFails, SourceInsert, Crash, Abort,
     vars, world

\* The initial states satisfy the invariant.
LEMMA InitInv == Init => VInv
  <1> SUFFICES ASSUME Init PROVE VInv
    OBVIOUS
  <1>1. WorldInv
    BY TablesAssumption DEF Init, WorldInv
  <1>2. SucceededIsComplete
    BY NoneAssumption DEF Init, SucceededIsComplete, Succeeded
  <1> QED
    BY <1>1, <1>2 DEF Init, VInv, PhaseInv, CountInv, TablesInv

\* Every step keeps the invariant about the databases.
LEMMA StepWorldInv ==
    ASSUME TypeOK, WorldInv, [Next]_vars
    PROVE  WorldInv'
  <1>1. CASE Validate
    BY <1>1 DEF Validate, WorldInv, SourceConsistent, Dangling, world
  <1>2. CASE SourceInsert
    <2>1. PICK t \in Tables, k \in Keys : source' = [source EXCEPT ![t] = @ \cup {k}]
      BY <1>2 DEF SourceInsert
    <2>2. \A u \in Tables : source[u] \subseteq source'[u]
      BY <2>1 DEF TypeOK
    <2> QED
      BY <1>2, <2>2 DEF SourceInsert, WorldInv, SourceConsistent, Dangling, world
  <1>3. CASE ~Validate /\ ~SourceInsert
    BY <1>3, StepWorld DEF WorldInv, SourceConsistent, Dangling, world
  <1> QED
    BY <1>1, <1>2, <1>3

\* Every step keeps what the phases promise.
LEMMA StepPhaseInv ==
    ASSUME TypeOK, PhaseInv, [Next]_vars
    PROVE  PhaseInv'
  <1> USE DEF world, report, results
  <1>c. at \in 1 .. Len(TableList)
    BY DEF TypeOK
  <1>1. CASE RecordTable
    BY <1>1, <1>c, NextTableStays DEF RecordTable, PhaseInv
  <1>2. CASE ResetSequence
    BY <1>2, <1>c, NextTableStays DEF ResetSequence, PhaseInv
  <1>3. CASE ResetFails
    BY <1>3, <1>c, NextTableStays DEF ResetFails, PhaseInv
  <1>4. CASE CountFails \/ Crash
    BY <1>4 DEF CountFails, Crash, Abort, PhaseInv
  <1>5. CASE ListForeignKeys \/ CheckForeignKey \/ ForeignKeysChecked
    BY <1>5 DEF ListForeignKeys, CheckForeignKey, ForeignKeysChecked, PhaseInv
  <1>6. CASE Validate \/ Determine \/ SourceInsert \/ UNCHANGED vars
    BY <1>6 DEF Validate, Determine, SourceInsert, vars, PhaseInv
  <1>7. CASE CountSource \/ CountTarget \/ SourceBounds \/ TargetBounds
             \/ SourceSample \/ TargetSample \/ SampleFails
    BY <1>7 DEF CountSource, CountTarget, SourceBounds, TargetBounds, SourceSample,
       TargetSample, SampleFails, PhaseInv
  <1> QED
    BY <1>1, <1>2, <1>3, <1>4, <1>5, <1>6, <1>7, StepForm

\* Every step keeps what has been counted.
LEMMA StepCountInv ==
    ASSUME TypeOK, WorldInv, CountInv, [Next]_vars
    PROVE  CountInv'
  <1> USE DEF world, report, results
  <1>c. cur \in Tables /\ at \in 1 .. Len(TableList)
    BY Positions DEF TypeOK, cur
  <1>1. CASE CountSource
    <2>1. baseline[cur] \subseteq source[cur] /\ IsFiniteSet(source[cur])
      BY <1>c, KeySetsAreFinite DEF WorldInv, TypeOK
    <2>2. Cardinality(baseline[cur]) <= Cardinality(source[cur])
      BY <2>1, FS_Subset
    <2> QED
      BY <1>1, <2>2 DEF CountSource, CountInv, cur, TypeOK, Reading
  <1>2. CASE CountTarget
    BY <1>2 DEF CountTarget, CountInv, cur, TypeOK, Reading
  <1>3. CASE SourceBounds \/ TargetBounds \/ SourceSample \/ SampleFails
    BY <1>3 DEF SourceBounds, TargetBounds, SourceSample, SampleFails, CountInv, cur, TypeOK,
       Reading
  <1>4. CASE TargetSample
    <2>1. val'.srcCount = val.srcCount /\ val'.tgtCount = val.tgtCount
      BY <1>4, Zenon DEF TargetSample, TypeOK, Reading
    <2> QED
      BY <1>4, <2>1 DEF TargetSample, CountInv, cur
  <1>5. CASE RecordTable
    BY <1>5, <1>c, NextTableStays DEF RecordTable, CountInv
  <1>6. CASE ResetSequence
    BY <1>6, <1>c, NextTableStays DEF ResetSequence, CountInv
  <1>7. CASE ResetFails
    BY <1>7, <1>c, NextTableStays DEF ResetFails, CountInv
  <1>8. CASE CountFails \/ Crash
    BY <1>8 DEF CountFails, Crash, Abort, CountInv
  <1>9. CASE Validate \/ ListForeignKeys \/ CheckForeignKey \/ ForeignKeysChecked \/ Determine
    BY <1>9 DEF Validate, ListForeignKeys, CheckForeignKey, ForeignKeysChecked, Determine,
       CountInv
  <1>10. CASE SourceInsert \/ UNCHANGED vars
    BY <1>10 DEF SourceInsert, vars, CountInv, cur
  <1> QED
    BY <1>1, <1>2, <1>3, <1>4, <1>5, <1>6, <1>7, <1>8, <1>9, <1>10, StepForm

\* A table whose counts agree when its turn ends has all the rows.
LEMMA CountsAgree ==
    ASSUME TypeOK, WorldInv, CountInv, pc = "record", cur \in pkMap, val.srcCount = val.tgtCount
    PROVE  baseline[cur] = target[cur]
  <1>1. /\ target[cur] \subseteq baseline[cur] /\ surplus[cur] = 0
        /\ IsFiniteSet(baseline[cur]) /\ IsFiniteSet(target[cur])
        /\ Cardinality(baseline[cur]) \in Nat /\ Cardinality(target[cur]) \in Nat
    <2>1. cur \in Tables /\ baseline[cur] \in SUBSET Keys /\ target[cur] \in SUBSET Keys
      BY DEF TypeOK
    <2> QED
      BY <2>1, KeySetsAreFinite DEF WorldInv
  <1>2. Cardinality(baseline[cur]) <= Cardinality(target[cur])
    BY <1>1 DEF CountInv
  <1>3. Cardinality(target[cur]) <= Cardinality(baseline[cur])
        /\ (Cardinality(target[cur]) = Cardinality(baseline[cur]) => target[cur] = baseline[cur])
    BY <1>1, FS_Subset
  <1> QED
    BY <1>1, <1>2, <1>3

\* The turns that are over after RecordTable: those before, and this one.
LEMMA RecordValidates ==
    ASSUME TypeOK, RecordTable, NEW t \in Tables, Validated(t)'
    PROVE  Validated(t) \/ t = cur
  <1>c. at \in 1 .. Len(TableList) /\ pc = "record" /\ Len(TableList) \in Nat
    BY Positions DEF TypeOK, RecordTable
  <1>1. CASE pc' = "countSource" /\ at' = at + 1
    <2>1. PICK i \in 1 .. at' - 1 : TableList[i] = t
      BY <1>1 DEF Validated
    <2>2. i \in 1 .. at - 1 \/ i = at
      BY <1>1, <1>c, <2>1
    <2> QED
      BY <2>1, <2>2 DEF Validated, cur
  <1>2. CASE at = Len(TableList)
    <2>1. PICK i \in 1 .. Len(TableList) : TableList[i] = t
      BY Positions
    <2>2. i \in 1 .. at - 1 \/ i = at
      BY <1>2, <1>c, <2>1
    <2> QED
      BY <2>1, <2>2 DEF Validated, cur
  <1> QED
    BY <1>1, <1>2, <1>c, NextTableStays DEF RecordTable

\* Outside RecordTable and the beginning nothing counts as validated that did not.
LEMMA ValidatedStays ==
    ASSUME TypeOK, [Next]_vars, ~RecordTable, ~Validate, pc' # "idle", NEW t \in Tables
    PROVE  /\ pc # "idle"
           /\ Validated(t)' => Validated(t)
           /\ tables' = tables
  <1> USE DEF world, report, results
  <1>c. at \in 1 .. Len(TableList)
    BY DEF TypeOK
  <1>1. CASE ResetSequence
    BY <1>1, <1>c, NextTableStays DEF ResetSequence, Validated
  <1>2. CASE ResetFails
    BY <1>2, <1>c, NextTableStays DEF ResetFails, Validated
  <1>3. CASE CountFails \/ Crash \/ Determine
    BY <1>3 DEF CountFails, Crash, Abort, Determine
  <1>4. CASE ListForeignKeys \/ CheckForeignKey \/ ForeignKeysChecked
    BY <1>4 DEF ListForeignKeys, CheckForeignKey, ForeignKeysChecked, Validated
  <1>5. CASE SourceInsert \/ UNCHANGED vars
    BY <1>5 DEF SourceInsert, vars, Validated
  <1>6. CASE CountSource \/ CountTarget \/ SourceBounds \/ TargetBounds
             \/ SourceSample \/ TargetSample \/ SampleFails
    BY <1>6 DEF CountSource, CountTarget, SourceBounds, TargetBounds, SourceSample,
       TargetSample, SampleFails, Validated
  <1> QED
    BY <1>1, <1>2, <1>3, <1>4, <1>5, <1>6, StepForm

\* When a validation begins no table has been through the loop.
LEMMA NoneValidated ==
    ASSUME PhaseInv, Validate, NEW t \in Tables
    PROVE  ~Validated(t)'
  BY DEF PhaseInv, Validate, Validated

\* Every step keeps what the counts of the validated tables say.
LEMMA StepTablesInv ==
    ASSUME TypeOK, WorldInv, PhaseInv, CountInv, TablesInv, [Next]_vars
    PROVE  TablesInv'
  <1>1. CASE RecordTable
    <2> SUFFICES ASSUME NEW t \in pkMap', Validated(t)', tables'[t].CountMatch
                 PROVE  baseline'[t] \subseteq target'[t]
      BY DEF TablesInv
    <2>1. t \in Tables /\ t \in pkMap /\ pc = "record" /\ UNCHANGED <<baseline, target>>
      BY <1>1 DEF RecordTable, TypeOK, world
    <2>2. CASE t = cur
      <3>1. val.srcCount = val.tgtCount
        BY <1>1, <2>1, <2>2 DEF RecordTable, TableResult, TypeOK
      <3> QED
        BY <2>1, <2>2, <3>1, CountsAgree
    <2>3. CASE t # cur
      <3>1. Validated(t)
        BY <1>1, <2>1, <2>3, RecordValidates
      <3>2. tables'[t] = tables[t]
        BY <1>1, <2>1, <2>3 DEF RecordTable, TypeOK
      <3> QED
        BY <2>1, <3>1, <3>2 DEF TablesInv
    <2> QED
      BY <2>2, <2>3
  <1>2. CASE Validate
    <2>1. pkMap' \subseteq Tables
      BY <1>2 DEF Validate, TypeOK, world
    <2> QED
      BY <1>2, <2>1, NoneValidated DEF TablesInv
  <1>3. CASE ~RecordTable /\ ~Validate
    <2>1. pkMap \subseteq Tables
      BY DEF TypeOK
    <2> QED
      BY <1>3, <2>1, ValidatedStays, StepWorld DEF TablesInv, world
  <1> QED
    BY <1>1, <1>2, <1>3

\* A status that is not VALIDATION_FAILED is only given to matching counts.
LEMMA StatusChecksCounts ==
    ASSUME Determine, status' # "VALIDATION_FAILED", NEW t \in Tables
    PROVE  tables[t].CountMatch
  BY DEF Determine, DetermineValidationStatus

\* The status changes when a validation begins and when it ends.
LEMMA StatusStays ==
    ASSUME [Next]_vars
    PROVE  status' = status \/ Determine \/ (Validate /\ status' = None)
  BY StepForm DEF Validate, CountSource, CountTarget, SourceBounds, TargetBounds, SourceSample,
     TargetSample, RecordTable, ListForeignKeys, CheckForeignKey, ForeignKeysChecked,
     ResetSequence, CountFails, SampleFails, ResetFails, SourceInsert, Crash, Abort,
     vars, results

\* Every step keeps the promise of the status.
LEMMA StepSucceeded ==
    ASSUME TypeOK, WorldInv, TablesInv, SucceededIsComplete, [Next]_vars
    PROVE  SucceededIsComplete'
  <1>1. CASE Determine
    <2> SUFFICES ASSUME Succeeded', NEW t \in pkMap' PROVE baseline'[t] \subseteq target'[t]
      BY DEF SucceededIsComplete
    <2>1. pc = "determine" /\ t \in pkMap /\ t \in Tables /\ UNCHANGED <<baseline, target>>
      BY <1>1 DEF Determine, TypeOK, world
    <2>2. tables[t].CountMatch
      BY <1>1, <2>1, StatusChecksCounts DEF Succeeded
    <2> QED
      BY <2>1, <2>2 DEF TablesInv, Validated
  <1>2. CASE Validate /\ status' = None
    BY <1>2, NoneAssumption DEF SucceededIsComplete, Succeeded
  <1>3. CASE status' = status /\ ~Validate
    BY <1>3, StepWorld DEF SucceededIsComplete, Succeeded, world
  <1>4. Validate => status' = None
    BY DEF Validate
  <1> QED
    BY <1>1, <1>2, <1>3, <1>4, StatusStays

\* What the process holds, has counted and has recorded is so in every state.
THEOREM ValidatorInvariant == Spec => [](TypeOK /\ VInv)
  <1>1. Init => TypeOK /\ VInv
    BY InitType, InitInv
  <1>2. TypeOK /\ VInv /\ [Next]_vars => (TypeOK /\ VInv)'
    BY StepType, StepWorldInv, StepPhaseInv, StepCountInv, StepTablesInv, StepSucceeded DEF VInv
  <1> QED
    BY <1>1, <1>2, PTL DEF Spec

\* Every variable of the validator keeps its type, whatever the faults.
THEOREM ValidationTypeCorrect == Spec => []TypeOK
  BY ValidatorInvariant, PTL

\* A status that is not VALIDATION_FAILED vouches for every row of every table
\* with a planned key, whatever sample was compared and whatever failed.
THEOREM SuccessMeansComplete == Spec => []SucceededIsComplete
  <1>1. VInv => SucceededIsComplete
    BY DEF VInv
  <1> QED
    BY <1>1, ValidatorInvariant, PTL

\* Such a status also means that no foreign key between those tables dangles,
\* although the audit counts no orphans of constraints that are missing.
THEOREM SuccessMeansNoOrphans == Spec => []SucceededHasNoOrphans
  <1>1. TypeOK /\ VInv => SucceededHasNoOrphans
    <2> SUFFICES ASSUME TypeOK, VInv, Succeeded, NEW f \in Fks,
                        ChildOf[f] \in pkMap, ParentOf[f] \in pkMap
                 PROVE  ~Dangling(f, target[ChildOf[f]], target)
      BY DEF SucceededHasNoOrphans
    <2>1. target[ChildOf[f]] \subseteq baseline[ChildOf[f]]
      BY FksAssumption DEF VInv, WorldInv
    <2>2. baseline[ParentOf[f]] \subseteq target[ParentOf[f]]
      BY DEF VInv, SucceededIsComplete
    <2>3. ~Dangling(f, baseline[ChildOf[f]], baseline)
      BY DEF VInv, WorldInv, SourceConsistent
    <2> QED
      BY <2>1, <2>2, <2>3 DEF Dangling
  <1> QED
    BY <1>1, ValidatorInvariant, PTL

-----------------------------------------------------------------------------
(* What VALIDATION_PASSED vouches for, if no result is cut short.            *)

\* The samples do not change.
LEMMA AlikeStays == ASSUME [Next]_vars, NEW t PROVE Alike(t)' <=> Alike(t)
  BY StepWorld DEF Alike, FirstRows, world

\* A checksum that passed compared rows with the same text.
LEMMA PassedChecksum ==
    ASSUME NEW src, NEW tgt, NEW look, Checksum(src, tgt, look) = "passed"
    PROVE  \A k \in tgt : look[k] \in Same
  <1> DEFINE seen == {look[k] : k \in src \cup tgt}
             same == src = tgt /\ seen \subseteq Same
             unsure == seen \cap Incomparable # {}
             differ == src # tgt \/ seen \cap {"null", "altered", "different"} # {}
             cleaned == seen \cap {"sanitized", "marked"} # {}
  <1>1. Checksum(src, tgt, look) =
          IF same THEN "passed" ELSE IF unsure THEN "unsupported_comparison"
          ELSE IF differ THEN "real_mismatch"
          ELSE IF cleaned THEN "sanitized_equivalent" ELSE "normalized_equivalent"
    BY Zenon DEF Checksum
  <1>2. same
    <2> HIDE DEF same, unsure, differ, cleaned
    <2> QED
      BY <1>1
  <1> QED
    BY <1>2

\* The initial states satisfy it.
LEMMA InitVerified == Init => VerifiedInv
  <1> SUFFICES ASSUME Init PROVE VerifiedInv
    OBVIOUS
  <1>1. ItemsInv
    BY DEF Init, NoItems, ItemsInv
  <1>2. PassedIsVerified
    BY NoneAssumption DEF Init, PassedIsVerified
  <1> QED
    BY <1>1, <1>2 DEF Init, VerifiedInv, SampleInv, ChecksumsInv

\* Every step keeps what the sample at hand says.
LEMMA StepSampleInv ==
    ASSUME "readTruncated" \notin Faults, TypeOK, SampleInv, [Next]_vars
    PROVE  SampleInv'
  <1> USE DEF world, report, results
  <1>c. at \in 1 .. Len(TableList)
    BY DEF TypeOK
  <1>1. CASE TargetSample
    <2>1. PICK rows \in SUBSET Keys :
             /\ rows = FirstRows(target[cur]) \/ Fault("readTruncated")
             /\ val' = [val EXCEPT !.checksum = Checksum(srcSample, rows, looks[cur])]
      BY <1>1, Zenon DEF TargetSample
    <2>2. rows = FirstRows(target[cur])
      BY <2>1 DEF Fault
    <2>3. val'.checksum = Checksum(srcSample, rows, looks[cur])
      BY <2>1 DEF TypeOK, Reading
    <2>4. val'.checksum = "passed" => Alike(cur)
      <3> SUFFICES ASSUME Checksum(srcSample, rows, looks[cur]) = "passed" PROVE Alike(cur)
        BY <2>3
      <3>1. \A k \in rows : looks[cur][k] \in Same
        BY PassedChecksum, Zenon
      <3> QED
        BY <2>2, <3>1 DEF Alike
    <2>5. cur' = cur
      BY <1>1 DEF TargetSample, cur
    <2> QED
      BY <2>4, <2>5, StepWorld DEF SampleInv, Alike, FirstRows
  <1>2. CASE TargetBounds
    <2>1. val'.srcCount = val.srcCount /\ val.srcCount \in Nat
      BY <1>2 DEF TargetBounds, TypeOK, Reading
    <2>2. pc' = "record" => ~(val.srcCount > 0)
      BY <1>2 DEF TargetBounds
    <2>3. pc' = "record" => val'.srcCount = 0
      BY <2>1, <2>2
    <2> QED
      BY <2>3 DEF SampleInv
  <1>3. CASE SampleFails
    <2>1. val'.checksum # "passed"
      BY <1>3 DEF SampleFails, TypeOK, Reading
    <2> QED
      BY <2>1 DEF SampleInv
  <1>4. CASE CountTarget
    BY <1>4 DEF CountTarget, SampleInv, cur
  <1>5. CASE Validate \/ CountSource \/ SourceBounds \/ SourceSample \/ ListForeignKeys
             \/ CheckForeignKey \/ ForeignKeysChecked \/ Determine \/ CountFails \/ Crash
    BY <1>5 DEF Validate, CountSource, SourceBounds, SourceSample, ListForeignKeys,
       CheckForeignKey, ForeignKeysChecked, Determine, CountFails, Crash, Abort, SampleInv
  <1>6. CASE RecordTable
    BY <1>6, <1>c, NextTableStays DEF RecordTable, SampleInv
  <1>7. CASE ResetSequence
    BY <1>7, <1>c, NextTableStays DEF ResetSequence, SampleInv
  <1>8. CASE ResetFails
    BY <1>8, <1>c, NextTableStays DEF ResetFails, SampleInv
  <1>9. CASE SourceInsert \/ UNCHANGED vars
    BY <1>9 DEF SourceInsert, vars, SampleInv, Alike, FirstRows, cur
  <1> QED
    BY <1>1, <1>2, <1>3, <1>4, <1>5, <1>6, <1>7, <1>8, <1>9, StepForm

\* Every step keeps what the recorded checksums say.
LEMMA StepChecksumsInv ==
    ASSUME TypeOK, WorldInv, PhaseInv, CountInv, SampleInv, ChecksumsInv, [Next]_vars
    PROVE  ChecksumsInv'
  <1>1. CASE RecordTable
    <2> SUFFICES ASSUME NEW t \in pkMap', Validated(t)', tables'[t].CountMatch,
                        tables'[t].ChecksumStatus = "passed"
                 PROVE  Alike(t)
      BY AlikeStays DEF ChecksumsInv
    <2>1. t \in Tables /\ t \in pkMap /\ pc = "record"
      BY <1>1 DEF RecordTable, TypeOK, world
    <2>2. CASE t = cur
      <3>1. val.srcCount = val.tgtCount /\ val.checksum = "passed"
        BY <1>1, <2>1, <2>2 DEF RecordTable, TableResult, TypeOK
      <3>2. CASE val.srcCount = 0
        <4>1. target[cur] = baseline[cur]
          BY <2>1, <2>2, <3>1, CountsAgree
        <4>2. Cardinality(target[cur]) = 0 /\ IsFiniteSet(target[cur])
          <5>1. target[cur] \in SUBSET Keys /\ surplus[cur] = 0
            BY <2>1, <2>2 DEF TypeOK, WorldInv
          <5>2. IsFiniteSet(target[cur]) /\ Cardinality(target[cur]) \in Nat
            BY <5>1, KeySetsAreFinite
          <5> QED
            BY <2>1, <3>1, <3>2, <5>1, <5>2 DEF CountInv
        <4>3. target[cur] = {}
          BY <4>2, FS_EmptySet
        <4> QED
          BY <2>2, <4>3 DEF Alike, FirstRows
      <3>3. CASE val.srcCount # 0
        BY <2>1, <2>2, <3>1, <3>3 DEF SampleInv
      <3> QED
        BY <3>2, <3>3
    <2>3. CASE t # cur
      <3>1. Validated(t)
        BY <1>1, <2>1, <2>3, RecordValidates
      <3>2. tables'[t] = tables[t]
        BY <1>1, <2>1, <2>3 DEF RecordTable, TypeOK
      <3> QED
        BY <2>1, <3>1, <3>2 DEF ChecksumsInv
    <2> QED
      BY <2>2, <2>3
  <1>2. CASE Validate
    <2>1. pkMap' \subseteq Tables
      BY <1>2 DEF Validate, TypeOK, world
    <2> QED
      BY <1>2, <2>1, NoneValidated DEF ChecksumsInv
  <1>3. CASE ~RecordTable /\ ~Validate
    <2>1. pkMap' = pkMap /\ pkMap \subseteq Tables
      BY StepWorld DEF TypeOK, world
    <2> SUFFICES ASSUME pc' # "idle", NEW t \in pkMap, Validated(t)', tables'[t].CountMatch,
                        tables'[t].ChecksumStatus = "passed"
                 PROVE  Alike(t)
      BY <2>1, AlikeStays DEF ChecksumsInv
    <2> QED
      BY <1>3, <2>1, ValidatedStays DEF ChecksumsInv
  <1> QED
    BY <1>1, <1>2, <1>3

\* Every step keeps what the items of the sequence report say.
LEMMA StepItemsInv ==
    ASSUME TypeOK, ItemsInv, [Next]_vars
    PROVE  ItemsInv'
  <1>c. cur \in Tables
    BY Positions DEF TypeOK, cur
  <1>1. CASE ResetSequence
    <2>1. PICK max \in Keys \cup {None} :
             /\ IsMax(max, target[cur])
             /\ LET below == max # None /\ max < 0 IN
                items' = [items EXCEPT ![cur] =
                   IF cur \notin pkMap THEN "unsupported"
                   ELSE IF cur \notin IdentityTables THEN "no_sequence"
                   ELSE IF below THEN "reset_failed" ELSE "reset_passed"]
             /\ nextval' = [nextval EXCEPT ![cur] =
                   IF cur \notin pkMap \cap IdentityTables THEN @
                   ELSE IF max = None THEN 1
                   ELSE IF max < 0 THEN @ ELSE max + 1]
      BY <1>1 DEF ResetSequence
    <2>2. max # None => max \in Int
      BY KeysAssumption
    <2>3. target[cur] \subseteq Int /\ target[cur] \subseteq Keys
      BY <1>c, KeysAssumption DEF TypeOK
    <2>4. ASSUME items'[cur] = "reset_passed"
          PROVE  cur \in pkMap /\ \A k \in target[cur] : k < nextval'[cur]
      <3>1. cur \in pkMap /\ cur \in IdentityTables /\ (max = None \/ ~(max < 0))
        BY <1>c, <2>1, <2>4 DEF TypeOK
      <3>2. CASE max = None
        BY <2>1, <2>3, <3>1, <3>2, KeysAssumption DEF IsMax
      <3>3. CASE max # None
        <4>1. nextval'[cur] = max + 1
          BY <1>c, <2>1, <2>2, <3>1, <3>3 DEF TypeOK
        <4>2. \A k \in target[cur] : k <= max
          BY <2>1, <3>3 DEF IsMax
        <4> QED
          BY <2>2, <2>3, <3>1, <3>3, <4>1, <4>2
      <3> QED
        BY <3>2, <3>3
    <2>5. \A t \in Tables : t # cur => items'[t] = items[t] /\ nextval'[t] = nextval[t]
      BY <2>1 DEF TypeOK
    <2> QED
      BY <2>4, <2>5, StepWorld DEF ItemsInv, world
  <1>2. CASE ResetFails
    <2>1. \A t \in Tables : items'[t] = "reset_passed" => items[t] = "reset_passed"
      BY <1>2 DEF ResetFails, TypeOK
    <2> QED
      BY <1>2, <2>1, StepWorld DEF ResetFails, ItemsInv, world
  <1>3. CASE Validate
    BY <1>3 DEF Validate, NoItems, ItemsInv
  <1>4. CASE ~ResetSequence /\ ~ResetFails /\ ~Validate
    <2>1. UNCHANGED <<items, nextval>>
      BY <1>4, StepForm DEF CountSource, CountTarget, SourceBounds, TargetBounds, SourceSample,
         TargetSample, RecordTable, ListForeignKeys, CheckForeignKey, ForeignKeysChecked,
         Determine, CountFails, SampleFails, SourceInsert, Crash, Abort, vars, report
    <2> QED
      BY <2>1, StepWorld DEF ItemsInv, world
  <1> QED
    BY <1>1, <1>2, <1>3, <1>4

\* The sequences move only while no status has been given.
LEMMA NextvalStays ==
    ASSUME PhaseInv, [Next]_vars, nextval' # nextval
    PROVE  status = None /\ status' = None
  BY StepForm DEF PhaseInv, Validate, CountSource, CountTarget, SourceBounds, TargetBounds,
     SourceSample, TargetSample, RecordTable, ListForeignKeys, CheckForeignKey,
     ForeignKeysChecked, ResetSequence, Determine, CountFails, SampleFails, ResetFails,
     SourceInsert, Crash, Abort, vars, results

\* Every step keeps the promise of VALIDATION_PASSED.
LEMMA StepPassed ==
    ASSUME TypeOK, PhaseInv, ChecksumsInv, ItemsInv, PassedIsVerified, [Next]_vars
    PROVE  PassedIsVerified'
  <1>1. CASE Determine
    <2> SUFFICES ASSUME status' = "VALIDATION_PASSED", NEW t \in Tables
                 PROVE  Alike(t) /\ \A k \in target[t] : k < nextval[t]
      BY <1>1, AlikeStays, StepWorld DEF Determine, PassedIsVerified, world
    <2>1. /\ tables[t].CountMatch /\ tables[t].ChecksumStatus = "passed"
          /\ items[t] = "reset_passed" /\ pc = "determine"
      BY <1>1 DEF Determine, DetermineValidationStatus
    <2> QED
      BY <2>1 DEF ItemsInv, ChecksumsInv, Validated
  <1>2. CASE status' = None
    BY <1>2, NoneAssumption DEF PassedIsVerified
  <1>3. CASE status' = status /\ nextval' = nextval
    BY <1>3, AlikeStays, StepWorld DEF PassedIsVerified, world
  <1> QED
    BY <1>1, <1>2, <1>3, StatusStays, NextvalStays

\* What the process knows of the samples and the sequences, if no result set is cut
\* short, is so.
THEOREM VerifiedInvariant ==
    ASSUME "readTruncated" \notin Faults
    PROVE  Spec => []VerifiedInv
  <1>1. Init => VerifiedInv
    BY InitVerified
  <1>2. TypeOK /\ VInv /\ VerifiedInv /\ [Next]_vars => VerifiedInv'
    BY StepSampleInv, StepChecksumsInv, StepItemsInv, StepPassed DEF VInv, VerifiedInv
  <1> QED
    BY <1>1, <1>2, ValidatorInvariant, PTL DEF Spec

\* VALIDATION_PASSED vouches for the first rows of every table and for the
\* sequences, provided that no result set is cut short.
THEOREM PassedMeansVerified ==
    ASSUME "readTruncated" \notin Faults
    PROVE  Spec => []PassedIsVerified
  <1>1. VerifiedInv => PassedIsVerified
    BY DEF VerifiedInv
  <1> QED
    BY <1>1, VerifiedInvariant, PTL

-----------------------------------------------------------------------------
(* What the gate misses.                                                     *)

\* A table that has been through the loop is not at hand again.
LEMMA CurIsNew ==
    ASSUME TypeOK, pc \notin {"listFks", "checkFk", "sequence", "determine"}
    PROVE  cur \in Tables /\ ~Validated(cur)
  BY ListAssumption, Positions DEF TypeOK, Validated, cur

\* What RecordTable leaves recorded: the tables of before, and this one.
LEMMA RecordKeeps ==
    ASSUME TypeOK, RecordTable, NEW t \in Tables, Validated(t) \/ t = cur
    PROVE  Validated(t)'
  <1>1. at \in 1 .. Len(TableList) /\ pc = "record" /\ Len(TableList) \in Nat
    BY Positions DEF TypeOK, RecordTable
  <1>2. PICK i \in 1 .. at : TableList[i] = t
    BY <1>1 DEF Validated, cur
  <1> QED
    BY <1>1, <1>2, NextTableStays DEF RecordTable, Validated

LEMMA StepMasked ==
    ASSUME TypeOK, PhaseInv, MaskedInv, [Next]_vars PROVE MaskedInv'
  <1> USE DEF world, report, results
  <1> DEFINE Bad == {"unsupported_comparison", "real_mismatch"}
  <1>c. at \in 1 .. Len(TableList)
    BY DEF TypeOK
  <1>1. CASE RecordTable
    <2>1. pc = "record" /\ pc' # "idle" /\ pc' # "record" /\ UNCHANGED <<gate, drilldown>>
      BY <1>1, <1>c, NextTableStays DEF RecordTable
    <2>2. ASSUME NEW t \in drilldown PROVE Validated(t)' /\ tables'[t].ChecksumStatus \in Bad
      <3>1. t \in Tables
        BY DEF TypeOK
      <3>2. CASE t = cur
        <4>1. tables'[t].ChecksumStatus = val.checksum
          BY <1>1, <3>1, <3>2 DEF RecordTable, TableResult, TypeOK
        <4> QED
          BY <1>1, <2>1, <3>1, <3>2, <4>1, RecordKeeps DEF MaskedInv
      <3>3. CASE t # cur
        <4>1. tables'[t] = tables[t]
          BY <1>1, <3>1, <3>3 DEF RecordTable, TypeOK
        <4> QED
          BY <1>1, <2>1, <3>1, <3>3, <4>1, RecordKeeps DEF MaskedInv
      <3> QED
        BY <3>2, <3>3
    <2>3. gate' = None
      BY <2>1 DEF MaskedInv
    <2> QED
      BY <2>1, <2>2, <2>3, NoneAssumption DEF MaskedInv, OnlyMasked
  <1>2. CASE TargetSample
    <2>1. PICK rows \in SUBSET Keys :
             /\ val' = [val EXCEPT !.checksum = Checksum(srcSample, rows, looks[cur])]
             /\ drilldown' =
                   IF /\ val'.checksum \in {"unsupported_comparison", "real_mismatch"}
                      /\ HasRealMismatch(srcSample, rows, looks[cur])
                   THEN drilldown \cup {cur} ELSE drilldown
      BY <1>2 DEF TargetSample
    <2>2. /\ pc = "targetSample" /\ pc' = "record" /\ at' = at /\ UNCHANGED <<gate, tables>>
      BY <1>2 DEF TargetSample
    <2>3. cur \notin drilldown
      BY <2>2, CurIsNew DEF MaskedInv
    <2>4. cur \in drilldown' => val'.checksum \in Bad
      BY <2>1, <2>3
    <2>5. \A t \in drilldown' : t # cur => t \in drilldown
      BY <2>1
    <2>6. \A t : Validated(t) => Validated(t)'
      BY <2>2 DEF Validated
    <2>7. cur' = cur
      BY <2>2 DEF cur
    <2> QED
      BY <2>2, <2>4, <2>5, <2>6, <2>7, NoneAssumption DEF MaskedInv, OnlyMasked
  <1>3. CASE SampleFails
    <2>1. /\ pc \in {"sourceSample", "targetSample"} /\ pc' = "record" /\ at' = at
          /\ UNCHANGED <<gate, tables, drilldown>>
      BY <1>3 DEF SampleFails
    <2>2. cur \notin drilldown /\ cur' = cur
      BY <2>1, CurIsNew DEF MaskedInv, cur
    <2> QED
      BY <2>1, <2>2, NoneAssumption DEF MaskedInv, OnlyMasked, Validated
  <1>4. CASE Determine
    <2>1. /\ pc = "determine" /\ pc' = "idle" /\ gate' = DetermineStagingReadiness
          /\ UNCHANGED <<tables, drilldown>>
      BY <1>4 DEF Determine
    <2>2. ASSUME gate' = "ready", NEW t \in drilldown
          PROVE  tables[t].ChecksumStatus = "unsupported_comparison"
      <3>1. tables[t].ChecksumStatus \in Bad /\ t \in Tables
        BY <2>1 DEF MaskedInv, TypeOK
      <3>2. tables[t].ChecksumStatus # "real_mismatch"
        BY <2>1, <2>2, <3>1 DEF DetermineStagingReadiness
      <3> QED
        BY <3>1, <3>2
    <2> QED
      BY <2>1, <2>2 DEF MaskedInv, OnlyMasked
  <1>5. CASE Validate
    BY <1>5, NoneAssumption DEF Validate, MaskedInv, OnlyMasked
  <1>6. CASE CountFails \/ Crash
    <2>1. pc # "idle" /\ pc' = "idle" /\ UNCHANGED gate
      BY <1>6 DEF CountFails, Crash, Abort
    <2> QED
      BY <2>1, NoneAssumption DEF MaskedInv, OnlyMasked
  <1>7. CASE CountSource \/ CountTarget \/ SourceBounds \/ TargetBounds \/ SourceSample
    <2>1. /\ pc \notin {"idle", "listFks", "checkFk", "sequence", "determine"} /\ at' = at
          /\ pc' \notin {"idle", "listFks", "checkFk", "sequence", "determine"}
          /\ UNCHANGED <<gate, tables, drilldown>> /\ pc # "record"
      BY <1>7 DEF CountSource, CountTarget, SourceBounds, TargetBounds, SourceSample
    <2>2. cur \notin drilldown /\ cur' = cur
      BY <2>1, CurIsNew DEF MaskedInv, cur
    <2> QED
      BY <2>1, <2>2, NoneAssumption DEF MaskedInv, OnlyMasked, Validated
  <1>8. CASE ListForeignKeys \/ CheckForeignKey \/ ForeignKeysChecked
    <2>1. /\ pc \in {"listFks", "checkFk"} /\ pc' \in {"listFks", "checkFk", "sequence"}
          /\ UNCHANGED <<gate, tables, drilldown>>
      BY <1>8 DEF ListForeignKeys, CheckForeignKey, ForeignKeysChecked
    <2> QED
      BY <2>1, NoneAssumption DEF MaskedInv, OnlyMasked, Validated
  <1>9. CASE ResetSequence \/ ResetFails
    <2>1. /\ pc = "sequence" /\ pc' \in {"sequence", "determine"}
          /\ UNCHANGED <<gate, tables, drilldown>>
      BY <1>9, <1>c, NextTableStays DEF ResetSequence, ResetFails
    <2> QED
      BY <2>1, NoneAssumption DEF MaskedInv, OnlyMasked, Validated
  <1>10. CASE SourceInsert \/ UNCHANGED vars
    BY <1>10 DEF SourceInsert, vars, MaskedInv, OnlyMasked, Validated, cur
  <1> QED
    BY <1>1, <1>2, <1>3, <1>4, <1>5, <1>6, <1>7, <1>8, <1>9, <1>10, StepForm

\* The gate is never ready over a difference the drilldown found, except where a
\* value that cannot be compared gave the table its status.
THEOREM OnlyMaskedDifferencesPass == Spec => []OnlyMasked
  <1>1. Init => MaskedInv
    BY NoneAssumption DEF Init, MaskedInv, OnlyMasked
  <1>2. TypeOK /\ VInv /\ MaskedInv /\ [Next]_vars => MaskedInv'
    BY StepMasked DEF VInv
  <1>3. MaskedInv => OnlyMasked
    BY DEF MaskedInv
  <1> QED
    BY <1>1, <1>2, <1>3, ValidatorInvariant, PTL DEF Spec
=============================================================================
