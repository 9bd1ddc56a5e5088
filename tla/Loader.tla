------------------------------- MODULE Loader -------------------------------
(***************************************************************************)
(* loader/loader.go: streaming tables from MySQL into PostgreSQL with a    *)
(* JSON state file that lets a later run of the process resume.            *)
(*                                                                         *)
(* One process runs at a time.  It loads the state file (NewLoader),       *)
(* streams the tables of the plan in order (StreamTable), and dies: by     *)
(* finishing, by a table that fails (the driver exits), or by a crash      *)
(* between any two steps.  What survives it is the target database and     *)
(* the state file.  A step of this module is a call the process makes to   *)
(* the outside world, with the assignments up to the next such call.       *)
(*                                                                         *)
(* A row is its key.  The target counts how many copies of a row it holds, *)
(* so that a row lost and a row copied twice are both visible.             *)
(***************************************************************************)
EXTENDS Integers, FiniteSets, Sequences

CONSTANTS
    TableOrder,       \* planner.MigrationPlan.TableOrder: a sequence of tables
    PKTables,         \* tables planned with a PrimaryKeyColumn: read in key ranges
    UniqueTables,     \* those with a PRIMARY KEY in the target: all that the DDL
                      \* created, not one that existed before without a key
    Keys,             \* the row keys that can occur
    InitialRows,      \* the contents the source may start with
    BatchSize,        \* Config.BatchSize, 5000 when it is not positive
    MinInt, MaxInt,   \* the ends of int64
    ExactBound,       \* integers up to here are exact in a float64 (2^53)
    Constrained,      \* TRUE when the target may refuse rows for reasons that are
                      \* not modelled here (see Migrate)
    Faults,           \* what the environment may do: the kinds of fault, and
                      \* "insert" when other clients insert into the source
    MaxFaults,        \* bound: how often, in a behaviour
    None,             \* a nil LastPKValue
    NoState           \* no state file, or one that does not parse

Tables == {TableOrder[i] : i \in 1 .. Len(TableOrder)}

FaultKinds == {"queryErr", "copyErr", "commitLost", "readTruncated",
               "saveFail", "tornSave", "crash", "insert"}

ASSUME OrderAssumption ==
    /\ TableOrder \in Seq(Tables)
    /\ \A i, j \in 1 .. Len(TableOrder) : TableOrder[i] = TableOrder[j] => i = j
ASSUME TablesAssumption == UniqueTables \subseteq PKTables /\ PKTables \subseteq Tables
ASSUME KeysAssumption == Keys \subseteq Int /\ IsFiniteSet(Keys)
ASSUME RowsAssumption == InitialRows \subseteq [Tables -> SUBSET Keys]
ASSUME BatchAssumption == BatchSize \in Nat \ {0}
ASSUME IntAssumption ==
    MinInt \in Int /\ MaxInt \in Int /\ MinInt <= 0 /\ 0 < MaxInt /\ ExactBound \in Nat
ASSUME FaultAssumption ==
    /\ Constrained \in BOOLEAN
    /\ Faults \subseteq FaultKinds /\ MaxFaults \in Nat
ASSUME NoneAssumption == None \notin Int

VARIABLES
    (* the databases *)
    source,      \* source[t]: the keys of the rows MySQL holds
    baseline,    \* history: the rows it held from the start and throughout
    target,      \* target[t][k]: how many copies of row k PostgreSQL holds
    (* the disk *)
    file,        \* JobState.Progresses on disk, or NoState
    (* the process *)
    pc,          \* the call it makes next; "down" when no process runs
    idx,         \* position in TableOrder of the table being streamed
    prog,        \* l.state.Progresses in memory
    currentPK, maxVal, totalRows,
    chunk,       \* chunkRows / batch: rows read and not yet accounted for
    unread,      \* rows the open cursor has still to return
    (* the environment *)
    faults       \* how many faults it has injected

databases == <<source, baseline>>
memory == <<idx, prog, currentPK, maxVal, totalRows, chunk, unread>>
vars == <<source, baseline, target, file, pc, idx, prog, currentPK, maxVal,
          totalRows, chunk, unread, faults>>

-----------------------------------------------------------------------------
(* Types and helpers.                                                      *)

Statuses == {"pending", "running", "completed", "failed"}

\* TableProgress, without the figures that only feed the display.
Progress == [status : Statuses, CompletedRows : Nat, LastPKValue : Int \cup {None}]

ASSUME FileAssumption == NoState \notin [Tables -> Progress]

Fresh == [t \in Tables |-> [status |-> "pending", CompletedRows |-> 0, LastPKValue |-> None]]

cur == TableOrder[idx]
Have == [t \in Tables |-> {k \in Keys : target[t][k] > 0}]

\* int64 addition.
Wrap(x) == IF x > MaxInt THEN x - (MaxInt - MinInt + 1) ELSE x

\* An integer written to JSON and read back into an interface{} becomes a
\* float64: past ExactBound only even values exist (half-to-even rounding).
Float64(x) ==
    IF x \notin -ExactBound .. ExactBound /\ x % 2 = 1
    THEN IF x % 4 = 1 THEN x - 1 ELSE x + 1
    ELSE x

\* int64(v) of a float64 that is out of range is whatever the build gives:
\* amd64 wraps to the least integer, arm64 saturates.
Int64(x) == IF x <= MaxInt THEN {x} ELSE {Wrap(x), MaxInt}

\* SELECT COALESCE(MIN(k), 0), COALESCE(MAX(k), 0).
IsMin(m, S) == IF S = {} THEN m = 0 ELSE m \in S /\ \A k \in S : m <= k
IsMax(m, S) == IF S = {} THEN m = 0 ELSE m \in S /\ \A k \in S : k <= m

\* The environment injects a fault of kind f, within its budget.
Fault(f) == f \in Faults /\ faults < MaxFaults /\ faults' = faults + 1

\* Mutant of Decode: the state file is written but never used.
DecodeNothing(f) == Fresh

\* The progress map as loadState decodes it.
Decode(f) ==
    IF f = NoState THEN Fresh
    ELSE [t \in Tables |-> [f[t] EXCEPT !.LastPKValue = IF @ = None THEN None ELSE Float64(@)]]

\* saveState: every caller drops its error, so a failed write is silent.  os.WriteFile
\* truncates first: it leaves the file as it was, or one that does not parse.
saveState(p) ==
    \/ file' = p /\ UNCHANGED faults
    \/ Fault("saveFail") /\ file' \in {file, NoState}

\* The process ends; its memory goes with it.
Shutdown ==
    /\ pc' = "down" /\ idx' = 1 /\ prog' = Fresh
    /\ currentPK' = 0 /\ maxVal' = 0 /\ totalRows' = 0
    /\ chunk' = {} /\ unread' = {}

\* Mutant of SetStatus: a table taken up again loses its progress record.
ResetProgress(s) ==
    prog' = [prog EXCEPT ![cur] = [status |-> s, CompletedRows |-> 0, LastPKValue |-> None]]

SetStatus(s) == prog' = [prog EXCEPT ![cur].status = s]

-----------------------------------------------------------------------------
Init ==
    /\ source \in InitialRows
    /\ baseline = source
    /\ target = [t \in Tables |-> [k \in Keys |-> 0]]
    /\ file = NoState
    /\ pc = "down" /\ idx = 1 /\ prog = Fresh
    /\ currentPK = 0 /\ maxVal = 0 /\ totalRows = 0
    /\ chunk = {} /\ unread = {}
    /\ faults = 0

\* The operator starts the tool: NewLoader and its loadState.
NewLoader ==
    /\ pc = "down"
    /\ prog' = Decode(file)
    /\ pc' = "table"
    /\ UNCHANGED <<databases, target, file, idx, currentPK, maxVal, totalRows,
                   chunk, unread, faults>>

\* StreamTable on a table the state file calls completed.
SkipTable ==
    /\ pc = "table" /\ idx <= Len(TableOrder)
    /\ prog[cur].status = "completed"
    /\ idx' = idx + 1
    /\ UNCHANGED <<databases, target, file, pc, prog, currentPK, maxVal, totalRows,
                   chunk, unread, faults>>

\* StreamTable on any other: running, and saved.
BeginTable ==
    /\ pc = "table" /\ idx <= Len(TableOrder)
    /\ prog[cur].status # "completed"
    /\ SetStatus("running") /\ saveState(prog')
    /\ pc' = "count"
    /\ UNCHANGED <<databases, target, idx, currentPK, maxVal, totalRows, chunk, unread>>

\* SELECT COUNT(*).
CountRows ==
    /\ pc = "count"
    /\ totalRows' = Cardinality(source[cur])
    /\ pc' = IF cur \in PKTables THEN "range" ELSE "open"
    /\ UNCHANGED <<databases, target, file, idx, prog, currentPK, maxVal,
                   chunk, unread, faults>>

(* streamWithPKChunking *)

\* Mutant of FetchRange: a resumed table starts again from its first key.
FetchRangeFromStart ==
    /\ pc = "range"
    /\ \E lo, hi \in Keys \cup {0} :
          /\ IsMin(lo, source[cur]) /\ IsMax(hi, source[cur])
          /\ maxVal' = hi /\ currentPK' = lo
    /\ pc' = "chunk"
    /\ UNCHANGED <<databases, target, file, idx, prog, totalRows, chunk, unread, faults>>

\* SELECT MIN, MAX; a LastPKValue from an earlier run replaces the minimum.
FetchRange ==
    /\ pc = "range"
    /\ \E lo, hi \in Keys \cup {0} :
          /\ IsMin(lo, source[cur]) /\ IsMax(hi, source[cur])
          /\ maxVal' = hi
          /\ IF prog[cur].LastPKValue = None
             THEN currentPK' = lo
             ELSE currentPK' \in Int64(prog[cur].LastPKValue)
    /\ pc' = "chunk"
    /\ UNCHANGED <<databases, target, file, idx, prog, totalRows, chunk, unread, faults>>

\* Mutant of ReadChunk: the checkpoint is saved before the rows are copied.
ReadChunkSavesFirst ==
    /\ pc = "chunk" /\ currentPK <= maxVal
    /\ chunk' = {k \in source[cur] : currentPK <= k /\ k < Wrap(currentPK + BatchSize)}
    /\ prog' = [prog EXCEPT ![cur].LastPKValue = Wrap(currentPK + BatchSize)]
    /\ saveState(prog')
    /\ pc' = IF chunk' = {} THEN "advance" ELSE "copy"
    /\ UNCHANGED <<databases, target, idx, currentPK, maxVal, totalRows, unread>>

\* Mutant of ReadChunk: an empty range is tried again instead of passed over.
ReadChunkRetriesEmpty ==
    /\ pc = "chunk" /\ currentPK <= maxVal
    /\ chunk' = {k \in source[cur] : currentPK <= k /\ k < Wrap(currentPK + BatchSize)}
    /\ pc' = IF chunk' = {} THEN "chunk" ELSE "copy"
    /\ UNCHANGED <<databases, target, file, idx, prog, currentPK, maxVal, totalRows,
                   unread, faults>>

\* SELECT ... WHERE pk >= currentPK AND pk < nextPK.  rows.Err() is never
\* consulted, so a connection lost while the rows stream ends the loop early
\* and the rows seen so far pass for the chunk.
ReadChunk ==
    /\ pc = "chunk" /\ currentPK <= maxVal
    /\ LET rows == {k \in source[cur] : currentPK <= k /\ k < Wrap(currentPK + BatchSize)}
       IN  \/ chunk' = rows /\ UNCHANGED faults
           \/ /\ Fault("readTruncated")
              /\ chunk' \in SUBSET rows /\ chunk' # rows
    /\ pc' = IF chunk' = {} THEN "advance" ELSE "copy"
    /\ UNCHANGED <<databases, target, file, idx, prog, currentPK, maxVal, totalRows, unread>>

\* Mutant of AdvancePK: counts the width of the range, not the rows in it.
AdvancePKByWidth ==
    /\ pc = "advance" /\ cur \in PKTables
    /\ currentPK' = Wrap(currentPK + BatchSize)
    /\ prog' = [prog EXCEPT ![cur].CompletedRows = @ + BatchSize,
                            ![cur].LastPKValue = currentPK']
    /\ saveState(prog')
    /\ chunk' = {}
    /\ pc' = "chunk"
    /\ UNCHANGED <<databases, target, idx, maxVal, totalRows, unread>>

\* currentPK and LastPKValue move on, and the checkpoint is saved.
AdvancePK ==
    /\ pc = "advance" /\ cur \in PKTables
    /\ currentPK' = Wrap(currentPK + BatchSize)
    /\ prog' = [prog EXCEPT ![cur].CompletedRows = @ + Cardinality(chunk),
                            ![cur].LastPKValue = currentPK']
    /\ saveState(prog')
    /\ chunk' = {}
    /\ pc' = "chunk"
    /\ UNCHANGED <<databases, target, idx, maxVal, totalRows, unread>>

\* Mutant of LastChunk: < for <= in the loop's condition.
LastChunkEarly ==
    /\ pc = "chunk" /\ currentPK >= maxVal
    /\ pc' = "finish"
    /\ UNCHANGED <<databases, target, file, memory, faults>>

LastChunk ==
    /\ pc = "chunk" /\ currentPK > maxVal
    /\ pc' = "finish"
    /\ UNCHANGED <<databases, target, file, memory, faults>>

(* streamWithCursor *)

\* SELECT without a WHERE: one result set, always from the first row.
OpenCursor ==
    /\ pc = "open"
    /\ unread' = source[cur]
    /\ pc' = "batch"
    /\ UNCHANGED <<databases, target, file, idx, prog, currentPK, maxVal, totalRows,
                   chunk, faults>>

\* rows.Next until the batch is full or the rows end, in whatever order MySQL
\* returns them; here too a lost connection looks like the end of the rows.
ReadBatch ==
    /\ pc = "batch" /\ unread # {}
    /\ chunk' \in SUBSET unread
    /\ \/ /\ Cardinality(chunk') = BatchSize \/ (chunk' = unread /\ Cardinality(unread) < BatchSize)
          /\ unread' = unread \ chunk'
          /\ UNCHANGED faults
       \/ /\ Fault("readTruncated")
          /\ Cardinality(chunk') < BatchSize /\ chunk' # unread
          /\ unread' = {}
    /\ pc' = IF chunk' = {} THEN "batch" ELSE "copy"
    /\ UNCHANGED <<databases, target, file, idx, prog, currentPK, maxVal, totalRows>>

\* A full batch is counted and saved; the final, partial one is only counted.
AdvanceCursor ==
    /\ pc = "advance" /\ cur \notin PKTables
    /\ prog' = [prog EXCEPT ![cur].CompletedRows = @ + Cardinality(chunk)]
    /\ IF Cardinality(chunk) >= BatchSize
       THEN saveState(prog')
       ELSE UNCHANGED <<file, faults>>
    /\ chunk' = {}
    /\ pc' = "batch"
    /\ UNCHANGED <<databases, target, idx, currentPK, maxVal, totalRows, unread>>

LastBatch ==
    /\ pc = "batch" /\ unread = {}
    /\ pc' = "finish"
    /\ UNCHANGED <<databases, target, file, memory, faults>>

(* CopyFrom: one COPY, all of its rows or none of them *)

Loaded == [target EXCEPT ![cur] = [k \in Keys |-> @[k] + (IF k \in chunk THEN 1 ELSE 0)]]

Conflicts == cur \in UniqueTables /\ \E k \in chunk : k \in Have[cur]

CopyFrom ==
    /\ pc = "copy" /\ ~Conflicts
    /\ target' = Loaded
    /\ pc' = "advance"
    /\ UNCHANGED <<databases, file, memory, faults>>

\* The target refuses the rows: a PRIMARY KEY that is already there, or a
\* constraint that an earlier run has put on the table.
CopyConflict ==
    /\ pc = "copy" /\ (Conflicts \/ Constrained)
    /\ pc' = "fail"
    /\ UNCHANGED <<databases, target, file, memory, faults>>

\* Mutant of CopyError: the error of CopyFrom is dropped.
CopyErrorDropped ==
    /\ pc = "copy" /\ ~Conflicts
    /\ Fault("copyErr")
    /\ pc' = "advance"
    /\ UNCHANGED <<databases, target, file, memory>>

\* COPY fails and is rolled back; or it commits and the answer is lost.
CopyError ==
    /\ pc = "copy" /\ ~Conflicts
    /\ \/ Fault("copyErr") /\ UNCHANGED target
       \/ Fault("commitLost") /\ target' = Loaded
    /\ pc' = "fail"
    /\ UNCHANGED <<databases, file, memory>>

(* The end of StreamTable and of the run *)

FinishTable ==
    /\ pc = "finish"
    /\ prog' = [prog EXCEPT ![cur].status = "completed", ![cur].CompletedRows = totalRows]
    /\ saveState(prog')
    /\ idx' = idx + 1
    /\ pc' = "table"
    /\ currentPK' = 0 /\ maxVal' = 0 /\ totalRows' = 0
    /\ UNCHANGED <<databases, target, chunk, unread>>

\* A SELECT, or scanning one of its rows, returns an error.
QueryError ==
    /\ \/ pc \in {"count", "range", "open"}
       \/ pc = "chunk" /\ currentPK <= maxVal
       \/ pc = "batch" /\ unread # {}
    /\ Fault("queryErr")
    /\ pc' = "fail"
    /\ UNCHANGED <<databases, target, file, memory>>

\* Mutant of FailTable: saves a status nothing else knows.
FailTableUnknown ==
    /\ pc = "fail"
    /\ saveState([prog EXCEPT ![cur].status = "error"])
    /\ Shutdown
    /\ UNCHANGED <<databases, target>>

\* StreamTable returns its error: failed, saved, and the driver exits.
FailTable ==
    /\ pc = "fail"
    /\ saveState([prog EXCEPT ![cur].status = "failed"])
    /\ Shutdown
    /\ UNCHANGED <<databases, target>>

\* Every table streamed: the driver goes on to its next phases and ends.
Exit ==
    /\ pc = "table" /\ idx > Len(TableOrder)
    /\ Shutdown
    /\ UNCHANGED <<databases, target, file, faults>>

(* The environment *)

Crash ==
    /\ pc # "down"
    /\ Fault("crash")
    /\ Shutdown
    /\ UNCHANGED <<databases, target, file>>

\* os.WriteFile truncates before it writes: a crash inside saveState leaves a
\* file that does not parse.
TornSave ==
    /\ \/ pc \in {"finish", "fail"}
       \/ pc = "table" /\ idx <= Len(TableOrder) /\ prog[cur].status # "completed"
       \/ pc = "advance" /\ (cur \in PKTables \/ Cardinality(chunk) >= BatchSize)
    /\ Fault("tornSave")
    /\ file' = NoState
    /\ Shutdown
    /\ UNCHANGED <<databases, target>>

SourceInsert ==
    /\ Fault("insert")
    /\ \E t \in Tables : \E k \in Keys \ source[t] :
          source' = [source EXCEPT ![t] = @ \cup {k}]
    /\ UNCHANGED <<baseline, target, file, pc, memory>>

-----------------------------------------------------------------------------
Process ==
    \/ NewLoader \/ SkipTable \/ BeginTable \/ CountRows
    \/ FetchRange \/ ReadChunk \/ AdvancePK \/ LastChunk
    \/ OpenCursor \/ ReadBatch \/ AdvanceCursor \/ LastBatch
    \/ CopyFrom \/ CopyConflict \/ FinishTable \/ FailTable \/ Exit

Environment == QueryError \/ CopyError \/ Crash \/ TornSave \/ SourceInsert

Next == Process \/ Environment

Spec == Init /\ [][Next]_vars

\* The code is sequential, so it goes on as long as it can; and the operator
\* runs the tool again after every end, as the documentation tells them to.
FairSpec == Spec /\ WF_vars(Process)

-----------------------------------------------------------------------------
(* Properties.                                                             *)

\* Every variable keeps its type.
TypeOK ==
    /\ source \in [Tables -> SUBSET Keys] /\ baseline \in [Tables -> SUBSET Keys]
    /\ target \in [Tables -> [Keys -> Nat]]
    /\ file \in [Tables -> Progress] \cup {NoState}
    /\ pc \in {"down", "table", "count", "range", "chunk", "open", "batch",
               "copy", "advance", "finish", "fail"}
    /\ idx \in 1 .. Len(TableOrder) + 1
    /\ pc \notin {"down", "table"} => idx <= Len(TableOrder)
    /\ prog \in [Tables -> Progress]
    /\ currentPK \in Int /\ maxVal \in Int /\ totalRows \in Nat
    /\ chunk \in SUBSET Keys /\ unread \in SUBSET Keys
    /\ faults \in Nat

Saved(t) == file # NoState /\ file[t].status = "completed"

\* The rows of t below key p that were there all along are in the target.
Covered(t, p) == \A k \in baseline[t] : k < p => k \in Have[t]

\* A checkpoint on disk never runs ahead of the data: whatever was lost or
\* retried in between, all rows below the saved LastPKValue are in the target,
\* since a resumed run will never look at them again.
CheckpointSound ==
    file # NoState => \A t \in PKTables :
        file[t].LastPKValue # None => Covered(t, file[t].LastPKValue)

\* A table the state file calls completed has all its rows: no later run
\* touches it again.
CompletedIsComplete == \A t \in Tables : Saved(t) => baseline[t] \subseteq Have[t]

\* How many copies of rows of t the target holds.
Copies(t) == Cardinality(UNION {{k} \X (1 .. target[t][k]) : k \in Keys})

\* The progress a report shows for a table that no client wrote to never exceeds
\* what was really delivered: CompletedRows on disk counts rows that are in the
\* target, over all the runs it took.
ProgressNeverOverstated ==
    file # NoState => \A t \in Tables :
        source[t] = baseline[t] => file[t].CompletedRows <= Copies(t)

\* The state file moves only forward, across any number of runs: unless it is
\* lost as a whole, a completed table stays completed and a saved LastPKValue
\* is never replaced by a smaller one.
StateFileMovesForward ==
    [][file # NoState /\ file' # NoState =>
        \A t \in Tables :
            /\ Saved(t) => Saved(t)'
            /\ file[t].LastPKValue # None =>
                  /\ file'[t].LastPKValue # None
                  /\ file[t].LastPKValue <= file'[t].LastPKValue]_vars

\* A table read by key ranges that is reported completed holds each source row
\* exactly once, however many failed runs it took.
CompletedIsExact ==
    \A t \in PKTables : Saved(t) =>
        target[t] = [k \in Keys |-> IF k \in source[t] THEN 1 ELSE 0]

\* Running the tool again and again gets every table copied and recorded.
EventuallyStreamed == <>(\A t \in Tables : Saved(t))

\* Every run of the process comes to an end.
EveryRunEnds == pc # "down" ~> pc = "down"

\* The loader implements the abstract transfer of the rows that were in the
\* source throughout: what the state file declares done has arrived, whatever
\* the chunks, crashes, failed saves and torn files on the way.
Transferred == INSTANCE Transfer WITH
    want <- baseline, have <- Have, done <- {t \in Tables : Saved(t)}

ImplementsTransfer == Transferred!Spec

-----------------------------------------------------------------------------
(* The strengthening under which these are inductive.  It needs that keys    *)
(* stay clear of the ends of the number types, and full reads.               *)

Exact == -ExactBound .. ExactBound

KeysInRange ==
    /\ ExactBound <= MaxInt
    /\ \A k \in Keys \cup {0} : k \in Exact /\ k + BatchSize \in Exact

\* What a progress map may claim about the target.
ProgressSound(p) ==
    \A t \in Tables :
        /\ p[t].status = "completed" => baseline[t] \subseteq Have[t]
        /\ t \in PKTables /\ p[t].LastPKValue # None =>
              p[t].LastPKValue \in Exact /\ Covered(t, p[t].LastPKValue)

\* Both progress maps claim only what is so, and memory is ahead of the file.
ProgressInv ==
    /\ ProgressSound(prog)
    /\ file # NoState => ProgressSound(file)
    /\ pc # "down" => \A t \in Tables : Saved(t) => prog[t].status = "completed"
    /\ pc \notin {"down", "table"} => prog[cur].status # "completed"

\* Rows are inserted into the source, never taken away.
SourceInv == \A t \in Tables : baseline[t] \subseteq source[t]

\* Which of the two ways of streaming the process is in.
ModeInv ==
    /\ pc \in {"range", "chunk"} => cur \in PKTables
    /\ pc \in {"open", "batch"} => cur \notin PKTables

\* Where streamWithPKChunking is: everything below currentPK has arrived, the
\* chunk holds the next BatchSize keys, and maxVal bounds what is left.
ChunkInv ==
    pc \in {"chunk", "copy", "advance"} /\ cur \in PKTables =>
        /\ currentPK \in Exact /\ maxVal \in Keys \cup {0}
        /\ Covered(cur, currentPK)
        /\ \A k \in baseline[cur] : k <= maxVal
        /\ pc # "chunk" => currentPK <= maxVal
        /\ \A k \in baseline[cur] : currentPK <= k /\ k < currentPK + BatchSize =>
              /\ pc = "copy" => k \in chunk
              /\ pc = "advance" => k \in Have[cur]

\* Where streamWithCursor is: every row has arrived, is in the batch, or is
\* still to come from the cursor.
CursorInv ==
    pc \in {"batch", "copy", "advance"} /\ cur \notin PKTables =>
        \A k \in baseline[cur] :
            k \in Have[cur] \/ k \in unread \/ (pc = "copy" /\ k \in chunk)

FinishInv == pc = "finish" => baseline[cur] \subseteq Have[cur]

IInv ==
    /\ SourceInv /\ ModeInv /\ ProgressInv /\ ChunkInv /\ CursorInv /\ FinishInv

\* Of a table that no client writes to, a progress map and the rows it has yet to
\* count do not exceed what was delivered.
Counted(p, t, pending) ==
    source[t] = baseline[t] => p[t].CompletedRows + pending <= Copies(t)

\* Both maps count what is in the target, and the chunk just copied comes on top; the
\* COUNT(*) that will replace the count in memory was never more than the source holds.
CountInv ==
    /\ \A t \in Tables :
          Counted(prog, t, IF pc = "advance" /\ t = cur THEN Cardinality(chunk) ELSE 0)
    /\ file # NoState => \A t \in Tables : Counted(file, t, 0)
    /\ pc \notin {"down", "table", "count", "fail"} => totalRows <= Cardinality(source[cur])
=============================================================================
