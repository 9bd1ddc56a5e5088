---------------------------- MODULE LoaderProofs ----------------------------
(***************************************************************************)
(* Theorems about Loader for any plan order, any set of keys, any batch    *)
(* size and any number of faults.                                          *)
(***************************************************************************)
EXTENDS Loader, FiniteSetTheorems, TLAPS

\* Every table of the order is a table, at each of its positions.
LEMMA CurIsTable ==
    ASSUME NEW i \in 1 .. Len(TableOrder)
    PROVE  TableOrder[i] \in Tables
  BY DEF Tables

\* A fresh progress map is well typed.
LEMMA FreshType == Fresh \in [Tables -> Progress]
  BY DEF Fresh, Progress, Statuses

\* Updating the count, or the count and the checkpoint, of a progress record.
LEMMA ProgressUpdate ==
    ASSUME NEW p \in Progress, NEW n \in Nat, NEW v \in Int \cup {None}
    PROVE  /\ [p EXCEPT !.CompletedRows = n, !.LastPKValue = v] \in Progress
           /\ [p EXCEPT !.CompletedRows = n] \in Progress
  BY DEF Progress

\* Rounding through a float64 gives an integer.
LEMMA Float64Type == ASSUME NEW x \in Int PROVE Float64(x) \in Int
  BY DEF Float64

\* Addition with overflow gives an integer.
LEMMA WrapType == ASSUME NEW x \in Int PROVE Wrap(x) \in Int
  BY IntAssumption DEF Wrap

\* Decoding a state file gives a well typed progress map.
LEMMA DecodeType ==
    ASSUME NEW f \in [Tables -> Progress] \cup {NoState}
    PROVE  Decode(f) \in [Tables -> Progress]
  <1>1. CASE f = NoState
    BY <1>1, FreshType DEF Decode
  <1>2. CASE f # NoState
    <2>1. f \in [Tables -> Progress]
      BY <1>2
    <2>2. ASSUME NEW t \in Tables
          PROVE  [f[t] EXCEPT !.LastPKValue = IF @ = None THEN None ELSE Float64(@)] \in Progress
      <3>1. f[t] \in Progress
        BY <2>1
      <3>2. (IF f[t].LastPKValue = None THEN None ELSE Float64(f[t].LastPKValue)) \in Int \cup {None}
        BY <3>1, Float64Type DEF Progress
      <3> QED
        BY <3>1, <3>2 DEF Progress
    <2> QED
      BY <1>2, <2>2 DEF Decode
  <1> QED
    BY <1>1, <1>2

-----------------------------------------------------------------------------
(* Types.                                                                    *)

\* The initial states are well typed.
LEMMA InitType == Init => TypeOK
  <1> SUFFICES ASSUME Init PROVE TypeOK
    OBVIOUS
  <1>1. source \in [Tables -> SUBSET Keys] /\ baseline \in [Tables -> SUBSET Keys]
    BY RowsAssumption DEF Init
  <1>2. target \in [Tables -> [Keys -> Nat]]
    BY DEF Init
  <1>3. idx \in 1 .. Len(TableOrder) + 1
    BY OrderAssumption DEF Init
  <1>4. prog \in [Tables -> Progress]
    BY FreshType DEF Init
  <1> QED
    BY <1>1, <1>2, <1>3, <1>4 DEF Init, TypeOK

\* Ending the process leaves well typed memory.
LEMMA ShutdownType ==
    ASSUME TypeOK, Shutdown, target' = target, source' = source, baseline' = baseline,
           file' \in [Tables -> Progress] \cup {NoState}, faults' \in Nat
    PROVE  TypeOK'
  BY FreshType, OrderAssumption DEF Shutdown, TypeOK

\* saveState leaves the file and the fault count well typed.
LEMMA SaveType ==
    ASSUME TypeOK, NEW p \in [Tables -> Progress], saveState(p)
    PROVE  file' \in [Tables -> Progress] \cup {NoState} /\ faults' \in Nat
  BY DEF saveState, Fault, TypeOK

\* Every step of the process or the environment keeps the types.
LEMMA StepType == TypeOK /\ [Next]_vars => TypeOK'
  <1> SUFFICES ASSUME TypeOK, [Next]_vars PROVE TypeOK'
    OBVIOUS
  <1> USE DEF databases, memory
  <1>t. pc \notin {"down", "table"} => idx \in 1 .. Len(TableOrder) /\ cur \in Tables
    BY CurIsTable, OrderAssumption DEF TypeOK, cur
  <1>o. Len(TableOrder) \in Nat
    BY OrderAssumption
  <1>1. CASE NewLoader
    BY <1>1, DecodeType DEF NewLoader, TypeOK
  <1>2. CASE SkipTable
    BY <1>2, <1>o DEF SkipTable, TypeOK
  <1>3. CASE BeginTable
    <2>1. prog' \in [Tables -> Progress]
      BY <1>3 DEF BeginTable, SetStatus, TypeOK, Progress, Statuses
    <2>2. file' \in [Tables -> Progress] \cup {NoState} /\ faults' \in Nat
      BY <1>3, <2>1, SaveType DEF BeginTable
    <2> QED
      BY <1>3, <2>1, <2>2 DEF BeginTable, TypeOK
  <1>4. CASE CountRows
    <2>1. IsFiniteSet(source[cur])
      BY <1>4, <1>t, KeysAssumption, FS_Subset DEF CountRows, TypeOK
    <2>2. totalRows' \in Nat
      BY <1>4, <2>1, FS_CardinalityType DEF CountRows
    <2> QED
      BY <1>4, <2>2 DEF CountRows, TypeOK
  <1>5. CASE FetchRange
    <2>1. PICK lo \in Keys \cup {0}, hi \in Keys \cup {0} :
            /\ maxVal' = hi
            /\ IF prog[cur].LastPKValue = None
               THEN currentPK' = lo
               ELSE currentPK' \in Int64(prog[cur].LastPKValue)
      BY <1>5 DEF FetchRange
    <2>2. lo \in Int /\ hi \in Int
      BY KeysAssumption
    <2>3. prog[cur].LastPKValue \in Int \cup {None}
      BY <1>5, <1>t DEF FetchRange, TypeOK, Progress
    <2>4. \A x \in Int : Int64(x) \subseteq Int
      BY WrapType, IntAssumption DEF Int64
    <2>5. currentPK' \in Int /\ maxVal' \in Int
      BY <2>1, <2>2, <2>3, <2>4
    <2> QED
      BY <1>5, <2>5 DEF FetchRange, TypeOK
  <1>6. CASE ReadChunk
    <2>1. source[cur] \in SUBSET Keys
      BY <1>6, <1>t DEF ReadChunk, TypeOK
    <2>2. chunk' \in SUBSET Keys
      BY <1>6, <2>1 DEF ReadChunk
    <2>3. faults' \in Nat
      BY <1>6 DEF ReadChunk, Fault, TypeOK
    <2>4. pc' \in {"advance", "copy"}
      BY <1>6 DEF ReadChunk
    <2> QED
      BY <1>6, <2>2, <2>3, <2>4 DEF ReadChunk, TypeOK
  <1>7. CASE AdvancePK
    <2>1. currentPK' \in Int
      BY <1>7, WrapType, BatchAssumption DEF AdvancePK, TypeOK
    <2>2. Cardinality(chunk) \in Nat
      BY KeysAssumption, FS_Subset, FS_CardinalityType DEF TypeOK
    <2>3. prog' \in [Tables -> Progress]
      <3> DEFINE n == prog[cur].CompletedRows + Cardinality(chunk)
                 q == [prog[cur] EXCEPT !.CompletedRows = n, !.LastPKValue = currentPK']
      <3>1. cur \in Tables /\ prog[cur] \in Progress
        BY <1>7, <1>t DEF AdvancePK, TypeOK
      <3>2. n \in Nat
        BY <3>1, <2>2 DEF Progress
      <3>3. q \in Progress
        BY <3>1, <3>2, <2>1, ProgressUpdate
      <3>4. prog' = [prog EXCEPT ![cur] = q]
        BY <1>7, <3>1, Zenon DEF AdvancePK, TypeOK
      <3> QED
        BY <3>1, <3>3, <3>4 DEF TypeOK
    <2>4. file' \in [Tables -> Progress] \cup {NoState} /\ faults' \in Nat
      BY <1>7, <2>3, SaveType DEF AdvancePK
    <2> QED
      BY <1>7, <2>1, <2>3, <2>4 DEF AdvancePK, TypeOK
  <1>8. CASE LastChunk
    BY <1>8 DEF LastChunk, TypeOK
  <1>9. CASE OpenCursor
    BY <1>9, <1>t DEF OpenCursor, TypeOK
  <1>10. CASE ReadBatch
    <2>1. chunk' \in SUBSET Keys /\ unread' \in SUBSET Keys
      BY <1>10 DEF ReadBatch, TypeOK
    <2>2. faults' \in Nat
      BY <1>10 DEF ReadBatch, Fault, TypeOK
    <2>3. pc' \in {"batch", "copy"}
      BY <1>10 DEF ReadBatch
    <2> QED
      BY <1>10, <2>1, <2>2, <2>3 DEF ReadBatch, TypeOK
  <1>11. CASE AdvanceCursor
    <2>1. Cardinality(chunk) \in Nat
      BY KeysAssumption, FS_Subset, FS_CardinalityType DEF TypeOK
    <2>2. prog' \in [Tables -> Progress]
      <3> DEFINE n == prog[cur].CompletedRows + Cardinality(chunk)
                 q == [prog[cur] EXCEPT !.CompletedRows = n]
      <3>1. cur \in Tables /\ prog[cur] \in Progress
        BY <1>11, <1>t DEF AdvanceCursor, TypeOK
      <3>2. n \in Nat
        BY <3>1, <2>1 DEF Progress
      <3>3. q \in Progress
        BY <3>1, <3>2, ProgressUpdate
      <3>4. prog' = [prog EXCEPT ![cur] = q]
        BY <1>11, <3>1, Zenon DEF AdvanceCursor, TypeOK
      <3> QED
        BY <3>1, <3>3, <3>4 DEF TypeOK
    <2>3. file' \in [Tables -> Progress] \cup {NoState} /\ faults' \in Nat
      <3>1. CASE saveState(prog')
        BY <3>1, <2>2, SaveType
      <3>2. CASE UNCHANGED <<file, faults>>
        BY <3>2 DEF TypeOK
      <3> QED
        BY <1>11, <3>1, <3>2 DEF AdvanceCursor
    <2> QED
      BY <1>11, <2>2, <2>3 DEF AdvanceCursor, TypeOK
  <1>12. CASE LastBatch
    BY <1>12 DEF LastBatch, TypeOK
  <1>l. pc = "copy" => Loaded \in [Tables -> [Keys -> Nat]]
    <2> SUFFICES ASSUME pc = "copy" PROVE Loaded \in [Tables -> [Keys -> Nat]]
      OBVIOUS
    <2> DEFINE row == [k \in Keys |-> target[cur][k] + (IF k \in chunk THEN 1 ELSE 0)]
    <2>1. cur \in Tables /\ target[cur] \in [Keys -> Nat]
      BY <1>t DEF TypeOK
    <2>2. row \in [Keys -> Nat]
      BY <2>1
    <2>3. Loaded = [target EXCEPT ![cur] = row]
      BY <2>1 DEF Loaded, TypeOK
    <2> QED
      BY <2>1, <2>2, <2>3 DEF TypeOK
  <1>13. CASE CopyFrom
    BY <1>13, <1>l DEF CopyFrom, TypeOK
  <1>14. CASE CopyConflict
    BY <1>14 DEF CopyConflict, TypeOK
  <1>15. CASE FinishTable
    <2>1. prog' \in [Tables -> Progress]
      BY <1>15 DEF FinishTable, TypeOK, Progress, Statuses
    <2>2. file' \in [Tables -> Progress] \cup {NoState} /\ faults' \in Nat
      BY <1>15, <2>1, SaveType DEF FinishTable
    <2>3. idx' \in 1 .. Len(TableOrder) + 1
      BY <1>15, <1>t, <1>o DEF FinishTable
    <2> QED
      BY <1>15, <2>1, <2>2, <2>3 DEF FinishTable, TypeOK
  <1>16. CASE FailTable
    <2>1. [prog EXCEPT ![cur].status = "failed"] \in [Tables -> Progress]
      BY DEF TypeOK, Progress, Statuses
    <2> QED
      BY <1>16, <2>1, SaveType, ShutdownType DEF FailTable
  <1>17. CASE Exit
    BY <1>17, ShutdownType DEF Exit, TypeOK
  <1>18. CASE QueryError
    BY <1>18 DEF QueryError, Fault, TypeOK
  <1>19. CASE CopyError
    <2>1. target' \in [Tables -> [Keys -> Nat]]
      BY <1>19, <1>l DEF CopyError, TypeOK
    <2>2. faults' \in Nat
      BY <1>19 DEF CopyError, Fault, TypeOK
    <2> QED
      BY <1>19, <1>t, <2>1, <2>2 DEF CopyError, TypeOK
  <1>20. CASE Crash
    BY <1>20, ShutdownType DEF Crash, Fault, TypeOK
  <1>21. CASE TornSave
    BY <1>21, ShutdownType DEF TornSave, Fault, TypeOK
  <1>22. CASE SourceInsert
    BY <1>22 DEF SourceInsert, Fault, TypeOK
  <1>23. CASE UNCHANGED vars
    BY <1>23 DEF vars, TypeOK
  <1> QED
    BY <1>1, <1>2, <1>3, <1>4, <1>5, <1>6, <1>7, <1>8, <1>9, <1>10, <1>11, <1>12,
       <1>13, <1>14, <1>15, <1>16, <1>17, <1>18, <1>19, <1>20, <1>21, <1>22, <1>23
       DEF Next, Process, Environment

\* Every variable of the loader keeps its type in every behaviour.
THEOREM TypeCorrect == Spec => []TypeOK
  <1>1. Init => TypeOK
    BY InitType
  <1>2. TypeOK /\ [Next]_vars => TypeOK'
    BY StepType
  <1> QED
    BY <1>1, <1>2, PTL DEF Spec

-----------------------------------------------------------------------------
(* Safety.  The hypotheses are those of the loader's documentation: keys     *)
(* that stay clear of the ends of the number types, and reads that are       *)
(* either complete or reported as failed.                                    *)

\* ProgressSound with the rows wanted and the rows present as arguments.
SoundFor(p, want, have) ==
    \A t \in Tables :
        /\ p[t].status = "completed" => want[t] \subseteq have[t]
        /\ t \in PKTables /\ p[t].LastPKValue # None =>
              /\ p[t].LastPKValue \in Exact
              /\ \A k \in want[t] : k < p[t].LastPKValue => k \in have[t]

\* The two forms agree.
LEMMA SoundForm ==
    /\ \A p : ProgressSound(p) <=> SoundFor(p, baseline, Have)
    /\ ProgressSound(prog)' <=> SoundFor(prog', baseline', Have')
    /\ ProgressSound(file)' <=> SoundFor(file', baseline', Have')
  BY DEF ProgressSound, SoundFor, Covered

\* A sound progress map stays sound while the target only gains rows.
LEMMA SoundGrows ==
    ASSUME NEW p, NEW want, NEW have, NEW more, SoundFor(p, want, have),
           \A t \in Tables : have[t] \subseteq more[t]
    PROVE  SoundFor(p, want, more)
  BY DEF SoundFor

\* A map that agrees with a sound one on what it claims is sound.
LEMMA SoundClaims ==
    ASSUME NEW p, NEW q, NEW want, NEW have, SoundFor(p, want, have),
           \A t \in Tables :
              /\ q[t].status = "completed" => p[t].status = "completed"
              /\ q[t].LastPKValue = p[t].LastPKValue
    PROVE  SoundFor(q, want, have)
  BY DEF SoundFor

\* A fresh map claims nothing.
LEMMA SoundFresh == ASSUME NEW want, NEW have PROVE SoundFor(Fresh, want, have)
  BY DEF SoundFor, Fresh

\* Reading a sound state file back gives what was written.
LEMMA DecodedRecord ==
    ASSUME TypeOK, NEW want, NEW have, file # NoState => SoundFor(file, want, have),
           NEW t \in Tables
    PROVE  /\ Decode(file)[t].status = (IF file = NoState THEN "pending" ELSE file[t].status)
           /\ file = NoState => Decode(file)[t].LastPKValue = None
           /\ file # NoState /\ (t \in PKTables \/ file[t].LastPKValue = None) =>
                 Decode(file)[t].LastPKValue = file[t].LastPKValue
  <1>1. CASE file = NoState
    BY <1>1 DEF Decode, Fresh
  <1>2. CASE file # NoState
    <2>1. file[t] \in Progress
      BY <1>2 DEF TypeOK
    <2>2. file[t].LastPKValue = None \/ t \notin PKTables
          \/ Float64(file[t].LastPKValue) = file[t].LastPKValue
      BY <1>2, <2>1 DEF SoundFor, Exact, Float64
    <2> QED
      BY <1>2, <2>1, <2>2 DEF Decode, Progress
  <1> QED
    BY <1>1, <1>2

\* What a COPY adds, in copies of a row.
LEMMA LoadedCounts ==
    ASSUME TypeOK, pc = "copy"
    PROVE  \A t \in Tables, k \in Keys :
              Loaded[t][k] = IF t = cur /\ k \in chunk THEN target[t][k] + 1 ELSE target[t][k]
  <1> SUFFICES ASSUME NEW t \in Tables, NEW k \in Keys
               PROVE  Loaded[t][k] = IF t = cur /\ k \in chunk THEN target[t][k] + 1 ELSE target[t][k]
    OBVIOUS
  <1>1. target[t][k] \in Nat
    BY DEF TypeOK
  <1>2. CASE t = cur
    <2>1. Loaded[t] = [x \in Keys |-> target[cur][x] + (IF x \in chunk THEN 1 ELSE 0)]
      BY <1>2, Zenon DEF Loaded, TypeOK
    <2> QED
      BY <1>1, <1>2, <2>1
  <1>3. CASE t # cur
    BY <1>3 DEF Loaded, TypeOK
  <1> QED
    BY <1>2, <1>3

\* And in rows.
LEMMA LoadedRows ==
    ASSUME TypeOK, pc = "copy"
    PROVE  /\ \A t \in Tables, k \in Keys : target[t][k] > 0 => Loaded[t][k] > 0
           /\ \A k \in chunk : Loaded[cur][k] > 0
  <1>1. cur \in Tables /\ chunk \subseteq Keys
    BY CurIsTable, OrderAssumption DEF TypeOK, cur
  <1>2. \A t \in Tables, k \in Keys : target[t][k] \in Nat
    BY DEF TypeOK
  <1> QED
    BY <1>1, <1>2, LoadedCounts

\* No step removes a row from the target.
LEMMA HaveGrows ==
    ASSUME TypeOK, [Next]_vars
    PROVE  \A t \in Tables : Have[t] \subseteq Have'[t]
  <1>1. target' = target \/ (pc = "copy" /\ target' = Loaded)
    BY DEF Next, Process, Environment, vars, NewLoader, SkipTable, BeginTable,
           CountRows, FetchRange, ReadChunk, AdvancePK, LastChunk, OpenCursor, ReadBatch,
           AdvanceCursor, LastBatch, CopyFrom, CopyConflict, FinishTable, FailTable,
           Exit, QueryError, CopyError, Crash, TornSave, SourceInsert
  <1>2. CASE target' = target
    BY <1>2 DEF Have
  <1>3. CASE pc = "copy" /\ target' = Loaded
    BY <1>3, LoadedRows DEF Have
  <1> QED
    BY <1>1, <1>2, <1>3

\* The process may end at any point: only the file has to be sound.
LEMMA ShutdownInv ==
    ASSUME IInv, Shutdown, UNCHANGED databases,
           file' # NoState => SoundFor(file', baseline', Have')
    PROVE  IInv'
  <1>1. SourceInv'
    BY DEF IInv, SourceInv, databases
  <1>2. ModeInv' /\ ChunkInv' /\ CursorInv' /\ FinishInv'
    BY DEF Shutdown, ModeInv, ChunkInv, CursorInv, FinishInv
  <1>3. ProgressInv'
    BY SoundForm, SoundFresh DEF Shutdown, ProgressInv
  <1> QED
    BY <1>1, <1>2, <1>3 DEF IInv

\* Whatever saveState does to the file, it leaves a sound one.
LEMMA SaveSound ==
    ASSUME NEW p, saveState(p), SoundFor(p, baseline', Have'),
           file # NoState => SoundFor(file, baseline', Have')
    PROVE  file' # NoState => SoundFor(file', baseline', Have')
  BY DEF saveState

\* And, when memory is ahead of the file, no completed table is forgotten.
LEMMA SaveKeeps ==
    ASSUME NEW p, saveState(p), NEW q,
           \A t \in Tables : p[t].status = "completed" => q[t].status = "completed",
           \A t \in Tables : Saved(t) => q[t].status = "completed"
    PROVE  \A t \in Tables : Saved(t)' => q[t].status = "completed"
  BY DEF saveState, Saved

\* The initial states satisfy the invariant.
LEMMA InitInv == Init => IInv
  <1> SUFFICES ASSUME Init PROVE IInv
    OBVIOUS
  <1>1. ProgressInv
    BY SoundForm, SoundFresh DEF Init, ProgressInv
  <1> QED
    BY <1>1 DEF Init, IInv, SourceInv, ModeInv, ChunkInv, CursorInv, FinishInv

\* Every step preserves the invariant.
LEMMA StepInv ==
    ASSUME KeysInRange, "readTruncated" \notin Faults, TypeOK, TypeOK', IInv, [Next]_vars
    PROVE  IInv'
  <1> USE DEF databases, memory, cur
  <1>t. pc \notin {"down", "table"} => cur \in Tables
    BY CurIsTable, OrderAssumption DEF TypeOK
  <1>s. /\ SoundFor(prog, baseline, Have')
        /\ file # NoState => SoundFor(file, baseline, Have')
    BY HaveGrows, SoundForm, SoundGrows DEF IInv, ProgressInv
  <1>b. \A t \in Tables : \A k \in baseline[t] : k \in Keys /\ k \in Int /\ k \in source[t]
    BY KeysAssumption DEF TypeOK, IInv, SourceInv
  <1>i. ExactBound \in Nat /\ BatchSize \in Nat \ {0} /\ Exact \subseteq Int
        /\ MaxInt \in Int /\ ExactBound <= MaxInt
    BY IntAssumption, BatchAssumption DEF Exact, KeysInRange
  <1>f. ~ Fault("readTruncated")
    BY DEF Fault
  <1>1. CASE NewLoader
    <2>1. ASSUME NEW t \in Tables
          PROVE  /\ Decode(file)[t].status = (IF file = NoState THEN "pending" ELSE file[t].status)
                 /\ file = NoState => Decode(file)[t].LastPKValue = None
                 /\ file # NoState /\ t \in PKTables => Decode(file)[t].LastPKValue = file[t].LastPKValue
      BY <1>s, DecodedRecord
    <2>2. SoundFor(prog', baseline', Have')
      BY <1>1, <1>s, <2>1 DEF NewLoader, SoundFor
    <2>3. ProgressInv'
      BY <1>1, <1>s, <2>1, <2>2, SoundForm DEF NewLoader, ProgressInv, Saved
    <2> QED
      BY <1>1, <2>3 DEF NewLoader, IInv, SourceInv, ModeInv, ChunkInv, CursorInv, FinishInv
  <1>2. CASE SkipTable
    <2>1. ProgressInv'
      BY <1>2, <1>s, SoundForm DEF SkipTable, ProgressInv, IInv, Saved
    <2> QED
      BY <1>2, <2>1 DEF SkipTable, IInv, SourceInv, ModeInv, ChunkInv, CursorInv, FinishInv
  <1>3. CASE BeginTable
    <2>1. \A t \in Tables :
            /\ prog'[t].status = "completed" <=> prog[t].status = "completed"
            /\ prog'[t].LastPKValue = prog[t].LastPKValue
      BY <1>3 DEF BeginTable, SetStatus, TypeOK, Progress
    <2>2. SoundFor(prog', baseline', Have')
      BY <1>3, <1>s, <2>1, SoundClaims DEF BeginTable
    <2>3. file' # NoState => SoundFor(file', baseline', Have')
      BY <1>3, <1>s, <2>2, SaveSound DEF BeginTable
    <2>4. \A t \in Tables : Saved(t)' => prog'[t].status = "completed"
      BY <1>3, <2>1, SaveKeeps DEF BeginTable, IInv, ProgressInv
    <2>5. prog'[cur'].status # "completed"
      BY <1>3, <2>1, CurIsTable, OrderAssumption DEF BeginTable, TypeOK
    <2>6. ProgressInv'
      BY <2>2, <2>3, <2>4, <2>5, SoundForm DEF ProgressInv
    <2> QED
      BY <1>3, <2>6 DEF BeginTable, IInv, SourceInv, ModeInv, ChunkInv, CursorInv, FinishInv
  <1>4. CASE CountRows
    <2>1. ProgressInv'
      BY <1>4, <1>s, SoundForm DEF CountRows, ProgressInv, IInv, Saved
    <2> QED
      BY <1>4, <2>1 DEF CountRows, IInv, SourceInv, ModeInv, ChunkInv, CursorInv, FinishInv
  <1>5. CASE FetchRange
    <2>0. cur \in PKTables /\ cur \in Tables /\ pc = "range"
      BY <1>5, <1>t DEF FetchRange, IInv, ModeInv
    <2>1. ProgressInv'
      BY <1>5, <1>s, SoundForm DEF FetchRange, ProgressInv, IInv, Saved
    <2>2. PICK lo \in Keys \cup {0}, hi \in Keys \cup {0} :
            /\ IsMin(lo, source[cur]) /\ IsMax(hi, source[cur])
            /\ maxVal' = hi
            /\ IF prog[cur].LastPKValue = None
               THEN currentPK' = lo
               ELSE currentPK' \in Int64(prog[cur].LastPKValue)
      BY <1>5 DEF FetchRange
    <2>3. \A k \in baseline[cur] : lo <= k /\ k <= hi
      BY <1>b, <2>0, <2>2 DEF IsMin, IsMax
    <2>4. currentPK' \in Exact /\ \A k \in baseline[cur] : k < currentPK' => k \in Have[cur]
      <3>1. CASE prog[cur].LastPKValue = None
        <4>1. currentPK' = lo /\ lo \in Exact
          BY <2>2, <3>1 DEF KeysInRange
        <4> QED
          BY <4>1, <2>0, <2>3, <1>b, <1>i
      <3>2. CASE prog[cur].LastPKValue # None
        <4>1. prog[cur].LastPKValue \in Exact
              /\ \A k \in baseline[cur] : k < prog[cur].LastPKValue => k \in Have[cur]
          BY <2>0, <3>2 DEF IInv, ProgressInv, ProgressSound, Covered
        <4>2. currentPK' = prog[cur].LastPKValue
          BY <2>2, <3>2, <4>1, <1>i DEF Int64, Exact
        <4> QED
          BY <4>1, <4>2
      <3> QED
        BY <3>1, <3>2
    <2>5. ChunkInv'
      BY <1>5, <2>2, <2>3, <2>4 DEF FetchRange, ChunkInv, Covered, Have
    <2> QED
      BY <1>5, <2>0, <2>1, <2>5 DEF FetchRange, IInv, SourceInv, ModeInv, CursorInv, FinishInv
  <1>6. CASE ReadChunk
    <2>0. cur \in PKTables /\ cur \in Tables /\ pc = "chunk" /\ currentPK <= maxVal
      BY <1>6, <1>t DEF ReadChunk, IInv, ModeInv
    <2>1. ProgressInv'
      BY <1>6, <2>0, <1>s, SoundForm DEF ReadChunk, ProgressInv, IInv, Saved
    <2>2. /\ currentPK \in Exact /\ maxVal \in Keys \cup {0}
          /\ Covered(cur, currentPK) /\ \A k \in baseline[cur] : k <= maxVal
      BY <2>0 DEF IInv, ChunkInv
    <2>3. Wrap(currentPK + BatchSize) = currentPK + BatchSize
      <3>1. maxVal \in Int /\ maxVal + BatchSize \in Exact
        BY <2>2, <1>i DEF KeysInRange, TypeOK
      <3>2. currentPK \in Int /\ currentPK + BatchSize <= ExactBound
        BY <2>0, <2>2, <3>1, <1>i DEF Exact
      <3> QED
        BY <3>2, <1>i DEF Wrap
    <2>4. chunk' = {k \in source[cur] : currentPK <= k /\ k < currentPK + BatchSize}
      BY <1>6, <1>f, <2>3 DEF ReadChunk
    <2>5. \A k \in baseline[cur] : currentPK <= k /\ k < currentPK + BatchSize => k \in chunk'
      BY <2>0, <2>4, <1>b
    <2>6. pc' = IF chunk' = {} THEN "advance" ELSE "copy"
      BY <1>6 DEF ReadChunk
    <2>7. ChunkInv'
      BY <1>6, <2>0, <2>2, <2>5, <2>6 DEF ReadChunk, ChunkInv, Covered, Have
    <2> QED
      BY <1>6, <2>0, <2>1, <2>6, <2>7 DEF ReadChunk, IInv, SourceInv, ModeInv, CursorInv, FinishInv
  <1>7. CASE AdvancePK
    <2>0. cur \in PKTables /\ cur \in Tables /\ pc = "advance"
      BY <1>7, <1>t DEF AdvancePK
    <2>1. /\ currentPK \in Exact /\ maxVal \in Keys \cup {0} /\ currentPK <= maxVal
          /\ Covered(cur, currentPK) /\ \A k \in baseline[cur] : k <= maxVal
          /\ \A k \in baseline[cur] :
                currentPK <= k /\ k < currentPK + BatchSize => k \in Have[cur]
      BY <2>0 DEF IInv, ChunkInv
    <2>2. currentPK' = currentPK + BatchSize /\ currentPK' \in Exact
      <3>1. maxVal \in Int /\ maxVal + BatchSize \in Exact
        BY <2>1, <1>i DEF KeysInRange, TypeOK
      <3>2. currentPK \in Int /\ currentPK + BatchSize \in Exact
        BY <2>1, <3>1, <1>i DEF Exact
      <3> QED
        BY <1>7, <3>2, <1>i DEF AdvancePK, Wrap, Exact
    <2>3. \A k \in baseline[cur] : k < currentPK' => k \in Have[cur]
      BY <2>0, <2>1, <2>2, <1>b, <1>i DEF Covered
    <2>h. baseline' = baseline /\ Have' = Have /\ cur' = cur
      BY <1>7 DEF AdvancePK, Have
    <2>4. \A t \in Tables :
            /\ prog'[t].status = prog[t].status
            /\ prog'[t].LastPKValue = IF t = cur THEN currentPK' ELSE prog[t].LastPKValue
      <3> DEFINE q == [prog[cur] EXCEPT !.CompletedRows = @ + Cardinality(chunk),
                                        !.LastPKValue = currentPK']
      <3>1. prog' = [prog EXCEPT ![cur] = q]
        BY <1>7, <2>0, Zenon DEF AdvancePK, TypeOK
      <3>2. q.status = prog[cur].status /\ q.LastPKValue = currentPK'
        BY <2>0 DEF TypeOK, Progress
      <3> QED
        BY <3>1, <3>2 DEF TypeOK
    <2>5. SoundFor(prog', baseline', Have')
      BY <1>s, <2>0, <2>2, <2>3, <2>h, <2>4 DEF SoundFor
    <2>6. file' # NoState => SoundFor(file', baseline', Have')
      BY <1>7, <1>s, <2>h, <2>5, SaveSound DEF AdvancePK
    <2>7. \A t \in Tables : Saved(t)' => prog'[t].status = "completed"
      <3>1. \A t \in Tables : Saved(t) => prog'[t].status = "completed"
        BY <2>0, <2>4 DEF IInv, ProgressInv
      <3> QED
        BY <1>7, <3>1, SaveKeeps DEF AdvancePK
    <2>8. ProgressInv'
      <3>1. prog'[cur'].status # "completed"
        BY <2>0, <2>4, <2>h DEF ProgressInv, IInv
      <3>2. pc' = "chunk"
        BY <1>7 DEF AdvancePK
      <3> QED
        BY <2>5, <2>6, <2>7, <3>1, <3>2, SoundForm DEF ProgressInv
    <2>9. ChunkInv'
      BY <1>7, <2>1, <2>2, <2>3, <2>h DEF AdvancePK, ChunkInv, Covered
    <2> QED
      BY <1>7, <2>0, <2>8, <2>9, <2>h
         DEF AdvancePK, IInv, SourceInv, ModeInv, CursorInv, FinishInv
  <1>8. CASE LastChunk
    <2>0. cur \in PKTables /\ cur \in Tables /\ pc = "chunk" /\ currentPK > maxVal
      BY <1>8, <1>t DEF LastChunk, IInv, ModeInv
    <2>1. ProgressInv'
      BY <1>8, <2>0, <1>s, SoundForm DEF LastChunk, ProgressInv, IInv, Saved
    <2>2. baseline[cur] \subseteq Have[cur]
      <3>1. /\ currentPK \in Exact /\ maxVal \in Keys \cup {0}
            /\ Covered(cur, currentPK) /\ \A k \in baseline[cur] : k <= maxVal
        BY <2>0 DEF IInv, ChunkInv
      <3>2. \A k \in baseline[cur] : k < currentPK
        BY <2>0, <3>1, <1>b, <1>i DEF TypeOK
      <3> QED
        BY <3>1, <3>2 DEF Covered
    <2> QED
      BY <1>8, <2>1, <2>2 DEF LastChunk, IInv, SourceInv, ModeInv, ChunkInv, CursorInv, FinishInv, Have
  <1>9. CASE OpenCursor
    <2>0. cur \notin PKTables /\ cur \in Tables /\ pc = "open"
      BY <1>9, <1>t DEF OpenCursor, IInv, ModeInv
    <2>1. ProgressInv'
      BY <1>9, <2>0, <1>s, SoundForm DEF OpenCursor, ProgressInv, IInv, Saved
    <2> QED
      BY <1>9, <2>0, <2>1, <1>b
         DEF OpenCursor, IInv, SourceInv, ModeInv, ChunkInv, CursorInv, FinishInv
  <1>10. CASE ReadBatch
    <2>0. cur \notin PKTables /\ cur \in Tables /\ pc = "batch"
      BY <1>10, <1>t DEF ReadBatch, IInv, ModeInv
    <2>1. ProgressInv'
      BY <1>10, <2>0, <1>s, SoundForm DEF ReadBatch, ProgressInv, IInv, Saved
    <2>2. /\ chunk' \subseteq unread /\ unread' = unread \ chunk'
          /\ pc' = IF chunk' = {} THEN "batch" ELSE "copy"
      BY <1>10, <1>f DEF ReadBatch
    <2>3. \A k \in baseline[cur] : k \in Have[cur] \/ k \in unread' \/ (pc' = "copy" /\ k \in chunk')
      BY <2>0, <2>2 DEF IInv, CursorInv
    <2> QED
      BY <1>10, <2>0, <2>1, <2>2, <2>3
         DEF ReadBatch, IInv, SourceInv, ModeInv, ChunkInv, CursorInv, FinishInv, Have
  <1>11. CASE AdvanceCursor
    <2>0. cur \notin PKTables /\ cur \in Tables /\ pc = "advance"
      BY <1>11, <1>t DEF AdvanceCursor
    <2>1. \A t \in Tables :
            /\ prog'[t].status = prog[t].status
            /\ prog'[t].LastPKValue = prog[t].LastPKValue
      BY <1>11 DEF AdvanceCursor, TypeOK, Progress
    <2>2. SoundFor(prog', baseline', Have')
      BY <1>11, <1>s, <2>1, SoundClaims DEF AdvanceCursor
    <2>3. file' # NoState => SoundFor(file', baseline', Have')
      BY <1>11, <1>s, <2>2, SaveSound DEF AdvanceCursor
    <2>4. \A t \in Tables : Saved(t)' => prog'[t].status = "completed"
      <3>1. \A t \in Tables : Saved(t) => prog'[t].status = "completed"
        BY <2>0, <2>1 DEF IInv, ProgressInv
      <3>2. CASE saveState(prog')
        BY <3>1, <3>2, SaveKeeps
      <3>3. CASE UNCHANGED <<file, faults>>
        BY <3>1, <3>3 DEF Saved
      <3> QED
        BY <1>11, <3>2, <3>3 DEF AdvanceCursor
    <2>5. ProgressInv'
      BY <1>11, <2>0, <2>1, <2>2, <2>3, <2>4, SoundForm DEF AdvanceCursor, ProgressInv, IInv
    <2> QED
      BY <1>11, <2>0, <2>5
         DEF AdvanceCursor, IInv, SourceInv, ModeInv, ChunkInv, CursorInv, FinishInv, Have
  <1>12. CASE LastBatch
    <2>0. cur \notin PKTables /\ cur \in Tables /\ pc = "batch" /\ unread = {}
      BY <1>12, <1>t DEF LastBatch, IInv, ModeInv
    <2>1. ProgressInv'
      BY <1>12, <2>0, <1>s, SoundForm DEF LastBatch, ProgressInv, IInv, Saved
    <2>2. baseline[cur] \subseteq Have[cur]
      BY <2>0 DEF IInv, CursorInv
    <2> QED
      BY <1>12, <2>1, <2>2 DEF LastBatch, IInv, SourceInv, ModeInv, ChunkInv, CursorInv, FinishInv, Have
  <1>13. CASE CopyFrom
    <2>0. cur \in Tables /\ pc = "copy" /\ cur' = cur /\ baseline' = baseline
      BY <1>13, <1>t DEF CopyFrom
    <2>1. ProgressInv'
      BY <1>13, <2>0, <1>s, SoundForm DEF CopyFrom, ProgressInv, IInv, Saved
    <2>2. Have[cur] \subseteq Have'[cur]
      BY <2>0, HaveGrows
    <2>3. chunk \subseteq Have'[cur]
      BY <1>13, <2>0, LoadedRows DEF CopyFrom, Have, TypeOK
    <2>4. ChunkInv'
      BY <1>13, <2>0, <2>2, <2>3 DEF CopyFrom, ChunkInv, Covered, IInv
    <2>5. CursorInv'
      BY <1>13, <2>0, <2>2, <2>3 DEF CopyFrom, CursorInv, IInv
    <2> QED
      BY <1>13, <2>1, <2>4, <2>5 DEF CopyFrom, IInv, SourceInv, ModeInv, FinishInv
  <1>14. CASE CopyConflict
    <2>1. ProgressInv'
      BY <1>14, <1>s, SoundForm DEF CopyConflict, ProgressInv, IInv, Saved
    <2> QED
      BY <1>14, <2>1 DEF CopyConflict, IInv, SourceInv, ModeInv, ChunkInv, CursorInv, FinishInv
  <1>15. CASE FinishTable
    <2>0. cur \in Tables /\ pc = "finish" /\ baseline' = baseline /\ Have' = Have
      BY <1>15, <1>t DEF FinishTable, Have
    <2>1. \A t \in Tables :
            /\ prog'[t].status = IF t = cur THEN "completed" ELSE prog[t].status
            /\ prog'[t].LastPKValue = prog[t].LastPKValue
      <3> DEFINE q == [prog[cur] EXCEPT !.status = "completed", !.CompletedRows = totalRows]
      <3>1. prog' = [prog EXCEPT ![cur] = q]
        BY <1>15, <2>0, Zenon DEF FinishTable, TypeOK
      <3>2. q.status = "completed" /\ q.LastPKValue = prog[cur].LastPKValue
        BY <2>0 DEF TypeOK, Progress
      <3> QED
        BY <3>1, <3>2 DEF TypeOK
    <2>2. SoundFor(prog', baseline', Have')
      BY <1>s, <2>0, <2>1 DEF SoundFor, IInv, FinishInv
    <2>3. file' # NoState => SoundFor(file', baseline', Have')
      BY <1>15, <1>s, <2>0, <2>2, SaveSound DEF FinishTable
    <2>4. \A t \in Tables : Saved(t)' => prog'[t].status = "completed"
      <3>1. \A t \in Tables : Saved(t) => prog'[t].status = "completed"
        BY <2>0, <2>1 DEF IInv, ProgressInv
      <3> QED
        BY <1>15, <3>1, SaveKeeps DEF FinishTable
    <2>5. ProgressInv'
      BY <1>15, <2>2, <2>3, <2>4, SoundForm DEF FinishTable, ProgressInv
    <2> QED
      BY <1>15, <2>5 DEF FinishTable, IInv, SourceInv, ModeInv, ChunkInv, CursorInv, FinishInv
  <1>16. CASE FailTable
    <2> DEFINE p == [prog EXCEPT ![cur].status = "failed"]
    <2>1. \A t \in Tables :
            /\ p[t].status = "completed" => prog[t].status = "completed"
            /\ p[t].LastPKValue = prog[t].LastPKValue
      BY DEF TypeOK, Progress
    <2>2. saveState(p) /\ Shutdown /\ UNCHANGED databases /\ baseline' = baseline
      BY <1>16 DEF FailTable
    <2>3. SoundFor(p, baseline', Have')
      <3> HIDE DEF p
      <3> QED
        BY <1>s, <2>1, <2>2, SoundClaims
    <2>4. file' # NoState => SoundFor(file', baseline', Have')
      BY <1>s, <2>2, <2>3, SaveSound
    <2> QED
      BY <2>2, <2>4, ShutdownInv
  <1>17. CASE Exit
    BY <1>17, <1>s, ShutdownInv DEF Exit
  <1>18. CASE QueryError
    <2>1. pc' = "fail" /\ pc \notin {"down", "table"} /\ UNCHANGED <<databases, target, file, memory>>
      BY <1>18 DEF QueryError
    <2>2. ProgressInv'
      BY <2>1, <1>s, SoundForm DEF ProgressInv, IInv, Saved
    <2> QED
      BY <2>1, <2>2 DEF IInv, SourceInv, ModeInv, ChunkInv, CursorInv, FinishInv
  <1>19. CASE CopyError
    <2>1. pc' = "fail" /\ pc = "copy" /\ UNCHANGED <<databases, file, memory>>
      BY <1>19 DEF CopyError
    <2>2. ProgressInv'
      BY <2>1, <1>s, SoundForm DEF ProgressInv, IInv, Saved
    <2> QED
      BY <2>1, <2>2 DEF IInv, SourceInv, ModeInv, ChunkInv, CursorInv, FinishInv
  <1>20. CASE Crash
    BY <1>20, <1>s, ShutdownInv DEF Crash
  <1>21. CASE TornSave
    BY <1>21, ShutdownInv DEF TornSave
  <1>22. CASE SourceInsert
    <2>1. \A t \in Tables : source[t] \subseteq source'[t]
      BY <1>22 DEF SourceInsert, TypeOK
    <2>2. ProgressInv'
      BY <1>22, <1>s, SoundForm DEF SourceInsert, ProgressInv, IInv, Saved
    <2> QED
      BY <1>22, <2>1, <2>2
         DEF SourceInsert, IInv, SourceInv, ModeInv, ChunkInv, CursorInv, FinishInv, Have, Covered
  <1>23. CASE UNCHANGED vars
    <2>1. ProgressInv'
      BY <1>23, <1>s, SoundForm DEF vars, ProgressInv, IInv, Saved
    <2> QED
      BY <1>23, <2>1
         DEF vars, IInv, SourceInv, ModeInv, ChunkInv, CursorInv, FinishInv, Have, Covered
  <1> QED
    BY <1>1, <1>2, <1>3, <1>4, <1>5, <1>6, <1>7, <1>8, <1>9, <1>10, <1>11, <1>12,
       <1>13, <1>14, <1>15, <1>16, <1>17, <1>18, <1>19, <1>20, <1>21, <1>22, <1>23
       DEF Next, Process, Environment

\* The inductive invariant holds in every behaviour: the progress in memory and
\* on disk, and the positions of both loops of StreamTable, claim no row that is
\* not in the target.
THEOREM LoaderInvariant ==
    ASSUME KeysInRange, "readTruncated" \notin Faults
    PROVE  Spec => [](TypeOK /\ IInv)
  <1>1. Init => TypeOK /\ IInv
    BY InitType, InitInv
  <1>2. TypeOK /\ IInv /\ [Next]_vars => (TypeOK /\ IInv)'
    BY StepType, StepInv
  <1> QED
    BY <1>1, <1>2, PTL DEF Spec

\* Crashes, failed and torn saves, lost commits and a source that keeps growing
\* notwithstanding, the saved checkpoint of a table never passes a row that is
\* not in the target.
THEOREM CheckpointsAreSound ==
    ASSUME KeysInRange, "readTruncated" \notin Faults
    PROVE  Spec => []CheckpointSound
  <1>1. TypeOK /\ IInv => CheckpointSound
    BY TablesAssumption DEF IInv, ProgressInv, ProgressSound, CheckpointSound
  <1> QED
    BY <1>1, LoaderInvariant, PTL

\* Under the same conditions a table the state file calls completed has every
\* row that was in the source from the start.
THEOREM CompletedTablesAreComplete ==
    ASSUME KeysInRange, "readTruncated" \notin Faults
    PROVE  Spec => []CompletedIsComplete
  <1>1. TypeOK /\ IInv => CompletedIsComplete
    BY DEF IInv, ProgressInv, ProgressSound, CompletedIsComplete, Saved
  <1> QED
    BY <1>1, LoaderInvariant, PTL

-----------------------------------------------------------------------------
(* Refinement.                                                               *)

\* A step that saves leaves every completed table completed; the only other
\* thing that happens to the file is that it is lost.
LEMMA FileKeeps ==
    ASSUME TypeOK, IInv, [Next]_vars
    PROVE  file' = NoState \/ \A t \in Tables : Saved(t) => Saved(t)'
  <1> DEFINE kept == \A t \in Tables : Saved(t) => Saved(t)'
  <1>a. CASE file' = file
    BY <1>a DEF Saved
  <1>b. ASSUME NEW p, saveState(p), file' # NoState,
               \A t \in Tables : Saved(t) => p[t].status = "completed"
        PROVE  kept
    BY <1>b DEF saveState, Saved
  <1>c. pc # "down" => \A t \in Tables : Saved(t) => prog[t].status = "completed"
    BY DEF IInv, ProgressInv
  <1>d. pc \notin {"down", "table"} => ~ Saved(cur)
    BY CurIsTable, OrderAssumption DEF IInv, ProgressInv, TypeOK, cur
  <1>1. CASE BeginTable
    <2>1. \A t \in Tables : Saved(t) => prog'[t].status = "completed"
      BY <1>1, <1>c DEF BeginTable, SetStatus, TypeOK
    <2> QED
      BY <1>1, <1>b, <2>1 DEF BeginTable
  <1>2. CASE AdvancePK
    <2>1. \A t \in Tables : Saved(t) => prog'[t].status = "completed"
      BY <1>2, <1>c, <1>d DEF AdvancePK, TypeOK
    <2> QED
      BY <1>2, <1>b, <2>1 DEF AdvancePK
  <1>3. CASE AdvanceCursor
    <2>1. \A t \in Tables : Saved(t) => prog'[t].status = "completed"
      BY <1>3, <1>c, <1>d DEF AdvanceCursor, TypeOK
    <2> QED
      BY <1>3, <1>a, <1>b, <2>1 DEF AdvanceCursor
  <1>4. CASE FinishTable
    <2>1. \A t \in Tables : Saved(t) => prog'[t].status = "completed"
      BY <1>4, <1>c, <1>d DEF FinishTable, TypeOK
    <2> QED
      BY <1>4, <1>b, <2>1 DEF FinishTable
  <1>5. CASE FailTable
    <2> DEFINE p == [prog EXCEPT ![cur].status = "failed"]
    <2>1. \A t \in Tables : Saved(t) => p[t].status = "completed"
      BY <1>5, <1>c, <1>d DEF FailTable, TypeOK
    <2>2. saveState(p)
      BY <1>5 DEF FailTable
    <2> HIDE DEF p
    <2> QED
      BY <2>1, <2>2, <1>b
  <1>6. CASE TornSave
    BY <1>6 DEF TornSave
  <1>7. CASE ~(BeginTable \/ AdvancePK \/ AdvanceCursor \/ FinishTable \/ FailTable \/ TornSave)
    <2>1. file' = file
      BY <1>7 DEF Next, Process, Environment, vars, NewLoader, SkipTable,
           CountRows, FetchRange, ReadChunk, LastChunk, OpenCursor, ReadBatch,
           LastBatch, CopyFrom, CopyConflict, Exit, QueryError, CopyError, Crash, SourceInsert
    <2> QED
      BY <2>1, <1>a
  <1> QED
    BY <1>1, <1>2, <1>3, <1>4, <1>5, <1>6, <1>7

\* Only a COPY changes the target, and it changes nothing the file claims.
LEMMA CopySteps ==
    ASSUME TypeOK, [Next]_vars
    PROVE  /\ baseline' = baseline
           /\ target' = target \/ (pc = "copy" /\ target' = Loaded /\ file' = file)
  BY DEF Next, Process, Environment, vars, databases, memory, NewLoader, SkipTable, BeginTable,
         CountRows, FetchRange, ReadChunk, AdvancePK, LastChunk, OpenCursor, ReadBatch,
         AdvanceCursor, LastBatch, CopyFrom, CopyConflict, FinishTable, FailTable,
         Exit, QueryError, CopyError, Crash, TornSave, SourceInsert

\* The rows present after a COPY.
LEMMA CopyArrives ==
    ASSUME TypeOK, pc = "copy", target' = Loaded
    PROVE  Have' = [Have EXCEPT ![cur] = @ \cup chunk]
  <1>1. cur \in Tables /\ chunk \subseteq Keys
    BY CurIsTable, OrderAssumption DEF TypeOK, cur
  <1>2. ASSUME NEW t \in Tables
        PROVE  {k \in Keys : Loaded[t][k] > 0} = IF t = cur THEN Have[t] \cup chunk ELSE Have[t]
    <2>1. CASE t = cur
      <3>1. Loaded[t] = [k \in Keys |-> target[cur][k] + (IF k \in chunk THEN 1 ELSE 0)]
        BY <2>1, Zenon DEF Loaded, TypeOK
      <3>2. \A k \in Keys : target[cur][k] \in Nat
        BY <1>1 DEF TypeOK
      <3>3. \A k \in Keys : Loaded[t][k] > 0 <=> target[cur][k] > 0 \/ k \in chunk
        BY <3>1, <3>2
      <3> QED
        BY <1>1, <2>1, <3>3 DEF Have
    <2>2. CASE t # cur
      BY <2>2 DEF Loaded, TypeOK, Have
    <2> QED
      BY <2>1, <2>2
  <1>3. Have' = [t \in Tables |-> {k \in Keys : Loaded[t][k] > 0}]
    BY DEF Have
  <1> QED
    BY <1>1, <1>2, <1>3 DEF Have

\* The loader implements the abstract transfer: every behaviour of it, seen
\* through the rows present and the tables saved as completed, is one of
\* Transfer's.
THEOREM LoaderImplementsTransfer ==
    ASSUME KeysInRange, "readTruncated" \notin Faults
    PROVE  Spec => ImplementsTransfer
  <1>1. Init => Transferred!Init
    <2> SUFFICES ASSUME Init PROVE Transferred!Init
      OBVIOUS
    <2>1. baseline \in [Tables -> SUBSET Keys]
      BY RowsAssumption DEF Init
    <2>2. Have = [t \in Tables |-> {}]
      BY DEF Init, Have
    <2> QED
      BY <2>1, <2>2 DEF Transferred!Init, Init, Saved
  <1>2. TypeOK /\ IInv /\ TypeOK' /\ IInv' /\ [Next]_vars => [Transferred!Next]_(Transferred!vars)
    <2> SUFFICES ASSUME TypeOK, IInv, TypeOK', IInv', [Next]_vars
                 PROVE  Transferred!Next \/ UNCHANGED Transferred!vars
      OBVIOUS
    <2> DEFINE done == {t \in Tables : Saved(t)}
    <2>1. CASE target' = target
      <3>1. Have' = Have /\ baseline' = baseline
        BY <2>1, CopySteps DEF Have
      <3>2. CASE file' = NoState
        <4>1. done' = {}
          BY <3>2 DEF Saved
        <4> QED
          BY <3>1, <4>1 DEF Transferred!Next, Transferred!Forget
      <3>3. CASE file' # NoState
        <4>1. done' = done \cup done'
          BY <3>3, FileKeeps
        <4>2. \A t \in done' : baseline[t] \subseteq Have[t]
          BY <3>1 DEF IInv, ProgressInv, ProgressSound, Saved
        <4>3. Transferred!Declare(done')
          BY <3>1, <4>1, <4>2 DEF Transferred!Declare
        <4>4. done' \in SUBSET Tables
          OBVIOUS
        <4> QED
          BY <4>3, <4>4 DEF Transferred!Next
      <3> QED
        BY <3>2, <3>3
    <2>2. CASE pc = "copy" /\ target' = Loaded /\ file' = file
      <3>1. cur \in Tables /\ chunk \in SUBSET Keys
        BY <2>2, CurIsTable, OrderAssumption DEF TypeOK, cur
      <3>2. done' = done
        BY <2>2 DEF Saved
      <3>3. Transferred!Arrive(cur, chunk)
        BY <2>2, <3>2, CopyArrives, CopySteps DEF Transferred!Arrive
      <3> QED
        BY <3>1, <3>3 DEF Transferred!Next
    <2> QED
      BY <2>1, <2>2, CopySteps
  <1> QED
    BY <1>1, <1>2, LoaderInvariant, PTL DEF ImplementsTransfer, Transferred!Spec, Spec

-----------------------------------------------------------------------------
(* The state file only moves forward.                                        *)

\* A checkpoint is not past another one, or not past a key.
NotPast(v, w) == v # None => w # None /\ v <= w

\* Each checkpoint of one progress map is not past that of the other.
Behind(p, q) == \A t \in Tables : NotPast(p[t].LastPKValue, q[t].LastPKValue)

\* Memory is ahead of the file, the loop over key ranges is ahead of both, and tables
\* read by a cursor have no checkpoints.
AheadInv ==
    /\ pc # "down" /\ file # NoState => Behind(file, prog)
    /\ pc \in {"chunk", "copy", "advance"} /\ cur \in PKTables =>
          NotPast(prog[cur].LastPKValue, currentPK)
    /\ \A t \in Tables \ PKTables :
          prog[t].LastPKValue = None /\ (file # NoState => file[t].LastPKValue = None)

\* Every step changes checkpoints by leaving them, by saving some that are ahead, or
\* by losing them all.
CheckpointsKeep == file' = NoState \/ (file # NoState => Behind(file, file'))

LEMMA BehindItself ==
    ASSUME NEW p \in [Tables -> Progress]
    PROVE  Behind(p, p)
  BY DEF Behind, NotPast, Progress

LEMMA BehindGrows ==
    ASSUME NEW p \in [Tables -> Progress], NEW q \in [Tables -> Progress],
           NEW r \in [Tables -> Progress], Behind(p, q), Behind(q, r)
    PROVE  Behind(p, r)
  <1> SUFFICES ASSUME NEW t \in Tables, p[t].LastPKValue # None
               PROVE  r[t].LastPKValue # None /\ p[t].LastPKValue <= r[t].LastPKValue
    BY DEF Behind, NotPast
  <1>1. q[t].LastPKValue # None /\ p[t].LastPKValue <= q[t].LastPKValue
    BY DEF Behind, NotPast
  <1>2. r[t].LastPKValue # None /\ q[t].LastPKValue <= r[t].LastPKValue
    BY <1>1 DEF Behind, NotPast
  <1>3. p[t].LastPKValue \in Int /\ q[t].LastPKValue \in Int /\ r[t].LastPKValue \in Int
    BY <1>1, <1>2 DEF Progress
  <1> QED
    BY <1>1, <1>2, <1>3

\* Saving a map that memory is behind leaves memory's successors ahead of the file.
LEMMA SaveForward ==
    ASSUME TypeOK, AheadInv, pc # "down", NEW p \in [Tables -> Progress], saveState(p),
           Behind(prog, p)
    PROVE  CheckpointsKeep /\ (file' # NoState => Behind(file', p))
  <1>1. file' = p \/ file' = file \/ file' = NoState
    BY DEF saveState
  <1>2. CASE file = NoState
    BY <1>1, <1>2, BehindItself DEF CheckpointsKeep
  <1>3. CASE file # NoState
    <2>1. file \in [Tables -> Progress] /\ prog \in [Tables -> Progress]
      BY <1>3 DEF TypeOK
    <2>2. Behind(file, p)
      BY <1>3, <2>1, BehindGrows DEF AheadInv
    <2>3. Behind(file, file) /\ Behind(p, p)
      BY <2>1, BehindItself
    <2> QED
      BY <1>1, <2>2, <2>3 DEF CheckpointsKeep
  <1> QED
    BY <1>2, <1>3

\* A process that ends needs only the file.
LEMMA ShutdownAhead ==
    ASSUME TypeOK, AheadInv, Shutdown,
           file' # NoState => \A t \in Tables \ PKTables : file'[t].LastPKValue = None
    PROVE  AheadInv'
  BY DEF Shutdown, AheadInv, Fresh

\* Steps that leave the checkpoints and the loop over key ranges.
LEMMA SameAhead ==
    ASSUME TypeOK, AheadInv, pc = "down" => pc' = "down", file' = file, prog' = prog,
           idx' = idx, currentPK' = currentPK, pc' \in {"chunk", "copy", "advance"} =>
                                      pc \in {"chunk", "copy", "advance"} \/ cur \notin PKTables
    PROVE  AheadInv'
  BY DEF AheadInv, cur

\* Steps that only change the status or the count of the table at hand.
LEMMA SameCheckpoints ==
    ASSUME TypeOK, prog' \in [Tables -> Progress],
           \A t \in Tables : prog'[t].LastPKValue = prog[t].LastPKValue
    PROVE  Behind(prog, prog')
  BY BehindItself DEF Behind, TypeOK

LEMMA StepAhead ==
    ASSUME KeysInRange, TypeOK, TypeOK', IInv, AheadInv, [Next]_vars
    PROVE  AheadInv' /\ CheckpointsKeep
  <1> USE DEF databases, memory
  <1>t. pc \notin {"down", "table"} => cur \in Tables
    BY CurIsTable, OrderAssumption DEF TypeOK, cur
  <1>i. ExactBound \in Nat /\ BatchSize \in Nat \ {0} /\ Exact \subseteq Int
        /\ MaxInt \in Int /\ ExactBound <= MaxInt
    BY IntAssumption, BatchAssumption DEF Exact, KeysInRange
  <1>p. prog \in [Tables -> Progress] /\ prog' \in [Tables -> Progress]
        /\ \A t \in Tables : prog[t].LastPKValue \in Int \cup {None}
    BY DEF TypeOK, Progress
  <1>k. file' = file => CheckpointsKeep
    BY BehindItself DEF CheckpointsKeep, TypeOK
  <1>1. CASE NewLoader
    <2>1. \A t \in Tables :
              prog'[t].LastPKValue = IF file = NoState THEN None ELSE file[t].LastPKValue
      <3> SUFFICES ASSUME NEW t \in Tables
                   PROVE  Decode(file)[t].LastPKValue
                              = IF file = NoState THEN None ELSE file[t].LastPKValue
        BY <1>1 DEF NewLoader
      <3>1. file # NoState => SoundFor(file, baseline, Have)
        BY SoundForm DEF IInv, ProgressInv
      <3>2. file # NoState => t \in PKTables \/ file[t].LastPKValue = None
        BY DEF AheadInv
      <3> QED
        BY <3>1, <3>2, DecodedRecord
    <2>2. file # NoState => Behind(file, prog')
      <3> SUFFICES ASSUME file # NoState PROVE Behind(file, prog')
        OBVIOUS
      <3>1. Behind(file, file)
        BY BehindItself DEF TypeOK
      <3> QED
        BY <2>1, <3>1 DEF Behind
    <2> QED
      BY <1>1, <1>k, <2>1, <2>2 DEF NewLoader, AheadInv
  <1>2. CASE SkipTable \/ CountRows \/ OpenCursor \/ ReadBatch \/ LastBatch \/ LastChunk
             \/ ReadChunk \/ CopyFrom \/ CopyConflict \/ QueryError \/ CopyError \/ SourceInsert
             \/ UNCHANGED vars
    <2>1. CASE SkipTable
      BY <1>k, <2>1 DEF SkipTable, AheadInv
    <2>2. CASE ReadBatch
      <3>1. cur \notin PKTables
        BY <2>2 DEF ReadBatch, IInv, ModeInv
      <3> QED
        BY <1>k, <2>2, <3>1, SameAhead DEF ReadBatch
    <2>3. CASE CountRows \/ OpenCursor \/ LastBatch \/ LastChunk \/ ReadChunk
      BY <1>k, <2>3, SameAhead DEF CountRows, OpenCursor, LastBatch, LastChunk, ReadChunk
    <2>4. CASE CopyFrom \/ CopyConflict \/ QueryError \/ CopyError \/ SourceInsert \/ UNCHANGED vars
      BY <1>k, <2>4, SameAhead
         DEF CopyFrom, CopyConflict, QueryError, CopyError, SourceInsert, vars
    <2> QED
      BY <1>2, <2>1, <2>2, <2>3, <2>4
  <1>3. CASE BeginTable
    <2>1. \A t \in Tables : prog'[t].LastPKValue = prog[t].LastPKValue
      BY <1>3, <1>p DEF BeginTable, SetStatus, Progress
    <2>2. CheckpointsKeep /\ (file' # NoState => Behind(file', prog'))
      BY <1>3, <1>p, <2>1, SameCheckpoints, SaveForward DEF BeginTable
    <2> QED
      BY <1>3, <2>1, <2>2 DEF BeginTable, saveState, AheadInv
  <1>4. CASE FetchRange
    <2>1. cur \in PKTables
      BY <1>4 DEF FetchRange, IInv, ModeInv
    <2>2. prog[cur].LastPKValue # None => currentPK' = prog[cur].LastPKValue
      <3> SUFFICES ASSUME prog[cur].LastPKValue # None
                   PROVE  currentPK' = prog[cur].LastPKValue
        OBVIOUS
      <3>1. prog[cur].LastPKValue \in Exact
        BY <1>4, <1>t, <2>1 DEF FetchRange, IInv, ProgressInv, ProgressSound
      <3>2. prog[cur].LastPKValue <= MaxInt
        BY <1>i, <3>1 DEF Exact
      <3> QED
        BY <1>4, <3>2 DEF FetchRange, Int64
    <2> QED
      BY <1>4, <1>t, <1>p, <1>k, <2>2 DEF FetchRange, AheadInv, NotPast, cur
  <1>5. CASE AdvancePK
    <2>0. cur \in Tables /\ cur \in PKTables /\ pc = "advance" /\ currentPK \in Int
      BY <1>5, <1>t DEF AdvancePK, TypeOK
    <2>1. currentPK' = currentPK + BatchSize
      <3>1. currentPK \in Exact /\ maxVal \in Keys \cup {0} /\ currentPK <= maxVal
        BY <2>0 DEF IInv, ChunkInv
      <3>2. maxVal \in Int /\ maxVal + BatchSize \in Exact
        BY <3>1, <1>i DEF KeysInRange, TypeOK
      <3>3. currentPK + BatchSize <= MaxInt
        BY <2>0, <3>1, <3>2, <1>i DEF Exact
      <3> QED
        BY <1>5, <2>0, <3>3, <1>i DEF AdvancePK, Wrap
    <2>2. \A t \in Tables :
            prog'[t].LastPKValue = IF t = cur THEN currentPK' ELSE prog[t].LastPKValue
      <3> DEFINE q == [prog[cur] EXCEPT !.CompletedRows = @ + Cardinality(chunk),
                                        !.LastPKValue = currentPK']
      <3>1. prog' = [prog EXCEPT ![cur] = q]
        BY <1>5, <2>0, Zenon DEF AdvancePK, TypeOK
      <3>2. q.LastPKValue = currentPK'
        BY <2>0, <1>p DEF Progress
      <3> QED
        BY <1>p, <3>1, <3>2
    <2>3. NotPast(prog[cur].LastPKValue, currentPK)
      BY <2>0 DEF AheadInv
    <2>4. currentPK' \in Int /\ currentPK' # None
      BY <2>0, <2>1, <1>i, NoneAssumption
    <2>5. Behind(prog, prog')
      BY <1>p, <1>i, <2>0, <2>1, <2>2, <2>3, <2>4 DEF Behind, NotPast
    <2>6. CheckpointsKeep /\ (file' # NoState => Behind(file', prog'))
      BY <1>5, <1>p, <2>5, SaveForward DEF AdvancePK
    <2>7. /\ pc' = "chunk" /\ cur' = cur /\ NotPast(prog'[cur].LastPKValue, currentPK')
      <3>1. pc' = "chunk" /\ cur' = cur
        BY <1>5 DEF AdvancePK, cur
      <3>2. prog'[cur].LastPKValue = currentPK'
        BY <2>0, <2>2
      <3> QED
        BY <2>4, <3>1, <3>2 DEF NotPast
    <2>8. file' = file \/ file' = prog' \/ file' = NoState
      BY <1>5 DEF AdvancePK, saveState
    <2>9. \A t \in Tables \ PKTables :
            prog'[t].LastPKValue = None /\ (file' # NoState => file'[t].LastPKValue = None)
      BY <2>0, <2>2, <2>8 DEF AheadInv
    <2>10. /\ pc' # "down" /\ file' # NoState => Behind(file', prog')
           /\ pc' \in {"chunk", "copy", "advance"} /\ cur' \in PKTables =>
                 NotPast(prog'[cur'].LastPKValue, currentPK')
      BY <2>6, <2>7
    <2>11. Behind(file, prog)' <=> Behind(file', prog')
      BY DEF Behind
    <2>12. NotPast(prog[cur].LastPKValue, currentPK)' <=> NotPast(prog'[cur'].LastPKValue, currentPK')
      BY DEF NotPast
    <2> QED
      BY <2>6, <2>9, <2>10, <2>11, <2>12 DEF AheadInv
  <1>6. CASE AdvanceCursor
    <2>1. cur \in Tables /\ cur \notin PKTables
      BY <1>6, <1>t DEF AdvanceCursor
    <2>2. \A t \in Tables : prog'[t].LastPKValue = prog[t].LastPKValue
      BY <1>6, <1>p DEF AdvanceCursor, Progress
    <2>3. CheckpointsKeep /\ (file' # NoState => Behind(file', prog'))
      <3>1. Behind(prog, prog')
        BY <1>p, <2>2, SameCheckpoints
      <3>2. CASE saveState(prog')
        BY <1>6, <1>p, <3>1, <3>2, SaveForward DEF AdvanceCursor
      <3>3. CASE file' = file
        <4>1. file # NoState => Behind(file, prog')
          BY <1>6, <2>2 DEF AdvanceCursor, AheadInv, Behind
        <4> QED
          BY <1>k, <3>3, <4>1
      <3> QED
        BY <1>6, <3>2, <3>3 DEF AdvanceCursor
    <2>4. file' = file \/ file' = prog' \/ file' = NoState
      BY <1>6 DEF AdvanceCursor, saveState
    <2> QED
      BY <1>6, <2>2, <2>3, <2>4 DEF AdvanceCursor, AheadInv
  <1>7. CASE FinishTable
    <2>1. \A t \in Tables : prog'[t].LastPKValue = prog[t].LastPKValue
      BY <1>7, <1>p DEF FinishTable, Progress
    <2>2. CheckpointsKeep /\ (file' # NoState => Behind(file', prog'))
      BY <1>7, <1>p, <2>1, SameCheckpoints, SaveForward DEF FinishTable
    <2> QED
      BY <1>7, <2>1, <2>2 DEF FinishTable, saveState, AheadInv
  <1>8. CASE FailTable
    <2> DEFINE p == [prog EXCEPT ![cur].status = "failed"]
    <2>1. saveState(p) /\ pc # "down" /\ Shutdown
      BY <1>8 DEF FailTable
    <2>2. p \in [Tables -> Progress] /\ \A t \in Tables : p[t].LastPKValue = prog[t].LastPKValue
      <3>1. cur \in Tables
        BY <1>8, <1>t DEF FailTable
      <3>2. [prog[cur] EXCEPT !.status = "failed"] \in Progress
            /\ [prog[cur] EXCEPT !.status = "failed"].LastPKValue = prog[cur].LastPKValue
        BY <1>p, <3>1 DEF Progress, Statuses
      <3> QED
        BY <1>p, <3>1, <3>2
    <2> HIDE DEF p
    <2>3. Behind(prog, p)
      BY <1>p, <2>2, BehindItself DEF Behind
    <2>4. CheckpointsKeep
      BY <2>1, <2>2, <2>3, SaveForward
    <2>5. file' = file \/ file' = p \/ file' = NoState
      BY <2>1 DEF saveState
    <2>6. file' # NoState => \A t \in Tables \ PKTables : file'[t].LastPKValue = None
      BY <2>2, <2>5 DEF AheadInv
    <2> QED
      BY <2>1, <2>4, <2>6, ShutdownAhead
  <1>9. CASE Exit \/ Crash
    BY <1>9, <1>k, ShutdownAhead DEF Exit, Crash, AheadInv
  <1>10. CASE TornSave
    BY <1>10, ShutdownAhead DEF TornSave, CheckpointsKeep
  <1> QED
    BY <1>1, <1>2, <1>3, <1>4, <1>5, <1>6, <1>7, <1>8, <1>9, <1>10 DEF Next, Process, Environment

\* Across any number of runs, and whatever cuts them short, the state file goes back
\* only when it is lost as a whole (loader.go:82, loader.go:318).
THEOREM StateFileOnlyAdvances ==
    ASSUME KeysInRange, "readTruncated" \notin Faults
    PROVE  Spec => StateFileMovesForward
  <1>1. Init => AheadInv
    BY DEF Init, AheadInv, Fresh
  <1>2. TypeOK /\ IInv /\ (TypeOK /\ IInv)' /\ AheadInv /\ [Next]_vars => AheadInv'
    BY StepAhead
  <1>3. TypeOK /\ IInv /\ (TypeOK /\ IInv)' /\ AheadInv /\ [Next]_vars =>
           [file # NoState /\ file' # NoState =>
              \A t \in Tables :
                /\ Saved(t) => Saved(t)'
                /\ file[t].LastPKValue # None =>
                      /\ file'[t].LastPKValue # None
                      /\ file[t].LastPKValue <= file'[t].LastPKValue]_vars
    <2> SUFFICES ASSUME TypeOK, IInv, TypeOK', AheadInv, [Next]_vars,
                        file # NoState, file' # NoState, NEW t \in Tables
                 PROVE  /\ Saved(t) => Saved(t)'
                        /\ file[t].LastPKValue # None =>
                              /\ file'[t].LastPKValue # None
                              /\ file[t].LastPKValue <= file'[t].LastPKValue
      OBVIOUS
    <2>1. Saved(t) => Saved(t)'
      BY FileKeeps
    <2>2. NotPast(file[t].LastPKValue, file'[t].LastPKValue)
      BY StepAhead DEF CheckpointsKeep, Behind
    <2> QED
      BY <2>1, <2>2 DEF NotPast
  <1> QED
    BY <1>1, <1>2, <1>3, LoaderInvariant, PTL DEF Spec, StateFileMovesForward

-----------------------------------------------------------------------------
(* Exactness, when all that fails is a query or a COPY.                      *)

\* How many copies there are of a table's rows: one of each below p, and no others.
CopiedBelow(rows, copies, p) ==
    \A k \in Keys : copies[k] = IF k \in rows /\ k < p THEN 1 ELSE 0

CopiedAll(rows, copies) == \A k \in Keys : copies[k] = IF k \in rows THEN 1 ELSE 0
CopiedNone(copies) == \A k \in Keys : copies[k] = 0

\* What a progress record says of them.
Recorded(status, last, rows, copies) ==
    IF status = "completed" THEN CopiedAll(rows, copies)
    ELSE IF last = None THEN CopiedNone(copies)
    ELSE CopiedBelow(rows, copies, last)

MapRecorded(p, t, rows, copies) ==
    Recorded(p[t].status, p[t].LastPKValue, rows[t], copies[t])

FileRecorded(f, t, rows, copies) ==
    IF f = NoState THEN CopiedNone(copies[t]) ELSE MapRecorded(f, t, rows, copies)

\* Between a COPY and its checkpoint, which nothing comes in between here, the table at
\* hand is ahead of what is recorded; all else is as both progress maps say.
CleanInv ==
    /\ source = baseline
    /\ \A t \in PKTables : ~(pc = "advance" /\ t = cur) =>
          /\ FileRecorded(file, t, source, target)
          /\ pc # "down" => MapRecorded(prog, t, source, target)
    /\ cur \in PKTables =>
          /\ pc \in {"chunk", "copy"} => CopiedBelow(source[cur], target[cur], currentPK)
          /\ pc = "copy" =>
                chunk = {k \in source[cur] : currentPK <= k /\ k < currentPK + BatchSize}
          /\ pc = "advance" => CopiedBelow(source[cur], target[cur], currentPK + BatchSize)
          /\ pc = "finish" => CopiedAll(source[cur], target[cur])

\* Steps that touch neither rows nor records.
LEMMA SameClean ==
    ASSUME CleanInv, UNCHANGED <<databases, target, file, prog, idx>>,
           pc # "advance", pc' # "advance", pc = "down" => pc' = "down",
           cur \in PKTables =>
              /\ pc' \in {"chunk", "copy"} => CopiedBelow(source[cur], target[cur], currentPK')
              /\ pc' = "copy" =>
                    chunk' = {k \in source[cur] : currentPK' <= k /\ k < currentPK' + BatchSize}
              /\ pc' = "finish" => CopiedAll(source[cur], target[cur])
    PROVE  CleanInv'
  BY DEF CleanInv, databases, cur

\* Steps that save a progress map, or at least hold it, and go on with no rows read.
LEMMA SavedClean ==
    ASSUME CleanInv, UNCHANGED <<databases, target>>, NEW p,
           file' = p \/ (file' = file /\ pc # "advance"),
           prog' = p \/ pc' = "down",
           \A t \in PKTables : MapRecorded(p, t, source, target),
           p # NoState,
           pc' \in {"down", "table", "count"}
    PROVE  CleanInv'
  <1>1. UNCHANGED <<source, baseline, target>>
    BY DEF databases
  <1>2. \A t \in PKTables : FileRecorded(file', t, source, target)
    BY DEF CleanInv, FileRecorded
  <1>3. pc' # "down" => \A t \in PKTables : MapRecorded(prog', t, source, target)
    OBVIOUS
  <1> QED
    BY <1>1, <1>2, <1>3 DEF CleanInv

LEMMA StepClean ==
    ASSUME KeysInRange, Faults \subseteq {"queryErr", "copyErr"},
           TypeOK, TypeOK', IInv, CleanInv, [Next]_vars
    PROVE  CleanInv'
  <1> USE DEF databases, memory
  <1>t. pc \notin {"down", "table"} => cur \in Tables
    BY CurIsTable, OrderAssumption DEF TypeOK, cur
  <1>i. ExactBound \in Nat /\ BatchSize \in Nat \ {0} /\ Exact \subseteq Int
        /\ MaxInt \in Int /\ ExactBound <= MaxInt
    BY IntAssumption, BatchAssumption DEF Exact, KeysInRange
  <1>f. /\ ~Fault("readTruncated") /\ ~Fault("commitLost") /\ ~Fault("saveFail")
        /\ ~Fault("crash") /\ ~Fault("tornSave") /\ ~Fault("insert")
    BY DEF Fault
  <1>s. \A p : saveState(p) => file' = p
    BY <1>f DEF saveState
  <1>k. Keys \subseteq Int /\ PKTables \subseteq Tables
    BY KeysAssumption, TablesAssumption
  <1>p. prog \in [Tables -> Progress] /\ prog' \in [Tables -> Progress]
    BY DEF TypeOK
  <1>r. cur \in Tables => source[cur] \subseteq Keys
    BY DEF TypeOK
  <1>w. pc = "chunk" /\ cur \in PKTables /\ currentPK <= maxVal =>
            Wrap(currentPK + BatchSize) = currentPK + BatchSize
    <2> SUFFICES ASSUME pc = "chunk", cur \in PKTables, currentPK <= maxVal
                 PROVE  Wrap(currentPK + BatchSize) = currentPK + BatchSize
      OBVIOUS
    <2>1. currentPK \in Int /\ maxVal \in Int /\ maxVal + BatchSize \in Exact
      BY <1>i, <1>k DEF IInv, ChunkInv, KeysInRange, TypeOK
    <2>2. currentPK + BatchSize <= MaxInt
      BY <2>1, <1>i DEF Exact
    <2> QED
      BY <1>i, <2>1, <2>2 DEF Wrap
  <1>1. CASE NewLoader
    <2>1. file # NoState => SoundFor(file, baseline, Have)
      BY SoundForm DEF IInv, ProgressInv
    <2>2. \A t \in PKTables : MapRecorded(prog', t, source, target)
      <3> SUFFICES ASSUME NEW t \in PKTables
                   PROVE  Recorded(Decode(file)[t].status, Decode(file)[t].LastPKValue,
                                   source[t], target[t])
        BY <1>1 DEF NewLoader, MapRecorded
      <3>1. FileRecorded(file, t, source, target)
        BY <1>1 DEF NewLoader, CleanInv
      <3>2. /\ Decode(file)[t].status = (IF file = NoState THEN "pending" ELSE file[t].status)
            /\ file = NoState => Decode(file)[t].LastPKValue = None
            /\ file # NoState => Decode(file)[t].LastPKValue = file[t].LastPKValue
        BY <2>1, <1>k, DecodedRecord
      <3>3. CASE file = NoState
        BY <3>1, <3>2, <3>3 DEF FileRecorded, Recorded
      <3>4. CASE file # NoState
        BY <3>1, <3>2, <3>4 DEF FileRecorded, MapRecorded
      <3> QED
        BY <3>3, <3>4
    <2>3. \A t \in PKTables : FileRecorded(file, t, source, target)
      BY <1>1 DEF NewLoader, CleanInv
    <2> QED
      BY <1>1, <2>2, <2>3 DEF NewLoader, CleanInv
  <1>2. CASE SkipTable
    BY <1>2 DEF SkipTable, CleanInv
  <1>3. CASE CountRows \/ OpenCursor \/ LastBatch \/ CopyConflict \/ QueryError
    <2>1. CASE LastBatch
      <3>1. cur \notin PKTables
        BY <2>1 DEF LastBatch, IInv, ModeInv
      <3> QED
        BY <2>1, <3>1, SameClean DEF LastBatch
    <2>2. CASE CountRows \/ OpenCursor \/ CopyConflict \/ QueryError
      BY <2>2, SameClean DEF CountRows, OpenCursor, CopyConflict, QueryError
    <2> QED
      BY <1>3, <2>1, <2>2
  <1>4. CASE FetchRange
    <2>1. cur \in PKTables /\ pc = "range" /\ prog[cur].status # "completed"
      BY <1>4 DEF FetchRange, IInv, ModeInv, ProgressInv
    <2>2. Recorded(prog[cur].status, prog[cur].LastPKValue, source[cur], target[cur])
      BY <2>1 DEF CleanInv, MapRecorded
    <2>3. CopiedBelow(source[cur], target[cur], currentPK')
      <3>1. CASE prog[cur].LastPKValue = None
        <4>1. PICK lo \in Keys \cup {0} : IsMin(lo, source[cur]) /\ currentPK' = lo
          BY <1>4, <3>1 DEF FetchRange
        <4>2. \A k \in source[cur] : currentPK' <= k
          BY <4>1 DEF IsMin
        <4>3. \A k \in Keys : ~(k \in source[cur] /\ k < currentPK')
          BY <4>1, <4>2, <1>k
        <4>4. CopiedNone(target[cur])
          BY <2>1, <2>2, <3>1 DEF Recorded
        <4> QED
          BY <4>3, <4>4 DEF CopiedBelow, CopiedNone
      <3>2. CASE prog[cur].LastPKValue # None
        <4>1. prog[cur].LastPKValue \in Exact
          BY <1>k, <2>1, <3>2 DEF IInv, ProgressInv, ProgressSound
        <4>2. prog[cur].LastPKValue <= MaxInt
          BY <1>i, <4>1 DEF Exact
        <4>3. currentPK' = prog[cur].LastPKValue
          BY <1>4, <3>2, <4>2 DEF FetchRange, Int64
        <4> QED
          BY <2>1, <2>2, <3>2, <4>3 DEF Recorded
      <3> QED
        BY <3>1, <3>2
    <2>4. pc' = "chunk" /\ UNCHANGED <<databases, target, file, prog, idx>>
      BY <1>4 DEF FetchRange
    <2> QED
      BY <2>1, <2>3, <2>4, SameClean
  <1>5. CASE ReadChunk
    <2>1. cur \in PKTables /\ pc = "chunk" /\ currentPK <= maxVal
      BY <1>5 DEF ReadChunk, IInv, ModeInv
    <2>2. CopiedBelow(source[cur], target[cur], currentPK)
      BY <2>1 DEF CleanInv
    <2>3. chunk' = {k \in source[cur] : currentPK <= k /\ k < currentPK + BatchSize}
      BY <1>5, <1>f, <1>w, <2>1 DEF ReadChunk
    <2>4. /\ pc' = IF chunk' = {} THEN "advance" ELSE "copy"
          /\ UNCHANGED <<databases, target, file, prog, idx, currentPK>>
      BY <1>5 DEF ReadChunk
    <2>5. CASE chunk' # {}
      BY <2>1, <2>2, <2>3, <2>4, <2>5, SameClean
    <2>6. CASE chunk' = {}
      <3>1. currentPK \in Int
        BY DEF TypeOK
      <3>2. \A k \in source[cur] : k < currentPK + BatchSize <=> k < currentPK
        <4> SUFFICES ASSUME NEW k \in source[cur]
                     PROVE  k < currentPK + BatchSize <=> k < currentPK
          OBVIOUS
        <4>1. k \in Int
          BY <1>k, <1>r, <1>t, <2>1
        <4>2. ~(currentPK <= k /\ k < currentPK + BatchSize)
          BY <2>3, <2>6
        <4> QED
          BY <1>i, <3>1, <4>1, <4>2
      <3>3. CopiedBelow(source[cur], target[cur], currentPK + BatchSize)
        BY <2>2, <3>2 DEF CopiedBelow
      <3> QED
        BY <2>1, <2>4, <2>6, <3>3 DEF CleanInv, cur
    <2> QED
      BY <2>5, <2>6
  <1>6. CASE LastChunk
    <2>1. cur \in PKTables /\ pc = "chunk" /\ currentPK > maxVal
      BY <1>6 DEF LastChunk, IInv, ModeInv
    <2>2. \A k \in source[cur] : k < currentPK
      <3>1. currentPK \in Int /\ maxVal \in Int /\ \A k \in source[cur] : k \in Int
        BY <1>k, <1>r, <1>t, <2>1 DEF TypeOK
      <3>2. \A k \in source[cur] : k <= maxVal
        BY <2>1 DEF CleanInv, IInv, ChunkInv
      <3> QED
        BY <2>1, <3>1, <3>2
    <2>3. CopiedAll(source[cur], target[cur])
      BY <2>1, <2>2 DEF CleanInv, CopiedBelow, CopiedAll
    <2>4. pc' = "finish" /\ UNCHANGED <<databases, target, file, prog, idx>>
      BY <1>6 DEF LastChunk
    <2> QED
      BY <2>1, <2>3, <2>4, SameClean
  <1>7. CASE CopyFrom
    <2>1. /\ pc = "copy" /\ target' = Loaded /\ pc' = "advance" /\ cur \in Tables /\ cur' = cur
          /\ UNCHANGED <<source, baseline, file, prog, idx, currentPK>>
      BY <1>7, <1>t DEF CopyFrom, cur
    <2>2. ASSUME cur \in PKTables
          PROVE  CopiedBelow(source[cur], Loaded[cur], currentPK + BatchSize)
      <3>1. /\ CopiedBelow(source[cur], target[cur], currentPK)
            /\ chunk = {k \in source[cur] : currentPK <= k /\ k < currentPK + BatchSize}
        BY <2>1, <2>2 DEF CleanInv
      <3>2. currentPK \in Int
        BY DEF TypeOK
      <3> SUFFICES ASSUME NEW k \in Keys
                   PROVE  Loaded[cur][k] = IF k \in source[cur] /\ k < currentPK + BatchSize
                                           THEN 1 ELSE 0
        BY DEF CopiedBelow
      <3>3. /\ Loaded[cur][k] = IF k \in chunk THEN target[cur][k] + 1 ELSE target[cur][k]
            /\ target[cur][k] = IF k \in source[cur] /\ k < currentPK THEN 1 ELSE 0
        BY <2>1, <3>1, LoadedCounts DEF CopiedBelow
      <3>4. k \in Int
        BY <1>k
      <3> QED
        BY <1>i, <3>1, <3>2, <3>3, <3>4
    <2>3. \A t \in PKTables \ {cur} : \A k \in Keys : Loaded[t][k] = target[t][k]
      BY <1>k, <2>1, LoadedCounts
    <2>4. \A t \in PKTables \ {cur} :
              FileRecorded(file, t, source, Loaded) /\ MapRecorded(prog, t, source, Loaded)
      <3> SUFFICES ASSUME NEW t \in PKTables \ {cur}
                   PROVE  FileRecorded(file, t, source, Loaded) /\ MapRecorded(prog, t, source, Loaded)
        OBVIOUS
      <3>1. FileRecorded(file, t, source, target) /\ MapRecorded(prog, t, source, target)
        BY <2>1 DEF CleanInv
      <3>2. \A k \in Keys : Loaded[t][k] = target[t][k]
        BY <2>3
      <3> QED
        BY <3>1, <3>2 DEF FileRecorded, MapRecorded, Recorded, CopiedAll, CopiedNone, CopiedBelow
    <2> HIDE DEF cur
    <2>5. \A t \in PKTables : t # cur' =>
              FileRecorded(file', t, source', target') /\ MapRecorded(prog', t, source', target')
      BY <2>1, <2>4
    <2> QED
      BY <2>1, <2>2, <2>5 DEF CleanInv
  <1>8. CASE CopyError
    <2>1. /\ pc = "copy" /\ pc' = "fail" /\ UNCHANGED <<databases, target, file, prog, idx>>
      BY <1>8, <1>f DEF CopyError
    <2> QED
      BY <2>1, SameClean
  <1>9. CASE BeginTable
    <2>1. \A t \in Tables : /\ prog'[t].LastPKValue = prog[t].LastPKValue
                            /\ prog'[t].status = "completed" <=> prog[t].status = "completed"
      BY <1>9, <1>p DEF BeginTable, SetStatus, Progress
    <2>2. \A t \in PKTables : MapRecorded(prog', t, source, target)
      BY <1>9, <1>k, <2>1 DEF BeginTable, CleanInv, MapRecorded, Recorded
    <2>3. /\ file' = prog' /\ pc' = "count" /\ UNCHANGED <<databases, target>>
      BY <1>9, <1>s DEF BeginTable
    <2> QED
      BY <1>p, <2>2, <2>3, FileAssumption, SavedClean
  <1>10. CASE AdvancePK
    <2>0. cur \in Tables /\ cur \in PKTables /\ pc = "advance" /\ currentPK \in Int
      BY <1>10, <1>t DEF AdvancePK, TypeOK
    <2>1. currentPK' = currentPK + BatchSize /\ currentPK' # None
      <3>1. currentPK \in Exact /\ maxVal \in Keys \cup {0} /\ currentPK <= maxVal
        BY <2>0 DEF IInv, ChunkInv
      <3>2. maxVal \in Int /\ maxVal + BatchSize \in Exact
        BY <3>1, <1>i, <1>k DEF KeysInRange
      <3>3. currentPK + BatchSize <= MaxInt
        BY <2>0, <3>1, <3>2, <1>i DEF Exact
      <3>4. currentPK' = currentPK + BatchSize
        BY <1>10, <2>0, <3>3, <1>i DEF AdvancePK, Wrap
      <3> QED
        BY <2>0, <3>4, <1>i, NoneAssumption
    <2>2. \A t \in Tables :
            /\ prog'[t].LastPKValue = IF t = cur THEN currentPK' ELSE prog[t].LastPKValue
            /\ prog'[t].status = prog[t].status
      <3> DEFINE q == [prog[cur] EXCEPT !.CompletedRows = @ + Cardinality(chunk),
                                        !.LastPKValue = currentPK']
      <3>1. prog' = [prog EXCEPT ![cur] = q]
        BY <1>10, <2>0, Zenon DEF AdvancePK, TypeOK
      <3>2. q.LastPKValue = currentPK' /\ q.status = prog[cur].status
        BY <2>0, <1>p DEF Progress
      <3> QED
        BY <1>p, <3>1, <3>2
    <2>3. CopiedBelow(source[cur], target[cur], currentPK') /\ prog[cur].status # "completed"
      BY <2>0, <2>1 DEF CleanInv, IInv, ProgressInv
    <2>4. \A t \in PKTables : MapRecorded(prog', t, source, target)
      <3> SUFFICES ASSUME NEW t \in PKTables PROVE MapRecorded(prog', t, source, target)
        OBVIOUS
      <3>1. CASE t = cur
        BY <2>0, <2>1, <2>2, <2>3, <3>1 DEF MapRecorded, Recorded
      <3>2. CASE t # cur
        BY <1>k, <2>0, <2>2, <3>2 DEF CleanInv, MapRecorded
      <3> QED
        BY <3>1, <3>2
    <2>5. /\ file' = prog' /\ pc' = "chunk" /\ cur' = cur /\ UNCHANGED <<databases, target>>
      BY <1>10, <1>s DEF AdvancePK, cur
    <2>6. prog' # NoState
      BY <1>p, FileAssumption
    <2>7. \A t \in PKTables : FileRecorded(file', t, source, target)
      BY <2>4, <2>5, <2>6 DEF FileRecorded
    <2> HIDE DEF cur
    <2>8. source' = source /\ target' = target /\ baseline' = baseline
      BY <2>5
    <2> QED
      BY <2>3, <2>4, <2>5, <2>7, <2>8 DEF CleanInv
  <1>11. CASE ReadBatch \/ AdvanceCursor
    <2>1. cur \notin PKTables /\ cur' = cur /\ UNCHANGED <<databases, target>>
      BY <1>11 DEF ReadBatch, AdvanceCursor, IInv, ModeInv, cur
    <2>2. \A t \in PKTables : MapRecorded(prog, t, source, target) /\ FileRecorded(file, t, source, target)
      <3>1. pc # "down"
        BY <1>11 DEF ReadBatch, AdvanceCursor
      <3> QED
        BY <2>1, <3>1 DEF CleanInv
    <2>3. \A t \in PKTables : prog'[t].LastPKValue = prog[t].LastPKValue /\ prog'[t].status = prog[t].status
      BY <1>11, <1>k, <1>p, <2>1 DEF ReadBatch, AdvanceCursor
    <2>4. file' = file \/ file' = prog'
      BY <1>11, <1>s DEF ReadBatch, AdvanceCursor
    <2>5. \A t \in PKTables : MapRecorded(prog', t, source, target)
      BY <2>2, <2>3 DEF MapRecorded
    <2>6. \A t \in PKTables : FileRecorded(file', t, source, target)
      BY <1>p, <2>2, <2>4, <2>5, FileAssumption DEF FileRecorded
    <2> HIDE DEF cur
    <2>7. source' = source /\ target' = target /\ baseline' = baseline
      BY <2>1
    <2> QED
      BY <2>1, <2>5, <2>6, <2>7 DEF CleanInv
  <1>12. CASE FinishTable
    <2>0. pc = "finish" /\ cur \in Tables
      BY <1>12, <1>t DEF FinishTable
    <2>1. \A t \in Tables : /\ prog'[t].LastPKValue = prog[t].LastPKValue
                            /\ prog'[t].status = IF t = cur THEN "completed" ELSE prog[t].status
      BY <1>12, <1>p DEF FinishTable, Progress
    <2>2. \A t \in PKTables : MapRecorded(prog', t, source, target)
      BY <1>k, <2>0, <2>1 DEF CleanInv, MapRecorded, Recorded
    <2>3. /\ file' = prog' /\ pc' = "table" /\ UNCHANGED <<databases, target>>
      BY <1>12, <1>s DEF FinishTable
    <2> QED
      BY <1>p, <2>2, <2>3, FileAssumption, SavedClean
  <1>13. CASE FailTable
    <2> DEFINE p == [prog EXCEPT ![cur].status = "failed"]
    <2>1. file' = p /\ pc = "fail" /\ pc' = "down" /\ cur \in Tables /\ UNCHANGED <<databases, target>>
      BY <1>13, <1>s, <1>t DEF FailTable, Shutdown
    <2>2. /\ \A t \in Tables : /\ p[t].LastPKValue = prog[t].LastPKValue
                              /\ p[t].status = IF t = cur THEN "failed" ELSE prog[t].status
          /\ p \in [Tables -> Progress]
      <3>1. [prog[cur] EXCEPT !.status = "failed"] \in Progress
            /\ [prog[cur] EXCEPT !.status = "failed"].LastPKValue = prog[cur].LastPKValue
            /\ [prog[cur] EXCEPT !.status = "failed"].status = "failed"
        BY <1>p, <2>1 DEF Progress, Statuses
      <3> QED
        BY <1>p, <2>1, <3>1
    <2> HIDE DEF p
    <2>3. prog[cur].status # "completed"
      BY <2>1 DEF IInv, ProgressInv
    <2>4. \A t \in PKTables : MapRecorded(p, t, source, target)
      BY <1>k, <2>1, <2>2, <2>3 DEF CleanInv, MapRecorded, Recorded
    <2> QED
      BY <2>1, <2>2, <2>4, FileAssumption, SavedClean
  <1>14. CASE Exit
    BY <1>14 DEF Exit, Shutdown, CleanInv
  <1>15. CASE Crash \/ TornSave \/ SourceInsert
    BY <1>15, <1>f DEF Crash, TornSave, SourceInsert
  <1>16. CASE UNCHANGED vars
    BY <1>16 DEF vars, CleanInv, cur
  <1> QED
    BY <1>1, <1>2, <1>3, <1>4, <1>5, <1>6, <1>7, <1>8, <1>9, <1>10, <1>11, <1>12, <1>13, <1>14,
       <1>15, <1>16
       DEF Next, Process, Environment

\* As long as nothing but queries and COPYs fails, however often, and every run is
\* taken up again from its checkpoint, a table read by key ranges has each row once
\* when it is declared complete (loader.go:286-325).
THEOREM CompletedTablesAreExact ==
    ASSUME KeysInRange, Faults \subseteq {"queryErr", "copyErr"}
    PROVE  Spec => []CompletedIsExact
  <1>1. Init => CleanInv
    BY TablesAssumption DEF Init, CleanInv, FileRecorded, CopiedNone
  <1>2. TypeOK /\ IInv /\ (TypeOK /\ IInv)' /\ CleanInv /\ [Next]_vars => CleanInv'
    BY StepClean
  <1>3. TypeOK /\ IInv /\ CleanInv => CompletedIsExact
    <2> SUFFICES ASSUME TypeOK, IInv, CleanInv, NEW t \in PKTables, Saved(t)
                 PROVE  target[t] = [k \in Keys |-> IF k \in source[t] THEN 1 ELSE 0]
      BY DEF CompletedIsExact
    <2>1. ~(pc = "advance" /\ t = cur)
      BY TablesAssumption DEF IInv, ProgressInv
    <2>2. CopiedAll(source[t], target[t])
      BY <2>1 DEF CleanInv, FileRecorded, MapRecorded, Recorded, Saved
    <2>3. target[t] \in [Keys -> Nat]
      BY TablesAssumption DEF TypeOK
    <2> QED
      BY <2>2, <2>3 DEF CopiedAll
  <1>4. "readTruncated" \notin Faults
    OBVIOUS
  <1> QED
    BY <1>1, <1>2, <1>3, <1>4, LoaderInvariant, PTL DEF Spec
-----------------------------------------------------------------------------
(* The progress that is shown.                                               *)

\* The copies that the target holds, numbered.
CopySet(counts) == UNION {{k} \X (1 .. counts[k]) : k \in Keys}

LEMMA CopySetIs ==
    ASSUME NEW counts \in [Keys -> Nat]
    PROVE  /\ \A k \in Keys : \A i : <<k, i>> \in CopySet(counts) <=> i \in 1 .. counts[k]
           /\ \A x \in CopySet(counts) : \E k \in Keys : \E i \in Int : x = <<k, i>>
           /\ IsFiniteSet(CopySet(counts))
  <1> DEFINE copies == [k \in Keys |-> {k} \X (1 .. counts[k])]
             T == {{k} \X (1 .. counts[k]) : k \in Keys}
  <1>1. copies \in Surjection(Keys, T)
    BY DEF Surjection
  <1>2. IsFiniteSet(T)
    BY <1>1, KeysAssumption, FS_Surjection
  <1>3. ASSUME NEW S \in T PROVE IsFiniteSet(S)
    <2>1. PICK k \in Keys : S = {k} \X (1 .. counts[k])
      OBVIOUS
    <2>2. counts[k] \in Int /\ 1 \in Int
      OBVIOUS
    <2>3. IsFiniteSet(1 .. counts[k])
      BY <2>2, FS_Interval
    <2>4. IsFiniteSet({k})
      BY FS_Singleton
    <2> QED
      BY <2>1, <2>3, <2>4, FS_Product
  <1>4. IsFiniteSet(CopySet(counts))
    BY <1>2, <1>3, FS_UNION DEF CopySet
  <1>5. \A k \in Keys : \A i : <<k, i>> \in CopySet(counts) <=> i \in 1 .. counts[k]
    BY DEF CopySet
  <1>6. \A x \in CopySet(counts) : \E k \in Keys : \E i \in Int : x = <<k, i>>
    BY DEF CopySet
  <1> QED
    BY <1>4, <1>5, <1>6

\* One copy of each row of a set is as many copies.
LEMMA OneEach ==
    ASSUME NEW S, IsFiniteSet(S), NEW number
    PROVE  LET G == {<<k, number[k]>> : k \in S}
           IN  IsFiniteSet(G) /\ Cardinality(G) = Cardinality(S)
  <1> DEFINE G == {<<k, number[k]>> : k \in S}
             f == [k \in S |-> <<k, number[k]>>]
  <1>1. f \in Surjection(S, G)
    BY DEF Surjection
  <1>2. \A x, y \in S : f[x] = f[y] => x = y
    OBVIOUS
  <1>3. f \in Injection(S, G)
    BY <1>1, <1>2 DEF Injection, IsInjective, Surjection
  <1> QED
    BY <1>1, <1>3, FS_Surjection

LEMMA CopiesCount ==
    ASSUME NEW n \in [Keys -> Nat], NEW m \in [Keys -> Nat], NEW S \in SUBSET Keys
    PROVE  /\ Cardinality(CopySet(n)) \in Nat
           /\ (\A k \in S : n[k] > 0) => Cardinality(S) <= Cardinality(CopySet(n))
           /\ (\A k \in Keys : m[k] = n[k] + (IF k \in S THEN 1 ELSE 0)) =>
                 Cardinality(CopySet(m)) = Cardinality(CopySet(n)) + Cardinality(S)
  <1>0. IsFiniteSet(S) /\ IsFiniteSet(CopySet(n)) /\ Cardinality(CopySet(n)) \in Nat
    BY KeysAssumption, FS_Subset, CopySetIs, FS_CardinalityType
  <1>1. ASSUME \A k \in S : n[k] > 0
        PROVE  Cardinality(S) <= Cardinality(CopySet(n))
    <2> DEFINE one == [k \in S |-> 1]
               G == {<<k, one[k]>> : k \in S}
    <2>1. G \subseteq CopySet(n)
      <3>1. \A k \in S : 1 \in 1 .. n[k]
        BY <1>1
      <3> QED
        BY <3>1, CopySetIs
    <2>2. Cardinality(G) = Cardinality(S)
      BY <1>0, OneEach
    <2> HIDE DEF G
    <2> QED
      BY <1>0, <2>1, <2>2, FS_Subset
  <1>2. ASSUME \A k \in Keys : m[k] = n[k] + (IF k \in S THEN 1 ELSE 0)
        PROVE  Cardinality(CopySet(m)) = Cardinality(CopySet(n)) + Cardinality(S)
    <2> DEFINE G == {<<k, m[k]>> : k \in S}
    <2>1. IsFiniteSet(G) /\ Cardinality(G) = Cardinality(S)
      BY <1>0, OneEach
    <2>2. CopySet(n) \cap G = {}
      <3> SUFFICES ASSUME NEW k \in S, <<k, m[k]>> \in CopySet(n) PROVE FALSE
        OBVIOUS
      <3>1. m[k] \in 1 .. n[k]
        BY CopySetIs
      <3>2. m[k] = n[k] + 1 /\ n[k] \in Nat
        BY <1>2
      <3> QED
        BY <3>1, <3>2
    <2>3. \A k \in Keys : \A i : <<k, i>> \in CopySet(m) <=> <<k, i>> \in CopySet(n) \cup G
      <3> SUFFICES ASSUME NEW k \in Keys, NEW i
                   PROVE  <<k, i>> \in CopySet(m) <=> <<k, i>> \in CopySet(n) \cup G
        OBVIOUS
      <3>1. <<k, i>> \in G <=> k \in S /\ i = m[k]
        OBVIOUS
      <3>2. m[k] = n[k] + (IF k \in S THEN 1 ELSE 0) /\ n[k] \in Nat
        BY <1>2
      <3>3. i \in 1 .. m[k] <=> i \in 1 .. n[k] \/ (k \in S /\ i = m[k])
        BY <3>2
      <3> QED
        BY <3>1, <3>3, CopySetIs
    <2>4. CopySet(m) = CopySet(n) \cup G
      <3>1. \A x \in CopySet(m) : x \in CopySet(n) \cup G
        BY <2>3, CopySetIs
      <3>2. \A x \in CopySet(n) : x \in CopySet(m)
        BY <2>3, CopySetIs
      <3>3. \A x \in G : x \in CopySet(m)
        <4>1. \A x \in G : \E k \in Keys : \E i : x = <<k, i>>
          OBVIOUS
        <4> QED
          BY <2>3, <4>1
      <3> QED
        BY <3>1, <3>2, <3>3
    <2> HIDE DEF G
    <2>5. Cardinality(CopySet(m)) =
             Cardinality(CopySet(n)) + Cardinality(G) - Cardinality(CopySet(n) \cap G)
      BY <1>0, <2>1, <2>4, FS_Union
    <2>6. Cardinality(CopySet(n) \cap G) = 0
      BY <2>2, FS_EmptySet
    <2>7. Cardinality(S) \in Nat
      BY <1>0, FS_CardinalityType
    <2> QED
      BY <1>0, <2>1, <2>5, <2>6, <2>7
  <1> QED
    BY <1>0, <1>1, <1>2

\* What a COPY adds, in copies altogether; nothing else changes their number.
LEMMA CopiesAdd ==
    ASSUME TypeOK, TypeOK', [Next]_vars, NEW t \in Tables
    PROVE  /\ Copies(t) \in Nat /\ Copies(t)' \in Nat /\ Copies(t) <= Copies(t)'
           /\ pc = "copy" /\ target' = Loaded =>
                 Copies(t)' = Copies(t) + (IF t = cur THEN Cardinality(chunk) ELSE 0)
  <1>1. /\ target[t] \in [Keys -> Nat] /\ target'[t] \in [Keys -> Nat]
        /\ Copies(t) = Cardinality(CopySet(target[t]))
        /\ Copies(t)' = Cardinality(CopySet(target'[t]))
    BY DEF TypeOK, Copies, CopySet
  <1>2. Copies(t) \in Nat /\ Copies(t)' \in Nat
    BY <1>1, CopiesCount
  <1>3. target' = target \/ (pc = "copy" /\ target' = Loaded)
    BY DEF Next, Process, Environment, vars, NewLoader, SkipTable, BeginTable,
           CountRows, FetchRange, ReadChunk, AdvancePK, LastChunk, OpenCursor, ReadBatch,
           AdvanceCursor, LastBatch, CopyFrom, CopyConflict, FinishTable, FailTable,
           Exit, QueryError, CopyError, Crash, TornSave, SourceInsert
  <1>4. CASE target' = target /\ ~(pc = "copy" /\ target' = Loaded)
    BY <1>1, <1>2, <1>4
  <1>5. CASE pc = "copy" /\ target' = Loaded
    <2>1. chunk \in SUBSET Keys
      BY DEF TypeOK
    <2>2. Cardinality(chunk) \in Nat
      BY <2>1, KeysAssumption, FS_Subset, FS_CardinalityType
    <2>3. CASE t = cur
      <3>1. \A k \in Keys : target'[t][k] = target[t][k] + (IF k \in chunk THEN 1 ELSE 0)
        BY <1>5, <2>1, <2>3, LoadedCounts DEF TypeOK
      <3>2. Cardinality(CopySet(target'[t])) = Cardinality(CopySet(target[t])) + Cardinality(chunk)
        BY <1>1, <2>1, <3>1, CopiesCount
      <3> QED
        BY <1>1, <1>2, <2>2, <2>3, <3>2
    <2>4. CASE t # cur
      <3>1. target'[t] = target[t]
        BY <1>5, <2>4 DEF Loaded, TypeOK
      <3> QED
        BY <1>1, <1>2, <2>4, <3>1
    <2> QED
      BY <2>3, <2>4
  <1> QED
    BY <1>3, <1>4, <1>5

\* Of the files and maps that saveState can leave, each counts as much as one of these.
LEMMA SavedCounts ==
    ASSUME TypeOK, [Next]_vars, file' # NoState, file' # file, NEW t \in Tables
    PROVE  file'[t].CompletedRows \in {prog[t].CompletedRows, prog'[t].CompletedRows}
  <1>1. \A p : saveState(p) => file' = p
    BY DEF saveState
  <1>2. CASE BeginTable \/ AdvancePK \/ AdvanceCursor \/ FinishTable
    BY <1>1, <1>2 DEF BeginTable, AdvancePK, AdvanceCursor, FinishTable
  <1>3. CASE FailTable
    <2>1. file' = [prog EXCEPT ![cur].status = "failed"]
      BY <1>1, <1>3 DEF FailTable
    <2> QED
      BY <2>1 DEF TypeOK, Progress
  <1>4. BeginTable \/ AdvancePK \/ AdvanceCursor \/ FinishTable \/ FailTable
    BY DEF Next, Process, Environment, vars, NewLoader, SkipTable, CountRows, FetchRange,
           ReadChunk, LastChunk, OpenCursor, ReadBatch, LastBatch, CopyFrom, CopyConflict, Exit,
           QueryError, CopyError, Crash, TornSave, SourceInsert
  <1> QED
    BY <1>2, <1>3, <1>4

\* The source only grows, and a table that is as it was at the start has been so.
LEMMA SourceGrows ==
    ASSUME TypeOK, TypeOK', SourceInv, [Next]_vars, NEW t \in Tables
    PROVE  /\ source'[t] = baseline'[t] => source[t] = baseline[t] /\ baseline'[t] = baseline[t]
           /\ Cardinality(source[t]) \in Nat /\ Cardinality(source'[t]) \in Nat
           /\ Cardinality(source[t]) <= Cardinality(source'[t])
  <1>1. source[t] \subseteq source'[t] /\ baseline' = baseline
    <2>1. CASE SourceInsert
      BY <2>1 DEF SourceInsert, TypeOK
    <2>2. CASE UNCHANGED databases
      BY <2>2 DEF databases
    <2>3. SourceInsert \/ UNCHANGED databases
      BY DEF databases, Next, Process, Environment, vars, NewLoader, SkipTable, BeginTable,
             CountRows, FetchRange, ReadChunk, AdvancePK, LastChunk, OpenCursor, ReadBatch,
             AdvanceCursor, LastBatch, CopyFrom, CopyConflict, FinishTable, FailTable,
             Exit, QueryError, CopyError, Crash, TornSave
    <2> QED
      BY <2>1, <2>2, <2>3
  <1>2. baseline[t] \subseteq source[t]
    BY DEF SourceInv
  <1>3. IsFiniteSet(source[t]) /\ IsFiniteSet(source'[t])
    BY KeysAssumption, FS_Subset DEF TypeOK
  <1> QED
    BY <1>1, <1>2, <1>3, FS_Subset, FS_CardinalityType

LEMMA InitCount == Init => CountInv
  <1> SUFFICES ASSUME Init PROVE CountInv
    OBVIOUS
  <1>1. \A t \in Tables : target[t] \in [Keys -> Nat] /\ Copies(t) = Cardinality(CopySet(target[t]))
    BY DEF Init, Copies, CopySet
  <1>2. \A t \in Tables : Copies(t) \in Nat
    BY <1>1, CopiesCount
  <1> QED
    BY <1>2 DEF Init, CountInv, Counted, Fresh

\* Every step preserves it: rows are counted after they are copied, and the COUNT(*)
\* replaces the count only when every row has arrived.
LEMMA StepCount ==
    ASSUME TypeOK, TypeOK', IInv, CountInv, [Next]_vars
    PROVE  CountInv'
  <1> USE DEF databases, memory, cur
  <1>t. pc \notin {"down", "table"} => cur \in Tables
    BY CurIsTable, OrderAssumption DEF TypeOK
  <1>c. \A t \in Tables :
           /\ Copies(t) \in Nat /\ Copies(t)' \in Nat /\ Copies(t) <= Copies(t)'
           /\ pc = "copy" /\ target' = Loaded =>
                 Copies(t)' = Copies(t) + (IF t = cur THEN Cardinality(chunk) ELSE 0)
    BY CopiesAdd
  <1>s. \A t \in Tables :
           /\ source'[t] = baseline'[t] => source[t] = baseline[t] /\ baseline'[t] = baseline[t]
           /\ Cardinality(source[t]) \in Nat /\ Cardinality(source'[t]) \in Nat
           /\ Cardinality(source[t]) <= Cardinality(source'[t])
    BY SourceGrows DEF IInv
  <1>p. \A t \in Tables : prog[t].CompletedRows \in Nat /\ prog'[t].CompletedRows \in Nat
    BY DEF TypeOK, Progress
  <1>k. Cardinality(chunk) \in Nat /\ Cardinality({}) = 0
    BY KeysAssumption, FS_Subset, FS_CardinalityType, FS_EmptySet DEF TypeOK
  <1> DEFINE Pending(t) == IF pc = "advance" /\ t = cur THEN Cardinality(chunk) ELSE 0
             Told == \A t \in Tables : source[t] = baseline[t] =>
                        prog[t].CompletedRows + Pending(t) <= Copies(t)
             Filed == file # NoState => \A t \in Tables : source[t] = baseline[t] =>
                        file[t].CompletedRows <= Copies(t)
  <1>f. file # NoState => \A t \in Tables : file[t].CompletedRows \in Nat
    BY DEF TypeOK, Progress
  <1>0. Told /\ Filed
    BY <1>f DEF CountInv, Counted
  <1>m. \A t \in Tables : Pending(t) \in Nat
    BY <1>k
  <1>1. Told'
    <2> SUFFICES ASSUME NEW t \in Tables, source'[t] = baseline'[t]
                 PROVE  prog'[t].CompletedRows + Pending(t)' <= Copies(t)'
      OBVIOUS
    <2>0. /\ source[t] = baseline[t] /\ Copies(t) \in Nat /\ Copies(t)' \in Nat
          /\ Copies(t) <= Copies(t)' /\ prog[t].CompletedRows \in Nat
          /\ prog[t].CompletedRows + Pending(t) <= Copies(t)
      BY <1>0, <1>c, <1>s, <1>p
    <2>1. CASE NewLoader
      <3>1. Pending(t)' = 0
        BY <2>1 DEF NewLoader
      <3>2. file = NoState => prog'[t].CompletedRows = 0
        BY <2>1 DEF NewLoader, Decode, Fresh
      <3>3. file # NoState => prog'[t].CompletedRows = file[t].CompletedRows
        <4>1. file # NoState => file[t] \in Progress
          BY DEF TypeOK
        <4> DEFINE last == IF file[t].LastPKValue = None THEN None
                           ELSE Float64(file[t].LastPKValue)
        <4>2. file # NoState => prog'[t] = [file[t] EXCEPT !.LastPKValue = last]
          BY <2>1 DEF NewLoader, Decode
        <4> HIDE DEF last
        <4> QED
          BY <4>1, <4>2 DEF Progress
      <3> HIDE DEF Pending
      <3> QED
        BY <1>0, <1>f, <2>0, <3>1, <3>2, <3>3
    <2>2. CASE BeginTable
      <3>1. prog'[t].CompletedRows = prog[t].CompletedRows
        BY <2>2 DEF BeginTable, SetStatus, TypeOK, Progress
      <3>2. Pending(t)' = 0
        BY <2>2 DEF BeginTable
      <3> HIDE DEF Pending
      <3> QED
        BY <1>m, <2>0, <3>1, <3>2
    <2>3. CASE AdvancePK \/ AdvanceCursor
      <3>1. Pending(t)' = 0
        BY <2>3 DEF AdvancePK, AdvanceCursor
      <3>2. Pending(t) = IF t = cur THEN Cardinality(chunk) ELSE 0
        BY <2>3 DEF AdvancePK, AdvanceCursor
      <3>3. prog'[t].CompletedRows =
               IF t = cur THEN prog[t].CompletedRows + Cardinality(chunk)
               ELSE prog[t].CompletedRows
        BY <2>3, <1>t DEF AdvancePK, AdvanceCursor, TypeOK, Progress
      <3> HIDE DEF Pending
      <3> QED
        BY <1>k, <2>0, <3>1, <3>2, <3>3
    <2>4. CASE CopyFrom \/ CopyError
      <3>1. pc = "copy" /\ prog' = prog /\ Pending(t) = 0
        BY <2>4 DEF CopyFrom, CopyError
      <3>2. CASE CopyFrom
        <4>1. Pending(t)' = IF t = cur THEN Cardinality(chunk) ELSE 0
          BY <3>2 DEF CopyFrom
        <4>2. Copies(t)' = Copies(t) + (IF t = cur THEN Cardinality(chunk) ELSE 0)
          BY <1>c, <3>1, <3>2 DEF CopyFrom
        <4> HIDE DEF Pending
        <4> QED
          BY <1>k, <2>0, <3>1, <4>1, <4>2
      <3>3. CASE CopyError
        <4>1. Pending(t)' = 0
          BY <3>3 DEF CopyError
        <4> HIDE DEF Pending
        <4> QED
          BY <2>0, <3>1, <4>1
      <3> QED
        BY <2>4, <3>2, <3>3
    <2>5. CASE FinishTable
      <3>1. Pending(t) = 0 /\ Pending(t)' = 0
        BY <2>5 DEF FinishTable
      <3>2. CASE t = cur
        <4>1. prog'[t].CompletedRows = totalRows
          BY <2>5, <3>2 DEF FinishTable, TypeOK, Progress
        <4>2. totalRows <= Cardinality(source[t]) /\ totalRows \in Nat
          BY <2>5, <3>2 DEF FinishTable, CountInv, TypeOK
        <4>3. source[t] \subseteq Have[t]
          BY <2>0, <2>5, <3>2 DEF FinishTable, IInv, FinishInv
        <4>4. /\ target[t] \in [Keys -> Nat] /\ source[t] \in SUBSET Keys
              /\ Copies(t) = Cardinality(CopySet(target[t]))
          BY DEF TypeOK, Copies, CopySet
        <4>5. \A k \in source[t] : target[t][k] > 0
          BY <4>3 DEF Have
        <4>6. Cardinality(source[t]) <= Copies(t)
          BY <4>4, <4>5, CopiesCount
        <4> HIDE DEF Pending
        <4> QED
          BY <1>s, <2>0, <3>1, <4>1, <4>2, <4>6
      <3>3. CASE t # cur
        <4>1. prog'[t] = prog[t]
          BY <2>5, <3>3 DEF FinishTable, TypeOK
        <4> HIDE DEF Pending
        <4> QED
          BY <2>0, <3>1, <4>1
      <3> QED
        BY <3>2, <3>3
    <2>6. CASE Shutdown
      <3>1. prog'[t].CompletedRows = 0 /\ Pending(t)' = 0
        BY <2>6 DEF Shutdown, Fresh
      <3> HIDE DEF Pending
      <3> QED
        BY <2>0, <3>1
    <2>7. CASE prog' = prog /\ (pc' # "advance" \/ chunk' = {})
      <3>1. Pending(t)' = 0
        BY <1>k, <2>7
      <3> HIDE DEF Pending
      <3> QED
        BY <1>m, <2>0, <2>7, <3>1
    <2>8. CASE UNCHANGED <<prog, pc, idx, chunk>>
      <3>1. Pending(t)' = Pending(t)
        BY <2>8
      <3> HIDE DEF Pending
      <3> QED
        BY <1>m, <2>0, <2>8, <3>1
    <2>9. SkipTable \/ CountRows \/ FetchRange \/ ReadChunk \/ LastChunk \/ OpenCursor
          \/ ReadBatch \/ LastBatch \/ CopyConflict \/ QueryError
             => prog' = prog /\ (pc' # "advance" \/ chunk' = {})
      BY DEF SkipTable, CountRows, FetchRange, ReadChunk, LastChunk, OpenCursor, ReadBatch,
             LastBatch, CopyConflict, QueryError
    <2>10. FailTable \/ Exit \/ Crash \/ TornSave => Shutdown
      BY DEF FailTable, Exit, Crash, TornSave
    <2>11. SourceInsert \/ UNCHANGED vars => UNCHANGED <<prog, pc, idx, chunk>>
      BY DEF SourceInsert, vars
    <2> QED
      BY <2>1, <2>2, <2>3, <2>4, <2>5, <2>6, <2>7, <2>8, <2>9, <2>10, <2>11
         DEF Next, Process, Environment
  <1> HIDE DEF Pending
  <1>2. Filed'
    <2> SUFFICES ASSUME file' # NoState, NEW t \in Tables, source'[t] = baseline'[t]
                 PROVE  file'[t].CompletedRows <= Copies(t)'
      OBVIOUS
    <2>0. /\ source[t] = baseline[t] /\ Copies(t) \in Nat /\ Copies(t)' \in Nat
          /\ Copies(t) <= Copies(t)'
          /\ prog[t].CompletedRows \in Nat /\ prog'[t].CompletedRows \in Nat
          /\ Pending(t) \in Nat /\ Pending(t)' \in Nat
      <3>1. Pending(t)' \in Nat
        BY KeysAssumption, FS_Subset, FS_CardinalityType DEF TypeOK, Pending
      <3> QED
        BY <1>c, <1>s, <1>p, <1>m, <3>1
    <2>1. CASE file' = file
      BY <1>0, <1>f, <2>0, <2>1
    <2>2. CASE file' # file
      <3>1. file'[t].CompletedRows \in {prog[t].CompletedRows, prog'[t].CompletedRows}
        BY <2>2, SavedCounts
      <3>2. prog[t].CompletedRows + Pending(t) <= Copies(t)
        BY <1>0, <2>0
      <3>3. prog'[t].CompletedRows + Pending(t)' <= Copies(t)'
        BY <1>1
      <3> QED
        BY <2>0, <3>1, <3>2, <3>3
    <2> QED
      BY <2>1, <2>2
  <1>3. (pc \notin {"down", "table", "count", "fail"} => totalRows <= Cardinality(source[cur]))'
    <2>1. CASE CountRows
      BY <1>s, <1>t, <2>1 DEF CountRows
    <2>2. CASE UNCHANGED <<totalRows, idx>> /\ pc \notin {"down", "table", "count", "fail"}
      BY <1>s, <1>t, <2>2 DEF CountInv, TypeOK
    <2>3. CASE pc' \in {"down", "table", "count", "fail"}
      BY <2>3
    <2> QED
      BY <2>1, <2>2, <2>3
         DEF Next, Process, Environment, vars, NewLoader, SkipTable, BeginTable, FetchRange,
             ReadChunk, AdvancePK, LastChunk, OpenCursor, ReadBatch, AdvanceCursor, LastBatch,
             CopyFrom, CopyConflict, FinishTable, FailTable, Exit, QueryError, CopyError, Crash,
             TornSave, SourceInsert, Shutdown
  <1> QED
    <2>1. \A t \in Tables :
             (Counted(prog, t, IF pc = "advance" /\ t = cur THEN Cardinality(chunk) ELSE 0))'
      BY <1>1 DEF Counted, Pending
    <2>2. file' # NoState => \A t \in Tables : Counted(file, t, 0)'
      <3>1. file' # NoState => \A t \in Tables : file'[t].CompletedRows \in Nat
        BY DEF TypeOK, Progress
      <3> QED
        BY <1>2, <3>1 DEF Counted
    <2> QED
      BY <1>3, <2>1, <2>2 DEF CountInv
\* What the reports show of a table that no client writes to is never more than what
\* was delivered, over any number of runs and whatever went wrong in them.
THEOREM ProgressIsNeverOverstated ==
    ASSUME KeysInRange, "readTruncated" \notin Faults
    PROVE  Spec => []ProgressNeverOverstated
  <1>1. Init => CountInv
    BY InitCount
  <1>2. CountInv /\ (TypeOK /\ IInv) /\ (TypeOK /\ IInv)' /\ [Next]_vars => CountInv'
    BY StepCount
  <1>3. TypeOK /\ CountInv => ProgressNeverOverstated
    <2> SUFFICES ASSUME TypeOK, CountInv, file # NoState, NEW t \in Tables,
                        source[t] = baseline[t]
                 PROVE  file[t].CompletedRows <= Copies(t)
      BY DEF ProgressNeverOverstated
    <2>1. file[t].CompletedRows \in Nat
      BY DEF TypeOK, Progress
    <2>2. file[t].CompletedRows + 0 <= Copies(t)
      BY DEF CountInv, Counted
    <2> QED
      BY <2>1, <2>2
  <1> QED
    BY <1>1, <1>2, <1>3, LoaderInvariant, PTL DEF Spec
-----------------------------------------------------------------------------
(* Where the rows of the target come from.                                   *)

\* The target holds rows of the source only, one copy of each where a key says so.
OnlySourceRows ==
    \A t \in Tables :
        /\ Have[t] \subseteq source[t]
        /\ t \in UniqueTables => \A k \in Keys : target[t][k] <= 1

\* So are those that are read and not yet copied.
OriginInv ==
    /\ OnlySourceRows /\ ModeInv
    /\ pc = "copy" => chunk \subseteq source[cur]
    /\ pc \in {"batch", "copy", "advance"} /\ cur \notin PKTables => unread \subseteq source[cur]

LEMMA StepOrigin ==
    ASSUME TypeOK, OriginInv, [Next]_vars
    PROVE  OriginInv'
  <1> USE DEF databases, memory, cur
  <1>t. pc \notin {"down", "table"} => cur \in Tables
    BY CurIsTable, OrderAssumption DEF TypeOK
  <1>s. \A t \in Tables : source[t] \subseteq source'[t]
    <2>1. CASE SourceInsert
      BY <2>1 DEF SourceInsert, TypeOK
    <2>2. CASE UNCHANGED databases
      BY <2>2
    <2>3. SourceInsert \/ UNCHANGED databases
      BY DEF Next, Process, Environment, vars, NewLoader, SkipTable, BeginTable,
             CountRows, FetchRange, ReadChunk, AdvancePK, LastChunk, OpenCursor, ReadBatch,
             AdvanceCursor, LastBatch, CopyFrom, CopyConflict, FinishTable, FailTable,
             Exit, QueryError, CopyError, Crash, TornSave
    <2> QED
      BY <2>1, <2>2, <2>3
  <1>1. OnlySourceRows'
    <2>1. CASE target' = target
      BY <1>s, <2>1 DEF OriginInv, OnlySourceRows, Have
    <2>2. CASE CopyFrom \/ CopyError
      <3>1. pc = "copy" /\ ~Conflicts /\ target' \in {target, Loaded} /\ source' = source
        BY <2>2 DEF CopyFrom, CopyError
      <3>2. CASE target' = Loaded
        <4> SUFFICES ASSUME NEW t \in Tables, NEW k \in Keys
                     PROVE  /\ target'[t][k] > 0 => k \in source[t]
                            /\ t \in UniqueTables => target'[t][k] <= 1
          BY <3>1 DEF OnlySourceRows, Have
        <4>1. /\ target'[t][k] = IF t = cur /\ k \in chunk THEN target[t][k] + 1 ELSE target[t][k]
              /\ target[t][k] \in Nat
          BY <3>1, <3>2, LoadedCounts DEF TypeOK
        <4>2. /\ target[t][k] > 0 => k \in source[t]
              /\ t \in UniqueTables => target[t][k] <= 1
          BY DEF OriginInv, OnlySourceRows, Have
        <4>3. t = cur /\ k \in chunk => k \in source[t]
          BY <3>1 DEF OriginInv
        <4>4. t = cur /\ k \in chunk /\ t \in UniqueTables => ~(target[t][k] > 0)
          BY <3>1 DEF Conflicts, Have
        <4> QED
          BY <4>1, <4>2, <4>3, <4>4
      <3> QED
        BY <2>1, <3>1, <3>2
    <2>3. target' = target \/ CopyFrom \/ CopyError
      BY DEF Next, Process, Environment, vars, NewLoader, SkipTable, BeginTable,
             CountRows, FetchRange, ReadChunk, AdvancePK, LastChunk, OpenCursor, ReadBatch,
             AdvanceCursor, LastBatch, CopyConflict, FinishTable, FailTable,
             Exit, QueryError, Crash, TornSave, SourceInsert
    <2> QED
      BY <2>1, <2>2, <2>3
  <1>2. (pc = "copy" => chunk \subseteq source[cur])'
    <2>1. CASE ReadChunk
      BY <2>1 DEF ReadChunk
    <2>2. CASE ReadBatch
      <3>1. unread \subseteq source[cur]
        BY <2>2 DEF ReadBatch, OriginInv, ModeInv
      <3> QED
        BY <2>2, <3>1 DEF ReadBatch
    <2>3. CASE SourceInsert \/ UNCHANGED vars
      BY <1>s, <1>t, <2>3 DEF SourceInsert, vars, OriginInv
    <2>4. CASE pc' # "copy"
      BY <2>4
    <2> QED
      BY <2>1, <2>2, <2>3, <2>4
         DEF Next, Process, Environment, NewLoader, SkipTable, BeginTable, CountRows, FetchRange,
             AdvancePK, LastChunk, OpenCursor, AdvanceCursor, LastBatch, CopyFrom, CopyConflict,
             FinishTable, FailTable, Exit, QueryError, CopyError, Crash, TornSave, Shutdown
  <1>3. (pc \in {"batch", "copy", "advance"} /\ cur \notin PKTables => unread \subseteq source[cur])'
    <2>1. CASE OpenCursor
      BY <2>1 DEF OpenCursor
    <2>2. CASE ReadBatch
      BY <2>2 DEF ReadBatch, OriginInv
    <2>3. CASE SourceInsert \/ UNCHANGED vars \/ AdvanceCursor \/ CopyFrom
      BY <1>s, <1>t, <2>3 DEF SourceInsert, vars, AdvanceCursor, CopyFrom, OriginInv
    <2>4. CASE ReadChunk
      BY <2>4 DEF ReadChunk, OriginInv, ModeInv
    <2>5. CASE pc' \notin {"batch", "copy", "advance"}
      BY <2>5
    <2> QED
      BY <2>1, <2>2, <2>3, <2>4, <2>5
         DEF Next, Process, Environment, NewLoader, SkipTable, BeginTable, CountRows, FetchRange,
             AdvancePK, LastChunk, LastBatch, CopyConflict,
             FinishTable, FailTable, Exit, QueryError, CopyError, Crash, TornSave, Shutdown
  <1>4. ModeInv'
    BY DEF OriginInv, ModeInv, Next, Process, Environment, vars, NewLoader, SkipTable, BeginTable,
           CountRows, FetchRange, ReadChunk, AdvancePK, LastChunk, OpenCursor, ReadBatch,
           AdvanceCursor, LastBatch, CopyFrom, CopyConflict, FinishTable, FailTable,
           Exit, QueryError, CopyError, Crash, TornSave, SourceInsert, Shutdown
  <1> QED
    BY <1>1, <1>2, <1>3, <1>4 DEF OriginInv

\* Whatever fails, is cut short or is inserted meanwhile, and however many runs it
\* takes, the loader delivers nothing but rows of the source, and no row twice into a
\* table that has its key (loader.go:286): what Validator assumes of its target.
THEOREM DeliversOnlySourceRows == Spec => []OnlySourceRows
  <1>1. Init => OriginInv
    BY DEF Init, OriginInv, OnlySourceRows, ModeInv, Have
  <1>2. TypeOK /\ OriginInv /\ [Next]_vars => OriginInv'
    BY StepOrigin
  <1>3. OriginInv => OnlySourceRows
    BY DEF OriginInv
  <1> QED
    BY <1>1, <1>2, <1>3, TypeCorrect, PTL DEF Spec

\* A completed table with its key in the target, which no client wrote to, is an exact
\* copy.
QuietIsExact ==
    \A t \in UniqueTables : Saved(t) /\ source[t] = baseline[t] =>
        target[t] = [k \in Keys |-> IF k \in source[t] THEN 1 ELSE 0]

\* Crashes, lost commits, torn and failed saves and any number of retries
\* notwithstanding: what the state file calls completed is then neither short of a row
\* nor has one twice.
THEOREM QuietTablesAreExact ==
    ASSUME KeysInRange, "readTruncated" \notin Faults
    PROVE  Spec => []QuietIsExact
  <1>1. TypeOK /\ CompletedIsComplete /\ OnlySourceRows => QuietIsExact
    <2> SUFFICES ASSUME TypeOK, CompletedIsComplete, OnlySourceRows,
                        NEW t \in UniqueTables, Saved(t), source[t] = baseline[t]
                 PROVE  target[t] = [k \in Keys |-> IF k \in source[t] THEN 1 ELSE 0]
      BY DEF QuietIsExact
    <2>1. t \in Tables /\ target[t] \in [Keys -> Nat]
      BY TablesAssumption DEF TypeOK
    <2>2. ASSUME NEW k \in Keys PROVE target[t][k] = IF k \in source[t] THEN 1 ELSE 0
      <3>1. target[t][k] \in Nat /\ target[t][k] <= 1
        BY <2>1 DEF OnlySourceRows
      <3>2. k \in source[t] <=> target[t][k] > 0
        BY <2>1 DEF OnlySourceRows, CompletedIsComplete, Have
      <3> QED
        BY <3>1, <3>2
    <2> QED
      BY <2>1, <2>2
  <1> QED
    BY <1>1, TypeCorrect, CompletedTablesAreComplete, DeliversOnlySourceRows, PTL

=============================================================================
