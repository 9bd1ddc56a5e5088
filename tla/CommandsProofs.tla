--------------------------- MODULE CommandsProofs ---------------------------
(***************************************************************************)
(* The proofs of Commands, for any configurations, databases, tables and   *)
(* rows and any sequence of commands and faults.                           *)
(***************************************************************************)
EXTENDS Commands, FiniteSetTheorems, TLAPS

\* The invariant that every step preserves.
CommandsInv == TypeOK /\ CInv

LEMMA OrderFacts ==
    /\ Len(TableOrder) \in Nat
    /\ \A i \in 1 .. Len(TableOrder) : TableOrder[i] \in Tables
    /\ \A t \in Tables : \E i \in 1 .. Len(TableOrder) : TableOrder[i] = t
  BY OrderAssumption DEF Tables, ToSet

LEMMA FileFacts ==
    /\ Evidence \subseteq Files
    /\ \A name \in {"preview", "migration", "sequence", "drilldown", "sanitized"} :
          File(name) \in Files
    /\ \A c \in Configs : Json(c) \in Files /\ Md(c) \in Files
    /\ \A c \in Configs : /\ Json(c) \notin Evidence
                          /\ Md(c) \notin Evidence \cup {Json(c)}
    /\ \A o \in Outs : <<o, "json">> \in Files /\ <<o, "md">> \in Files
    /\ File("sequence") # File("drilldown") /\ File("sequence") # File("sanitized")
    /\ File("drilldown") # File("sanitized")
  <1>1. \A name \in {"preview", "migration", "sequence", "drilldown", "sanitized"} :
           File(name) \in Files
    <2>1. /\ File("sequence") \in Evidence /\ File("drilldown") \in Evidence
          /\ File("sanitized") \in Evidence
      BY DEF Evidence
    <2>2. File("preview") \in Files /\ File("migration") \in Files /\ Evidence \subseteq Files
      BY DEF Files
    <2> QED
      BY <2>1, <2>2
  <1>2. \A o \in Outs : <<o, "json">> \in Files /\ <<o, "md">> \in Files
    BY DEF Files
  <1>3. \A c \in Configs : Json(c) \in Files /\ Md(c) \in Files
    BY <1>2 DEF Json, Md, Outs
  <1>4. ASSUME NEW c \in Configs
        PROVE  /\ Json(c) \notin Evidence /\ Md(c) \notin Evidence /\ Md(c) # Json(c)
    BY DEF Json, Md, Evidence, File
  <1>5. /\ File("sequence") # File("drilldown") /\ File("sequence") # File("sanitized")
        /\ File("drilldown") # File("sanitized")
    BY DEF File
  <1> QED
    BY <1>1, <1>2, <1>3, <1>4, <1>5 DEF Evidence, Files

\* The configuration of the process names a source, a target and a state file.
LEMMA ConfigFacts ==
    ASSUME TypeOK, pc # "idle"
    PROVE  /\ proc \in Processes /\ proc.config \in Configs
           /\ cfg.source \in Sources /\ cfg.target \in Targets
           /\ cfg.stateFile \in StateFiles
           /\ \A t \in Tables : Source(t) \subseteq AllRows
  <1>1. proc \in Processes /\ proc.config \in Configs
    BY DEF TypeOK, Processes
  <1> QED
    BY <1>1 DEF cfg, Sources, Targets, StateFiles, Source, AllRows

-----------------------------------------------------------------------------
(* Types.                                                                  *)

LEMMA WrittenGrows ==
    ASSUME NEW n \in Nat PROVE Written(n) \subseteq Written(n + 1)
  BY DEF Written

LEMMA WroteType ==
    ASSUME TypeOK, NEW file \in Files,
           NEW what \in Verdicts \cup {"nothing", "torn", "items", "dry_run_only", "dry_run",
                                       "executed_local_only"},
           NEW listed \in SUBSET (Tables \X AllRows), Wrote(file, what, listed)
    PROVE  disk' \in [Files -> Written(commands)]
  BY BoundsAssumption DEF TypeOK, Wrote, Written

LEMMA EndType ==
    ASSUME TypeOK, NEW how, End(how)
    PROVE  /\ pc' = "idle" /\ proc' = None
           /\ planned' \in SUBSET Tables /\ completed' \in SUBSET Tables
           /\ at' \in 1 .. Len(TableOrder) + 1
           /\ recorder' \in SUBSET (Tables \X AllRows)
           /\ audit' \in Audits
  BY OrderFacts DEF End, NoAudit, Audits

\* A validation has its verdict before it is written down.
LEMMA AuditIsVerdict ==
    ASSUME AuditInv, pc \in {"json", "md"} PROVE audit.status \in Verdicts
  BY DEF AuditInv

\* What SaveState does to owner.
LEMMA Recorded ==
    ASSUME TypeOK, NEW f \in StateFiles, NEW t \in Tables, NEW job \in Sources \X Targets
    PROVE  [owner EXCEPT ![f][t] = job] \in
               [StateFiles -> [Tables -> {None} \cup (Sources \X Targets)]]
  <1> DEFINE Owners == {None} \cup (Sources \X Targets)
  <1>1. owner \in [StateFiles -> [Tables -> Owners]] /\ job \in Owners
    BY DEF TypeOK
  <1> HIDE DEF Owners
  <1>2. [owner EXCEPT ![f][t] = job] \in [StateFiles -> [Tables -> Owners]]
    BY <1>1
  <1> QED
    BY <1>2 DEF Owners

LEMMA TypeStep == CommandsInv /\ [Next]_vars => TypeOK'
  <1> SUFFICES ASSUME TypeOK, StreamedInv, AuditInv, [Next]_vars PROVE TypeOK'
    BY DEF CommandsInv, CInv
  <1> USE DEF target, store, memory
  <1>1. CASE Start
    <2>1. disk' \in [Files -> Written(commands')]
      BY <1>1, WrittenGrows, BoundsAssumption DEF Start, TypeOK
    <2>2. commands' \in 0 .. MaxCommands
      BY <1>1, BoundsAssumption DEF Start, TypeOK
    <2>3. proc' \in Processes /\ pc' \in {"gate", "inspect"}
      BY <1>1 DEF Start, Processes
    <2>4. proc' # None
      BY <2>3, NoneAssumption
    <2> QED
      BY <1>1, <2>1, <2>2, <2>3, <2>4 DEF Start, TypeOK, Steps
  <1>2. CASE PassGates
    BY <1>2 DEF PassGates, TypeOK, Steps
  <1>3. CASE Refuse
    BY <1>3, EndType DEF Refuse, TypeOK, Steps
  <1>4. CASE Inspect
    BY <1>4, BoundsAssumption DEF Inspect, TypeOK, Steps
  <1>5. CASE WritePreview
    BY <1>5, EndType, WroteType, FileFacts DEF WritePreview, TypeOK, Steps
  <1>6. CASE CreateTables
    BY <1>6, ConfigFacts DEF CreateTables, TypeOK, Steps
  <1>7. CASE SkipTable
    BY <1>7, OrderFacts DEF SkipTable, Streaming, TypeOK, Steps
  <1>8. CASE CopyTable
    <2> DEFINE t == TableOrder[at]
    <2>1. t \in Tables /\ Source(t) \subseteq AllRows /\ cfg.target \in Targets
      BY <1>8, ConfigFacts DEF CopyTable, Streaming, TypeOK
    <2>2. rows' = [rows EXCEPT ![cfg.target][t] = @ \cup Source(t)]
      BY <1>8 DEF CopyTable
    <2>3. rows' \in [Targets -> [Tables -> SUBSET AllRows]]
      BY <2>1, <2>2 DEF TypeOK
    <2>4. recorder' \in SUBSET (Tables \X AllRows)
      <3>1. {<<t, r>> : r \in Source(t) \cap Dirty} \subseteq Tables \X AllRows
        BY <2>1
      <3>2. recorder' = recorder \cup {<<t, r>> : r \in Source(t) \cap Dirty}
        BY <1>8 DEF CopyTable
      <3> QED
        BY <3>1, <3>2 DEF TypeOK
    <2> QED
      BY <1>8, <2>3, <2>4 DEF CopyTable, Streaming, TypeOK, Steps
  <1>9. CASE CopyFails
    BY <1>9, EndType DEF CopyFails, TypeOK, Steps
  <1>10. CASE SaveState
    <2> DEFINE t == TableOrder[at]
    <2>1. /\ at \in 1 .. Len(TableOrder) /\ t \in Tables /\ pc # "idle"
          /\ cfg.stateFile \in StateFiles
          /\ <<cfg.source, cfg.target>> \in Sources \X Targets
      BY <1>10, ConfigFacts, OrderFacts DEF SaveState, StreamedInv, TypeOK
    <2>2. completed' \in SUBSET Tables
      BY <1>10, <2>1 DEF SaveState, TypeOK
    <2>3. states' \in [StateFiles -> SUBSET Tables]
      BY <1>10, <2>1, <2>2 DEF SaveState, TypeOK
    <2>4. owner' \in [StateFiles -> [Tables -> {None} \cup (Sources \X Targets)]]
      <3>1. \/ UNCHANGED owner
            \/ owner' = [owner EXCEPT ![cfg.stateFile][t] = <<cfg.source, cfg.target>>]
        BY <1>10 DEF SaveState
      <3>2. [owner EXCEPT ![cfg.stateFile][t] = <<cfg.source, cfg.target>>] \in
                [StateFiles -> [Tables -> {None} \cup (Sources \X Targets)]]
        BY <2>1, Recorded
      <3> QED
        BY <3>1, <3>2 DEF TypeOK
    <2>5. at' \in 1 .. Len(TableOrder) + 1
      BY <1>10, <2>1 DEF SaveState
    <2> QED
      BY <1>10, <2>2, <2>3, <2>4, <2>5 DEF SaveState, TypeOK, Steps
  <1>11. CASE WriteSanitizedRowsReports
    BY <1>11, WroteType, FileFacts DEF WriteSanitizedRowsReports, TypeOK, Steps
  <1>12. CASE WriteSequenceResetReports
    BY <1>12, WroteType, FileFacts DEF WriteSequenceResetReports, TypeOK, Steps
  <1>13. CASE WriteMigrationReport
    BY <1>13, EndType, WroteType, FileFacts DEF WriteMigrationReport, TypeOK, Steps
  <1>14. CASE WriteDryValidation
    <2>1. Md(proc.config) \in Files
      BY <1>14, ConfigFacts, FileFacts DEF WriteDryValidation
    <2>2. disk' \in [Files -> Written(commands)]
      <3>1. Wrote(Md(proc.config), "dry_run", {})
        BY <1>14 DEF WriteDryValidation
      <3> QED
        BY <2>1, <3>1, WroteType
    <2> QED
      BY <1>14, <2>2, EndType DEF WriteDryValidation, TypeOK, Steps
  <1>15. CASE Validate
    BY <1>15 DEF Validate, Audit, Verdicts, Audits, TypeOK, Steps
  <1>16. CASE ValidateFails
    <2>1. End("error")
      BY <1>16 DEF ValidateFails
    <2> QED
      BY <1>16, <2>1, EndType DEF ValidateFails, TypeOK, Steps
  <1>17. CASE WriteChecksumDrilldownReports
    BY <1>17, WroteType, FileFacts DEF WriteChecksumDrilldownReports, TypeOK, Steps
  <1>18. CASE WriteValidationJson
    <2>1. Json(proc.config) \in Files /\ audit.status \in Verdicts
      BY <1>18, ConfigFacts, FileFacts, AuditIsVerdict DEF WriteValidationJson
    <2>2. disk' \in [Files -> Written(commands)]
      BY <1>18, <2>1, WroteType DEF WriteValidationJson
    <2> QED
      BY <1>18, <2>2 DEF WriteValidationJson, TypeOK, Steps
  <1>19. CASE WriteValidationMd
    <2>1. Md(proc.config) \in Files /\ audit.status \in Verdicts
      BY <1>19, ConfigFacts, FileFacts, AuditIsVerdict DEF WriteValidationMd
    <2>2. disk' \in [Files -> Written(commands)]
      BY <1>19, <2>1, WroteType DEF WriteValidationMd
    <2> QED
      BY <1>19, <2>2, EndType DEF WriteValidationMd, TypeOK, Steps
  <1>20. CASE Stop
    <2>1. Writing # None => Writing \in Files
      BY <1>20, ConfigFacts, FileFacts DEF Stop, Writing
    <2>2. disk' \in [Files -> Written(commands)]
      BY <1>20, <2>1, WroteType DEF Stop, TypeOK
    <2>3. faults' \in 0 .. MaxFaults
      BY <1>20, BoundsAssumption DEF Stop, TypeOK
    <2> QED
      BY <1>20, <2>2, <2>3, EndType DEF Stop, TypeOK, Steps
  <1>21. CASE UNCHANGED vars
    BY <1>21 DEF vars, TypeOK
  <1>22. CASE ResetSequences
    <2>1. pc # "idle" /\ planned \subseteq Tables /\ UNCHANGED <<created, rows>>
      BY <1>22 DEF ResetSequences, TypeOK
    <2>2. past' \in [Targets -> [Tables -> SUBSET Keys(AllRows)]]
      <3>1. PICK set \in SUBSET planned :
               past' = [past EXCEPT ![cfg.target] =
                   [t \in Tables |->
                       IF t \in set THEN Keys(Target(t)) ELSE past[cfg.target][t]]]
        BY <1>22 DEF ResetSequences
      <3>2. cfg.target \in Targets
        BY <2>1, ConfigFacts
      <3>3. \A t \in Tables : Keys(Target(t)) \subseteq Keys(AllRows)
        BY <3>2 DEF Keys, Target, TypeOK
      <3>4. [t \in Tables |-> IF t \in set THEN Keys(Target(t)) ELSE past[cfg.target][t]]
                \in [Tables -> SUBSET Keys(AllRows)]
        BY <3>2, <3>3 DEF TypeOK
      <3> QED
        BY <3>1, <3>4 DEF TypeOK
    <2>3. audit' \in Audits /\ faults' \in 0 .. MaxFaults
      <3>1. /\ audit \in Audits
            /\ [audit EXCEPT !.status = ShortOfPassed(@)] \in Audits
            /\ [status |-> "VALIDATION_FAILED", gate |-> "blocked"] \in Audits
        BY DEF TypeOK, Audits, ShortOfPassed, Verdicts
      <3>2. \/ UNCHANGED <<audit, faults>>
            \/ /\ faults < MaxFaults /\ faults' = faults + 1
               /\ \/ audit' = [audit EXCEPT !.status = ShortOfPassed(@)]
                  \/ audit' = [status |-> "VALIDATION_FAILED", gate |-> "blocked"]
        BY <1>22 DEF ResetSequences
      <3>3. audit' \in Audits
        BY <3>1, <3>2, Zenon
      <3>4. faults' \in 0 .. MaxFaults
        <4>1. faults \in 0 .. MaxFaults
          BY DEF TypeOK
        <4>2. faults' = faults \/ (faults < MaxFaults /\ faults' = faults + 1)
          BY <3>2, Zenon
        <4> QED
          BY <4>1, <4>2, BoundsAssumption
      <3> QED
        BY <3>3, <3>4
    <2> QED
      BY <1>22, <2>1, <2>2, <2>3 DEF ResetSequences, TypeOK, Steps
  <1>23. CASE ResetFailed
    BY <1>23, EndType DEF ResetFailed, TypeOK, Steps
  <1> QED
    BY <1>1, <1>2, <1>3, <1>4, <1>5, <1>6, <1>7, <1>8, <1>9, <1>10, <1>11, <1>12, <1>13, <1>14,
       <1>15, <1>16, <1>17, <1>18, <1>19, <1>20, <1>21, <1>22, <1>23
       DEF Next
-----------------------------------------------------------------------------
(* What the step of a command says of it.                                  *)

LEMMA PhaseStep == CommandsInv /\ [Next]_vars => PhaseInv'
  <1> SUFFICES ASSUME PhaseInv, [Next]_vars PROVE PhaseInv'
    BY DEF CommandsInv, CInv
  <1> USE DEF PhaseInv, target, store, memory
  <1>1. CASE Start
    BY <1>1 DEF Start
  <1>2. CASE PassGates
    BY <1>2 DEF PassGates
  <1>3. CASE Refuse
    BY <1>3 DEF Refuse, End
  <1>4. CASE Inspect
    BY <1>4 DEF Inspect
  <1>5. CASE WritePreview
    BY <1>5 DEF WritePreview, End
  <1>6. CASE CreateTables
    BY <1>6 DEF CreateTables
  <1>7. CASE SkipTable
    BY <1>7 DEF SkipTable, Streaming
  <1>8. CASE CopyTable
    BY <1>8 DEF CopyTable, Streaming
  <1>9. CASE CopyFails
    BY <1>9 DEF CopyFails, End
  <1>10. CASE SaveState
    BY <1>10 DEF SaveState
  <1>11. CASE WriteSanitizedRowsReports
    BY <1>11 DEF WriteSanitizedRowsReports
  <1>12. CASE WriteSequenceResetReports
    BY <1>12 DEF WriteSequenceResetReports
  <1>13. CASE WriteMigrationReport
    BY <1>13 DEF WriteMigrationReport, End
  <1>14. CASE WriteDryValidation
    BY <1>14 DEF WriteDryValidation, End
  <1>15. CASE Validate
    BY <1>15 DEF Validate
  <1>16. CASE ValidateFails
    BY <1>16 DEF ValidateFails, End
  <1>17. CASE WriteChecksumDrilldownReports
    BY <1>17 DEF WriteChecksumDrilldownReports
  <1>18. CASE WriteValidationJson
    BY <1>18 DEF WriteValidationJson
  <1>19. CASE WriteValidationMd
    BY <1>19 DEF WriteValidationMd, End
  <1>20. CASE Stop
    BY <1>20 DEF Stop, End
  <1>21. CASE UNCHANGED vars
    BY <1>21 DEF vars
  <1>22. CASE ResetSequences
    BY <1>22 DEF ResetSequences
  <1>23. CASE ResetFailed
    BY <1>23 DEF ResetFailed, End
  <1> QED
    BY <1>1, <1>2, <1>3, <1>4, <1>5, <1>6, <1>7, <1>8, <1>9, <1>10, <1>11,
       <1>12, <1>13, <1>14, <1>15, <1>16, <1>17, <1>18, <1>19, <1>20, <1>21, <1>22, <1>23
       DEF Next

-----------------------------------------------------------------------------
(* The state files and the process tell what is complete.                  *)

LEMMA OwnedStep == CommandsInv /\ [Next]_vars => OwnedInv'
  <1> SUFFICES ASSUME TypeOK, OwnedInv, StreamedInv, [Next]_vars PROVE OwnedInv'
    BY DEF CommandsInv, CInv
  <1> USE DEF target, store, memory
  <1>1. CASE Start
    BY <1>1 DEF Start, OwnedInv
  <1>2. CASE PassGates
    BY <1>2 DEF PassGates, OwnedInv
  <1>3. CASE Refuse
    BY <1>3 DEF Refuse, OwnedInv
  <1>4. CASE Inspect
    BY <1>4 DEF Inspect, OwnedInv
  <1>5. CASE WritePreview
    BY <1>5 DEF WritePreview, OwnedInv
  <1>6. CASE CreateTables
    BY <1>6 DEF CreateTables, OwnedInv
  <1>7. CASE SkipTable
    BY <1>7 DEF SkipTable, OwnedInv
  <1>8. CASE CopyTable
    <2> DEFINE u == TableOrder[at]
    <2>1. rows' = [rows EXCEPT ![cfg.target][u] = @ \cup Source(u)] /\ UNCHANGED store
      BY <1>8 DEF CopyTable
    <2>2. \A d \in Targets, t \in Tables : rows[d][t] \subseteq rows'[d][t]
      BY <2>1 DEF TypeOK
    <2>3. \A f \in StateFiles, t \in Tables :
              owner[f][t] # None => owner[f][t] \in Sources \X Targets
      BY DEF TypeOK
    <2> QED
      BY <2>1, <2>2, <2>3 DEF OwnedInv
  <1>9. CASE CopyFails
    BY <1>9 DEF CopyFails, OwnedInv
  <1>10. CASE SaveState
    <2> DEFINE u == TableOrder[at]
               job == <<cfg.source, cfg.target>>
    <2>1. /\ u \in Tables /\ pc # "idle" /\ cfg.stateFile \in StateFiles
          /\ job \in Sources \X Targets /\ Source(u) \subseteq Target(u)
      BY <1>10, ConfigFacts, OrderFacts DEF SaveState, StreamedInv, TypeOK
    <2>2. job # None /\ Content[job[1]][u] \subseteq rows[job[2]][u]
      BY <2>1, NoneAssumption DEF Source, Target
    <2>3. CASE ~reports
      BY <1>10, <2>3 DEF SaveState, OwnedInv
    <2>4. CASE reports
      <3>1. /\ states' = [states EXCEPT ![cfg.stateFile] = completed \cup {u}]
            /\ owner' = [owner EXCEPT ![cfg.stateFile][u] = job] /\ rows' = rows
        BY <1>10, <2>4 DEF SaveState
      <3> SUFFICES ASSUME NEW f \in StateFiles, NEW t \in Tables
                   PROVE  /\ t \in states'[f] => owner'[f][t] # None
                          /\ owner'[f][t] # None =>
                                Content[owner'[f][t][1]][t] \subseteq rows[owner'[f][t][2]][t]
        BY <3>1 DEF OwnedInv
      <3>2. CASE f = cfg.stateFile /\ t = u
        <4>1. owner'[f][t] = job
          BY <2>1, <3>1, <3>2 DEF TypeOK
        <4> QED
          BY <2>2, <3>2, <4>1
      <3>3. CASE ~(f = cfg.stateFile /\ t = u)
        <4>1. owner'[f][t] = owner[f][t]
          BY <2>1, <3>1, <3>3 DEF TypeOK
        <4>2. t \in states'[f] => t \in states[f]
          BY <2>1, <2>4, <3>1, <3>3 DEF TypeOK, StreamedInv
        <4> QED
          BY <4>1, <4>2 DEF OwnedInv
      <3> QED
        BY <3>2, <3>3
    <2> QED
      BY <2>3, <2>4
  <1>11. CASE WriteSanitizedRowsReports
    BY <1>11 DEF WriteSanitizedRowsReports, OwnedInv
  <1>12. CASE WriteSequenceResetReports
    BY <1>12 DEF WriteSequenceResetReports, OwnedInv
  <1>13. CASE WriteMigrationReport
    BY <1>13 DEF WriteMigrationReport, OwnedInv
  <1>14. CASE WriteDryValidation
    BY <1>14 DEF WriteDryValidation, OwnedInv
  <1>15. CASE Validate
    BY <1>15 DEF Validate, OwnedInv
  <1>16. CASE ValidateFails
    BY <1>16 DEF ValidateFails, OwnedInv
  <1>17. CASE WriteChecksumDrilldownReports
    BY <1>17 DEF WriteChecksumDrilldownReports, OwnedInv
  <1>18. CASE WriteValidationJson
    BY <1>18 DEF WriteValidationJson, OwnedInv
  <1>19. CASE WriteValidationMd
    BY <1>19 DEF WriteValidationMd, OwnedInv
  <1>20. CASE Stop
    BY <1>20 DEF Stop, OwnedInv
  <1>21. CASE UNCHANGED vars
    BY <1>21 DEF vars, OwnedInv
  <1>22. CASE ResetSequences
    BY <1>22 DEF ResetSequences, OwnedInv
  <1>23. CASE ResetFailed
    BY <1>23 DEF ResetFailed, OwnedInv
  <1> QED
    BY <1>1, <1>2, <1>3, <1>4, <1>5, <1>6, <1>7, <1>8, <1>9, <1>10, <1>11,
       <1>12, <1>13, <1>14, <1>15, <1>16, <1>17, <1>18, <1>19, <1>20, <1>21, <1>22, <1>23
       DEF Next

\* The loader counts nothing before it has read the state file.
LEMMA IdleLoader ==
    ASSUME TypeOK, PhaseInv, pc \notin {"copy", "save", "reset", "sequences", "finish"}
    PROVE  completed = {} /\ at = 1
  BY DEF PhaseInv

\* A process that is gone counts nothing.
LEMMA EndStreams == ASSUME NEW how, End(how) PROVE StreamedInv'
  BY DEF End, StreamedInv

LEMMA StreamedStep == CommandsInv /\ [Next]_vars => StreamedInv'
  <1> SUFFICES ASSUME TypeOK, StreamedInv, PhaseInv, [Next]_vars PROVE StreamedInv'
    BY DEF CommandsInv, CInv
  <1> USE DEF target, store, memory
  <1>1. CASE Start
    BY <1>1, IdleLoader DEF Start, StreamedInv
  <1>2. CASE PassGates
    BY <1>2, IdleLoader DEF PassGates, StreamedInv
  <1>3. CASE Refuse
    BY <1>3, EndStreams DEF Refuse
  <1>4. CASE Inspect
    BY <1>4, IdleLoader DEF Inspect, StreamedInv
  <1>5. CASE WritePreview
    BY <1>5, EndStreams DEF WritePreview
  <1>6. CASE CreateTables
    BY <1>6, IdleLoader DEF CreateTables, StreamedInv, cfg, Source, Target
  <1>7. CASE SkipTable
    <2>1. /\ completed' = completed /\ planned' = planned /\ at' = at + 1
          /\ pc = "copy" /\ pc' = "copy"
      BY <1>7 DEF SkipTable, Streaming
    <2>2. TableOrder[at] \in planned => TableOrder[at] \in completed
      BY <1>7 DEF SkipTable
    <2>3. \A i \in 1 .. at' - 1 : TableOrder[i] \in planned => TableOrder[i] \in completed
      BY <2>1, <2>2 DEF StreamedInv, TypeOK
    <2> QED
      BY <1>7, <2>1, <2>3 DEF SkipTable, StreamedInv, cfg, Source, Target
  <1>8. CASE CopyTable
    <2> DEFINE u == TableOrder[at]
    <2>1. /\ u \in Tables /\ u \in planned /\ at <= Len(TableOrder) /\ cfg.target \in Targets
      BY <1>8, ConfigFacts DEF CopyTable, Streaming, TypeOK
    <2>2. /\ rows' = [rows EXCEPT ![cfg.target][u] = @ \cup Source(u)] /\ pc = "copy"
          /\ pc' = "save" /\ UNCHANGED <<store, reports, proc, planned, completed, at>>
      BY <1>8 DEF CopyTable, Streaming
    <2>3. \A t \in Tables : rows[cfg.target][t] \subseteq rows'[cfg.target][t]
      BY <2>1, <2>2 DEF TypeOK
    <2>4. Source(u) \subseteq rows'[cfg.target][u]
      BY <2>1, <2>2 DEF TypeOK
    <2>5. completed \subseteq Tables
      BY DEF TypeOK
    <2> QED
      BY <2>1, <2>2, <2>3, <2>4, <2>5 DEF StreamedInv, cfg, Source, Target
  <1>9. CASE CopyFails
    BY <1>9, EndStreams DEF CopyFails
  <1>10. CASE SaveState
    <2> DEFINE u == TableOrder[at]
    <2>1. /\ u \in Tables /\ cfg.stateFile \in StateFiles
          /\ at \in 1 .. Len(TableOrder) /\ Source(u) \subseteq Target(u)
      BY <1>10, ConfigFacts, OrderFacts DEF SaveState, StreamedInv, TypeOK
    <2>2. /\ completed' = completed \cup {u} /\ at' = at + 1 /\ pc = "save" /\ pc' = "copy"
          /\ UNCHANGED <<rows, reports, proc, planned>>
          /\ IF reports THEN states' = [states EXCEPT ![cfg.stateFile] = completed']
             ELSE states' = states
      BY <1>10 DEF SaveState
    <2>3. \A i \in 1 .. at' - 1 : TableOrder[i] \in planned => TableOrder[i] \in completed'
      BY <2>1, <2>2 DEF StreamedInv
    <2>4. ASSUME NEW t \in completed'
          PROVE  t \in states'[cfg.stateFile] \/ (~reports /\ Source(t) \subseteq Target(t))
      BY <2>1, <2>2 DEF StreamedInv, TypeOK
    <2> QED
      BY <2>2, <2>3, <2>4 DEF StreamedInv, cfg, Source, Target
  <1>11. CASE WriteSanitizedRowsReports
    <2>1. at = Len(TableOrder) + 1 \/ pc' = "json"
      BY <1>11, OrderFacts DEF WriteSanitizedRowsReports, TypeOK
    <2> QED
      BY <1>11, <2>1 DEF WriteSanitizedRowsReports, StreamedInv, cfg, Source, Target
  <1>12. CASE WriteSequenceResetReports
    BY <1>12 DEF WriteSequenceResetReports, StreamedInv, cfg, Source, Target
  <1>13. CASE WriteMigrationReport
    BY <1>13, EndStreams DEF WriteMigrationReport
  <1>14. CASE WriteDryValidation
    BY <1>14, EndStreams DEF WriteDryValidation
  <1>15. CASE Validate
    BY <1>15 DEF Validate, StreamedInv, cfg, Source, Target
  <1>16. CASE ValidateFails
    BY <1>16, EndStreams DEF ValidateFails
  <1>17. CASE WriteChecksumDrilldownReports
    BY <1>17 DEF WriteChecksumDrilldownReports, StreamedInv, cfg, Source, Target
  <1>18. CASE WriteValidationJson
    BY <1>18, IdleLoader DEF WriteValidationJson, StreamedInv
  <1>19. CASE WriteValidationMd
    BY <1>19, EndStreams DEF WriteValidationMd
  <1>20. CASE Stop
    BY <1>20, EndStreams DEF Stop
  <1>21. CASE UNCHANGED vars
    BY <1>21 DEF vars, StreamedInv, cfg, Source, Target
  <1>22. CASE ResetSequences
    <2>1. /\ UNCHANGED <<rows, states, owner, reports, proc, planned, completed, at>>
          /\ pc \in {"reset", "auditSequences"} /\ pc' \in {"sequences", "audited"}
          /\ pc' = "sequences" => pc = "reset"
      BY <1>22 DEF ResetSequences
    <2> QED
      BY <2>1 DEF StreamedInv, cfg, Source, Target
  <1>23. CASE ResetFailed
    BY <1>23, EndStreams DEF ResetFailed
  <1> QED
    BY <1>1, <1>2, <1>3, <1>4, <1>5, <1>6, <1>7, <1>8, <1>9, <1>10, <1>11,
       <1>12, <1>13, <1>14, <1>15, <1>16, <1>17, <1>18, <1>19, <1>20, <1>21, <1>22, <1>23
       DEF Next

-----------------------------------------------------------------------------
(* The audit and the reports it is written to.                             *)

\* The same rows of the same tables are audited alike.
LEMMA AuditStays ==
    ASSUME UNCHANGED <<rows, proc, planned>> PROVE Audit' = Audit
  BY DEF Audit, CountMatch, RealMismatch, Source, Target, cfg

LEMMA EndAudits == ASSUME NEW how, End(how) PROVE AuditInv'
  BY DEF End, AuditInv

LEMMA AuditStep == CommandsInv /\ [Next]_vars => AuditInv'
  <1> SUFFICES ASSUME TypeOK, AuditInv, PhaseInv, [Next]_vars PROVE AuditInv'
    BY DEF CommandsInv, CInv
  <1> USE DEF target, store, memory
  <1>1. CASE Start
    BY <1>1 DEF Start, AuditInv
  <1>2. CASE PassGates
    BY <1>2 DEF PassGates, AuditInv
  <1>3. CASE Refuse
    BY <1>3, EndAudits DEF Refuse
  <1>4. CASE Inspect
    BY <1>4 DEF Inspect, AuditInv
  <1>5. CASE WritePreview
    BY <1>5, EndAudits DEF WritePreview
  <1>6. CASE CreateTables
    BY <1>6 DEF CreateTables, AuditInv
  <1>7. CASE SkipTable
    BY <1>7 DEF SkipTable, AuditInv, Streaming
  <1>8. CASE CopyTable
    BY <1>8 DEF CopyTable, AuditInv, Streaming
  <1>9. CASE CopyFails
    BY <1>9, EndAudits DEF CopyFails
  <1>10. CASE SaveState
    BY <1>10 DEF SaveState, AuditInv
  <1>11. CASE WriteSanitizedRowsReports
    <2>1. File("sanitized") \in Files /\ Wrote(File("sanitized"), "items", recorder)
      BY <1>11, FileFacts DEF WriteSanitizedRowsReports
    <2>2. /\ \A e \in Evidence : disk'[e] = disk[e] \/ e = File("sanitized")
          /\ disk'[File("sanitized")].run = commands
      BY <2>1, FileFacts DEF Wrote, TypeOK
    <2>3. UNCHANGED <<rows, proc, planned, audit, commands>>
      BY <1>11 DEF WriteSanitizedRowsReports
    <2> QED
      BY <1>11, <2>2, <2>3, AuditStays, FileFacts, ConfigFacts
         DEF WriteSanitizedRowsReports, AuditInv, Evidence
  <1>12. CASE WriteSequenceResetReports
    <2>1. File("sequence") \in Files /\ Wrote(File("sequence"), "items", {})
      BY <1>12, FileFacts DEF WriteSequenceResetReports
    <2>2. /\ \A e \in Evidence : disk'[e] = disk[e] \/ e = File("sequence")
          /\ disk'[File("sequence")].run = commands
      BY <2>1, FileFacts DEF Wrote, TypeOK
    <2>3. UNCHANGED <<rows, proc, planned, audit, commands>>
      BY <1>12 DEF WriteSequenceResetReports
    <2> QED
      BY <1>12, <2>2, <2>3, AuditStays, FileFacts, ConfigFacts
         DEF WriteSequenceResetReports, AuditInv, Evidence
  <1>13. CASE WriteMigrationReport
    BY <1>13, EndAudits DEF WriteMigrationReport
  <1>14. CASE WriteDryValidation
    BY <1>14, EndAudits DEF WriteDryValidation
  <1>15. CASE Validate
    BY <1>15, AuditStays DEF Validate, AuditInv
  <1>16. CASE ValidateFails
    BY <1>16, EndAudits DEF ValidateFails
  <1>17. CASE WriteChecksumDrilldownReports
    <2>1. File("drilldown") \in Files /\ Wrote(File("drilldown"), "items", {})
      BY <1>17, FileFacts DEF WriteChecksumDrilldownReports
    <2>2. /\ \A e \in Evidence : disk'[e] = disk[e] \/ e = File("drilldown")
          /\ disk'[File("drilldown")].run = commands
      BY <2>1, FileFacts DEF Wrote, TypeOK
    <2>3. UNCHANGED <<rows, proc, planned, audit, commands>>
      BY <1>17 DEF WriteChecksumDrilldownReports
    <2> QED
      BY <1>17, <2>2, <2>3, AuditStays, FileFacts, ConfigFacts
         DEF WriteChecksumDrilldownReports, AuditInv, Evidence
  <1>18. CASE WriteValidationJson
    <2>1. Json(proc.config) \in Files /\ Wrote(Json(proc.config), audit.status, {})
      BY <1>18, FileFacts, ConfigFacts DEF WriteValidationJson
    <2>2. /\ \A e \in Evidence : disk'[e] = disk[e] \/ e = Json(proc.config)
          /\ disk'[Json(proc.config)].run = commands
      BY <2>1, FileFacts DEF Wrote, TypeOK
    <2>3. UNCHANGED <<rows, proc, planned, audit, commands>>
      BY <1>18 DEF WriteValidationJson
    <2> QED
      BY <1>18, <2>2, <2>3, AuditStays, FileFacts, ConfigFacts
         DEF WriteValidationJson, AuditInv, Evidence
  <1>19. CASE WriteValidationMd
    BY <1>19, EndAudits DEF WriteValidationMd
  <1>20. CASE Stop
    BY <1>20, EndAudits DEF Stop
  <1>21. CASE UNCHANGED vars
    BY <1>21, AuditStays DEF vars, AuditInv
  <1>22. CASE ResetSequences
    <2>1. /\ UNCHANGED <<rows, proc, planned>>
          /\ \/ pc = "reset" /\ pc' = "sequences"
             \/ pc = "auditSequences" /\ pc' = "audited"
          /\ \/ UNCHANGED audit
             \/ audit' = [audit EXCEPT !.status = ShortOfPassed(@)]
             \/ audit' = [status |-> "VALIDATION_FAILED", gate |-> "blocked"]
      BY <1>22 DEF ResetSequences
    <2>2. CASE pc = "auditSequences"
      <3>1. audit = Audit /\ Audit' = Audit /\ Audit.status \in Verdicts
        BY <2>1, <2>2, AuditStays DEF AuditInv, Audit, Verdicts
      <3>2. [audit EXCEPT !.status = ShortOfPassed(@)].status = ShortOfPassed(audit.status)
        BY DEF TypeOK, Audits
      <3>3. \/ audit'.status = audit.status
            \/ audit'.status = ShortOfPassed(audit.status)
            \/ audit'.status = "VALIDATION_FAILED"
        <4>1. [status |-> "VALIDATION_FAILED", gate |-> "blocked"].status = "VALIDATION_FAILED"
          OBVIOUS
        <4> QED
          BY <2>1, <3>2, <4>1, Zenon
      <3>4. /\ audit'.status \in Verdicts
            /\ audit'.status # "VALIDATION_FAILED" => Audit.status # "VALIDATION_FAILED"
        BY <3>1, <3>3 DEF ShortOfPassed, Verdicts
      <3> QED
        BY <2>1, <2>2, <3>1, <3>4 DEF AuditInv
    <2> QED
      BY <2>1, <2>2 DEF AuditInv
  <1>23. CASE ResetFailed
    BY <1>23, EndAudits DEF ResetFailed
  <1> QED
    BY <1>1, <1>2, <1>3, <1>4, <1>5, <1>6, <1>7, <1>8, <1>9, <1>10, <1>11,
       <1>12, <1>13, <1>14, <1>15, <1>16, <1>17, <1>18, <1>19, <1>20, <1>21, <1>22, <1>23
       DEF Next

-----------------------------------------------------------------------------
(* The steps of the properties.                                            *)

\* A database that may be written.
Safe(d) == d \in Local /\ NameWords[d] \cap {"local", "test", "qantara"} # {}

LEMMA OthersStep ==
    ASSUME TypeOK, PhaseInv, [Next]_vars, NEW d \in Targets, Protected(d)
    PROVE  LeftAlone(d)
  <1> USE DEF target, store, memory
  <1>1. ~Safe(d)
    BY DEF Protected, Safe
  <1>2. CASE UNCHANGED target
    BY <1>2 DEF LeftAlone
  <1>3. CASE CreateTables
    <2>1. /\ created' = [created EXCEPT ![cfg.target] = @ \cup planned]
          /\ UNCHANGED <<rows, past>> /\ Safe(cfg.target)
      BY <1>3 DEF CreateTables, PhaseInv, validateLocalExecutionGate, Safe, cfg
    <2> QED
      BY <1>1, <2>1 DEF LeftAlone, TypeOK
  <1>4. CASE CopyTable
    <2> DEFINE u == TableOrder[at]
    <2>1. /\ rows' = [rows EXCEPT ![cfg.target][u] = @ \cup Source(u)]
          /\ UNCHANGED <<created, past>> /\ Safe(cfg.target)
      BY <1>4 DEF CopyTable, Streaming, PhaseInv, validateLocalExecutionGate, Safe, cfg
    <2> QED
      BY <1>1, <2>1 DEF LeftAlone, TypeOK
  <1>5. CASE ResetSequences
    <2>1. PICK set \in SUBSET planned :
             past' = [past EXCEPT ![cfg.target] =
                 [t \in Tables |-> IF t \in set THEN Keys(Target(t)) ELSE past[cfg.target][t]]]
      BY <1>5 DEF ResetSequences
    <2>2. UNCHANGED <<created, rows>> /\ pc \in {"reset", "auditSequences"}
      BY <1>5 DEF ResetSequences
    <2>3. CASE d # cfg.target
      BY <2>1, <2>2, <2>3 DEF LeftAlone, TypeOK
    <2>4. CASE d = cfg.target
      <3>1. proc.command = "validate"
        <4>1. pc # "reset"
          BY <1>1, <2>4 DEF PhaseInv, validateLocalExecutionGate, Safe, cfg
        <4> QED
          BY <2>2, <4>1 DEF PhaseInv
      <3>2. past'[d] = [t \in Tables |-> IF t \in set THEN Keys(rows[d][t]) ELSE past[d][t]]
        BY <2>1, <2>4 DEF TypeOK, Target
      <3>3. \A t \in Tables : past'[d][t] \in {past[d][t], Keys(rows[d][t])}
        BY <3>2
      <3> QED
        BY <2>2, <3>1, <3>3 DEF LeftAlone
    <2> QED
      BY <2>3, <2>4
  <1>6. UNCHANGED target \/ CreateTables \/ CopyTable \/ ResetSequences
    BY DEF Next, vars, Start, PassGates, Refuse, Inspect, WritePreview, SkipTable, CopyFails,
           SaveState, WriteSanitizedRowsReports, WriteSequenceResetReports,
           WriteMigrationReport, ResetFailed, WriteDryValidation, Validate, ValidateFails,
           WriteChecksumDrilldownReports, WriteValidationJson, WriteValidationMd, Stop
  <1> QED
    BY <1>2, <1>3, <1>4, <1>5, <1>6

\* What the second gate would refuse, the first has: a name that passes the first
\* has a keyword that the second looks for in the whole DSN.
LEMMA OverridesStep ==
    ASSUME TypeOK, OverridesAreIdle, [Next]_vars PROVE OverridesAreIdle'
  <1>1. ASSUME Refuse, validateLocalExecutionGate(proc) PROVE ProductionGate(proc)
    <2>1. Job[proc.config].target \in Targets
      BY <1>1, ConfigFacts DEF Refuse, cfg
    <2> QED
      BY <1>1, <2>1, WordsAssumption
         DEF validateLocalExecutionGate, ProductionGate, isTestDatabase
  <1>2. CASE Refuse
    BY <1>1, <1>2 DEF Refuse, End, OverridesAreIdle
  <1>3. ASSUME NEW how \in {"ok", "error"}, End(how) PROVE OverridesAreIdle'
    BY <1>3 DEF End, OverridesAreIdle
  <1>4. CASE \E how \in {"ok", "error"} : End(how)
    BY <1>3, <1>4
  <1>5. CASE done' = None \/ UNCHANGED done
    BY <1>5 DEF OverridesAreIdle
  <1>6. [Next]_vars => \/ Refuse \/ \E how \in {"ok", "error"} : End(how)
                      \/ done' = None \/ UNCHANGED done
    BY DEF Next, vars, Start, PassGates, Inspect, WritePreview, CreateTables, SkipTable,
           CopyTable, CopyFails, SaveState, WriteSanitizedRowsReports,
           ResetSequences, WriteSequenceResetReports, WriteMigrationReport, ResetFailed,
           WriteDryValidation, Validate, ValidateFails, WriteChecksumDrilldownReports, WriteValidationJson,
           WriteValidationMd, Stop
  <1> QED
    BY <1>2, <1>4, <1>5, <1>6

\* A file that is written over backs no verdict less than before.
LEMMA WroteBacks ==
    ASSUME TypeOK, VerdictIsBacked, NEW file \in Files, NEW what, NEW listed,
           Wrote(file, what, listed),
           \A o \in Outs : file = <<o, "md">> /\ what \in Verdicts =>
               \A f \in Evidence \cup {<<o, "json">>} :
                   disk[f].run = commands /\ f # <<o, "md">>
    PROVE  VerdictIsBacked'
  <1> SUFFICES ASSUME NEW o \in Outs, disk'[<<o, "md">>].what \in Verdicts,
                      NEW f \in Evidence \cup {<<o, "json">>}
               PROVE  disk'[f].run >= disk'[<<o, "md">>].run
    BY DEF VerdictIsBacked
  <1>1. f \in Files /\ <<o, "md">> \in Files
    BY FileFacts
  <1>2. \A g \in Files : /\ disk[g].run \in 0 .. commands
                         /\ disk'[g] = IF g = file THEN [run |-> commands, what |-> what,
                                                         listed |-> listed]
                                       ELSE disk[g]
    BY DEF Wrote, TypeOK, Written
  <1>3. CASE file = <<o, "md">>
    BY <1>1, <1>2, <1>3
  <1>4. CASE file # <<o, "md">>
    <2>1. disk[f].run >= disk[<<o, "md">>].run
      BY <1>1, <1>2, <1>4 DEF VerdictIsBacked
    <2> QED
      BY <1>1, <1>2, <1>4, <2>1, BoundsAssumption DEF TypeOK
  <1> QED
    BY <1>3, <1>4

LEMMA BackedStep ==
    ASSUME TypeOK, AuditInv, VerdictIsBacked, [Next]_vars PROVE VerdictIsBacked'
  <1> USE DEF target, store, memory
  <1>1. CASE Start
    BY <1>1 DEF Start, VerdictIsBacked
  <1>2. CASE PassGates
    BY <1>2 DEF PassGates, VerdictIsBacked
  <1>3. CASE Refuse
    BY <1>3 DEF Refuse, VerdictIsBacked
  <1>4. CASE Inspect
    BY <1>4 DEF Inspect, VerdictIsBacked
  <1>5. CASE WritePreview
    <2>1. File("preview") \in Files /\ Wrote(File("preview"), "dry_run_only", {})
      BY <1>5, FileFacts DEF WritePreview
    <2>2. \A o \in Outs : File("preview") = <<o, "md">> => "dry_run_only" \notin Verdicts
      BY DEF File, Verdicts
    <2> QED
      BY <2>1, <2>2, WroteBacks
  <1>6. CASE CreateTables
    BY <1>6 DEF CreateTables, VerdictIsBacked
  <1>7. CASE SkipTable
    BY <1>7 DEF SkipTable, VerdictIsBacked
  <1>8. CASE CopyTable
    BY <1>8 DEF CopyTable, VerdictIsBacked
  <1>9. CASE CopyFails
    BY <1>9 DEF CopyFails, VerdictIsBacked
  <1>10. CASE SaveState
    BY <1>10 DEF SaveState, VerdictIsBacked
  <1>11. CASE WriteSanitizedRowsReports
    <2>1. File("sanitized") \in Files /\ Wrote(File("sanitized"), "items", recorder)
      BY <1>11, FileFacts DEF WriteSanitizedRowsReports
    <2>2. \A o \in Outs : File("sanitized") = <<o, "md">> => "items" \notin Verdicts
      BY DEF File, Verdicts
    <2> QED
      BY <2>1, <2>2, WroteBacks
  <1>12. CASE WriteSequenceResetReports
    <2>1. File("sequence") \in Files /\ Wrote(File("sequence"), "items", {})
      BY <1>12, FileFacts DEF WriteSequenceResetReports
    <2>2. \A o \in Outs : File("sequence") = <<o, "md">> => "items" \notin Verdicts
      BY DEF File, Verdicts
    <2> QED
      BY <2>1, <2>2, WroteBacks
  <1>13. CASE WriteMigrationReport
    <2>1. File("migration") \in Files /\ Wrote(File("migration"), "executed_local_only", {})
      BY <1>13, FileFacts DEF WriteMigrationReport
    <2>2. \A o \in Outs : File("migration") = <<o, "md">> => "executed_local_only" \notin Verdicts
      BY DEF File, Verdicts
    <2> QED
      BY <2>1, <2>2, WroteBacks
  <1>14. CASE WriteDryValidation
    <2>1. Md(proc.config) \in Files /\ Wrote(Md(proc.config), "dry_run", {})
      BY <1>14, FileFacts, ConfigFacts DEF WriteDryValidation
    <2>2. \A o \in Outs : Md(proc.config) = <<o, "md">> => "dry_run" \notin Verdicts
      BY DEF Md, Verdicts
    <2> QED
      BY <2>1, <2>2, WroteBacks
  <1>15. CASE Validate
    BY <1>15 DEF Validate, VerdictIsBacked
  <1>16. CASE ValidateFails
    BY <1>16 DEF ValidateFails, VerdictIsBacked
  <1>17. CASE WriteChecksumDrilldownReports
    <2>1. File("drilldown") \in Files /\ Wrote(File("drilldown"), "items", {})
      BY <1>17, FileFacts DEF WriteChecksumDrilldownReports
    <2>2. \A o \in Outs : File("drilldown") = <<o, "md">> => "items" \notin Verdicts
      BY DEF File, Verdicts
    <2> QED
      BY <2>1, <2>2, WroteBacks
  <1>18. CASE WriteValidationJson
    <2>1. Json(proc.config) \in Files /\ Wrote(Json(proc.config), audit.status, {})
      BY <1>18, FileFacts, ConfigFacts DEF WriteValidationJson
    <2>2. \A o \in Outs : Json(proc.config) = <<o, "md">> => audit.status \notin Verdicts
      BY DEF Json, Verdicts
    <2> QED
      BY <2>1, <2>2, WroteBacks
  <1>19. CASE WriteValidationMd
    <2>1. /\ Md(proc.config) \in Files /\ Wrote(Md(proc.config), audit.status, {})
          /\ proc.config \in Configs
      BY <1>19, FileFacts, ConfigFacts DEF WriteValidationMd
    <2>2. ASSUME NEW o \in Outs, Md(proc.config) = <<o, "md">>
          PROVE  \A f \in Evidence \cup {<<o, "json">>} : disk[f].run = commands /\ f # <<o, "md">>
      <3>1. o = Job[proc.config].out
        BY <2>2 DEF Md
      <3> QED
        BY <1>19, <2>1, <3>1, FileFacts DEF WriteValidationMd, AuditInv, Evidence, Json, Md
    <2> QED
      BY <2>1, <2>2, WroteBacks
  <1>20. CASE Stop
    <2>1. CASE UNCHANGED disk
      BY <2>1 DEF VerdictIsBacked
    <2>2. CASE Writing # None /\ Wrote(Writing, "torn", {})
      <3>1. Writing \in Files /\ "torn" \notin Verdicts
        BY <1>20, <2>2, ConfigFacts, FileFacts DEF Stop, Writing, Verdicts
      <3> QED
        BY <2>2, <3>1, WroteBacks
    <2> QED
      BY <1>20, <2>1, <2>2 DEF Stop
  <1>21. CASE UNCHANGED vars
    BY <1>21 DEF vars, VerdictIsBacked
  <1>22. CASE ResetSequences
    BY <1>22 DEF ResetSequences, VerdictIsBacked
  <1>23. CASE ResetFailed
    BY <1>23 DEF ResetFailed, VerdictIsBacked
  <1> QED
    BY <1>1, <1>2, <1>3, <1>4, <1>5, <1>6, <1>7, <1>8, <1>9, <1>10, <1>11,
       <1>12, <1>13, <1>14, <1>15, <1>16, <1>17, <1>18, <1>19, <1>20, <1>21, <1>22, <1>23
       DEF Next

\* A command that is done has succeeded by its last report only.
LEMMA SuccessIsReported ==
    ASSUME PhaseInv, [Next]_vars, NEW command \in {"migrate", "resume", "validate"},
           Succeeded(command)'
    PROVE  \/ UNCHANGED vars
           \/ command # "validate" /\ WriteMigrationReport
           \/ command = "validate" /\ WriteValidationMd /\ audit.status # "VALIDATION_FAILED"
  <1> USE DEF target, store, memory
  <1>1. CASE Start
    BY <1>1 DEF Start, PhaseInv, Succeeded
  <1>2. CASE PassGates
    BY <1>2 DEF PassGates, PhaseInv, Succeeded
  <1>3. CASE Refuse
    BY <1>3 DEF Refuse, PhaseInv, End, Succeeded
  <1>4. CASE Inspect
    BY <1>4 DEF Inspect, PhaseInv, Succeeded
  <1>5. CASE WritePreview
    BY <1>5 DEF WritePreview, PhaseInv, End, Succeeded
  <1>6. CASE CreateTables
    BY <1>6 DEF CreateTables, PhaseInv, Succeeded
  <1>7. CASE SkipTable
    BY <1>7 DEF SkipTable, PhaseInv, Succeeded, Streaming
  <1>8. CASE CopyTable
    BY <1>8 DEF CopyTable, PhaseInv, Succeeded, Streaming
  <1>9. CASE CopyFails
    BY <1>9 DEF CopyFails, PhaseInv, End, Succeeded
  <1>10. CASE SaveState
    BY <1>10 DEF SaveState, PhaseInv, Succeeded
  <1>11. CASE WriteSanitizedRowsReports
    BY <1>11 DEF WriteSanitizedRowsReports, PhaseInv, Succeeded
  <1>12. CASE WriteSequenceResetReports
    BY <1>12 DEF WriteSequenceResetReports, PhaseInv, Succeeded
  <1>13. CASE WriteMigrationReport
    BY <1>13 DEF WriteMigrationReport, PhaseInv, End, Succeeded
  <1>14. CASE WriteDryValidation
    BY <1>14 DEF WriteDryValidation, PhaseInv, End, Succeeded
  <1>15. CASE Validate
    BY <1>15 DEF Validate, PhaseInv, Succeeded
  <1>16. CASE ValidateFails
    BY <1>16 DEF ValidateFails, PhaseInv, End, Succeeded
  <1>17. CASE WriteChecksumDrilldownReports
    BY <1>17 DEF WriteChecksumDrilldownReports, PhaseInv, Succeeded
  <1>18. CASE WriteValidationJson
    BY <1>18 DEF WriteValidationJson, PhaseInv, Succeeded
  <1>19. CASE WriteValidationMd
    BY <1>19 DEF WriteValidationMd, PhaseInv, End, Succeeded
  <1>20. CASE Stop
    BY <1>20 DEF Stop, PhaseInv, End, Succeeded
  <1>21. CASE UNCHANGED vars
    BY <1>21 DEF vars
  <1>22. CASE ResetSequences
    BY <1>22 DEF ResetSequences, PhaseInv, Succeeded
  <1>23. CASE ResetFailed
    BY <1>23 DEF ResetFailed, PhaseInv, End, Succeeded
  <1> QED
    BY <1>1, <1>2, <1>3, <1>4, <1>5, <1>6, <1>7, <1>8, <1>9, <1>10, <1>11,
       <1>12, <1>13, <1>14, <1>15, <1>16, <1>17, <1>18, <1>19, <1>20, <1>21, <1>22, <1>23
       DEF Next

LEMMA CompleteStep == CommandsInv /\ CompleteUnlessForeign /\ [Next]_vars => CompleteUnlessForeign'
  <1> SUFFICES ASSUME CommandsInv, CompleteUnlessForeign, [Next]_vars,
                      NEW command \in {"migrate", "resume"}, Succeeded(command)',
                      NEW t \in done'.planned
               PROVE  LET job == Job[done'.config] IN
                      \/ Content[job.source][t] \subseteq rows'[job.target][t]
                      \/ owner'[job.stateFile][t] \notin {None, <<job.source, job.target>>}
    BY DEF CompleteUnlessForeign
  <1>1. CASE UNCHANGED vars
    BY <1>1 DEF vars, CompleteUnlessForeign, Succeeded
  <1>2. CASE WriteMigrationReport
    <2>1. /\ done'.config = proc.config /\ done'.planned = planned /\ pc = "finish"
          /\ UNCHANGED <<rows, owner>>
      BY <1>2 DEF WriteMigrationReport, End, target, store
    <2>2. PICK i \in 1 .. Len(TableOrder) : TableOrder[i] = t
      BY <2>1, OrderFacts DEF CommandsInv, TypeOK
    <2>3. t \in completed
      BY <2>1, <2>2, OrderFacts DEF CommandsInv, CInv, StreamedInv
    <2>4. t \in Tables /\ cfg.stateFile \in StateFiles
      BY <2>1, ConfigFacts DEF CommandsInv, TypeOK
    <2>5. CASE Source(t) \subseteq Target(t)
      BY <2>1, <2>5 DEF Source, Target, cfg
    <2>6. CASE t \in states[cfg.stateFile]
      <3>1. /\ owner[cfg.stateFile][t] # None
            /\ Content[owner[cfg.stateFile][t][1]][t] \subseteq rows[owner[cfg.stateFile][t][2]][t]
        BY <2>4, <2>6 DEF CommandsInv, CInv, OwnedInv
      <3> QED
        BY <2>1, <3>1 DEF cfg
    <2> QED
      BY <2>3, <2>5, <2>6 DEF CommandsInv, CInv, StreamedInv
  <1> QED
    BY <1>1, <1>2, SuccessIsReported DEF CommandsInv, CInv

LEMMA CertifiedStep == CommandsInv /\ CertifiedIsComplete /\ [Next]_vars => CertifiedIsComplete'
  <1> SUFFICES ASSUME CommandsInv, CertifiedIsComplete, [Next]_vars, Succeeded("validate")',
                      NEW t \in done'.planned,
                      rows'[Job[done'.config].target][t] \subseteq Content[Job[done'.config].source][t]
               PROVE  rows'[Job[done'.config].target][t] = Content[Job[done'.config].source][t]
    BY DEF CertifiedIsComplete
  <1>1. CASE UNCHANGED vars
    BY <1>1 DEF vars, CertifiedIsComplete, Succeeded
  <1>2. CASE WriteValidationMd /\ audit.status # "VALIDATION_FAILED"
    <2>1. /\ done'.config = proc.config /\ done'.planned = planned /\ pc = "md"
          /\ UNCHANGED rows
      BY <1>2 DEF WriteValidationMd, End, target
    <2>2. t \in Tables /\ cfg.source \in Sources
      BY <2>1, ConfigFacts DEF CommandsInv, TypeOK
    <2>3. Audit.status # "VALIDATION_FAILED"
      BY <1>2, <2>1 DEF CommandsInv, CInv, AuditInv
    <2>4. CountMatch(t)
      BY <2>1, <2>3 DEF Audit
    <2>5. IsFiniteSet(Source(t)) /\ Target(t) \subseteq Source(t)
      BY <2>1, <2>2, ContentAssumption DEF Source, Target, cfg
    <2>6. Target(t) = Source(t)
      BY <2>4, <2>5, FS_Subset DEF CountMatch
    <2> QED
      BY <2>1, <2>6 DEF Source, Target, cfg
  <1> QED
    BY <1>1, <1>2, SuccessIsReported DEF CommandsInv, CInv

-----------------------------------------------------------------------------
(* The invariant, and the properties that follow from it.                  *)

LEMMA CommandsInit == Init => CommandsInv
  <1> SUFFICES ASSUME Init PROVE CommandsInv
    OBVIOUS
  <1>1. TypeOK
    BY BoundsAssumption, OrderFacts, ExistingAssumption
       DEF Init, TypeOK, Written, Steps, NoAudit, Audits, Keys
  <1>2. OwnedInv /\ StreamedInv /\ PhaseInv /\ AuditInv
    BY DEF Init, OwnedInv, StreamedInv, PhaseInv, AuditInv
  <1> QED
    BY <1>1, <1>2 DEF CommandsInv, CInv

LEMMA CommandsAlways == Spec => []CommandsInv
  <1>1. CommandsInv /\ [Next]_vars => CommandsInv'
    BY TypeStep, PhaseStep, OwnedStep, StreamedStep, AuditStep DEF CommandsInv, CInv
  <1> QED
    BY <1>1, CommandsInit, PTL DEF Spec

\* Every variable keeps its type, whatever is run and whatever fails.
THEOREM CommandsTypeCorrect == Spec => []TypeOK
  BY CommandsAlways, PTL DEF CommandsInv

\* The state files and the process are right about what is complete.
THEOREM CommandsInvariant == Spec => []CInv
  BY CommandsAlways, PTL DEF CommandsInv

\* A database that is not local, or whose name does not say that it may be written,
\* keeps its tables and rows, and only `validate` sets its sequences: whatever commands
\* are run with whatever flags and configurations.
THEOREM OthersKeepWhatTheyHave == Spec => OthersAreLeftAlone
  <1>1. CommandsInv /\ [Next]_vars => [\A d \in Targets : Protected(d) => LeftAlone(d)]_vars
    <2> SUFFICES ASSUME TypeOK, PhaseInv, [Next]_vars, NEW d \in Targets, Protected(d)
                 PROVE  LeftAlone(d)
      BY DEF CommandsInv, CInv
    <2> QED
      BY OthersStep
  <1> QED
    BY <1>1, CommandsAlways, PTL DEF Spec, OthersAreLeftAlone

\* The override flag and its setting decide nothing.
THEOREM OverridesNeverDecide == Spec => []OverridesAreIdle
  <1>1. Init => OverridesAreIdle
    BY DEF Init, OverridesAreIdle
  <1>2. CommandsInv /\ OverridesAreIdle /\ [Next]_vars => OverridesAreIdle'
    <2> SUFFICES ASSUME TypeOK, OverridesAreIdle, [Next]_vars PROVE OverridesAreIdle'
      BY DEF CommandsInv
    <2> QED
      BY OverridesStep
  <1> QED
    BY <1>1, <1>2, CommandsAlways, PTL DEF Spec

\* A migration that ended well is complete, except for the tables that the state
\* file calls completed on behalf of another source or target.
THEOREM MigrationsAreComplete == Spec => []CompleteUnlessForeign
  <1>1. Init => CompleteUnlessForeign
    BY DEF Init, CompleteUnlessForeign, Succeeded
  <1>2. CommandsInv /\ CompleteUnlessForeign /\ [Next]_vars => CompleteUnlessForeign'
    BY CompleteStep
  <1> QED
    BY <1>1, <1>2, CommandsAlways, PTL DEF Spec

\* A validation that ended well is right about every table it planned that holds
\* rows of its source only.
THEOREM ValidationsCertify == Spec => []CertifiedIsComplete
  <1>1. Init => CertifiedIsComplete
    BY DEF Init, CertifiedIsComplete, Succeeded
  <1>2. CommandsInv /\ CertifiedIsComplete /\ [Next]_vars => CertifiedIsComplete'
    BY CertifiedStep
  <1> QED
    BY <1>1, <1>2, CommandsAlways, PTL DEF Spec

\* No verdict on the disk is newer than the reports it rests on.
THEOREM VerdictsAreBacked == Spec => []VerdictIsBacked
  <1>1. Init => VerdictIsBacked
    <2> SUFFICES ASSUME Init, NEW o \in Outs PROVE disk[<<o, "md">>].what \notin Verdicts
      BY DEF VerdictIsBacked
    <2> QED
      BY FileFacts DEF Init, Verdicts
  <1>2. CommandsInv /\ VerdictIsBacked /\ [Next]_vars => VerdictIsBacked'
    <2> SUFFICES ASSUME TypeOK, AuditInv, VerdictIsBacked, [Next]_vars PROVE VerdictIsBacked'
      BY DEF CommandsInv, CInv
    <2> QED
      BY BackedStep
  <1> QED
    BY <1>1, <1>2, CommandsAlways, PTL DEF Spec
=============================================================================
