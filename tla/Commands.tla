------------------------------ MODULE Commands ------------------------------
(***************************************************************************)
(* The commands of cmd/qantaradb/main.go as an operator runs them, one     *)
(* after the other: `migrate`, `resume` and `validate`, on several         *)
(* configuration files, with what they leave on the disk and in the        *)
(* targets for the next one.                                               *)
(*                                                                         *)
(* The streaming of a table is one COPY and one save of the state file     *)
(* (Loader has the chunks), the audits of a validation are one step        *)
(* (Validator has the queries), indexes and foreign keys change nothing    *)
(* here (Migrate has them; if they fail, it is a Stop).  Every table has a *)
(* primary key with a sequence.  A report in JSON and in Markdown is one   *)
(* file, except that of the validation.                                    *)
(***************************************************************************)
EXTENDS Naturals, Sequences, FiniteSets, SequencesExt

CONSTANTS
    None,
    Configs,       \* configuration files; Job[c] is what c says
    Job,           \* source, target, stateFile, excludes and allow, which is
                   \* allow_destructive_production_operations; and out, the report
                   \* `validate` is told to write when it is run with c, in the
                   \* directory of the state files
    TableOrder,    \* the tables of every source, in the planner's order
    Content,       \* Content[s][t]: the rows of table t in source s, key and text
    Existing,      \* Existing[d]: the tables that target d has already, and their rows
    Dirty,         \* the rows with text that is sanitized on its way
    SampleSize,    \* rows per table that the checksums compare: 100 in the code
    Local,         \* the databases whose DSN isLocalDSN takes for one of this host
    NameWords,     \* NameWords[d]: the words the name of target d contains
    DsnWords,      \* those its whole DSN contains
    Faults, MaxFaults, MaxCommands

Tables == ToSet(TableOrder)
Sources == {Job[c].source : c \in Configs}
Targets == {Job[c].target : c \in Configs}
StateFiles == {Job[c].stateFile : c \in Configs}
Outs == {Job[c].out : c \in Configs}
AllRows ==
    UNION ({Content[s][t] : s \in Sources, t \in Tables}
           \cup {Existing[d].rows[t] : d \in Targets, t \in Tables})
Keys(R) == {r.key : r \in R}
Processes ==
    [command : {"migrate", "resume", "validate"}, config : Configs, execute : BOOLEAN,
     localOnly : BOOLEAN, force : BOOLEAN]

ASSUME NoneAssumption == None \notin Processes /\ None \notin Sources \X Targets
ASSUME OrderAssumption == TableOrder \in Seq(Tables)
ASSUME ContentAssumption ==
    \A s \in Sources, t \in Tables :
        /\ IsFiniteSet(Content[s][t])
        /\ \A r \in Content[s][t] : r.key \in Nat
        /\ \A r, u \in Content[s][t] : r.key = u.key => r = u
ASSUME ExistingAssumption ==
    Existing \in [Targets -> [created : SUBSET Tables, rows : [Tables -> SUBSET AllRows]]]
ASSUME WordsAssumption ==
    \A d \in Targets :
        /\ NameWords[d] \subseteq DsnWords[d]
        /\ "qantara" \in DsnWords[d] => "qa" \in DsnWords[d]
ASSUME BoundsAssumption == MaxFaults \in Nat /\ MaxCommands \in Nat /\ SampleSize \in Nat

VARIABLES
    (* the targets *)
    created,     \* created[d]: tables that exist
    rows,        \* rows[d][t]: the rows that are in it
    past,        \* past[d][t]: the keys that a command last set the sequence of t past
    (* the disk *)
    states,      \* states[f]: tables the state file calls completed
    owner,       \* owner[f][t]: source and target of the job that said so
    reports,     \* whether the directory of the state files exists
    disk,        \* disk[f]: the last command that wrote file f, what kind of content it
                 \* wrote, and the sanitized rows listed there
    (* the process *)
    pc, proc,    \* the command line; execute stands for no dry run, of `validate` too
    planned,     \* the tables of the plan
    completed,   \* the loader's JobState
    at,          \* position in TableOrder
    recorder,    \* the loader's SanitizedRecorder
    audit,       \* status and gate of the validation at hand; of a migration, its
                 \* VALIDATION_FAILED after a reset of the sequences that failed
    (* history *)
    done,        \* how the last command ended; None if it was killed, or none has
    commands, faults

target == <<created, rows, past>>
store == <<states, owner>>
memory == <<planned, completed, at, recorder, audit>>
vars == <<created, rows, past, states, owner, reports, disk, pc, proc, planned, completed, at,
          recorder, audit, done, commands, faults>>

\* A file is a place and a name.
File(name) == <<"storage", name>>
Evidence == {File(name) : name \in {"sequence", "drilldown", "sanitized"}}
Files == Evidence \cup {File("preview"), File("migration")} \cup (Outs \X {"json", "md"})
Json(c) == <<Job[c].out, "json">>
Md(c) == <<Job[c].out, "md">>
Verdicts == {"VALIDATION_FAILED", "VALIDATION_PARTIAL", "VALIDATION_PASSED"}
Written(n) ==
    [run : 0 .. n,
     what : Verdicts \cup {"nothing", "torn", "items", "dry_run_only", "dry_run",
                          "executed_local_only"},
     listed : SUBSET (Tables \X AllRows)]
Steps ==
    {"idle", "gate", "inspect", "preview", "create", "copy", "save", "reset", "sequences",
     "finish", "dryValidate", "audit", "auditSequences", "audited", "drilldown", "sanitized",
     "json", "md"}

cfg == Job[proc.config]
Source(t) == Content[cfg.source][t]
Target(t) == rows[cfg.target][t]

-----------------------------------------------------------------------------
(* The safety gates.                                                       *)

isTestDatabase(d) ==
    DsnWords[d] \cap {"test", "dev", "sandbox", "demo", "local", "stage", "development",
                      "qa"} # {}

\* Mutant of validateLocalExecutionGate: the target's host is not looked at.
LocalSourceOnly(p) ==
    /\ p.localOnly
    /\ Job[p.config].source \in Local
    /\ NameWords[Job[p.config].target] \cap {"local", "test", "qantara"} # {}

\* validateLocalExecutionGate returns no error.  Its last check, of names that look
\* like production, is after one that no such name passes.
validateLocalExecutionGate(p) ==
    /\ p.localOnly
    /\ Job[p.config].source \in Local /\ Job[p.config].target \in Local
    /\ NameWords[Job[p.config].target] \cap {"local", "test", "qantara"} # {}

ProductionGate(p) ==
    isTestDatabase(Job[p.config].target) \/ Job[p.config].allow \/ p.force

-----------------------------------------------------------------------------
(* What `validate` finds.                                                  *)

FirstRows(R) ==
    {r \in R : Cardinality({u \in R : u.key < r.key}) < SampleSize}
SameBounds(R, S) ==
    IF R = {} \/ S = {} THEN R = S
    ELSE /\ \E k \in Keys(R) \cap Keys(S) : \A j \in Keys(R) \cup Keys(S) : k <= j
         /\ \E k \in Keys(R) \cap Keys(S) : \A j \in Keys(R) \cup Keys(S) : j <= k

CountMatch(t) == Cardinality(Source(t)) = Cardinality(Target(t))
RealMismatch(t) == Source(t) # {} /\ FirstRows(Source(t)) # FirstRows(Target(t))

\* Mutant of Audit: tables that are empty in the target are still to come.
AuditWithoutEmpty ==
    LET filled == {t \in planned : Target(t) # {}} IN
    [status |->
        IF \E t \in filled :
            ~CountMatch(t) \/ ~SameBounds(Source(t), Target(t)) \/ RealMismatch(t)
        THEN "VALIDATION_FAILED" ELSE "VALIDATION_PASSED",
     gate |->
        IF \E t \in filled : ~CountMatch(t) \/ RealMismatch(t) THEN "blocked" ELSE "ready"]

\* The status and the gate of Validator, for tables as they are.
Audit ==
    [status |->
        IF \E t \in planned :
            ~CountMatch(t) \/ ~SameBounds(Source(t), Target(t)) \/ RealMismatch(t)
        THEN "VALIDATION_FAILED"
        ELSE IF \E t \in planned : FirstRows(Source(t)) \cap Dirty # {}
        THEN "VALIDATION_PARTIAL" ELSE "VALIDATION_PASSED",
     gate |->
        IF \E t \in planned : ~CountMatch(t) \/ RealMismatch(t) THEN "blocked" ELSE "ready"]

\* An item that is unsupported makes a validation partial.
ShortOfPassed(status) ==
    IF status = "VALIDATION_PASSED" THEN "VALIDATION_PARTIAL" ELSE status

Audits == [status : Verdicts \cup {"none"}, gate : {"none", "ready", "blocked"}]
NoAudit == [status |-> "none", gate |-> "none"]

-----------------------------------------------------------------------------
(* Helpers.                                                                *)

Wrote(file, what, listed) ==
    disk' = [disk EXCEPT ![file] = [run |-> commands, what |-> what, listed |-> listed]]

\* The process is gone, and remembered by how it ended.
End(how) ==
    /\ pc' = "idle"
    /\ done' = [config |-> proc.config, command |-> proc.command, execute |-> proc.execute,
                planned |-> planned, how |-> how]
    /\ proc' = None /\ planned' = {} /\ completed' = {} /\ at' = 1 /\ recorder' = {}
    /\ audit' = NoAudit

-----------------------------------------------------------------------------
Init ==
    /\ created = [d \in Targets |-> Existing[d].created]
    /\ rows = [d \in Targets |-> Existing[d].rows]
    /\ past = [d \in Targets |-> [t \in Tables |-> {}]]
    /\ states = [f \in StateFiles |-> {}]
    /\ owner = [f \in StateFiles |-> [t \in Tables |-> None]]
    /\ reports \in BOOLEAN
    /\ disk = [f \in Files |-> [run |-> 0, what |-> "nothing", listed |-> {}]]
    /\ pc = "idle" /\ proc = None
    /\ planned = {} /\ completed = {} /\ at = 1 /\ recorder = {} /\ audit = NoAudit
    /\ done = None /\ commands = 0 /\ faults = 0

\* The operator: any command with any of its flags on any configuration.
Start ==
    /\ pc = "idle" /\ commands < MaxCommands
    /\ \E command \in {"migrate", "resume", "validate"}, c \in Configs,
          execute, localOnly, force \in BOOLEAN :
          /\ command = "validate" => ~localOnly /\ ~force
          /\ proc' = [command |-> command, config |-> c, execute |-> execute,
                      localOnly |-> localOnly, force |-> force]
          /\ pc' = IF command # "validate" /\ execute THEN "gate" ELSE "inspect"
    /\ commands' = commands + 1 /\ done' = None
    /\ UNCHANGED <<target, store, reports, disk, memory, faults>>

\* Both gates, for a run that would write.
PassGates ==
    /\ pc = "gate" /\ pc' = "inspect"
    /\ validateLocalExecutionGate(proc) /\ ProductionGate(proc)
    /\ UNCHANGED <<target, store, reports, disk, proc, memory, done, commands, faults>>

Refuse ==
    /\ pc = "gate"
    /\ IF validateLocalExecutionGate(proc) THEN ~ProductionGate(proc) /\ End("production")
       ELSE End("local")
    /\ UNCHANGED <<target, store, reports, disk, commands, faults>>

\* Inspect and CreatePlan, without the excluded tables.  A list of tables that is
\* cut short is taken for a shorter schema.
Inspect ==
    /\ pc = "inspect"
    /\ \E found \in SUBSET Tables :
          /\ \/ found = Tables /\ UNCHANGED faults
             \/ /\ found # Tables /\ "inspectCut" \in Faults /\ faults < MaxFaults
                /\ faults' = faults + 1
          /\ planned' = found \ cfg.excludes
    /\ pc' = IF proc.command = "validate"
             THEN IF proc.execute THEN "audit" ELSE "dryValidate"
             ELSE IF proc.execute THEN "create" ELSE "preview"
    /\ UNCHANGED <<target, store, reports, disk, proc, completed, at, recorder, audit, done,
                   commands>>

\* A dry run ends with its report.
WritePreview ==
    /\ pc = "preview"
    /\ Wrote(File("preview"), "dry_run_only", {}) /\ reports' = TRUE
    /\ End("ok")
    /\ UNCHANGED <<target, store, commands, faults>>

\* The state file is loaded and CREATE TABLE IF NOT EXISTS sent for each table.
CreateTables ==
    /\ pc = "create" /\ pc' = "copy"
    /\ completed' = states[cfg.stateFile]
    /\ created' = [created EXCEPT ![cfg.target] = @ \cup planned]
    /\ UNCHANGED <<rows, past, store, reports, disk, proc, planned, at, recorder, audit, done,
                   commands, faults>>

Streaming == pc = "copy" /\ at <= Len(TableOrder)

\* A table that the state file calls completed is skipped, whatever the target.
SkipTable ==
    /\ Streaming /\ TableOrder[at] \notin planned \ completed
    /\ at' = at + 1
    /\ UNCHANGED <<target, store, reports, disk, pc, proc, planned, completed, recorder,
                   audit, done, commands, faults>>

\* Mutant of CopyTable: the table counts as completed when its copy begins.
CopyTableMarked ==
    /\ Streaming /\ TableOrder[at] \in planned \ completed
    /\ LET t == TableOrder[at] IN
          /\ Keys(Source(t)) \cap Keys(Target(t)) = {}
          /\ states' = [states EXCEPT ![cfg.stateFile] = @ \cup {t}]
          /\ owner' = [owner EXCEPT ![cfg.stateFile][t] = <<cfg.source, cfg.target>>]
          /\ recorder' = recorder \cup {<<t, r>> : r \in Source(t) \cap Dirty}
    /\ pc' = "save"
    /\ UNCHANGED <<target, reports, disk, proc, planned, completed, at, audit, done, commands,
                   faults>>

\* One COPY; the table's primary key refuses keys that are there.
CopyTable ==
    /\ Streaming /\ TableOrder[at] \in planned \ completed
    /\ LET t == TableOrder[at] IN
          /\ Keys(Source(t)) \cap Keys(Target(t)) = {}
          /\ rows' = [rows EXCEPT ![cfg.target][t] = @ \cup Source(t)]
          /\ recorder' = recorder \cup {<<t, r>> : r \in Source(t) \cap Dirty}
    /\ pc' = "save"
    /\ UNCHANGED <<created, past, store, reports, disk, proc, planned, completed, at, audit,
                   done, commands, faults>>

CopyFails ==
    /\ Streaming /\ TableOrder[at] \in planned \ completed
    /\ Keys(Source(TableOrder[at])) \cap Keys(Target(TableOrder[at])) # {}
    /\ End("error")
    /\ UNCHANGED <<target, store, reports, disk, commands, faults>>

\* saveState creates no directory, and its error is dropped.
SaveState ==
    /\ pc = "save" /\ pc' = "copy"
    /\ LET t == TableOrder[at] IN
          /\ completed' = completed \cup {t}
          /\ IF reports
             THEN /\ states' = [states EXCEPT ![cfg.stateFile] = completed']
                  /\ owner' = [owner EXCEPT ![cfg.stateFile][t] = <<cfg.source, cfg.target>>]
             ELSE UNCHANGED store
    /\ at' = at + 1
    /\ UNCHANGED <<target, reports, disk, proc, planned, recorder, audit, done, commands, faults>>

\* Mutant of WriteSanitizedRowsReports: the file is kept if nothing was sanitized.
WriteSanitizedIfAny ==
    /\ \/ pc = "copy" /\ at > Len(TableOrder) /\ pc' = "reset"
       \/ pc = "sanitized" /\ pc' = "json"
    /\ IF recorder = {} THEN UNCHANGED disk ELSE Wrote(File("sanitized"), "items", recorder)
    /\ UNCHANGED <<target, store, reports, proc, memory, done, commands, faults>>

\* The sanitized-rows report of this process: the recorder of `validate` is empty.
WriteSanitizedRowsReports ==
    /\ \/ pc = "copy" /\ at > Len(TableOrder) /\ pc' = "reset"
       \/ pc = "sanitized" /\ pc' = "json"
    /\ Wrote(File("sanitized"), "items", recorder)
    /\ UNCHANGED <<target, store, reports, proc, memory, done, commands, faults>>

\* ResetAndValidateSequences, for `migrate` behind its gates and for `validate` behind
\* none: setval sends the sequence of each table past the keys that are there.  Where
\* the sequence cannot be asked for, its item is unsupported, and the status only falls
\* short of passed; where a later query fails, it is reset_failed.
ResetSequences ==
    /\ \/ pc = "reset" /\ pc' = "sequences"
       \/ pc = "auditSequences" /\ pc' = "audited"
    /\ \E set \in SUBSET planned :
          /\ past' = [past EXCEPT ![cfg.target] =
                 [t \in Tables |-> IF t \in set THEN Keys(Target(t)) ELSE past[cfg.target][t]]]
          /\ \/ set = planned /\ UNCHANGED <<audit, faults>>
             \/ /\ set # planned /\ "sequenceErr" \in Faults /\ faults < MaxFaults
                /\ faults' = faults + 1
                /\ \/ audit' = [audit EXCEPT !.status = ShortOfPassed(@)]
                   \/ audit' = [status |-> "VALIDATION_FAILED", gate |-> "blocked"]
    /\ UNCHANGED <<created, rows, store, reports, disk, proc, planned, completed, at, recorder,
                   done, commands>>

\* The report of the sequences, after the constraints of `migrate` and after the
\* audits of `validate`.
WriteSequenceResetReports ==
    /\ \/ pc = "sequences" /\ pc' = "finish"
       \/ pc = "audited" /\ pc' = "drilldown"
    /\ Wrote(File("sequence"), "items", {})
    /\ UNCHANGED <<target, store, reports, proc, memory, done, commands, faults>>

\* `migrate` ends well with its report, which creates the directory.
WriteMigrationReport ==
    /\ pc = "finish" /\ audit.status # "VALIDATION_FAILED"
    /\ Wrote(File("migration"), "executed_local_only", {}) /\ reports' = TRUE
    /\ End("ok")
    /\ UNCHANGED <<target, store, commands, faults>>

\* A failed reset is an error of `migrate`; an unsupported one is not.
ResetFailed ==
    /\ pc = "finish" /\ audit.status = "VALIDATION_FAILED"
    /\ End("error")
    /\ UNCHANGED <<target, store, reports, disk, commands, faults>>

\* `validate --dry-run` writes over the last verdict.
WriteDryValidation ==
    /\ pc = "dryValidate"
    /\ Wrote(Md(proc.config), "dry_run", {}) /\ reports' = TRUE
    /\ End("ok")
    /\ UNCHANGED <<target, store, commands, faults>>

\* Validate fails on a table that the target does not have.
Validate ==
    /\ pc = "audit" /\ planned \subseteq created[cfg.target] /\ pc' = "auditSequences"
    /\ audit' = Audit
    /\ UNCHANGED <<target, store, reports, disk, proc, planned, completed, at, recorder, done,
                   commands, faults>>

ValidateFails ==
    /\ pc = "audit" /\ ~(planned \subseteq created[cfg.target])
    /\ End("error")
    /\ UNCHANGED <<target, store, reports, disk, commands, faults>>

WriteChecksumDrilldownReports ==
    /\ pc = "drilldown" /\ pc' = "sanitized"
    /\ Wrote(File("drilldown"), "items", {})
    /\ UNCHANGED <<target, store, reports, proc, memory, done, commands, faults>>

WriteValidationJson ==
    /\ pc = "json" /\ pc' = "md"
    /\ Wrote(Json(proc.config), audit.status, {}) /\ reports' = TRUE
    /\ UNCHANGED <<target, store, proc, memory, done, commands, faults>>

WriteValidationMd ==
    /\ pc = "md"
    /\ Wrote(Md(proc.config), audit.status, {})
    /\ End(IF audit.status = "VALIDATION_FAILED" THEN "error" ELSE "ok")
    /\ UNCHANGED <<target, store, reports, commands, faults>>

\* An error of a database or of the disk, or a kill; a file it was writing may be
\* left empty.
Writing ==
    CASE pc = "preview" -> File("preview")
      [] pc = "finish" -> File("migration")
      [] pc = "sanitized" \/ (pc = "copy" /\ at > Len(TableOrder)) -> File("sanitized")
      [] pc \in {"sequences", "audited"} -> File("sequence")
      [] pc = "drilldown" -> File("drilldown")
      [] pc = "json" -> Json(proc.config)
      [] pc \in {"md", "dryValidate"} -> Md(proc.config)
      [] OTHER -> None

Stop ==
    /\ pc # "idle" /\ "stop" \in Faults /\ faults < MaxFaults
    /\ faults' = faults + 1
    /\ UNCHANGED disk \/ (Writing # None /\ Wrote(Writing, "torn", {}))
    /\ End("error")
    /\ UNCHANGED <<target, store, reports, commands>>

Next ==
    \/ Start \/ PassGates \/ Refuse \/ Inspect \/ WritePreview \/ CreateTables \/ SkipTable
    \/ CopyTable \/ CopyFails \/ SaveState \/ WriteSanitizedRowsReports
    \/ ResetSequences \/ WriteSequenceResetReports \/ WriteMigrationReport \/ ResetFailed
    \/ WriteDryValidation \/ Validate \/ ValidateFails \/ WriteChecksumDrilldownReports
    \/ WriteValidationJson \/ WriteValidationMd \/ Stop

Spec == Init /\ [][Next]_vars

-----------------------------------------------------------------------------
(* Properties.                                                             *)

\* Every variable keeps its type.
TypeOK ==
    /\ created \in [Targets -> SUBSET Tables]
    /\ rows \in [Targets -> [Tables -> SUBSET AllRows]]
    /\ past \in [Targets -> [Tables -> SUBSET Keys(AllRows)]]
    /\ states \in [StateFiles -> SUBSET Tables]
    /\ owner \in [StateFiles -> [Tables -> {None} \cup (Sources \X Targets)]]
    /\ reports \in BOOLEAN
    /\ disk \in [Files -> Written(commands)]
    /\ pc \in Steps /\ (pc = "idle" <=> proc = None) /\ proc \in Processes \cup {None}
    /\ planned \in SUBSET Tables /\ completed \in SUBSET Tables
    /\ at \in 1 .. Len(TableOrder) + 1
    /\ recorder \in SUBSET (Tables \X AllRows)
    /\ audit \in Audits
    /\ commands \in 0 .. MaxCommands /\ faults \in 0 .. MaxFaults

\* A database that is not local, or whose name does not say that it may be written.
Protected(d) ==
    d \notin Local \/ NameWords[d] \cap {"local", "test", "qantara"} = {}

\* What a step leaves of database d.
LeftAlone(d) ==
    /\ created'[d] = created[d] /\ rows'[d] = rows[d]
    /\ past'[d] # past[d] =>
          /\ proc.command = "validate"
          /\ \A t \in Tables : past'[d][t] \in {past[d][t], Keys(rows[d][t])}

\* Whatever commands are run with whatever flags, a protected database keeps its tables
\* and its rows.  Not its sequences: the setval of `validate` is behind no gate
\* (main.go:358, validator.go:268, sequence.go:69).  It is the only command that sets
\* them, and only past the keys that the table holds at that moment.
OthersAreLeftAlone == [][\A d \in Targets : Protected(d) => LeftAlone(d)]_vars

\* The override of --force-destructive-production-drop and of the configuration
\* never decides anything: what the second gate would refuse, the first has.
\* docs/COMMANDS.md:120 ff. and the message at main.go:171-178 have it that a migration
\* onto a production target needs one of the two; with neither of them, or with both,
\* the first gate alone decides.
OverridesAreIdle == done # None => done.how # "production"

Succeeded(command) == done # None /\ done.command = command /\ done.execute /\ done.how = "ok"

\* A `migrate` or `resume` that ended well has all the rows of its plan in its
\* target, unless the state file spoke of another source or target.
CompleteUnlessForeign ==
    \A command \in {"migrate", "resume"} : Succeeded(command) =>
        LET job == Job[done.config] IN
        \A t \in done.planned :
            \/ Content[job.source][t] \subseteq rows[job.target][t]
            \/ owner[job.stateFile][t] \notin {None, <<job.source, job.target>>}

\* The documentation promises zero data loss: it has them in any case.
SuccessIsComplete ==
    \A command \in {"migrate", "resume"} : Succeeded(command) =>
        LET job == Job[done.config] IN
        \A t \in done.planned : Content[job.source][t] \subseteq rows[job.target][t]

\* A `validate` that ended well is right about the tables it planned, whatever the
\* state files say and whoever filled the target, if only from the same source.
CertifiedIsComplete ==
    Succeeded("validate") =>
        LET job == Job[done.config] IN
        \A t \in done.planned :
            rows[job.target][t] \subseteq Content[job.source][t] =>
                rows[job.target][t] = Content[job.source][t]

\* A verdict is never newer than the reports it rests on, whichever command was
\* stopped at whichever file; a later command may have replaced them.
VerdictIsBacked ==
    \A o \in Outs : disk[<<o, "md">>].what \in Verdicts =>
        \A f \in Evidence \cup {<<o, "json">>} : disk[f].run >= disk[<<o, "md">>].run

-----------------------------------------------------------------------------
(* The strengthening.                                                      *)

\* What a state file calls completed is complete for the job that said so.
OwnedInv ==
    \A f \in StateFiles, t \in Tables :
        /\ t \in states[f] => owner[f][t] # None
        /\ owner[f][t] # None => Content[owner[f][t][1]][t] \subseteq rows[owner[f][t][2]][t]

\* So is what the process at hand counts as completed, or it has it from the file;
\* what it counted itself is in the file if there is a directory for it.
StreamedInv ==
    /\ \A t \in completed :
          t \in states[cfg.stateFile] \/ (~reports /\ Source(t) \subseteq Target(t))
    /\ pc = "save" =>
          /\ at <= Len(TableOrder) /\ TableOrder[at] \in planned
          /\ Source(TableOrder[at]) \subseteq Target(TableOrder[at])
    /\ pc \in {"copy", "save", "reset", "sequences", "finish"} =>
          \A i \in 1 .. at - 1 : TableOrder[i] \in planned => TableOrder[i] \in completed
    /\ pc \in {"reset", "sequences", "finish"} => at = Len(TableOrder) + 1

\* How far the command at hand has come says what it is, and past the gates that
\* it has passed them.
PhaseInv ==
    /\ pc # "idle" => done = None
    /\ completed # {} \/ at # 1 => pc \in {"copy", "save", "reset", "sequences", "finish"}
    /\ pc = "inspect" /\ proc.command # "validate" /\ proc.execute =>
          validateLocalExecutionGate(proc)
    /\ pc = "preview" => ~proc.execute
    /\ pc = "gate" => proc.command # "validate" /\ proc.execute
    /\ pc \in {"create", "copy", "save", "reset", "sequences", "finish"} =>
          proc.command # "validate" /\ proc.execute /\ validateLocalExecutionGate(proc)
    /\ pc = "dryValidate" => proc.command = "validate" /\ ~proc.execute
    /\ pc \in {"audit", "auditSequences", "audited", "drilldown", "sanitized", "json", "md"} =>
          proc.command = "validate" /\ proc.execute

\* What was audited is still so, whatever the sequences add to it, and the reports
\* written since are of this command.
AuditInv ==
    /\ pc = "auditSequences" => audit = Audit
    /\ pc \in {"audited", "drilldown", "sanitized", "json", "md"} =>
          /\ audit.status \in Verdicts
          /\ audit.status # "VALIDATION_FAILED" => Audit.status # "VALIDATION_FAILED"
    /\ pc \in {"drilldown", "sanitized", "json", "md"} => disk[File("sequence")].run = commands
    /\ pc \in {"sanitized", "json", "md"} => disk[File("drilldown")].run = commands
    /\ pc \in {"json", "md"} => disk[File("sanitized")].run = commands
    /\ pc = "md" => disk[Json(proc.config)].run = commands

CInv == OwnedInv /\ StreamedInv /\ PhaseInv /\ AuditInv
=============================================================================
