-------------------------------- MODULE Schema --------------------------------
(***************************************************************************)
(* One run of `migrate`, seen by the catalogs: what inspector/inspector.go *)
(* reads of MySQL's, the key that planner/planner.go picks for a table,    *)
(* the statements of ddl/ddl.go, what PostgreSQL makes of them one after   *)
(* the other, and the sequences that validator/sequence.go finds.          *)
(*                                                                         *)
(* A table of MySQL (or a view: nothing tells them apart) has columns in   *)
(* order, indexes, PRIMARY among them, and foreign keys.  How names are    *)
(* put together is given by constants.  Of the rows it matters whether     *)
(* there are any; Loader and Columns have what becomes of them.            *)
(***************************************************************************)
EXTENDS Naturals, Sequences, FiniteSets, Mapper

CONSTANTS
    None,
    TableOrder,   \* the tables of the source, in the planner's order
    Schemas,      \* the schemas it may have: columns, indexes, fks and filled (there
                  \* are rows) of every table
    Config,       \* the mapper's configuration
    IndexName,    \* IndexName[t][i]: "t_i_idx", cut at PostgreSQL's 63 bytes
    Folded        \* Folded[t]: what "public.t" names, as it is not quoted

Tables == {TableOrder[i] : i \in 1 .. Len(TableOrder)}

ASSUME OrderAssumption ==
    /\ TableOrder \in Seq(Tables) /\ None \notin Tables
    /\ \A i, j \in 1 .. Len(TableOrder) : TableOrder[i] = TableOrder[j] => i = j

\* What MySQL sees to: indexes and foreign keys are over columns that exist, and the
\* foreign keys of a table have names of their own.
ColumnNames(s, t) == {s[t].columns[i].name : i \in 1 .. Len(s[t].columns)}

ASSUME SchemasAssumption ==
    \A s \in Schemas : \A t \in Tables :
        /\ \A i \in s[t].indexes : i.columns \subseteq ColumnNames(s, t)
        /\ \A f, g \in s[t].fks : f.name = g.name => f = g
        /\ \A f \in s[t].fks :
              /\ Len(f.columns) \in Nat \ {0}
              /\ f.parent \in Tables /\ ~f.elsewhere =>
                    \A i \in 1 .. Len(f.columns) : f.referenced[i] \in ColumnNames(s, f.parent)

VARIABLES
    schema, excludes,   \* the source and the configuration
    existing,           \* tables the target had before, with no constraints
    key,                \* key[t]: TablePlan.PrimaryKeyColumn, or None
    taken,              \* names of the target's indexes
    unique,             \* a table and columns of it that are unique in the target
    fks,                \* the foreign keys in force there
    identity,           \* tables whose key is an identity
    reset,              \* tables whose sequence was last set from their own rows
    unsupported,        \* tables with an "unsupported" item of the sequence reset
    resetFailed,        \* its Status is "reset_failed"
    pc, at,             \* phase of runMigrate, position in TableOrder
    failed              \* the phase that failed

input == <<schema, excludes, existing>>
catalog == <<taken, unique, fks, identity, reset>>
report == <<unsupported, resetFailed>>
vars == <<schema, excludes, existing, key, taken, unique, fks, identity, reset, unsupported,
          resetFailed, pc, at, failed>>

Planned == Tables \ excludes
Columns(t) == {schema[t].columns[i] : i \in 1 .. Len(schema[t].columns)}
cur == TableOrder[at]

-----------------------------------------------------------------------------
(* The inspector and the planner.                                          *)

\* inspectAllIndexes passes over PRIMARY.
Indexes(t) == {i \in schema[t].indexes : i.name # "PRIMARY"}

\* Mutant of ForeignKeys: the columns of one constraint are merged, and one kept.
ForeignKeysMerged(t) ==
    {[child |-> t, name |-> f.name, column |-> f.columns[1], parent |-> f.parent,
      referenced |-> f.referenced[1]] : f \in schema[t].fks}

\* inspectAllForeignKeys has a row for every column of a foreign key, and does not
\* read which schema the referenced table is in.
ForeignKeys(t) ==
    UNION {{[child |-> t, name |-> f.name, column |-> f.columns[i], parent |-> f.parent,
             referenced |-> f.referenced[i]] : i \in 1 .. Len(f.columns)} : f \in schema[t].fks}

\* An index over an expression has no COLUMN_NAME, and NULL does not scan.
Readable(t) == \A i \in schema[t].indexes : ~i.functional

IsKey(c) == c.auto \/ c.pri

\* The first column that is an auto_increment, or has "pri" in its COLUMN_TYPE.
PrimaryKeyColumn(columns) ==
    LET found == {i \in 1 .. Len(columns) : IsKey(columns[i])} IN
    IF found = {} THEN None
    ELSE columns[CHOOSE i \in found : \A j \in found : i <= j].name

KeyColumns(t) == {c \in Columns(t) : c.name = key[t]}
KeyTypes(t) == {MapType(c, Config).type : c \in KeyColumns(t)}
IsBoolean(t, name) == \E c \in Columns(t) : c.name = name /\ MapType(c, Config).type = "boolean"

-----------------------------------------------------------------------------
Init ==
    /\ schema \in Schemas
    /\ excludes \in SUBSET Tables /\ existing \in SUBSET Tables
    /\ key = [t \in Tables |-> None]
    /\ taken = {} /\ unique = {} /\ fks = {} /\ identity = {} /\ reset = {}
    /\ unsupported = {} /\ resetFailed = FALSE
    /\ pc = "inspect" /\ at = 1 /\ failed = "none"

\* os.Exit(1).
Fail ==
    /\ failed' = pc /\ pc' = "failed"
    /\ UNCHANGED <<input, key, catalog, report, at>>

Inspect ==
    /\ pc = "inspect" /\ pc' = "plan"
    /\ \A t \in Tables : Readable(t)
    /\ UNCHANGED <<input, key, catalog, report, at, failed>>

InspectFails == pc = "inspect" /\ (\E t \in Tables : ~Readable(t)) /\ Fail

CreatePlan ==
    /\ pc = "plan" /\ pc' = "create"
    /\ key' = [t \in Tables |->
                  IF t \in Planned THEN PrimaryKeyColumn(schema[t].columns) ELSE None]
    /\ UNCHANGED <<input, catalog, report, at, failed>>

\* A turn of a phase's loop over the planned tables, and the way to the next phase.
Turn(phase) ==
    /\ pc = phase /\ at <= Len(TableOrder) /\ cur \in Planned
    /\ at' = at + 1
    /\ UNCHANGED <<input, key, pc, failed>>

\* Mutant of After: foreign keys are added before the indexes are made.
AfterSwapped == [create |-> "copy", copy |-> "fk", fk |-> "index", index |-> "sequence",
                 sequence |-> "done"]

\* The loops over the planned tables, in this order.
After == [create |-> "copy", copy |-> "index", index |-> "fk", fk |-> "sequence",
          sequence |-> "done"]

Skip ==
    /\ pc \in DOMAIN After /\ at <= Len(TableOrder) /\ cur \notin Planned
    /\ at' = at + 1
    /\ UNCHANGED <<input, key, catalog, report, pc, failed>>

NextPhase ==
    /\ at > Len(TableOrder) /\ at' = 1
    /\ pc \in DOMAIN After /\ pc' = After[pc]
    /\ pc = "sequence" => ~resetFailed
    /\ UNCHANGED <<input, key, catalog, report, failed>>

\* Mutant of Identities: small keys stay plain columns.
IdentitiesLarge(t) == {u \in {t} : KeyTypes(u) \cap {"integer", "bigint"} # {}}

\* GENERATED BY DEFAULT AS IDENTITY goes to keys of types with "int" in their name.
Identities(t) == {u \in {t} : KeyTypes(u) \cap {"smallint", "integer", "bigint"} # {}}

\* CREATE TABLE IF NOT EXISTS: the planned key is all that becomes a primary key.
CreateTable ==
    /\ Turn("create")
    /\ IF cur \in existing THEN UNCHANGED <<unique, identity>>
       ELSE /\ unique' = unique \cup {<<cur, {c.name}>> : c \in KeyColumns(cur)}
            /\ identity' = identity \cup Identities(cur)
    /\ UNCHANGED <<taken, fks, reset, report>>

StreamTable == Turn("copy") /\ UNCHANGED <<catalog, report>>

\* Some row is refused by the target's types or constraints.
StreamTableFails ==
    /\ pc = "copy" /\ at <= Len(TableOrder) /\ cur \in Planned /\ schema[cur].filled
    /\ Fail

IndexNames(t) == {IndexName[t][i.name] : i \in Indexes(t)}

\* CREATE INDEX IF NOT EXISTS for each index, in the order of a Go map: of those that
\* share a name the first is made, and none if the schema has an index of that name.
CreateIndexes ==
    /\ Turn("index")
    /\ \E made \in SUBSET Indexes(cur) :
          /\ {IndexName[cur][i.name] : i \in made} = IndexNames(cur) \ taken
          /\ \A i, j \in made : IndexName[cur][i.name] = IndexName[cur][j.name] => i = j
          /\ unique' = unique \cup {<<cur, i.columns>> : i \in {j \in made : j.unique}}
    /\ taken' = taken \cup IndexNames(cur)
    /\ UNCHANGED <<fks, identity, reset, report>>

\* Mutant of CreateIndexesFails: an index that cannot be made is left out.
CreateIndexesWarns ==
    /\ Turn("index")
    /\ \E i \in Indexes(cur) : i.long \/ (i.unique /\ (schema[cur].filled \/ cur \in existing))
    /\ UNCHANGED <<catalog, report>>

\* A text is too long for an index over all of it; or rows that differed are equal once
\* sanitized, or in a table that was there before.
CreateIndexesFails ==
    /\ pc = "index" /\ at <= Len(TableOrder) /\ cur \in Planned
    /\ \E i \in Indexes(cur) : i.long \/ (i.unique /\ (schema[cur].filled \/ cur \in existing))
    /\ Fail

\* All statements of a table are sent together: two of one name, a parent that is
\* not in the target, columns of it that are not unique, or a boolean facing a number
\* (tinyint(1) facing tinyint) undo them all.
AddFails(t) ==
    \E f \in ForeignKeys(t) :
        \/ \E g \in ForeignKeys(t) : g.name = f.name /\ g # f
        \/ <<f.parent, {f.referenced}>> \notin unique
        \/ IsBoolean(t, f.column) # IsBoolean(f.parent, f.referenced)

AddForeignKeys ==
    /\ Turn("fk") /\ ~AddFails(cur)
    /\ fks' = fks \cup ForeignKeys(cur)
    /\ UNCHANGED <<taken, unique, identity, reset, report>>

\* Rows of another parent, or of a child that was there before, may dangle.
AddForeignKeysFails ==
    /\ pc = "fk" /\ at <= Len(TableOrder) /\ cur \in Planned
    /\ \/ AddFails(cur)
       \/ \E f \in schema[cur].fks : f.elsewhere \/ cur \in existing
    /\ Fail

\* The table whose sequence pg_get_serial_sequence finds for the key of t.
SequenceOf(t) == {u \in identity : u = Folded[t] /\ key[u] = key[t]}

\* It finds no such table or column, and says so with an error.
NotFound(t) ==
    \/ key[t] = None \/ Folded[t] \notin Planned \cup existing
    \/ key[t] \notin ColumnNames(schema, Folded[t])

\* Any sequence that is found is set from the rows of this table; a table without a
\* key, or for which there is an error, is unsupported.  Migrate has the numbers.
ResetSequence ==
    /\ Turn("sequence")
    /\ reset' = (reset \ SequenceOf(cur)) \cup (SequenceOf(cur) \cap {cur})
    /\ unsupported' = unsupported \cup {t \in {cur} : NotFound(t)}
    /\ UNCHANGED <<taken, unique, fks, identity, resetFailed>>

\* The query for the sequence's name fails, and the table is unsupported too; or MAX or
\* setval fails, and so does the reset.  The loop goes on.
ResetSequenceFails ==
    /\ Turn("sequence") /\ key[cur] # None
    /\ \/ unsupported' = unsupported \cup {cur} /\ UNCHANGED resetFailed
       \/ SequenceOf(cur) # {} /\ resetFailed' = TRUE /\ UNCHANGED unsupported
    /\ UNCHANGED catalog

\* "Sequence reset failed; staging readiness is blocked."
SequencesFail ==
    /\ pc = "sequence" /\ at > Len(TableOrder) /\ resetFailed
    /\ Fail

Next ==
    \/ Inspect \/ InspectFails \/ CreatePlan \/ Skip \/ NextPhase
    \/ CreateTable \/ StreamTable \/ StreamTableFails \/ CreateIndexes \/ CreateIndexesFails
    \/ AddForeignKeys \/ AddForeignKeysFails \/ ResetSequence \/ ResetSequenceFails
    \/ SequencesFail

Spec == Init /\ [][Next]_vars

-----------------------------------------------------------------------------
(* Properties.                                                             *)

\* Every variable keeps its type.
TypeOK ==
    /\ schema \in Schemas /\ excludes \in SUBSET Tables /\ existing \in SUBSET Tables
    /\ DOMAIN key = Tables
    /\ taken \subseteq UNION {IndexNames(t) : t \in Tables}
    /\ \A u \in unique : u[1] \in Planned
    /\ fks \subseteq UNION {ForeignKeys(t) : t \in Planned}
    /\ identity \subseteq Planned \ existing /\ reset \subseteq identity
    /\ unsupported \subseteq Planned /\ resetFailed \in BOOLEAN
    /\ pc \in {"inspect", "plan", "create", "copy", "index", "fk", "sequence", "done", "failed"}
    /\ failed \in {"none", "inspect", "copy", "index", "fk", "sequence"}
    /\ pc = "failed" <=> failed # "none"
    /\ at \in 1 .. Len(TableOrder) + 1

\* Another index of the source has the same name in the target.
NameIsShared(t, i) ==
    \E u \in Planned : \E j \in Indexes(u) :
        <<u, j>> # <<t, i>> /\ IndexName[u][j.name] = IndexName[t][i.name]

\* A migration that succeeds keeps what MySQL has unique, with two exceptions: primary
\* keys other than the planned column (ddl.go:49), and indexes whose name another one
\* has in the target, which IF NOT EXISTS passes over in silence.
UniquenessSurvives ==
    pc = "done" => \A t \in Planned : \A i \in schema[t].indexes :
        i.unique /\ <<t, i.columns>> \notin unique =>
            \/ i.name = "PRIMARY" /\ (i.columns # {key[t]} \/ t \in existing)
            \/ NameIsShared(t, i)

\* One that succeeds has every foreign key in force, over all of its columns, and to a
\* table of the plan, though the driver knows nothing of keys it cannot declare.
ForeignKeysSurvive ==
    pc = "done" => \A t \in Planned : \A f \in schema[t].fks :
        /\ f.parent \in Planned
        /\ {<<g.column, g.referenced>> : g \in {h \in fks : h.child = t /\ h.name = f.name}}
              = {<<f.columns[i], f.referenced[i]>> : i \in 1 .. Len(f.columns)}

\* Foreign keys of the source are refused only if one is over several columns, or to a
\* table left out, in another schema or that had been there before; or from a tinyint
\* to a tinyint(1); or to a column that is not the planned key, with no unique index of
\* its own or one whose name another index has.  The phases before have seen to it.
RefusedForeignKeys ==
    failed = "fk" => \E t \in Planned : \E f \in schema[t].fks :
        \/ Len(f.columns) > 1 \/ f.elsewhere \/ f.parent \notin Planned
        \/ {t, f.parent} \cap existing # {}
        \/ IsBoolean(t, f.columns[1]) # IsBoolean(f.parent, f.referenced[1])
        \/ /\ f.referenced[1] # key[f.parent]
           /\ \A i \in Indexes(f.parent) :
                  i.unique /\ i.columns = {f.referenced[1]} => NameIsShared(f.parent, i)

\* One that succeeds has set the sequence of every auto_increment from its own rows,
\* unless its report calls the table unsupported, an earlier column was taken for the
\* key, its type gets no identity, or the unquoted name of some table (it has capitals)
\* means another table or none.  bigint unsigned gets none: it maps to numeric, where
\* docs/FOODTECH_MIGRATION_GUIDE.md:21 says of such keys within range that the tool
\* "maps them to Postgres `BIGINT` and synchronizes Postgres sequences".
SequencesFollow ==
    pc = "done" => \A t \in Planned : \A c \in Columns(t) : c.auto /\ t \notin reset =>
        \/ t \in existing \cup unsupported \/ key[t] # c.name
        \/ MapType(c, Config).type \notin {"smallint", "integer", "bigint"}
        \/ \E u \in Planned : Folded[u] # u /\ t \in {u, Folded[u]}
=============================================================================
