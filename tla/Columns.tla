------------------------------- MODULE Columns -------------------------------
(***************************************************************************)
(* One value of one column, from MySQL to the verdict of `validate`: the   *)
(* planner maps the column (Mapper), the loader converts the value         *)
(* (normalizeValueForCopy in loader/loader.go), COPY stores or refuses it, *)
(* an application of the target may write over it, and the validator       *)
(* compares what it reads on both sides (Normalization).                   *)
(*                                                                         *)
(* A number is its text; the integers are the ends of the ranges, which    *)
(* Bits bits hold.  The lower ends are alike and left out.                 *)
(***************************************************************************)
EXTENDS Integers, Mapper, Normalization, Checksums

CONSTANTS
    MySQLColumns,   \* the columns that may occur: DataType, unsigned, display1, members
    Configs,        \* the mapper's configurations, with parseTime of the source's DSN
                    \* and utc, whether the process runs in UTC
    Ints,           \* texts of integers
    Bits,           \* how many bits their magnitude takes, and that of Years
    Negative,       \* those below zero
    Numbers,        \* texts of other numbers
    Words,          \* bodies of texts
    Documents,      \* texts of JSON documents
    Decoded,        \* what pgx decodes a jsonb into, for the documents it can hold
    Stamps,         \* texts of dates and times in TimeForm
    Clocks,         \* texts of times of day in MySQL, -838:59:59 to 838:59:59
    Printed,        \* those within a day, as the struct pgx decodes them into is printed
    ZeroStamp,      \* the text of MySQL's zero date, and the zero of Go's time.Time that
    ZeroTime,       \* the driver makes of it
    OtherPair       \* the copies of another row of the same sample

Years == {"0", "2024"}

ASSUME ColumnsAssumption ==
    \A c \in MySQLColumns :
        c = [DataType |-> c.DataType, unsigned |-> c.unsigned, display1 |-> c.display1,
             members |-> c.members]
ASSUME BitsAssumption ==
    /\ Bits \in [Ints \cup Years -> Nat] /\ Negative \subseteq Ints
    /\ \A y \in Years : Bits[y] <= 15

\* No number, date or document is written NULL, and no integer as a boolean is.
ASSUME NamesAssumption ==
    /\ "NULL" \notin UNION {Ints, Numbers, Documents, Clocks, Stamps, {ZeroStamp}}
    /\ Ints \cap {"true", "false"} = {}

\* A time of day and the struct it is decoded into are two different texts, and
\* nothing but texts.
ASSUME ClocksAssumption ==
    \A t \in DOMAIN Printed :
        /\ Printed[t] \notin Clocks \cup {"NULL"}
        /\ \A b \in Clocks \cup {Printed[t]} : normalizeString(b) = <<"string", b>>

\* The first interpretation of a text that normalizeString finds is the one it has in
\* its column, unless that is a boolean of the same value; an integer is written once.
ASSUME NumbersAssumption ==
    /\ Numbers \subseteq DOMAIN Decimal \ (DOMAIN JsonForm \cup DOMAIN TimeForm \cup {""})
    /\ \A n \in Numbers : (IsTrue(n) => Decimal[n] = "1") /\ (IsFalse(n) => Decimal[n] = "0")
    /\ \A i \in Ints : Decimal[i] = i
ASSUME StampsAssumption ==
    /\ Stamps \subseteq DOMAIN TimeForm
    /\ DOMAIN TimeForm \cap (DOMAIN JsonForm \cup {""}) = {}

\* No text in PostgreSQL has NUL bytes or invalid UTF-8; bytes may, on both sides.
Clean(v) == IsValue(v) /\ ~v.nul /\ ~v.bad
Delivered(v) == IsValue(v) /\ (v.kind # "bytes" => Clean(v))

ASSUME DecodedAssumption == \A d \in DOMAIN Decoded : Clean(Decoded[d])
ASSUME PairAssumption == Delivered(OtherPair.src) /\ Delivered(OtherPair.tgt)

VARIABLES
    column, config,
    source,      \* the value in MySQL, as the driver scans it
    plan,        \* the ColumnPlan: type and check
    sent,        \* the value handed to CopyFrom
    recorded,    \* reasons in the sanitized-rows recorder
    target,      \* the value in PostgreSQL, as rows.Values() returns it
    edited,      \* an application has written over it
    verdict,     \* the checksum status of the sample
    pc

vars == <<column, config, source, plan, sent, recorded, target, edited, verdict, pc>>

-----------------------------------------------------------------------------
(* MySQL: the values of a column.                                          *)

Width(type) ==
    CASE type = "tinyint" -> 8 [] type = "smallint" -> 16 [] type = "mediumint" -> 24
      [] type = "int" -> 32 [] type = "bigint" -> 64

Marked(kind, bodies) ==
    {[kind |-> kind, body |-> b, nul |-> n, bad |-> x, pad |-> p] :
        b \in bodies, n \in BOOLEAN, x \in BOOLEAN, p \in BOOLEAN}

\* The text protocol delivers numbers as numbers, dates as time.Time if parseTime is
\* set, and all the rest as bytes.
Scanned(c, parseTime) ==
    {Nil} \cup
    CASE c.DataType \in Integers64 ->
            {Plain("int", i) : i \in {j \in Ints :
                IF c.unsigned THEN j \notin Negative /\ Bits[j] <= Width(c.DataType)
                ELSE Bits[j] < Width(c.DataType)}}
      [] c.DataType \in {"float", "double"} -> {Plain("float", n) : n \in Numbers}
      [] c.DataType = "decimal" -> {Plain("bytes", n) : n \in Numbers}
      [] c.DataType = "year" -> {Plain("int", y) : y \in Years}
      [] c.DataType = "json" -> {Plain("bytes", d) : d \in Documents}
      [] c.DataType \in {"date", "datetime", "timestamp"} ->
            IF parseTime
            THEN {Plain("time", TimeForm[s]) : s \in Stamps} \cup {Plain("time", ZeroTime)}
            ELSE {Plain("bytes", s) : s \in Stamps \cup {ZeroStamp}}
      [] c.DataType = "time" -> {Plain("bytes", t) : t \in Clocks}
      [] c.DataType \in {"enum", "set"} -> {Plain("bytes", m) : m \in c.members \cup {""}}
      [] c.DataType \in SpatialTypes ->
            {v \in Marked("bytes", {"point"}) : v.nul /\ ~v.pad}
      [] c.DataType = "bit" ->
            {v \in Marked("bytes", {"", "bits"}) : ~v.pad}
      [] OTHER -> Marked("bytes", Words)

-----------------------------------------------------------------------------
(* The loader: normalizeValueForCopy.                                      *)

\* Integers of boolean columns become booleans, other than zero is true; bytes
\* become text, whatever the column.
normalizeValueForCopy(v, type) ==
    IF type = "boolean" /\ v.kind = "int"
    THEN Plain("bool", IF v.body = "0" THEN "false" ELSE "true")
    ELSE IF v.kind = "bytes" THEN [SanitizePostgresText(v) EXCEPT !.kind = "string"]
    ELSE v

-----------------------------------------------------------------------------
(* PostgreSQL and pgx.                                                     *)

Capacity(type) ==
    CASE type = "smallint" -> 15 [] type = "integer" -> 31 [] type = "bigint" -> 63
      [] type = "numeric(20,0)" -> 66

\* planner.ColumnPlan.Constraints; the members are listed in lower case, since
\* MapType lowers the whole COLUMN_TYPE.
Satisfies(v, check, members) ==
    \/ v.kind = "nil"
    \/ check = "none"
    \/ check = "nonnegative" /\ v.body \notin Negative
    \/ check = "year" /\ v.body # "0"
    \/ check = "members" /\ \E m \in members : v.body = LowerCase[m]

\* The kind of the time.Time that pgx makes of a column's values.
TimeKind(type, cfg) ==
    IF type = "timestamp with time zone" /\ ~cfg.utc THEN "local" ELSE "time"

\* What PostgreSQL makes of a text for a column of this type; nothing if it cannot be.
Parsed(v, type, cfg) ==
    CASE type = "numeric" -> {Plain("numeric", v.body)}
      [] type = "jsonb" -> {Decoded[d] : d \in {v.body} \cap DOMAIN Decoded}
      [] type = "time without time zone" ->
            {Plain("other", Printed[t]) : t \in {v.body} \cap DOMAIN Printed}
      [] type \in {"date", "timestamp without time zone", "timestamp with time zone"} ->
            {Plain(TimeKind(type, cfg), TimeForm[s]) : s \in {v.body} \cap DOMAIN TimeForm}
      [] type \in {"bytea", "geometry"} -> {[v EXCEPT !.kind = "bytes"]}
      [] type = "text[]" -> {}
      [] type = "char" -> {v, [v EXCEPT !.pad = TRUE]}
      [] OTHER -> {v}

\* What the column may hold after COPY has been given v, read back; no value at all
\* if COPY must fail.  Whether pgx takes a text for a bytea, a geometry or, without a
\* zone, a timestamp with time zone, is left open.
Encoded(v, type, cfg) ==
    CASE v.kind = "string" -> Parsed(v, type, cfg)
      [] v.kind = "int" ->
            {Plain(IF type = "numeric(20,0)" THEN "numeric" ELSE "int", i) :
                i \in {j \in {v.body} : Bits[j] <= Capacity(type)}}
      [] v.kind = "time" -> {[v EXCEPT !.kind = TimeKind(type, cfg)]}
      [] OTHER -> {v}

MayFail(v, type) ==
    v.kind = "string" /\ type \in {"bytea", "geometry", "timestamp with time zone"}

\* The values an application may write into the column, as they are read back; NaN
\* stands for the infinities too.
Editable(type, cfg) ==
    CASE type = "boolean" -> {Plain("bool", b) : b \in {"true", "false"}}
      [] type \in {"smallint", "integer", "bigint"} ->
            {Plain("int", i) : i \in {j \in Ints : Bits[j] <= Capacity(type)}}
      [] type = "numeric(20,0)" ->
            {Plain("numeric", n) : n \in {j \in Ints : Bits[j] <= Capacity(type)} \cup {"NaN"}}
      [] type = "numeric" -> {Plain("numeric", n) : n \in Numbers \cup {"NaN"}}
      [] type \in {"real", "double precision"} ->
            {Plain("float", n) : n \in Numbers \cup {"NaN"}}
      [] type = "jsonb" -> {Decoded[d] : d \in DOMAIN Decoded}
      [] type \in {"date", "timestamp without time zone", "timestamp with time zone"} ->
            {Plain(TimeKind(type, cfg), i) :
                i \in {TimeForm[s] : s \in DOMAIN TimeForm} \cup {ZeroTime}}
      [] type = "time without time zone" -> {Plain("other", Printed[t]) : t \in DOMAIN Printed}
      [] type \in {"bytea", "geometry"} -> Marked("bytes", Words)
      [] type = "text[]" -> {Plain("other", "[]")}
      [] type \in {"char", "varchar", "text"} ->
            {v \in Marked("string", Words) : ~v.nul /\ ~v.bad}
      [] OTHER -> {}

-----------------------------------------------------------------------------
Init ==
    /\ column \in MySQLColumns /\ config \in Configs
    /\ source \in Scanned(column, config.parseTime)
    /\ plan = Typed("text") /\ sent = Nil /\ recorded = {} /\ target = Nil
    /\ edited = FALSE /\ verdict = "none" /\ pc = "plan"

\* CreatePlan; CREATE TABLE declares the column so.
CreatePlan ==
    /\ pc = "plan" /\ pc' = "read"
    /\ plan' = MapType(column, config)
    /\ UNCHANGED <<column, config, source, sent, recorded, target, edited, verdict>>

\* The row is read; sanitizing is recorded, except of values that become booleans.
ReadRow ==
    /\ pc = "read" /\ pc' = "copy"
    /\ sent' = normalizeValueForCopy(source, plan.type)
    /\ recorded' = IF source.kind = "bytes" THEN Reasons(source) ELSE {}
    /\ UNCHANGED <<column, config, source, plan, target, edited, verdict>>

CopyFrom ==
    /\ pc = "copy" /\ pc' = "copied"
    /\ Satisfies(sent, plan.check, column.members)
    /\ target' \in Encoded(sent, plan.type, config)
    /\ UNCHANGED <<column, config, source, plan, sent, recorded, edited, verdict>>

\* The table, and with it the migration, cannot be completed.
CopyRefused ==
    /\ pc = "copy" /\ pc' = "refused"
    /\ \/ ~Satisfies(sent, plan.check, column.members)
       \/ Encoded(sent, plan.type, config) = {}
       \/ MayFail(sent, plan.type)
    /\ UNCHANGED <<column, config, source, plan, sent, recorded, target, edited, verdict>>

\* The same value of the column: numbers may be written in several ways.
Equal(v, w) ==
    \/ v = w
    \/ /\ v.kind \in {"numeric", "float"} /\ w.kind = v.kind
       /\ v.body # "NaN" /\ Decimal[v.body] = Decimal[w.body]

\* A client of the target; the column's CHECK binds it too.
Edit ==
    /\ pc = "copied" /\ ~edited
    /\ \E v \in Editable(plan.type, config) \cup {Nil} :
          /\ Satisfies(v, plan.check, column.members)
          /\ \A w \in Encoded(sent, plan.type, config) : ~Equal(v, w)
          /\ target' = v
    /\ edited' = TRUE
    /\ UNCHANGED <<column, config, source, plan, sent, recorded, verdict, pc>>

Pair == [src |-> source, tgt |-> target]

Validate ==
    /\ pc = "copied" /\ pc' = "validated"
    /\ verdict' = sampleStatus({Pair})
    /\ UNCHANGED <<column, config, source, plan, sent, recorded, target, edited>>

Next == CreatePlan \/ ReadRow \/ CopyFrom \/ CopyRefused \/ Edit \/ Validate

Spec == Init /\ [][Next]_vars

-----------------------------------------------------------------------------
(* Properties.                                                             *)

\* What the target holds means what the source holds.
Lossless ==
    /\ ~edited
    /\ IF sent.kind = "bool" THEN source.body \in {"0", "1"}
       ELSE recorded = {} /\ source # Plain("time", ZeroTime)

\* What is compared as a text, whatever it means.
Untyped == plan.type \in {"char", "varchar", "text", "bytea", "geometry", "jsonb"}

TypeOK ==
    /\ column \in MySQLColumns /\ config \in Configs
    /\ IsValue(source) /\ IsValue(sent) /\ IsValue(target)
    /\ recorded \subseteq {"nul_bytes", "invalid_utf8"} /\ edited \in BOOLEAN
    /\ IF pc = "validated" THEN verdict \in ChecksumStatuses ELSE verdict = "none"
    /\ pc \in {"plan", "read", "copy", "copied", "refused", "validated"}

\* A value MySQL holds fits its column in the target, with these exceptions: a signed
\* mediumint beyond smallint (mapper.go:38; docs/TYPE_MAPPING.md:15 has it as integer,
\* "Fits within PostgreSQL 32-bit signed integer"), year 0, the zero date as text
\* (docs/TYPE_MAPPING.md:46-47 makes it NULL or "Unix Epoch" "to prevent copy crashes"),
\* the empty enum value and members with capitals (mapper.go:26), times beyond a day,
\* JSON with an escaped NUL, sets as arrays; and binary or zoneless text, if pgx does
\* not take it.
RefusalsAreKnown ==
    pc = "refused" =>
        \/ column.DataType = "mediumint" /\ ~column.unsigned /\ Bits[source.body] > 15
        \/ column.DataType = "year" /\ source.body = "0"
        \/ column.DataType \in {"date", "datetime", "timestamp"} /\ source.kind = "bytes"
              /\ (source.body = ZeroStamp \/ plan.type = "timestamp with time zone")
        \/ column.DataType = "enum" /\ config.enum_as_domain
              /\ (source.body = "" \/ LowerCase[source.body] # source.body)
        \/ column.DataType = "set" /\ config.set_as_array
        \/ column.DataType = "time" /\ source.body \notin DOMAIN Printed
        \/ column.DataType = "json" /\ source.body \notin DOMAIN Decoded
        \/ column.DataType \in BinaryTypes \cup SpatialTypes

\* A value that the migration changed does not pass for equal: what sanitizing took
\* out is flagged or not comparable, a boolean made of another number differs.  Only
\* zero dates are changed and pass: parseTime makes them the year 1, on both sides, and
\* not the NULL or Unix Epoch of docs/TYPE_MAPPING.md:46-47.
ChangesAreSeen ==
    pc = "validated" /\ ~edited /\ ~Lossless
    /\ verdict \in {"passed", "normalized_equivalent"}
        => source = Plain("time", ZeroTime)

\* What a client of the target writes over a boolean, a number, a date, a time, an
\* array or a NULL of these is noticed, NULL included.  Texts, bytes, geometries and
\* JSON documents are compared as texts, and may look alike when they are different: a
\* JSON 7 and the "7" written over it (normalization.go:26-37), the text NULL and NULL.
EditsAreSeen ==
    pc = "validated" /\ edited /\ ~Untyped =>
        verdict \in {"real_mismatch", "unsupported_comparison"}

\* A row that was recorded as sanitized is reported as such by the validation.
SanitizedIsSeen ==
    pc = "validated" /\ ~edited /\ recorded # {} =>
        verdict \in {"sanitized_equivalent", "unsupported_comparison"}

\* An intact copy is never a real mismatch, except where pgx decodes what MySQL keeps
\* as text: JSON documents and times of day.
IntactAgrees ==
    pc = "validated" /\ Lossless /\ verdict = "real_mismatch" =>
        column.DataType \in {"json", "time"}

\* Validator's view of a sample, one look for each pair, decides its status and
\* whether the drilldown has a real mismatch.
LooksSuffice ==
    pc = "validated" =>
        LET pairs == <<Pair, OtherPair>>
            looks == [i \in 1 .. 2 |-> Look(pairs[i])]
        IN  /\ sampleStatus({Pair, OtherPair}) = Checksum(1 .. 2, 1 .. 2, looks)
            /\ (\E i \in 1 .. 2 : Classification(pairs[i]) = "real_mismatch")
                  <=> HasRealMismatch(1 .. 2, 1 .. 2, looks)

=============================================================================
