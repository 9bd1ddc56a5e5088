---------------------------- MODULE Normalization ----------------------------
(***************************************************************************)
(* Values as Go's drivers hand them over, the sanitizing of text in        *)
(* loader/sanitized_report.go, and validator/normalization.go: how a value *)
(* is rendered and normalized for the checksums.                           *)
(*                                                                         *)
(* A text is its body with three marks: nul and bad, NUL bytes and invalid *)
(* UTF-8 somewhere in it, and pad, blanks around it.  What Go's library    *)
(* makes of a body is a constant function.                                 *)
(***************************************************************************)
CONSTANTS
    LowerCase,   \* strings.ToLower, on bodies
    JsonForm,    \* the texts of JSON objects and arrays, as json.Marshal writes them
    TimeForm,    \* the texts normalizeTime can parse, as instants in UTC
    Decimal      \* normalizeDecimal, on the texts of integers and decimals

Kinds == {"nil", "int", "float", "bool", "time", "local", "bytes", "string", "numeric",
          "other"}

\* time and local: a time.Time in UTC, and in the zone of the process.  numeric: a
\* pgtype.Numeric.  other: what has no case of its own, as fmt prints it.
IsValue(v) ==
    /\ v = [kind |-> v.kind, body |-> v.body, nul |-> v.nul, bad |-> v.bad, pad |-> v.pad]
    /\ v.kind \in Kinds /\ v.nul \in BOOLEAN /\ v.bad \in BOOLEAN /\ v.pad \in BOOLEAN

Plain(kind, body) ==
    [kind |-> kind, body |-> body, nul |-> FALSE, bad |-> FALSE, pad |-> FALSE]
Nil == Plain("nil", "NULL")

\* SanitizePostgresTextForReport: what is reported of a text, and the text itself.
Reasons(v) == {r \in {"nul_bytes", "invalid_utf8"} : IF r = "nul_bytes" THEN v.nul ELSE v.bad}
SanitizePostgresText(v) == [v EXCEPT !.nul = FALSE, !.bad = FALSE]

-----------------------------------------------------------------------------
(* rawChecksumValue: texts are compared as texts, whatever they come from. *)
rawChecksumValue(v) ==
    [v EXCEPT !.kind = IF @ \in {"numeric", "time", "local"} THEN @ ELSE "string"]

IsTrue(body) == LowerCase[body] \in {"true", "t", "yes", "y", "1"}
IsFalse(body) == LowerCase[body] \in {"false", "f", "no", "n", "0"}

\* The interpretations are tried in this order.
normalizeString(body) ==
    IF body = "" THEN <<"string", "">>
    ELSE IF body \in DOMAIN JsonForm THEN <<"json", JsonForm[body]>>
    ELSE IF body \in DOMAIN TimeForm THEN <<"time", TimeForm[body]>>
    ELSE IF IsTrue(body) THEN <<"scalar", "1">>
    ELSE IF IsFalse(body) THEN <<"scalar", "0">>
    ELSE IF body \in DOMAIN Decimal THEN <<"scalar", Decimal[body]>>
    ELSE <<"string", body>>

\* The flags of normalizeChecksumValue: bytes that are not UTF-8 and numbers that
\* are none are given up, other texts are compared without what sanitizing removes.
Unsupported(v) ==
    \/ v.kind = "bytes" /\ v.bad
    \/ v.kind \in {"numeric", "float"} /\ v.body = "NaN"

\* Mutant of Sanitized: only strings are looked at, not bytes.
SanitizedString(v) == v.kind = "string" /\ (v.nul \/ v.bad)

Sanitized(v) ==
    /\ v.kind \in {"bytes", "string", "other"} /\ ~Unsupported(v)
    /\ v.nul \/ v.bad

\* Mutant of BoolForm: a boolean keeps its name.
BoolName(body) == body

BoolForm(body) == IF body = "true" THEN "1" ELSE "0"

\* Mutant of normalizeChecksumValue: integers are compared as booleans.
normalizeTruthy(v) ==
    IF Unsupported(v) THEN <<"UNSUPPORTED", "">>
    ELSE CASE v.kind = "nil" -> <<"NULL", "">>
           [] v.kind \in {"numeric", "float"} -> <<"scalar", Decimal[v.body]>>
           [] v.kind = "int" -> <<"scalar", IF v.body = "0" THEN "0" ELSE "1">>
           [] v.kind = "bool" -> <<"scalar", BoolForm(v.body)>>
           [] v.kind \in {"time", "local"} -> <<"time", v.body>>
           [] OTHER -> normalizeString(v.body)

normalizeChecksumValue(v) ==
    IF Unsupported(v) THEN <<"UNSUPPORTED", "">>
    ELSE CASE v.kind = "nil" -> <<"NULL", "">>
           [] v.kind \in {"numeric", "float"} -> <<"scalar", Decimal[v.body]>>
           [] v.kind = "int" -> <<"scalar", v.body>>
           [] v.kind = "bool" -> <<"scalar", BoolForm(v.body)>>
           [] v.kind \in {"time", "local"} -> <<"time", v.body>>
           [] OTHER -> normalizeString(v.body)

-----------------------------------------------------------------------------
(* The comparison of two samples: pairs lists the copies of each row.      *)

SameRaw(p) == rawChecksumValue(p.src) = rawChecksumValue(p.tgt)
SameNormal(p) == normalizeChecksumValue(p.src) = normalizeChecksumValue(p.tgt)
AnyUnsupported(p) == Unsupported(p.src) \/ Unsupported(p.tgt)
AnySanitized(p) == Sanitized(p.src) \/ Sanitized(p.tgt)

\* Mutant of sampleStatus: what cannot be compared is not looked for first.
sampleStatusUnflagged(pairs) ==
    IF \A p \in pairs : SameRaw(p) THEN "passed"
    ELSE IF \A p \in pairs : SameNormal(p)
    THEN IF \E p \in pairs : AnySanitized(p)
         THEN "sanitized_equivalent" ELSE "normalized_equivalent"
    ELSE "real_mismatch"

\* Mutant of sampleStatus: no status where the comparison is given up.
sampleStatusOpen(pairs) ==
    IF \A p \in pairs : SameRaw(p) THEN "passed"
    ELSE IF \E p \in pairs : AnyUnsupported(p) THEN "none"
    ELSE "normalized_equivalent"

\* The status of calculateSampleChecksum for samples whose rows pair up.
sampleStatus(pairs) ==
    IF \A p \in pairs : SameRaw(p) THEN "passed"
    ELSE IF \E p \in pairs : AnyUnsupported(p) THEN "unsupported_comparison"
    ELSE IF \A p \in pairs : SameNormal(p)
    THEN IF \E p \in pairs : AnySanitized(p)
         THEN "sanitized_equivalent" ELSE "normalized_equivalent"
    ELSE "real_mismatch"

\* SuggestedClassification of the item for a pair, if it has one.
Classification(p) ==
    IF SameNormal(p) THEN "none"
    ELSE IF AnyUnsupported(p) THEN "unsupported_comparison"
    ELSE IF AnySanitized(p) THEN "sanitized_equivalent"
    ELSE "real_mismatch"

\* What Checksums keeps of a pair.
Look(p) ==
    IF SameRaw(p)
    THEN IF AnyUnsupported(p) THEN "opaque" ELSE IF ~SameNormal(p) THEN "null"
         ELSE IF AnySanitized(p) THEN "marked" ELSE "identical"
    ELSE IF AnyUnsupported(p) THEN "binary"
    ELSE IF SameNormal(p) THEN IF AnySanitized(p) THEN "sanitized" ELSE "rendered"
    ELSE IF AnySanitized(p) THEN "altered" ELSE "different"
=============================================================================
