---------------------------- MODULE ColumnsProofs ----------------------------
(***************************************************************************)
(* Theorems about Columns for any columns, configurations and values: the  *)
(* looks Validator works with say as much about two samples as their       *)
(* values; which values a migration refuses; what the validation makes of  *)
(* the values that were changed, and of those that were not.               *)
(***************************************************************************)
EXTENDS Columns, TLAPS

\* What is known of the values on their way.
ValuesInv ==
    /\ Delivered(source)
    /\ Clean(sent)
    /\ Delivered(target)
    /\ ~edited => Clean(target)

LEMMA PlainIsClean ==
    ASSUME NEW kind \in Kinds, NEW body PROVE Clean(Plain(kind, body)) /\ Plain(kind, body).kind = kind
  BY DEF Plain, Clean, IsValue

LEMMA NilIsClean == Clean(Nil)
  BY PlainIsClean DEF Nil, Kinds

LEMMA MarkedValues ==
    ASSUME NEW kind \in Kinds, NEW bodies, NEW v \in Marked(kind, bodies)
    PROVE  IsValue(v) /\ v.kind = kind
  BY DEF Marked, IsValue

\* The driver delivers bytes, or values without marks.
LEMMA ScannedValues ==
    ASSUME NEW c, NEW parseTime, NEW v \in Scanned(c, parseTime)
    PROVE  Delivered(v)
  <1> USE DEF Kinds, Delivered
  <1>1. CASE v = Nil
    BY <1>1, NilIsClean DEF Clean
  <1>2. CASE \E kind \in Kinds : \E body : v = Plain(kind, body)
    BY <1>2, PlainIsClean DEF Clean
  <1>3. CASE \E bodies : v \in Marked("bytes", bodies)
    BY <1>3, MarkedValues
  <1> QED
    BY <1>1, <1>2, <1>3 DEF Scanned

\* Whatever is sent is clean: the marks of bytes are taken out.
LEMMA SentIsClean ==
    ASSUME NEW v, IsValue(v), v.kind # "bytes" => Clean(v), NEW type
    PROVE  Clean(normalizeValueForCopy(v, type))
  BY DEF normalizeValueForCopy, SanitizePostgresText, Plain, Clean, IsValue, Kinds

\* What is stored is as clean as what was sent.
LEMMA StoredIsClean ==
    ASSUME NEW v, Clean(v), NEW type, NEW cfg, NEW w \in Encoded(v, type, cfg)
    PROVE  Clean(w)
  <1> USE DEF Kinds
  <1>1. CASE w = v
    BY <1>1
  <1>2. CASE \E kind \in Kinds : \E body : w = Plain(kind, body)
    BY <1>2, PlainIsClean
  <1>3. CASE \E kind \in Kinds : w = [v EXCEPT !.kind = kind]
    BY <1>3 DEF Clean, IsValue
  <1>4. CASE w = [v EXCEPT !.pad = TRUE]
    BY <1>4 DEF Clean, IsValue
  <1>5. CASE \E d \in DOMAIN Decoded : w = Decoded[d]
    BY <1>5, DecodedAssumption
  <1> QED
    BY <1>1, <1>2, <1>3, <1>4, <1>5 DEF Encoded, Parsed, TimeKind

\* What a client writes has marks only if it is bytes.
LEMMA WrittenIsDelivered ==
    ASSUME NEW type, NEW cfg, NEW v \in Editable(type, cfg) PROVE Delivered(v)
  <1> USE DEF Delivered
  <1>1. CASE \E kind \in Kinds : \E body : v = Plain(kind, body)
    BY <1>1, PlainIsClean DEF Clean
  <1>2. CASE v \in {u \in Marked("string", Words) : ~u.nul /\ ~u.bad}
    BY <1>2, MarkedValues DEF Clean, Kinds
  <1>3. CASE v \in Marked("bytes", Words)
    BY <1>3, MarkedValues DEF Kinds
  <1>4. CASE \E d \in DOMAIN Decoded : v = Decoded[d]
    BY <1>4, DecodedAssumption DEF Clean
  <1> QED
    BY <1>1, <1>2, <1>3, <1>4 DEF Editable, Kinds, TimeKind

LEMMA InitValues == Init => ValuesInv
  <1> SUFFICES ASSUME Init PROVE ValuesInv
    OBVIOUS
  <1>1. Delivered(source)
    BY ScannedValues DEF Init
  <1> QED
    BY <1>1, NilIsClean DEF Init, ValuesInv, Delivered, Clean

LEMMA StepValues == ValuesInv /\ [Next]_vars => ValuesInv'
  <1> SUFFICES ASSUME ValuesInv, [Next]_vars PROVE ValuesInv'
    OBVIOUS
  <1>1. CASE ReadRow
    BY <1>1, SentIsClean DEF ReadRow, ValuesInv, Delivered
  <1>2. CASE CopyFrom
    BY <1>2, StoredIsClean DEF CopyFrom, ValuesInv, Delivered, Clean
  <1>3. CASE Edit
    <2>1. target' \in Editable(plan.type, config) \cup {Nil}
      BY <1>3 DEF Edit
    <2>2. Delivered(target')
      BY <2>1, WrittenIsDelivered, NilIsClean DEF Delivered, Clean
    <2> QED
      BY <1>3, <2>2 DEF Edit, ValuesInv, Delivered, Clean
  <1>4. CASE UNCHANGED <<source, sent, target, edited>>
    BY <1>4 DEF ValuesInv, Delivered, Clean
  <1>5. CreatePlan \/ CopyRefused \/ Validate => UNCHANGED <<source, sent, target, edited>>
    BY DEF CreatePlan, CopyRefused, Validate
  <1> QED
    BY <1>1, <1>2, <1>3, <1>4, <1>5 DEF Next, vars

-----------------------------------------------------------------------------
\* A value with marks passes for none but the same bytes.
LEMMA SameIsUnmarked ==
    ASSUME NEW p, Delivered(p.src), Delivered(p.tgt), SameRaw(p), AnySanitized(p)
    PROVE  SameNormal(p)
  <1>1. p.src.body = p.tgt.body /\ p.src.nul = p.tgt.nul /\ p.src.bad = p.tgt.bad
    BY DEF SameRaw, rawChecksumValue, Delivered, IsValue
  <1>2. p.src.kind = "bytes" /\ p.tgt.kind = "bytes"
    BY <1>1 DEF AnySanitized, Sanitized, Delivered, Clean
  <1> QED
    BY <1>1, <1>2 DEF SameNormal, normalizeChecksumValue, Unsupported

\* What a look says about its pair.
LEMMA LookTells ==
    ASSUME NEW p, Delivered(p.src), Delivered(p.tgt)
    PROVE  /\ SameRaw(p) <=> Look(p) \in Same
           /\ AnyUnsupported(p) <=> Look(p) \in Incomparable
           /\ ~AnyUnsupported(p) =>
                 (~SameNormal(p) <=> Look(p) \in {"null", "altered", "different"})
           /\ ~AnyUnsupported(p) /\ SameNormal(p) =>
                 (AnySanitized(p) <=> Look(p) \in {"sanitized", "marked"})
           /\ Classification(p) = "real_mismatch" <=> Look(p) \in {"null", "mixed", "different"}
  <1>1. SameRaw(p) /\ AnySanitized(p) => SameNormal(p)
    BY SameIsUnmarked
  <1> QED
    BY <1>1, Zenon DEF Look, Same, Incomparable, Classification

\* For a sample of any size, the status and the drilldown follow from the looks of its
\* rows (validator.go:402, drilldown.go:39): Validator, which has nothing but looks,
\* stands for the values of whatever types.
THEOREM SamplesFollowLooks ==
    ASSUME NEW rows, NEW pairs, \A i \in rows : Delivered(pairs[i].src) /\ Delivered(pairs[i].tgt),
           NEW looks, \A i \in rows : looks[i] = Look(pairs[i])
    PROVE  /\ sampleStatus({pairs[i] : i \in rows}) = Checksum(rows, rows, looks)
           /\ (\E i \in rows : Classification(pairs[i]) = "real_mismatch")
                 <=> HasRealMismatch(rows, rows, looks)
  <1> DEFINE seen == {looks[k] : k \in rows \cup rows}
  <1>1. /\ seen \subseteq Same <=> \A i \in rows : looks[i] \in Same
        /\ seen \cap Incomparable # {} <=> \E i \in rows : looks[i] \in Incomparable
        /\ seen \cap {"null", "altered", "different"} # {}
              <=> \E i \in rows : looks[i] \in {"null", "altered", "different"}
        /\ seen \cap {"sanitized", "marked"} # {}
              <=> \E i \in rows : looks[i] \in {"sanitized", "marked"}
    OBVIOUS
  <1>2. Checksum(rows, rows, looks) =
          IF seen \subseteq Same THEN "passed"
          ELSE IF seen \cap Incomparable # {} THEN "unsupported_comparison"
          ELSE IF seen \cap {"null", "altered", "different"} # {} THEN "real_mismatch"
          ELSE IF seen \cap {"sanitized", "marked"} # {} THEN "sanitized_equivalent"
          ELSE "normalized_equivalent"
    BY Zenon DEF Checksum
  <1>3. sampleStatus({pairs[i] : i \in rows}) =
          IF \A i \in rows : SameRaw(pairs[i]) THEN "passed"
          ELSE IF \E i \in rows : AnyUnsupported(pairs[i]) THEN "unsupported_comparison"
          ELSE IF \A i \in rows : SameNormal(pairs[i])
          THEN IF \E i \in rows : AnySanitized(pairs[i])
               THEN "sanitized_equivalent" ELSE "normalized_equivalent"
          ELSE "real_mismatch"
    <2> DEFINE sample == {pairs[i] : i \in rows}
    <2>1. /\ (\A p \in sample : SameRaw(p)) <=> \A i \in rows : SameRaw(pairs[i])
          /\ (\E p \in sample : AnyUnsupported(p)) <=> \E i \in rows : AnyUnsupported(pairs[i])
          /\ (\A p \in sample : SameNormal(p)) <=> \A i \in rows : SameNormal(pairs[i])
          /\ (\E p \in sample : AnySanitized(p)) <=> \E i \in rows : AnySanitized(pairs[i])
      OBVIOUS
    <2> HIDE DEF sample
    <2>2. sampleStatus(sample) =
            IF \A i \in rows : SameRaw(pairs[i]) THEN "passed"
            ELSE IF \E i \in rows : AnyUnsupported(pairs[i]) THEN "unsupported_comparison"
            ELSE IF \A i \in rows : SameNormal(pairs[i])
            THEN IF \E i \in rows : AnySanitized(pairs[i])
                 THEN "sanitized_equivalent" ELSE "normalized_equivalent"
            ELSE "real_mismatch"
      BY <2>1 DEF sampleStatus
    <2> QED
      BY <2>2 DEF sample
  <1>4. \A i \in rows :
           /\ SameRaw(pairs[i]) <=> looks[i] \in Same
           /\ AnyUnsupported(pairs[i]) <=> looks[i] \in Incomparable
           /\ ~AnyUnsupported(pairs[i]) =>
                 (~SameNormal(pairs[i]) <=> looks[i] \in {"null", "altered", "different"})
           /\ ~AnyUnsupported(pairs[i]) /\ SameNormal(pairs[i]) =>
                 (AnySanitized(pairs[i]) <=> looks[i] \in {"sanitized", "marked"})
           /\ Classification(pairs[i]) = "real_mismatch" <=> looks[i] \in {"null", "mixed", "different"}
    BY LookTells
  <1> HIDE DEF seen
  <1>5. sampleStatus({pairs[i] : i \in rows}) = Checksum(rows, rows, looks)
    BY <1>1, <1>2, <1>3, <1>4
  <1>6. (\E i \in rows : Classification(pairs[i]) = "real_mismatch")
           <=> HasRealMismatch(rows, rows, looks)
    BY <1>4, Zenon DEF HasRealMismatch
  <1> QED
    BY <1>5, <1>6

\* Whatever the column, the value and what became of it: the abstraction Validator
\* makes of the two copies of a row loses nothing that the statuses depend on.
THEOREM LooksAreEnough == Spec => []LooksSuffice
  <1>1. Init => ValuesInv
    BY InitValues
  <1>2. ValuesInv /\ [Next]_vars => ValuesInv'
    BY StepValues
  <1>3. ValuesInv => LooksSuffice
    <2> SUFFICES ASSUME ValuesInv PROVE LooksSuffice
      OBVIOUS
    <2>1. Delivered(Pair.src) /\ Delivered(Pair.tgt)
      BY DEF ValuesInv, Pair
    <2> DEFINE pairs == <<Pair, OtherPair>>
               looks == [i \in 1 .. 2 |-> Look(pairs[i])]
    <2>2. \A i \in 1 .. 2 : /\ Delivered(pairs[i].src) /\ Delivered(pairs[i].tgt)
                             /\ looks[i] = Look(pairs[i])
      BY <2>1, PairAssumption
    <2>3. {pairs[i] : i \in 1 .. 2} = {Pair, OtherPair}
      OBVIOUS
    <2> HIDE DEF pairs, looks
    <2>4. /\ sampleStatus({pairs[i] : i \in 1 .. 2}) = Checksum(1 .. 2, 1 .. 2, looks)
          /\ (\E i \in 1 .. 2 : Classification(pairs[i]) = "real_mismatch")
                <=> HasRealMismatch(1 .. 2, 1 .. 2, looks)
      BY <2>2, SamplesFollowLooks
    <2> QED
      BY <2>3, <2>4, Zenon DEF LooksSuffice, pairs, looks
  <1> QED
    BY <1>1, <1>2, <1>3, PTL DEF Spec

-----------------------------------------------------------------------------
(* What sanitizing changed.                                                *)

IsMarked(v) == v.kind = "bytes" /\ (v.nul \/ v.bad)
Textual == {"char", "varchar", "text", "bytea", "geometry"}
UnmarkedTypes ==
    Integers64 \cup {"float", "double", "decimal", "year", "json", "date", "datetime",
                     "timestamp", "time", "enum", "set"}

\* A value with marks keeps its text, and nothing else is recorded.
MarkedInv ==
    /\ recorded # {} => IsMarked(source)
    /\ pc # "plan" /\ IsMarked(source) => plan.type \in Textual
    /\ pc \notin {"plan", "read"} /\ IsMarked(source) =>
          sent.kind = "string" /\ sent.body = source.body
    /\ pc \in {"copied", "validated"} /\ ~edited /\ IsMarked(source) =>
          target.kind \in {"string", "bytes"} /\ target.body = source.body
    /\ pc = "validated" => verdict = sampleStatus({Pair})

\* Only columns of texts and bytes deliver marks.
LEMMA MarkedColumns ==
    ASSUME NEW c, NEW parseTime, NEW v \in Scanned(c, parseTime), IsMarked(v)
    PROVE  c.DataType \notin UnmarkedTypes
  <1>1. \A kind, body : ~IsMarked(Plain(kind, body))
    BY DEF IsMarked, Plain
  <1> SUFFICES ASSUME c.DataType \in UnmarkedTypes PROVE \E kind, body : v = Plain(kind, body)
    BY <1>1
  <1>2. CASE v = Nil
    BY <1>2 DEF Nil
  <1>3. CASE c.DataType \in Integers64 /\ v # Nil
    BY <1>3 DEF Scanned, Integers64, SpatialTypes
  <1>4. CASE c.DataType \notin Integers64 /\ v # Nil
    BY <1>4 DEF Scanned, UnmarkedTypes, Integers64, SpatialTypes
  <1> QED
    BY <1>2, <1>3, <1>4

LEMMA MarkedTypes ==
    ASSUME NEW c, c.DataType \notin UnmarkedTypes, NEW cfg
    PROVE  MapType(c, cfg).type \in Textual
  BY DEF MapType, UnmarkedTypes, Textual, Integers64, Typed, SpatialTypes, BinaryTypes, TextTypes

LEMMA MarkedSent ==
    ASSUME NEW v, IsValue(v), IsMarked(v), NEW type
    PROVE  LET s == normalizeValueForCopy(v, type) IN s.kind = "string" /\ s.body = v.body
  BY DEF normalizeValueForCopy, SanitizePostgresText, IsMarked, IsValue

LEMMA MarkedStored ==
    ASSUME NEW v, Clean(v), v.kind = "string", NEW type \in Textual, NEW cfg,
           NEW w \in Encoded(v, type, cfg)
    PROVE  w.kind \in {"string", "bytes"} /\ w.body = v.body
  <1>1. w = v \/ w = [v EXCEPT !.kind = "bytes"] \/ w = [v EXCEPT !.pad = TRUE]
    BY DEF Encoded, Parsed, Textual
  <1> QED
    BY <1>1 DEF Clean, IsValue

LEMMA InitMarked == Init => MarkedInv
  BY DEF Init, MarkedInv

\* Where the marks of a column are: known from the start.
SourceInv == source \in Scanned(column, config.parseTime)

LEMMA StepMarked ==
    ValuesInv /\ SourceInv /\ MarkedInv /\ [Next]_vars => MarkedInv'
  <1> SUFFICES ASSUME ValuesInv, SourceInv, MarkedInv, [Next]_vars PROVE MarkedInv'
    OBVIOUS
  <1>1. CASE CreatePlan
    <2>1. IsMarked(source) => plan'.type \in Textual
      BY <1>1, MarkedColumns, MarkedTypes DEF CreatePlan, SourceInv
    <2> QED
      BY <1>1, <2>1 DEF CreatePlan, MarkedInv, IsMarked, Pair
  <1>2. CASE ReadRow
    <2>1. IsMarked(source) => sent'.kind = "string" /\ sent'.body = source.body
      BY <1>2, MarkedSent DEF ReadRow, ValuesInv, Delivered
    <2>2. recorded' # {} => IsMarked(source)
      BY <1>2 DEF ReadRow, Reasons, IsMarked
    <2> QED
      BY <1>2, <2>1, <2>2 DEF ReadRow, MarkedInv, IsMarked, Pair
  <1>3. CASE CopyFrom
    <2>1. IsMarked(source) => target'.kind \in {"string", "bytes"} /\ target'.body = source.body
      BY <1>3, MarkedStored DEF CopyFrom, MarkedInv, ValuesInv
    <2> QED
      BY <1>3, <2>1 DEF CopyFrom, MarkedInv, IsMarked, Pair
  <1>4. CASE CopyRefused
    BY <1>4 DEF CopyRefused, MarkedInv, IsMarked, Pair
  <1>5. CASE Edit
    BY <1>5 DEF Edit, MarkedInv, IsMarked, Pair
  <1>6. CASE Validate
    <2>1. Pair' = Pair
      BY <1>6 DEF Validate, Pair
    <2> QED
      BY <1>6, <2>1 DEF Validate, MarkedInv, IsMarked
  <1>7. CASE UNCHANGED vars
    BY <1>7 DEF vars, MarkedInv, IsMarked, Pair
  <1> QED
    BY <1>1, <1>2, <1>3, <1>4, <1>5, <1>6, <1>7 DEF Next

LEMMA StepSource == SourceInv /\ [Next]_vars => SourceInv'
  BY DEF SourceInv, Next, vars, CreatePlan, ReadRow, CopyFrom, CopyRefused, Edit, Validate

\* A text with marks and its text without them are flagged when they are compared.
LEMMA MarkedShows ==
    ASSUME NEW p, IsValue(p.src), IsMarked(p.src), Clean(p.tgt),
           p.tgt.kind \in {"string", "bytes"}, p.tgt.body = p.src.body
    PROVE  ~SameRaw(p) /\ (AnyUnsupported(p) \/ (SameNormal(p) /\ AnySanitized(p)))
  <1>1. ~SameRaw(p)
    BY DEF SameRaw, rawChecksumValue, IsMarked, Clean, IsValue
  <1>2. CASE p.src.bad
    BY <1>1, <1>2 DEF AnyUnsupported, Unsupported, IsMarked
  <1>3. CASE ~p.src.bad
    <2>1. ~Unsupported(p.src) /\ ~Unsupported(p.tgt)
      BY <1>3 DEF Unsupported, IsMarked, Clean
    <2>2. SameNormal(p)
      BY <2>1 DEF SameNormal, normalizeChecksumValue, IsMarked
    <2>3. AnySanitized(p)
      BY <1>3, <2>1 DEF AnySanitized, Sanitized, IsMarked
    <2> QED
      BY <1>1, <2>2, <2>3
  <1> QED
    BY <1>2, <1>3

\* Whatever the column: a validation that runs over what the migration wrote reports
\* each value that it recorded as sanitized.
THEOREM SanitizingIsReported == Spec => []SanitizedIsSeen
  <1>1. Init => ValuesInv /\ SourceInv /\ MarkedInv
    BY InitValues, InitMarked DEF Init, SourceInv
  <1>2. ValuesInv /\ SourceInv /\ MarkedInv /\ [Next]_vars
          => (ValuesInv /\ SourceInv /\ MarkedInv)'
    BY StepValues, StepSource, StepMarked
  <1>3. ValuesInv /\ MarkedInv => SanitizedIsSeen
    <2> SUFFICES ASSUME ValuesInv, MarkedInv, pc = "validated", ~edited, recorded # {}
                 PROVE  verdict \in {"sanitized_equivalent", "unsupported_comparison"}
      BY DEF SanitizedIsSeen
    <2>1. IsValue(Pair.src) /\ IsMarked(Pair.src) /\ Clean(Pair.tgt)
      BY DEF ValuesInv, MarkedInv, Pair, Delivered
    <2>2. Pair.tgt.kind \in {"string", "bytes"} /\ Pair.tgt.body = Pair.src.body
      BY DEF MarkedInv, Pair
    <2> QED
      BY <2>1, <2>2, MarkedShows DEF MarkedInv, sampleStatus
  <1> QED
    BY <1>1, <1>2, <1>3, PTL DEF Spec

-----------------------------------------------------------------------------
(* From the column to what can be read back, type by type.                 *)

Dates == {"date", "datetime", "timestamp"}
Narrow == Integers64 \cup {"float", "double", "decimal", "year", "json", "time", "enum", "set"}
            \cup Dates
Told == {"boolean", "smallint", "integer", "bigint", "numeric(20,0)", "numeric"}

LEMMA IntegersScanned ==
    ASSUME NEW c, c.DataType \in Integers64, NEW pt, NEW v \in Scanned(c, pt), v # Nil
    PROVE  \E i \in Ints :
              /\ v = Plain("int", i)
              /\ IF c.unsigned THEN i \notin Negative /\ Bits[i] <= Width(c.DataType)
                 ELSE Bits[i] < Width(c.DataType)
  BY DEF Scanned, Integers64, SpatialTypes

LEMMA NumbersScanned ==
    ASSUME NEW c, NEW pt, NEW v \in Scanned(c, pt), v # Nil
    PROVE  /\ c.DataType \in {"float", "double"} => \E n \in Numbers : v = Plain("float", n)
           /\ c.DataType = "decimal" => \E n \in Numbers : v = Plain("bytes", n)
           /\ c.DataType = "year" => \E y \in Years : v = Plain("int", y)
  BY DEF Scanned, Integers64, SpatialTypes

LEMMA TextsScanned ==
    ASSUME NEW c, NEW pt, NEW v \in Scanned(c, pt), v # Nil
    PROVE  /\ c.DataType = "json" => \E d \in Documents : v = Plain("bytes", d)
           /\ c.DataType = "time" => \E t \in Clocks : v = Plain("bytes", t)
  BY DEF Scanned, Integers64, SpatialTypes

LEMMA ListsScanned ==
    ASSUME NEW c, NEW pt, NEW v \in Scanned(c, pt), c.DataType \in {"enum", "set"}, v # Nil
    PROVE  \E m \in c.members \cup {""} : v = Plain("bytes", m)
  BY DEF Scanned, Integers64, SpatialTypes

LEMMA DatesScanned ==
    ASSUME NEW c, c.DataType \in Dates, NEW pt, NEW v \in Scanned(c, pt), v # Nil
    PROVE  \/ \E i : v = Plain("time", i)
           \/ \E s \in Stamps \cup {ZeroStamp} : v = Plain("bytes", s)
  BY DEF Scanned, Integers64, Dates, SpatialTypes

LEMMA OthersScanned ==
    ASSUME NEW c, c.DataType \notin Narrow, NEW pt, NEW v \in Scanned(c, pt), v # Nil
    PROVE  v.kind = "bytes"
  <1>1. \E bodies : v \in Marked("bytes", bodies)
    BY DEF Scanned, Narrow, Dates, Integers64
  <1> QED
    BY <1>1, MarkedValues DEF Kinds

LEMMA PlainSent ==
    ASSUME NEW type, NEW body
    PROVE  /\ normalizeValueForCopy(Nil, type) = Nil
           /\ normalizeValueForCopy(Plain("bytes", body), type) = Plain("string", body)
           /\ normalizeValueForCopy(Plain("float", body), type) = Plain("float", body)
           /\ normalizeValueForCopy(Plain("time", body), type) = Plain("time", body)
           /\ normalizeValueForCopy(Plain("int", body), type) =
                 IF type = "boolean" THEN Plain("bool", IF body = "0" THEN "false" ELSE "true")
                 ELSE Plain("int", body)
  BY DEF normalizeValueForCopy, SanitizePostgresText, Plain, Nil

LEMMA PlainIs ==
    ASSUME NEW kind, NEW body
    PROVE  Plain(kind, body).kind = kind /\ Plain(kind, body).body = body
  BY DEF Plain

LEMMA KindOnly ==
    ASSUME NEW kind, NEW body, NEW nul, NEW bad, NEW pad, NEW other
    PROVE  [[kind |-> kind, body |-> body, nul |-> nul, bad |-> bad, pad |-> pad]
              EXCEPT !.kind = other]
            = [kind |-> other, body |-> body, nul |-> nul, bad |-> bad, pad |-> pad]
  OBVIOUS

LEMMA PlainAs ==
    ASSUME NEW kind, NEW body, NEW other
    PROVE  [Plain(kind, body) EXCEPT !.kind = other] = Plain(other, body)
  <1> DEFINE no == FALSE
  <1>1. Plain(kind, body) = [kind |-> kind, body |-> body, nul |-> no, bad |-> no, pad |-> no]
    BY DEF Plain
  <1>2. Plain(other, body) = [kind |-> other, body |-> body, nul |-> no, bad |-> no, pad |-> no]
    BY DEF Plain
  <1> HIDE DEF no
  <1> QED
    BY <1>1, <1>2, KindOnly

\* What COPY stores of a value, by its kind.
LEMMA TextStored ==
    ASSUME NEW v, v.kind = "string", NEW type, NEW cfg
    PROVE  Encoded(v, type, cfg) = Parsed(v, type, cfg)
  BY DEF Encoded

LEMMA IntegerStored ==
    ASSUME NEW v, v.kind = "int", NEW type, NEW cfg
    PROVE  Encoded(v, type, cfg) =
              IF Bits[v.body] <= Capacity(type)
              THEN {Plain(IF type = "numeric(20,0)" THEN "numeric" ELSE "int", v.body)}
              ELSE {}
  BY DEF Encoded

LEMMA TimeStored ==
    ASSUME NEW v, v.kind = "time", NEW type, NEW cfg
    PROVE  Encoded(v, type, cfg) = {[v EXCEPT !.kind = TimeKind(type, cfg)]}
  BY DEF Encoded

LEMMA PlainStored ==
    ASSUME NEW body, NEW type, NEW cfg
    PROVE  /\ Encoded(Plain("bool", body), type, cfg) = {Plain("bool", body)}
           /\ Encoded(Plain("int", body), type, cfg) =
                 IF Bits[body] <= Capacity(type)
                 THEN {Plain(IF type = "numeric(20,0)" THEN "numeric" ELSE "int", body)}
                 ELSE {}
  <1> DEFINE b == Plain("bool", body)
             i == Plain("int", body)
  <1>1. b.kind = "bool" /\ i.kind = "int" /\ i.body = body
    BY PlainIs
  <1> HIDE DEF b, i
  <1>2. Encoded(b, type, cfg) = {b}
    BY <1>1 DEF Encoded
  <1>3. Encoded(i, type, cfg) =
           IF Bits[body] <= Capacity(type)
           THEN {Plain(IF type = "numeric(20,0)" THEN "numeric" ELSE "int", body)}
           ELSE {}
    BY <1>1, IntegerStored
  <1> QED
    BY <1>2, <1>3 DEF b, i

LEMMA SameStored ==
    ASSUME NEW v, v.kind \in {"nil", "bool", "float"}, NEW type, NEW cfg
    PROVE  Encoded(v, type, cfg) = {v}
  BY DEF Encoded

-----------------------------------------------------------------------------
(* What COPY refuses.                                                      *)

Refused(s, m, c, cfg) ==
    \/ ~Satisfies(s, m.check, c.members)
    \/ Encoded(s, m.type, cfg) = {}
    \/ MayFail(s, m.type)

\* Nothing that has neither a check nor a type with gaps is refused.
LEMMA TakenAsItIs ==
    ASSUME NEW s, NEW m, NEW c, NEW cfg,
           \/ s.kind = "nil"
           \/ m.check = "none" /\ s.kind \in {"bool", "float", "time"}
           \/ m.check = "none" /\ s.kind = "string" /\ m.type \in {"numeric", "char", "varchar", "text"}
    PROVE  ~Refused(s, m, c, cfg)
  <1>1. Satisfies(s, m.check, c.members)
    BY DEF Satisfies
  <1>2. Encoded(s, m.type, cfg) # {}
    <2>1. CASE s.kind = "string" /\ m.type \in {"numeric", "char", "varchar", "text"}
      <3>1. Parsed(s, m.type, cfg) # {}
        BY <2>1 DEF Parsed
      <3> QED
        BY <2>1, <3>1, TextStored
    <2>2. CASE s.kind \in {"nil", "bool", "float"}
      BY <2>2, SameStored
    <2>3. CASE s.kind = "time"
      BY <2>3 DEF Encoded
    <2> QED
      BY <2>1, <2>2, <2>3
  <1>3. ~MayFail(s, m.type)
    BY DEF MayFail
  <1> QED
    BY <1>1, <1>2, <1>3 DEF Refused

LEMMA IntegersMapped ==
    ASSUME NEW c, NEW cfg
    PROVE  LET m == MapType(c, cfg)
               Narrowed(small, wide) ==
                  IF c.unsigned THEN m.type = wide /\ m.check = "nonnegative"
                  ELSE m.type = small /\ m.check = "none"
           IN  /\ c.DataType = "tinyint" =>
                      (m.type = "boolean" /\ m.check = "none") \/ Narrowed("smallint", "smallint")
               /\ c.DataType \in {"smallint", "mediumint"} => Narrowed("smallint", "integer")
               /\ c.DataType = "int" => Narrowed("integer", "bigint")
               /\ c.DataType = "bigint" => Narrowed("bigint", "numeric(20,0)")
  BY DEF MapType, Signed, Typed, SpatialTypes, TextTypes, BinaryTypes

LEMMA OthersMapped ==
    ASSUME NEW c, NEW cfg
    PROVE  LET m == MapType(c, cfg)
           IN  /\ c.DataType \notin Integers64 \cup {"enum", "year"} => m.check = "none"
               /\ c.DataType \in {"float", "double"} => m.type \in {"real", "double precision"}
               /\ c.DataType = "decimal" => m.type = "numeric"
               /\ c.DataType = "json" => m.type = "jsonb"
               /\ c.DataType = "time" => m.type = "time without time zone"
               /\ c.DataType = "year" => m.type = "smallint" /\ m.check = "year"
               /\ c.DataType \in Dates =>
                     m.type \in {"date", "timestamp without time zone", "timestamp with time zone"}
               /\ c.DataType = "enum" =>
                     m.type = "text" /\ m.check = IF cfg.enum_as_domain THEN "members" ELSE "none"
               /\ c.DataType = "set" => m.type = IF cfg.set_as_array THEN "text[]" ELSE "text"
               /\ c.DataType \in BinaryTypes => m.type = "bytea"
               /\ c.DataType \in SpatialTypes => m.type \in {"bytea", "geometry"}
               /\ c.DataType \notin Narrow \cup BinaryTypes \cup SpatialTypes =>
                     m.type \in {"char", "varchar", "text"}
  BY DEF MapType, Typed, SpatialTypes, TextTypes, BinaryTypes, Dates, Narrow, Integers64

LEMMA IntegersFit ==
    ASSUME NEW c, c.DataType \in Integers64, NEW cfg, NEW i \in Ints,
           IF c.unsigned THEN i \notin Negative /\ Bits[i] <= Width(c.DataType)
           ELSE Bits[i] < Width(c.DataType),
           NEW m, m = MapType(c, cfg), m.type # "boolean",
           Refused(Plain("int", i), m, c, cfg)
    PROVE  c.DataType = "mediumint" /\ ~c.unsigned /\ Bits[i] > 15
  <1>1. IF c.unsigned THEN m.check = "nonnegative" ELSE m.check = "none"
    BY IntegersMapped DEF Integers64
  <1> DEFINE v == Plain("int", i)
  <1>0. v.kind = "int" /\ v.body = i
    BY PlainIs
  <1> HIDE DEF v
  <1>2. Satisfies(v, m.check, c.members)
    BY <1>0, <1>1 DEF Satisfies
  <1>3. ~MayFail(v, m.type)
    BY <1>0 DEF MayFail
  <1>4. Bits[i] \in Nat
    BY BitsAssumption
  <1>5. ~(Bits[i] <= Capacity(m.type))
    <2>1. Encoded(v, m.type, cfg) = {}
      BY <1>2, <1>3 DEF Refused, v
    <2> QED
      BY <1>0, <2>1, IntegerStored
  <1>6. IF c.unsigned THEN Bits[i] <= Width(c.DataType) ELSE Bits[i] < Width(c.DataType)
    OBVIOUS
  <1>7. CASE c.DataType = "tinyint"
    <2>1. Capacity(m.type) = 15 /\ Width(c.DataType) = 8
      BY <1>7, IntegersMapped DEF Capacity, Width
    <2> QED
      BY <1>4, <1>5, <1>6, <2>1
  <1>8. CASE c.DataType = "smallint"
    <2>1. Capacity(m.type) = (IF c.unsigned THEN 31 ELSE 15) /\ Width(c.DataType) = 16
      BY <1>8, IntegersMapped DEF Capacity, Width
    <2> QED
      BY <1>4, <1>5, <1>6, <2>1
  <1>9. CASE c.DataType = "mediumint"
    <2>1. Capacity(m.type) = (IF c.unsigned THEN 31 ELSE 15) /\ Width(c.DataType) = 24
      BY <1>9, IntegersMapped DEF Capacity, Width
    <2> QED
      BY <1>4, <1>5, <1>6, <1>9, <2>1
  <1>10. CASE c.DataType = "int"
    <2>1. Capacity(m.type) = (IF c.unsigned THEN 63 ELSE 31) /\ Width(c.DataType) = 32
      BY <1>10, IntegersMapped DEF Capacity, Width
    <2> QED
      BY <1>4, <1>5, <1>6, <2>1
  <1>11. CASE c.DataType = "bigint"
    <2>1. Capacity(m.type) = (IF c.unsigned THEN 66 ELSE 63) /\ Width(c.DataType) = 64
      BY <1>11, IntegersMapped DEF Capacity, Width
    <2> QED
      BY <1>4, <1>5, <1>6, <2>1
  <1> QED
    BY <1>7, <1>8, <1>9, <1>10, <1>11 DEF Integers64

LEMMA TextsSent ==
    ASSUME NEW v, IsValue(v), v.kind = "bytes", NEW type
    PROVE  LET s == normalizeValueForCopy(v, type) IN
           s.kind = "string" /\ s.body = v.body /\ s.pad = v.pad
  BY DEF normalizeValueForCopy, SanitizePostgresText, IsValue

LEMMA DatesFit ==
    ASSUME NEW c, c.DataType \in Dates, NEW cfg, NEW m, m = MapType(c, cfg),
           NEW s, s.kind = "string", s.body \in Stamps, Refused(s, m, c, cfg)
    PROVE  m.type = "timestamp with time zone"
  <1>1. /\ m.type \in {"date", "timestamp without time zone", "timestamp with time zone"}
        /\ m.check = "none"
    BY OthersMapped DEF Dates, Integers64
  <1>2. s.body \in DOMAIN TimeForm
    BY StampsAssumption
  <1>3. Parsed(s, m.type, cfg) # {}
    BY <1>1, <1>2 DEF Parsed
  <1>4. Encoded(s, m.type, cfg) # {}
    BY <1>3, TextStored
  <1>5. MayFail(s, m.type)
    BY <1>1, <1>4 DEF Refused, Satisfies
  <1> QED
    BY <1>1, <1>5 DEF MayFail

LEMMA DocumentsAndClocksFit ==
    ASSUME NEW c, c.DataType \in {"json", "time"}, NEW cfg, NEW m, m = MapType(c, cfg),
           NEW s, s.kind = "string", Refused(s, m, c, cfg)
    PROVE  IF c.DataType = "json" THEN s.body \notin DOMAIN Decoded
           ELSE s.body \notin DOMAIN Printed
  <1>1. /\ m.type = IF c.DataType = "json" THEN "jsonb" ELSE "time without time zone"
        /\ m.check = "none"
    BY OthersMapped DEF Integers64
  <1>2. Encoded(s, m.type, cfg) = {}
    BY <1>1 DEF Refused, Satisfies, MayFail
  <1>3. Parsed(s, m.type, cfg) = {}
    BY <1>2, TextStored
  <1> QED
    BY <1>1, <1>3 DEF Parsed

LEMMA ListsFit ==
    ASSUME NEW c, NEW cfg, NEW m, NEW s, m = MapType(c, cfg), s.kind = "string",
           s.body \in c.members \cup {""}, c.DataType \in {"enum", "set"}, Refused(s, m, c, cfg)
    PROVE  \/ c.DataType = "enum" /\ cfg.enum_as_domain
                /\ (s.body = "" \/ LowerCase[s.body] # s.body)
           \/ c.DataType = "set" /\ cfg.set_as_array
  <1>1. CASE c.DataType = "set" /\ ~cfg.set_as_array
    <2>1. m.type = "text" /\ m.check = "none"
      BY <1>1, OthersMapped DEF Integers64
    <2> QED
      BY <2>1, TakenAsItIs
  <1>2. CASE c.DataType = "enum" /\ ~cfg.enum_as_domain
    <2>1. m.type = "text" /\ m.check = "none"
      BY <1>2, OthersMapped
    <2> QED
      BY <2>1, TakenAsItIs
  <1>3. CASE c.DataType = "enum" /\ cfg.enum_as_domain
    <2>1. m.type = "text" /\ m.check = "members"
      BY <1>3, OthersMapped
    <2>2. Parsed(s, m.type, cfg) # {}
      BY <2>1 DEF Parsed
    <2>3. Encoded(s, m.type, cfg) # {}
      BY <2>2, TextStored
    <2>4. ~Satisfies(s, m.check, c.members)
      BY <2>1, <2>3 DEF Refused, MayFail
    <2>5. \A b \in c.members : s.body # LowerCase[b]
      BY <2>1, <2>4 DEF Satisfies
    <2> QED
      BY <1>3, <2>5
  <1> QED
    BY <1>1, <1>2, <1>3

LEMMA YearsFit ==
    ASSUME NEW c, c.DataType = "year", NEW cfg, NEW m, m = MapType(c, cfg),
           NEW s, s.kind = "int", s.body \in Years, Refused(s, m, c, cfg)
    PROVE  s.body = "0"
  <1>1. m.type = "smallint" /\ m.check = "year"
    BY OthersMapped
  <1>2. Bits[s.body] <= Capacity(m.type)
    BY <1>1, BitsAssumption DEF Capacity
  <1>3. Encoded(s, m.type, cfg) # {}
    BY <1>2, IntegerStored
  <1> QED
    BY <1>1, <1>3 DEF Refused, MayFail, Satisfies

LEMMA RefusalsExplained ==
    ASSUME NEW c, NEW cfg, NEW v \in Scanned(c, cfg.parseTime), NEW m, m = MapType(c, cfg),
           NEW s, s = normalizeValueForCopy(v, m.type), Refused(s, m, c, cfg)
    PROVE  \/ c.DataType = "mediumint" /\ ~c.unsigned /\ Bits[v.body] > 15
           \/ c.DataType = "year" /\ v.body = "0"
           \/ c.DataType \in {"date", "datetime", "timestamp"} /\ v.kind = "bytes"
                 /\ (v.body = ZeroStamp \/ m.type = "timestamp with time zone")
           \/ c.DataType = "enum" /\ cfg.enum_as_domain
                 /\ (v.body = "" \/ LowerCase[v.body] # v.body)
           \/ c.DataType = "set" /\ cfg.set_as_array
           \/ c.DataType = "time" /\ v.body \notin DOMAIN Printed
           \/ c.DataType = "json" /\ v.body \notin DOMAIN Decoded
           \/ c.DataType \in BinaryTypes \cup SpatialTypes
  <1>1. v # Nil
    <2>1. v = Nil => s.kind = "nil"
      BY PlainSent, PlainIs DEF Nil
    <2> QED
      BY <2>1, TakenAsItIs
  <1>2. v.kind = "bytes" => s.kind = "string" /\ s.body = v.body
    BY ScannedValues, TextsSent DEF Delivered
  <1>3. CASE c.DataType \in Integers64
    <2>1. PICK i \in Ints :
             /\ v = Plain("int", i)
             /\ IF c.unsigned THEN i \notin Negative /\ Bits[i] <= Width(c.DataType)
                ELSE Bits[i] < Width(c.DataType)
      BY <1>1, <1>3, IntegersScanned
    <2>2. CASE m.type = "boolean"
      <3>1. m.check = "none"
        BY <1>3, <2>2, IntegersMapped DEF Integers64
      <3>2. s.kind = "bool"
        BY <2>1, <2>2, PlainSent, PlainIs
      <3> QED
        BY <3>1, <3>2, TakenAsItIs
    <2>3. CASE m.type # "boolean"
      <3>1. s = Plain("int", i)
        BY <2>1, <2>3, PlainSent
      <3>2. c.DataType = "mediumint" /\ ~c.unsigned /\ Bits[i] > 15
        BY <1>3, <2>1, <2>3, <3>1, IntegersFit
      <3> QED
        BY <2>1, <3>2, PlainIs
    <2> QED
      BY <2>2, <2>3
  <1>4. CASE c.DataType \in {"float", "double", "decimal"}
    <2>1. m.check = "none" /\ (c.DataType = "decimal" => m.type = "numeric")
      BY <1>4, OthersMapped DEF Integers64
    <2>2. IF c.DataType = "decimal" THEN s.kind = "string" ELSE s.kind = "float"
      BY <1>1, <1>4, NumbersScanned, PlainSent, PlainIs
    <2> QED
      BY <1>4, <2>1, <2>2, TakenAsItIs
  <1>5. CASE c.DataType = "year"
    <2>1. PICK y \in Years : v = Plain("int", y)
      BY <1>1, <1>5, NumbersScanned
    <2>2. s = Plain("int", y)
      BY <1>5, <2>1, OthersMapped, PlainSent
    <2> QED
      BY <1>5, <2>1, <2>2, PlainIs, YearsFit
  <1>6. CASE c.DataType \in Dates
    <2>1. CASE \E i : v = Plain("time", i)
      <3>1. s.kind = "time"
        BY <2>1, PlainSent, PlainIs
      <3>2. m.check = "none"
        BY <1>6, OthersMapped DEF Dates, Integers64
      <3> QED
        BY <3>1, <3>2, TakenAsItIs
    <2>2. CASE \E b \in Stamps \cup {ZeroStamp} : v = Plain("bytes", b)
      <3>1. v.kind = "bytes" /\ v.body \in Stamps \cup {ZeroStamp}
        BY <2>2, PlainIs
      <3>2. v.body \in Stamps => m.type = "timestamp with time zone"
        BY <1>2, <1>6, <3>1, DatesFit
      <3> QED
        BY <1>6, <3>1, <3>2 DEF Dates
    <2> QED
      BY <1>1, <1>6, <2>1, <2>2, DatesScanned
  <1>7. CASE c.DataType \in {"json", "time"}
    <2>1. \E b : v = Plain("bytes", b)
      BY <1>1, <1>7, TextsScanned
    <2>2. s.kind = "string" /\ s.body = v.body
      BY <1>2, <2>1, PlainIs
    <2>3. IF c.DataType = "json" THEN s.body \notin DOMAIN Decoded
          ELSE s.body \notin DOMAIN Printed
      BY <1>7, <2>2, DocumentsAndClocksFit
    <2> QED
      BY <1>7, <2>2, <2>3
  <1>8. CASE c.DataType \in {"enum", "set"}
    <2>1. PICK b \in c.members \cup {""} : v = Plain("bytes", b)
      BY <1>1, <1>8, ListsScanned
    <2>2. v.kind = "bytes" /\ v.body = b
      BY <2>1, PlainIs
    <2>3. s.kind = "string" /\ s.body = v.body /\ s.body \in c.members \cup {""}
      BY <1>2, <2>1, <2>2
    <2>4. \/ c.DataType = "enum" /\ cfg.enum_as_domain
                /\ (s.body = "" \/ LowerCase[s.body] # s.body)
          \/ c.DataType = "set" /\ cfg.set_as_array
      BY <1>8, <2>3, ListsFit
    <2> QED
      BY <2>3, <2>4
  <1>9. CASE c.DataType \notin Narrow \cup BinaryTypes \cup SpatialTypes
    <2>1. s.kind = "string"
      BY <1>1, <1>2, <1>9, OthersScanned
    <2>2. m.type \in {"char", "varchar", "text"} /\ m.check = "none"
      BY <1>9, OthersMapped DEF Narrow
    <2> QED
      BY <2>1, <2>2, TakenAsItIs
  <1> QED
    BY <1>3, <1>4, <1>5, <1>6, <1>7, <1>8, <1>9 DEF Narrow

-----------------------------------------------------------------------------
(* The course of a value.                                                  *)

\* Every step leaves what it made for the next ones.
CourseInv ==
    /\ pc # "plan" => plan = MapType(column, config)
    /\ pc \notin {"plan", "read"} =>
          /\ sent = normalizeValueForCopy(source, plan.type)
          /\ recorded = IF source.kind = "bytes" THEN Reasons(source) ELSE {}
    /\ pc = "refused" => Refused(sent, plan, column, config)
    /\ edited => pc \in {"copied", "validated"}
    /\ pc \in {"copied", "validated"} =>
          LET stored == Encoded(sent, plan.type, config)
          IN  /\ stored # {}
              /\ ~edited => target \in stored
              /\ edited => /\ target \in Editable(plan.type, config) \cup {Nil}
                           /\ \A w \in stored : ~Equal(target, w)

LEMMA InitCourse == Init => CourseInv
  BY DEF Init, CourseInv

LEMMA StepCourse == CourseInv /\ [Next]_vars => CourseInv'
  <1> SUFFICES ASSUME CourseInv, [Next]_vars PROVE CourseInv'
    OBVIOUS
  <1>1. CASE CreatePlan
    BY <1>1 DEF CreatePlan, CourseInv
  <1>2. CASE ReadRow
    BY <1>2 DEF ReadRow, CourseInv
  <1>3. CASE CopyFrom
    BY <1>3 DEF CopyFrom, CourseInv
  <1>4. CASE CopyRefused
    BY <1>4 DEF CopyRefused, CourseInv, Refused
  <1>5. CASE Edit
    BY <1>5 DEF Edit, CourseInv
  <1>6. CASE Validate
    BY <1>6 DEF Validate, CourseInv
  <1>7. CASE UNCHANGED vars
    BY <1>7 DEF vars, CourseInv, Refused, Satisfies, MayFail
  <1> QED
    BY <1>1, <1>2, <1>3, <1>4, <1>5, <1>6, <1>7 DEF Next

\* What the theorems below rest on.
ColumnInv == ValuesInv /\ SourceInv /\ MarkedInv /\ CourseInv

THEOREM ColumnInvariant == Spec => []ColumnInv
  <1>1. Init => ColumnInv
    BY InitValues, InitMarked, InitCourse DEF Init, SourceInv, ColumnInv
  <1>2. ColumnInv /\ [Next]_vars => ColumnInv'
    BY StepValues, StepSource, StepMarked, StepCourse DEF ColumnInv
  <1> QED
    BY <1>1, <1>2, PTL DEF Spec

\* A migration stops at a value only for the reasons that are known, whatever the
\* column, its values and the configuration.
THEOREM RefusalsAreListed == Spec => []RefusalsAreKnown
  <1>1. ColumnInv => RefusalsAreKnown
    BY RefusalsExplained DEF ColumnInv, SourceInv, CourseInv, RefusalsAreKnown
  <1> QED
    BY <1>1, ColumnInvariant, PTL

\* The types, and with them that every sample gets a status.
THEOREM ColumnsTypeCorrect == Spec => []TypeOK
  <1>1. Init => TypeOK
    <2> SUFFICES ASSUME Init PROVE TypeOK
      OBVIOUS
    <2>1. IsValue(source) /\ IsValue(Nil)
      BY InitValues, NilIsClean DEF ValuesInv, Clean, Delivered
    <2> QED
      BY <2>1 DEF Init, TypeOK
  <1>2. TypeOK /\ ValuesInv' /\ [Next]_vars => TypeOK'
    <2> SUFFICES ASSUME TypeOK, ValuesInv', [Next]_vars PROVE TypeOK'
      OBVIOUS
    <2>1. IsValue(source)' /\ IsValue(sent)' /\ IsValue(target)'
      BY DEF ValuesInv, Clean, Delivered
    <2>2. sampleStatus({Pair}) \in ChecksumStatuses
      BY DEF sampleStatus, ChecksumStatuses
    <2>3. Reasons(source) \subseteq {"nul_bytes", "invalid_utf8"}
      BY DEF Reasons
    <2> HIDE DEF ChecksumStatuses
    <2>4. /\ (column \in MySQLColumns /\ config \in Configs)'
          /\ (recorded \subseteq {"nul_bytes", "invalid_utf8"} /\ edited \in BOOLEAN)'
          /\ (IF pc = "validated" THEN verdict \in ChecksumStatuses ELSE verdict = "none")'
          /\ (pc \in {"plan", "read", "copy", "copied", "refused", "validated"})'
      BY <2>2, <2>3 DEF TypeOK, Next, vars, CreatePlan, ReadRow, CopyFrom, CopyRefused, Edit,
                        Validate
    <2> QED
      BY <2>1, <2>4 DEF TypeOK
  <1>3. ColumnInv => ValuesInv
    BY DEF ColumnInv
  <1> QED
    BY <1>1, <1>2, <1>3, ColumnInvariant, PTL DEF Spec

-----------------------------------------------------------------------------
(* What the validation makes of a value.                                   *)

\* Only NULL is normalized to NULL.
LEMMA NullIsNull ==
    ASSUME NEW v, NEW w, v.kind \in Kinds \ {"nil"}, w.kind = "nil"
    PROVE  normalizeChecksumValue(v) # normalizeChecksumValue(w)
  <1>1. normalizeString(v.body)[1] # "NULL"
    BY DEF normalizeString
  <1>2. normalizeChecksumValue(v)[1] # "NULL"
    BY <1>1 DEF normalizeChecksumValue
  <1>3. normalizeChecksumValue(w)[1] = "NULL"
    BY DEF normalizeChecksumValue, Unsupported
  <1> QED
    BY <1>2, <1>3

\* A number read from a text is normalized as it is from a numeric.
LEMMA NumberTexts ==
    ASSUME NEW n \in Numbers
    PROVE  normalizeString(n) = <<"scalar", Decimal[n]>>
  BY NumbersAssumption DEF normalizeString

LEMMA StampTexts ==
    ASSUME NEW b \in DOMAIN TimeForm
    PROVE  normalizeString(b) = <<"time", TimeForm[b]>>
  BY StampsAssumption DEF normalizeString

\* A pair that differs, once normalized or not; and one that does not pass for equal.
Differs(p) == ~SameRaw(p) /\ (AnyUnsupported(p) \/ ~SameNormal(p))
Shows(p) == Differs(p) \/ (~SameRaw(p) /\ AnySanitized(p))

\* One such pair is enough, in a sample of any size.
LEMMA OneIsEnough ==
    ASSUME NEW sample, NEW p \in sample
    PROVE  /\ Differs(p) => sampleStatus(sample) \in {"real_mismatch", "unsupported_comparison"}
           /\ Shows(p) => sampleStatus(sample) \notin {"passed", "normalized_equivalent"}
  BY DEF sampleStatus, Differs, Shows

\* The types of columns that are compared as texts, and those of instants.
Loose == {"char", "varchar", "text", "bytea", "geometry", "jsonb"}
Instants == {"date", "timestamp without time zone", "timestamp with time zone"}

LEMMA EditableTypes ==
    ASSUME NEW type, type \notin Loose, NEW cfg, NEW t \in Editable(type, cfg)
    PROVE  \/ type = "boolean" /\ \E b \in {"true", "false"} : t = Plain("bool", b)
           \/ type \in {"smallint", "integer", "bigint"} /\ \E i \in Ints : t = Plain("int", i)
           \/ type \in {"numeric(20,0)", "numeric"} /\ \E n : t = Plain("numeric", n)
           \/ type \in {"real", "double precision"}
                 /\ \E n \in Numbers \cup {"NaN"} : t = Plain("float", n)
           \/ type \in Instants /\ \E i : t = Plain(TimeKind(type, cfg), i)
           \/ type = "time without time zone"
                 /\ \E u \in DOMAIN Printed : t = Plain("other", Printed[u])
           \/ type = "text[]" /\ t = Plain("other", "[]")
  BY DEF Editable, Loose, Instants

\* A value that is not NULL does not look like one, in columns that do not hold texts.
LEMMA NotTheWordNull ==
    ASSUME NEW c, NEW pt, NEW v \in Scanned(c, pt), v # Nil,
           c.DataType \in Narrow \ {"enum", "set", "json"}
    PROVE  v.kind \in Kinds \ {"nil"} /\ rawChecksumValue(v) # rawChecksumValue(Nil)
  <1>1. rawChecksumValue(Nil).body = "NULL" /\ rawChecksumValue(Nil).kind = "string"
    BY DEF rawChecksumValue, Nil, Plain
  <1>2. CASE \E i \in Ints \cup Years : v = Plain("int", i)
    <2>1. v.kind = "int" /\ rawChecksumValue(v).body \in Ints \cup Years
      BY <1>2 DEF rawChecksumValue, Plain
    <2> QED
      BY <1>1, <2>1, NamesAssumption DEF Kinds, Years
  <1>3. CASE \E n \in Numbers : v = Plain("float", n)
    <2>1. v.kind = "float" /\ rawChecksumValue(v).body \in Numbers
      BY <1>3 DEF rawChecksumValue, Plain
    <2> QED
      BY <1>1, <2>1, NamesAssumption DEF Kinds
  <1>4. CASE \E i : v = Plain("time", i)
    <2>1. v.kind = "time" /\ rawChecksumValue(v).kind = "time"
      BY <1>4 DEF rawChecksumValue, Plain
    <2> QED
      BY <1>1, <2>1 DEF Kinds
  <1>5. CASE \E b \in Numbers \cup Clocks \cup Stamps \cup {ZeroStamp} : v = Plain("bytes", b)
    <2>1. PICK b \in Numbers \cup Clocks \cup Stamps \cup {ZeroStamp} : v = Plain("bytes", b)
      BY <1>5
    <2>2. v.kind = "bytes" /\ rawChecksumValue(v).body = b
      BY <2>1 DEF rawChecksumValue, Plain
    <2>3. b # "NULL"
      BY <2>1, NamesAssumption
    <2> QED
      BY <1>1, <2>2, <2>3 DEF Kinds
  <1>6. c.DataType \in Integers64 \cup {"year"} => \E i \in Ints \cup Years : v = Plain("int", i)
    BY IntegersScanned, NumbersScanned
  <1>7. c.DataType \in {"float", "double"} => \E n \in Numbers : v = Plain("float", n)
    BY NumbersScanned
  <1>8. c.DataType \in {"decimal", "time"} => \E b \in Numbers \cup Clocks : v = Plain("bytes", b)
    BY NumbersScanned, TextsScanned
  <1>9. c.DataType \in Dates => \/ \E i : v = Plain("time", i)
                               \/ \E b \in Stamps \cup {ZeroStamp} : v = Plain("bytes", b)
    BY DatesScanned
  <1> QED
    BY <1>2, <1>3, <1>4, <1>5, <1>6, <1>7, <1>8, <1>9 DEF Narrow

-----------------------------------------------------------------------------
(* Edits of the target.                                                    *)

\* An integer and a boolean look alike only if they mean the same.
LEMMA IntegerAgainstBoolean ==
    ASSUME NEW i \in Ints, NEW b \in {"true", "false"},
           NEW p, p = [src |-> Plain("int", i), tgt |-> Plain("bool", b)]
    PROVE  /\ ~SameRaw(p) /\ ~AnyUnsupported(p)
           /\ SameNormal(p) <=> i = BoolForm(b)
  <1>1. p.src.kind = "int" /\ p.src.body = i /\ p.tgt.kind = "bool" /\ p.tgt.body = b
    BY PlainIs
  <1>2. rawChecksumValue(p.src).body = i /\ rawChecksumValue(p.tgt).body = b
    BY DEF rawChecksumValue, Plain
  <1>3. i # b
    BY NamesAssumption
  <1>4. ~AnyUnsupported(p)
    BY <1>1 DEF AnyUnsupported, Unsupported
  <1>5. normalizeChecksumValue(p.src) = <<"scalar", i>>
    BY <1>1 DEF normalizeChecksumValue, Unsupported
  <1>6. normalizeChecksumValue(p.tgt) = <<"scalar", BoolForm(b)>>
    BY <1>1 DEF normalizeChecksumValue, Unsupported
  <1> QED
    BY <1>2, <1>3, <1>4, <1>5, <1>6 DEF SameRaw, SameNormal

LEMMA IntegerAgainstInteger ==
    ASSUME NEW i, NEW j, i # j, NEW p, p = [src |-> Plain("int", i), tgt |-> Plain("int", j)]
    PROVE  ~SameRaw(p) /\ ~SameNormal(p)
  <1>1. p.src.kind = "int" /\ p.src.body = i /\ p.tgt.kind = "int" /\ p.tgt.body = j
    BY PlainIs
  <1>2. rawChecksumValue(p.src).body = i /\ rawChecksumValue(p.tgt).body = j
    BY DEF rawChecksumValue, Plain
  <1>3. normalizeChecksumValue(p.src) = <<"scalar", i>>
    BY <1>1 DEF normalizeChecksumValue, Unsupported
  <1>4. normalizeChecksumValue(p.tgt) = <<"scalar", j>>
    BY <1>1 DEF normalizeChecksumValue, Unsupported
  <1> QED
    BY <1>2, <1>3, <1>4 DEF SameRaw, SameNormal

\* A number in an integer's or a decimal's text against a numeric.
LEMMA NumberAgainstNumeric ==
    ASSUME NEW v, NEW n, \/ n \in Ints /\ v = Plain("int", n)
                         \/ n \in Numbers /\ v = Plain("bytes", n),
           NEW x, NEW p, p = [src |-> v, tgt |-> Plain("numeric", x)]
    PROVE  /\ ~SameRaw(p)
           /\ ~AnyUnsupported(p) => (SameNormal(p) <=> Decimal[n] = Decimal[x])
  <1>1. p.src.kind \in {"int", "bytes"} /\ p.src.body = n
    BY PlainIs
  <1>2. p.tgt.kind = "numeric" /\ p.tgt.body = x
    BY PlainIs
  <1>3. rawChecksumValue(p.src).kind = "string" /\ rawChecksumValue(p.tgt).kind = "numeric"
    BY DEF rawChecksumValue, Plain
  <1>4. ~AnyUnsupported(p) => normalizeChecksumValue(p.tgt) = <<"scalar", Decimal[x]>>
    BY <1>2 DEF AnyUnsupported, normalizeChecksumValue
  <1>5. ~AnyUnsupported(p) => normalizeChecksumValue(p.src) = <<"scalar", Decimal[n]>>
    <2>1. CASE n \in Ints /\ v = Plain("int", n)
      <3>1. p.src.kind = "int"
        BY <2>1, PlainIs
      <3>2. normalizeChecksumValue(p.src) = <<"scalar", n>>
        BY <1>1, <3>1 DEF normalizeChecksumValue, Unsupported
      <3> QED
        BY <2>1, <3>2, NumbersAssumption
    <2>2. CASE n \in Numbers /\ v = Plain("bytes", n)
      <3>1. p.src.kind = "bytes"
        BY <2>2, PlainIs
      <3>2. ~AnyUnsupported(p) => normalizeChecksumValue(p.src) = normalizeString(n)
        BY <1>1, <3>1 DEF AnyUnsupported, normalizeChecksumValue
      <3> QED
        BY <2>2, <3>2, NumberTexts
    <2> QED
      BY <2>1, <2>2
  <1> QED
    BY <1>3, <1>4, <1>5 DEF SameRaw, SameNormal

\* NULL written over a value, or a value over NULL.
LEMMA NullEdits ==
    ASSUME NEW v, v.kind \in Kinds \ {"nil"}, rawChecksumValue(v) # rawChecksumValue(Nil),
           NEW p, \/ p = [src |-> v, tgt |-> Nil]
                  \/ p = [src |-> Nil, tgt |-> v]
    PROVE  Differs(p)
  <1>1. Nil.kind = "nil"
    BY PlainIs DEF Nil
  <1>2. normalizeChecksumValue(v) # normalizeChecksumValue(Nil)
    BY <1>1, NullIsNull
  <1> QED
    BY <1>2 DEF Differs, SameRaw, SameNormal

LEMMA EditableIsNotNull ==
    ASSUME NEW type, type \notin Loose, NEW cfg, NEW t \in Editable(type, cfg)
    PROVE  t.kind \in Kinds \ {"nil"} /\ rawChecksumValue(t) # rawChecksumValue(Nil)
  <1>1. rawChecksumValue(Nil).body = "NULL" /\ rawChecksumValue(Nil).kind = "string"
    BY DEF rawChecksumValue, Nil, Plain
  <1>2. CASE \E k \in {"bool", "int", "float", "other"} : \E b : b # "NULL" /\ t = Plain(k, b)
    <2>1. t.kind \in {"bool", "int", "float", "other"} /\ rawChecksumValue(t).body # "NULL"
      BY <1>2 DEF rawChecksumValue, Plain
    <2> QED
      BY <1>1, <2>1 DEF Kinds
  <1>3. CASE \E k \in {"numeric", "time", "local"} : \E b : t = Plain(k, b)
    <2>1. t.kind \in {"numeric", "time", "local"} /\ rawChecksumValue(t).kind = t.kind
      BY <1>3 DEF rawChecksumValue, Plain
    <2> QED
      BY <1>1, <2>1 DEF Kinds
  <1>4. "NULL" \notin Ints \cup Numbers \cup {"NaN"} /\ \A u \in DOMAIN Printed : Printed[u] # "NULL"
    BY NamesAssumption, ClocksAssumption
  <1>5. TimeKind(type, cfg) \in {"time", "local"}
    BY DEF TimeKind
  <1> QED
    BY <1>2, <1>3, <1>4, <1>5, EditableTypes

\* An integer over an integer, as its column stores it.
LEMMA IntegerEdits ==
    ASSUME NEW type \in Told, NEW cfg, NEW i \in Ints \cup Years, NEW v, v = Plain("int", i),
           type \in {"boolean", "numeric(20,0)"} => i \in Ints, type # "numeric",
           NEW s, s = normalizeValueForCopy(v, type), Encoded(s, type, cfg) # {},
           NEW t \in Editable(type, cfg), \A w \in Encoded(s, type, cfg) : ~Equal(t, w),
           NEW p, p = [src |-> v, tgt |-> t]
    PROVE  Differs(p)
  <1>1. CASE type = "boolean"
    <2>1. PICK b \in {"true", "false"} : t = Plain("bool", b)
      BY <1>1, EditableTypes DEF Loose, Instants
    <2> DEFINE sense == IF i = "0" THEN "false" ELSE "true"
    <2>2. s = Plain("bool", sense)
      BY <1>1, PlainSent
    <2>3. \A b1 : Encoded(Plain("bool", b1), type, cfg) = {Plain("bool", b1)}
      BY PlainStored
    <2>4. t # s
      BY <2>2, <2>3, Zenon DEF Equal
    <2>5. b # sense
      BY <2>1, <2>2, <2>4
    <2>6. i # BoolForm(b)
      BY <2>5 DEF BoolForm
    <2> QED
      BY <1>1, <2>1, <2>6, IntegerAgainstBoolean DEF Differs
  <1>2. CASE type # "boolean"
    <2>1. s = Plain("int", i)
      BY <1>2, PlainSent
    <2> DEFINE kind == IF type = "numeric(20,0)" THEN "numeric" ELSE "int"
    <2>2. Encoded(s, type, cfg) = {Plain(kind, i)}
      BY <2>1, PlainStored
    <2>3. ~Equal(t, Plain(kind, i))
      BY <2>2
    <2>4. CASE type = "numeric(20,0)"
      <3>1. PICK n : t = Plain("numeric", n)
        BY <2>4, EditableTypes DEF Loose, Instants
      <3>2. /\ t.kind = "numeric" /\ t.body = n
            /\ Plain("numeric", i).kind = "numeric" /\ Plain("numeric", i).body = i
        BY <3>1, PlainIs, Zenon
      <3>3. n = "NaN" \/ Decimal[n] # Decimal[i]
        BY <2>3, <2>4, <3>2 DEF Equal
      <3>4. n = "NaN" => AnyUnsupported(p)
        BY <3>2 DEF AnyUnsupported, Unsupported
      <3>5. ~SameRaw(p) /\ (~AnyUnsupported(p) => (SameNormal(p) <=> Decimal[i] = Decimal[n]))
        <4>1. i \in Ints /\ p = [src |-> v, tgt |-> Plain("numeric", n)]
          BY <2>4, <3>1
        <4> QED
          BY <4>1, NumberAgainstNumeric, Zenon
      <3> QED
        BY <3>3, <3>4, <3>5 DEF Differs
    <2>5. CASE type # "numeric(20,0)"
      <3>1. PICK j \in Ints : t = Plain("int", j)
        BY <1>2, <2>5, EditableTypes DEF Told, Loose, Instants
      <3>2. i # j
        BY <2>3, <2>5, <3>1 DEF Equal
      <3> QED
        BY <3>1, <3>2, IntegerAgainstInteger DEF Differs
    <2> QED
      BY <2>4, <2>5
  <1> QED
    BY <1>1, <1>2

LEMMA DecimalEdits ==
    ASSUME NEW cfg, NEW n \in Numbers, NEW v, v = Plain("bytes", n),
           NEW t \in Editable("numeric", cfg),
           \A w \in Encoded(Plain("string", n), "numeric", cfg) : ~Equal(t, w),
           NEW p, p = [src |-> v, tgt |-> t]
    PROVE  Differs(p)
  <1>1. PICK x : t = Plain("numeric", x)
    BY EditableTypes DEF Loose, Instants
  <1>2. Plain("string", n).kind = "string" /\ Plain("string", n).body = n
    BY PlainIs
  <1>3. Encoded(Plain("string", n), "numeric", cfg) = {Plain("numeric", n)}
    <2>1. Encoded(Plain("string", n), "numeric", cfg) = Parsed(Plain("string", n), "numeric", cfg)
      BY <1>2, TextStored
    <2>2. Parsed(Plain("string", n), "numeric", cfg) = {Plain("numeric", Plain("string", n).body)}
      BY DEF Parsed
    <2> QED
      BY <1>2, <2>1, <2>2
  <1>4. ~Equal(t, Plain("numeric", n))
    BY <1>3
  <1>5. /\ t.kind = "numeric" /\ t.body = x
        /\ Plain("numeric", n).kind = "numeric" /\ Plain("numeric", n).body = n
    BY <1>1, PlainIs, Zenon
  <1>6. x = "NaN" \/ Decimal[x] # Decimal[n]
    BY <1>4, <1>5 DEF Equal
  <1>7. x = "NaN" => AnyUnsupported(p)
    BY <1>5 DEF AnyUnsupported, Unsupported
  <1>8. ~SameRaw(p) /\ (~AnyUnsupported(p) => (SameNormal(p) <=> Decimal[n] = Decimal[x]))
    BY <1>1, NumberAgainstNumeric
  <1> QED
    BY <1>6, <1>7, <1>8 DEF Differs

\* A floating-point number over another.
LEMMA FloatEdits ==
    ASSUME NEW n \in Numbers, NEW v, v = Plain("float", n), NEW x, NEW t, t = Plain("float", x),
           ~Equal(t, v), NEW p, p = [src |-> v, tgt |-> t]
    PROVE  Differs(p)
  <1>1. v.kind = "float" /\ v.body = n /\ t.kind = "float" /\ t.body = x
    BY PlainIs
  <1>2. x # n /\ (x = "NaN" \/ Decimal[x] # Decimal[n])
    BY <1>1 DEF Equal
  <1>3. ~SameRaw(p)
    <2>1. rawChecksumValue(v).body = n /\ rawChecksumValue(t).body = x
      BY DEF rawChecksumValue, Plain
    <2> QED
      BY <1>2, <2>1 DEF SameRaw
  <1>4. ~AnyUnsupported(p) => /\ normalizeChecksumValue(v) = <<"scalar", Decimal[n]>>
                              /\ normalizeChecksumValue(t) = <<"scalar", Decimal[x]>>
    BY <1>1 DEF AnyUnsupported, normalizeChecksumValue
  <1>5. x = "NaN" => AnyUnsupported(p)
    BY <1>1 DEF AnyUnsupported, Unsupported
  <1> QED
    BY <1>2, <1>3, <1>4, <1>5 DEF Differs, SameNormal

\* An instant over another, whether the driver delivers texts or instants.
LEMMA InstantEdits ==
    ASSUME NEW c, c.DataType \in Dates, NEW cfg, NEW v \in Scanned(c, cfg.parseTime), v # Nil,
           NEW type \in Instants,
           Encoded(normalizeValueForCopy(v, type), type, cfg) # {},
           NEW x, NEW t, t = Plain(TimeKind(type, cfg), x),
           \A w \in Encoded(normalizeValueForCopy(v, type), type, cfg) : ~Equal(t, w),
           NEW p, p = [src |-> v, tgt |-> t]
    PROVE  Differs(p)
  <1> DEFINE kind == TimeKind(type, cfg)
  <1>1. kind \in {"time", "local"}
    BY DEF TimeKind
  <1>2. t.kind = kind /\ t.body = x
    BY PlainIs
  <1>3. rawChecksumValue(t).kind = kind /\ rawChecksumValue(t).body = x
    BY <1>1 DEF rawChecksumValue, Plain
  <1>4. normalizeChecksumValue(t) = <<"time", x>>
    BY <1>1, <1>2 DEF normalizeChecksumValue, Unsupported
  <1>5. CASE \E i : v = Plain("time", i)
    <2>1. PICK i : v = Plain("time", i)
      BY <1>5
    <2>2. Encoded(Plain("time", i), type, cfg) = {Plain(kind, i)}
      <3>1. Plain("time", i).kind = "time"
        BY PlainIs
      <3>2. [Plain("time", i) EXCEPT !.kind = kind] = Plain(kind, i)
        BY PlainAs
      <3> QED
        BY <3>1, <3>2, TimeStored
    <2>3. ~Equal(t, Plain(kind, i))
      BY <2>1, <2>2, PlainSent
    <2> HIDE DEF kind
    <2>4. x # i
      BY <2>3 DEF Equal, kind
    <2>5. rawChecksumValue(v).body = i
      BY <2>1 DEF rawChecksumValue, Plain
    <2>6. normalizeChecksumValue(v) = <<"time", i>>
      <3>1. v.kind = "time" /\ v.body = i
        BY <2>1, PlainIs
      <3> QED
        BY <3>1 DEF normalizeChecksumValue, Unsupported
    <2> QED
      BY <1>3, <1>4, <2>4, <2>5, <2>6 DEF Differs, SameRaw, SameNormal
  <1>6. CASE \E b : v = Plain("bytes", b)
    <2>1. PICK b : v = Plain("bytes", b)
      BY <1>6
    <2> DEFINE s == Plain("string", b)
    <2>2. s.kind = "string" /\ s.body = b
      BY PlainIs
    <2>3. normalizeValueForCopy(v, type) = s
      BY <2>1, PlainSent
    <2> HIDE DEF s
    <2>4. Encoded(s, type, cfg) = Parsed(s, type, cfg)
      BY <2>2, TextStored
    <2>5. Parsed(s, type, cfg) = {Plain(kind, TimeForm[y]) : y \in {b} \cap DOMAIN TimeForm}
      BY <2>2 DEF Parsed, Instants
    <2>6. b \in DOMAIN TimeForm /\ ~Equal(t, Plain(kind, TimeForm[b]))
      BY <2>3, <2>4, <2>5
    <2> HIDE DEF kind
    <2>7. x # TimeForm[b]
      BY <2>6 DEF Equal, kind
    <2>8. v.kind = "bytes" /\ v.body = b /\ v.bad = FALSE
      BY <2>1 DEF Plain
    <2>9. normalizeChecksumValue(v) = <<"time", TimeForm[b]>>
      <3>1. normalizeChecksumValue(v) = normalizeString(b)
        BY <2>8 DEF normalizeChecksumValue, Unsupported
      <3> QED
        BY <2>6, <3>1, StampTexts
    <2>10. rawChecksumValue(v).kind = "string"
      BY <2>1 DEF rawChecksumValue, Plain
    <2> QED
      BY <1>1, <1>3, <1>4, <2>7, <2>9, <2>10 DEF Differs, SameRaw, SameNormal
  <1> QED
    BY <1>5, <1>6, DatesScanned

\* Whatever a time of day is compared with differs from it: pgx decodes it into a struct.
LEMMA ClockEdits ==
    ASSUME NEW b \in Clocks, NEW v, v = Plain("bytes", b),
           NEW u \in DOMAIN Printed, NEW t, t = Plain("other", Printed[u]),
           NEW p, p = [src |-> v, tgt |-> t]
    PROVE  Differs(p)
  <1>1. /\ v.kind = "bytes" /\ v.body = b /\ v.bad = FALSE
        /\ t.kind = "other" /\ t.body = Printed[u]
    BY DEF Plain
  <1>2. Printed[u] # b
    BY ClocksAssumption
  <1>3. rawChecksumValue(v).body = b /\ rawChecksumValue(t).body = Printed[u]
    BY DEF rawChecksumValue, Plain
  <1>4. normalizeChecksumValue(v) = normalizeString(b)
    BY <1>1 DEF normalizeChecksumValue, Unsupported
  <1>5. normalizeChecksumValue(t) = normalizeString(Printed[u])
    BY <1>1 DEF normalizeChecksumValue, Unsupported
  <1>6. normalizeString(b) = <<"string", b>> /\ normalizeString(Printed[u]) = <<"string", Printed[u]>>
    BY ClocksAssumption
  <1> QED
    BY <1>2, <1>3, <1>4, <1>5, <1>6 DEF Differs, SameRaw, SameNormal

\* The other types, or nothing but NULL in the column.
LEMMA TypedColumns ==
    ASSUME NEW c, NEW cfg, NEW v \in Scanned(c, cfg.parseTime), v # Nil,
           NEW m, m = MapType(c, cfg), m.type \notin Loose,
           Encoded(normalizeValueForCopy(v, m.type), m.type, cfg) # {}
    PROVE  c.DataType \in Narrow \ {"enum", "set", "json"}
  <1>1. c.DataType \notin {"enum", "json"} /\ c.DataType \in Narrow
        /\ (c.DataType = "set" => m.type = "text[]")
    BY OthersMapped DEF Loose
  <1>2. c.DataType # "set"
    <2> SUFFICES ASSUME c.DataType = "set" PROVE FALSE
      OBVIOUS
    <2> DEFINE s == normalizeValueForCopy(v, m.type)
    <2>1. \E b : v = Plain("bytes", b)
      BY ListsScanned
    <2>2. v.kind = "bytes" /\ IsValue(v)
      BY <2>1, PlainIs, ScannedValues DEF Delivered
    <2>3. s.kind = "string"
      BY <2>2, TextsSent
    <2> HIDE DEF s
    <2>4. Parsed(s, "text[]", cfg) = {}
      BY DEF Parsed
    <2> QED
      BY <1>1, <2>3, <2>4, TextStored DEF s
  <1> QED
    BY <1>1, <1>2

\* What a client writes over a copy makes it differ.
LEMMA EditsDiffer ==
    ASSUME NEW c, NEW cfg, NEW v \in Scanned(c, cfg.parseTime),
           NEW m, m = MapType(c, cfg), m.type \notin Loose,
           NEW s, s = normalizeValueForCopy(v, m.type), Encoded(s, m.type, cfg) # {},
           NEW t \in Editable(m.type, cfg) \cup {Nil},
           \A w \in Encoded(s, m.type, cfg) : ~Equal(t, w),
           NEW p, p = [src |-> v, tgt |-> t]
    PROVE  Differs(p)
  <1>1. CASE v = Nil
    <2>1. s = Nil
      BY <1>1, PlainSent
    <2>2. Nil.kind = "nil"
      BY PlainIs DEF Nil
    <2>3. Encoded(Nil, m.type, cfg) = {Nil}
      BY <2>2 DEF Encoded
    <2>4. t # Nil
      BY <2>1, <2>3, Zenon DEF Equal
    <2>5. t.kind \in Kinds \ {"nil"} /\ rawChecksumValue(t) # rawChecksumValue(Nil)
      BY <2>4, EditableIsNotNull
    <2> QED
      BY <1>1, <2>5, NullEdits
  <1>2. CASE v # Nil /\ t = Nil
    <2>1. c.DataType \in Narrow \ {"enum", "set", "json"}
      BY <1>2, TypedColumns
    <2>2. v.kind \in Kinds \ {"nil"} /\ rawChecksumValue(v) # rawChecksumValue(Nil)
      BY <1>2, <2>1, NotTheWordNull
    <2> QED
      BY <1>2, <2>2, NullEdits
  <1>3. CASE v # Nil /\ t # Nil
    <2>1. t \in Editable(m.type, cfg)
      BY <1>3
    <2>2. c.DataType \in Narrow \ {"enum", "set", "json"}
      BY <1>3, TypedColumns
    <2>3. CASE c.DataType \in Integers64
      <3>1. PICK i \in Ints : v = Plain("int", i)
        BY <1>3, <2>3, IntegersScanned
      <3>2. m.type \in Told /\ m.type # "numeric"
        BY <2>3, IntegersMapped DEF Integers64, Told
      <3> QED
        BY <2>1, <3>1, <3>2, IntegerEdits
    <2>4. CASE c.DataType = "year"
      <3>1. PICK y \in Years : v = Plain("int", y)
        BY <1>3, <2>4, NumbersScanned
      <3>2. m.type = "smallint"
        BY <2>4, OthersMapped
      <3> QED
        BY <2>1, <3>1, <3>2, IntegerEdits DEF Told
    <2>5. CASE c.DataType = "decimal"
      <3>1. PICK n \in Numbers : v = Plain("bytes", n)
        BY <1>3, <2>5, NumbersScanned
      <3>2. m.type = "numeric"
        BY <2>5, OthersMapped
      <3>3. s = Plain("string", n)
        BY <3>1, PlainSent
      <3> QED
        BY <2>1, <3>1, <3>2, <3>3, DecimalEdits
    <2>6. CASE c.DataType \in {"float", "double"}
      <3>1. PICK n \in Numbers : v = Plain("float", n)
        BY <1>3, <2>6, NumbersScanned
      <3>2. m.type \in {"real", "double precision"}
        BY <2>6, OthersMapped
      <3>3. PICK x : t = Plain("float", x)
        BY <2>1, <3>2, EditableTypes DEF Loose, Instants
      <3>4. s = v /\ v.kind = "float"
        BY <3>1, PlainSent, PlainIs
      <3>5. ~Equal(t, v)
        BY <3>4, SameStored
      <3> QED
        BY <3>1, <3>3, <3>5, FloatEdits
    <2>7. CASE c.DataType \in Dates
      <3>1. m.type \in Instants
        BY <2>7, OthersMapped DEF Instants
      <3>2. PICK x : t = Plain(TimeKind(m.type, cfg), x)
        BY <2>1, <3>1, EditableTypes DEF Loose, Instants
      <3> QED
        BY <1>3, <2>7, <3>1, <3>2, InstantEdits
    <2>8. CASE c.DataType = "time"
      <3>1. PICK b \in Clocks : v = Plain("bytes", b)
        BY <1>3, <2>8, TextsScanned
      <3>2. m.type = "time without time zone"
        BY <2>8, OthersMapped
      <3>3. PICK u \in DOMAIN Printed : t = Plain("other", Printed[u])
        BY <2>1, <3>2, EditableTypes DEF Loose, Instants
      <3> QED
        BY <3>1, <3>3, ClockEdits
    <2> QED
      BY <2>2, <2>3, <2>4, <2>5, <2>6, <2>7, <2>8 DEF Narrow
  <1> QED
    BY <1>1, <1>2, <1>3

-----------------------------------------------------------------------------
(* What the migration leaves as it is, and what it changes.                *)

\* Texts whose blanks or kind have changed are the same normalized.
LEMMA TextsAgree ==
    ASSUME NEW v, NEW t, NEW p, p = [src |-> v, tgt |-> t],
           v.kind = "bytes", ~v.bad, t.kind \in {"string", "bytes"}, ~t.bad, t.body = v.body
    PROVE  SameNormal(p)
  <1>1. ~Unsupported(v) /\ ~Unsupported(t)
    BY DEF Unsupported
  <1>2. normalizeChecksumValue(v) = normalizeString(v.body)
    BY <1>1 DEF normalizeChecksumValue
  <1>3. normalizeChecksumValue(t) = normalizeString(t.body)
    BY <1>1 DEF normalizeChecksumValue
  <1> QED
    BY <1>2, <1>3 DEF SameNormal

LEMMA IntegersAgree ==
    ASSUME NEW type, NEW cfg, NEW i \in Ints \cup Years, NEW v, v = Plain("int", i),
           type \in {"boolean", "numeric(20,0)"} => i \in Ints,
           NEW t \in Encoded(normalizeValueForCopy(v, type), type, cfg),
           type = "boolean" => i \in {"0", "1"}, NEW p, p = [src |-> v, tgt |-> t]
    PROVE  SameRaw(p) \/ AnyUnsupported(p) \/ SameNormal(p)
  <1>1. CASE type = "boolean"
    <2> DEFINE sense == IF i = "0" THEN "false" ELSE "true"
    <2>1. normalizeValueForCopy(v, type) = Plain("bool", sense)
      BY <1>1, PlainSent
    <2>2. \A b : Encoded(Plain("bool", b), type, cfg) = {Plain("bool", b)}
      BY PlainStored
    <2>3. i = BoolForm(sense) /\ sense \in {"true", "false"}
      BY <1>1 DEF BoolForm
    <2> HIDE DEF sense
    <2>4. t \in Encoded(Plain("bool", sense), type, cfg)
      BY <2>1
    <2>5. t = Plain("bool", sense)
      BY <2>2, <2>4
    <2> QED
      BY <1>1, <2>3, <2>5, IntegerAgainstBoolean
  <1>2. CASE type # "boolean"
    <2> DEFINE kind == IF type = "numeric(20,0)" THEN "numeric" ELSE "int"
    <2>1. normalizeValueForCopy(v, type) = Plain("int", i)
      BY <1>2, PlainSent
    <2>2. Encoded(Plain("int", i), type, cfg) \subseteq {Plain(kind, i)}
      BY PlainStored
    <2>3. t = Plain(kind, i)
      BY <2>1, <2>2
    <2>4. CASE type = "numeric(20,0)"
      BY <2>3, <2>4, NumberAgainstNumeric
    <2>5. CASE type # "numeric(20,0)"
      BY <2>3, <2>5 DEF SameRaw
    <2> QED
      BY <2>4, <2>5
  <1> QED
    BY <1>1, <1>2

LEMMA TimesAgree ==
    ASSUME NEW kind \in {"time", "local"}, NEW body, NEW v,
           \/ v = Plain("time", body)
           \/ \E b \in DOMAIN TimeForm : v = Plain("bytes", b) /\ body = TimeForm[b],
           NEW p, p = [src |-> v, tgt |-> Plain(kind, body)]
    PROVE  SameNormal(p)
  <1>1. p.tgt.kind = kind /\ p.tgt.body = body
    BY PlainIs
  <1>2. normalizeChecksumValue(p.tgt) = <<"time", body>>
    BY <1>1 DEF normalizeChecksumValue, Unsupported
  <1>3. normalizeChecksumValue(v) = <<"time", body>>
    <2>1. CASE v = Plain("time", body)
      <3>1. v.kind = "time" /\ v.body = body
        BY <2>1, PlainIs
      <3> QED
        BY <3>1 DEF normalizeChecksumValue, Unsupported
    <2>2. CASE \E b \in DOMAIN TimeForm : v = Plain("bytes", b) /\ body = TimeForm[b]
      <3>1. PICK b \in DOMAIN TimeForm : v = Plain("bytes", b) /\ body = TimeForm[b]
        BY <2>2
      <3>2. v.kind = "bytes" /\ v.body = b /\ v.bad = FALSE
        BY <3>1 DEF Plain
      <3>3. normalizeChecksumValue(v) = normalizeString(b)
        BY <3>2 DEF normalizeChecksumValue, Unsupported
      <3> QED
        BY <3>1, <3>3, StampTexts
    <2> QED
      BY <2>1, <2>2
  <1> QED
    BY <1>2, <1>3 DEF SameNormal

\* Dates arrive as instants, or as texts that the target's are compared with.
LEMMA DatesAgree ==
    ASSUME NEW c, c.DataType \in Dates, NEW cfg, NEW v \in Scanned(c, cfg.parseTime), v # Nil,
           NEW m, m = MapType(c, cfg),
           NEW t \in Encoded(normalizeValueForCopy(v, m.type), m.type, cfg),
           NEW p, p = [src |-> v, tgt |-> t]
    PROVE  SameNormal(p)
  <1>1. m.type \in {"date", "timestamp without time zone", "timestamp with time zone"}
    BY OthersMapped
  <1> DEFINE kind == TimeKind(m.type, cfg)
  <1>2. kind \in {"time", "local"}
    BY DEF TimeKind
  <1>3. CASE \E i : v = Plain("time", i)
    <2>1. PICK i : v = Plain("time", i)
      BY <1>3
    <2>2. Encoded(Plain("time", i), m.type, cfg) = {Plain(kind, i)}
      <3>1. Plain("time", i).kind = "time"
        BY PlainIs
      <3>2. [Plain("time", i) EXCEPT !.kind = kind] = Plain(kind, i)
        BY PlainAs
      <3> QED
        BY <3>1, <3>2, TimeStored
    <2>3. t = Plain(kind, i)
      BY <2>1, <2>2, PlainSent
    <2> HIDE DEF kind
    <2> QED
      BY <1>2, <2>1, <2>3, TimesAgree
  <1>4. CASE \E b : v = Plain("bytes", b)
    <2>1. PICK b : v = Plain("bytes", b)
      BY <1>4
    <2> DEFINE s == Plain("string", b)
    <2>2. s.kind = "string" /\ s.body = b
      BY PlainIs
    <2>3. t \in Encoded(s, m.type, cfg)
      BY <2>1, PlainSent
    <2> HIDE DEF s
    <2>4. t \in Parsed(s, m.type, cfg)
      BY <2>2, <2>3, TextStored
    <2> HIDE DEF kind
    <2>5. Parsed(s, m.type, cfg) = {Plain(kind, TimeForm[x]) : x \in {b} \cap DOMAIN TimeForm}
      BY <1>1, <2>2 DEF Parsed, kind
    <2>6. b \in DOMAIN TimeForm /\ t = Plain(kind, TimeForm[b])
      BY <2>4, <2>5
    <2> QED
      BY <1>2, <2>1, <2>6, TimesAgree
  <1> QED
    BY <1>3, <1>4, DatesScanned

\* Decimals are sent as texts and read back as numerics.
LEMMA DecimalsAgree ==
    ASSUME NEW n \in Numbers, NEW v, v = Plain("bytes", n), NEW cfg,
           NEW t \in Encoded(normalizeValueForCopy(v, "numeric"), "numeric", cfg),
           NEW p, p = [src |-> v, tgt |-> t]
    PROVE  AnyUnsupported(p) \/ SameNormal(p)
  <1> DEFINE s == Plain("string", n)
  <1>1. s.kind = "string" /\ s.body = n
    BY PlainIs
  <1>2. t \in Encoded(s, "numeric", cfg)
    BY PlainSent
  <1> HIDE DEF s
  <1>3. t \in Parsed(s, "numeric", cfg)
    BY <1>1, <1>2, TextStored
  <1>4. t = Plain("numeric", n)
    BY <1>1, <1>3 DEF Parsed
  <1> QED
    BY <1>4, NumberAgainstNumeric

\* A copy of a value that nothing was taken from compares as equal, unless pgx decodes
\* what MySQL keeps as text.
LEMMA CopiesAgree ==
    ASSUME NEW c, NEW cfg, NEW v \in Scanned(c, cfg.parseTime), ~IsMarked(v),
           NEW m, m = MapType(c, cfg),
           NEW s, s = normalizeValueForCopy(v, m.type),
           s.kind = "bool" => v.body \in {"0", "1"},
           NEW t \in Encoded(s, m.type, cfg), c.DataType \notin {"json", "time"},
           NEW p, p = [src |-> v, tgt |-> t]
    PROVE  SameRaw(p) \/ AnyUnsupported(p) \/ SameNormal(p)
  <1>1. CASE v = Nil
    <2>1. s = Nil /\ Nil.kind = "nil"
      BY <1>1, PlainSent, PlainIs DEF Nil
    <2>2. t = Nil
      BY <2>1, SameStored
    <2> QED
      BY <1>1, <2>2 DEF SameRaw
  <1>2. CASE v # Nil /\ c.DataType \in Integers64 \cup {"year"}
    <2>1. PICK i \in Ints \cup Years : v = Plain("int", i) /\ (c.DataType # "year" => i \in Ints)
      BY <1>2, IntegersScanned, NumbersScanned
    <2>2. m.type \in {"boolean", "numeric(20,0)"} => i \in Ints
      BY <2>1, OthersMapped
    <2>3. m.type = "boolean" => i \in {"0", "1"}
      <3> SUFFICES ASSUME m.type = "boolean" PROVE i \in {"0", "1"}
        OBVIOUS
      <3>1. s.kind = "bool"
        BY <2>1, PlainSent, PlainIs
      <3> QED
        BY <2>1, <3>1, PlainIs
    <2> QED
      BY <2>1, <2>2, <2>3, IntegersAgree
  <1>3. CASE v # Nil /\ c.DataType \in {"float", "double"}
    <2>1. PICK n \in Numbers : v = Plain("float", n)
      BY <1>3, NumbersScanned
    <2>2. s = v
      BY <2>1, PlainSent
    <2>3. v.kind = "float"
      BY <2>1, PlainIs
    <2>4. t = v
      BY <2>2, <2>3, SameStored
    <2> QED
      BY <2>4 DEF SameRaw
  <1>4. CASE v # Nil /\ c.DataType = "decimal"
    <2>1. PICK n \in Numbers : v = Plain("bytes", n)
      BY <1>4, NumbersScanned
    <2>2. m.type = "numeric"
      BY <1>4, OthersMapped
    <2> QED
      BY <2>1, <2>2, DecimalsAgree
  <1>5. CASE v # Nil /\ c.DataType \in Dates
    BY <1>5, DatesAgree
  <1>6. CASE v # Nil /\ c.DataType \notin Narrow \ {"enum", "set"}
    <2>1. IsValue(v) /\ v.kind = "bytes"
      <3>1. CASE c.DataType \in {"enum", "set"}
        <4>1. \E b : v = Plain("bytes", b)
          BY <1>6, <3>1, ListsScanned
        <4> QED
          BY <4>1, ScannedValues, PlainIs DEF Delivered
      <3>2. CASE c.DataType \notin {"enum", "set"}
        BY <1>6, <3>2, ScannedValues, OthersScanned DEF Delivered
      <3> QED
        BY <3>1, <3>2
    <2>2. s.kind = "string" /\ s.body = v.body /\ Clean(s)
      BY <2>1, TextsSent, SentIsClean
    <2>3. m.type \in Textual
      <3>1. c.DataType = "enum" => m.type = "text"
        BY OthersMapped
      <3>2. c.DataType = "set" => m.type \in {"text[]", "text"}
        BY OthersMapped
      <3>3. Parsed(s, "text[]", cfg) = {}
        BY DEF Parsed
      <3>4. m.type # "text[]"
        BY <2>2, <3>3, TextStored
      <3>5. c.DataType \notin {"enum", "set"} => m.type \in Textual
        BY <1>6, OthersMapped DEF Textual
      <3> QED
        BY <3>1, <3>2, <3>4, <3>5 DEF Textual
    <2>4. t.kind \in {"string", "bytes"} /\ t.body = v.body /\ Clean(t)
      BY <2>2, <2>3, MarkedStored, StoredIsClean
    <2>5. SameNormal(p)
      BY <2>1, <2>4, TextsAgree DEF IsMarked, Clean
    <2> QED
      BY <2>5
  <1> QED
    BY <1>1, <1>2, <1>3, <1>4, <1>5, <1>6 DEF Narrow

\* What is copied as it is, is never reported as a mismatch.
THEOREM IntactCopiesAgree == Spec => []IntactAgrees
  <1>1. ColumnInv => IntactAgrees
    <2> SUFFICES ASSUME ColumnInv, pc = "validated", Lossless,
                        column.DataType \notin {"json", "time"}
                 PROVE  verdict # "real_mismatch"
      BY DEF IntactAgrees
    <2>1. /\ source \in Scanned(column, config.parseTime) /\ plan = MapType(column, config)
          /\ sent = normalizeValueForCopy(source, plan.type)
          /\ verdict = sampleStatus({Pair})
          /\ target \in Encoded(sent, plan.type, config)
      BY DEF ColumnInv, SourceInv, MarkedInv, CourseInv, Lossless
    <2>2. sent.kind = "bool" => source.body \in {"0", "1"}
      BY DEF Lossless
    <2>3. ~IsMarked(source)
      <3> SUFFICES ASSUME IsMarked(source) PROVE FALSE
        OBVIOUS
      <3>1. sent.kind = "string"
        BY DEF ColumnInv, MarkedInv
      <3>2. recorded = Reasons(source)
        BY DEF ColumnInv, CourseInv, IsMarked
      <3>3. Reasons(source) # {}
        BY DEF Reasons, IsMarked
      <3> QED
        BY <3>1, <3>2, <3>3 DEF Lossless
    <2>4. SameRaw(Pair) \/ AnyUnsupported(Pair) \/ SameNormal(Pair)
      BY <2>1, <2>2, <2>3, CopiesAgree DEF Pair
    <2> QED
      BY <2>1, <2>4 DEF sampleStatus
  <1> QED
    BY <1>1, ColumnInvariant, PTL

\* The driver knows no booleans.
LEMMA ScannedKinds ==
    ASSUME NEW c, NEW pt, NEW v \in Scanned(c, pt)
    PROVE  v.kind # "bool"
  <1>1. CASE v = Nil
    BY <1>1, PlainIs DEF Nil
  <1>2. CASE \E kind \in {"int", "float", "bytes", "time"} : \E body : v = Plain(kind, body)
    BY <1>2, PlainIs
  <1>3. CASE \E bodies : v \in Marked("bytes", bodies)
    BY <1>3, MarkedValues DEF Kinds
  <1> QED
    BY <1>1, <1>2, <1>3 DEF Scanned

\* A boolean column holds another number than 0 or 1.
LEMMA BooleanDiffers ==
    ASSUME NEW c, NEW cfg, NEW v \in Scanned(c, cfg.parseTime),
           NEW m, m = MapType(c, cfg),
           NEW s, s = normalizeValueForCopy(v, m.type), s.kind = "bool", v.body \notin {"0", "1"},
           NEW t \in Encoded(s, m.type, cfg),
           NEW p, p = [src |-> v, tgt |-> t]
    PROVE  ~SameRaw(p) /\ ~AnyUnsupported(p) /\ ~SameNormal(p)
  <1>1. v.kind # "bool"
    BY ScannedKinds
  <1>2. v.kind = "int" /\ m.type = "boolean"
    BY <1>1 DEF normalizeValueForCopy, SanitizePostgresText
  <1>3. c.DataType = "tinyint"
    BY <1>2 DEF MapType, Typed, Signed, SpatialTypes, TextTypes, BinaryTypes
  <1>4. PICK i \in Ints : v = Plain("int", i)
    <2>1. v # Nil
      BY <1>2, PlainIs DEF Nil
    <2> QED
      BY <1>3, <2>1, IntegersScanned DEF Integers64
  <1>5. i \notin {"0", "1"}
    BY <1>4, PlainIs
  <1>6. s = Plain("bool", "true")
    BY <1>2, <1>4, <1>5, PlainSent
  <1>7. t = Plain("bool", "true")
    BY <1>6, PlainStored, Zenon
  <1>8. i # BoolForm("true")
    BY <1>5 DEF BoolForm
  <1> QED
    BY <1>4, <1>7, <1>8, IntegerAgainstBoolean

-----------------------------------------------------------------------------
(* What the validation tells of a value, whatever else is in its sample.   *)

\* A row that a client of the target wrote over, or that the migration changed, is not
\* hidden by the other rows of its sample, however many there are; texts, bytes,
\* geometries, JSON documents and zero dates excepted, as in the properties of Columns.
SamplesTell ==
    pc = "validated" =>
        \A sample : Pair \in sample =>
            /\ edited /\ ~Untyped =>
                  sampleStatus(sample) \in {"real_mismatch", "unsupported_comparison"}
            /\ ~edited /\ ~Lossless /\ source # Plain("time", ZeroTime) =>
                  sampleStatus(sample) \notin {"passed", "normalized_equivalent"}

LEMMA EditedPair ==
    ASSUME ColumnInv, pc = "validated", edited, ~Untyped
    PROVE  Differs(Pair)
  <1>1. /\ source \in Scanned(column, config.parseTime) /\ plan = MapType(column, config)
        /\ sent = normalizeValueForCopy(source, plan.type)
    BY DEF ColumnInv, SourceInv, CourseInv
  <1>2. /\ Encoded(sent, plan.type, config) # {}
        /\ target \in Editable(plan.type, config) \cup {Nil}
        /\ \A w \in Encoded(sent, plan.type, config) : ~Equal(target, w)
    BY DEF ColumnInv, CourseInv
  <1>3. plan.type \notin Loose
    BY DEF Untyped, Loose
  <1> QED
    BY <1>1, <1>2, <1>3, EditsDiffer DEF Pair

LEMMA ChangedPair ==
    ASSUME ColumnInv, pc = "validated", ~edited, ~Lossless, source # Plain("time", ZeroTime)
    PROVE  Shows(Pair)
  <1>1. /\ source \in Scanned(column, config.parseTime) /\ plan = MapType(column, config)
        /\ sent = normalizeValueForCopy(source, plan.type)
        /\ target \in Encoded(sent, plan.type, config)
    BY DEF ColumnInv, SourceInv, CourseInv
  <1>2. CASE sent.kind = "bool"
    <2>1. source.body \notin {"0", "1"}
      BY <1>2 DEF Lossless
    <2>2. ~SameRaw(Pair) /\ ~AnyUnsupported(Pair) /\ ~SameNormal(Pair)
      BY <1>1, <1>2, <2>1, BooleanDiffers DEF Pair
    <2> QED
      BY <2>2 DEF Shows, Differs
  <1>3. CASE sent.kind # "bool"
    <2>1. recorded # {}
      BY <1>3 DEF Lossless
    <2>2. IsMarked(source)
      BY <2>1 DEF ColumnInv, MarkedInv
    <2>3. IsValue(Pair.src) /\ IsMarked(Pair.src) /\ Clean(Pair.tgt)
      BY <2>2 DEF ColumnInv, ValuesInv, Pair, Delivered
    <2>4. Pair.tgt.kind \in {"string", "bytes"} /\ Pair.tgt.body = Pair.src.body
      BY <2>2 DEF ColumnInv, MarkedInv, Pair
    <2> QED
      BY <2>3, <2>4, MarkedShows DEF Shows, Differs
  <1> QED
    BY <1>2, <1>3

\* An edited or changed row that the properties of Columns speak of decides the status
\* of a sample of any size.
THEOREM SamplesTellOfRows == Spec => []SamplesTell
  <1>1. ColumnInv => SamplesTell
    BY EditedPair, ChangedPair, OneIsEnough DEF SamplesTell
  <1> QED
    BY <1>1, ColumnInvariant, PTL

\* Any value that a column of booleans, numbers, dates, times or arrays may be given is
\* noticed; in columns of texts, bytes, geometries or JSON documents it may not be.
THEOREM EditsAreNoticed == Spec => []EditsAreSeen
  <1>1. ColumnInv => EditsAreSeen
    BY EditedPair, OneIsEnough DEF EditsAreSeen, ColumnInv, MarkedInv
  <1> QED
    BY <1>1, ColumnInvariant, PTL

\* What the migration changed does not pass for equal; zero dates do.
THEOREM ChangesAreNoticed == Spec => []ChangesAreSeen
  <1>1. ColumnInv => ChangesAreSeen
    BY ChangedPair, OneIsEnough DEF ChangesAreSeen, ColumnInv, MarkedInv
  <1> QED
    BY <1>1, ColumnInvariant, PTL

=============================================================================
