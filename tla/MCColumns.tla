------------------------------ MODULE MCColumns ------------------------------
(***************************************************************************)
(* Values for Columns: every type, the ends of every integer range, texts  *)
(* of each kind that normalization tells apart.                            *)
(***************************************************************************)
EXTENDS Columns, TLC

Column(type, unsigned, display1, members) ==
    [DataType |-> type, unsigned |-> unsigned, display1 |-> display1, members |-> members]

AllColumns ==
    {Column(type, u, d, {}) : type \in Integers64, u \in BOOLEAN, d \in {FALSE}}
    \cup {Column("tinyint", u, TRUE, {}) : u \in BOOLEAN}
    \cup {Column(type, FALSE, FALSE, {}) : type \in
            {"float", "double", "decimal", "char", "varchar", "text", "blob", "json", "date",
             "datetime", "time", "year", "point", "bit"}}
    \cup {Column("enum", FALSE, FALSE, {"open", "Paid"}),
          Column("set", FALSE, FALSE, {"open", "Paid", "open,Paid"})}

(* The switches that bear on different types are turned together. *)
AllConfigs ==
    {[tinyint1_as_bool |-> s, datetime_timezone_policy |-> p, geometry_postgis_mode |-> s,
      enum_as_domain |-> s, set_as_array |-> s, parseTime |-> t, utc |-> u] :
        s \in BOOLEAN, p \in {"utc", "none"}, t \in BOOLEAN, u \in BOOLEAN}

AllBits ==
    "0" :> 0 @@ "1" :> 1 @@ "2024" :> 11 @@ "-1" :> 1 @@ "7" :> 3 @@ "127" :> 7 @@ "255" :> 8
    @@ "32767" :> 15 @@ "65535" :> 16 @@ "8388607" :> 23 @@ "16777215" :> 24
    @@ "2147483647" :> 31 @@ "4294967295" :> 32 @@ "9223372036854775807" :> 63
    @@ "18446744073709551615" :> 64

AllDecimals ==
    [i \in DOMAIN AllBits |-> i] @@ "1.50" :> "1.5" @@ "1.5" :> "1.5" @@ "0.00" :> "0"
    @@ "-0.50" :> "-0.5" @@ "10" :> "10"

AllInts == DOMAIN AllBits \ {"2024"}

SomeNumbers == {"0", "1", "-1", "7", "1.50", "0.00", "-0.50", "10"}

AllWords == {"", "word", "Word", "NULL", "yes", "true", "1", "0", "1.50", "1.5",
             "{b:2,a:1}", "2026-06-27 12:30:00"}

AllJson ==
    "{a:1,b:2}" :> "{a:1,b:2}" @@ "{b:2,a:1}" :> "{a:1,b:2}" @@ "[1]" :> "[1]"
    @@ "[1,2]" :> "[1,2]" @@ "[]" :> "[]" @@ "{c:\\u0000}" :> "{c:\\u0000}"

AllDecoded ==
    "{a:1,b:2}" :> Plain("other", "map[a:1 b:2]") @@ "{b:2,a:1}" :> Plain("other", "map[a:1 b:2]")
    @@ "[1]" :> Plain("other", "[1]") @@ "[1,2]" :> Plain("other", "[1 2]")
    @@ "7" :> Plain("float", "7") @@ "'7'" :> Plain("string", "7") @@ "1" :> Plain("float", "1")
    @@ "true" :> Plain("bool", "true")
    @@ "'word'" :> Plain("string", "word") @@ "null" :> Nil

AllDocuments == DOMAIN AllDecoded \cup {"{c:\\u0000}"}

AllTimes ==
    "2026-06-27 12:30:00" :> "2026-06-27T12:30:00Z" @@ "2026-06-27" :> "2026-06-27T00:00:00Z"

AllPrinted == "00:30:00" :> "{1800000000 true}" @@ "12:30:00" :> "{45000000000 true}"

AllBodies ==
    UNION {DOMAIN AllBits, DOMAIN AllDecimals, AllWords, AllDocuments, DOMAIN AllTimes,
           {"2026-06-27T12:30:00Z", "2026-06-27T00:00:00Z", "0001-01-01T00:00:00Z",
            "0000-00-00", "00:30:00", "25:00:00", "12:30:00", "-01:00:00", "{1800000000 true}",
            "{45000000000 true}", "[]",
            "map[a:1 b:2]", "[1 2]", "open", "Paid", "open,Paid", "point", "bits", "false"}}

LoweredCase ==
    [b \in AllBodies |->
        IF b = "Word" THEN "word" ELSE IF b = "Paid" THEN "paid" ELSE b]

(* The row beside it: rendered differently, or with a text that changed. *)
RenderedPair == [src |-> Plain("int", "1"), tgt |-> Plain("bool", "true")]
=============================================================================
