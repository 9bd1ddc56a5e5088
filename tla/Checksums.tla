------------------------------ MODULE Checksums ------------------------------
(***************************************************************************)
(* How the two samples of a table compare: the switch at the end of        *)
(* calculateSampleChecksum in validator/validator.go and the items of      *)
(* buildChecksumDrilldown, given how each pair of rows looks.              *)
(***************************************************************************)

\* identical: the same text on both sides; null: the same, but NULL on one side and
\* the text NULL on the other, in a row that can be compared; opaque: the same, but
\* with a value that normalization gives up on; marked: the same, with NULs on both
\* sides.  rendered: equal once normalized.
\* sanitized: equal once normalized, and only because NULs are taken out.  binary: the
\* text differs and there is a value that normalization gives up on; mixed: and a
\* value of another column that can be compared and differs.  altered: different once
\* normalized, with NULs taken out of every value that differs.  different: the rest.
Looks == {"identical", "null", "opaque", "marked", "rendered", "sanitized", "binary",
          "mixed", "altered", "different"}
Same == {"identical", "null", "opaque", "marked"}
Incomparable == {"opaque", "binary", "mixed"}

ChecksumStatuses == {"passed", "unsupported_comparison", "sanitized_equivalent",
                     "normalized_equivalent", "real_mismatch"}

\* Mutant of Checksum: equal after normalization counts as passed.
ChecksumLenient(src, tgt, look) ==
    LET seen == {look[k] : k \in src \cup tgt} IN
    IF src = tgt /\ seen \subseteq Same \cup {"rendered"} THEN "passed"
    ELSE IF seen \cap Incomparable # {} THEN "unsupported_comparison"
    ELSE IF src # tgt \/ seen \cap {"null", "altered", "different"} # {} THEN "real_mismatch"
    ELSE "sanitized_equivalent"

\* The switch, in its order.
Checksum(src, tgt, look) ==
    LET seen == {look[k] : k \in src \cup tgt} IN
    IF src = tgt /\ seen \subseteq Same THEN "passed"
    ELSE IF seen \cap Incomparable # {} THEN "unsupported_comparison"
    ELSE IF src # tgt \/ seen \cap {"null", "altered", "different"} # {} THEN "real_mismatch"
    ELSE IF seen \cap {"sanitized", "marked"} # {} THEN "sanitized_equivalent"
    ELSE "normalized_equivalent"

\* buildChecksumDrilldown has an item it classifies as real_mismatch: rows that
\* do not pair up, or a pair that differs in a value that could be compared.
HasRealMismatch(src, tgt, look) ==
    src # tgt \/ \E k \in src : look[k] \in {"null", "mixed", "different"}
=============================================================================
