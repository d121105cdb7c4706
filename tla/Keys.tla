-------------------------------- MODULE Keys --------------------------------
(***************************************************************************)
(* From a row of the binlog to the partition key of its event: mapRow      *)
(* (src/pkg/source/mysql/source.go), Row (src/pkg/event/event.go) and the  *)
(* key functions of src/pkg/dispatch/dispatch.go.                          *)
(*                                                                         *)
(* A text is a sequence of characters.  A Go value is a record [t, s]: its *)
(* dynamic type "nil", "string", "bytes", "raw" (json.RawMessage) or "int" *)
(* and its text, for an integer <<n>>.  A row is a function from column    *)
(* names to values; a nil map is NoRow, which no row of a table is: the    *)
(* schema registry refuses a table without columns.  The other integer     *)
(* widths, floats, booleans and times are printed by strconv like "int".   *)
(***************************************************************************)
EXTENDS Integers, Sequences, FiniteSets, SequencesExt, FiniteSetsExt

Nil == [t |-> "nil", s |-> <<>>]
NoRow == <<>>

CONSTANT Letters  \* the column names, in their order as strings

ASSUME LettersAssumption == Letters \in Seq(STRING) /\ IsInjective(Letters)

Rank(c) == CHOOSE i \in DOMAIN Letters : Letters[i] = c
Before(c, d) == Rank(c) < Rank(d)

(* A value of the binlog, by the column's kind.  go-mysql delivers         *)
(* characters as a string or as bytes, depending on type and version.      *)
Normalize(kind, v) ==
    IF v.t \notin {"string", "bytes"} THEN v
    ELSE CASE kind = "json" -> IF v.s = <<>> THEN Nil ELSE [v EXCEPT !.t = "raw"]
           [] kind = "binary" -> [v EXCEPT !.t = "bytes"]
           [] OTHER -> [v EXCEPT !.t = "string"]

mapRow(schema, vals) ==
    LET n == Min({Len(vals), Len(schema.columns)})
        at(c) == CHOOSE i \in 1..n : schema.columns[i] = c
    IN  [c \in {schema.columns[i] : i \in 1..n} |->
            Normalize(schema.kinds[at(c)], vals[at(c)])]

Row(e) == IF e.op = "d" THEN e.before ELSE e.after

Digit == <<"0", "1", "2", "3", "4", "5", "6", "7", "8", "9">>
Decimal(n) ==
    LET digits[k \in 0..n] == IF k < 10 THEN <<Digit[k + 1]>>
                              ELSE Append(digits[k \div 10], Digit[(k % 10) + 1])
    IN  digits[n]
AppendInt(n) == IF n < 0 THEN <<"-">> \o Decimal(-n) ELSE Decimal(n)

\* A bug: the escape character itself is not escaped.
appendEscapedBars(s) ==
    FlattenSeq([i \in DOMAIN s |->
        IF s[i] = "|" THEN <<"\\", s[i]>> ELSE <<s[i]>>])

appendEscaped(s) ==
    FlattenSeq([i \in DOMAIN s |->
        IF s[i] \in {"|", "\\"} THEN <<"\\", s[i]>> ELSE <<s[i]>>])

appendKeyValue(v) ==
    CASE v.t = "nil" -> <<"\\", "N">>
      [] v.t = "int" -> AppendInt(v.s[1])
      [] OTHER -> appendEscaped(v.s)

Ascending(q) == \A i, j \in DOMAIN q : i < j => Before(q[i], q[j])
SortStrings(S) == CHOOSE q \in SetToSeqs(S) : Ascending(q)

\* The columns a key is made of: all of them, sorted, when none are named.
KeyColumns(row, cols) ==
    IF cols = <<>> THEN SortStrings(DOMAIN row) ELSE cols

KeyFromColumns(fqtn, row, cols) ==
    LET names == KeyColumns(row, cols)
        value(c) == IF c \in DOMAIN row THEN row[c] ELSE Nil
    IN  <<fqtn>> \o FlattenSeq([i \in DOMAIN names |->
                        <<"|">> \o appendKeyValue(value(names[i]))])

DefaultKey(overrides, e) ==
    CASE e.fqtn \in DOMAIN overrides ->
            KeyFromColumns(e.fqtn, Row(e), overrides[e.fqtn])
      [] e.fqtn \notin DOMAIN overrides /\ e.key # <<>> -> e.key
      [] OTHER -> <<e.fqtn>>
=============================================================================
