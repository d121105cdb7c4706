----------------------------- MODULE Serializer -----------------------------
(***************************************************************************)
(* The hand-written JSON encoder (src/pkg/serialize/json.go).  A payload   *)
(* is a sequence of characters; the fixed field names are one character.   *)
(* A row is encoded from the pairs the map iteration yields, in any order. *)
(***************************************************************************)
EXTENDS Keys

Quote == "\""
Backslash == "\\"

\* The characters in use, below 0x20, that have no escape of their own, with the
\* two digits of \u00xx.
HexDigits == [c \in {"x00", "x1f"} |->
                IF c = "x00" THEN <<"0", "0">> ELSE <<"1", "f">>]

\* A bug: only the quote is escaped.
EscapeQuote(c) == IF c = Quote THEN <<Backslash, c>> ELSE <<c>>

EscapeChar(c) ==
    CASE c \in {Quote, Backslash} -> <<Backslash, c>>
      [] c = "\n" -> <<Backslash, "n">>
      [] c = "\r" -> <<Backslash, "r">>
      [] c = "\t" -> <<Backslash, "t">>
      [] c \in DOMAIN HexDigits ->
            <<Backslash, "u", "0", "0">> \o HexDigits[c]
      [] OTHER -> <<c>>

appendJSONString(s) ==
    <<Quote>> \o FlattenSeq([i \in DOMAIN s |-> EscapeChar(s[i])]) \o <<Quote>>

\* encoding/base64 on the bytes in use: one to one, and nothing to escape.
Base64(s) ==
    [i \in DOMAIN s |-> CASE s[i] = Quote -> "I"
                          [] s[i] = "\n" -> "C"
                          [] s[i] = "n" -> "b"]

appendValue(v) ==
    CASE v.t = "nil" -> <<"null">>
      [] v.t = "string" -> appendJSONString(v.s)
      [] v.t = "raw" -> IF v.s = <<>> THEN <<"null">> ELSE v.s
      [] v.t = "bytes" -> <<Quote>> \o Base64(v.s) \o <<Quote>>
      [] v.t = "int" -> AppendInt(v.s[1])

\* An object of members, each a name and the text of its value.
Object(members) ==
    LET text(m) == appendJSONString(<<m[1]>>) \o <<":">> \o m[2]
    IN  <<"{">> \o FlattenSeq([i \in DOMAIN members |->
            IF i = 1 THEN text(members[i]) ELSE <<",">> \o text(members[i])])
        \o <<"}">>

\* One turn of the outer loop: the pair moves left past the larger ones.
Insert(sorted, c) ==
    InsertAt(sorted, 1 + Cardinality({i \in DOMAIN sorted :
                                        ~Before(c, sorted[i])}), c)

\* A bug: the last pair is not moved.
insertionSortShort(pairs) ==
    IF pairs = <<>> THEN pairs
    ELSE Append(FoldLeft(Insert, <<>>, Front(pairs)), Last(pairs))

insertionSort(pairs) ==
    LET sorted[i \in 0..Len(pairs)] ==
            IF i = 0 THEN <<>> ELSE Insert(sorted[i - 1], pairs[i])
    IN  sorted[Len(pairs)]

\* pairs is the order in which the map iteration yields the columns; more than
\* 32 of them are sorted by the library.
appendRow(row, pairs) ==
    IF row = NoRow THEN <<"null">>
    ELSE LET sorted == insertionSort(pairs)
         IN  Object([i \in DOMAIN sorted |->
                        <<sorted[i], appendValue(row[sorted[i]])>>])

\* The source of an event; zero fields are omitted.  One field stands for the
\* ones of its form: db, server_id, file and tx_order are like these.
appendSource(src) ==
    Object(<<<<"table", appendJSONString(<<src.table>>)>>>>
           \o (IF src.gtid = "" THEN <<>>
               ELSE <<<<"gtid", appendJSONString(<<src.gtid>>)>>>>)
           \o (IF src.pos = 0 THEN <<>>
               ELSE <<<<"pos", AppendInt(src.pos)>>>>))

\* The envelope, but for ts_ms, a number like pos.
AppendEvent(e, beforePairs, afterPairs) ==
    Object(<<<<"id", appendJSONString(<<e.id>>)>>,
             <<"op", appendJSONString(<<e.op>>)>>,
             <<"before", appendRow(e.before, beforePairs)>>,
             <<"after", appendRow(e.after, afterPairs)>>,
             <<"source", appendSource(e.source)>>>>)

\* The record handed to the client: the routed key and the payload.
Serialize(e, beforePairs, afterPairs) ==
    [key |-> e.key, value |-> AppendEvent(e, beforePairs, afterPairs)]
=============================================================================
