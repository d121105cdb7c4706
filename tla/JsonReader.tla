----------------------------- MODULE JsonReader -----------------------------
(***************************************************************************)
(* What a consumer does with a payload: a reader for the part of JSON      *)
(* (RFC 8259) the serializer emits, written without looking at it.         *)
(* A value is a record [k, v] of its kind "str", "num", "lit" or "obj" and *)
(* its characters, or for an object its members in order.                  *)
(***************************************************************************)
EXTENDS Naturals, Sequences

Str(s) == [k |-> "str", v |-> s]
Num(s) == [k |-> "num", v |-> s]
Lit(s) == [k |-> "lit", v |-> s]
Obj(s) == [k |-> "obj", v |-> s]
Bad == [k |-> "bad", v |-> <<>>]

NumberChar == {"-", "0", "1", "2", "3", "4", "5", "6", "7", "8", "9"}
Control == {"\n", "\r", "\t", "x00", "x1f"}

(* The one value text consists of, or Bad.  The reading of kind m at       *)
(* position i yields a value and the position after it: beyond the end     *)
(* when there is none.                                                     *)
ReadJSON(text) ==
    LET end == Len(text)
        at(i) == IF i <= end THEN text[i] ELSE "eof"
        fail == [val |-> Bad, next |-> end + 2]
        hex(i) == <<at(i), at(i + 1), at(i + 2), at(i + 3)>>
        \* The character written at i inside a string, and its width.
        escape(i) ==
            CASE at(i + 1) \in {"\"", "\\"} -> <<at(i + 1), 2>>
              [] at(i + 1) = "n" -> <<"\n", 2>>
              [] at(i + 1) = "r" -> <<"\r", 2>>
              [] at(i + 1) = "t" -> <<"\t", 2>>
              [] at(i + 1) = "u" /\ hex(i + 2) = <<"0", "0", "0", "0">> ->
                    <<"x00", 6>>
              [] at(i + 1) = "u" /\ hex(i + 2) = <<"0", "0", "1", "f">> ->
                    <<"x1f", 6>>
              [] OTHER -> <<"eof", 0>>
        char(i) ==
            CASE at(i) = "\\" -> escape(i)
              [] at(i) \in Control \cup {"eof"} -> <<"eof", 0>>
              [] OTHER -> <<at(i), 1>>
        prefix(x, r) == [r EXCEPT !.val.v = <<x>> \o @]
        read[m \in {"value", "chars", "number", "members"}, i \in 1..(end + 2)] ==
            CASE m = "chars" ->
                    IF at(i) = "\"" THEN [val |-> Str(<<>>), next |-> i + 1]
                    ELSE IF char(i)[2] = 0 THEN fail
                    ELSE prefix(char(i)[1], read["chars", i + char(i)[2]])
              [] m = "number" ->
                    IF at(i) \in NumberChar
                    THEN prefix(at(i), read["number", i + 1])
                    ELSE [val |-> Num(<<>>), next |-> i]
              [] m = "members" ->
                    LET name == read["chars", i + 1]
                        val == read["value", name.next + 1]
                        member == <<name.val.v, val.val>>
                    IN  IF at(i) # "\"" \/ at(name.next) # ":" THEN fail
                        ELSE CASE at(val.next) = "," ->
                                    prefix(member, read["members", val.next + 1])
                               [] at(val.next) = "}" ->
                                    [val |-> Obj(<<member>>), next |-> val.next + 1]
                               [] OTHER -> fail
              [] OTHER ->
                    CASE at(i) = "\"" -> read["chars", i + 1]
                      [] at(i) \in NumberChar -> read["number", i]
                      [] at(i) = "null" -> [val |-> Lit(<<"null">>), next |-> i + 1]
                      [] at(i) = "{" /\ at(i + 1) = "}" ->
                            [val |-> Obj(<<>>), next |-> i + 2]
                      [] at(i) = "{" /\ at(i + 1) # "}" -> read["members", i + 1]
                      [] OTHER -> fail
        whole == read["value", 1]
    IN  IF whole.next = end + 1 THEN whole.val ELSE Bad
=============================================================================
