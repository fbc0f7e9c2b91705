----------------------------- MODULE YamlReader -----------------------------
(***************************************************************************)
(* How a YAML 1.2 reader with the core schema takes what YamlEmit writes:   *)
(* the reference that the emitter is checked against.  A reading is          *)
(*   [kind |-> "string", value]  the scalar is that text,                    *)
(*   [kind |-> "other", value]   a number, a truth value, null, or another text, *)
(*   [kind |-> "invalid", value] no document.                                *)
(***************************************************************************)
EXTENDS YamlEmit, TextUtil

Reading(kind, value) == [kind |-> kind, value |-> value]

\* The bytes behind the characters, as far as UTF-8 is concerned.
Codes(s) == [k \in DOMAIN s |-> CASE s[k] = "xC3" -> 195 [] s[k] = "xA9" -> 169
                                  [] s[k] = "xFF" -> 255 [] OTHER -> 65]

\* The code points that Unicode's table of well-formed byte sequences lists.
Tails(s, k) == \A m \in k..Len(s) : s[m] \in 128..191
Unit(s) ==
    \/ Len(s) = 1 /\ s[1] \in 0..127
    \/ Len(s) = 2 /\ s[1] \in 194..223 /\ Tails(s, 2)
    \/ /\ Len(s) = 3 /\ Tails(s, 3)
       /\ \/ s[1] = 224 /\ s[2] \in 160..191
          \/ s[1] \in (225..236) \cup {238, 239} /\ s[2] \in 128..191
          \/ s[1] = 237 /\ s[2] \in 128..159
    \/ /\ Len(s) = 4 /\ Tails(s, 3)
       /\ \/ s[1] = 240 /\ s[2] \in 144..191
          \/ s[1] \in 241..243 /\ s[2] \in 128..191
          \/ s[1] = 244 /\ s[2] \in 128..143

IsUtf8(s) ==
    LET from[k \in 1..(Len(s) + 1)] ==
            \/ k > Len(s)
            \/ \E n \in 1..Min({4, Len(s) - k + 1}) :
                 Unit(SubSeq(s, k, k + n - 1)) /\ from[k + n]
    IN  from[1]

-----------------------------------------------------------------------------
(* Plain scalars *)

CoreInt(s) == \/ Some(Unsigned(s), Digit)
              \/ Len(s) > 2 /\ SubSeq(s, 1, 2) = <<"0", "o">> /\ All(From(s, 3), Digit \ {"8", "9"})
              \/ Len(s) > 2 /\ SubSeq(s, 1, 2) = <<"0", "x">> /\ All(From(s, 3), HexChar)

\* [-+]? ( \. [0-9]+ | [0-9]+ ( \. [0-9]* )? ) ( [eE] [-+]? [0-9]+ )?
CoreFloat(s) ==
    LET t == Unsigned(s)
        mantissa(m) == /\ All(m, Digit \cup {"."})
                       /\ Cardinality({k \in DOMAIN m : m[k] = "."}) <= 1
                       /\ \E k \in DOMAIN m : m[k] \in Digit IN
    \/ Lowered(t) = <<".", "i", "n", "f">> \/ Lowered(s) = <<".", "n", "a", "n">>
    \/ \E p \in 1..Len(t) :
         /\ mantissa(SubSeq(t, 1, p))
         /\ \/ p = Len(t)
            \/ t[p + 1] \in {"e", "E"} /\ Some(Unsigned(From(t, p + 2)), Digit)

CoreWord(s) ==
    s = <<"~">> \/ Lowered(s) \in {<<"t", "r", "u", "e">>, <<"f", "a", "l", "s", "e">>, <<"n", "u", "l", "l">>}

\* A character that may begin a plain scalar; - ? and : may when more follows.
Begins(s) ==
    \/ ~is_leading_indicator(s[1])
    \/ s[1] \in {"-", "?", ":"} /\ Len(s) > 1 /\ s[2] # " "

FlowMarks == {",", "[", "]", "{", "}"}

\* "a: b" and "a:" are a mapping where an item may stand, and an error where
\* the value of another key does.
MakesKey(s) == \/ Last(s) = ":"
               \/ \E k \in 1..(Len(s) - 1) : SubSeq(s, k, k + 1) = <<":", " ">>

\* In "value", of a key; as "item", of a block sequence; in a "flow" list.
ReadPlain(s, place) ==
    IF s = << >> \/ CoreInt(s) \/ CoreFloat(s) \/ CoreWord(s) THEN Reading("other", s)
    ELSE IF \/ ~Begins(s) \/ ~IsUtf8(Codes(s)) \/ (place = "value" /\ MakesKey(s))
            \/ \E k \in DOMAIN s : s[k] \in Control \/ (place = "flow" /\ s[k] \in FlowMarks)
    THEN Reading("invalid", s)
    ELSE IF \/ MakesKey(s) \/ s[1] = " " \/ Last(s) = " "
            \/ \E k \in 1..(Len(s) - 1) : SubSeq(s, k, k + 1) = <<" ", "#">>
    THEN Reading("other", s)
    ELSE Reading("string", s)

-----------------------------------------------------------------------------
(* Double-quoted scalars *)

Simple == [n |-> "\n", t |-> "\t", r |-> "\r"]
Unescaped(c) == IF c \in DOMAIN Simple THEN Simple[c] ELSE IF c = "0" THEN "NUL" ELSE c
HexPair(c, d) == CHOOSE x \in DOMAIN Hex : Hex[x] = <<c, d>>

ReadChar(st, c) ==
    CASE st.mode = "text" /\ c = "\\" -> [st EXCEPT !.mode = "escape"]
      [] st.mode = "text" /\ c = "\"" -> [st EXCEPT !.mode = "end"]
      [] st.mode = "text" /\ c \notin Control \cup {"\\", "\""} -> [st EXCEPT !.value = Append(@, c)]
      [] st.mode = "escape" /\ c \in DOMAIN Simple \cup {"0", "\\", "\""} ->
           [st EXCEPT !.mode = "text", !.value = Append(@, Unescaped(c))]
      [] st.mode = "escape" /\ c = "x" -> [st EXCEPT !.mode = "hex"]
      [] st.mode = "hex" /\ c \in HexChar -> [st EXCEPT !.mode = "hex2", !.first = c]
      [] st.mode = "hex2" /\ c \in HexChar ->
           [st EXCEPT !.mode = "text", !.value = Append(@, HexPair(st.first, c))]
      [] OTHER -> [st EXCEPT !.mode = "bad"]

ReadQuoted(s) ==
    LET st == FoldLeft(ReadChar, [mode |-> "text", first |-> "", value |-> << >>], Tail(s)) IN
    Reading(IF st.mode = "end" /\ IsUtf8(Codes(st.value)) THEN "string" ELSE "invalid", st.value)

ReadScalar(s, place) ==
    IF s # << >> /\ s[1] = "\"" THEN ReadQuoted(s) ELSE ReadPlain(s, place)

-----------------------------------------------------------------------------
(* Lines, flow lists and blocks *)

\* "- " begins an item, whose own column is behind it; key ":" value, or key
\* ":" alone (value None), or a scalar.
ReadLine(l) ==
    LET indent == SelectInSeq(l, LAMBDA c : c # " ") - 1
        item == SubSeq(l, indent + 1, indent + 2) = <<"-", " ">>
        col  == IF item THEN indent + 2 ELSE indent IN
    [col |-> col, item |-> item, rest |-> From(l, col + 1)]

Lines(t) ==
    LET rows == str_split(t, "\n") IN [k \in 1..(Len(rows) - 1) |-> ReadLine(rows[k])]

\* The items of "[a, b]", cut at the commas outside quotes.
FlowItems(t) ==
    LET cut(st, c) ==
            CASE st.mode = "plain" /\ c = "," ->
                   [st EXCEPT !.parts = Append(@, st.part), !.part = << >>]
              [] st.mode = "quoted" /\ c = "\\" -> [st EXCEPT !.mode = "escape", !.part = Append(@, c)]
              [] st.mode = "escape" -> [st EXCEPT !.mode = "quoted", !.part = Append(@, c)]
              [] c = "\"" -> [st EXCEPT !.mode = IF @ = "plain" THEN "quoted" ELSE "plain",
                                        !.part = Append(@, c)]
              [] c = " " /\ st.part = << >> -> st
              [] OTHER -> [st EXCEPT !.part = Append(@, c)]
        end == FoldLeft(cut, [mode |-> "plain", parts |-> << >>, part |-> << >>],
                        SubSeq(t, 2, Len(t) - 2)) IN
    [k \in 1..(Len(end.parts) + 1) |-> ReadScalar(Append(end.parts, end.part)[k], "flow")]

\* A block, nested by its columns: the lines that enclose line k, and the keys
\* on the way to it.
Opens(line) == Len(line.rest) = 2
Enclosing(block, k) ==
    {m \in 1..(k - 1) : /\ block[m].col < block[k].col
                        /\ \A h \in (m + 1)..(k - 1) : block[h].col > block[m].col}
Path(block, k) ==
    LET outer == SetToSortSeq(Enclosing(block, k), <) IN
    [m \in DOMAIN outer |-> block[outer[m]].rest[1]] \o <<block[k].rest[1]>>
=============================================================================
