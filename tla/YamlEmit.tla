------------------------------ MODULE YamlEmit ------------------------------
(***************************************************************************)
(* yaml_emit.c: scalars, plain or quoted, and the lines around them.        *)
(*                                                                         *)
(* A character is a string of its own, a byte above 127 is written "xC3",   *)
(* and so are the controls without an escape.  A literal key or word of the *)
(* code ("server", "true") and a printed number count as one character.      *)
(***************************************************************************)
EXTENDS Integers, SequencesExt, StrbufOps

Digit   == {"0", "1", "2", "3", "4", "5", "6", "7", "8", "9"}
HexChar == Digit \cup {"a", "b", "c", "d", "e", "f", "A", "B", "C", "D", "E", "F"}
Control == {"\t", "\n", "\r", "\f", "x0B", "x07", "x7F", "NUL"}

is_ws(c) == c \in {" ", "\t", "\n", "\r", "\f", "x0B"}
is_leading_indicator(c) ==
    c \in {"-", "?", ":", ",", "[", "]", "{", "}", "#", "&", "*", "!", "|", ">", "'",
           "\"", "%", "@", "x60"}

Has(s, c)  == \E k \in DOMAIN s : s[k] = c
All(s, S)  == \A k \in DOMAIN s : s[k] \in S
Some(s, S) == s # << >> /\ All(s, S)
From(s, k) == SubSeq(s, k, Len(s))
Signed(s)  == s # << >> /\ s[1] \in {"+", "-"}

-----------------------------------------------------------------------------
(* What a plain scalar must not look like *)

Lower == [u \in {"A", "E", "F", "L", "N", "O", "R", "S", "T", "U", "Y"} |->
            CASE u = "A" -> "a" [] u = "E" -> "e" [] u = "F" -> "f" [] u = "L" -> "l"
              [] u = "N" -> "n" [] u = "O" -> "o" [] u = "R" -> "r" [] u = "S" -> "s"
              [] u = "T" -> "t" [] u = "U" -> "u" [] u = "Y" -> "y"]
Lowered(s) == [k \in DOMAIN s |-> IF s[k] \in DOMAIN Lower THEN Lower[s[k]] ELSE s[k]]

\* Mutant: the words are compared letter by letter as they come.
is_resolved_word_exact(s) ==
    s \in {<<"~">>, <<"t", "r", "u", "e">>, <<"f", "a", "l", "s", "e">>, <<"n", "u", "l", "l">>}

is_resolved_word(s) ==
    \/ s = <<"~">>
    \/ Lowered(s) \in {<<"t", "r", "u", "e">>, <<"f", "a", "l", "s", "e">>, <<"y", "e", "s">>,
                       <<"n", "o">>, <<"o", "n">>, <<"o", "f", "f">>, <<"n", "u", "l", "l">>}

\* A sign, then 0x, 0b or 0o and digits, or digits with a fraction and an
\* exponent that have digits too.
Unsigned(s) == IF Signed(s) THEN Tail(s) ELSE s
Exponent(e) == \/ e = << >>
               \/ e[1] \in {"e", "E"} /\ Some(Unsigned(Tail(e)), Digit)
Fraction(f) == \/ f = << >>
               \/ f[1] = "." /\ Some(Tail(f), Digit)

is_yaml_number(s) ==
    LET t == Unsigned(s)
        based(marks, digits) ==
            Len(t) > 2 /\ t[1] = "0" /\ t[2] \in marks /\ All(From(t, 3), digits) IN
    \/ based({"x", "X"}, HexChar)
    \/ based({"b", "B"}, {"0", "1"})
    \/ based({"o", "O"}, Digit \ {"8", "9"})
    \/ \E p \in 1..Len(t), q \in 1..Len(t) :
         /\ p <= q /\ Some(SubSeq(t, 1, p), Digit)
         /\ Fraction(SubSeq(t, p + 1, q)) /\ Exponent(From(t, q + 1))

is_yaml_date(s) ==
    Len(s) = 10 /\ \A k \in 1..10 : IF k \in {5, 8} THEN s[k] = "-" ELSE s[k] \in Digit

yaml_plain_safe(s) ==
    /\ ~is_ws(s[1]) /\ ~is_ws(Last(s)) /\ ~is_leading_indicator(s[1])
    /\ ~\E k \in DOMAIN s : s[k] \in Control
    /\ ~\E k \in 1..(Len(s) - 1) : SubSeq(s, k, k + 1) \in {<<":", " ">>, <<" ", "#">>}
    /\ ~Has(s, "\"") /\ ~Has(s, "\\")
    /\ s \notin {<<".">>, <<".", ".">>}
    /\ ~is_yaml_number(s) /\ ~is_resolved_word(s) /\ ~is_yaml_date(s)
    /\ ~(s[1] \in Digit /\ Has(s, ":"))

-----------------------------------------------------------------------------
Hex == [c \in {"\f", "x0B", "x07", "x7F"} |->
          CASE c = "\f" -> <<"0", "C">> [] c = "x0B" -> <<"0", "B">>
            [] c = "x07" -> <<"0", "7">> [] c = "x7F" -> <<"7", "F">>]

Escaped(c) ==
    CASE c = "\\"  -> strbuf_append_str(<<"\\", "\\">>)
      [] c = "\""  -> strbuf_append_str(<<"\\", "\"">>)
      [] c = "\n"  -> strbuf_append_str(<<"\\", "n">>)
      [] c = "\t"  -> strbuf_append_str(<<"\\", "t">>)
      [] c = "\r"  -> strbuf_append_str(<<"\\", "r">>)
      [] c = "NUL" -> strbuf_append_str(<<"\\", "0">>)
      [] c \in DOMAIN Hex ->
           strbuf_append_char("\\") \o strbuf_append_char("x")
           \o strbuf_append_char(Hex[c][1]) \o strbuf_append_char(Hex[c][2])
      [] OTHER -> strbuf_append_char(c)

append_quoted(s) ==
    strbuf_append_char("\"") \o FlattenSeq([k \in DOMAIN s |-> Escaped(s[k])])
    \o strbuf_append_char("\"")

yaml_quote(s) ==
    IF s = << >> THEN strbuf_append_str(<<"\"", "\"">>)
    ELSE IF yaml_plain_safe(s) THEN strbuf_append_str(s) ELSE append_quoted(s)

-----------------------------------------------------------------------------
(* Lines *)

emit_indent(n) == FlattenSeq([k \in 1..n |-> strbuf_append_char(" ")])
Newline == strbuf_append_char("\n")
Colon   == strbuf_append_str(<<":", " ">>)
Dash    == strbuf_append_str(<<"-", " ">>)

\* "key:" alone opens a block.
yaml_emit_kv(indent, key, value) ==
    emit_indent(indent) \o strbuf_append_str(<<key>>)
    \o Colon \o yaml_quote(value) \o Newline

yaml_emit_kv_open(indent, key) ==
    emit_indent(indent) \o strbuf_append_str(<<key>>) \o strbuf_append_char(":") \o Newline

yaml_emit_kv_int(indent, key, value) ==
    emit_indent(indent) \o strbuf_append_str(<<key>>) \o Colon
    \o strbuf_appendf(<<ToString(value)>>) \o Newline

yaml_emit_kv_bool(indent, key, value) ==
    emit_indent(indent) \o strbuf_append_str(<<key>>)
    \o strbuf_append_str(<<":", " ", IF value THEN "true" ELSE "false", "\n">>)

yaml_emit_dash(indent, value) ==
    emit_indent(indent) \o Dash \o yaml_quote(value) \o Newline

yaml_emit_dash_kv(indent, key, value) ==
    emit_indent(indent) \o Dash \o strbuf_append_str(<<key>>)
    \o Colon \o yaml_quote(value) \o Newline

yaml_emit_dash_kv_open(indent, key) ==
    emit_indent(indent) \o Dash \o strbuf_append_str(<<key>>)
    \o strbuf_append_str(<<":", "\n">>)

yaml_emit_flow_list(items) ==
    strbuf_append_char("[")
    \o FlattenSeq([k \in DOMAIN items |->
          (IF k > 1 THEN strbuf_append_str(<<",", " ">>) ELSE << >>) \o yaml_quote(items[k])])
    \o strbuf_append_str(<<"]", "\n">>)
=============================================================================
