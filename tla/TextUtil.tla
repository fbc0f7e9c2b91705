------------------------------ MODULE TextUtil ------------------------------
(***************************************************************************)
(* The text functions of util.c: URL escapes, UTF-8, and the helpers that   *)
(* trim, split and replace.  A character is its code.                        *)
(***************************************************************************)
EXTENDS Integers, SequencesExt, StrbufOps

Percent == 37

hex_val(c) == CASE c \in 48..57  -> c - 48
                [] c \in 97..102 -> c - 87
                [] c \in 65..70  -> c - 55
                [] OTHER -> -1

hexdig(v) == IF v < 10 THEN 48 + v ELSE 55 + v

\* Both digits are there.
EscapeAt(in, i) == i + 2 <= Len(in) /\ hex_val(in[i + 1]) >= 0 /\ hex_val(in[i + 2]) >= 0

\* A malformed escape ends it; what is in front of it has been appended.
url_decode(in) ==
    LET from[i \in 1..(Len(in) + 1)] ==
            IF i > Len(in) THEN Result(0, << >>)
            ELSE IF in[i] # Percent
            THEN [from[i + 1] EXCEPT !.jobs = strbuf_append_char(in[i]) \o @]
            ELSE IF EscapeAt(in, i)
            THEN [from[i + 3] EXCEPT !.jobs =
                    strbuf_append_char(hex_val(in[i + 1]) * 16 + hex_val(in[i + 2])) \o @]
            ELSE Result(-1, << >>)
    IN  from[1]

\* Mutant: the escape character itself goes out as it is.
is_unreserved_percent(c) ==
    c \in (65..90) \cup (97..122) \cup (48..57) \cup {45, 95, 46, 126, Percent}

is_unreserved(c) ==
    c \in (65..90) \cup (97..122) \cup (48..57) \cup {45, 95, 46, 126}

url_encode(in) ==
    Result(0, FlattenSeq([i \in DOMAIN in |->
        IF is_unreserved(in[i]) THEN strbuf_append_char(in[i])
        ELSE strbuf_append_char(Percent) \o strbuf_append_char(hexdig(in[i] \div 16))
             \o strbuf_append_char(hexdig(in[i] % 16))]))

-----------------------------------------------------------------------------
(* UTF-8 *)

\* The lead byte: how many bytes follow, the bits it holds, the smallest code
\* point that needs so many.
Lead(c) ==
    CASE c < 128       -> [extra |-> 0, bits |-> c, mincp |-> 0]
      [] c \in 192..223 -> [extra |-> 1, bits |-> c % 32, mincp |-> 128]
      [] c \in 224..239 -> [extra |-> 2, bits |-> c % 16, mincp |-> 2048]
      [] c \in 240..247 -> [extra |-> 3, bits |-> c % 8, mincp |-> 65536]
      [] OTHER -> [extra |-> -1, bits |-> 0, mincp |-> 0]

\* Mutant: any code point that the bits can spell.
ScalarAny(v, mincp) == TRUE

Scalar(v, mincp) == mincp <= v /\ v <= 1114111 /\ v \notin 55296..57343

\* The position behind the code point at i, or -1.
utf8_next_codepoint(s, i) ==
    IF i > Len(s) THEN -1
    ELSE LET l == Lead(s[i])
             tail == SubSeq(s, i + 1, Min({i + l.extra, Len(s)}))
             v == FoldLeft(LAMBDA acc, c : (acc * 64) + (c % 64), l.bits, tail) IN
         IF /\ l.extra >= 0 /\ i + l.extra <= Len(s)
            /\ \A k \in DOMAIN tail : tail[k] \in 128..191
            /\ Scalar(v, l.mincp)
         THEN i + l.extra + 1 ELSE -1

utf8_validate(s) ==
    LET from[i \in 1..(Len(s) + 1)] ==
            \/ i > Len(s)
            \/ utf8_next_codepoint(s, i) > 0 /\ from[utf8_next_codepoint(s, i)]
    IN  from[1]

-----------------------------------------------------------------------------
(* Helpers on C strings *)

is_space(c) == c = 32 \/ c \in 9..13

str_trim(s) ==
    LET start == SelectInSeq(s, LAMBDA c : ~is_space(c))
        end   == SelectLastInSeq(s, LAMBDA c : ~is_space(c)) IN
    IF start = 0 THEN << >> ELSE SubSeq(s, start, end)

\* Mutant: an empty last part is not counted.
str_split_trailing(s, delim) ==
    LET cut(st, c) == IF c = delim THEN [parts |-> Append(st.parts, st.part), part |-> << >>]
                      ELSE [st EXCEPT !.part = Append(@, c)]
        end == FoldLeft(cut, [parts |-> << >>, part |-> << >>], s) IN
    IF end.part = << >> THEN end.parts ELSE Append(end.parts, end.part)

str_split(s, delim) ==
    LET cut(st, c) == IF c = delim THEN [parts |-> Append(st.parts, st.part), part |-> << >>]
                      ELSE [st EXCEPT !.part = Append(@, c)]
        end == FoldLeft(cut, [parts |-> << >>, part |-> << >>], s) IN
    Append(end.parts, end.part)

\* The leftmost occurrences that do not overlap.
str_replace_all(in, from, to) ==
    LET rest[i \in 1..(Len(in) + 1)] ==
            IF i > Len(in) THEN << >>
            ELSE IF IsPrefix(from, SubSeq(in, i, Len(in)))
            THEN strbuf_append_str(to) \o rest[i + Len(from)]
            ELSE strbuf_append_char(in[i]) \o rest[i + 1]
    IN  Result(0, IF from = << >> THEN strbuf_append_str(in) ELSE rest[1])
=============================================================================
