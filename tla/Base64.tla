------------------------------- MODULE Base64 -------------------------------
(***************************************************************************)
(* base64.c: both alphabets, encode, decode and the test whether a text     *)
(* looks like base64.  A character is its code.                              *)
(***************************************************************************)
EXTENDS Integers, SequencesExt, Bitwise, StrbufOps

Pad == 61  \* '='
b64_is_ws(c) == c = 32 \/ c \in 9..13

\* The digits behind Z, z and 9.
Last2 == [std |-> <<43, 47>>, url |-> <<45, 95>>]

b64_chars(alphabet) ==
    [v \in 0..63 |-> CASE v < 26 -> 65 + v [] v \in 26..51 -> 71 + v
                       [] v \in 52..61 -> v - 4 [] OTHER -> Last2[alphabet][v - 61]]

\* strchr: the terminator of the alphabet counts as its 65th character.
b64_char_val(alphabet, c) ==
    IF c = 0 THEN 64
    ELSE LET at == {v \in 0..63 : b64_chars(alphabet)[v] = c} IN
         IF at = {} THEN -1 ELSE CHOOSE v \in at : TRUE

-----------------------------------------------------------------------------
\* The bytes of a whole or broken off quad.
Unpacked(q) ==
    LET byte(k) == CASE k = 1 -> (q[1] * 4) | (q[2] \div 16)
                     [] k = 2 -> ((q[2] % 16) * 16) | (q[3] \div 4)
                     [] k = 3 -> ((q[3] % 4) * 64) | q[4] IN
    FlattenSeq([k \in 1..(Len(q) - 1) |-> strbuf_append_char(byte(k) % 256)])

\* Mutant: any padding after the second digit will do.
PadFitsLoosely(qn, pad) == pad <= 2

\* The padding completes the quad or is left out.
PadFits(qn, pad) == pad = 0 \/ qn + pad = 4

\* The loop body of b64_decode_core.
DecodeChar(alphabet, st, c) ==
    LET v == b64_char_val(alphabet, c)
        quad == Append(st.quad, v)
        fail == [st EXCEPT !.rc = -1] IN
    IF st.rc # 0 \/ b64_is_ws(c) THEN st
    ELSE IF c = Pad
         THEN IF Len(st.quad) \in 2..3 /\ Len(st.quad) + st.pad < 4
              THEN [st EXCEPT !.pad = @ + 1] ELSE fail
    ELSE IF v < 0 \/ st.pad > 0 THEN fail
    ELSE IF Len(quad) < 4 THEN [st EXCEPT !.quad = quad]
    ELSE [st EXCEPT !.quad = << >>, !.jobs = @ \o Unpacked(quad)]

\* What was decoded in front of an error stays in the output.
b64_decode_core(alphabet, in) ==
    LET st == FoldLeft(LAMBDA s, c : DecodeChar(alphabet, s, c),
                       [rc |-> 0, quad |-> << >>, pad |-> 0, jobs |-> << >>], in)
        qn == Len(st.quad) IN
    IF st.rc # 0 \/ qn = 1 \/ (qn > 1 /\ ~PadFits(qn, st.pad)) THEN Result(-1, st.jobs)
    ELSE Result(0, st.jobs \o IF qn = 0 THEN << >> ELSE Unpacked(st.quad))

-----------------------------------------------------------------------------
\* The digits of one to three bytes.
Packed(alphabet, p) ==
    LET byte(k) == IF k \in DOMAIN p THEN p[k] ELSE 0
        v == byte(1) * 65536 + byte(2) * 256 + byte(3) IN
    FlattenSeq([k \in 1..(Len(p) + 1) |->
        strbuf_append_char(b64_chars(alphabet)[(v \div 64 ^ (4 - k)) % 64])])

Padding(n) == CASE n = 1 -> strbuf_append_str(<<Pad, Pad>>)
                [] n = 2 -> strbuf_append_char(Pad)
                [] OTHER -> << >>

\* Nothing to encode clears the output, which everything else only extends.
b64_encode_core(alphabet, in, with_padding) ==
    LET n == Len(in)
        rest == SubSeq(in, n - (n % 3) + 1, n) IN
    Result(0, IF n = 0 THEN strbuf_clear
              ELSE FlattenSeq([g \in 1..(n \div 3) |->
                                 Packed(alphabet, SubSeq(in, 3 * g - 2, 3 * g))])
                   \o (IF rest = << >> THEN << >> ELSE Packed(alphabet, rest))
                   \o (IF with_padding THEN Padding(Len(rest)) ELSE << >>))

base64_encode(in)     == b64_encode_core("std", in, TRUE)
base64_decode(in)     == b64_decode_core("std", in)
base64_encode_url(in) == b64_encode_core("url", in, FALSE)
base64_decode_url(in) == b64_decode_core("url", in)

base64_looks_like(in) ==
    LET text == SelectSeq(in, LAMBDA c : ~b64_is_ws(c)) IN
    /\ \A k \in DOMAIN text : text[k] = Pad \/ b64_char_val("std", text[k]) >= 0
    /\ Len(text) >= 4 /\ Len(text) % 4 = 0
=============================================================================
