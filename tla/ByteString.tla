----------------------------- MODULE ByteString -----------------------------
(***************************************************************************)
(* What a strbuf promises its owner: a text that each operation changes as  *)
(* a whole, or the end of the process.                                       *)
(***************************************************************************)
EXTENDS Sequences

CONSTANT None  \* no operation

VARIABLES
    text,   \* the bytes
    asked,  \* the operation in progress
    aborted \* the process has ended for want of memory

stringVars == <<text, asked, aborted>>

StringInit == text = << >> /\ asked = None /\ aborted = FALSE

Ask ==
    /\ asked = None /\ ~aborted
    /\ asked' # None
    /\ UNCHANGED <<text, aborted>>

Effect(t, j) == CASE j.op \in {"append", "appendf"} -> t \o j.bytes
                  [] j.op \in {"clear", "free"} -> << >>
                  [] j.op = "reserve" -> t

Answer ==
    /\ asked # None
    /\ text' = Effect(text, asked)
    /\ asked' = None
    /\ UNCHANGED aborted

Abort ==
    /\ asked # None
    /\ aborted' = TRUE /\ asked' = None
    /\ UNCHANGED text

StringNext == Ask \/ Answer \/ Abort

StringSpec == StringInit /\ [][StringNext]_stringVars
=============================================================================
