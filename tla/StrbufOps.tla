----------------------------- MODULE StrbufOps -----------------------------
(***************************************************************************)
(* What the functions of the codecs and emitters do to their output: the    *)
(* operations they ask of the strbuf, in order, and what they return.        *)
(***************************************************************************)
EXTENDS Sequences

CONSTANT NULL  \* the pointer

strbuf_append_str(s)  == <<[op |-> "append", bytes |-> s]>>
strbuf_append_char(c) == strbuf_append_str(<<c>>)
strbuf_appendf(s)     == <<[op |-> "appendf", bytes |-> s]>>
strbuf_clear          == <<[op |-> "clear", bytes |-> << >>]>>

Result(rc, jobs) == [rc |-> rc, jobs |-> jobs]
=============================================================================
