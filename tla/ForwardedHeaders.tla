-------------------------- MODULE ForwardedHeaders --------------------------
(***************************************************************************)
(* parse_headers of server.c: the request headers that /convert passes on   *)
(* to the upstream.                                                          *)
(***************************************************************************)
EXTENDS Jsonx

\* The headers that curl sets itself, as strcasecmp finds them.
Reserved == {"host", "Host", "HOST", "content-length", "Content-Length",
             "transfer-encoding", "Transfer-Encoding"}

Skipped(m) == ~jsonx_is_string(m.val) \/ m.key \in Reserved

\* Mutant: the array keeps its first size, and what is written behind it is lost.
GrownOnce(st) == IF st.cap = 0 THEN [st EXCEPT !.cap = 8] ELSE st

\* The array doubles from 8; a realloc that fails makes free_header_arr take all.
Grown(st) ==
    IF Len(st.arr) < st.cap THEN st
    ELSE IF st.room = 0 THEN [st EXCEPT !.arr = << >>, !.failed = TRUE]
    ELSE [st EXCEPT !.cap = IF @ = 0 THEN 8 ELSE 2 * @, !.room = @ - 1]

\* The loop over the members.
Collected(obj) ==
    LET from[st \in [index : Nat, arr : Seq(Seq(STRING)), cap : Nat, room : Nat, failed : BOOLEAN]] ==
            LET e == jsonx_obj_entries(obj, st.index)
                next == [st EXCEPT !.index = e.index]
                grown == Grown(next) IN
            IF st.failed \/ e = NULL THEN st
            ELSE IF Skipped(e.member) THEN from[next]
            ELSE IF grown.failed \/ Len(grown.arr) = grown.cap THEN from[grown]
            ELSE from[[grown EXCEPT !.arr =
                          Append(@, <<e.member.key, ":", " ", e.member.val.v>>)]] IN
    from

\* "key: value" lines, or NULL; room is how often realloc succeeds.
parse_headers(text, room) ==
    LET obj == jsonx_parse(text)
        end == Collected(obj)[[index |-> 0, arr |-> << >>, cap |-> 0, room |-> room,
                               failed |-> FALSE]] IN
    IF jsonx_is_object(obj) /\ end.cap > 0 /\ ~end.failed THEN end.arr ELSE NULL
=============================================================================
