------------------------------- MODULE Httpc -------------------------------
(***************************************************************************)
(* One call of httpc_request (httpc.c) and the release of its response.     *)
(* libcurl drives the two callbacks from what the upstream sends: header    *)
(* lines of every hop, then the body of the last one in chunks of any size; *)
(* the transfer may stop at any point.  A byte of the body is its position  *)
(* in what the upstream sent, a header entry the number of the field it     *)
(* came from, so lost, repeated or reordered data shows.                    *)
(***************************************************************************)
EXTENDS Naturals, Sequences

CONSTANTS
    Calls,      \* the arguments of a call: [url, nheaders, timeout]
    BodyStart,  \* first capacity of the body buffer (1024)
    HdrStart,   \* first capacity of the header array (8)
    MaxRedirs,  \* CURLOPT_MAXREDIRS (5)
    MaxBody,    \* bound: length of a body
    MaxFields,  \* bound: header fields in one call
    OOM         \* TRUE: an allocation may fail

ASSUME HttpcAssumption ==
    /\ Calls \subseteq [url: BOOLEAN, nheaders: Nat, timeout: BOOLEAN]
    /\ BodyStart \in Nat \ {0} /\ HdrStart \in Nat \ {0}
    /\ MaxRedirs \in Nat /\ MaxBody \in Nat /\ MaxFields \in Nat
    /\ OOM \in BOOLEAN

VARIABLES
    pc,    \* where the call is
    args,  \* its arguments (timeout: timeout_ms > 0)
    out,   \* *out is a response, not NULL
    heap,  \* the objects allocated and not freed
    slist, \* length of the curl_slist in hand
    lost,  \* entries of a list curl_slist_append has failed on
    body,  \* body_buf
    hdrs,  \* header_buf
    hop, part, status, \* the upstream: redirects so far, head or body, status
    total, at, fields, \* its body's length, what curl took of it, header fields
    cc,    \* what curl_easy_perform returned
    rc     \* what httpc_request returned

request  == <<args, out, slist, lost>>
upstream == <<hop, part, status, total, at, fields>>
vars     == <<pc, request, heap, body, hdrs, upstream, cc, rc>>

Obj(kind, k) == <<kind, k>>
Objs(kind, n) == {Obj(kind, k) : k \in 1..n}
Resp == Obj("resp", 0)
Curl == Obj("curl", 0)

NoBuffer == [data |-> << >>, cap |-> 0]

Init ==
    /\ pc = "entry" /\ args \in Calls /\ out = FALSE
    /\ heap = {} /\ slist = 0 /\ lost = 0
    /\ body = NoBuffer /\ hdrs = NoBuffer
    /\ hop = 0 /\ part = "head" /\ status = 0
    /\ total = 0 /\ at = 0 /\ fields = 0
    /\ cc = "none" /\ rc = "none"

-----------------------------------------------------------------------------
(* httpc_request up to curl_easy_perform *)

GiveUp == rc' = "ERR" /\ pc' = "returned" /\ UNCHANGED <<slist, lost, body, hdrs, upstream, cc>>

Entry ==
    /\ pc = "entry"
    /\ \/ OOM /\ GiveUp /\ UNCHANGED <<args, out, heap>>
       \/ /\ out' = TRUE /\ heap' = heap \cup {Resp}
          /\ \/ ~args.url /\ GiveUp
             \/ args.url /\ pc' = "setup" /\ UNCHANGED <<slist, lost, body, hdrs, upstream, cc, rc>>
          /\ UNCHANGED args

Setup ==
    /\ pc = "setup"
    /\ \/ OOM /\ GiveUp /\ UNCHANGED <<args, out, heap>>
       \/ /\ heap' = heap \cup {Curl}
          /\ pc' = IF args.nheaders > 0 THEN "headers" ELSE "perform"
          /\ UNCHANGED <<request, body, hdrs, upstream, cc, rc>>

\* curl_slist_append returns NULL on failure, and hdr_list is overwritten with
\* it: the request goes out without headers, the entries so far are lost.
AppendHeader ==
    /\ pc = "headers"
    /\ \/ /\ slist' = slist + 1
          /\ heap' = heap \cup {Obj("slist", slist + 1)}
          /\ pc' = IF slist + 1 = args.nheaders THEN "perform" ELSE pc
          /\ UNCHANGED lost
       \/ /\ OOM
          /\ lost' = slist /\ slist' = 0
          /\ pc' = "perform"
          /\ UNCHANGED heap
    /\ UNCHANGED <<args, out, body, hdrs, upstream, cc, rc>>

-----------------------------------------------------------------------------
(* curl_easy_perform and the callbacks *)

Performed(code) == pc' = "performed" /\ cc' = code

\* Mutant: the callback claims the size it was given.
WriteErrorIgnored == UNCHANGED <<pc, cc>>

\* A callback that does not return the size it was given ends the transfer.
WriteError == Performed("error")

\* `ncap` is what the doubling loop ends with.
Grows(cap, first, need, ncap) ==
    LET from == IF cap = 0 THEN first ELSE cap IN
    \E k \in 0..need : ncap = from * 2^k /\ ncap >= need /\ (k = 0 \/ ncap < 2 * need)

\* Mutant: no room for the terminator.
ReservedShort(buf, first, need, ncap) ==
    IF need > buf.cap + 1 THEN Grows(buf.cap, first, need, ncap) ELSE ncap = buf.cap

\* The capacity a buffer has once `need` entries fit.
Reserved(buf, first, need, ncap) ==
    IF need > buf.cap THEN Grows(buf.cap, first, need, ncap) ELSE ncap = buf.cap

Capacities(buf, first, need) == 0..(first + buf.cap + 2 * need)

header_write_cb(field) ==
    /\ pc = "perform" /\ part = "head"
    /\ field => fields < MaxFields
    /\ LET n == Len(hdrs.data) + 1 IN
       \/ ~field /\ UNCHANGED <<pc, cc, hdrs, heap, fields>>      \* no colon: not kept
       \/ /\ field
          /\ \E ncap \in Capacities(hdrs, HdrStart, n) :
               /\ Reserved(hdrs, HdrStart, n, ncap)
               /\ \/ /\ hdrs' = [data |-> Append(hdrs.data, fields + 1), cap |-> ncap]
                     /\ heap' = heap \cup {Obj("arr", 0), Obj("name", n), Obj("value", n)}
                     /\ fields' = fields + 1
                     /\ UNCHANGED <<pc, cc>>
                  \/ /\ OOM                                   \* name or value
                     /\ hdrs' = [data |-> hdrs.data, cap |-> ncap]
                     /\ heap' = heap \cup {Obj("arr", 0)}
                     /\ fields' = fields + 1
                     /\ WriteError
       \/ OOM /\ WriteError /\ UNCHANGED <<hdrs, heap, fields>>   \* line, or realloc
    /\ UNCHANGED <<request, body, hop, part, status, total, at, rc>>

body_write_cb(n) ==
    /\ pc = "perform" /\ part = "body"
    /\ n \in 1..(total - at)
    /\ LET need == Len(body.data) + n + 1 IN
       \/ \E ncap \in Capacities(body, BodyStart, need) :
            /\ Reserved(body, BodyStart, need, ncap)
            /\ body' = [data |-> body.data \o [i \in 1..n |-> at + i], cap |-> ncap]
            /\ heap' = heap \cup {Obj("body", 0)}
            /\ UNCHANGED <<pc, cc>>
       \/ /\ OOM /\ need > body.cap
          /\ WriteError
          /\ UNCHANGED <<body, heap>>
    /\ at' = at + n
    /\ UNCHANGED <<request, hdrs, hop, part, status, total, fields, rc>>

\* The end of a hop's headers: a redirect (its body is ignored), or the body of
\* the final response follows.
Redirect ==
    /\ pc = "perform" /\ part = "head"
    /\ \/ /\ hop < MaxRedirs
          /\ hop' = hop + 1
          /\ UNCHANGED <<pc, cc>>
       \/ /\ hop = MaxRedirs
          /\ Performed("error")                               \* too many
          /\ UNCHANGED hop
    /\ status' = 302
    /\ UNCHANGED <<request, heap, body, hdrs, part, total, at, fields, rc>>

FinalHead ==
    /\ pc = "perform" /\ part = "head"
    /\ part' = "body"
    /\ status' \in {200, 204, 404} /\ total' \in 0..MaxBody
    /\ UNCHANGED <<pc, request, heap, body, hdrs, hop, at, fields, cc, rc>>

Complete ==
    /\ pc = "perform" /\ part = "body" /\ at = total
    /\ Performed("ok")
    /\ UNCHANGED <<request, heap, body, hdrs, upstream, rc>>

\* Mutant: only the transfer of the body is timed.
TimeoutOfBody ==
    /\ pc = "perform" /\ args.timeout /\ part = "body"
    /\ Performed("timeout")
    /\ UNCHANGED <<request, heap, body, hdrs, upstream, rc>>

\* CURLOPT_TIMEOUT_MS bounds the whole transfer, when the caller asked for it.
Timeout ==
    /\ pc = "perform" /\ args.timeout
    /\ Performed("timeout")
    /\ UNCHANGED <<request, heap, body, hdrs, upstream, rc>>

\* The connection breaks, or the body exceeds CURLOPT_MAXFILESIZE_LARGE.
Break ==
    /\ pc = "perform"
    /\ Performed("error")
    /\ UNCHANGED <<request, heap, body, hdrs, upstream, rc>>

-----------------------------------------------------------------------------
\* Mutant: curl's code is passed on where none is expected.
VerdictRaw(code, st) ==
    IF code = "ok" THEN IF st >= 400 THEN "HTTP_ERROR" ELSE "OK"
    ELSE IF code = "timeout" THEN "TIMEOUT"
    ELSE code

\* Mutant: the status is not looked at.
VerdictAnyStatus(code, st) ==
    IF code = "ok" THEN "OK" ELSE IF code = "timeout" THEN "TIMEOUT" ELSE "ERR"

\* The tail of httpc_request.  The buffers now belong to the response.  (curl has
\* "http_returned_error" for callers that set CURLOPT_FAILONERROR; this one does
\* not.)
Verdict(code, st) ==
    IF code = "ok" THEN IF st >= 400 THEN "HTTP_ERROR" ELSE "OK"
    ELSE IF code = "timeout" THEN "TIMEOUT"
    ELSE IF code = "http_returned_error" THEN "HTTP_ERROR"
    ELSE "ERR"

\* Mutant: the header list is not freed.
ReturnKeepsList ==
    /\ pc = "performed"
    /\ rc' = Verdict(cc, status)
    /\ heap' = heap \ {Curl}
    /\ slist' = 0
    /\ pc' = "returned"
    /\ UNCHANGED <<args, out, lost, body, hdrs, upstream, cc>>

Return ==
    /\ pc = "performed"
    /\ rc' = Verdict(cc, status)
    /\ heap' = heap \ (Objs("slist", slist) \cup {Curl})
    /\ slist' = 0
    /\ pc' = "returned"
    /\ UNCHANGED <<args, out, lost, body, hdrs, upstream, cc>>

\* What httpc_response_free frees when it is given *out.
Owned ==
    IF ~out THEN {}
    ELSE {Resp} \cup (IF body.cap > 0 THEN {Obj("body", 0)} ELSE {})
         \cup (IF hdrs.cap > 0 THEN {Obj("arr", 0)} ELSE {})
         \cup Objs("name", Len(hdrs.data)) \cup Objs("value", Len(hdrs.data))

httpc_response_free ==
    /\ pc = "returned"
    /\ heap' = heap \ Owned
    /\ out' = FALSE /\ body' = NoBuffer /\ hdrs' = NoBuffer
    /\ pc' = "freed"
    /\ UNCHANGED <<args, slist, lost, upstream, cc, rc>>

\* The caller is done with the response.
Done == pc = "freed" /\ UNCHANGED vars

Transfer ==
    \/ \E field \in BOOLEAN : header_write_cb(field)
    \/ \E n \in 1..MaxBody : body_write_cb(n)
    \/ Redirect \/ FinalHead \/ Complete

Next ==
    \/ Entry \/ Setup \/ AppendHeader
    \/ Transfer \/ Timeout \/ Break
    \/ Return \/ httpc_response_free \/ Done

\* Nothing is assumed of the upstream: only the caller's own steps and curl's
\* timer are fair.
Spec ==
    /\ Init /\ [][Next]_vars
    /\ WF_vars(Entry \/ Setup \/ AppendHeader \/ Return)
    /\ WF_vars(Timeout)

-----------------------------------------------------------------------------
(* Properties *)

\* Type invariant.
TypeOK ==
    /\ pc \in {"entry", "setup", "headers", "perform", "performed", "returned", "freed"}
    /\ args \in Calls /\ out \in BOOLEAN
    /\ slist \in Nat /\ lost \in Nat
    /\ body \in [data: Seq(Nat), cap: Nat]
    /\ hdrs \in [data: Seq(Nat), cap: Nat]
    /\ hop \in Nat /\ part \in {"head", "body"} /\ status \in Nat
    /\ total \in Nat /\ at \in Nat /\ fields \in Nat
    /\ cc \in {"none", "ok", "timeout", "error"}
    /\ rc \in {"none", "OK", "HTTP_ERROR", "TIMEOUT", "ERR"}

\* The buffers' bookkeeping: every byte and its terminator, and every header
\* entry, lie inside what was allocated, over any sequence of chunk sizes.
InBounds ==
    /\ body = NoBuffer \/ Len(body.data) + 1 <= body.cap
    /\ Len(hdrs.data) <= hdrs.cap

\* A response that is reported as one holds the upstream's data, all of it and
\* in order: a transfer that stops half-way, or a buffer that cannot grow, is
\* never mistaken for a short subscription.
WholeResponse ==
    pc = "returned" /\ rc \in {"OK", "HTTP_ERROR"} =>
        /\ body.data = [i \in 1..total |-> i]
        /\ hdrs.data = [k \in 1..fields |-> k]

\* handle_convert reads resp->status and resp->body exactly after these codes,
\* and expects the status classes that belong to them.
OutUsable ==
    pc = "returned" =>
        /\ rc # "ERR" => out
        /\ rc = "OK" => status < 400
        /\ rc = "HTTP_ERROR" => status >= 400

\* Whatever fails in between, the caller gets everything that was allocated
\* through *out and frees it with httpc_response_free; only the entries of a
\* header list that curl_slist_append failed to extend stay behind.
NoLeak ==
    /\ pc = "returned" => heap = Owned \cup Objs("slist", lost)
    /\ pc = "freed" => heap = Objs("slist", lost)

\* A call with a timeout returns although the upstream stalls, redirects or
\* sends header lines for ever.
Returns == (pc = "entry" /\ args.timeout) ~> pc = "returned"
=============================================================================
