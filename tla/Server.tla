------------------------------- MODULE Server -------------------------------
(***************************************************************************)
(* The HTTP front end of subconvd (server.c) on libmicrohttpd's single     *)
(* internal polling thread.  One thread reads every socket, calls          *)
(* handler_cb and cleanup_cb, and runs the upstream fetch of /convert      *)
(* INSIDE handler_cb: while it is in httpc_request no other connection     *)
(* moves, but clients keep connecting, sending and hanging up.             *)
(*                                                                         *)
(* A request body is a sequence of chunks; the strbuf handler_cb allocates *)
(* per request is a heap cell of Bufs.  malloc is modelled with its        *)
(* failure (OOM); xstrdup and strbuf_grow abort the process on failure,    *)
(* which is a crash and belongs to Subconvd.                               *)
(***************************************************************************)
EXTENDS Naturals, Sequences, FiniteSets

CONSTANTS
    Conns,      \* connection slots of the daemon
    Bufs,       \* heap cells malloc can return for a per-request strbuf
    Chunks,     \* pieces of a request body
    Requests,   \* the requests clients send
    SelfTarget, \* the request an upstream URL naming this daemon denotes
    ValidJson,  \* the bodies for which jsonx_parse returns an object
    OOM,        \* TRUE: a malloc that the code checks may fail
    None        \* a NULL pointer

Paths   == {"/", "/health", "/convert", "/convert/manual", "other"}
Request == [path: Paths, method: {"GET", "POST"},
            type: {"absent", "unknown", "known"},
            url: {"absent", "upstream", "self"},
            headers: {"absent", "object", "unusable", "malformed"},
            body: Seq(Chunks)]

Responses == [status: {200, 400, 404, 405, 422, 502, 504}, echo: Seq(Chunks)]

ASSUME ServerAssumption ==
    /\ Requests \subseteq Request
    /\ SelfTarget \in Requests
    /\ SelfTarget.body = << >>
    /\ ValidJson \subseteq Seq(Chunks) \ {<< >>}   \* "" is not JSON
    /\ OOM \in BOOLEAN
    /\ None \notin Conns \cup Bufs \cup Requests \cup Responses

VARIABLES
    phase,     \* where MHD is with each connection
    req,       \* the request each connection carries
    sent,      \* body chunks the client has put in the socket
    got,       \* body chunks MHD has taken out of it
    gone,      \* the client has closed its end
    resp,      \* the last response queued on each connection
    con_cls,   \* handler_cb's per-request pointer
    allocated, \* the heap cells in use
    data,      \* the contents of the strbuf in each cell
    thread,    \* what the polling thread is doing
    cur,       \* the connection whose handler is inside httpc_request
    via,       \* the connection a fetch from this daemon itself occupies
    temps,     \* heap objects local to handle_convert
    result,    \* what httpc_request returned
    quit       \* MHD_stop_daemon has been called

client == <<req, sent, gone>>
heap   == <<con_cls, allocated, data>>
fetch  == <<thread, cur, via, temps, result>>
vars   == <<phase, client, got, resp, heap, fetch, quit>>

Reply(status)  == [status |-> status, echo |-> << >>]

Init ==
    /\ phase = [c \in Conns |-> "closed"]
    /\ req = [c \in Conns |-> None]
    /\ sent = [c \in Conns |-> 0]
    /\ got = [c \in Conns |-> 0]
    /\ gone = [c \in Conns |-> FALSE]
    /\ resp = [c \in Conns |-> None]
    /\ con_cls = [c \in Conns |-> None]
    /\ allocated = {}
    /\ data = [b \in Bufs |-> << >>]
    /\ thread = "poll" /\ cur = None /\ via = None /\ temps = {} /\ result = None
    /\ quit = FALSE

-----------------------------------------------------------------------------
(* The clients.  Their sends and hangups need no step of the daemon.       *)

Connect(c) ==
    /\ phase[c] = "closed" /\ ~quit
    /\ phase' = [phase EXCEPT ![c] = "idle"]
    /\ UNCHANGED <<client, got, resp, heap, fetch, quit>>

SendHead(c, r) ==
    /\ phase[c] = "idle" /\ ~gone[c]
    /\ phase' = [phase EXCEPT ![c] = "head"]
    /\ req' = [req EXCEPT ![c] = r]
    /\ sent' = [sent EXCEPT ![c] = 0]
    /\ got' = [got EXCEPT ![c] = 0]
    /\ resp' = [resp EXCEPT ![c] = None]
    /\ UNCHANGED <<gone, heap, fetch, quit>>

SendChunk(c) ==
    /\ phase[c] \in {"head", "body"} /\ ~gone[c]
    /\ sent[c] < Len(req[c].body)
    /\ sent' = [sent EXCEPT ![c] = @ + 1]
    /\ UNCHANGED <<phase, req, gone, got, resp, heap, fetch, quit>>

Hangup(c) ==
    /\ phase[c] # "closed" /\ ~gone[c] /\ c # via
    /\ gone' = [gone EXCEPT ![c] = TRUE]
    /\ UNCHANGED <<phase, req, sent, got, resp, heap, fetch, quit>>

-----------------------------------------------------------------------------
\* Mutant: the daemon serves other connections while a handler fetches.
ThreadFreeInFetch ==
    thread = "poll" \/ (thread = "fetch" /\ ~quit /\ ~gone[cur])

\* MHD_USE_INTERNAL_POLLING_THREAD: one thread runs every callback.
ThreadFree == thread = "poll"

(* The end of a request or connection: MHD calls cleanup_cb, then forgets   *)
(* the per-request pointer.                                                 *)

\* Mutant: the strbuf is forgotten, not freed.
cleanup_cb_leaks(c) ==
    /\ con_cls' = [con_cls EXCEPT ![c] = None]
    /\ UNCHANGED <<allocated, data>>

cleanup_cb(c) ==
    /\ allocated' = allocated \ {con_cls[c]}
    /\ con_cls' = [con_cls EXCEPT ![c] = None]
    /\ UNCHANGED data

Forget(c) ==      \* the slot can be accepted again
    /\ phase' = [phase EXCEPT ![c] = "closed"]
    /\ req' = [req EXCEPT ![c] = None]
    /\ sent' = [sent EXCEPT ![c] = 0]
    /\ got' = [got EXCEPT ![c] = 0]
    /\ gone' = [gone EXCEPT ![c] = FALSE]
    /\ resp' = [resp EXCEPT ![c] = None]

Close(c) ==
    /\ cleanup_cb(c)
    /\ Forget(c)
    /\ UNCHANGED quit

\* The tail of handler_cb's last call: route_request has returned, the strbuf
\* is freed and the pointer cleared.  A NULL MHD_create_response makes the
\* handler return MHD_NO and MHD close the connection.
Answer(c, response) ==
    /\ allocated' = allocated \ {con_cls[c]}
    /\ con_cls' = [con_cls EXCEPT ![c] = None]
    /\ \/ /\ phase' = [phase EXCEPT ![c] = "reply"]
          /\ resp' = [resp EXCEPT ![c] = response]
          /\ UNCHANGED <<req, sent, got, gone>>
       \/ OOM /\ Forget(c)
    /\ UNCHANGED <<data, quit>>

-----------------------------------------------------------------------------
(* handler_cb *)

\* Mutant: no strbuf_init; the cell keeps what an earlier request left in it.
FirstCallStale(c) ==
    /\ ThreadFree /\ phase[c] = "head"
    /\ \E b \in Bufs \ allocated :
         /\ allocated' = allocated \cup {b}
         /\ con_cls' = [con_cls EXCEPT ![c] = b]
         /\ phase' = [phase EXCEPT ![c] = "body"]
    /\ UNCHANGED <<client, got, resp, data, fetch, quit>>

\* First call for a request: *con_cls is NULL, the strbuf is allocated.
FirstCall(c) ==
    /\ ThreadFree /\ phase[c] = "head"
    /\ \/ \E b \in Bufs \ allocated :
            /\ allocated' = allocated \cup {b}
            /\ data' = [data EXCEPT ![b] = << >>]
            /\ con_cls' = [con_cls EXCEPT ![c] = b]
            /\ phase' = [phase EXCEPT ![c] = "body"]
            /\ UNCHANGED <<client, got, resp, quit>>
       \/ OOM /\ Close(c)
    /\ UNCHANGED fetch

\* An upload call takes any amount of what the socket holds.
UploadCall(c) ==
    /\ ThreadFree /\ phase[c] = "body" /\ got[c] < sent[c]
    /\ \E upto \in (got[c] + 1)..sent[c] :
         /\ data' = [data EXCEPT ![con_cls[c]] =
                       @ \o SubSeq(req[c].body, got[c] + 1, upto)]
         /\ got' = [got EXCEPT ![c] = upto]
    /\ UNCHANGED <<phase, client, resp, con_cls, allocated, fetch, quit>>

\* No status yet: handle_convert goes on.
Proceed == 0

\* handle_convert up to the fetch: the status it answers with, or Proceed.
ConvertCheck(r) ==
    IF r.method # "GET" THEN 405
    ELSE IF r.type # "known" THEN 400
    ELSE IF r.url = "absent" THEN 400
    ELSE IF r.headers \in {"unusable", "malformed"} THEN 400
    ELSE Proceed

\* Mutant: the method is not looked at.
ConvertManualAnyMethod(r, body) ==
    IF body \in ValidJson THEN [status |-> 200, echo |-> body] ELSE Reply(400)

\* handle_convert_manual answers a POST with the body itself when it parses.
ConvertManual(r, body) ==
    IF r.method # "POST" THEN Reply(405)
    ELSE IF body \in ValidJson THEN [status |-> 200, echo |-> body]
    ELSE Reply(400)

\* route_request for the paths that answer without a fetch.
Route(r, body) ==
    CASE r.path \in {"/", "/health"} -> Reply(IF r.method = "GET" THEN 200 ELSE 405)
      [] r.path = "/convert"         -> Reply(ConvertCheck(r))
      [] r.path = "/convert/manual"  -> ConvertManual(r, body)
      [] OTHER                       -> Reply(404)

NeedsFetch(r) == r.path = "/convert" /\ ConvertCheck(r) = Proceed

\* Mutant: a request without a body waits for one.
BodyCompleteNonEmpty(c) == phase[c] = "body" /\ got[c] > 0 /\ got[c] = Len(req[c].body)

BodyComplete(c) == phase[c] = "body" /\ got[c] = Len(req[c].body)

FinalCall(c) ==
    /\ ThreadFree /\ BodyComplete(c)
    /\ ~NeedsFetch(req[c])
    /\ \/ Answer(c, Route(req[c], data[con_cls[c]]))
       \/ /\ OOM /\ req[c].path = "/convert/manual"   \* jsonx_parse: no memory
          /\ req[c].method = "POST"
          /\ Answer(c, Reply(400))
    /\ UNCHANGED fetch

\* handle_convert enters httpc_request.  A URL that names this daemon makes
\* curl a client of a free slot (or none, when the slots are used up).
StartFetch(c) ==
    /\ ThreadFree /\ BodyComplete(c)
    /\ NeedsFetch(req[c])
    /\ thread' = "fetch" /\ cur' = c
    /\ temps' = {"resp"} \cup IF req[c].headers = "object" THEN {"hdr_arr"} ELSE {}
    /\ LET slots == {u \in Conns : phase[u] = "closed"} IN
       \/ /\ req[c].url = "self" /\ slots # {} /\ ~quit
          /\ \E u \in slots :
               /\ via' = u
               /\ phase' = [phase EXCEPT ![c] = "run", ![u] = "head"]
               /\ req' = [req EXCEPT ![u] = SelfTarget]
       \/ /\ req[c].url # "self" \/ slots = {} \/ quit
          /\ via' = None
          /\ phase' = [phase EXCEPT ![c] = "run"]
          /\ UNCHANGED req
    /\ UNCHANGED <<sent, got, gone, resp, heap, result, quit>>

\* No memory for the header array: handle_convert answers 400.
HeadersNoMemory(c) ==
    /\ OOM /\ ThreadFree /\ BodyComplete(c)
    /\ NeedsFetch(req[c]) /\ req[c].headers = "object"
    /\ Answer(c, Reply(400))
    /\ UNCHANGED fetch

-----------------------------------------------------------------------------
(* Inside handle_convert, behind httpc_request *)

Outcomes == [rc: {"OK", "HTTP_ERROR", "TIMEOUT", "ERR"}, status: Nat]
Outcome(rc, status) == [rc |-> rc, status |-> status]
TimedOut == Outcome("TIMEOUT", 0)
Failed   == Outcome("ERR", 0)
FromStatus(s) == Outcome(IF s >= 400 THEN "HTTP_ERROR" ELSE "OK", s)

\* What httpc_request can come back with.  timeout_ms bounds every fetch.
FetchOutcomes ==
    {TimedOut} \cup
    IF req[cur].url # "self" THEN {Failed} \cup {FromStatus(s) : s \in {200, 204, 404}}
    ELSE IF via = None THEN {Failed}
    ELSE IF phase[via] = "reply" THEN {FromStatus(resp[via].status)}
    ELSE {}

\* Mutant: the upstream's status is passed on.
FetchStatusPassedOn(o) ==
    IF o.rc = "TIMEOUT" THEN 504
    ELSE IF o.rc = "ERR" THEN 502
    ELSE IF o.status # 200 THEN o.status
    ELSE Proceed

FetchStatus(o) ==
    IF o.rc = "TIMEOUT" THEN 504
    ELSE IF o.rc = "ERR" THEN 502
    ELSE IF o.rc = "HTTP_ERROR" \/ o.status # 200 THEN 502
    ELSE Proceed

\* httpc_request returns: the header array is freed, and curl closes the
\* connection it had to this daemon.
FetchReturn ==
    /\ thread = "fetch"
    /\ result' \in FetchOutcomes
    /\ thread' = "fetched"
    /\ temps' = temps \ {"hdr_arr"}
    /\ via' = None
    /\ gone' = [c \in Conns |-> gone[c] \/ c = via]
    /\ UNCHANGED <<phase, req, sent, got, resp, heap, cur, quit>>

\* Mutant: the upstream response is not freed.
LeaveKeepsResponse(status) ==
    /\ Answer(cur, Reply(status))
    /\ thread' = "poll" /\ cur' = None /\ result' = None
    /\ UNCHANGED <<via, temps>>

\* The thread leaves handler_cb with a response for cur; every branch has
\* freed the upstream response (httpc_response_free).
Leave(status) ==
    /\ Answer(cur, Reply(status))
    /\ thread' = "poll" /\ cur' = None /\ result' = None
    /\ temps' = temps \ {"resp"}
    /\ UNCHANGED via

\* The error branches behind httpc_request.
RejectFetch ==
    /\ thread = "fetched"
    /\ FetchStatus(result) # Proceed
    /\ Leave(FetchStatus(result))

\* conv->run on the body: YAML, or data that is not convertible.
RunConverter ==
    /\ thread = "fetched"
    /\ FetchStatus(result) = Proceed
    /\ \E status \in {200, 422} : Leave(status)

-----------------------------------------------------------------------------
(* The rest of MHD's loop *)

\* The response is written and the connection waits for another request (a
\* client that is done hangs up).
SendReply(c) ==
    /\ ThreadFree /\ phase[c] = "reply"
    /\ cleanup_cb(c)
    /\ phase' = [phase EXCEPT ![c] = "idle"]
    /\ UNCHANGED <<client, got, resp, fetch, quit>>

\* MHD reads end-of-file or fails to write.
NoticeHangup(c) ==
    /\ ThreadFree /\ phase[c] # "closed" /\ gone[c]
    /\ Close(c)
    /\ UNCHANGED fetch

\* Mutant: only a connection without a request times out.
QuietWhenIdle(c) == phase[c] = "idle"

\* The 30 s inactivity timer: nothing to read on the connection, or a response
\* that stayed unsent.  A fetch that runs into its own 30 s timeout leaves its
\* connection without activity for just as long, so either may happen to a 504.
Quiet(c) ==
    \/ phase[c] = "idle"
    \/ phase[c] = "body" /\ got[c] = sent[c] /\ ~BodyComplete(c)
    \/ phase[c] = "reply"

InactivityClose(c) ==
    /\ ThreadFree /\ Quiet(c) /\ ~gone[c]
    /\ Close(c)
    /\ UNCHANGED fetch

\* MHD_stop_daemon: the flag is raised by another thread, the loop sees it when
\* the handler it is in has returned, and every connection is closed.
RequestStop ==
    /\ ~quit
    /\ quit' = TRUE
    /\ UNCHANGED <<phase, client, got, resp, heap, fetch>>

LeaveLoop ==
    /\ ThreadFree /\ quit
    /\ thread' = "drain"
    /\ UNCHANGED <<phase, client, got, resp, heap, cur, via, temps, result, quit>>

CloseOnStop(c) ==
    /\ thread = "drain" /\ phase[c] # "closed"
    /\ Close(c)
    /\ UNCHANGED fetch

\* Mutant: the thread exits with connections open.
ThreadExitEarly ==
    /\ thread = "drain"
    /\ thread' = "exited"
    /\ UNCHANGED <<phase, client, got, resp, heap, cur, via, temps, result, quit>>

ThreadExit ==
    /\ thread = "drain" /\ \A c \in Conns : phase[c] = "closed"
    /\ thread' = "exited"
    /\ UNCHANGED <<phase, client, got, resp, heap, cur, via, temps, result, quit>>

-----------------------------------------------------------------------------
Client(c) ==
    \/ Connect(c)
    \/ \E r \in Requests : SendHead(c, r)
    \/ SendChunk(c)
    \/ Hangup(c)

\* One visit of MHD's loop to a connection that has something to do.
Serve(c) ==
    \/ FirstCall(c) \/ UploadCall(c) \/ FinalCall(c) \/ StartFetch(c)
    \/ HeadersNoMemory(c) \/ SendReply(c)
    \/ NoticeHangup(c) \/ InactivityClose(c)

Convert == FetchReturn \/ RejectFetch \/ RunConverter

Shutdown == LeaveLoop \/ (\E c \in Conns : CloseOnStop(c)) \/ ThreadExit

\* The thread is gone and so are its connections: nothing is left to happen.
Terminated ==
    /\ thread = "exited"
    /\ UNCHANGED vars

Next ==
    \/ \E c \in Conns : Client(c) \/ Serve(c)
    \/ Convert
    \/ RequestStop
    \/ Shutdown
    \/ Terminated

\* The loop visits every connection with work in every round, and looks at the
\* stop flag: strong fairness, since a fetch disables all of it for a while.
\* curl's timeout and the converters' termination give the fetch weak fairness.
Fairness ==
    /\ \A c \in Conns : SF_vars(Serve(c))
    /\ WF_vars(Convert)
    /\ SF_vars(Shutdown)

Spec == Init /\ [][Next]_vars /\ Fairness
-----------------------------------------------------------------------------
(* Properties *)

\* Type invariant.
TypeOK ==
    /\ phase \in [Conns -> {"closed", "idle", "head", "body", "run", "reply"}]
    /\ req \in [Conns -> Requests \cup {None}]
    /\ sent \in [Conns -> Nat] /\ got \in [Conns -> Nat]
    /\ gone \in [Conns -> BOOLEAN]
    /\ resp \in [Conns -> Responses \cup {None}]
    /\ con_cls \in [Conns -> Bufs \cup {None}]
    /\ allocated \in SUBSET Bufs
    /\ data \in [Bufs -> Seq(Chunks)]
    /\ thread \in {"poll", "fetch", "fetched", "drain", "exited"}
    /\ cur \in Conns \cup {None} /\ via \in Conns \cup {None}
    /\ temps \in SUBSET {"hdr_arr", "resp"}
    /\ result \in Outcomes \cup {None}
    /\ quit \in BOOLEAN

\* Every strbuf on the heap belongs to exactly one request that still needs it:
\* handler_cb's three calls, cleanup_cb, keep-alive, hangups, timeouts and
\* daemon stop together neither leak a buffer, free one twice, share one, nor
\* leave con_cls pointing at freed memory.
Ownership ==
    /\ \A c \in Conns : con_cls[c] # None => con_cls[c] \in allocated
    /\ \A b \in allocated : \E c \in Conns : con_cls[c] = b
    /\ \A c, d \in Conns : con_cls[c] = con_cls[d] /\ con_cls[c] # None => c = d
    /\ \A c \in Conns : con_cls[c] # None <=> phase[c] \in {"body", "run"}

\* The strbuf of a request holds exactly the part of ITS OWN body that MHD has
\* handed over: nothing lost, repeated, reordered, or left from an earlier
\* request on the same connection or in the same heap cell.
BodyIntegrity ==
    \A c \in Conns :
        phase[c] = "body" => data[con_cls[c]] = SubSeq(req[c].body, 1, got[c])

\* handle_convert's own allocations (the forwarded header array, the upstream
\* response) are gone whenever the thread is back in MHD's loop.
NoTempLeak ==
    /\ thread # "fetch" => "hdr_arr" \notin temps
    /\ thread \notin {"fetch", "fetched"} => temps = {} /\ cur = None

\* A conversion whose upstream is this daemon never gets data: the thread that
\* would serve it is the one that waits for it, so it can only fail, and never
\* ends in a conversion (200) or a complaint about the data (422).
SelfFetchFails ==
    \A c \in Conns :
        /\ phase[c] = "reply" /\ NeedsFetch(req[c]) /\ req[c].url = "self"
        => resp[c].status \notin {200, 422}

\* Once the polling thread has exited nothing is left: no buffer, no temporary,
\* no open connection, and server_stop may free the server.
CleanExit ==
    thread = "exited" =>
        /\ allocated = {} /\ temps = {}
        /\ \A c \in Conns : phase[c] = "closed" /\ con_cls[c] = None

\* The client's view: a response counts once it has been written.
Service == INSTANCE RequestService WITH
    st  <- [c \in Conns |-> IF phase[c] \in {"closed", "idle"} THEN phase[c] ELSE "pending"],
    rq  <- [c \in Conns |-> IF phase[c] \in {"closed", "idle"} THEN None ELSE req[c]],
    ans <- [c \in Conns |-> IF phase[c] = "idle" THEN resp[c] ELSE None]

\* The server implements the service: whatever the interleaving, a request gets
\* one response, justified by that request, or its connection is closed.
ImplementsService == Service!SafeSpec

\* ... and it does not stay pending forever.
SettlesRequests == Service!Settled
=============================================================================
