---------------------------- MODULE RequestService ----------------------------
(***************************************************************************)
(* What subconvd promises a client, without buffers, threads or upstreams:  *)
(* on each connection one request at a time is pending, and it ends with    *)
(* one response that the request justifies, or with the connection closed.  *)
(* Server implements this.                                                  *)
(***************************************************************************)
EXTENDS Naturals, Sequences

CONSTANTS
    Conns,      \* connections
    Requests,   \* requests, records as in Server
    ValidJson,  \* the bodies that are JSON
    OOM,        \* TRUE: the server may run short of memory
    None

VARIABLES
    st,   \* what a client sees of its connection
    rq,   \* the pending request
    ans   \* the response to the last request

vars == <<st, rq, ans>>

MethodOf(path) == IF path = "/convert/manual" THEN "POST" ELSE "GET"
Known(r)       == r.path # "other"
WrongMethod(r) == Known(r) /\ r.method # MethodOf(r.path)
Conversion(r)  == r.path = "/convert" /\ ~WrongMethod(r)
Complete(r)    == /\ r.type = "known" /\ r.url # "absent"
                  /\ r.headers \in {"absent", "object"}
Manual(r)      == r.path = "/convert/manual" /\ ~WrongMethod(r)

BadRequest(r)  == \/ Conversion(r) /\ ~Complete(r)
                  \/ Manual(r) /\ r.body \notin ValidJson

\* The requests whose input is copied into memory of its own: a parsed body,
\* an array of headers.
Copied(r) == Manual(r) \/ (Conversion(r) /\ Complete(r) /\ r.headers = "object")

\* The responses a request justifies, status by status; without memory a good
\* request with something to copy may be called bad, and no other.
Promised(r, a) ==
    /\ a.status \in {200, 400, 404, 405, 422, 502, 504}
    /\ a.status = 404 <=> ~Known(r)
    /\ a.status = 405 <=> WrongMethod(r)
    /\ a.status \in {422, 502, 504} => Conversion(r) /\ Complete(r)
    /\ BadRequest(r) => a.status = 400
    /\ a.status = 400 => BadRequest(r) \/ (OOM /\ Copied(r))
    /\ a.echo # << >> <=> Manual(r) /\ a.status = 200
    /\ a.echo # << >> => a.echo = r.body

Init ==
    /\ st = [c \in Conns |-> "closed"]
    /\ rq = [c \in Conns |-> None]
    /\ ans = [c \in Conns |-> None]

Accept(c) ==
    /\ st[c] = "closed"
    /\ st' = [st EXCEPT ![c] = "idle"]
    /\ UNCHANGED <<rq, ans>>

\* A client may connect and submit in one go.
Submit(c) ==
    /\ st[c] \in {"closed", "idle"}
    /\ \E r \in Requests : rq' = [rq EXCEPT ![c] = r]
    /\ st' = [st EXCEPT ![c] = "pending"]
    /\ ans' = [ans EXCEPT ![c] = None]

Respond(c) ==
    /\ st[c] = "pending"
    /\ st' = [st EXCEPT ![c] = "idle"]
    /\ rq' = [rq EXCEPT ![c] = None]
    /\ ans'[c] # None /\ Promised(rq[c], ans'[c])
    /\ ans' = [ans EXCEPT ![c] = ans'[c]]

Drop(c) ==
    /\ st[c] # "closed"
    /\ st' = [st EXCEPT ![c] = "closed"]
    /\ rq' = [rq EXCEPT ![c] = None]
    /\ ans' = [ans EXCEPT ![c] = None]

Next == \E c \in Conns : Accept(c) \/ Submit(c) \/ Respond(c) \/ Drop(c)

SafeSpec == Init /\ [][Next]_vars

\* A pending request does not stay pending.
Settled == \A c \in Conns : st[c] = "pending" ~> st[c] # "pending"

Spec == SafeSpec /\ Settled
=============================================================================
