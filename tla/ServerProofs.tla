---------------------------- MODULE ServerProofs ----------------------------
(***************************************************************************)
(* Proofs of Server's safety invariants, and that it implements             *)
(* RequestService, for any number of connections, heap cells and requests,  *)
(* with and without malloc failures.                                        *)
(*                                                                         *)
(* None of the properties is inductive on its own: who may free a buffer   *)
(* depends on where its connection and the polling thread are.  Control    *)
(* ties the thread to the connection it serves, Fetching says what a fetch *)
(* from the daemon itself can still see.                                   *)
(***************************************************************************)
EXTENDS Server, SequenceTheorems, TLAPS

Busy == thread \in {"fetch", "fetched"}

\* A connection is handled by the thread exactly when its phase says so, carries
\* a request while it is served, and its transfer counters are in order.
ConnInv(c) ==
    /\ phase[c] = "run" <=> Busy /\ cur = c
    /\ phase[c] \in {"head", "body", "run", "reply"} => req[c] \in Requests
    /\ phase[c] \in {"head", "closed"} => got[c] = 0
    /\ phase[c] = "closed" => sent[c] = 0
    /\ phase[c] \in {"head", "body"} => got[c] <= sent[c] /\ sent[c] <= Len(req[c].body)

\* The thread holds temporaries and a connection only inside handle_convert, and
\* leaves its loop only when it is told to.
ThreadInv ==
    /\ Busy <=> cur # None
    /\ ~Busy => temps = {}
    /\ thread # "fetch" => "hdr_arr" \notin temps
    /\ thread \in {"drain", "exited"} => quit
    /\ thread = "exited" => \A c \in Conns : phase[c] = "closed"

Control == ThreadInv /\ \A c \in Conns : ConnInv(c)

\* A fetch from this daemon waits for a connection that nobody serves.
Fetching ==
    /\ via # None => thread = "fetch" /\ phase[via] = "head"
    /\ thread = "fetched" => result \in Outcomes
    /\ thread = "fetched" /\ req[cur].url = "self" => result \in {TimedOut, Failed}

Inv ==
    /\ TypeOK
    /\ Ownership
    /\ Control
    /\ Fetching
    /\ BodyIntegrity
    /\ SelfFetchFails

-----------------------------------------------------------------------------
(* The operators *)

\* A request that needs no fetch is answered with a status of the service.
LEMMA RouteType ==
    ASSUME NEW r \in Requests, NEW body \in Seq(Chunks), ~NeedsFetch(r)
    PROVE  Route(r, body) \in Responses
<1>1. r.path \in Paths
    BY ServerAssumption DEF Request
<1>2. \A s \in {200, 400, 404, 405} : Reply(s) \in Responses
    BY DEF Reply, Responses
<1>3. ConvertCheck(r) \in {400, 405, Proceed}
    BY DEF ConvertCheck
<1>4. CASE r.path \in {"/", "/health"}
    BY <1>2, <1>4 DEF Route
<1>5. CASE r.path = "/convert"
    BY <1>2, <1>3, <1>5 DEF Route, NeedsFetch
<1>6. CASE r.path = "/convert/manual"
    <2>1. ConvertManual(r, body) \in Responses
        BY <1>2 DEF ConvertManual, Responses
    <2> QED
        BY <1>6, <2>1 DEF Route
<1>7. CASE r.path = "other"
    BY <1>2, <1>7 DEF Route
<1> QED
    BY <1>1, <1>4, <1>5, <1>6, <1>7 DEF Paths

\* What httpc_request returns is an outcome; a failed one has an error status;
\* a fetch from the daemon itself can only fail.
LEMMA FetchType ==
    /\ \A o \in Outcomes : FetchStatus(o) \in {502, 504, Proceed}
    /\ FetchStatus(TimedOut) = 504 /\ FetchStatus(Failed) = 502
    /\ Fetching /\ thread = "fetch" =>
         /\ FetchOutcomes \subseteq Outcomes
         /\ req[cur].url = "self" => FetchOutcomes \subseteq {TimedOut, Failed}
<1>1. \A o \in Outcomes : FetchStatus(o) \in {502, 504, Proceed}
    BY DEF FetchStatus
<1>2. FetchStatus(TimedOut) = 504 /\ FetchStatus(Failed) = 502
    BY DEF FetchStatus, TimedOut, Failed, Outcome
<1>3. TimedOut \in Outcomes /\ Failed \in Outcomes
    BY DEF TimedOut, Failed, Outcome, Outcomes
<1>4. \A s \in Nat : FromStatus(s) \in Outcomes
    BY DEF FromStatus, Outcome, Outcomes
<1>5. ASSUME Fetching, thread = "fetch"
      PROVE  /\ FetchOutcomes \subseteq Outcomes
             /\ req[cur].url = "self" => FetchOutcomes \subseteq {TimedOut, Failed}
    <2>1. via # None => phase[via] # "reply"
        BY <1>5 DEF Fetching
    <2>2. CASE req[cur].url # "self"
        BY <1>3, <1>4, <2>2 DEF FetchOutcomes
    <2>3. CASE req[cur].url = "self"
        BY <1>3, <2>1, <2>3 DEF FetchOutcomes
    <2> QED
        BY <2>2, <2>3
<1> QED
    BY <1>1, <1>2, <1>5

-----------------------------------------------------------------------------
(* Types *)

LEMMA ReplyType == \A s \in {200, 400, 404, 405, 422, 502, 504} : Reply(s) \in Responses
BY DEF Reply, Responses

\* MHD's slots, freed, keep their types.
LEMMA CloseType ==
    ASSUME TypeOK, NEW c \in Conns, Close(c), UNCHANGED fetch
    PROVE  TypeOK'
BY DEF TypeOK, Close, Forget, cleanup_cb, fetch

\* So does an answer.
LEMMA AnswerType ==
    ASSUME TypeOK, NEW c \in Conns, NEW r \in Responses, Answer(c, r)
    PROVE  /\ phase' \in [Conns -> {"closed", "idle", "head", "body", "run", "reply"}]
           /\ req' \in [Conns -> Requests \cup {None}]
           /\ sent' \in [Conns -> Nat] /\ got' \in [Conns -> Nat]
           /\ gone' \in [Conns -> BOOLEAN]
           /\ resp' \in [Conns -> Responses \cup {None}]
           /\ con_cls' \in [Conns -> Bufs \cup {None}]
           /\ allocated' \in SUBSET Bufs
           /\ data' \in [Bufs -> Seq(Chunks)]
           /\ quit' \in BOOLEAN
<1>1. /\ con_cls' \in [Conns -> Bufs \cup {None}]
      /\ allocated' \in SUBSET Bufs
      /\ data' \in [Bufs -> Seq(Chunks)]
      /\ quit' \in BOOLEAN
    BY DEF TypeOK, Answer
<1>2. CASE Forget(c)
    BY <1>1, <1>2 DEF TypeOK, Forget
<1>3. CASE /\ phase' = [phase EXCEPT ![c] = "reply"]
           /\ resp' = [resp EXCEPT ![c] = r]
           /\ UNCHANGED <<req, sent, got, gone>>
    BY <1>1, <1>3 DEF TypeOK
<1> QED
    BY <1>2, <1>3 DEF Answer

\* An answer given without a fetch leaves the thread as it was.
LEMMA PlainAnswerType ==
    ASSUME TypeOK, NEW c \in Conns, NEW r \in Responses, Answer(c, r), UNCHANGED fetch
    PROVE  TypeOK'
<1>1. /\ thread' \in {"poll", "fetch", "fetched", "drain", "exited"}
      /\ cur' \in Conns \cup {None} /\ via' \in Conns \cup {None}
      /\ temps' \in SUBSET {"hdr_arr", "resp"}
      /\ result' \in Outcomes \cup {None}
    BY DEF TypeOK, fetch
<1> QED
    BY <1>1, AnswerType DEF TypeOK

\* Type correctness of one step, action by action.
LEMMA TypeStep ==
    ASSUME Inv, [Next]_vars
    PROVE  TypeOK'
<1> USE ServerAssumption
<1> USE DEF Inv
<1>1. ASSUME NEW c \in Conns, Client(c)
      PROVE  TypeOK'
    <2>1. CASE Connect(c)
        BY <2>1 DEF Connect, TypeOK, client, heap, fetch
    <2>2. ASSUME NEW r \in Requests, SendHead(c, r)
          PROVE  TypeOK'
        BY <2>2 DEF SendHead, TypeOK, heap, fetch
    <2>3. CASE SendChunk(c)
        BY <2>3 DEF SendChunk, TypeOK, heap, fetch
    <2>4. CASE Hangup(c)
        BY <2>4 DEF Hangup, TypeOK, heap, fetch
    <2> QED
        BY <1>1, <2>1, <2>2, <2>3, <2>4 DEF Client
<1>2. ASSUME NEW c \in Conns, Serve(c)
      PROVE  TypeOK'
    <2>1. CASE FirstCall(c)
        <3>1. CASE Close(c) /\ UNCHANGED fetch
            BY <3>1, CloseType
        <3>2. CASE ~Close(c)
            <4>1. PICK b \in Bufs :
                      /\ allocated' = allocated \cup {b}
                      /\ data' = [data EXCEPT ![b] = << >>]
                      /\ con_cls' = [con_cls EXCEPT ![c] = b]
                      /\ phase' = [phase EXCEPT ![c] = "body"]
                      /\ UNCHANGED <<client, got, resp, quit>>
                BY <2>1, <3>2 DEF FirstCall
            <4>2. data' \in [Bufs -> Seq(Chunks)] /\ allocated' \in SUBSET Bufs
                BY <4>1 DEF TypeOK
            <4>3. con_cls' \in [Conns -> Bufs \cup {None}]
                BY <4>1 DEF TypeOK
            <4>4. phase' \in [Conns -> {"closed", "idle", "head", "body", "run", "reply"}]
                BY <4>1 DEF TypeOK
            <4>5. UNCHANGED fetch
                BY <2>1 DEF FirstCall
            <4> QED
                BY <4>1, <4>2, <4>3, <4>4, <4>5 DEF TypeOK, client, fetch
        <3> QED
            BY <2>1, <3>1, <3>2 DEF FirstCall
    <2>2. CASE UploadCall(c)
        <3>1. PICK upto \in (got[c] + 1)..sent[c] :
                  /\ data' = [data EXCEPT ![con_cls[c]] =
                                @ \o SubSeq(req[c].body, got[c] + 1, upto)]
                  /\ got' = [got EXCEPT ![c] = upto]
            BY <2>2 DEF UploadCall
        <3>2. /\ phase[c] = "body" /\ req[c] \in Requests
              /\ con_cls[c] \in Bufs
              /\ got[c] \in Nat /\ sent[c] \in Nat /\ sent[c] <= Len(req[c].body)
            BY <2>2 DEF UploadCall, Control, ConnInv, Ownership, TypeOK
        <3>3. req[c].body \in Seq(Chunks)
            BY <3>2 DEF Request
        <3>4. SubSeq(req[c].body, got[c] + 1, upto) \in Seq(Chunks)
            BY <3>2, <3>3
        <3>5. data' \in [Bufs -> Seq(Chunks)]
            BY <3>1, <3>2, <3>4 DEF TypeOK
        <3>6. got' \in [Conns -> Nat]
            BY <3>1, <3>2 DEF TypeOK
        <3> QED
            BY <2>2, <3>5, <3>6 DEF UploadCall, TypeOK, client, fetch
    <2>3. CASE FinalCall(c)
        <3>1. /\ req[c] \in Requests /\ con_cls[c] \in Bufs /\ ~NeedsFetch(req[c])
            BY <2>3 DEF FinalCall, BodyComplete, Control, ConnInv, Ownership, TypeOK
        <3>2. Route(req[c], data[con_cls[c]]) \in Responses /\ Reply(400) \in Responses
            BY <3>1, RouteType, ReplyType DEF TypeOK
        <3>3. PICK r \in Responses : Answer(c, r)
            BY <2>3, <3>2 DEF FinalCall
        <3>4. UNCHANGED fetch
            BY <2>3 DEF FinalCall
        <3> QED
            BY <3>3, <3>4, PlainAnswerType
    <2>4. CASE StartFetch(c)
        <3>1. PICK u \in Conns \cup {None} :
                  /\ via' = u
                  /\ \/ /\ u \in Conns
                        /\ phase' = [phase EXCEPT ![c] = "run", ![u] = "head"]
                        /\ req' = [req EXCEPT ![u] = SelfTarget]
                     \/ /\ phase' = [phase EXCEPT ![c] = "run"]
                        /\ UNCHANGED req
            BY <2>4 DEF StartFetch
        <3>2. phase' \in [Conns -> {"closed", "idle", "head", "body", "run", "reply"}]
            BY <3>1 DEF TypeOK
        <3>3. req' \in [Conns -> Requests \cup {None}]
            <4>1. req \in [Conns -> Requests \cup {None}] /\ SelfTarget \in Requests
                BY DEF TypeOK
            <4>2. CASE req' = [req EXCEPT ![u] = SelfTarget]
                BY <4>1, <4>2
            <4>3. CASE req' = req
                BY <4>1, <4>3
            <4> QED
                BY <3>1, <4>2, <4>3
        <3>4. temps' \in SUBSET {"hdr_arr", "resp"}
            BY <2>4 DEF StartFetch
        <3>5. /\ thread' = "fetch" /\ cur' = c
              /\ UNCHANGED <<sent, got, gone, resp, heap, result, quit>>
            BY <2>4 DEF StartFetch
        <3>6. /\ thread' \in {"poll", "fetch", "fetched", "drain", "exited"}
              /\ cur' \in Conns \cup {None} /\ via' \in Conns \cup {None}
            BY <3>1, <3>5
        <3> QED
            BY <3>2, <3>3, <3>4, <3>5, <3>6 DEF TypeOK, heap
    <2>5. CASE HeadersNoMemory(c)
        <3>1. Answer(c, Reply(400)) /\ UNCHANGED fetch
            BY <2>5 DEF HeadersNoMemory
        <3>2. Reply(400) \in Responses
            BY ReplyType
        <3> QED
            BY <3>1, <3>2, PlainAnswerType
    <2>6. CASE SendReply(c)
        BY <2>6 DEF SendReply, cleanup_cb, TypeOK, client, fetch
    <2>7. CASE NoticeHangup(c) \/ InactivityClose(c)
        BY <2>7, CloseType DEF NoticeHangup, InactivityClose
    <2> QED
        BY <1>2, <2>1, <2>2, <2>3, <2>4, <2>5, <2>6, <2>7 DEF Serve
<1>3. CASE Convert
    <2>1. CASE FetchReturn
        <3>1. result' \in Outcomes
            BY <2>1, FetchType DEF FetchReturn
        <3>2. gone' \in [Conns -> BOOLEAN]
            BY <2>1 DEF FetchReturn, TypeOK
        <3> QED
            BY <2>1, <3>1, <3>2 DEF FetchReturn, TypeOK, heap
    <2>2. ASSUME NEW s \in {200, 422, 502, 504}, Leave(s), thread = "fetched"
          PROVE  TypeOK'
        <3>1. cur \in Conns
            BY <2>2 DEF Control, ThreadInv, Busy, TypeOK
        <3>2. Reply(s) \in Responses
            BY ReplyType
        <3>3. Answer(cur, Reply(s))
            BY <2>2 DEF Leave
        <3>4. /\ thread' = "poll" /\ cur' = None /\ result' = None /\ via' = via
              /\ temps' = temps \ {"resp"}
            BY <2>2 DEF Leave
        <3> QED
            BY <3>1, <3>2, <3>3, <3>4, AnswerType DEF TypeOK
    <2>3. CASE RejectFetch
        <3>1. FetchStatus(result) \in {502, 504}
            BY <2>3, FetchType DEF RejectFetch, Fetching
        <3> QED
            BY <2>2, <2>3, <3>1 DEF RejectFetch
    <2>4. CASE RunConverter
        BY <2>2, <2>4 DEF RunConverter
    <2> QED
        BY <1>3, <2>1, <2>3, <2>4 DEF Convert
<1>4. CASE RequestStop
    BY <1>4 DEF RequestStop, TypeOK, client, heap, fetch
<1>5. CASE Shutdown
    <2>1. CASE LeaveLoop \/ ThreadExit
        BY <2>1 DEF LeaveLoop, ThreadExit, TypeOK, client, heap
    <2>2. ASSUME NEW c \in Conns, CloseOnStop(c)
          PROVE  TypeOK'
        BY <2>2, CloseType DEF CloseOnStop
    <2> QED
        BY <1>5, <2>1, <2>2 DEF Shutdown
<1>6. CASE UNCHANGED vars
    BY <1>6 DEF vars, client, heap, fetch, TypeOK
<1> QED
    BY <1>1, <1>2, <1>3, <1>4, <1>5, <1>6 DEF Next, Terminated

-----------------------------------------------------------------------------
(* Ownership *)

\* Releasing c's buffer, if it has one, keeps every other buffer owned.
LEMMA ReleaseOwnership ==
    ASSUME TypeOK, Ownership, NEW c \in Conns,
           allocated' = allocated \ {con_cls[c]},
           con_cls' = [con_cls EXCEPT ![c] = None],
           phase'[c] \notin {"body", "run"},
           \A d \in Conns \ {c} : phase'[d] = phase[d]
    PROVE  Ownership'
<1>1. con_cls'[c] = None /\ \A d \in Conns \ {c} : con_cls'[d] = con_cls[d]
    BY DEF TypeOK
<1>2. \A d \in Conns : con_cls'[d] # None => con_cls'[d] \in allocated'
    BY <1>1 DEF Ownership
<1>3. \A b \in allocated' : \E d \in Conns : con_cls'[d] = b
    BY <1>1 DEF Ownership
<1>4. \A d, e \in Conns : con_cls'[d] = con_cls'[e] /\ con_cls'[d] # None => d = e
    BY <1>1 DEF Ownership
<1>5. \A d \in Conns : con_cls'[d] # None <=> phase'[d] \in {"body", "run"}
    BY <1>1 DEF Ownership
<1> QED
    BY <1>2, <1>3, <1>4, <1>5 DEF Ownership

\* A step that touches neither the heap nor who needs a buffer.
LEMMA SameOwnership ==
    ASSUME Ownership, con_cls' = con_cls, allocated' = allocated,
           \A d \in Conns : phase'[d] \in {"body", "run"} <=> phase[d] \in {"body", "run"}
    PROVE  Ownership'
BY DEF Ownership

LEMMA CloseOwnership ==
    ASSUME TypeOK, Ownership, NEW c \in Conns, Close(c)
    PROVE  Ownership'
<1>1. /\ allocated' = allocated \ {con_cls[c]}
      /\ con_cls' = [con_cls EXCEPT ![c] = None]
      /\ phase' = [phase EXCEPT ![c] = "closed"]
    BY DEF Close, cleanup_cb, Forget
<1>2. phase'[c] = "closed" /\ \A d \in Conns \ {c} : phase'[d] = phase[d]
    BY <1>1 DEF TypeOK
<1> QED
    BY <1>1, <1>2, ReleaseOwnership

LEMMA AnswerOwnership ==
    ASSUME TypeOK, Ownership, NEW c \in Conns, NEW r, Answer(c, r)
    PROVE  Ownership'
<1>1. /\ allocated' = allocated \ {con_cls[c]}
      /\ con_cls' = [con_cls EXCEPT ![c] = None]
      /\ \/ phase' = [phase EXCEPT ![c] = "reply"]
         \/ phase' = [phase EXCEPT ![c] = "closed"]
    BY DEF Answer, Forget
<1>2. phase'[c] \in {"reply", "closed"} /\ \A d \in Conns \ {c} : phase'[d] = phase[d]
    BY <1>1 DEF TypeOK
<1> QED
    BY <1>1, <1>2, ReleaseOwnership

LEMMA OwnershipStep ==
    ASSUME Inv, [Next]_vars
    PROVE  Ownership'
<1> USE DEF Inv
<1>1. ASSUME NEW c \in Conns, Client(c)
      PROVE  Ownership'
    <2>1. con_cls' = con_cls /\ allocated' = allocated
        BY <1>1 DEF Client, Connect, SendHead, SendChunk, Hangup, heap
    <2>2. /\ \/ phase' = [phase EXCEPT ![c] = "idle"] /\ phase[c] = "closed"
             \/ phase' = [phase EXCEPT ![c] = "head"] /\ phase[c] = "idle"
             \/ phase' = phase
        BY <1>1 DEF Client, Connect, SendHead, SendChunk, Hangup
    <2> QED
        BY <2>1, <2>2, SameOwnership DEF TypeOK
<1>2. ASSUME NEW c \in Conns, Serve(c)
      PROVE  Ownership'
    <2>1. CASE FirstCall(c)
        <3>1. CASE Close(c)
            BY <3>1, CloseOwnership
        <3>2. CASE ~Close(c)
            <4>1. PICK b \in Bufs \ allocated :
                      /\ allocated' = allocated \cup {b}
                      /\ con_cls' = [con_cls EXCEPT ![c] = b]
                      /\ phase' = [phase EXCEPT ![c] = "body"]
                BY <2>1, <3>2 DEF FirstCall
            <4>2. /\ con_cls'[c] = b /\ phase'[c] = "body"
                  /\ \A d \in Conns \ {c} : con_cls'[d] = con_cls[d] /\ phase'[d] = phase[d]
                  /\ b # None
                BY <4>1, ServerAssumption DEF TypeOK
            <4>3. \A d \in Conns \ {c} : con_cls'[d] # b
                BY <4>1, <4>2, ServerAssumption DEF Ownership
            <4>4. con_cls[c] = None
                BY <2>1 DEF FirstCall, Ownership
            <4>5. \A d \in Conns : con_cls'[d] # None => con_cls'[d] \in allocated'
                BY <4>1, <4>2 DEF Ownership
            <4>6. \A a \in allocated' : \E d \in Conns : con_cls'[d] = a
                <5>1. TAKE a \in allocated'
                <5>2. CASE a = b
                    BY <4>2, <5>2
                <5>3. CASE a # b
                    <6>1. a \in allocated /\ a \in Bufs
                        BY <4>1, <5>1, <5>3 DEF TypeOK
                    <6>2. PICK d \in Conns : con_cls[d] = a
                        BY <6>1 DEF Ownership
                    <6>3. d # c
                        BY <4>4, <6>1, <6>2, ServerAssumption
                    <6> QED
                        BY <4>2, <6>2, <6>3
                <5> QED
                    BY <5>2, <5>3
            <4>7. \A d, e \in Conns : con_cls'[d] = con_cls'[e] /\ con_cls'[d] # None => d = e
                BY <4>2, <4>3 DEF Ownership
            <4>8. \A d \in Conns : con_cls'[d] # None <=> phase'[d] \in {"body", "run"}
                BY <4>2 DEF Ownership
            <4> QED
                BY <4>5, <4>6, <4>7, <4>8 DEF Ownership
        <3> QED
            BY <3>1, <3>2
    <2>2. CASE UploadCall(c)
        BY <2>2, SameOwnership DEF UploadCall
    <2>3. CASE FinalCall(c)
        BY <2>3, AnswerOwnership DEF FinalCall
    <2>4. CASE StartFetch(c)
        <3>1. PICK u \in Conns \cup {None} :
                  \/ /\ u \in Conns /\ phase[u] = "closed"
                     /\ phase' = [phase EXCEPT ![c] = "run", ![u] = "head"]
                  \/ phase' = [phase EXCEPT ![c] = "run"]
            BY <2>4 DEF StartFetch
        <3>2. phase[c] = "body"
            BY <2>4 DEF StartFetch, BodyComplete
        <3>3. \A d \in Conns : phase'[d] \in {"body", "run"} <=> phase[d] \in {"body", "run"}
            BY <3>1, <3>2 DEF TypeOK
        <3> QED
            BY <2>4, <3>3, SameOwnership DEF StartFetch, heap
    <2>5. CASE HeadersNoMemory(c)
        BY <2>5, AnswerOwnership DEF HeadersNoMemory
    <2>6. CASE SendReply(c)
        <3>1. phase'[c] = "idle" /\ \A d \in Conns \ {c} : phase'[d] = phase[d]
            BY <2>6 DEF SendReply, TypeOK
        <3> QED
            BY <2>6, <3>1, ReleaseOwnership DEF SendReply, cleanup_cb
    <2>7. CASE NoticeHangup(c) \/ InactivityClose(c)
        BY <2>7, CloseOwnership DEF NoticeHangup, InactivityClose
    <2> QED
        BY <1>2, <2>1, <2>2, <2>3, <2>4, <2>5, <2>6, <2>7 DEF Serve
<1>3. CASE Convert
    <2>1. CASE FetchReturn
        BY <2>1, SameOwnership DEF FetchReturn, heap
    <2>2. ASSUME NEW s, Leave(s), thread = "fetched"
          PROVE  Ownership'
        <3>1. cur \in Conns
            BY <2>2 DEF Control, ThreadInv, Busy, TypeOK
        <3> QED
            BY <2>2, <3>1, AnswerOwnership DEF Leave
    <2> QED
        BY <1>3, <2>1, <2>2 DEF Convert, RejectFetch, RunConverter
<1>4. CASE RequestStop
    BY <1>4, SameOwnership DEF RequestStop, heap
<1>5. CASE Shutdown
    <2>1. CASE LeaveLoop \/ ThreadExit
        BY <2>1, SameOwnership DEF LeaveLoop, ThreadExit, heap
    <2>2. ASSUME NEW c \in Conns, CloseOnStop(c)
          PROVE  Ownership'
        BY <2>2, CloseOwnership DEF CloseOnStop
    <2> QED
        BY <1>5, <2>1, <2>2 DEF Shutdown
<1>6. CASE UNCHANGED vars
    BY <1>6, SameOwnership DEF vars, heap
<1> QED
    BY <1>1, <1>2, <1>3, <1>4, <1>5, <1>6 DEF Next, Terminated

-----------------------------------------------------------------------------
(* Control *)

\* A step that leaves the thread alone keeps what it says about a connection
\* that the step does not touch either.
LEMMA ConnFrame ==
    ASSUME NEW d \in Conns, ConnInv(d),
           phase'[d] = phase[d], req'[d] = req[d], sent'[d] = sent[d], got'[d] = got[d],
           thread' = thread, cur' = cur
    PROVE  ConnInv(d)'
BY DEF ConnInv, Busy

\* A slot that has been closed or answered while the thread is in its loop.
LEMMA CloseConn ==
    ASSUME TypeOK, Control, NEW c \in Conns, Forget(c), ~Busy, thread' = thread, cur' = cur
    PROVE  \A d \in Conns : ConnInv(d)'
<1>1. ConnInv(c)'
    BY DEF Forget, ConnInv, Busy, TypeOK
<1>2. ASSUME NEW d \in Conns \ {c}
      PROVE  ConnInv(d)'
    <2>1. /\ phase'[d] = phase[d] /\ req'[d] = req[d] /\ sent'[d] = sent[d]
          /\ got'[d] = got[d]
        BY DEF Forget, TypeOK
    <2> QED
        BY <2>1, ConnFrame DEF Control
<1> QED
    BY <1>1, <1>2

LEMMA AnswerConn ==
    ASSUME TypeOK, Control, NEW c \in Conns, NEW r, Answer(c, r), req[c] \in Requests,
           ~Busy', Busy => cur = c
    PROVE  \A d \in Conns : ConnInv(d)'
<1>1. CASE Forget(c)
    <2>1. ConnInv(c)'
        BY <1>1 DEF Forget, ConnInv, TypeOK
    <2>2. ASSUME NEW d \in Conns \ {c}
          PROVE  ConnInv(d)'
        <3>1. /\ phase'[d] = phase[d] /\ req'[d] = req[d] /\ sent'[d] = sent[d]
              /\ got'[d] = got[d]
            BY <1>1 DEF Forget, TypeOK
        <3>2. phase[d] # "run"
            BY DEF Control, ConnInv
        <3> QED
            BY <3>1, <3>2 DEF Control, ConnInv
    <2> QED
        BY <2>1, <2>2
<1>2. CASE /\ phase' = [phase EXCEPT ![c] = "reply"]
           /\ UNCHANGED <<req, sent, got>>
    <2>1. ConnInv(c)'
        BY <1>2 DEF ConnInv, TypeOK
    <2>2. ASSUME NEW d \in Conns \ {c}
          PROVE  ConnInv(d)'
        <3>1. phase'[d] = phase[d] /\ phase[d] # "run"
            BY <1>2 DEF Control, ConnInv, TypeOK
        <3> QED
            BY <1>2, <3>1 DEF Control, ConnInv
    <2> QED
        BY <2>1, <2>2
<1> QED
    BY <1>1, <1>2 DEF Answer

LEMMA ThreadStep ==
    ASSUME Inv, [Next]_vars
    PROVE  ThreadInv'
<1> USE DEF Inv, Control, ThreadInv, Busy
<1>1. ASSUME NEW c \in Conns, Client(c)
      PROVE  ThreadInv'
    <2>1. /\ UNCHANGED fetch /\ quit' = quit
          /\ thread = "exited" => \A d \in Conns : phase'[d] = "closed"
        <3>1. CASE Connect(c)
            BY <3>1 DEF Connect
        <3>2. CASE ~Connect(c)
            BY <1>1, <3>2 DEF Client, SendHead, SendChunk, Hangup
        <3> QED
            BY <3>1, <3>2
    <2> QED
        BY <2>1 DEF fetch
<1>2. ASSUME NEW c \in Conns, Serve(c)
      PROVE  ThreadInv'
    <2>1. CASE StartFetch(c)
        BY <2>1, ServerAssumption DEF StartFetch
    <2>2. CASE ~StartFetch(c)
        <3>1. UNCHANGED fetch /\ quit' = quit
            BY <1>2, <2>2 DEF Serve, FirstCall, UploadCall, FinalCall, HeadersNoMemory,
                SendReply, NoticeHangup, InactivityClose, Answer, Close
        <3>2. thread = "poll"
            BY <1>2, <2>2 DEF Serve, FirstCall, UploadCall, FinalCall, HeadersNoMemory,
                SendReply, NoticeHangup, InactivityClose, ThreadFree
        <3> QED
            BY <3>1, <3>2 DEF fetch
    <2> QED
        BY <2>1, <2>2
<1>3. CASE Convert
    <2>1. CASE FetchReturn
        BY <2>1 DEF FetchReturn
    <2>2. ASSUME NEW s, Leave(s), thread = "fetched"
          PROVE  ThreadInv'
        BY <2>2 DEF Leave, TypeOK
    <2> QED
        BY <1>3, <2>1, <2>2 DEF Convert, RejectFetch, RunConverter
<1>4. CASE RequestStop
    BY <1>4 DEF RequestStop, fetch
<1>5. CASE Shutdown
    <2>1. CASE LeaveLoop \/ ThreadExit
        BY <2>1 DEF LeaveLoop, ThreadExit, ThreadFree
    <2>2. ASSUME NEW c \in Conns, CloseOnStop(c)
          PROVE  ThreadInv'
        BY <2>2 DEF CloseOnStop, Close, fetch
    <2> QED
        BY <1>5, <2>1, <2>2 DEF Shutdown
<1>6. CASE UNCHANGED vars
    BY <1>6 DEF vars, fetch
<1> QED
    BY <1>1, <1>2, <1>3, <1>4, <1>5, <1>6 DEF Next, Terminated

LEMMA ControlStep ==
    ASSUME Inv, [Next]_vars
    PROVE  Control'
<1> USE DEF Inv
<1> SUFFICES \A d \in Conns : ConnInv(d)'
    BY ThreadStep DEF Control
<1>1. ASSUME NEW c \in Conns, Client(c)
      PROVE  \A d \in Conns : ConnInv(d)'
    <2>1. thread' = thread /\ cur' = cur
        BY <1>1 DEF Client, Connect, SendHead, SendChunk, Hangup, fetch
    <2>2. \A d \in Conns \ {c} : /\ phase'[d] = phase[d] /\ req'[d] = req[d]
                                 /\ sent'[d] = sent[d] /\ got'[d] = got[d]
        BY <1>1 DEF Client, Connect, SendHead, SendChunk, Hangup, client, TypeOK
    <2>3. \A d \in Conns \ {c} : ConnInv(d)'
        BY <2>1, <2>2, ConnFrame DEF Control
    <2>4. ConnInv(c)
        BY DEF Control
    <2>5. ASSUME Connect(c)
          PROVE  ConnInv(c)'
        BY <2>1, <2>4, <2>5 DEF Connect, ConnInv, Busy, TypeOK, client
    <2>6. ASSUME NEW r \in Requests, SendHead(c, r)
          PROVE  ConnInv(c)'
        <3>1. Len(r.body) \in Nat
            BY ServerAssumption DEF Request
        <3> QED
            BY <2>1, <2>4, <2>6, <3>1 DEF SendHead, ConnInv, Busy, TypeOK
    <2>7. ASSUME SendChunk(c)
          PROVE  ConnInv(c)'
        <3>1. Len(req[c].body) \in Nat
            BY <2>4, <2>7, ServerAssumption DEF SendChunk, ConnInv, Request
        <3> QED
            BY <2>1, <2>4, <2>7, <3>1 DEF SendChunk, ConnInv, Busy, TypeOK
    <2>8. ASSUME Hangup(c)
          PROVE  ConnInv(c)'
        BY <2>1, <2>4, <2>8 DEF Hangup, ConnInv, Busy
    <2> QED
        BY <1>1, <2>3, <2>5, <2>6, <2>7, <2>8 DEF Client
<1>2. ASSUME NEW c \in Conns, Serve(c)
      PROVE  \A d \in Conns : ConnInv(d)'
    <2>0. ConnInv(c) /\ ThreadFree /\ ~Busy
        BY <1>2 DEF Serve, FirstCall, UploadCall, FinalCall, StartFetch, HeadersNoMemory,
            SendReply, NoticeHangup, InactivityClose, ThreadFree, Control, Busy
    <2>1. CASE FirstCall(c)
        <3>1. CASE Close(c)
            BY <2>0, <2>1, <3>1, CloseConn DEF FirstCall, Close, fetch
        <3>2. CASE ~Close(c)
            <4>1. /\ phase' = [phase EXCEPT ![c] = "body"] /\ phase[c] = "head"
                  /\ UNCHANGED <<client, got, fetch>>
                BY <2>1, <3>2 DEF FirstCall
            <4>2. ConnInv(c)'
                BY <2>0, <4>1 DEF ConnInv, Busy, TypeOK, client, fetch
            <4>3. \A d \in Conns \ {c} : ConnInv(d)'
                BY <4>1, ConnFrame DEF Control, TypeOK, client, fetch
            <4> QED
                BY <4>2, <4>3
        <3> QED
            BY <3>1, <3>2
    <2>2. CASE UploadCall(c)
        <3>1. PICK upto \in (got[c] + 1)..sent[c] : got' = [got EXCEPT ![c] = upto]
            BY <2>2 DEF UploadCall
        <3>2. ConnInv(c)'
            BY <2>0, <2>2, <3>1 DEF UploadCall, ConnInv, Busy, TypeOK, client, fetch
        <3>3. \A d \in Conns \ {c} : ConnInv(d)'
            BY <2>2, <3>1, ConnFrame DEF UploadCall, Control, TypeOK, client, fetch
        <3> QED
            BY <3>2, <3>3
    <2>3. CASE FinalCall(c)
        <3>1. PICK r : Answer(c, r)
            BY <2>3 DEF FinalCall
        <3>2. req[c] \in Requests /\ ~Busy'
            BY <2>0, <2>3 DEF FinalCall, BodyComplete, ConnInv, Busy, fetch
        <3> QED
            BY <2>0, <3>1, <3>2, AnswerConn
    <2>4. CASE StartFetch(c)
        <3>1. /\ thread' = "fetch" /\ cur' = c /\ UNCHANGED <<sent, got>>
              /\ phase[c] = "body" /\ req[c] \in Requests
            BY <2>0, <2>4 DEF StartFetch, BodyComplete, ConnInv
        <3>2. CASE phase' = [phase EXCEPT ![c] = "run"] /\ UNCHANGED req
            BY <2>0, <3>1, <3>2 DEF Control, ConnInv, Busy, TypeOK
        <3>3. ASSUME NEW u \in Conns, phase[u] = "closed",
                     phase' = [phase EXCEPT ![c] = "run", ![u] = "head"],
                     req' = [req EXCEPT ![u] = SelfTarget]
              PROVE  \A d \in Conns : ConnInv(d)'
            <4>1. u # c /\ ConnInv(u)
                BY <3>1, <3>3 DEF Control
            <4>2. ConnInv(c)'
                BY <3>1, <3>3, <4>1 DEF ConnInv, Busy, TypeOK
            <4>3. ConnInv(u)'
                BY <3>1, <3>3, <4>1, ServerAssumption DEF ConnInv, Busy, TypeOK
            <4>4. ASSUME NEW d \in Conns \ {c, u}
                  PROVE  ConnInv(d)'
                <5>1. phase'[d] = phase[d] /\ req'[d] = req[d]
                    BY <3>3, <4>1 DEF TypeOK
                <5>2. ConnInv(d)
                    BY DEF Control
                <5> QED
                    BY <2>0, <3>1, <5>1, <5>2 DEF ConnInv, Busy
            <4> QED
                BY <4>2, <4>3, <4>4
        <3> QED
            BY <2>4, <3>2, <3>3 DEF StartFetch
    <2>5. CASE HeadersNoMemory(c)
        <3>1. Answer(c, Reply(400)) /\ req[c] \in Requests /\ ~Busy'
            BY <2>0, <2>5 DEF HeadersNoMemory, BodyComplete, ConnInv, Busy, fetch
        <3> QED
            BY <2>0, <3>1, AnswerConn
    <2>6. CASE SendReply(c)
        <3>1. ConnInv(c)'
            BY <2>0, <2>6 DEF SendReply, ConnInv, Busy, TypeOK, client, fetch
        <3>2. \A d \in Conns \ {c} : ConnInv(d)'
            BY <2>6, ConnFrame DEF SendReply, Control, TypeOK, client, fetch
        <3> QED
            BY <3>1, <3>2
    <2>7. CASE NoticeHangup(c) \/ InactivityClose(c)
        BY <2>0, <2>7, CloseConn DEF NoticeHangup, InactivityClose, Close, fetch
    <2> QED
        BY <1>2, <2>1, <2>2, <2>3, <2>4, <2>5, <2>6, <2>7 DEF Serve
<1>3. CASE Convert
    <2>1. CASE FetchReturn
        BY <2>1 DEF FetchReturn, Control, ConnInv, Busy
    <2>2. ASSUME NEW s, Leave(s), thread = "fetched"
          PROVE  \A d \in Conns : ConnInv(d)'
        <3>1. cur \in Conns /\ Busy /\ ~Busy'
            BY <2>2 DEF Leave, Control, ThreadInv, Busy, TypeOK
        <3>2. req[cur] \in Requests
            BY <3>1 DEF Control, ConnInv
        <3> QED
            BY <2>2, <3>1, <3>2, AnswerConn DEF Leave
    <2> QED
        BY <1>3, <2>1, <2>2 DEF Convert, RejectFetch, RunConverter
<1>4. CASE RequestStop
    BY <1>4, ConnFrame DEF RequestStop, Control, client, fetch
<1>5. CASE Shutdown
    <2>1. CASE LeaveLoop \/ ThreadExit
        BY <2>1 DEF LeaveLoop, ThreadExit, ThreadFree, Control, ConnInv, Busy, client
    <2>2. ASSUME NEW c \in Conns, CloseOnStop(c)
          PROVE  \A d \in Conns : ConnInv(d)'
        BY <2>2, CloseConn DEF CloseOnStop, Close, Busy, fetch
    <2> QED
        BY <1>5, <2>1, <2>2 DEF Shutdown
<1>6. CASE UNCHANGED vars
    BY <1>6, ConnFrame DEF vars, client, fetch, Control
<1> QED
    BY <1>1, <1>2, <1>3, <1>4, <1>5, <1>6 DEF Next, Terminated

-----------------------------------------------------------------------------
(* Fetching *)

\* A step that keeps the thread's variables and the connections it names.
LEMMA FetchFrame ==
    ASSUME Inv, UNCHANGED fetch,
           via # None => phase'[via] = phase[via],
           cur # None => req'[cur] = req[cur]
    PROVE  Fetching'
<1>1. /\ via' = via /\ cur' = cur /\ thread' = thread /\ result' = result
    BY DEF fetch
<1>2. via # None => thread = "fetch" /\ phase[via] = "head"
    BY DEF Inv, Fetching
<1>3. thread = "fetched" =>
        cur # None /\ result \in Outcomes
                   /\ (req[cur].url = "self" => result \in {TimedOut, Failed})
    BY DEF Inv, Fetching, Control, ThreadInv, Busy
<1> QED
    BY <1>1, <1>2, <1>3 DEF Fetching, TimedOut, Failed

LEMMA FetchingStep ==
    ASSUME Inv, [Next]_vars
    PROVE  Fetching'
<1>0. /\ TypeOK /\ Fetching
      /\ cur # None => cur \in Conns /\ phase[cur] = "run"
      /\ via # None => via \in Conns /\ phase[via] = "head"
      /\ ~Busy => cur = None /\ via = None
    BY DEF Inv, TypeOK, Fetching, Control, ThreadInv, ConnInv, Busy
<1>1. ASSUME NEW c \in Conns, Client(c)
      PROVE  Fetching'
    <2>1. UNCHANGED fetch
        BY <1>1 DEF Client, Connect, SendHead, SendChunk, Hangup
    <2>2. \A d \in Conns : phase[d] \in {"head", "run"} =>
              phase'[d] = phase[d] /\ req'[d] = req[d]
        BY <1>0, <1>1 DEF Client, Connect, SendHead, SendChunk, Hangup, client, TypeOK
    <2> QED
        BY <1>0, <2>1, <2>2, FetchFrame
<1>2. ASSUME NEW c \in Conns, Serve(c)
      PROVE  Fetching'
    <2>1. ~Busy /\ cur = None /\ via = None
        <3>1. thread = "poll"
            BY <1>2 DEF Serve, FirstCall, UploadCall, FinalCall, StartFetch,
                HeadersNoMemory, SendReply, NoticeHangup, InactivityClose, ThreadFree
        <3> QED
            BY <1>0, <3>1 DEF Busy
    <2>2. CASE StartFetch(c)
        <3>1. thread' = "fetch"
            BY <2>2 DEF StartFetch
        <3>2. via' = None \/ (via' \in Conns /\ phase'[via'] = "head")
            BY <1>0, <2>2 DEF StartFetch, TypeOK
        <3> QED
            BY <3>1, <3>2 DEF Fetching
    <2>3. CASE ~StartFetch(c)
        <3>1. UNCHANGED fetch
            BY <1>2, <2>3 DEF Serve, FirstCall, UploadCall, FinalCall, HeadersNoMemory,
                SendReply, NoticeHangup, InactivityClose
        <3> QED
            BY <2>1, <3>1, FetchFrame
    <2> QED
        BY <2>2, <2>3
<1>3. CASE Convert
    <2>1. CASE FetchReturn
        <3>1. /\ thread = "fetch" /\ result' \in FetchOutcomes /\ thread' = "fetched"
              /\ via' = None /\ UNCHANGED <<req, cur>>
            BY <2>1 DEF FetchReturn
        <3>2. /\ result' \in Outcomes
              /\ req[cur].url = "self" => result' \in {TimedOut, Failed}
            BY <1>0, <3>1, FetchType
        <3> QED
            BY <3>1, <3>2 DEF Fetching, TimedOut, Failed
    <2>2. ASSUME NEW s, Leave(s), thread = "fetched"
          PROVE  Fetching'
        BY <1>0, <2>2 DEF Leave, Fetching
    <2> QED
        BY <1>3, <2>1, <2>2 DEF Convert, RejectFetch, RunConverter
<1>4. CASE RequestStop
    BY <1>4, FetchFrame DEF RequestStop, client
<1>5. CASE Shutdown
    <2>1. ~Busy /\ cur = None /\ via = None
        BY <1>0, <1>5 DEF Shutdown, LeaveLoop, CloseOnStop, ThreadExit, ThreadFree, Busy
    <2>2. CASE LeaveLoop \/ ThreadExit
        BY <2>1, <2>2 DEF LeaveLoop, ThreadExit, Fetching
    <2>3. ASSUME NEW c \in Conns, CloseOnStop(c)
          PROVE  Fetching'
        BY <2>1, <2>3, FetchFrame DEF CloseOnStop
    <2> QED
        BY <1>5, <2>2, <2>3 DEF Shutdown
<1>6. CASE UNCHANGED vars
    BY <1>6, FetchFrame DEF vars, client
<1> QED
    BY <1>1, <1>2, <1>3, <1>4, <1>5, <1>6 DEF Next, Terminated

-----------------------------------------------------------------------------
(* BodyIntegrity *)

\* Appending the next piece to a prefix gives the longer prefix.
LEMMA PrefixGrows ==
    ASSUME NEW s \in Seq(Chunks), NEW m \in Nat, NEW n \in Nat, m <= n, n <= Len(s)
    PROVE  SubSeq(s, 1, m) \o SubSeq(s, m + 1, n) = SubSeq(s, 1, n)
BY ConcatAdjacentSubSeq

\* A step that leaves the uploading connections and their buffers alone.
LEMMA BodyFrame ==
    ASSUME BodyIntegrity,
           \A d \in Conns : phase'[d] = "body" =>
               /\ phase[d] = "body" /\ req'[d] = req[d] /\ got'[d] = got[d]
               /\ con_cls'[d] = con_cls[d] /\ data'[con_cls[d]] = data[con_cls[d]]
    PROVE  BodyIntegrity'
BY DEF BodyIntegrity

LEMMA CloseBody ==
    ASSUME TypeOK, BodyIntegrity, NEW c \in Conns, Close(c)
    PROVE  BodyIntegrity'
BY BodyFrame DEF Close, cleanup_cb, Forget, TypeOK

LEMMA AnswerBody ==
    ASSUME TypeOK, BodyIntegrity, NEW c \in Conns, NEW r, Answer(c, r)
    PROVE  BodyIntegrity'
<1>1. CASE Forget(c)
    BY <1>1, BodyFrame DEF Answer, Forget, TypeOK
<1>2. CASE /\ phase' = [phase EXCEPT ![c] = "reply"]
           /\ UNCHANGED <<req, sent, got>>
    BY <1>2, BodyFrame DEF Answer, TypeOK
<1> QED
    BY <1>1, <1>2 DEF Answer

LEMMA BodyStep ==
    ASSUME Inv, [Next]_vars
    PROVE  BodyIntegrity'
<1> USE DEF Inv
<1>1. ASSUME NEW c \in Conns, Client(c)
      PROVE  BodyIntegrity'
    <2>1. UNCHANGED heap
        BY <1>1 DEF Client, Connect, SendHead, SendChunk, Hangup
    <2>2. \A d \in Conns : phase'[d] = "body" =>
              phase[d] = "body" /\ req'[d] = req[d] /\ got'[d] = got[d]
        BY <1>1 DEF Client, Connect, SendHead, SendChunk, Hangup, client, TypeOK
    <2> QED
        BY <2>1, <2>2, BodyFrame DEF heap
<1>2. ASSUME NEW c \in Conns, Serve(c)
      PROVE  BodyIntegrity'
    <2>1. CASE FirstCall(c)
        <3>1. CASE Close(c)
            BY <3>1, CloseBody
        <3>2. CASE ~Close(c)
            <4>1. PICK b \in Bufs \ allocated :
                      /\ data' = [data EXCEPT ![b] = << >>]
                      /\ con_cls' = [con_cls EXCEPT ![c] = b]
                      /\ phase' = [phase EXCEPT ![c] = "body"]
                      /\ UNCHANGED <<client, got>>
                BY <2>1, <3>2 DEF FirstCall
            <4>2. got'[c] = 0 /\ req'[c] \in Requests
                BY <2>1, <4>1 DEF FirstCall, Control, ConnInv, client
            <4>3. data'[con_cls'[c]] = << >>
                BY <4>1 DEF TypeOK
            <4>4. SubSeq(req'[c].body, 1, 0) = << >>
                BY SubSeqEmpty, <4>2, ServerAssumption DEF Request
            <4>5. ASSUME NEW d \in Conns \ {c}, phase'[d] = "body"
                  PROVE  /\ phase[d] = "body" /\ req'[d] = req[d] /\ got'[d] = got[d]
                         /\ con_cls'[d] = con_cls[d] /\ data'[con_cls[d]] = data[con_cls[d]]
                <5>1. phase[d] = "body" /\ con_cls'[d] = con_cls[d]
                    BY <4>1, <4>5 DEF TypeOK
                <5>2. req'[d] = req[d] /\ got'[d] = got[d]
                    BY <4>1 DEF client
                <5>3. con_cls[d] \in allocated /\ con_cls[d] # b
                    BY <4>1, <5>1 DEF Ownership
                <5>4. data'[con_cls[d]] = data[con_cls[d]]
                    BY <4>1, <5>3 DEF TypeOK
                <5> QED
                    BY <5>1, <5>2, <5>4
            <4>6. phase'[c] = "body" =>
                      data'[con_cls'[c]] = SubSeq(req'[c].body, 1, got'[c])
                BY <4>2, <4>3, <4>4
            <4>7. ASSUME NEW d \in Conns \ {c}, phase'[d] = "body"
                  PROVE  data'[con_cls'[d]] = SubSeq(req'[d].body, 1, got'[d])
                <5>1. data[con_cls[d]] = SubSeq(req[d].body, 1, got[d])
                    BY <4>5, <4>7 DEF BodyIntegrity
                <5> QED
                    BY <4>5, <4>7, <5>1
            <4> QED
                BY <4>6, <4>7 DEF BodyIntegrity
        <3> QED
            BY <3>1, <3>2
    <2>2. CASE UploadCall(c)
        <3>1. PICK upto \in (got[c] + 1)..sent[c] :
                  /\ data' = [data EXCEPT ![con_cls[c]] =
                                @ \o SubSeq(req[c].body, got[c] + 1, upto)]
                  /\ got' = [got EXCEPT ![c] = upto]
            BY <2>2 DEF UploadCall
        <3>2. /\ phase[c] = "body" /\ req[c] \in Requests
              /\ con_cls[c] \in Bufs
              /\ got[c] \in Nat /\ sent[c] \in Nat /\ sent[c] <= Len(req[c].body)
              /\ UNCHANGED <<phase, req, con_cls>>
            BY <2>2 DEF UploadCall, Control, ConnInv, Ownership, TypeOK, client
        <3>3. req[c].body \in Seq(Chunks) /\ upto \in Nat /\ got[c] <= upto
              /\ upto <= Len(req[c].body)
            BY <3>1, <3>2, ServerAssumption DEF Request
        <3>4. data'[con_cls[c]] = SubSeq(req[c].body, 1, upto)
            <4>1. data[con_cls[c]] = SubSeq(req[c].body, 1, got[c])
                BY <3>2 DEF BodyIntegrity
            <4>2. data'[con_cls[c]] =
                      data[con_cls[c]] \o SubSeq(req[c].body, got[c] + 1, upto)
                BY <3>1, <3>2 DEF TypeOK
            <4>3. \A s \in Seq(Chunks) : \A m, n \in Nat :
                      m <= n /\ n <= Len(s) =>
                          SubSeq(s, 1, m) \o SubSeq(s, m + 1, n) = SubSeq(s, 1, n)
                BY PrefixGrows
            <4>4. SubSeq(req[c].body, 1, got[c]) \o SubSeq(req[c].body, got[c] + 1, upto)
                      = SubSeq(req[c].body, 1, upto)
                BY <3>2, <3>3, <4>3
            <4> QED
                BY <4>1, <4>2, <4>4
        <3>5. got'[c] = upto
            BY <3>1 DEF TypeOK
        <3>6. \A d \in Conns \ {c} : phase[d] = "body" =>
                  got'[d] = got[d] /\ data'[con_cls[d]] = data[con_cls[d]]
            BY <3>1, <3>2 DEF TypeOK, Ownership
        <3> QED
            BY <3>2, <3>4, <3>5, <3>6 DEF BodyIntegrity
    <2>3. CASE FinalCall(c)
        BY <2>3, AnswerBody DEF FinalCall
    <2>4. CASE StartFetch(c)
        <3>1. UNCHANGED <<got, heap>>
            BY <2>4 DEF StartFetch
        <3>2. \A d \in Conns : phase'[d] = "body" => phase[d] = "body" /\ req'[d] = req[d]
            <4>1. PICK u \in Conns \cup {None} :
                      \/ /\ u \in Conns /\ phase[u] = "closed"
                         /\ phase' = [phase EXCEPT ![c] = "run", ![u] = "head"]
                         /\ req' = [req EXCEPT ![u] = SelfTarget]
                      \/ phase' = [phase EXCEPT ![c] = "run"] /\ req' = req
                BY <2>4 DEF StartFetch
            <4> QED
                BY <4>1 DEF TypeOK
        <3> QED
            BY <3>1, <3>2, BodyFrame DEF heap
    <2>5. CASE HeadersNoMemory(c)
        BY <2>5, AnswerBody DEF HeadersNoMemory
    <2>6. CASE SendReply(c)
        BY <2>6, BodyFrame DEF SendReply, cleanup_cb, TypeOK, client
    <2>7. CASE NoticeHangup(c) \/ InactivityClose(c)
        BY <2>7, CloseBody DEF NoticeHangup, InactivityClose
    <2> QED
        BY <1>2, <2>1, <2>2, <2>3, <2>4, <2>5, <2>6, <2>7 DEF Serve
<1>3. CASE Convert
    <2>1. CASE FetchReturn
        BY <2>1, BodyFrame DEF FetchReturn, heap
    <2>2. ASSUME NEW s, Leave(s), thread = "fetched"
          PROVE  BodyIntegrity'
        <3>1. cur \in Conns
            BY <2>2 DEF Control, ThreadInv, Busy, TypeOK
        <3> QED
            BY <2>2, <3>1, AnswerBody DEF Leave
    <2> QED
        BY <1>3, <2>1, <2>2 DEF Convert, RejectFetch, RunConverter
<1>4. CASE RequestStop
    BY <1>4, BodyFrame DEF RequestStop, heap, client
<1>5. CASE Shutdown
    <2>1. CASE LeaveLoop \/ ThreadExit
        BY <2>1, BodyFrame DEF LeaveLoop, ThreadExit, heap, client
    <2>2. ASSUME NEW c \in Conns, CloseOnStop(c)
          PROVE  BodyIntegrity'
        BY <2>2, CloseBody DEF CloseOnStop
    <2> QED
        BY <1>5, <2>1, <2>2 DEF Shutdown
<1>6. CASE UNCHANGED vars
    BY <1>6, BodyFrame DEF vars, heap, client
<1> QED
    BY <1>1, <1>2, <1>3, <1>4, <1>5, <1>6 DEF Next, Terminated

-----------------------------------------------------------------------------
(* SelfFetchFails *)

\* No step but Leave answers a conversion, and it passes on a failed fetch.
LEMMA SelfFetchStep ==
    ASSUME Inv, [Next]_vars
    PROVE  SelfFetchFails'
<1> USE DEF Inv
<1>0. ASSUME \A d \in Conns : phase'[d] = "reply" =>
                 phase[d] = "reply" /\ req'[d] = req[d] /\ resp'[d] = resp[d]
      PROVE  SelfFetchFails'
    BY <1>0 DEF SelfFetchFails, NeedsFetch, ConvertCheck
<1>a. ASSUME NEW c \in Conns, NEW r \in Responses, Answer(c, r),
             NeedsFetch(req[c]) /\ req[c].url = "self" => r.status \notin {200, 422}
      PROVE  SelfFetchFails'
    <2>1. CASE Forget(c)
        BY <1>0, <2>1 DEF Forget, TypeOK
    <2>2. CASE /\ phase' = [phase EXCEPT ![c] = "reply"]
               /\ resp' = [resp EXCEPT ![c] = r]
               /\ UNCHANGED <<req, sent, got, gone>>
        <3>1. resp'[c] = r /\ req' = req
            BY <2>2 DEF TypeOK
        <3>2. \A d \in Conns \ {c} : phase'[d] = phase[d] /\ resp'[d] = resp[d]
            BY <2>2 DEF TypeOK
        <3> QED
            BY <1>a, <3>1, <3>2 DEF SelfFetchFails, NeedsFetch, ConvertCheck
    <2> QED
        BY <1>a, <2>1, <2>2 DEF Answer
<1>1. ASSUME NEW c \in Conns, Client(c)
      PROVE  SelfFetchFails'
    BY <1>0, <1>1 DEF Client, Connect, SendHead, SendChunk, Hangup, client, TypeOK
<1>2. ASSUME NEW c \in Conns, Serve(c)
      PROVE  SelfFetchFails'
    <2>1. CASE FirstCall(c)
        <3>1. CASE Close(c)
            BY <1>0, <3>1 DEF Close, Forget, TypeOK
        <3>2. CASE ~Close(c)
            BY <1>0, <2>1, <3>2 DEF FirstCall, client, TypeOK
        <3> QED
            BY <3>1, <3>2
    <2>2. CASE UploadCall(c)
        BY <1>0, <2>2 DEF UploadCall, client
    <2>3. CASE FinalCall(c)
        <3>1. /\ req[c] \in Requests /\ con_cls[c] \in Bufs /\ ~NeedsFetch(req[c])
            BY <2>3 DEF FinalCall, BodyComplete, Control, ConnInv, Ownership, TypeOK
        <3>2. Route(req[c], data[con_cls[c]]) \in Responses /\ Reply(400) \in Responses
            BY <3>1, RouteType, ReplyType DEF TypeOK
        <3>3. PICK r \in Responses : Answer(c, r)
            BY <2>3, <3>2 DEF FinalCall
        <3> QED
            BY <1>a, <3>1, <3>3
    <2>4. CASE StartFetch(c)
        <3>1. resp' = resp
            BY <2>4 DEF StartFetch
        <3>2. \A d \in Conns : phase'[d] = "reply" => phase[d] = "reply" /\ req'[d] = req[d]
            <4>1. PICK u \in Conns \cup {None} :
                      \/ /\ u \in Conns /\ phase[u] = "closed"
                         /\ phase' = [phase EXCEPT ![c] = "run", ![u] = "head"]
                         /\ req' = [req EXCEPT ![u] = SelfTarget]
                      \/ phase' = [phase EXCEPT ![c] = "run"] /\ req' = req
                BY <2>4 DEF StartFetch
            <4> QED
                BY <4>1 DEF TypeOK
        <3> QED
            BY <1>0, <3>1, <3>2
    <2>5. CASE HeadersNoMemory(c)
        <3>1. Reply(400) \in Responses /\ Reply(400).status = 400
            BY ReplyType DEF Reply
        <3> QED
            BY <1>a, <2>5, <3>1 DEF HeadersNoMemory
    <2>6. CASE SendReply(c)
        BY <1>0, <2>6 DEF SendReply, TypeOK, client
    <2>7. CASE NoticeHangup(c) \/ InactivityClose(c)
        BY <1>0, <2>7 DEF NoticeHangup, InactivityClose, Close, Forget, TypeOK
    <2> QED
        BY <1>2, <2>1, <2>2, <2>3, <2>4, <2>5, <2>6, <2>7 DEF Serve
<1>3. CASE Convert
    <2>1. CASE FetchReturn
        BY <1>0, <2>1 DEF FetchReturn
    <2>2. ASSUME NEW s \in {200, 422, 502, 504}, Leave(s), thread = "fetched",
                 req[cur].url = "self" => s \notin {200, 422}
          PROVE  SelfFetchFails'
        <3>1. cur \in Conns /\ Reply(s) \in Responses /\ Reply(s).status = s
            BY <2>2, ReplyType DEF Control, ThreadInv, Busy, TypeOK, Reply
        <3> QED
            BY <1>a, <2>2, <3>1 DEF Leave
    <2>3. CASE RejectFetch
        <3>1. FetchStatus(result) \in {502, 504}
            BY <2>3, FetchType DEF RejectFetch, Fetching
        <3> QED
            BY <2>2, <2>3, <3>1 DEF RejectFetch
    <2>4. CASE RunConverter
        <3>1. req[cur].url # "self"
            BY <2>4, FetchType DEF RunConverter, Fetching, Proceed
        <3> QED
            BY <2>2, <2>4, <3>1 DEF RunConverter
    <2> QED
        BY <1>3, <2>1, <2>3, <2>4 DEF Convert
<1>4. CASE RequestStop
    BY <1>0, <1>4 DEF RequestStop, client
<1>5. CASE Shutdown
    <2>1. CASE LeaveLoop \/ ThreadExit
        BY <1>0, <2>1 DEF LeaveLoop, ThreadExit, client
    <2>2. ASSUME NEW c \in Conns, CloseOnStop(c)
          PROVE  SelfFetchFails'
        BY <1>0, <2>2 DEF CloseOnStop, Close, Forget, TypeOK
    <2> QED
        BY <1>5, <2>1, <2>2 DEF Shutdown
<1>6. CASE UNCHANGED vars
    BY <1>0, <1>6 DEF vars, client
<1> QED
    BY <1>1, <1>2, <1>3, <1>4, <1>5, <1>6 DEF Next, Terminated

-----------------------------------------------------------------------------
(* The theorems *)

LEMMA ServerInitially == Init => Inv
<1> SUFFICES ASSUME Init PROVE Inv
    OBVIOUS
<1>1. TypeOK
    <2>1. data \in [Bufs -> Seq(Chunks)]
        BY DEF Init
    <2>2. /\ phase \in [Conns -> {"closed", "idle", "head", "body", "run", "reply"}]
          /\ req \in [Conns -> Requests \cup {None}]
          /\ sent \in [Conns -> Nat] /\ got \in [Conns -> Nat]
          /\ gone \in [Conns -> BOOLEAN]
          /\ resp \in [Conns -> Responses \cup {None}]
          /\ con_cls \in [Conns -> Bufs \cup {None}]
        BY DEF Init
    <2> QED
        BY <2>1, <2>2 DEF Init, TypeOK
<1>2. Ownership /\ BodyIntegrity /\ SelfFetchFails
    BY DEF Init, Ownership, BodyIntegrity, SelfFetchFails
<1>3. Control /\ Fetching
    BY ServerAssumption DEF Init, Control, ThreadInv, ConnInv, Fetching, Busy
<1> QED
    BY <1>1, <1>2, <1>3 DEF Inv

LEMMA ServerStep == Inv /\ [Next]_vars => Inv'
BY TypeStep, OwnershipStep, ControlStep, FetchingStep, BodyStep, SelfFetchStep DEF Inv

\* Every reachable state satisfies the inductive invariant.
THEOREM ServerInvariant == Spec => []Inv
BY ServerInitially, ServerStep, PTL DEF Spec

\* Type correctness of the server.
THEOREM ServerTypeOK == Spec => []TypeOK
<1>1. Inv => TypeOK
    BY DEF Inv
<1> QED
    BY <1>1, ServerInvariant, PTL

\* Request buffers: no leak, no double free, no sharing, no dangling con_cls,
\* for any number of connections and any pattern of failures.
THEOREM ServerOwnership == Spec => []Ownership
<1>1. Inv => Ownership
    BY DEF Inv
<1> QED
    BY <1>1, ServerInvariant, PTL

\* A request's strbuf holds the delivered prefix of its own body.
THEOREM ServerBodyIntegrity == Spec => []BodyIntegrity
<1>1. Inv => BodyIntegrity
    BY DEF Inv
<1> QED
    BY <1>1, ServerInvariant, PTL

LEMMA InvNoTempLeak == Inv => NoTempLeak
BY DEF Inv, Control, ThreadInv, Busy, NoTempLeak, TypeOK

\* handle_convert's temporaries are gone when the thread is back in MHD's loop.
THEOREM ServerNoTempLeak == Spec => []NoTempLeak
BY InvNoTempLeak, ServerInvariant, PTL

\* A conversion whose upstream is the daemon itself never succeeds.
THEOREM ServerSelfFetchFails == Spec => []SelfFetchFails
<1>1. Inv => SelfFetchFails
    BY DEF Inv
<1> QED
    BY <1>1, ServerInvariant, PTL

\* An exited thread has closed every connection, and an open one is the only
\* owner of a buffer.
LEMMA InvCleanExit == Inv => CleanExit
<1> SUFFICES ASSUME Inv, thread = "exited" PROVE CleanExit
    BY DEF CleanExit
<1>1. temps = {} /\ \A c \in Conns : phase[c] = "closed"
    BY DEF Inv, Control, ThreadInv, Busy
<1>2. \A c \in Conns : con_cls[c] = None
    BY <1>1 DEF Inv, Ownership
<1>3. allocated = {}
    BY <1>2, ServerAssumption DEF Inv, Ownership, TypeOK
<1> QED
    BY <1>1, <1>2, <1>3 DEF CleanExit

\* The polling thread leaves nothing behind.
THEOREM ServerCleanExit == Spec => []CleanExit
BY InvCleanExit, ServerInvariant, PTL
-----------------------------------------------------------------------------
(* Server implements RequestService: what a client sees of each connection   *)
(* moves as the service promises or stands still.                           *)

\* What a client sees of connection c.
St(c) == IF phase[c] \in {"closed", "idle"} THEN phase[c] ELSE "pending"
Rq(c) == IF phase[c] \in {"closed", "idle"} THEN None ELSE req[c]
An(c) == IF phase[c] = "idle" THEN resp[c] ELSE None

Same(c) == St(c)' = St(c) /\ Rq(c)' = Rq(c) /\ An(c)' = An(c)

\* A response is justified by its request as soon as it is queued, a request is
\* only run for a fetch, and a closed slot remembers no response.
Justified(c) ==
    /\ phase[c] = "closed" => resp[c] = None
    /\ phase[c] = "run" => NeedsFetch(req[c])
    /\ phase[c] = "reply" => resp[c] \in Responses /\ Service!Promised(req[c], resp[c])

AllJustified == \A c \in Conns : Justified(c)

-----------------------------------------------------------------------------
(* The operators *)

\* Every status that route_request answers without a fetch is justified by the
\* request and its body.
LEMMA RoutePromised ==
    ASSUME NEW r \in Requests, ~NeedsFetch(r)
    PROVE  Service!Promised(r, Route(r, r.body))
<1> USE DEF Service!Promised, Service!Known, Service!WrongMethod, Service!MethodOf,
            Service!Conversion, Service!Complete, Service!Manual, Service!BadRequest
<1>1. r \in Request
  BY ServerAssumption
<1>2. CASE r.path \in {"/", "/health"}
  BY <1>1, <1>2 DEF Request, Route, Reply
<1>3. CASE r.path = "/convert"
  BY <1>1, <1>3 DEF Request, Route, Reply, NeedsFetch, ConvertCheck, Proceed
<1>4. CASE r.path = "/convert/manual"
  <2>1. r.body \in ValidJson => r.body # << >>
    BY ServerAssumption
  <2>2. Route(r, r.body) = ConvertManual(r, r.body)
    BY <1>4 DEF Route
  <2>3. QED
    BY <1>1, <1>4, <2>1, <2>2 DEF Request, ConvertManual, Reply
<1>5. CASE r.path = "other"
  BY <1>1, <1>5 DEF Request, Route, Reply
<1>6. QED
  BY <1>1, <1>2, <1>3, <1>4, <1>5 DEF Request, Paths

\* So is every status behind a fetch.
LEMMA FetchPromised ==
    ASSUME NEW r \in Requests, NeedsFetch(r), NEW s \in {200, 422, 502, 504}
    PROVE  Service!Promised(r, Reply(s))
<1>1. r \in Request
  BY ServerAssumption
<1>2. /\ r.path = "/convert" /\ r.method = "GET" /\ r.type = "known"
      /\ r.url # "absent" /\ r.headers \in {"absent", "object"}
  BY <1>1 DEF NeedsFetch, ConvertCheck, Proceed, Request
<1>3. QED
  BY <1>2 DEF Reply, Service!Promised, Service!Known, Service!WrongMethod, Service!MethodOf,
              Service!Conversion, Service!Complete, Service!Manual, Service!BadRequest

\* And so is the 400 of a handler that got no memory for what it copies.
LEMMA StarvedPromised ==
    ASSUME NEW r \in Requests, OOM,
           \/ r.path = "/convert/manual" /\ r.method = "POST"
           \/ NeedsFetch(r) /\ r.headers = "object"
    PROVE  Service!Promised(r, Reply(400))
<1>1. r \in Request
  BY ServerAssumption
<1>2. NeedsFetch(r) => /\ r.path = "/convert" /\ r.method = "GET" /\ r.type = "known"
                       /\ r.url # "absent"
  BY <1>1 DEF NeedsFetch, ConvertCheck, Proceed, Request
<1>3. Service!Copied(r) /\ ~Service!WrongMethod(r) /\ Service!Known(r)
  BY <1>2 DEF Service!Copied, Service!Manual, Service!Conversion, Service!Complete,
              Service!WrongMethod, Service!Known, Service!MethodOf
<1>4. QED
  BY <1>3 DEF Reply, Service!Promised

-----------------------------------------------------------------------------
(* Steps of one connection, as the service sees them *)

LEMMA ViewFrame ==
    ASSUME \A c \in Conns : Same(c)
    PROVE  UNCHANGED Service!vars
  BY DEF Service!vars, Same, St, Rq, An

LEMMA ViewAccept ==
    ASSUME NEW c \in Conns, \A d \in Conns \ {c} : Same(d),
           St(c) = "closed", St(c)' = "idle", Rq(c)' = Rq(c), An(c)' = An(c)
    PROVE  Service!Accept(c)
  BY DEF Service!Accept, Same, St, Rq, An

LEMMA ViewSubmit ==
    ASSUME NEW c \in Conns, \A d \in Conns \ {c} : Same(d),
           St(c) \in {"closed", "idle"}, St(c)' = "pending", Rq(c)' \in Requests, An(c)' = None
    PROVE  Service!Submit(c)
  BY DEF Service!Submit, Same, St, Rq, An

LEMMA ViewRespond ==
    ASSUME NEW c \in Conns, \A d \in Conns \ {c} : Same(d),
           St(c) = "pending", St(c)' = "idle", Rq(c)' = None,
           An(c)' # None, Service!Promised(Rq(c), An(c)')
    PROVE  Service!Respond(c)
<1> DEFINE st  == [d \in Conns |-> St(d)]
           rq  == [d \in Conns |-> Rq(d)]
           ans == [d \in Conns |-> An(d)]
<1>1. st[c] = St(c) /\ rq[c] = Rq(c) /\ ans'[c] = An(c)'
  OBVIOUS
<1>2. /\ st[c] = "pending"
      /\ st' = [st EXCEPT ![c] = "idle"]
      /\ rq' = [rq EXCEPT ![c] = None]
      /\ ans' = [ans EXCEPT ![c] = ans'[c]]
  BY DEF Same
<1>3. ans'[c] # None /\ Service!Promised(rq[c], ans'[c])
  BY <1>1
<1>4. QED
  BY <1>2, <1>3 DEF Service!Respond, St, Rq, An

LEMMA ViewDrop ==
    ASSUME NEW c \in Conns, \A d \in Conns \ {c} : Same(d),
           St(c) # "closed", St(c)' = "closed", Rq(c)' = None, An(c)' = None
    PROVE  Service!Drop(c)
  BY DEF Service!Drop, Same, St, Rq, An

\* A connection that a step leaves alone.
LEMMA Untouched ==
    ASSUME NEW d \in Conns, Justified(d),
           phase'[d] = phase[d], req'[d] = req[d], resp'[d] = resp[d]
    PROVE  Same(d) /\ Justified(d)'
<1>1. Same(d)
  BY DEF Same, St, Rq, An
<1>2. Justified(d)'
  BY DEF Justified, NeedsFetch, ConvertCheck
<1>3. QED
  BY <1>1, <1>2

\* A step that leaves every connection alone.
LEMMA NothingSeen ==
    ASSUME AllJustified, UNCHANGED <<phase, req, resp>>
    PROVE  AllJustified' /\ UNCHANGED Service!vars
<1>1. \A d \in Conns : Same(d) /\ Justified(d)'
  BY Untouched DEF AllJustified
<1>2. QED
  BY <1>1, ViewFrame DEF AllJustified

\* A connection that is closed in between.
LEMMA ForgetSeen ==
    ASSUME TypeOK, AllJustified, NEW c \in Conns, Forget(c), phase[c] # "closed"
    PROVE  AllJustified' /\ Service!Drop(c)
<1>1. /\ phase' = [phase EXCEPT ![c] = "closed"]
      /\ req' = [req EXCEPT ![c] = None]
      /\ resp' = [resp EXCEPT ![c] = None]
  BY DEF Forget
<1>2. \A d \in Conns \ {c} : Same(d) /\ Justified(d)'
  BY <1>1, Untouched DEF AllJustified, TypeOK
<1>3. phase'[c] = "closed" /\ resp'[c] = None
  BY <1>1 DEF TypeOK
<1>4. Justified(c)'
  BY <1>3 DEF Justified
<1>5. St(c) # "closed" /\ St(c)' = "closed" /\ Rq(c)' = None /\ An(c)' = None
  BY <1>3 DEF St, Rq, An
<1>6. QED
  BY <1>2, <1>4, <1>5, ViewDrop DEF AllJustified

\* A response that is queued is not yet seen, and is the one the request
\* justifies; when there is no memory for it, the connection is closed.
LEMMA AnswerSeen ==
    ASSUME TypeOK, AllJustified, NEW c \in Conns, phase[c] \in {"body", "run"},
           NEW r \in Responses, Answer(c, r), Service!Promised(req[c], r)
    PROVE  AllJustified' /\ (UNCHANGED Service!vars \/ Service!Drop(c))
<1>1. CASE Forget(c)
  BY <1>1, ForgetSeen
<1>2. CASE /\ phase' = [phase EXCEPT ![c] = "reply"]
           /\ resp' = [resp EXCEPT ![c] = r]
           /\ UNCHANGED req
  <2>1. \A d \in Conns \ {c} : Same(d) /\ Justified(d)'
    BY <1>2, Untouched DEF AllJustified, TypeOK
  <2>2. phase'[c] = "reply" /\ resp'[c] = r /\ req'[c] = req[c]
    BY <1>2 DEF TypeOK
  <2>3. Same(c)
    BY <2>2 DEF Same, St, Rq, An
  <2>4. Justified(c)'
    BY <2>2 DEF Justified
  <2>5. QED
    BY <2>1, <2>3, <2>4, ViewFrame DEF AllJustified
<1>3. QED
  BY <1>1, <1>2 DEF Answer

-----------------------------------------------------------------------------
(* The steps of the server *)

LEMMA ClientSeen ==
    ASSUME Inv, AllJustified, NEW c \in Conns, Client(c)
    PROVE  AllJustified' /\ [Service!Next]_(Service!vars)
<1> USE DEF Inv
<1>1. CASE Connect(c)
  <2>1. phase[c] = "closed" /\ phase' = [phase EXCEPT ![c] = "idle"] /\ UNCHANGED <<req, resp>>
    BY <1>1 DEF Connect, client
  <2>2. \A d \in Conns \ {c} : Same(d) /\ Justified(d)'
    BY <2>1, Untouched DEF AllJustified, TypeOK
  <2>3. phase'[c] = "idle" /\ resp'[c] = None
    BY <2>1 DEF AllJustified, Justified, TypeOK
  <2>4. Justified(c)'
    BY <2>3 DEF Justified
  <2>5. St(c) = "closed" /\ St(c)' = "idle" /\ Rq(c)' = Rq(c) /\ An(c)' = An(c)
    BY <2>1, <2>3 DEF St, Rq, An
  <2>6. Service!Accept(c)
    BY <2>2, <2>5, ViewAccept
  <2>7. QED
    BY <2>2, <2>4, <2>6 DEF AllJustified, Service!Next
<1>2. ASSUME NEW r \in Requests, SendHead(c, r)
      PROVE  AllJustified' /\ [Service!Next]_(Service!vars)
  <2>1. /\ phase[c] = "idle" /\ phase' = [phase EXCEPT ![c] = "head"]
        /\ req' = [req EXCEPT ![c] = r] /\ resp' = [resp EXCEPT ![c] = None]
    BY <1>2 DEF SendHead
  <2>2. \A d \in Conns \ {c} : Same(d) /\ Justified(d)'
    BY <2>1, Untouched DEF AllJustified, TypeOK
  <2>3. phase'[c] = "head" /\ req'[c] = r
    BY <2>1 DEF TypeOK
  <2>4. Justified(c)'
    BY <2>3 DEF Justified
  <2>5. St(c) = "idle" /\ St(c)' = "pending" /\ Rq(c)' = r /\ An(c)' = None
    BY <2>1, <2>3 DEF St, Rq, An
  <2>6. Service!Submit(c)
    BY <2>2, <2>5, ViewSubmit
  <2>7. QED
    BY <2>2, <2>4, <2>6 DEF AllJustified, Service!Next
<1>3. CASE SendChunk(c) \/ Hangup(c)
  BY <1>3, NothingSeen DEF SendChunk, Hangup
<1>4. QED
  BY <1>1, <1>2, <1>3 DEF Client

\* A fetch from the daemon itself is a client of its own: its slot connects and
\* submits in one step, while the request it serves stays pending.
LEMMA StartFetchSeen ==
    ASSUME Inv, AllJustified, NEW c \in Conns, StartFetch(c)
    PROVE  AllJustified' /\ [Service!Next]_(Service!vars)
<1> USE DEF Inv
<1>1. phase[c] = "body" /\ NeedsFetch(req[c]) /\ resp' = resp
  BY DEF StartFetch, BodyComplete
<1>2. CASE phase' = [phase EXCEPT ![c] = "run"] /\ UNCHANGED req
  <2>1. \A d \in Conns \ {c} : Same(d) /\ Justified(d)'
    BY <1>1, <1>2, Untouched DEF AllJustified, TypeOK
  <2>2. phase'[c] = "run" /\ req'[c] = req[c]
    BY <1>2 DEF TypeOK
  <2>3. Same(c)
    BY <1>1, <2>2 DEF Same, St, Rq, An
  <2>4. Justified(c)'
    BY <1>1, <2>2 DEF Justified, NeedsFetch, ConvertCheck
  <2>5. QED
    BY <2>1, <2>3, <2>4, ViewFrame DEF AllJustified
<1>3. ASSUME NEW u \in Conns, phase[u] = "closed",
             phase' = [phase EXCEPT ![c] = "run", ![u] = "head"],
             req' = [req EXCEPT ![u] = SelfTarget]
      PROVE  AllJustified' /\ [Service!Next]_(Service!vars)
  <2>1. u # c
    BY <1>1, <1>3
  <2>2. \A d \in Conns \ {c, u} : Same(d) /\ Justified(d)'
    BY <1>1, <1>3, Untouched DEF AllJustified, TypeOK
  <2>3. /\ phase'[c] = "run" /\ req'[c] = req[c]
        /\ phase'[u] = "head" /\ req'[u] = SelfTarget
    BY <1>3, <2>1 DEF TypeOK
  <2>4. Same(c)
    BY <1>1, <2>3 DEF Same, St, Rq, An
  <2>5. Justified(c)' /\ Justified(u)'
    BY <1>1, <2>3 DEF Justified, NeedsFetch, ConvertCheck
  <2>6. St(u) = "closed" /\ St(u)' = "pending" /\ Rq(u)' \in Requests /\ An(u)' = None
    BY <1>3, <2>3, ServerAssumption DEF St, Rq, An
  <2>7. Service!Submit(u)
    BY <2>2, <2>4, <2>6, ViewSubmit
  <2>8. QED
    BY <2>2, <2>5, <2>7 DEF AllJustified, Service!Next
<1>4. QED
  BY <1>2, <1>3 DEF StartFetch

LEMMA ServeSeen ==
    ASSUME Inv, AllJustified, NEW c \in Conns, Serve(c)
    PROVE  AllJustified' /\ [Service!Next]_(Service!vars)
<1> USE DEF Inv
<1>1. CASE FirstCall(c)
  <2>1. phase[c] = "head"
    BY <1>1 DEF FirstCall
  <2>2. CASE phase' = [phase EXCEPT ![c] = "body"] /\ UNCHANGED <<req, resp>>
    <3>1. \A d \in Conns \ {c} : Same(d) /\ Justified(d)'
      BY <2>2, Untouched DEF AllJustified, TypeOK
    <3>2. phase'[c] = "body" /\ req'[c] = req[c]
      BY <2>2 DEF TypeOK
    <3>3. Same(c) /\ Justified(c)'
      BY <2>1, <3>2 DEF Same, St, Rq, An, Justified
    <3>4. QED
      BY <3>1, <3>3, ViewFrame DEF AllJustified
  <2>3. CASE Close(c)
    BY <2>1, <2>3, ForgetSeen DEF Close, Service!Next
  <2>4. QED
    BY <1>1, <2>2, <2>3 DEF FirstCall, client
<1>2. CASE UploadCall(c)
  BY <1>2, NothingSeen DEF UploadCall, client
<1>3. CASE FinalCall(c)
  <2>1. /\ phase[c] = "body" /\ got[c] = Len(req[c].body) /\ ~NeedsFetch(req[c])
        /\ req[c] \in Requests /\ con_cls[c] \in Bufs
    BY <1>3 DEF FinalCall, BodyComplete, Control, ConnInv, Ownership, TypeOK
  <2>2. data[con_cls[c]] = req[c].body
    <3>1. req[c].body \in Seq(Chunks)
      BY <2>1, ServerAssumption DEF Request
    <3>2. SubSeq(req[c].body, 1, Len(req[c].body)) = req[c].body
      BY <3>1, SubSeqFull
    <3>3. QED
      BY <2>1, <3>2 DEF BodyIntegrity
  <2>3. Service!Promised(req[c], Route(req[c], req[c].body))
    BY <2>1, RoutePromised
  <2>4. Route(req[c], req[c].body) \in Responses
    BY <2>1, RouteType, ServerAssumption DEF Request
  <2>5. CASE Answer(c, Route(req[c], data[con_cls[c]]))
    BY <2>1, <2>2, <2>3, <2>4, <2>5, AnswerSeen DEF Service!Next
  <2>6. CASE /\ OOM /\ req[c].path = "/convert/manual" /\ req[c].method = "POST"
             /\ Answer(c, Reply(400))
    BY <2>1, <2>6, StarvedPromised, ReplyType, AnswerSeen DEF Service!Next
  <2>7. QED
    BY <1>3, <2>5, <2>6 DEF FinalCall
<1>4. CASE StartFetch(c)
  BY <1>4, StartFetchSeen
<1>5. CASE HeadersNoMemory(c)
  <2>1. /\ OOM /\ phase[c] = "body" /\ NeedsFetch(req[c]) /\ req[c].headers = "object"
        /\ req[c] \in Requests /\ Answer(c, Reply(400))
    BY <1>5 DEF HeadersNoMemory, BodyComplete, Control, ConnInv
  <2>2. QED
    BY <2>1, StarvedPromised, ReplyType, AnswerSeen DEF Service!Next
<1>6. CASE SendReply(c)
  <2>1. phase[c] = "reply" /\ phase' = [phase EXCEPT ![c] = "idle"] /\ UNCHANGED <<req, resp>>
    BY <1>6 DEF SendReply, client
  <2>2. \A d \in Conns \ {c} : Same(d) /\ Justified(d)'
    BY <2>1, Untouched DEF AllJustified, TypeOK
  <2>3. phase'[c] = "idle" /\ resp'[c] = resp[c]
    BY <2>1 DEF TypeOK
  <2>4. resp[c] \in Responses /\ Service!Promised(req[c], resp[c]) /\ resp[c] # None
    BY <2>1, ServerAssumption DEF AllJustified, Justified
  <2>5. Justified(c)'
    BY <2>3 DEF Justified
  <2>6. /\ St(c) = "pending" /\ St(c)' = "idle" /\ Rq(c) = req[c] /\ Rq(c)' = None
        /\ An(c)' = resp[c]
    BY <2>1, <2>3 DEF St, Rq, An
  <2>7. Service!Respond(c)
    BY <2>2, <2>4, <2>6, ViewRespond
  <2>8. QED
    BY <2>2, <2>5, <2>7 DEF AllJustified, Service!Next
<1>7. CASE NoticeHangup(c) \/ InactivityClose(c)
  <2>1. Forget(c) /\ phase[c] # "closed"
    BY <1>7 DEF NoticeHangup, InactivityClose, Quiet, Close
  <2>2. QED
    BY <2>1, ForgetSeen DEF Service!Next
<1>8. QED
  BY <1>1, <1>2, <1>3, <1>4, <1>5, <1>6, <1>7 DEF Serve

LEMMA ConvertSeen ==
    ASSUME Inv, AllJustified, Convert
    PROVE  AllJustified' /\ [Service!Next]_(Service!vars)
<1> USE DEF Inv
<1>1. CASE FetchReturn
  BY <1>1, NothingSeen DEF FetchReturn
<1>2. ASSUME NEW s \in {200, 422, 502, 504}, Leave(s), thread = "fetched"
      PROVE  AllJustified' /\ [Service!Next]_(Service!vars)
  <2>1. cur \in Conns /\ phase[cur] = "run" /\ req[cur] \in Requests
    BY <1>2 DEF Control, ThreadInv, ConnInv, Busy, TypeOK
  <2>2. Service!Promised(req[cur], Reply(s))
    BY <2>1, FetchPromised DEF AllJustified, Justified
  <2>3. Reply(s) \in Responses /\ Answer(cur, Reply(s))
    BY <1>2, ReplyType DEF Leave
  <2>4. QED
    BY <2>1, <2>2, <2>3, AnswerSeen DEF Service!Next
<1>3. CASE RejectFetch
  <2>1. FetchStatus(result) \in {502, 504}
    BY <1>3, FetchType DEF RejectFetch, Fetching
  <2>2. QED
    BY <1>2, <1>3, <2>1 DEF RejectFetch
<1>4. CASE RunConverter
  BY <1>2, <1>4 DEF RunConverter
<1>5. QED
  BY <1>1, <1>3, <1>4 DEF Convert

LEMMA ServiceStep ==
    ASSUME Inv, AllJustified, [Next]_vars
    PROVE  AllJustified' /\ [Service!Next]_(Service!vars)
<1>1. ASSUME NEW c \in Conns, Client(c) \/ Serve(c)
      PROVE  AllJustified' /\ [Service!Next]_(Service!vars)
  BY <1>1, ClientSeen, ServeSeen
<1>2. CASE Convert
  BY <1>2, ConvertSeen
<1>3. CASE RequestStop
  BY <1>3, NothingSeen DEF RequestStop, client
<1>4. CASE Shutdown
  <2>1. CASE LeaveLoop \/ ThreadExit
    BY <2>1, NothingSeen DEF LeaveLoop, ThreadExit, client
  <2>2. ASSUME NEW c \in Conns, CloseOnStop(c)
        PROVE  AllJustified' /\ [Service!Next]_(Service!vars)
    BY <2>2, ForgetSeen DEF CloseOnStop, Close, Service!Next, Inv
  <2>3. QED
    BY <1>4, <2>1, <2>2 DEF Shutdown
<1>5. CASE UNCHANGED vars
  BY <1>5, NothingSeen DEF vars, client
<1>6. QED
  BY <1>1, <1>2, <1>3, <1>4, <1>5 DEF Next, Terminated

LEMMA ServiceInitially == Init => AllJustified /\ Service!Init
  BY DEF Init, AllJustified, Justified, Service!Init

\* Whatever the interleaving of clients, handlers, fetches, timeouts and the
\* stop: a request gets one response, which it justifies, or its connection is
\* closed.
THEOREM ServerImplementsService == Spec => ImplementsService
<1>1. Inv /\ AllJustified /\ [Next]_vars => AllJustified' /\ [Service!Next]_(Service!vars)
  BY ServiceStep
<1>2. QED
  BY <1>1, ServiceInitially, ServerInvariant, PTL DEF Spec, ImplementsService, Service!SafeSpec
=============================================================================
