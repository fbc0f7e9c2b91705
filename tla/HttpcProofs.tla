---------------------------- MODULE HttpcProofs ----------------------------
(***************************************************************************)
(* Httpc for every buffer size, body length, number of fields and redirects *)
(* and every set of calls: the buffers are never overrun, and only a whole  *)
(* response is reported as one.                                             *)
(***************************************************************************)
EXTENDS Httpc, SequenceTheorems, TLAPS

Prefix(n) == [i \in 1..n |-> i]

\* What the buffers hold while curl is transferring, and what of it is left to
\* say when it is done.
Transferred ==
    /\ pc \in {"entry", "setup", "headers"} =>
         /\ body = NoBuffer /\ hdrs = NoBuffer
         /\ at = 0 /\ fields = 0
    /\ pc \in {"setup", "headers", "perform", "performed"} => out
    /\ part = "head" => at = 0
    /\ pc = "perform" =>
         /\ body.data = Prefix(at)
         /\ hdrs.data = Prefix(fields)
    /\ pc = "performed" /\ cc = "ok" =>
         /\ body.data = Prefix(total)
         /\ hdrs.data = Prefix(fields)

Inv == TypeOK /\ InBounds /\ Transferred /\ WholeResponse /\ OutUsable

\* A sequence of the first n numbers is one, and has that length.
LEMMA PrefixIsSeq ==
    ASSUME NEW n \in Nat
    PROVE  Prefix(n) \in Seq(Nat) /\ Len(Prefix(n)) = n
  BY DEF Prefix

LEMMA PrefixZero == Prefix(0) = << >>
  BY DEF Prefix

\* body_write_cb appends the next n bytes.
LEMMA PrefixConcat ==
    ASSUME NEW m \in Nat, NEW n \in Nat
    PROVE  Prefix(m) \o [i \in 1..n |-> m + i] = Prefix(m + n)
<1> DEFINE next == [i \in 1..n |-> m + i]
<1>1. next \in Seq(Nat) /\ Len(next) = n
  OBVIOUS
<1>2. Prefix(m) \in Seq(Nat) /\ Len(Prefix(m)) = m
  BY PrefixIsSeq
<1>3. Prefix(m + n) \in Seq(Nat) /\ Len(Prefix(m + n)) = m + n
  BY PrefixIsSeq
<1>4. Prefix(m) \o next \in Seq(Nat) /\ Len(Prefix(m) \o next) = m + n
  BY <1>1, <1>2
<1>5. ASSUME NEW i \in 1..(m + n)
      PROVE  (Prefix(m) \o next)[i] = Prefix(m + n)[i]
  BY <1>1, <1>2 DEF Prefix
<1>6. QED
  BY <1>3, <1>4, <1>5, SeqEqual

\* header_write_cb appends the next entry.
LEMMA PrefixAppend ==
    ASSUME NEW m \in Nat
    PROVE  Append(Prefix(m), m + 1) = Prefix(m + 1)
<1>1. Prefix(m) \in Seq(Nat) /\ Len(Prefix(m)) = m
  BY PrefixIsSeq
<1>2. Prefix(m + 1) \in Seq(Nat) /\ Len(Prefix(m + 1)) = m + 1
  BY PrefixIsSeq
<1>3. Append(Prefix(m), m + 1) \in Seq(Nat) /\ Len(Append(Prefix(m), m + 1)) = m + 1
  BY <1>1
<1>4. ASSUME NEW i \in 1..(m + 1)
      PROVE  Append(Prefix(m), m + 1)[i] = Prefix(m + 1)[i]
  BY <1>1 DEF Prefix
<1>5. QED
  BY <1>2, <1>3, <1>4, SeqEqual

\* The doubling loop leaves room for what it was asked for.
LEMMA ReservedFits ==
    ASSUME NEW buf \in [data: Seq(Nat), cap: Nat], NEW first \in Nat,
           NEW need \in Nat, NEW ncap \in Capacities(buf, first, need),
           Reserved(buf, first, need, ncap)
    PROVE  ncap \in Nat /\ need <= ncap
<1>1. ncap \in Nat
  BY DEF Capacities
<1>2. CASE need > buf.cap
  BY <1>1, <1>2 DEF Reserved, Grows
<1>3. CASE ~(need > buf.cap)
  BY <1>1, <1>3 DEF Reserved
<1>4. QED
  BY <1>2, <1>3

LEMMA NoBufferType == NoBuffer \in [data: Seq(Nat), cap: Nat] /\ Len(NoBuffer.data) <= NoBuffer.cap
<1>1. << >> \in Seq(Nat) /\ 0 \in Nat /\ Len(<< >>) = 0
  OBVIOUS
<1>2. QED
  BY <1>1 DEF NoBuffer

LEMMA HttpcInit == Init => Inv
<1> SUFFICES ASSUME Init PROVE Inv
  OBVIOUS
<1>1. TypeOK
  BY NoBufferType DEF Init, TypeOK
<1>2. InBounds
  BY NoBufferType DEF Init, InBounds
<1>3. QED
  BY <1>1, <1>2 DEF Init, Inv, Transferred, WholeResponse, OutUsable

LEMMA HttpcStep == Inv /\ [Next]_vars => Inv'
<1> SUFFICES ASSUME Inv, [Next]_vars PROVE Inv'
  OBVIOUS
<1> USE HttpcAssumption
<1>1. CASE Entry
  <2>1. CASE GiveUp /\ UNCHANGED <<args, out, heap>>
    BY <1>1, <2>1
    DEF Inv, Entry, GiveUp, upstream, TypeOK, InBounds, Transferred, WholeResponse, OutUsable
  <2>2. CASE out' = TRUE /\ GiveUp /\ UNCHANGED args
    BY <1>1, <2>2
    DEF Inv, Entry, GiveUp, upstream, TypeOK, InBounds, Transferred, WholeResponse, OutUsable
  <2>3. CASE out' = TRUE /\ pc' = "setup" /\ UNCHANGED <<args, slist, lost, body, hdrs, upstream, cc, rc>>
    BY <1>1, <2>3
    DEF Inv, Entry, upstream, TypeOK, InBounds, Transferred, WholeResponse, OutUsable
  <2>4. QED
    BY <1>1, <2>1, <2>2, <2>3 DEF Entry
<1>2. CASE Setup
  <2>1. CASE GiveUp /\ UNCHANGED <<args, out, heap>>
    BY <1>2, <2>1 DEF Inv, Setup, GiveUp, upstream, TypeOK, InBounds, Transferred, WholeResponse, OutUsable
  <2>2. CASE /\ pc' = IF args.nheaders > 0 THEN "headers" ELSE "perform"
             /\ UNCHANGED <<request, body, hdrs, upstream, cc, rc>>
    BY <1>2, <2>2, PrefixZero
    DEF Inv, Setup, upstream, TypeOK, InBounds, Transferred, WholeResponse, OutUsable, request, upstream, NoBuffer
  <2>3. QED
    BY <1>2, <2>1, <2>2 DEF Setup
<1>3. CASE AppendHeader
  BY <1>3, PrefixZero
  DEF Inv, AppendHeader, upstream, TypeOK, InBounds, Transferred, WholeResponse, OutUsable, NoBuffer
<1>4. ASSUME NEW field \in BOOLEAN, header_write_cb(field)
      PROVE  Inv'
  <2> DEFINE n == Len(hdrs.data) + 1
  <2>1. /\ pc = "perform" /\ part = "head"
        /\ UNCHANGED <<args, out, slist, lost, body, hop, part, status, total, at, rc>>
    BY <1>4 DEF header_write_cb, request
  <2>2. CASE UNCHANGED <<pc, cc, hdrs, heap, fields>>
    BY <2>1, <2>2 DEF Inv, TypeOK, InBounds, Transferred, WholeResponse, OutUsable
  <2>3. CASE WriteError /\ UNCHANGED <<hdrs, heap, fields>>
    BY <2>1, <2>3
    DEF Inv, TypeOK, InBounds, Transferred, WholeResponse, OutUsable, WriteError, Performed
  <2>4. ASSUME NEW ncap \in Capacities(hdrs, HdrStart, n), Reserved(hdrs, HdrStart, n, ncap),
               fields' = fields + 1,
               \/ /\ hdrs' = [data |-> Append(hdrs.data, fields + 1), cap |-> ncap]
                  /\ UNCHANGED <<pc, cc>>
               \/ /\ hdrs' = [data |-> hdrs.data, cap |-> ncap]
                  /\ WriteError
        PROVE  Inv'
    <3>1. ncap \in Nat /\ n <= ncap
      <4>1. hdrs \in [data: Seq(Nat), cap: Nat] /\ n \in Nat
        BY DEF Inv, TypeOK
      <4>2. QED
        BY <2>4, <4>1, ReservedFits
    <3>2. hdrs.data \in Seq(Nat) /\ fields \in Nat
      BY DEF Inv, TypeOK
    <3>3. CASE hdrs' = [data |-> Append(hdrs.data, fields + 1), cap |-> ncap] /\ UNCHANGED <<pc, cc>>
      <4>1. hdrs'.data = Prefix(fields + 1)
        BY <2>1, <3>2, <3>3, PrefixAppend DEF Inv, Transferred
      <4>2. hdrs' \in [data: Seq(Nat), cap: Nat] /\ Len(hdrs'.data) <= hdrs'.cap
        BY <3>1, <3>2, <3>3
      <4>3. QED
        BY <2>1, <2>4, <3>3, <4>1, <4>2
        DEF Inv, TypeOK, InBounds, Transferred, WholeResponse, OutUsable
    <3>4. CASE hdrs' = [data |-> hdrs.data, cap |-> ncap] /\ WriteError
      <4>1. hdrs' \in [data: Seq(Nat), cap: Nat] /\ Len(hdrs'.data) <= hdrs'.cap
        BY <3>1, <3>2, <3>4
      <4>2. QED
        BY <2>1, <2>4, <3>4, <4>1
        DEF Inv, TypeOK, InBounds, Transferred, WholeResponse, OutUsable, WriteError, Performed
    <3>5. QED
      BY <2>4, <3>3, <3>4
  <2>5. QED
    BY <1>4, <2>2, <2>3, <2>4 DEF header_write_cb
<1>5. ASSUME NEW n \in 1..MaxBody, body_write_cb(n)
      PROVE  Inv'
  <2> DEFINE need == Len(body.data) + n + 1
  <2>1. /\ pc = "perform" /\ part = "body" /\ n \in Nat /\ n > 0
        /\ UNCHANGED <<args, out, slist, lost, hdrs, hop, part, status, total, fields, rc>>
        /\ at' = at + n
    BY <1>5 DEF body_write_cb, request
  <2>2. CASE WriteError /\ UNCHANGED <<body, heap>>
    BY <2>1, <2>2
    DEF Inv, TypeOK, InBounds, Transferred, WholeResponse, OutUsable, WriteError, Performed
  <2>3. ASSUME NEW ncap \in Capacities(body, BodyStart, need), Reserved(body, BodyStart, need, ncap),
               body' = [data |-> body.data \o [i \in 1..n |-> at + i], cap |-> ncap],
               UNCHANGED <<pc, cc>>
        PROVE  Inv'
    <3>1. ncap \in Nat /\ need <= ncap
      <4>1. body \in [data: Seq(Nat), cap: Nat] /\ need \in Nat
        BY <2>1 DEF Inv, TypeOK
      <4>2. QED
        BY <2>3, <4>1, ReservedFits
    <3>2. body.data = Prefix(at) /\ at \in Nat
      BY <2>1 DEF Inv, Transferred, TypeOK
    <3>3. body'.data = Prefix(at + n)
      BY <2>1, <2>3, <3>2, PrefixConcat
    <3>4. body' \in [data: Seq(Nat), cap: Nat] /\ Len(body'.data) + 1 <= body'.cap
      <4>1. Len(body.data) = at
        BY <3>2, PrefixIsSeq
      <4>2. Prefix(at + n) \in Seq(Nat) /\ Len(Prefix(at + n)) = at + n
        BY <2>1, <3>2, PrefixIsSeq
      <4>3. QED
        BY <2>1, <2>3, <3>1, <3>2, <3>3, <4>1, <4>2
    <3>5. TypeOK'
      BY <2>1, <2>3, <3>2, <3>4 DEF Inv, TypeOK
    <3>6. InBounds'
      BY <2>1, <3>4 DEF Inv, InBounds
    <3>7. Transferred'
      BY <2>1, <2>3, <3>3 DEF Inv, Transferred
    <3>8. QED
      BY <2>1, <2>3, <3>5, <3>6, <3>7 DEF Inv, WholeResponse, OutUsable
  <2>4. QED
    BY <1>5, <2>2, <2>3 DEF body_write_cb
<1>6. CASE Redirect
  BY <1>6
  DEF Inv, Redirect, Performed, request, TypeOK, InBounds, Transferred, WholeResponse, OutUsable
<1>7. CASE FinalHead
  BY <1>7
  DEF Inv, FinalHead, request, TypeOK, InBounds, Transferred, WholeResponse, OutUsable
<1>8. CASE Complete
  BY <1>8
  DEF Inv, Complete, Performed, request, upstream, TypeOK, InBounds, Transferred, WholeResponse, OutUsable
<1>9. CASE Timeout
  BY <1>9
  DEF Inv, Timeout, Performed, request, upstream, TypeOK, InBounds, Transferred, WholeResponse, OutUsable
<1>10. CASE Break
  BY <1>10
  DEF Inv, Break, Performed, request, upstream, TypeOK, InBounds, Transferred, WholeResponse, OutUsable
<1>11. CASE Return
  BY <1>11
  DEF Inv, Return, Verdict, upstream, TypeOK, InBounds, Transferred, WholeResponse, OutUsable, Prefix
<1>12. CASE httpc_response_free
  <2>1. /\ body' = NoBuffer /\ hdrs' = NoBuffer /\ pc' = "freed" /\ out' = FALSE
        /\ UNCHANGED <<args, slist, lost, hop, part, status, total, at, fields, cc, rc>>
    BY <1>12 DEF httpc_response_free, upstream
  <2>2. TypeOK'
    BY <2>1, NoBufferType DEF Inv, TypeOK
  <2>3. InBounds'
    BY <2>1, NoBufferType DEF InBounds
  <2>4. Transferred'
    BY <2>1 DEF Inv, Transferred
  <2>5. QED
    BY <2>1, <2>2, <2>3, <2>4 DEF Inv, WholeResponse, OutUsable
<1>13. CASE UNCHANGED vars
  BY <1>13
  DEF Inv, vars, request, upstream, TypeOK, InBounds, Transferred, WholeResponse, OutUsable
<1>14. QED
  BY <1>1, <1>2, <1>3, <1>4, <1>5, <1>6, <1>7, <1>8, <1>9, <1>10, <1>11, <1>12, <1>13
  DEF Next, Transfer, Done

\* The inductive invariant of a call of httpc_request.
THEOREM HttpcInvariant == Spec => []Inv
  BY HttpcInit, HttpcStep, PTL DEF Spec

\* The state of a call is well typed.
THEOREM HttpcTypeOK == Spec => []TypeOK
<1>1. Inv => TypeOK
  BY DEF Inv
<1>2. QED
  BY <1>1, HttpcInvariant, PTL

\* Neither callback writes outside its buffer, whatever the chunk sizes.
THEOREM HttpcInBounds == Spec => []InBounds
<1>1. Inv => InBounds
  BY DEF Inv
<1>2. QED
  BY <1>1, HttpcInvariant, PTL

\* OK and HTTP_ERROR come with all of the upstream's data, in order.
THEOREM HttpcWholeResponse == Spec => []WholeResponse
<1>1. Inv => WholeResponse
  BY DEF Inv
<1>2. QED
  BY <1>1, HttpcInvariant, PTL

\* The codes after which handle_convert reads the response come with one.
THEOREM HttpcOutUsable == Spec => []OutUsable
<1>1. Inv => OutUsable
  BY DEF Inv
<1>2. QED
  BY <1>1, HttpcInvariant, PTL

-----------------------------------------------------------------------------
(* The heap *)

Lists == Objs("slist", slist) \cup Objs("slist", lost)

\* What is allocated at each point of the call: what *out gives access to, the
\* easy handle once there is one, and either a list that is still in hand or
\* one that is lost.
HeapInv ==
    /\ slist = 0 \/ lost = 0
    /\ pc = "entry" => ~out
    /\ pc \in {"entry", "setup"} => slist = 0 /\ lost = 0 /\ heap = Owned
    /\ pc = "headers" => lost = 0
    /\ pc \in {"headers", "perform", "performed"} => heap = Owned \cup Lists \cup {Curl}
    /\ pc \in {"returned", "freed"} => slist = 0
    /\ NoLeak

\* The kinds of objects keep the parts of the heap apart.
LEMMA Kinds ==
    /\ \A n : \A o \in Objs("slist", n) : o[1] = "slist"
    /\ Curl[1] = "curl"
    /\ \A o \in Owned : o[1] \in {"resp", "body", "arr", "name", "value"}
<1>1. \A kind, n : \A o \in Objs(kind, n) : o[1] = kind
  BY DEF Objs, Obj
<1>2. Curl[1] = "curl" /\ Resp[1] = "resp" /\ Obj("body", 0)[1] = "body" /\ Obj("arr", 0)[1] = "arr"
  BY DEF Curl, Resp, Obj
<1>3. \A o \in Owned : o[1] \in {"resp", "body", "arr", "name", "value"}
  BY <1>1, <1>2 DEF Owned
<1>4. QED
  BY <1>1, <1>2, <1>3

LEMMA ObjsZero == \A kind : Objs(kind, 0) = {}
  BY DEF Objs

LEMMA ObjsNext ==
    ASSUME NEW kind, NEW n \in Nat
    PROVE  Objs(kind, n + 1) = Objs(kind, n) \cup {Obj(kind, n + 1)}
<1>1. 1..(n + 1) = (1..n) \cup {n + 1}
  OBVIOUS
<1>2. QED
  BY <1>1 DEF Objs

LEMMA OwnedSame ==
    ASSUME UNCHANGED <<out, body, hdrs>>
    PROVE  Owned' = Owned
  BY DEF Owned

\* body_write_cb's buffer is one object, however often it grows.
LEMMA OwnedBody ==
    ASSUME out, UNCHANGED <<out, hdrs>>, body'.cap > 0
    PROVE  Owned' = Owned \cup {Obj("body", 0)}
  BY DEF Owned

LEMMA OwnedFresh ==
    ASSUME body' = NoBuffer, hdrs' = NoBuffer, out' \in BOOLEAN
    PROVE  Owned' = IF out' THEN {Resp} ELSE {}
<1>1. body'.cap = 0 /\ hdrs'.cap = 0 /\ Len(hdrs'.data) = 0
  BY DEF NoBuffer
<1>2. Objs("name", Len(hdrs'.data)) = {} /\ Objs("value", Len(hdrs'.data)) = {}
  BY <1>1, ObjsZero
<1>3. CASE out'
  BY <1>1, <1>2, <1>3 DEF Owned
<1>4. CASE ~out'
  BY <1>4 DEF Owned
<1>5. QED
  BY <1>3, <1>4

\* header_write_cb's array too; each entry has a name and a value.
LEMMA OwnedEntry ==
    ASSUME hdrs \in [data: Seq(Nat), cap: Nat], NEW f \in Nat, NEW ncap \in Nat \ {0},
           out, UNCHANGED <<out, body>>
    PROVE  /\ hdrs' = [data |-> hdrs.data, cap |-> ncap] =>
                Owned' = Owned \cup {Obj("arr", 0)}
           /\ hdrs' = [data |-> Append(hdrs.data, f), cap |-> ncap] =>
                LET n == Len(hdrs.data) + 1 IN
                Owned' = Owned \cup {Obj("arr", 0), Obj("name", n), Obj("value", n)}
<1>1. Len(hdrs.data) \in Nat /\ Len(Append(hdrs.data, f)) = Len(hdrs.data) + 1
  OBVIOUS
<1>2. /\ Objs("name", Len(hdrs.data) + 1) = Objs("name", Len(hdrs.data)) \cup {Obj("name", Len(hdrs.data) + 1)}
      /\ Objs("value", Len(hdrs.data) + 1) = Objs("value", Len(hdrs.data)) \cup {Obj("value", Len(hdrs.data) + 1)}
  BY <1>1, ObjsNext
<1>3. ASSUME hdrs' = [data |-> hdrs.data, cap |-> ncap]
      PROVE  Owned' = Owned \cup {Obj("arr", 0)}
  BY <1>3 DEF Owned
<1>4. ASSUME hdrs' = [data |-> Append(hdrs.data, f), cap |-> ncap]
      PROVE  Owned' = Owned \cup {Obj("arr", 0), Obj("name", Len(hdrs.data) + 1),
                                  Obj("value", Len(hdrs.data) + 1)}
  <2>1. hdrs'.cap > 0 /\ Len(hdrs'.data) = Len(hdrs.data) + 1
    BY <1>1, <1>4
  <2>2. QED
    BY <1>2, <2>1 DEF Owned
<1>5. QED
  BY <1>3, <1>4

LEMMA HeapInitially == Init => HeapInv
<1> SUFFICES ASSUME Init PROVE HeapInv
  OBVIOUS
<1>1. Owned = {}
  BY DEF Init, Owned
<1>2. QED
  BY <1>1 DEF Init, HeapInv, NoLeak

\* A call that ends before the transfer has allocated the response at most.
LEMMA HeapGiveUp ==
    ASSUME HeapInv, pc \in {"entry", "setup"}, GiveUp, heap' = Owned'
    PROVE  HeapInv'
<1>1. /\ pc' = "returned" /\ slist = 0 /\ lost = 0 /\ UNCHANGED <<slist, lost>>
  BY DEF GiveUp, HeapInv
<1>2. Objs("slist", lost') = {}
  BY <1>1, ObjsZero
<1>3. QED
  BY <1>1, <1>2 DEF HeapInv, NoLeak

\* curl's callbacks add to what *out owns and to the heap the same.
LEMMA HeapTransfer ==
    ASSUME HeapInv, pc = "perform", pc' \in {"perform", "performed"},
           UNCHANGED <<slist, lost>>,
           NEW new, heap' = heap \cup new, Owned' = Owned \cup new
    PROVE  HeapInv'
  BY DEF HeapInv, NoLeak, Lists

LEMMA HeapStep == Inv /\ HeapInv /\ [Next]_vars => HeapInv'
<1> SUFFICES ASSUME Inv, HeapInv, [Next]_vars PROVE HeapInv'
  OBVIOUS
<1> USE HttpcAssumption
<1>t. TypeOK /\ Transferred
  BY DEF Inv
<1>n. ASSUME pc = "perform", pc' \in {"perform", "performed"},
             UNCHANGED <<heap, out, body, hdrs, slist, lost>>
      PROVE  HeapInv'
  <2>1. Owned' = Owned \cup {} /\ heap' = heap \cup {}
    BY <1>n, OwnedSame
  <2>2. QED
    BY <1>n, <2>1, HeapTransfer
<1>1. CASE Entry
  <2>1. /\ pc = "entry" /\ heap = {} /\ ~out /\ slist = 0 /\ lost = 0
        /\ body = NoBuffer /\ hdrs = NoBuffer
    <3>1. pc = "entry" /\ ~out
      BY <1>1 DEF Entry, HeapInv
    <3>2. Owned = {}
      BY <3>1 DEF Owned
    <3>3. QED
      BY <1>t, <3>1, <3>2 DEF HeapInv, Transferred
  <2>2. body' = NoBuffer /\ hdrs' = NoBuffer /\ out' \in BOOLEAN
    BY <1>1, <1>t, <2>1 DEF Entry, GiveUp, TypeOK
  <2>3. Owned' = IF out' THEN {Resp} ELSE {}
    BY <2>2, OwnedFresh
  <2>4. CASE GiveUp
    <3>1. heap' = Owned'
      BY <1>1, <2>1, <2>3 DEF Entry
    <3>2. QED
      BY <2>1, <2>4, <3>1, HeapGiveUp
  <2>5. CASE out' = TRUE /\ heap' = heap \cup {Resp} /\ pc' = "setup" /\ UNCHANGED <<slist, lost>>
    BY <2>1, <2>3, <2>5 DEF HeapInv, NoLeak
  <2>6. QED
    BY <1>1, <2>4, <2>5 DEF Entry
<1>2. CASE Setup
  <2>1. pc = "setup" /\ heap = Owned /\ slist = 0 /\ lost = 0 /\ UNCHANGED <<out, body, hdrs>>
    BY <1>2 DEF Setup, HeapInv, GiveUp, request
  <2>2. Owned' = Owned
    BY <2>1, OwnedSame
  <2>3. CASE GiveUp /\ UNCHANGED heap
    BY <2>1, <2>2, <2>3, HeapGiveUp
  <2>4. CASE /\ heap' = heap \cup {Curl} /\ pc' \in {"headers", "perform"}
             /\ UNCHANGED <<slist, lost>>
    BY <2>1, <2>2, <2>4, ObjsZero DEF HeapInv, NoLeak, Lists
  <2>5. QED
    BY <1>2, <2>3, <2>4 DEF Setup, request
<1>3. CASE AppendHeader
  <2>1. /\ pc = "headers" /\ lost = 0 /\ slist \in Nat /\ heap = Owned \cup Lists \cup {Curl}
        /\ UNCHANGED <<out, body, hdrs>>
    BY <1>3, <1>t DEF AppendHeader, HeapInv, TypeOK
  <2>2. Owned' = Owned /\ Lists = Objs("slist", slist)
    BY <2>1, OwnedSame, ObjsZero DEF Lists
  <2>3. CASE /\ slist' = slist + 1 /\ heap' = heap \cup {Obj("slist", slist + 1)}
             /\ pc' \in {"headers", "perform"} /\ UNCHANGED lost
    <3>1. Lists' = Lists \cup {Obj("slist", slist + 1)}
      BY <2>1, <2>2, <2>3, ObjsZero, ObjsNext DEF Lists
    <3>2. QED
      BY <2>1, <2>2, <2>3, <3>1 DEF HeapInv, NoLeak
  <2>4. CASE lost' = slist /\ slist' = 0 /\ pc' = "perform" /\ UNCHANGED heap
    <3>1. Lists' = Lists
      BY <2>2, <2>4, ObjsZero DEF Lists
    <3>2. QED
      BY <2>1, <2>2, <2>4, <3>1 DEF HeapInv, NoLeak
  <2>5. QED
    BY <1>3, <2>1, <2>3, <2>4 DEF AppendHeader
<1>4. ASSUME NEW field \in BOOLEAN, header_write_cb(field)
      PROVE  HeapInv'
  <2> DEFINE n == Len(hdrs.data) + 1
  <2>1. /\ pc = "perform" /\ out /\ UNCHANGED <<out, slist, lost, body>>
        /\ hdrs \in [data: Seq(Nat), cap: Nat] /\ fields \in Nat
    BY <1>4, <1>t DEF header_write_cb, request, TypeOK, Transferred
  <2>2. CASE pc' \in {"perform", "performed"} /\ UNCHANGED <<hdrs, heap>>
    BY <1>n, <2>1, <2>2
  <2>3. ASSUME NEW ncap \in Capacities(hdrs, HdrStart, n), Reserved(hdrs, HdrStart, n, ncap)
        PROVE  ncap \in Nat \ {0}
    <3>1. n \in Nat \ {0}
      BY <2>1
    <3>2. ncap \in Nat /\ n <= ncap
      BY <2>1, <2>3, <3>1, ReservedFits
    <3>3. QED
      BY <3>1, <3>2
  <2>4. ASSUME NEW ncap \in Nat \ {0}, pc' \in {"perform", "performed"},
               \/ /\ hdrs' = [data |-> Append(hdrs.data, fields + 1), cap |-> ncap]
                  /\ heap' = heap \cup {Obj("arr", 0), Obj("name", n), Obj("value", n)}
               \/ /\ hdrs' = [data |-> hdrs.data, cap |-> ncap]
                  /\ heap' = heap \cup {Obj("arr", 0)}
        PROVE  HeapInv'
    <3>1. fields + 1 \in Nat
      BY <2>1
    <3>2. CASE /\ hdrs' = [data |-> Append(hdrs.data, fields + 1), cap |-> ncap]
               /\ heap' = heap \cup {Obj("arr", 0), Obj("name", n), Obj("value", n)}
      <4>1. Owned' = Owned \cup {Obj("arr", 0), Obj("name", n), Obj("value", n)}
        BY <2>1, <2>4, <3>1, <3>2, OwnedEntry
      <4>2. QED
        BY <2>1, <2>4, <3>2, <4>1, HeapTransfer
    <3>3. CASE /\ hdrs' = [data |-> hdrs.data, cap |-> ncap]
               /\ heap' = heap \cup {Obj("arr", 0)}
      <4>1. Owned' = Owned \cup {Obj("arr", 0)}
        BY <2>1, <2>4, <3>1, <3>3, OwnedEntry
      <4>2. QED
        BY <2>1, <2>4, <3>3, <4>1, HeapTransfer
    <3>4. QED
      BY <2>4, <3>2, <3>3
  <2>5. CASE WriteError /\ UNCHANGED <<hdrs, heap>>
    BY <2>2, <2>5 DEF WriteError, Performed
  <2>6. CASE UNCHANGED <<pc, hdrs, heap>>
    BY <2>1, <2>2, <2>6
  <2>7. ASSUME NEW ncap \in Capacities(hdrs, HdrStart, n), Reserved(hdrs, HdrStart, n, ncap),
               \/ /\ hdrs' = [data |-> Append(hdrs.data, fields + 1), cap |-> ncap]
                  /\ heap' = heap \cup {Obj("arr", 0), Obj("name", n), Obj("value", n)}
                  /\ UNCHANGED pc
               \/ /\ hdrs' = [data |-> hdrs.data, cap |-> ncap]
                  /\ heap' = heap \cup {Obj("arr", 0)}
                  /\ WriteError
        PROVE  HeapInv'
    <3>1. ncap \in Nat \ {0} /\ pc' \in {"perform", "performed"}
      BY <2>1, <2>3, <2>7 DEF WriteError, Performed
    <3>2. QED
      BY <2>4, <2>7, <3>1
  <2>8. QED
    BY <1>4, <2>5, <2>6, <2>7 DEF header_write_cb
<1>5. ASSUME NEW n \in 1..MaxBody, body_write_cb(n)
      PROVE  HeapInv'
  <2> DEFINE need == Len(body.data) + n + 1
  <2>1. /\ pc = "perform" /\ out /\ UNCHANGED <<out, slist, lost, hdrs>>
        /\ body \in [data: Seq(Nat), cap: Nat] /\ need \in Nat \ {0}
    BY <1>5, <1>t DEF body_write_cb, request, TypeOK, Transferred
  <2>2. CASE WriteError /\ UNCHANGED <<body, heap>>
    BY <1>n, <2>1, <2>2 DEF WriteError, Performed
  <2>3. ASSUME NEW ncap \in Capacities(body, BodyStart, need), Reserved(body, BodyStart, need, ncap),
               body' = [data |-> body.data \o [i \in 1..n |-> at + i], cap |-> ncap],
               heap' = heap \cup {Obj("body", 0)}, UNCHANGED pc
        PROVE  HeapInv'
    <3>1. ncap \in Nat /\ need <= ncap
      BY <2>1, <2>3, ReservedFits
    <3>2. body'.cap > 0
      BY <2>1, <2>3, <3>1
    <3>3. Owned' = Owned \cup {Obj("body", 0)}
      BY <2>1, <3>2, OwnedBody
    <3>4. QED
      BY <2>1, <2>3, <3>3, HeapTransfer
  <2>4. QED
    BY <1>5, <2>2, <2>3 DEF body_write_cb
<1>6. CASE Redirect \/ FinalHead \/ Complete \/ Timeout \/ Break
  BY <1>6, <1>n DEF Redirect, FinalHead, Complete, Timeout, Break, Performed, request, upstream
<1>7. CASE Return
  <2>1. /\ pc' = "returned" /\ heap = Owned \cup Lists \cup {Curl}
        /\ heap' = heap \ (Objs("slist", slist) \cup {Curl})
        /\ slist' = 0 /\ UNCHANGED <<lost, out, body, hdrs>>
    BY <1>7 DEF Return, HeapInv
  <2>2. Owned' = Owned
    BY <2>1, OwnedSame
  <2>3. slist = 0 \/ lost = 0
    BY DEF HeapInv
  <2>4. Objs("slist", slist) = {} \/ Objs("slist", lost) = {}
    BY <2>3, ObjsZero
  <2>5. heap' = Owned \cup Objs("slist", lost)
    BY <2>1, <2>4, Kinds DEF Lists
  <2>6. QED
    BY <2>1, <2>2, <2>5 DEF HeapInv, NoLeak
<1>8. CASE httpc_response_free
  <2>1. /\ pc = "returned" /\ pc' = "freed" /\ heap' = heap \ Owned
        /\ heap = Owned \cup Objs("slist", lost) /\ UNCHANGED <<slist, lost>>
    BY <1>8 DEF httpc_response_free, HeapInv, NoLeak
  <2>2. heap' = Objs("slist", lost)
    BY <2>1, Kinds
  <2>3. QED
    BY <2>1, <2>2 DEF HeapInv, NoLeak
<1>9. CASE UNCHANGED vars
  <2>1. UNCHANGED <<pc, out, slist, lost, heap, body, hdrs>>
    BY <1>9 DEF vars, request
  <2>2. Owned' = Owned /\ Lists' = Lists
    BY <2>1, OwnedSame DEF Lists
  <2>3. QED
    BY <2>1, <2>2 DEF HeapInv, NoLeak
<1>10. QED
  BY <1>1, <1>2, <1>3, <1>4, <1>5, <1>6, <1>7, <1>8, <1>9 DEF Next, Transfer, Done

\* Whatever fails, httpc_response_free leaves nothing allocated but the entries
\* of a header list that could not be extended.
THEOREM HttpcNoLeak == Spec => []NoLeak
<1>1. HeapInv => NoLeak
  BY DEF HeapInv
<1>2. QED
  BY <1>1, HttpcInvariant, HeapInitially, HeapStep, PTL DEF Spec
=============================================================================
