----------------------------- MODULE ShareLink -----------------------------
(***************************************************************************)
(* node_parse_share (model.c): one share link becomes a node.              *)
(*                                                                         *)
(* A link is its scheme and the sequence of tokens behind "://".  A token   *)
(* is a delimiter, an escape ("%40" is an escaped @, "%00" an escaped NUL,  *)
(* "%" a malformed one), a number, a word the parser knows, or other text. *)
(* Blobs are stretches of base64; StdBlobs, UrlBlobs and Json say what they *)
(* decode to.  xstrdup and strbuf_grow abort without memory, so only the    *)
(* allocations that are checked may fail here.                              *)
(***************************************************************************)
EXTENDS Integers, Sequences, SequencesExt

CONSTANTS
    Links,    \* [scheme, text]
    Toks,     \* the tokens
    Width,    \* how many characters each has
    Ports,    \* the texts that strtol reads to their end, with their values
    Decimal,  \* what %d prints of a port
    StdBlobs, \* tokens that are standard base64, and what they encode
    UrlBlobs, \* tokens that are URL-safe base64, and what they encode
    Json,     \* tokens that are base64 of a vmess document, and the document
    OOM,      \* TRUE: realloc and malloc may fail
    None      \* NULL

MaxPort == 65535
Schemes == {"vless", "trojan", "vmess", "ss", "other"}
Text    == Seq(Toks)
Pair    == [key: Text, value: Text]
MaybeText == Text \cup {None}

\* A vmess document, whose strings are C strings; opts are its fields that links
\* have too, by their names there (type and security are net and tls).
Shared == {"type", "security", "host", "path", "sni", "alpn", "fp", "serviceName"}
Doc == [add: MaybeText, port: Int, ps: MaybeText, id: MaybeText, scy: MaybeText,
        opts: [Shared -> MaybeText]]

\* There are tokens to write a port with.
Written(port) == port \in 1..MaxPort => port \in DOMAIN Decimal

ASSUME ShareLinkAssumption ==
    /\ Links \subseteq [scheme: Schemes, text: Text]
    /\ {"@", "&", "NUL", ":", "auto"} \subseteq Toks
    /\ Width \in [Toks -> Nat]
    /\ \A t \in DOMAIN Ports :
         /\ t \in Text \ {<< >>} /\ {":", "]", "NUL"} \cap ToSet(t) = {}
         /\ Ports[t] \in Int /\ Written(Ports[t])
    /\ \A p \in DOMAIN Decimal : Decimal[p] \in DOMAIN Ports /\ Ports[Decimal[p]] = p
    /\ DOMAIN StdBlobs \subseteq Toks /\ \A t \in DOMAIN StdBlobs : StdBlobs[t] \in Text
    /\ DOMAIN UrlBlobs \subseteq Toks /\ \A t \in DOMAIN UrlBlobs : UrlBlobs[t] \in Text
    /\ DOMAIN Json \subseteq Toks /\ \A t \in DOMAIN Json : Json[t] \in Doc /\ Written(Json[t].port)
    /\ OOM \in BOOLEAN
    /\ None \notin Text

VARIABLES
    pc,      \* where the parser is
    link,    \* its input
    rest,    \* the authority in hand
    creds,   \* method and password of an ss link, not yet the node's
    i,       \* parse_query's position
    pairs,   \* what parse_query has collected and kv_free has not freed
    bufs,    \* its buffers that have memory: {"key", "value"}
    held,    \* other heap objects the parser must free itself
    node,    \* the node
    starved, \* an allocation has failed
    rc       \* what node_parse_share returned

local == <<rest, creds, i>>
query == <<pairs, bufs>>
vars  == <<pc, link, local, query, held, node, starved, rc>>

Fields == {"name", "server", "uuid", "password", "cipher", "sni", "alpn", "fp",
           "reality_pbk", "reality_sid", "ws_path", "ws_host", "xhttp_host",
           "xhttp_path", "xhttp_mode", "grpc_service", "plugin", "plugin_opts"}
Node == [type: Schemes \cup {"unknown"}, port: 0..MaxPort,
         transport: {"none", "ws", "xhttp", "grpc", "http"}, tls: {"none", "tls", "reality"},
         str: [Fields -> MaybeText]]
EmptyNode == [type |-> "unknown", port |-> 0, transport |-> "none", tls |-> "none",
              str |-> [f \in Fields |-> None]]

-----------------------------------------------------------------------------
(* Text *)

\* The first c in t, or one behind its end; the last, or 0.
First(t, c)  == Min({k \in DOMAIN t : t[k] = c} \cup {Len(t) + 1})
LastAt(t, c) == Max({k \in DOMAIN t : t[k] = c} \cup {0})

trim_crlf(t) == SubSeq(t, 1, Max({k \in DOMAIN t : t[k] # "CR"} \cup {0}))

\* url_decode; a malformed escape makes it fail.
Decodes(t) == ~Contains(t, "%")
url_decode(t) ==
    [k \in DOMAIN t |-> CASE t[k] = "%40" -> "@" [] t[k] = "%26" -> "&"
                          [] t[k] = "%00" -> "NUL" [] OTHER -> t[k]]

\* xstrdup copies up to the first NUL.
xstrdup(t) == SubSeq(t, 1, First(t, "NUL") - 1)

\* base64_decode on a stretch that is a blob; other text does not decode.
Decoded(blobs, t) == IF Len(t) = 1 /\ t[1] \in DOMAIN blobs THEN blobs[t[1]] ELSE None

Frag(t)  == First(t, "#")
Query(t) == LET q == First(t, "?") IN IF q < Frag(t) THEN q ELSE Len(t) + 1
Limit(t) == IF Query(t) < Frag(t) THEN Query(t) ELSE Frag(t)

\* Mutant: the last @ ends the user.
AtLast(t) == LET at == LastAt(t, "@") IN IF at \in 1..(Query(t) - 1) THEN at ELSE Len(t) + 1

\* Mutant: the search does not end with the query.
AtAnywhere(t) == First(t, "@")

\* parse_vless_like's `at': searched up to the query, or, without one, through
\* the whole link.
At(t) == LET at == First(t, "@") IN IF at < Query(t) THEN at ELSE Len(t) + 1

Fill(n, f, t) == [n EXCEPT !.str[f] = t]

-----------------------------------------------------------------------------
(* parse_host_port *)

\* Where the host ends and where the port begins; the last colon separates
\* them, or the bracket.
HostEnd(t) == IF t[1] = "[" THEN First(t, "]") - 1 ELSE LastAt(t, ":") - 1
HostStart(t) == IF t[1] = "[" THEN 2 ELSE 1
PortStart(t) == IF t[1] = "[" THEN HostEnd(t) + 3 ELSE HostEnd(t) + 2

Separated(t) ==
    /\ t # << >>
    /\ PortStart(t) - 1 \in DOMAIN t /\ t[PortStart(t) - 1] = ":"

Host(t) == SubSeq(t, HostStart(t), HostEnd(t))

PortBuf  == 16
Chars(t) == FoldLeft(LAMBDA n, c : n + Width[c], 0, t)

\* The rest is copied into portbuf, where it ends at its first NUL.
PortText(t) == SubSeq(t, PortStart(t), Len(t))
Digits(t)   == xstrdup(PortText(t))

\* It fits, strtol reads all of it, and the number is a port.
PortValid(t) ==
    /\ Chars(PortText(t)) < PortBuf
    /\ Digits(t) \in DOMAIN Ports /\ Ports[Digits(t)] \in 1..MaxPort

HasHostPort(t) == Separated(t) /\ Host(t) # << >> /\ PortValid(t)
PortNumber(t)  == Ports[Digits(t)]

-----------------------------------------------------------------------------
(* apply_query and apply_ss_query *)

Direct == [mode |-> "xhttp_mode", sni |-> "sni", fp |-> "fp", pbk |-> "reality_pbk",
           sid |-> "reality_sid", alpn |-> "alpn", serviceName |-> "grpc_service"]
KeyIs(p, word) == p.key = <<word>>

TransportOf(v) ==
    IF v \in {<<"http">>, <<"h2">>} THEN "http"
    ELSE IF v \in {<<"ws">>, <<"xhttp">>, <<"grpc">>} THEN v[1] ELSE "none"
TlsOf(v) == IF v \in {<<"tls">>, <<"reality">>} THEN v[1] ELSE "none"

\* The first pass.
ApplyKind(n, p) ==
    IF KeyIs(p, "type") THEN [n EXCEPT !.transport = TransportOf(p.value)]
    ELSE IF KeyIs(p, "security") THEN [n EXCEPT !.tls = TlsOf(p.value)]
    ELSE n

\* path and host belong to the transport.
Ws    == [path |-> "ws_path", host |-> "ws_host"]
Xhttp == [path |-> "xhttp_path", host |-> "xhttp_host"]
Place(n, key) == IF n.transport = "ws" THEN Ws[key] ELSE Xhttp[key]

\* The second pass.
ApplyField(n, p) ==
    IF KeyIs(p, "path") \/ KeyIs(p, "host") THEN Fill(n, Place(n, p.key[1]), p.value)
    ELSE IF \E k \in DOMAIN Direct : KeyIs(p, k) THEN Fill(n, Direct[p.key[1]], p.value)
    ELSE n

ApplySs(n, p) ==
    IF KeyIs(p, "plugin") THEN Fill(n, "plugin", p.value)
    ELSE IF KeyIs(p, "plugin-opts") \/ KeyIs(p, "pluginOpts") THEN Fill(n, "plugin_opts", p.value)
    ELSE n

-----------------------------------------------------------------------------
Init ==
    /\ pc = "entry" /\ link \in Links
    /\ rest = << >> /\ creds = None /\ i = 1 /\ pairs = << >> /\ bufs = {}
    /\ held = {} /\ node = EmptyNode /\ starved = FALSE /\ rc = 1

\* A parser returns -1 and node_parse_share clears the node.
Fail ==
    /\ pc' = "returned" /\ rc' = -1 /\ node' = EmptyNode
    /\ UNCHANGED <<link, local>>

\* xstrdup(NULL): the decoded text is empty and its buffer never got memory.
NullCopy == pc' = "null" /\ UNCHANGED <<link, local, node, rc>>

Goto(label, n) == pc' = label /\ node' = n /\ UNCHANGED <<link, rc>>

text == trim_crlf(link.text)

\* node_parse_share and parse_vmess: which form it is.
Entry ==
    /\ pc = "entry"
    /\ \/ link.scheme \in {"vless", "trojan"} /\ Goto("user", node)
       \/ link.scheme = "vmess"
          /\ Goto(IF First(text, "@") < Frag(text) THEN "user" ELSE "json", node)
       \/ link.scheme = "ss"
          /\ Goto(IF First(text, "@") < Limit(text) THEN "creds" ELSE "blob", node)
    /\ UNCHANGED <<local, query, held, starved>>

EntryUnknown ==
    /\ pc = "entry" /\ link.scheme = "other"
    /\ Fail /\ UNCHANGED <<query, held, starved>>

\* parse_vless_like up to parse_host_port.
Typed == [node EXCEPT !.type = link.scheme,
                      !.tls = IF link.scheme = "trojan" THEN "tls" ELSE "none"]
Secret == IF link.scheme = "trojan" THEN "password" ELSE "uuid"
User   == SubSeq(text, 1, At(text) - 1)

UserInfo ==
    /\ pc = "user"
    /\ At(text) <= Len(text)
    /\ \/ /\ ~Decodes(User)
          /\ Fail
       \/ /\ User = << >>
          /\ NullCopy
       \/ /\ User # << >> /\ Decodes(User) /\ At(text) < Limit(text)
          /\ Goto("authority", Fill(Typed, Secret, xstrdup(url_decode(User))))
          /\ rest' = SubSeq(text, At(text) + 1, Limit(text) - 1)
          /\ UNCHANGED <<creds, i>>
       \/ /\ User # << >> /\ Decodes(User) /\ At(text) > Limit(text)
          \* the length wraps below zero: parse_host_port reads behind the link,
          \* unless brackets make it stop
          /\ LET behind == SubSeq(text, At(text) + 1, Len(text)) IN
             \/ ~(behind # << >> /\ behind[1] = "[" /\ Contains(behind, "]"))
                /\ pc' = "overrun" /\ UNCHANGED <<link, local, node, rc>>
             \/ behind # << >> /\ behind[1] = "[" /\ Fail
    /\ UNCHANGED <<query, held, starved>>

UserMissing ==
    /\ pc = "user" /\ At(text) > Len(text)
    /\ Fail /\ UNCHANGED <<query, held, starved>>

\* parse_method_pass: base64, or plain.
MethodPass(t) ==
    LET dec == Decoded(StdBlobs, t)
        own == IF dec # None /\ Contains(dec, ":") THEN dec ELSE t
        colon == First(own, ":")
    IN IF colon \in 2..Len(own)
       THEN [method |-> xstrdup(SubSeq(own, 1, colon - 1)),
             password |-> xstrdup(SubSeq(own, colon + 1, Len(own)))]
       ELSE None

\* parse_ss, "user@host": held are method and password.
Creds ==
    /\ pc = "creds"
    /\ LET mp == MethodPass(SubSeq(text, 1, First(text, "@") - 1)) IN
       \/ mp = None /\ Fail /\ UNCHANGED held
       \/ /\ mp # None
          /\ creds' = mp /\ held' = {"creds"}
          /\ rest' = SubSeq(text, First(text, "@") + 1, Limit(text) - 1)
          /\ Goto("authority", [node EXCEPT !.type = "ss"])
          /\ UNCHANGED i
    /\ UNCHANGED <<query, starved>>

\* parse_ss, one blob for all of it: held is the decoded text as well.
Blob ==
    /\ pc = "blob"
    /\ LET dec == Decoded(UrlBlobs, SubSeq(text, 1, Limit(text) - 1))
           at  == IF dec = None THEN 0 ELSE LastAt(dec, "@")
           mp  == IF at <= 1 THEN None ELSE MethodPass(SubSeq(dec, 1, at - 1))
       IN
       \/ mp = None /\ Fail /\ UNCHANGED held
       \/ /\ mp # None
          /\ creds' = mp /\ held' = {"creds", "decoded"}
          /\ rest' = SubSeq(dec, at + 1, Len(dec))
          /\ Goto("authority", [node EXCEPT !.type = "ss"])
          /\ UNCHANGED i
    /\ UNCHANGED <<query, starved>>

\* Mutant: method and password are not freed when the host is bad.
AuthorityLeaks ==
    /\ pc = "authority" /\ ~HasHostPort(rest)
    /\ Fail
    /\ UNCHANGED <<query, held, starved>>

AuthorityBad ==
    /\ pc = "authority" /\ ~HasHostPort(rest)
    /\ Fail
    /\ held' = {}
    /\ UNCHANGED <<query, starved>>

\* The node takes host, port and, in parse_ss, method and password.
Authority ==
    /\ pc = "authority" /\ HasHostPort(rest)
    /\ LET n == [Fill(node, "server", xstrdup(Host(rest))) EXCEPT !.port = PortNumber(rest)] IN
       Goto(IF Query(text) < Frag(text) THEN "query" ELSE "name",
            IF creds = None THEN n
            ELSE Fill(Fill(n, "cipher", creds.method), "password", creds.password))
    /\ held' = {}
    /\ i' = 1
    /\ UNCHANGED <<rest, creds, query, starved>>

-----------------------------------------------------------------------------
(* parse_query *)

q == SubSeq(text, Query(text) + 1, Frag(text) - 1)

\* Position 0 stands for "none" in the code, so that a c in front is not seen.
Next1(c) ==
    LET at == i - 1 + First(SubSeq(q, i, Len(q)), c) IN IF at \in 2..Len(q) THEN at ELSE 0

Amp    == Next1("&")
Eq     == Next1("=")
SegEnd == IF Amp # 0 THEN Amp ELSE Len(q) + 1
IsPair == Eq # 0 /\ Eq < SegEnd
Key    == SubSeq(q, i, Eq - 1)
Value  == SubSeq(q, Eq + 1, SegEnd - 1)

\* The caller's loops over the pairs.
Apply == IF link.scheme = "ss" THEN "fields" ELSE "kinds"

\* kv_free and strbuf_free on the way out.
QueryFails == Fail /\ pairs' = << >> /\ bufs' = {}

Advance ==
    /\ IF Amp # 0 THEN pc' = "query" /\ i' = Amp + 1 ELSE pc' = Apply /\ i' = 1
    /\ UNCHANGED <<link, rest, creds, node, rc, starved>>

\* A segment without a key and "=" is skipped.
SkipSegment ==
    /\ pc = "query" /\ i <= Len(q) /\ ~IsPair
    /\ Advance
    /\ bufs' = IF pc' = Apply THEN {} ELSE bufs
    /\ UNCHANGED <<pairs, held>>

\* The buffers keep their memory from one segment to the next.
Backed == bufs \cup (IF Key # << >> THEN {"key"} ELSE {})
               \cup (IF Value # << >> THEN {"value"} ELSE {})

TakePair ==
    /\ pc = "query" /\ i <= Len(q) /\ IsPair
    /\ \/ OOM /\ QueryFails /\ starved' = TRUE
       \/ ~(Decodes(Key) /\ Decodes(Value)) /\ QueryFails /\ UNCHANGED starved
       \/ /\ Decodes(Key) /\ Decodes(Value)
          /\ IF Backed # {"key", "value"} THEN NullCopy /\ UNCHANGED <<query, starved>>
             ELSE /\ pairs' = Append(pairs, [key   |-> xstrdup(url_decode(Key)),
                                             value |-> xstrdup(url_decode(Value))])
                  /\ Advance
                  /\ bufs' = IF pc' = Apply THEN {} ELSE Backed
    /\ UNCHANGED held

EndOfQuery ==
    /\ pc = "query" /\ i > Len(q)
    /\ pc' = Apply /\ i' = 1 /\ bufs' = {}
    /\ UNCHANGED <<link, rest, creds, pairs, held, node, starved, rc>>

\* Mutant: one pass.
ApplyOnce ==
    /\ pc = "kinds"
    /\ IF i <= Len(pairs) THEN Goto(pc, ApplyField(ApplyKind(node, pairs[i]), pairs[i])) /\ i' = i + 1
       ELSE Goto("fields", node) /\ UNCHANGED i
    /\ UNCHANGED <<rest, creds, query, held, starved>>

\* apply_query's first pass.
ApplyKinds ==
    /\ pc = "kinds"
    /\ IF i <= Len(pairs) THEN Goto(pc, ApplyKind(node, pairs[i])) /\ i' = i + 1
       ELSE Goto("fields", node) /\ i' = 1
    /\ UNCHANGED <<rest, creds, query, held, starved>>

\* Its second, or apply_ss_query, and kv_free.
ApplyFields ==
    /\ pc = "fields"
    /\ \/ /\ i <= Len(pairs)
          /\ Goto(pc, IF link.scheme = "ss" THEN ApplySs(node, pairs[i]) ELSE ApplyField(node, pairs[i]))
          /\ i' = i + 1 /\ UNCHANGED pairs
       \/ i > Len(pairs) /\ Goto("name", node) /\ pairs' = << >> /\ UNCHANGED i
    /\ UNCHANGED <<rest, creds, bufs, held, starved>>

-----------------------------------------------------------------------------
(* The name *)

Fragment == SubSeq(text, Frag(text) + 1, Len(text))

\* set_name_fallback: "server:port".
Fallback(n) == n.str["server"] \o <<":">> \o Decimal[n.port]

Accept(n) == pc' = "returned" /\ rc' = 0 /\ node' = n /\ UNCHANGED <<link, local>>

\* parse_vmess adds the cipher to a vmess link.
Ciphered(n) == IF link.scheme = "vmess" THEN Fill(n, "cipher", <<"auto">>) ELSE n

Named ==
    /\ pc = "name"
    /\ \/ /\ Frag(text) > Len(text) \/ ~Decodes(Fragment)
          /\ Accept(Ciphered(Fill(node, "name", Fallback(node))))
       \/ /\ Frag(text) = Len(text)
          /\ NullCopy
       \/ /\ Fragment # << >> /\ Decodes(Fragment)
          /\ Accept(Ciphered(Fill(node, "name", xstrdup(url_decode(Fragment)))))
    /\ UNCHANGED <<query, held, starved>>

-----------------------------------------------------------------------------
(* parse_vmess_json *)

Document == Decoded(Json, SubSeq(text, 1, Frag(text) - 1))

\* The field that the document's member k sets.
Member(n, k) == IF k \in DOMAIN Ws THEN Place(n, k) ELSE Direct[k]

JsonNode(doc) ==
    LET n == [EmptyNode EXCEPT !.type = "vmess", !.port = doc.port,
                               !.transport = TransportOf(doc.opts["type"]),
                               !.tls = TlsOf(doc.opts["security"])]
        own == [server |-> doc.add, uuid |-> doc.id,
                cipher |-> IF doc.scy = None THEN <<"auto">> ELSE doc.scy]
        from(f) == {k \in Shared \ {"type", "security"} : Member(n, k) = f}
    IN [n EXCEPT !.str = [f \in Fields |->
            IF f \in DOMAIN own THEN own[f]
            ELSE IF from(f) # {} THEN doc.opts[CHOOSE k \in from(f) : TRUE] ELSE None]]

JsonUsable(doc) == doc # None /\ doc.add # None /\ doc.port \in 1..MaxPort

ParseJson ==
    /\ pc = "json"
    /\ \/ ~JsonUsable(Document) /\ Fail /\ UNCHANGED starved
       \/ OOM /\ Fail /\ starved' = TRUE
       \/ /\ JsonUsable(Document)
          /\ LET n == JsonNode(Document) IN
             \/ Document.ps = << >> /\ NullCopy
             \/ Document.ps = None /\ Accept(Fill(n, "name", Fallback(n)))
             \/ /\ Document.ps \notin {None, << >>}
                /\ Accept(Fill(n, "name",
                       IF Decodes(Document.ps) THEN xstrdup(url_decode(Document.ps))
                       ELSE Document.ps))
          /\ UNCHANGED starved
    /\ UNCHANGED <<query, held>>

-----------------------------------------------------------------------------
Ended == pc \in {"returned", "null", "overrun"}

\* The caller has its answer, or the program is undefined from here on.
Done == Ended /\ UNCHANGED vars

Next ==
    \/ Entry \/ EntryUnknown
    \/ UserInfo \/ UserMissing \/ Creds \/ Blob \/ Authority \/ AuthorityBad
    \/ SkipSegment \/ TakePair \/ EndOfQuery \/ ApplyKinds \/ ApplyFields
    \/ Named \/ ParseJson
    \/ Done

Spec == Init /\ [][Next]_vars

-----------------------------------------------------------------------------
(* Properties *)

\* Type invariant.
TypeOK ==
    /\ pc \in {"entry", "user", "creds", "blob", "authority", "query", "kinds", "fields",
               "name", "json", "returned", "null", "overrun"}
    /\ link \in Links /\ rest \in Text /\ i \in Nat \ {0}
    /\ creds = None \/ creds \in [method: Text, password: Text]
    /\ pairs \in Seq(Pair) /\ bufs \subseteq {"key", "value"}
    /\ held \subseteq {"creds", "decoded"}
    /\ node \in Node
    /\ starved \in BOOLEAN /\ rc \in {-1, 0, 1}

\* The promise of model.h on every path through the four forms: an accepted
\* node has a name, a host and a port that fits, a refused link leaves the
\* empty node, and either way the parser keeps nothing of its own.
Contract ==
    pc = "returned" =>
        /\ rc = 0 => /\ node.str["name"] # None /\ node.str["server"] # None
                     /\ node.port \in 1..MaxPort
        /\ rc = -1 => node = EmptyNode
        /\ held = {} /\ pairs = << >> /\ bufs = {}

\* t is user @ authority [? query] [# fragment], each without the delimiters
\* that end it.
IsLink(t, p) ==
    /\ t = p.user \o <<"@">> \o p.auth \o p.query \o p.frag
    /\ p.query = << >> \/ p.query[1] = "?"
    /\ p.frag = << >> \/ p.frag[1] = "#"
    /\ {"@", "?", "#"} \cap ToSet(p.user) = {}
    /\ {"?", "#"} \cap ToSet(p.auth) = {} /\ "#" \notin ToSet(p.query)

Cuts(t, a, b, c) == [user  |-> SubSeq(t, 1, a - 1), auth |-> SubSeq(t, a + 1, b),
                     query |-> SubSeq(t, b + 1, c), frag |-> SubSeq(t, c + 1, Len(t))]

Parts(t) ==
    {p \in {Cuts(t, a, b, c) : a \in {k \in 1..Len(t) : t[k] = "@"}, b \in 0..Len(t), c \in 0..Len(t)}
     : IsLink(t, p)}

\* A number, and what may stand behind it: nothing, or a NUL and then anything
\* that fits.
IsPort(tail, port) ==
    /\ Chars(tail) < 16
    /\ \E n \in DOMAIN Ports :
         Ports[n] = port /\ (tail = n \/ IsPrefix(n \o <<"NUL">>, tail))

\* auth is host : port, or [ host ] : port.
IsAuthority(auth, host, port) ==
    /\ host # << >> /\ port \in 1..MaxPort
    /\ \E k \in DOMAIN auth :
         LET tail == SubSeq(auth, k, Len(auth)) IN
         /\ IsPort(tail, port)
         /\ \/ auth = host \o <<":">> \o tail /\ host[1] # "[" /\ ":" \notin ToSet(tail)
            \/ auth = <<"[">> \o host \o <<"]", ":">> \o tail /\ "]" \notin ToSet(host)

Inside(auth) == {SubSeq(auth, a, b) : a \in 1..2, b \in 0..Len(auth)}

HasAuthority(auth) ==
    \E h \in Inside(auth), n \in DOMAIN Ports : IsAuthority(auth, h, Ports[n])

\* Server and port of the node are host and port of auth.
Addressed(auth) ==
    \E h \in Inside(auth) : IsAuthority(auth, h, node.port) /\ node.str["server"] = xstrdup(h)

LinkLike ==
    \/ link.scheme \in {"vless", "trojan"}
    \/ link.scheme = "vmess" /\ Contains(SubSeq(text, 1, Frag(text) - 1), "@")

NameOf(frag, n) ==
    IF frag = << >> \/ ~Decodes(frag) THEN Fallback(n) ELSE xstrdup(url_decode(Tail(frag)))

\* vless, trojan and vmess links.
LinkGrammar ==
    pc = "returned" /\ LinkLike =>
        /\ rc = 0 => \E p \in Parts(text) :
             /\ node.str[Secret] = xstrdup(url_decode(p.user)) /\ Decodes(p.user)
             /\ Addressed(p.auth)
             /\ node.str["name"] = NameOf(p.frag, node)
        /\ (\E p \in Parts(text) :
              Decodes(p.user) /\ HasAuthority(p.auth) /\ Decodes(p.query)) => rc = 0 \/ starved

\* ss links, plain or encoded in one or both layers: cipher and password are
\* what stood around the first colon.
SsGrammar ==
    pc = "returned" /\ link.scheme = "ss" /\ rc = 0 =>
        LET plain == SubSeq(text, 1, Limit(text) - 1)
            outer == IF Contains(plain, "@") THEN plain ELSE Decoded(UrlBlobs, plain)
        IN \E a \in DOMAIN outer :
             LET user == SubSeq(outer, 1, a - 1) IN
             /\ outer[a] = "@" /\ Addressed(SubSeq(outer, a + 1, Len(outer)))
             /\ \E owner \in {user, Decoded(StdBlobs, user)} \ {None} :
                  LET colon == First(owner, ":") IN
                  /\ colon \in DOMAIN owner
                  /\ node.str["cipher"]   = xstrdup(SubSeq(owner, 1, colon - 1))
                  /\ node.str["password"] = xstrdup(SubSeq(owner, colon + 1, Len(owner)))

\* The links of the form user@host:port?query#name are parsed into exactly
\* these parts, escaped delimiters included, and only they are accepted; an ss
\* link that is accepted has such parts too, behind its encoding.
Grammar == LinkGrammar /\ SsGrammar

\* The segment of qq that begins at a, its key and its value.
Segment(qq, a) == LET own == SubSeq(qq, a, Len(qq)) IN SubSeq(own, 1, First(own, "&") - 1)
KeyOf(seg)     == xstrdup(url_decode(SubSeq(seg, 1, First(seg, "=") - 1)))
ValueOf(seg)   == xstrdup(url_decode(SubSeq(seg, First(seg, "=") + 1, Len(seg))))

\* The segments "k=value".
Setting(qq, k) ==
    {a \in DOMAIN qq : /\ a = 1 \/ qq[a - 1] = "&"
                       /\ "=" \in ToSet(Segment(qq, a)) /\ KeyOf(Segment(qq, a)) = <<k>>}

\* The value of the last of them, None without one.
LastValue(qq, k) ==
    IF Setting(qq, k) = {} THEN None ELSE ValueOf(Segment(qq, Max(Setting(qq, k))))

Otherwise(v, default, Op(_)) == IF v = None THEN default ELSE Op(v)

\* What a query means does not depend on the order of its keys: the last value
\* of each counts, and path and host go to the transport that counts, wherever
\* "type" stands.  (A query that begins with & is read as one segment.)
QueryMeaning ==
    pc = "returned" /\ rc = 0 /\ LinkLike /\ (q = << >> \/ q[1] # "&") =>
        /\ \A k \in DOMAIN Direct : node.str[Direct[k]] = LastValue(q, k)
        /\ node.transport = Otherwise(LastValue(q, "type"), "none", TransportOf)
        /\ node.tls = Otherwise(LastValue(q, "security"),
                                IF link.scheme = "trojan" THEN "tls" ELSE "none", TlsOf)
        /\ \A k \in DOMAIN Ws :
             /\ node.str[Place(node, k)] = LastValue(q, k)
             /\ \A f \in {Ws[k], Xhttp[k]} \ {Place(node, k)} : node.str[f] = None

\* A link has every part that its delimiters announce.
Complete ==
    /\ Frag(text) # Len(text)
    /\ link.scheme = "vmess" /\ ~LinkLike =>
         \/ Document = None
         \/ Document.ps # << >>
    /\ LinkLike => At(text) # 1 /\ ~(At(text) \in Frag(text)..Len(text))
    /\ \A k \in DOMAIN q : q[k] = "=" => k \in 2..(Len(q) - 1) /\ {q[k - 1], q[k + 1]} \cap {"&"} = {}

\* Undefined behaviour needs a link that lacks such a part: every other link is
\* answered, with or without memory.
DefinedWhenComplete == pc \in {"null", "overrun"} => ~Complete

\* node_parse_share answers for every link (model.h: 0, or -1 with an empty
\* node): it copies no text that is not there and reads no byte behind the link.
AnswersEveryLink == pc \notin {"null", "overrun"}
=============================================================================
