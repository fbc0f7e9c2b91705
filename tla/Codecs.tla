------------------------------- MODULE Codecs -------------------------------
(***************************************************************************)
(* The callers of the codecs and emitters: one call of one function, on an  *)
(* output buffer that holds something already, through every step of the    *)
(* strbuf it writes to.                                                      *)
(***************************************************************************)
EXTENDS Strbuf, Base64, SingboxOutbound, YamlReader, ForwardedHeaders

CONSTANTS
    Mark,     \* what the output holds before the call
    Binaries, \* bytes to encode
    Texts,    \* characters to decode from base64
    Urls,     \* bytes to escape, characters to unescape
    Utf8s,    \* bytes to validate
    Strings,  \* [in, from, to] for the string helpers
    Scalars,  \* what the YAML emitter has to write
    Nodes,    \* what the node emitter has to write
    Headers,  \* [text, room] for parse_headers
    Outbounds, \* JSON objects for parse_vless_outbound
    Owners    \* sequences of Jobs, for the buffer itself

VARIABLES
    call,  \* [fn, in]
    script \* the buffer operations still to come

codecs == <<strbuf, call, script>>

Calls(fns, inputs) == [fn: fns, in: inputs]

Base64Encoders == {"base64_encode", "base64_encode_url"}
Base64Decoders == {"base64_decode", "base64_decode_url"}
ScalarEmitters == {"yaml_emit_kv", "yaml_emit_dash", "yaml_emit_dash_kv", "yaml_emit_flow_list"}

\* conv_singbox_run writes the node it has parsed; naming it is UniqueNames.
Converted(parsed) ==
    IF parsed = NULL THEN Result(-1, << >>)
    ELSE node_emit_yaml([parsed.node EXCEPT !.name = nvl(parsed.tag)])

Outcome(c) ==
    CASE c.fn = "base64_encode" -> base64_encode(c.in)
      [] c.fn = "base64_encode_url" -> base64_encode_url(c.in)
      [] c.fn = "base64_decode" -> base64_decode(c.in)
      [] c.fn = "base64_decode_url" -> base64_decode_url(c.in)
      [] c.fn = "url_encode" -> url_encode(c.in)
      [] c.fn = "url_decode" -> url_decode(c.in)
      [] c.fn = "str_replace_all" -> str_replace_all(c.in.in, c.in.from, c.in.to)
      [] c.fn = "yaml_emit_kv" -> Result(0, yaml_emit_kv(2, "name", c.in))
      [] c.fn = "yaml_emit_dash" -> Result(0, yaml_emit_dash(2, c.in))
      [] c.fn = "yaml_emit_dash_kv" -> Result(0, yaml_emit_dash_kv(2, "name", c.in))
      [] c.fn = "yaml_emit_flow_list" -> Result(0, yaml_emit_flow_list(<<c.in, <<"a">>>>))
      [] c.fn = "node_emit_yaml" -> node_emit_yaml(c.in)
      [] c.fn = "parse_vless_outbound" -> Converted(parse_vless_outbound(c.in))
      [] c.fn = "strbuf" -> Result(0, c.in)
      [] OTHER -> Result(0, << >>)  \* the functions without an output buffer

CodecsInit ==
    /\ StrbufInit
    /\ \/ call \in Calls(Base64Encoders, Binaries)
       \/ call \in Calls(Base64Decoders, Texts)
       \/ call \in Calls({"url_encode", "url_decode"}, Urls)
       \/ call \in Calls({"utf8_validate"}, Utf8s)
       \/ call \in Calls({"str_trim", "str_split", "str_replace_all"}, Strings)
       \/ call \in Calls(ScalarEmitters, Scalars)
       \/ call \in Calls({"node_emit_yaml"}, Nodes)
       \/ call \in Calls({"parse_headers"}, Headers)
       \/ call \in Calls({"parse_vless_outbound"}, Outbounds)
       \/ call \in Calls({"strbuf"}, Owners)
    /\ script = strbuf_append_char(Mark) \o Outcome(call).jobs

CodecsNext ==
    \/ /\ script # << >> /\ Call(Head(script))
       /\ script' = Tail(script) /\ UNCHANGED call
    \/ Work /\ UNCHANGED <<call, script>>

CodecsSpec == CodecsInit /\ [][CodecsNext]_codecs /\ WF_codecs(Work /\ UNCHANGED <<call, script>>)

-----------------------------------------------------------------------------
(* Properties *)

Returned == pc = "idle" /\ script = << >>
Ok       == Outcome(call).rc = 0
Output   == [k \in 1..len |-> data[k - 1]]
Appended == Tail(Output)
Extended == Output # << >> /\ Output[1] = Mark

\* base64, as RFC 4648 has it: the digits' bits, in groups of eight, are the
\* bytes; the bits left over say nothing.
Bits(v, w)      == [k \in 1..w |-> (v \div 2 ^ (w - k)) % 2]
BitsOf(s, w)    == FlattenSeq([k \in DOMAIN s |-> Bits(s[k], w)])
Byte(b)         == FoldLeft(LAMBDA acc, bit : 2 * acc + bit, 0, b)
Visible(t)      == SelectSeq(t, LAMBDA c : ~b64_is_ws(c))
Digits(t)       == SelectSeq(t, LAMBDA c : c # Pad)
Values(a, t)    == [k \in DOMAIN t |-> CHOOSE v \in 0..63 : b64_chars(a)[v] = t[k]]
IsBase64(a, t) ==
    LET d == Digits(t) IN
    /\ IsPrefix(d, t)
    /\ \A k \in DOMAIN d : \E v \in 0..63 : b64_chars(a)[v] = d[k]
    /\ Len(d) % 4 # 1
    /\ Len(t) - Len(d) \in {0, (4 - (Len(d) % 4)) % 4}
Bytes64(a, t) ==
    LET bits == BitsOf(Values(a, Digits(t)), 6) IN
    [k \in 1..(Len(bits) \div 8) |-> Byte(SubSeq(bits, 8 * k - 7, 8 * k))]

Alphabet(fn) == IF fn \in {"base64_encode", "base64_decode"} THEN "std" ELSE "url"

\* base64_decode accepts exactly the well-formed texts, with any white space and
\* with or without padding, and appends what they mean; what base64_encode
\* writes is well-formed, means its input, has no stray bits, and the standard
\* form is padded and looks like base64.  (A NUL character in a text passes for
\* a digit, strchr finds it behind the alphabet; encoding nothing clears the
\* output.)  Any text that looks like base64 and decodes leaves at least a byte:
\* conv_base64_run takes work.data for a string.
Base64Meaning ==
    Returned =>
        /\ call.fn \in Base64Decoders /\ ~Contains(call.in, 0) =>
             LET a == Alphabet(call.fn)
                 t == Visible(call.in) IN
             /\ Ok <=> IsBase64(a, t)
             /\ Ok => Extended /\ Appended = Bytes64(a, t)
        /\ call.fn \in Base64Encoders /\ call.in = << >> => Output = << >>
        /\ call.fn \in Base64Encoders /\ call.in # << >> =>
             LET a == Alphabet(call.fn)
                 t == Appended
                 bits == BitsOf(Values(a, Digits(t)), 6) IN
             /\ Extended /\ IsBase64(a, t) /\ Bytes64(a, t) = call.in
             /\ \A k \in (8 * Len(call.in) + 1)..Len(bits) : bits[k] = 0
             /\ IF a = "std" THEN base64_looks_like(t) ELSE Digits(t) = t
        /\ call.fn = "base64_decode" /\ Ok /\ base64_looks_like(call.in) => len > 1

\* Where a percent sign stands that is no escape.
Malescaped(s) ==
    {k \in DOMAIN s : s[k] = Percent
       /\ ~(k + 2 <= Len(s) /\ hex_val(s[k + 1]) >= 0 /\ hex_val(s[k + 2]) >= 0)}
Unescape(s) ==
    LET escapes == {k \in DOMAIN s : s[k] = Percent}
        heads == SetToSortSeq({k \in DOMAIN s : k - 1 \notin escapes /\ k - 2 \notin escapes}, <) IN
    [m \in DOMAIN heads |-> IF heads[m] \in escapes
                            THEN 16 * hex_val(s[heads[m] + 1]) + hex_val(s[heads[m] + 2])
                            ELSE s[heads[m]]]

\* url_decode replaces every escape by its byte, accepts a text exactly if every
\* percent sign begins one, and has otherwise appended what is in front of the
\* first that does not; url_encode leaves only unreserved characters and
\* escapes, which decode to its input.
UrlCodec ==
    /\ call.fn = "url_decode" =>
         LET bad == Malescaped(call.in) IN
         /\ Ok <=> bad = {}
         /\ Extended /\ Appended = Unescape(IF Ok THEN call.in ELSE SubSeq(call.in, 1, Min(bad) - 1))
    /\ call.fn = "url_encode" =>
         /\ Extended /\ Malescaped(Appended) = {} /\ Unescape(Appended) = call.in
         /\ \A k \in DOMAIN Appended : is_unreserved(Appended[k]) \/ Appended[k] = Percent

\* A trimmed string is its input up to blanks at the ends.
Trimmed(s, t) ==
    /\ t # << >> => ~is_space(t[1]) /\ ~is_space(Last(t))
    /\ \E k \in 0..Len(s) : \E m \in k..Len(s) :
         /\ SubSeq(s, k + 1, m) = t
         /\ \A p \in (1..k) \cup ((m + 1)..Len(s)) : is_space(s[p])

\* Parts and the delimiters between them are the string again.
Parted(s, c, parts) ==
    /\ FlattenSeq([k \in DOMAIN parts |-> <<c>> \o parts[k]]) = <<c>> \o s
    /\ \A k \in DOMAIN parts : ~Contains(parts[k], c)

\* Replacing by a character that does not occur elsewhere can be undone and
\* leaves nothing to replace.
Replaced(s, from, c, t) ==
    /\ FlattenSeq([k \in DOMAIN t |-> IF t[k] = c THEN from ELSE <<t[k]>>]) = s
    /\ from # << >> => \A k \in DOMAIN t : ~IsPrefix(from, From(t, k))

\* The text functions of util.c do what their names say, by references that
\* share nothing with their loops: the URL codec; utf8_validate, which accepts
\* exactly Unicode's well-formed byte sequences (nothing overlong, no surrogate,
\* nothing beyond U+10FFFF, nothing cut short); trim, split and replace.
TextMeaning ==
    Returned =>
        /\ UrlCodec
        /\ call.fn = "utf8_validate" => (utf8_validate(call.in) <=> IsUtf8(call.in))
        /\ call.fn = "str_trim" => Trimmed(call.in.in, str_trim(call.in.in))
        /\ call.fn = "str_split" /\ call.in.from # << >> =>
             Parted(call.in.in, call.in.from[1], str_split(call.in.in, call.in.from[1]))
        /\ call.fn = "str_replace_all" =>
             Extended /\ Replaced(call.in.in, call.in.from, call.in.to[1], Appended)

\* The request headers that /convert forwards: every member that is a string
\* and that curl does not set itself, in order, however often the array has to
\* grow.  None, which handle_convert answers with 400, for a text that is no
\* object, when realloc fails, and for an object without such a member.
HeadersArrive ==
    call.fn = "parse_headers" =>
        LET text == call.in.text
            room == call.in.room
            kept == IF text = Malformed \/ ~jsonx_is_object(text) THEN << >>
                    ELSE SelectSeq(text.v, LAMBDA m : jsonx_is_string(m.val) /\ m.key \notin Reserved)
            lines == parse_headers(text, room) IN
        /\ lines = NULL <=> kept = << >> \/ room = 0 \/ 4 * 2 ^ room < Len(kept)
        /\ lines # NULL => lines = [k \in DOMAIN kept |-> <<kept[k].key, ":", " ", kept[k].val.v>>]

-----------------------------------------------------------------------------
\* What a reader makes of the scalar in the line that has been written.
ScalarRead ==
    LET rest == Lines(Appended)[1].rest IN
    CASE call.fn = "yaml_emit_dash" -> ReadScalar(rest, "item")
      [] call.fn \in {"yaml_emit_kv", "yaml_emit_dash_kv"} -> ReadScalar(From(rest, 4), "value")
      [] call.fn = "yaml_emit_flow_list" -> FlowItems(Appended)[1]

\* The texts that go out plain and should not: a colon at the end, a decimal
\* point without a digit on both sides, and in a flow list its punctuation; and
\* those no form can help: bytes that are not UTF-8.
PointAlone(s) ==
    \E k \in DOMAIN s : s[k] = "." /\ ~(k \in 2..(Len(s) - 1) /\ s[k - 1] \in Digit /\ s[k + 1] \in Digit)
KnownMisreading(s, inFlow) ==
    \/ s # << >> /\ Last(s) = ":"
    \/ CoreFloat(s) /\ PointAlone(s)
    \/ inFlow /\ \E k \in DOMAIN s : s[k] \in FlowMarks
    \/ ~IsUtf8(Codes(s))

\* Whatever the text, the line that carries it is one line and reads back as
\* that string, with the exceptions above.
YamlReadsBack ==
    Returned /\ call.fn \in ScalarEmitters =>
        LET inFlow == call.fn = "yaml_emit_flow_list" IN
        \/ KnownMisreading(call.in, inFlow)
        \/ /\ Extended /\ SelectInSeq(Appended, LAMBDA c : c = "\n") = Len(Appended)
           /\ ScalarRead = Reading("string", call.in)

\* "Quote/escape a scalar so it is valid YAML regardless of content"
\* (yaml_emit.h:9), for content that is UTF-8 and in the lines that the
\* converters write.
AlwaysValidYaml ==
    Returned /\ call.fn \in {"yaml_emit_kv", "yaml_emit_dash", "yaml_emit_dash_kv"}
             /\ IsUtf8(Codes(call.in)) => ScalarRead.kind # "invalid"

-----------------------------------------------------------------------------
\* Where mihomo looks for the strings of a node.
Place == [name |-> <<"name">>, server |-> <<"server">>, uuid |-> <<"uuid">>,
          password |-> <<"password">>, cipher |-> <<"cipher">>,
          plugin |-> <<"plugin">>, plugin_opts |-> <<"plugin-opts">>,
          fp |-> <<"client-fingerprint">>,
          reality_pbk |-> <<"reality-opts", "public-key">>,
          reality_sid |-> <<"reality-opts", "short-id">>,
          ws_path |-> <<"ws-opts", "path">>, ws_host |-> <<"ws-opts", "headers", "Host">>,
          xhttp_host |-> <<"xhttp-opts", "host">>, xhttp_path |-> <<"xhttp-opts", "path">>,
          xhttp_mode |-> <<"xhttp-opts", "mode">>]
PlaceOf(n, f) ==
    IF f = "sni" THEN IF n.type = "trojan" THEN <<"sni">> ELSE <<"servername">> ELSE Place[f]

Secure(n, fields)  == IF n.tls # "none" THEN fields ELSE {}
RealityOf(n)        == IF n.tls = "reality" THEN {"fp", "reality_pbk", "reality_sid"} ELSE {}
Carried(n, t, fields) == IF n.transport = t THEN fields ELSE {}
WsFields    == {"ws_path", "ws_host"}
XhttpFields == {"xhttp_host", "xhttp_path", "xhttp_mode"}

\* The fields that a node of its type, security and transport uses.  (alpn and
\* grpc_service are written for none, xhttp only for vless, and a vmess node
\* goes without its reality keys.)
Uses(n) ==
    {"name", "server"} \cup
    CASE n.type = "vless"  -> {"uuid"} \cup Secure(n, {"sni"}) \cup RealityOf(n)
                              \cup Carried(n, "ws", WsFields) \cup Carried(n, "xhttp", XhttpFields)
      [] n.type = "vmess"  -> {"uuid", "cipher"} \cup Secure(n, {"sni"}) \cup Carried(n, "ws", WsFields)
      [] n.type = "ss"     -> {"cipher", "password", "plugin", "plugin_opts"}
      [] n.type = "trojan" -> {"password"} \cup Secure(n, {"sni"}) \cup RealityOf(n)
                              \cup Carried(n, "ws", WsFields)

\* The item of `proxies' that has been written, line by line: its columns, its
\* path of keys, the word behind its key and what a reader makes of that.
Item ==
    LET block == Lines(Appended) IN
    [k \in DOMAIN block |->
        [line |-> block[k], inside |-> Enclosing(block, k), path |-> Path(block, k),
         word |-> IF Opens(block[k]) THEN "" ELSE block[k].rest[4],
         value |-> IF Opens(block[k]) THEN Reading("other", << >>)
                   ELSE ReadScalar(From(block[k].rest, 4), "value")]]
StringAt(item, path, text) ==
    \E k \in DOMAIN item : item[k].path = path /\ item[k].value = Reading("string", text)
Word(item, key) == {item[k].word : k \in {m \in DOMAIN item : item[m].path = <<key>>}}

\* A node is written as one item of `proxies', with distinct keys and no block
\* without content, in which each of the strings it uses is found in its place
\* and nothing else of it, whatever is missing or empty; its port, type and
\* security agree.
NodeReadsBack ==
    Returned /\ call.fn = "node_emit_yaml" =>
        LET n == call.in
            item == Item
            lines == DOMAIN item IN
        IF n.type = "other" THEN ~Ok /\ Output = <<Mark>>
        ELSE
        /\ Ok /\ Extended /\ IsInjective([k \in lines |-> item[k].path])
        /\ item[1].line.col = 4 /\ item[1].line.item
        /\ \A k \in lines : /\ item[k].line.col >= 4 /\ (item[k].line.item => k = 1)
                            /\ Opens(item[k].line) <=> \E m \in lines : k \in item[m].inside
        /\ \A f \in Uses(n) : Given(n[f]) => StringAt(item, PlaceOf(n, f), n[f])
        /\ \A f \in StringFields : Given(n[f]) /\ f \notin Uses(n) =>
             \A k \in lines : item[k].value.value # n[f]
        /\ Word(item, "port") = {ToString(n.port)} /\ Word(item, "type") = {n.type}
        /\ n.type # "ss" => Word(item, "tls") = {IF n.tls = "none" THEN "false" ELSE "true"}

-----------------------------------------------------------------------------
\* Where the JSON document has the strings of an outbound; "0" is the first
\* item of an array.
JsonPlace ==
    [name   |-> <<"tag">>,
     server |-> <<"settings", "vnext", "0", "address">>,
     uuid   |-> <<"settings", "vnext", "0", "users", "0", "id">>,
     ws_path |-> <<"streamSettings", "wsSettings", "path">>,
     ws_host |-> <<"streamSettings", "wsSettings", "headers", "Host">>,
     xhttp_host |-> <<"streamSettings", "xhttpSettings", "host">>,
     xhttp_path |-> <<"streamSettings", "xhttpSettings", "path">>,
     xhttp_mode |-> <<"streamSettings", "xhttpSettings", "mode">>,
     reality_pbk |-> <<"streamSettings", "realitySettings", "publicKey">>,
     reality_sid |-> <<"streamSettings", "realitySettings", "shortId">>,
     fp  |-> <<"streamSettings", "realitySettings", "fingerprint">>,
     sni |-> <<"streamSettings", "tlsSettings", "serverName">>]

Below(v, step) ==
    IF v = NULL THEN NULL
    ELSE IF v.type = "object" /\ \E k \in DOMAIN v.v : v.v[k].key = step
         THEN (CHOOSE m \in ToSet(v.v) : m.key = step).val
    ELSE IF v.type = "array" /\ step = "0" /\ v.v # << >> THEN v.v[1]
    ELSE NULL
At(doc, path)   == FoldLeft(Below, doc, path)
Text(doc, path) == IF IsType(At(doc, path), "string") THEN At(doc, path).v ELSE NULL

\* A tlsSettings object decides the server name, even one that has none.
SniPlace(doc) ==
    IF IsType(At(doc, <<"streamSettings", "tlsSettings">>), "object") THEN JsonPlace.sni
    ELSE <<"streamSettings", "realitySettings", "serverName">>
TextOf(doc, f) == Text(doc, IF f = "sni" THEN SniPlace(doc) ELSE JsonPlace[f])

\* The word that the text is, if it is one of these.
WordOf(text, words) == IF \E w \in words : text = <<w>> THEN text[1] ELSE "none"

\* From the JSON document to the configuration: an outbound is taken if and
\* only if it is of vless and has an address, a numeric port and a user; and
\* every string that its security and transport use is then found in its place
\* of the YAML item, with no value where the document has none, under the port
\* that the document says if that is an int.
OutboundArrives ==
    Returned /\ call.fn = "parse_vless_outbound" =>
        LET doc == call.in
            item == Item
            port == At(doc, <<"settings", "vnext", "0", "port">>)
            shape == [type |-> "vless",
                      tls |-> WordOf(Text(doc, <<"streamSettings", "security">>), {"tls", "reality"}),
                      transport |-> WordOf(Text(doc, <<"streamSettings", "network">>), {"ws", "xhttp"})] IN
        /\ Ok <=> /\ Text(doc, <<"protocol">>) = <<"vless">> /\ IsType(port, "int")
                  /\ TextOf(doc, "server") # NULL /\ TextOf(doc, "uuid") # NULL
        /\ Ok => /\ port.v < 2 ^ (IntBits - 1) => Word(item, "port") = {ToString(port.v)}
                 /\ \A f \in DOMAIN JsonPlace :
                      IF f \in Uses(shape) /\ Given(TextOf(doc, f))
                      THEN StringAt(item, PlaceOf(shape, f), TextOf(doc, f))
                      ELSE \A k \in DOMAIN item :
                             item[k].path = PlaceOf(shape, f) => item[k].value.value = << >>

\* What the daemon takes out of JSON: the headers to forward and the nodes.
JsonMeaning == HeadersArrive /\ OutboundArrives
=============================================================================
