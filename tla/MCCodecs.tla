------------------------------ MODULE MCCodecs ------------------------------
(* Model-checking instance of Codecs: texts around every boundary, and a       *)
(* buffer whose SIZE_MAX is 511.                                               *)
EXTENDS Codecs

UpTo(S, n) == UNION {[1..m -> S] : m \in 0..n}

\* Digits 0, 62/63 and some between; NUL apart, it is no base64 but decodes.
MCBinaries == UpTo({0, 107, 255}, 4)
MCTexts    == UpTo({65, 47, 95, 61, 32, 33}, 4) \cup UpTo({66, 61}, 6)
              \cup {<<0, 0, 0, 0>>, <<65, 0, 65, 65>>, <<65, 65, 0>>, <<65, 0>>}
MCUrls     == UpTo({37, 52, 65, 103, 255}, 4)

\* The bytes at both ends of every row of Unicode's table.
MCUtf8s ==
    UpTo({65, 127, 128, 143, 144, 159, 160, 191, 193, 194, 223, 224, 237, 239, 245}, 3)
    \cup {<<a, b, c, d>> : a \in {240, 241, 244, 245, 248}, b \in {127, 128, 143, 144, 191},
                           c \in {128, 192}, d \in {127, 191}}

MCStrings == [in: UpTo({97, 98, 32}, 4), from: {<< >>, <<97>>, <<97, 97>>, <<97, 98>>}, to: {<<88>>}]

MCScalars ==
    UpTo({"a", "1", ".", "e", ":", " ", "#", "-", "\"", ","}, 3) \cup
    {<<"T", "r", "u", "e">>, <<"O", "F", "F">>, <<"n", "u", "l", "l">>, <<"~">>, <<"~", "a">>,
     <<".", "i", "n", "f">>, <<"-", ".", "i", "n", "f">>, <<".", "N", "a", "N">>,
     <<"0", "x", "1", "F">>, <<"0", "x">>, <<"0", "b", "1">>, <<"0", "b", "2">>, <<"0", "o", "1", "7">>,
     <<"0", "o", "8">>, <<"+", "1", "e", "+", "5">>, <<"1", "e", "+">>, <<"1", ".", "0", "E", "2">>,
     <<"+", "1", ".", "e", "5">>, <<"2", "0", "2", "4", "-", "0", "1", "-", "0", "2">>,
     <<"1", "2", ":", "3", "0">>, <<"a", ":", " ", "b">>, <<"a", " ", "#", "b">>, <<"[", "a", "]">>,
     <<"a", "\\", "x", "4">>, <<"a", "\n", "b">>, <<"\t">>, <<"a", "\r">>, <<"NUL">>, <<"x07", "x7F">>,
     <<"xC3", "xA9">>, <<"a", "xC3">>, <<"xFF">>, <<"{", "}">>, <<"a", "]">>, <<"x60">>}

\* Strings of a node: all missing, all empty, each a word or each one that needs
\* quotes, and one of the two reality keys.
Without == [f \in StringFields |-> NULL]
NodeStrings ==
    {Without, [f \in StringFields |-> << >>], [f \in StringFields |-> <<f, "1">>], [f \in StringFields |-> <<f, ":", " ">>],
     [Without EXCEPT !["reality_pbk"] = <<"k">>], [Without EXCEPT !["reality_sid"] = << >>]}
Node(strings, type, tls, transport) ==
    [f \in StringFields \cup {"type", "tls", "transport", "udp", "port", "alter_id"} |->
        CASE f = "type" -> type [] f = "tls" -> tls [] f = "transport" -> transport
          [] f = "udp" -> TRUE [] f = "port" -> 443 [] f = "alter_id" -> 0
          [] OTHER -> strings[f]]
MCNodes == {Node(s, y, l, t) : s \in NodeStrings, y \in {"vless", "vmess", "ss", "trojan"},
                               l \in {"none", "tls", "reality"}, t \in {"tcp", "ws", "xhttp", "grpc"}}
           \cup {Node(Without, "other", "none", "tcp")}

\* Objects around the array's first and second size, and texts that are none.
Members   == {Member("a", Value("string", "x")), Member("Host", Value("string", "x")),
              Member("b", Value("int", "1")), Member("n", NULL)}
Many(n)   == [k \in 1..n |-> Member("a", Value("string", IF k = n THEN "y" ELSE "x"))]
MCHeaders == [text: {Value("object", v) : v \in UpTo(Members, 3) \cup {Many(n) : n \in 7..17}}
                    \cup {Value("array", << >>), NULL, Malformed},
              room: 0..3]

\* Outbounds: a whole one with each way through streamSettings, and one for
\* each part that is missing or of another type.
Str(t)    == Value("string", t)
Object(m) == Value("object", m)
Array(s)  == Value("array", s)
ServerWith(port)   == <<Member("address", Str(<<"srv">>)), Member("port", port),
                     Member("users", Array(<<Object(<<Member("id", Str(<<"id">>))>>)>>))>>
SettingsOf(m)   == Object(<<Member("vnext", Array(<<Object(m)>>))>>)
Whole(settings, ss) ==
    Object(<<Member("protocol", Str(<<"vless">>)), Member("tag", Str(<<"tag", ":", " ">>)),
             Member("settings", settings)>> \o ss)
Port(n) == Value("int", n)
NoServer ==
    {Str(<<"vnext">>), Object(<< >>), Object(<<Member("vnext", NULL)>>), Object(<<Member("vnext", Array(<< >>))>>),
     Object(<<Member("vnext", Array(<<Str(<<"a">>)>>))>>), SettingsOf(Tail(ServerWith(Port(443)))),
     SettingsOf(ServerWith(Str(<<"443">>))), SettingsOf(ServerWith(NULL))}
    \cup {SettingsOf(SubSeq(ServerWith(Port(443)), 1, 2) \o u) :
            u \in {<< >>, <<Member("users", Object(<< >>))>>, <<Member("users", Array(<< >>))>>,
                   <<Member("users", Array(<<Object(<<Member("id", Port(1))>>)>>))>>}}
Section(key, strings) ==
    Member(key, Object([k \in DOMAIN strings |-> Member(strings[k], Str(<<key, strings[k]>>))]))
WsPart(headers) == Member("wsSettings", Object(<<Member("path", Str(<<"/">>)), Member("headers", headers)>>))
Xhttp   == Section("xhttpSettings", <<"host", "path", "mode">>)
RealityKeys == Section("realitySettings", <<"serverName", "publicKey", "shortId", "fingerprint">>)
TlsName == Section("tlsSettings", <<"serverName">>)
Same(v) == [k \in 1..4 |-> Member(<<"wsSettings", "xhttpSettings", "realitySettings", "tlsSettings">>[k], v)]
Streams ==
    {<< >>, Same(Object(<< >>)), Same(Str(<<"a">>)),
     <<WsPart(Object(<<Member("Host", Str(<<"h", ":", " ">>))>>)), Xhttp, RealityKeys, TlsName>>,
     <<WsPart(Object(<<Member("Host", Port(1))>>)), Xhttp, RealityKeys>>,
     <<WsPart(Str(<<"h">>)), RealityKeys, Member("tlsSettings", Object(<< >>))>>,
     <<Member("realitySettings", Object(<< >>)), TlsName>>}
Words(key, words) == {<< >>, <<Member(key, Port(1))>>} \cup {<<Member(key, Str(<<w>>))>> : w \in words}
MCOutbounds ==
    {Whole(SettingsOf(ServerWith(Port(443))), <<Member("streamSettings", Object(s \o n \o t))>>) :
        s \in Words("security", {"reality", "tls", "none"}), n \in Words("network", {"ws", "xhttp", "grpc"}),
        t \in Streams}
    \cup {Whole(s, << >>) : s \in NoServer}
    \cup {Whole(SettingsOf(ServerWith(Port(p))), <<Member("streamSettings", Str(<<"ws">>))>>) :
            p \in {0, 65536, 524287, 524288}}
    \cup {Object(<<Member("protocol", p)>> \o SubSeq(Whole(SettingsOf(ServerWith(Port(443))), << >>).v, 3, 3)) :
            p \in {Str(<<"vless">>), Str(<<"vmess">>), Port(1), NULL}}
    \cup {Object(<< >>)}

\* Sizes around the first capacity, and sums beyond SIZE_MAX.
MCBytes  == {1}
MCJobs   == {[op |-> o, bytes |-> [k \in 1..n |-> 1]] :
                o \in {"append", "appendf", "reserve"}, n \in {0, 1, 6, 7, 8, 200, 254, 255, 511}}
            \cup {[op |-> o, bytes |-> << >>] : o \in {"clear", "free"}}
MCOwners == UpTo(MCJobs, 2) \cup [1..3 -> {j \in MCJobs : Len(j.bytes) \in {0, 1, 7, 200}}]
=============================================================================
