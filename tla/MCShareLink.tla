---------------------------- MODULE MCShareLink ----------------------------
(* Model-checking instance of ShareLink: short links of every shape, longer   *)
(* ones that vary in one part.                                                *)
EXTENDS ShareLink, TLC

\* Ports as they are written, with a sign, with zeros, and too large.
Numbers == {"443", "0", "65535", "65536", "000000000000443", "0000000000000443"}
MCPorts == <<"443">> :> 443 @@ <<"0">> :> 0 @@ <<"65535">> :> 65535 @@ <<"65536">> :> 65536
           @@ <<"000000000000443">> :> 443 @@ <<"0000000000000443">> :> 443
           @@ <<"+", "443">> :> 443 @@ <<"0", "443">> :> 443 @@ <<"443", "443">> :> 443443
MCDecimal == 443 :> <<"443">> @@ 65535 :> <<"65535">>
MCStd   == "b:" :> <<"a", ":", "k", ":", "%00">> @@ "b" :> <<"k">>

\* What a blob can hold behind its @ and a link cannot: a NUL in the port, with
\* more behind it, as much as fits and one character more.
Tails == "p1" :> <<"a", ":", "443", "NUL">> @@ "p2" :> <<"a", ":", "443", "NUL", "k", "NUL", "443">>
         @@ "p3" :> <<"a", ":", "443", "NUL", "65536", "65536", "a">>
         @@ "p4" :> <<"a", ":", "443", "NUL", "65536", "65536", "a", "k">>
         @@ "p5" :> <<"a", ":", "443", "NUL", ":", "443">> @@ "p6" :> <<"a", ":", "NUL", "443">>
         @@ "p7" :> <<"a", ":", "443", "NUL", ":", "k">>
         @@ "p8" :> <<"[", "a", "]", ":", "443", "NUL", ":", "k">>
         @@ "p9" :> <<"[", "a", "NUL", "]", ":", "65535", "NUL", "k">>

MCUrl   == "u" :> <<"a", ":", "k", "@", "k", "@", "a", ":", "443">>
           @@ "ub" :> <<"b:", "@", "a", ":", "443">>
           @@ "u@" :> <<"@", "a", ":", "443">> @@ "uNUL" :> <<"a", "NUL", ":", "k", "NUL", "@", "a", "NUL", "a", ":", "443">>
           @@ "u0" :> <<"a", ":", "k", "@", "a", ":", "0">>
           @@ [b \in DOMAIN Tails |-> <<"a", ":", "k", "@">> \o Tails[b]]

Opts == [k \in Shared |-> None]
Document1 == [add |-> <<"a">>, port |-> 443, ps |-> <<"a", "%40">>, id |-> <<"k">>, scy |-> <<"k">>,
              opts |-> [Opts EXCEPT !["path"] = <<"a">>, !["type"] = <<"ws">>]]
MCJson == "j" :> Document1 @@ "jps" :> [Document1 EXCEPT !.ps = << >>]
          @@ "jno" :> [Document1 EXCEPT !.ps = None, !.scy = None, !.opts = [Opts EXCEPT !["host"] = <<"a">>]]
          @@ "jraw" :> [Document1 EXCEPT !.ps = <<"%">>]
          @@ "jport" :> [Document1 EXCEPT !.port = 65536] @@ "jadd" :> [Document1 EXCEPT !.add = None]

Delims == {"@", ":", "#", "?", "&", "=", "[", "]"}
Words  == {"a", "k", "type", "path", "host", "sni", "security", "mode", "plugin", "ws", "tls",
           "%40", "%26", "%00", "%", "CR", "auto", "NUL", "xhttp", "+"}
MCToks == Delims \cup Words \cup Numbers \cup DOMAIN MCStd \cup DOMAIN MCUrl \cup DOMAIN MCJson

MCWidth == [t \in MCToks |-> IF t \in {"NUL", "CR"} THEN 1 ELSE Len(t)]

UpTo(S, n) == UNION {[1..m -> S] : m \in 0..n}
Of(schemes, texts) == [scheme: schemes, text: texts]

Shapes  == UpTo({"@", ":", "#", "?", "a", "443"}, 5)
Hosts   == {<<"a", "@">> \o h : h \in UpTo({"[", "]", ":", "a", "443"}, 4)}
Ends    == {<<"a", "%40", "@", "a", ":">> \o e :
              e \in DOMAIN MCPorts \cup {<<"443", "#">> \o n : n \in UpTo({"a", "%26", "%00", "%", "#", "CR"}, 2)}}
Prefix  == <<"a", "@", "a", ":", "443", "?">>
Queries == {Prefix \o qq : qq \in UpTo({"&", "=", "type", "ws", "%", "%00"}, 4)}
Pairs   == {<<"&", "type", "=", "ws">>, <<"&", "type", "=", "a">>, <<"&", "path", "=", "a">>,
            <<"&", "path", "=", "%40", "=">>, <<"&", "host", "=", "a">>, <<"&", "sni", "=", "k", "%26">>,
            <<"&", "security", "=", "tls">>, <<"&", "security", "=", "k">>}
Keyed   == {Prefix \o Tail(l[1] \o l[2] \o l[3]) \o <<"#", "k">> : l \in [1..3 -> Pairs]}
Ss      == {<<b>> \o e : b \in DOMAIN MCUrl \cup {"b:"},
                         e \in {<< >>, <<"@", "a", ":", "443">>, <<"@", "a">>, <<"?", "plugin", "=", "a">>, <<"#", "k">>}}
           \cup {<<"a", ":", "k", "@", "a", ":", "443", "?", "plugin", "=", v>> : v \in {"k", "%", "%40"}}
Vmess   == {<<j>> \o e : j \in DOMAIN MCJson \cup {"a"}, e \in {<< >>, <<"#">>, <<"#", "@">>}}

MCLinks == Of({"vless", "ss"}, Shapes) \cup Of({"trojan", "ss"}, Hosts)
           \cup Of({"vless", "vmess", "trojan"}, Ends \cup Keyed) \cup Of({"vless"}, Queries)
           \cup Of({"ss"}, Ss) \cup Of({"vmess"}, Vmess) \cup Of({"other"}, {<<"a">>})
=============================================================================
