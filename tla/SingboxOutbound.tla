-------------------------- MODULE SingboxOutbound --------------------------
(***************************************************************************)
(* parse_vless_outbound of conv_singbox.c: the node that an outbound of the *)
(* JSON document describes.  A string is a text of YamlEmit's characters.    *)
(***************************************************************************)
EXTENDS NodeEmit, Jsonx

CONSTANT IntBits  \* the width of an int (32)

\* (int) of a 64-bit number.
AsInt(v) == ((v + 2 ^ (IntBits - 1)) % 2 ^ IntBits) - 2 ^ (IntBits - 1)

StringFields == {"name", "server", "uuid", "password", "cipher", "plugin", "plugin_opts", "fp",
                 "sni", "alpn", "reality_pbk", "reality_sid", "ws_path", "ws_host", "xhttp_host",
                 "xhttp_path", "xhttp_mode", "grpc_service"}

node_init ==
    [f \in StringFields |-> NULL] @@
    [type |-> "none", tls |-> "none", transport |-> "none", udp |-> FALSE, port |-> 0, alter_id |-> 0]

Security(s)  == CASE s = <<"reality">> -> "reality" [] s = <<"tls">> -> "tls" [] OTHER -> "none"
Transport(s) == CASE s = <<"ws">> -> "ws" [] s = <<"xhttp">> -> "xhttp" [] OTHER -> "none"

\* The strings of a settings object, or none without the object.
Settings(settings, strings) == IF settings = NULL THEN << >> ELSE strings

wsSettings(ws) ==
    Settings(ws, [ws_path |-> nvl(jsonx_get_string(ws, "path")),
                  ws_host |-> nvl(jsonx_get_string(jsonx_get_obj(ws, "headers"), "Host"))])
xhttpSettings(xh) ==
    Settings(xh, [xhttp_host |-> nvl(jsonx_get_string(xh, "host")),
                  xhttp_path |-> nvl(jsonx_get_string(xh, "path")),
                  xhttp_mode |-> nvl(jsonx_get_string(xh, "mode"))])
realitySettings(re) ==
    Settings(re, [sni         |-> nvl(jsonx_get_string(re, "serverName")),
                  reality_pbk |-> nvl(jsonx_get_string(re, "publicKey")),
                  reality_sid |-> nvl(jsonx_get_string(re, "shortId")),
                  fp          |-> nvl(jsonx_get_string(re, "fingerprint"))])
tlsSettings(tls) == Settings(tls, [sni |-> nvl(jsonx_get_string(tls, "serverName"))])

\* Mutant: the sni of realitySettings stays when there are tlsSettings, too.
StreamedRealityLast(ss) ==
    realitySettings(jsonx_get_obj(ss, "realitySettings"))
    @@ tlsSettings(jsonx_get_obj(ss, "tlsSettings"))
    @@ wsSettings(jsonx_get_obj(ss, "wsSettings"))
    @@ xhttpSettings(jsonx_get_obj(ss, "xhttpSettings"))

\* What streamSettings set; of two assignments to sni the last one holds.
Streamed(ss) ==
    tlsSettings(jsonx_get_obj(ss, "tlsSettings"))
    @@ realitySettings(jsonx_get_obj(ss, "realitySettings"))
    @@ wsSettings(jsonx_get_obj(ss, "wsSettings"))
    @@ xhttpSettings(jsonx_get_obj(ss, "xhttpSettings"))

\* [node, tag], or NULL for an outbound that is none of vless or incomplete.
parse_vless_outbound(ob) ==
    LET v0 == jsonx_arr_get(jsonx_obj_get(jsonx_get_obj(ob, "settings"), "vnext"), 0)
        u0 == jsonx_arr_get(jsonx_obj_get(v0, "users"), 0)
        address == jsonx_get_string(v0, "address")
        port    == jsonx_get_int(v0, "port")
        id      == jsonx_get_string(u0, "id")
        ss      == jsonx_get_obj(ob, "streamSettings") IN
    IF /\ jsonx_get_string(ob, "protocol") = <<"vless">>
       /\ address # NULL /\ port # NULL /\ id # NULL
    THEN [tag  |-> jsonx_get_string(ob, "tag"),
          node |-> [server |-> address, port |-> AsInt(port), uuid |-> id,
                    type |-> "vless", udp |-> TRUE,
                    tls       |-> Security(jsonx_get_string(ss, "security")),
                    transport |-> Transport(jsonx_get_string(ss, "network"))]
                   @@ Streamed(ss) @@ node_init]
    ELSE NULL
=============================================================================
