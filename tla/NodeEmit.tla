------------------------------ MODULE NodeEmit ------------------------------
(***************************************************************************)
(* node_emit.c: one node becomes one item of the `proxies' list.  A node is *)
(* a record with the fields of proxy_node; a string field is a text or  *)
(* NULL.                                                                    *)
(***************************************************************************)
EXTENDS YamlEmit

nvl(s) == IF s = NULL THEN << >> ELSE s
Given(s) == s # NULL /\ s # << >>
When(condition, lines) == IF condition THEN lines ELSE << >>

network_name(t) ==
    IF t \in {"ws", "xhttp", "grpc", "http"} THEN <<t>> ELSE <<"tcp">>

Kv(key, value) == yaml_emit_kv(4, key, value)

emit_ws_opts(n) ==
    yaml_emit_kv_open(4, "ws-opts")
    \o yaml_emit_kv(6, "path", nvl(n.ws_path))
    \o yaml_emit_kv_open(6, "headers")
    \o yaml_emit_kv(8, "Host", nvl(n.ws_host))

emit_xhttp_opts(n) ==
    yaml_emit_kv_open(4, "xhttp-opts")
    \o yaml_emit_kv(6, "host", nvl(n.xhttp_host))
    \o yaml_emit_kv(6, "path", nvl(n.xhttp_path))
    \o yaml_emit_kv(6, "mode", nvl(n.xhttp_mode))

\* Mutant: the block is opened for a reality node without keys, too.
emit_reality_always(n) ==
    When(Given(n.fp), Kv("client-fingerprint", n.fp))
    \o yaml_emit_kv_open(4, "reality-opts")
    \o When(n.reality_pbk # NULL, yaml_emit_kv(6, "public-key", n.reality_pbk))
    \o When(n.reality_sid # NULL, yaml_emit_kv(6, "short-id", n.reality_sid))

emit_reality(n) ==
    When(Given(n.fp), Kv("client-fingerprint", n.fp))
    \o When(n.reality_pbk # NULL \/ n.reality_sid # NULL,
            yaml_emit_kv_open(4, "reality-opts")
            \o When(n.reality_pbk # NULL, yaml_emit_kv(6, "public-key", n.reality_pbk))
            \o When(n.reality_sid # NULL, yaml_emit_kv(6, "short-id", n.reality_sid)))

\* The lines all four types begin with.
Head4(n, type) ==
    yaml_emit_dash_kv(2, "name", nvl(n.name))
    \o Kv("type", <<type>>)
    \o Kv("server", nvl(n.server))
    \o yaml_emit_kv_int(4, "port", n.port)

Udp(n)     == yaml_emit_kv_bool(4, "udp", n.udp)
Network(n) == Kv("network", network_name(n.transport))
Tls(n)     == yaml_emit_kv_bool(4, "tls", n.tls # "none")
Sni(n, key) == When(n.tls # "none" /\ Given(n.sni), Kv(key, n.sni))
Reality(n) == When(n.tls = "reality", emit_reality(n))
Ws(n)      == When(n.transport = "ws", emit_ws_opts(n))

emit_vless(n) ==
    Head4(n, "vless") \o Kv("uuid", nvl(n.uuid)) \o Udp(n) \o Network(n) \o Tls(n)
    \o Sni(n, "servername") \o Reality(n) \o Ws(n)
    \o When(n.transport = "xhttp", emit_xhttp_opts(n))

emit_vmess(n) ==
    Head4(n, "vmess") \o Kv("uuid", nvl(n.uuid)) \o yaml_emit_kv_int(4, "alterId", n.alter_id)
    \o Kv("cipher", IF Given(n.cipher) THEN n.cipher ELSE <<"auto">>)
    \o Udp(n) \o Network(n) \o Tls(n) \o Sni(n, "servername") \o Ws(n)

emit_ss(n) ==
    Head4(n, "ss") \o Kv("cipher", nvl(n.cipher)) \o Kv("password", nvl(n.password)) \o Udp(n)
    \o When(Given(n.plugin), Kv("plugin", n.plugin))
    \o When(Given(n.plugin_opts), Kv("plugin-opts", n.plugin_opts))

emit_trojan(n) ==
    Head4(n, "trojan") \o Kv("password", nvl(n.password)) \o Udp(n) \o Network(n)
    \o Sni(n, "sni") \o Tls(n) \o Reality(n) \o Ws(n)

node_emit_yaml(n) ==
    CASE n.type = "vless"  -> Result(0, emit_vless(n))
      [] n.type = "vmess"  -> Result(0, emit_vmess(n))
      [] n.type = "ss"     -> Result(0, emit_ss(n))
      [] n.type = "trojan" -> Result(0, emit_trojan(n))
      [] OTHER -> Result(-1, << >>)
=============================================================================
