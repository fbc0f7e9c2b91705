------------------------------ MODULE MCServer ------------------------------
(* Model-checking instances of Server: a few requests that between them take  *)
(* every path of route_request.                                               *)
EXTENDS Server, TLC

CONSTANTS c1, c2, c3, b1, b2, b3, x, y

Plain(path, method) ==
    [path |-> path, method |-> method, type |-> "absent", url |-> "absent",
     headers |-> "absent", body |-> << >>]
Conversion(url, headers) ==
    [Plain("/convert", "GET") EXCEPT !.type = "known", !.url = url, !.headers = headers]
Manual(body) == [Plain("/convert/manual", "POST") EXCEPT !.body = body]

Health    == Plain("/health", "GET")
NotJson   == Manual(<<y>>)
Echo      == Manual(<<x, y>>)
MCValidJson == {<<x>>, <<x, y>>}

\* Few requests, for the interleavings of several connections.
MCFew == {Health, Echo, Conversion("upstream", "object"), Conversion("self", "absent")}

\* Every branch of the handlers.
MCAll == MCFew \cup
    {NotJson, Manual(<<x>>), Plain("/", "GET"), Plain("/", "POST"), Plain("other", "GET"),
     Plain("/convert/manual", "GET"), Plain("/convert", "POST"), Plain("/convert", "GET"),
     [Plain("/convert", "GET") EXCEPT !.type = "unknown"],
     Conversion("absent", "absent"), Conversion("upstream", "absent"),
     Conversion("upstream", "unusable"), Conversion("upstream", "malformed")}

Symmetry == Permutations(Conns) \cup Permutations(Bufs)
=============================================================================
