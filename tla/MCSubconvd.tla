----------------------------- MODULE MCSubconvd -----------------------------
(* Model-checking instances of Subconvd: a request that uploads, one whose    *)
(* fetch blocks the polling thread, of this daemon itself where a connection  *)
(* is free and of an upstream that fails where none is, and a short one; and  *)
(* the command lines of interest.                                             *)
EXTENDS Subconvd, TLC

CONSTANTS c1, c2, b1, b2, x

Upload   == [path |-> "/convert/manual", method |-> "POST", type |-> "absent",
            url |-> "absent", headers |-> "absent", body |-> <<x>>]
ToItself == [path |-> "/convert", method |-> "GET", type |-> "known",
            url |-> "self", headers |-> "object", body |-> << >>]
Health   == [path |-> "/health", method |-> "GET", type |-> "absent",
            url |-> "absent", headers |-> "absent", body |-> << >>]
MCRequests  == {Upload, ToItself, Health}
MCValidJson == {<<x>>}

Arguments(host, port) == [host |-> host, port |-> port]

\* A port as configured and one that is refused; a local address, and a port
\* that the 16-bit cast changes.
MCOptions   == {Arguments("0.0.0.0", p) : p \in {9099, 0}}
MCAddresses == {Arguments("127.0.0.1", 9099), Arguments("0.0.0.0", 65536 + 80)}
MCEphemeral == {40000}
=============================================================================
