------------------------------ MODULE MCHttpc ------------------------------
(* Model-checking instance of Httpc: buffers that grow twice, two redirects,  *)
(* up to two request headers.                                                 *)
EXTENDS Httpc

MCCalls == [url: BOOLEAN, nheaders: 0..2, timeout: BOOLEAN]
=============================================================================
