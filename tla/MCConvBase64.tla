---------------------------- MODULE MCConvBase64 ----------------------------
(* Model-checking instance of ConvBase64: every text of up to five characters. *)
EXTENDS ConvBase64

CONSTANTS a, b

MCTexts == UNION {[1..n -> Chars] : n \in 0..5}
=============================================================================
