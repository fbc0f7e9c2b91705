--------------------------- MODULE MCUniqueNames ---------------------------
(* Node names that collide with each other and with generated names.         *)
EXTENDS UniqueNames

Named(text, nums) == [text |-> text, nums |-> nums]

\* "a", "b", "a - 2", "a - 3" and "a - 2 - 2"
MCBases == {Named("a", << >>), Named("b", << >>), Named("a", <<2>>),
            Named("a", <<3>>), Named("a", <<2, 2>>)}
MCTexts == {"a", "b"}
=============================================================================
