--------------------------- MODULE MCConvSingbox ---------------------------
(* Model-checking instance of ConvSingbox: documents of up to two elements    *)
(* with up to two outbounds, and one with three, whose names and tags collide. *)
EXTENDS ConvSingbox

Named(text, nums) == [text |-> text, nums |-> nums]
Vless(tag, snis)  == [vless |-> TRUE, tag |-> tag, snis |-> snis]
Other             == [vless |-> FALSE, tag |-> 0, snis |-> 0]
Elem(group, outs, bal) == [object |-> TRUE, group |-> group, outs |-> outs, bal |-> bal]
NotAnObject == [Elem(Named("a", << >>), << >>, None) EXCEPT !.object = FALSE]

MCTexts == {"a", "PROXY", "DIRECT"}
Groups  == {Named("a", << >>), Named("a", <<2>>)}
Outs    == {Other, Vless(2, 0), Vless(7, 2)}
Lists   == UNION {[1..n -> Outs] : n \in 0..2}
Elems   == {Elem(g, o, b) : g \in Groups, o \in Lists, b \in {None, 2}} \cup {NotAnObject}

Three == <<Elem(Named("a", << >>), <<Vless(2, 1), Vless(2, 0), Vless(2, 2)>>, 7),
           Elem(Named("a", <<2>>), <<Vless(3, 0)>>, None),
           Elem(Named("a", << >>), <<Vless(2, 0)>>, 2)>>

MCDocs == {[array |-> TRUE, elems |-> s] : s \in UNION {[1..n -> Elems] : n \in 0..2}}
          \cup {[array |-> TRUE, elems |-> Three], [array |-> FALSE, elems |-> << >>]}
=============================================================================
