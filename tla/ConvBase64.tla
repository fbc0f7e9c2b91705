----------------------------- MODULE ConvBase64 -----------------------------
(***************************************************************************)
(* conv_base64_run (conv_base64.c): the data is decoded when it looks like  *)
(* base64 and copied otherwise, one pass over its characters cuts it into   *)
(* lines and parses each, one pass names the nodes.                          *)
(*                                                                         *)
(* A character class stands for the text that matters to the scan: a link   *)
(* is a whole share link (what follows it on its line is its fragment), and *)
(* node_parse_share accepts the lines that begin with one.  The text ends   *)
(* with the NUL the code puts behind it, and may hold one of its own.        *)
(***************************************************************************)
EXTENDS Naturals, Sequences, FiniteSets, SequencesExt

CONSTANTS
    Texts,    \* the texts to scan
    Links,    \* share links
    NL, NUL,  \* newline, NUL
    Blank,    \* a space, tab, CR, VT or FF
    FirstCap, \* first capacity of the node array (16)
    OOM,      \* TRUE: malloc and realloc may fail
    None      \* NULL

Chars == Links \cup {NL, NUL, Blank}
Name  == [link: Links, nums: Seq(Nat)]

ASSUME Base64Assumption ==
    /\ Texts \subseteq Seq(Chars)
    /\ FirstCap \in Nat \ {0}
    /\ OOM \in BOOLEAN
    /\ None \notin Links
    /\ {NL, NUL, Blank} \cap Links = {} /\ NL # NUL

VARIABLES
    pc,    \* where conv_base64_run is
    data,  \* [form, text]: "base64" decodes to the text, "corrupt" only looks like it
    allocated, \* src is a copy
    i,     \* the character or node in hand (from 1)
    start, \* the first character of the line in hand
    nodes, \* nodes[1..nlen]
    ncap,
    used,  \* the names given out
    top,   \* the members of the PROXY group
    heap,  \* the objects allocated and not freed
    rc

vars == <<pc, data, allocated, i, start, nodes, ncap, used, top, heap, rc>>

Obj(kind, n)  == <<kind, n>>
Objs(kind, n) == {Obj(kind, m) : m \in 1..n}

nlen == Len(nodes)

\* base64 data that decodes has at least one byte to decode to; an empty body
\* is a NULL pointer.
Inputs == {d \in [form: {"null", "plain", "base64", "corrupt"}, text: Texts] :
             d.form \in {"null", "base64"} => (d.form = "base64" <=> d.text # << >>)}

Init ==
    /\ pc = "decode"
    /\ data \in Inputs
    /\ allocated = FALSE /\ i = 1 /\ start = 1
    /\ nodes = << >> /\ ncap = 0 /\ used = << >> /\ top = << >>
    /\ heap = {} /\ rc = 1

Fail == pc' = "out" /\ rc' = 1

-----------------------------------------------------------------------------
\* base64_looks_like is true of data that base64_decode may still refuse; what
\* it had decoded by then stays in `work'.
Decode ==
    /\ pc = "decode"
    /\ \/ data.form = "null" /\ pc' = "done" /\ UNCHANGED <<rc, heap, allocated>>
       \/ /\ data.form = "corrupt" /\ Fail
          /\ heap' \in {{}, {Obj("work", 0)}} /\ UNCHANGED allocated
       \/ data.form = "plain" /\ OOM /\ Fail /\ UNCHANGED <<heap, allocated>>
       \/ /\ data.form \in {"plain", "base64"}
          /\ heap' = {Obj(IF data.form = "plain" THEN "src" ELSE "work", 0)}
          /\ allocated' = (data.form = "plain")
          /\ pc' = "scan" /\ UNCHANGED rc
    /\ UNCHANGED <<data, i, start, nodes, ncap, used, top>>

\* src[i], with the terminator.
Char == IF i <= Len(data.text) THEN data.text[i] ELSE NUL
AtEnd == Char \in {NL, NUL}

Advance ==
    /\ pc = "scan" /\ ~AtEnd
    /\ i' = i + 1
    /\ UNCHANGED <<pc, data, allocated, start, nodes, ncap, used, top, heap, rc>>

line_blank == \A p \in start..(i - 1) : data.text[p] = Blank

\* Mutant: a line that node_parse_share refuses is kept.
ParsesAny == i > start /\ ~line_blank

\* The line is not empty, not blank, and a share link.
Parses == i > start /\ ~line_blank /\ data.text[start] \in Links

\* Mutant: the scan does not stop at the terminator.
NextLineForever == start' = i + 1 /\ i' = i + 1 /\ UNCHANGED pc

\* Mutant: the next line starts at the newline.
NextLineShort == IF Char = NUL THEN pc' = "scanned" /\ UNCHANGED <<i, start>>
                 ELSE start' = i /\ i' = i + 1 /\ UNCHANGED pc

NextLine == IF Char = NUL THEN pc' = "scanned" /\ UNCHANGED <<i, start>>
            ELSE start' = i + 1 /\ i' = i + 1 /\ UNCHANGED pc

SkipLine ==
    /\ pc = "scan" /\ AtEnd /\ ~Parses
    /\ NextLine
    /\ UNCHANGED <<data, allocated, nodes, ncap, used, top, heap, rc>>

nodes_push ==
    /\ pc = "scan" /\ AtEnd /\ Parses
    /\ LET grow == nlen = ncap
           name == [link |-> data.text[start], nums |-> << >>] IN
       \/ /\ nodes' = Append(nodes, [base |-> name, name |-> name])
          /\ ncap' = IF ~grow THEN ncap ELSE IF ncap = 0 THEN FirstCap ELSE ncap * 2
          /\ heap' = heap \cup {Obj("nodes", 0), Obj("node", nlen + 1)}
          /\ NextLine
          /\ UNCHANGED rc
       \/ /\ OOM /\ grow /\ Fail                     \* the node is freed
          /\ UNCHANGED <<i, start, nodes, ncap, heap>>
    /\ UNCHANGED <<data, allocated, used, top>>

Scanned ==
    /\ pc = "scanned"
    /\ \/ nlen = 0 /\ Fail /\ UNCHANGED i
       \/ nlen > 0 /\ pc' = "names" /\ i' = 1 /\ UNCHANGED rc
    /\ UNCHANGED <<data, allocated, start, nodes, ncap, used, top, heap>>

-----------------------------------------------------------------------------
Suffixed(name, n) == [link |-> name.link, nums |-> Append(name.nums, n)]

\* Mutant: duplicates keep their name.
UnusedIgnored(base) == base

\* assign_unique_name: the base, or the smallest number that makes it new.
Unused(base) ==
    IF base \notin Range(used) THEN base
    ELSE Suffixed(base, Min({n \in 2..(Len(used) + 2) : Suffixed(base, n) \notin Range(used)}))

\* Out of memory, the conversion ends with the node's own name still in place.
NameNode ==
    /\ pc = "names" /\ i <= nlen
    /\ \/ LET name == Unused(nodes[i].base) IN
          /\ nodes' = [nodes EXCEPT ![i].name = name]
          /\ used' = Append(used, name)
          /\ heap' = heap \cup {Obj("used", 0), Obj("used name", Len(used) + 1)}
          /\ i' = i + 1
          /\ UNCHANGED <<pc, rc>>
       \/ OOM /\ Fail /\ UNCHANGED <<i, nodes, used, heap>>
    /\ UNCHANGED <<data, allocated, start, ncap, top>>

\* Every node that parsed has a type node_emit_yaml knows.
Emit ==
    /\ pc = "names" /\ i > nlen
    /\ top' = [j \in 1..nlen |-> nodes[j].name]
    /\ heap' = heap \cup {Obj("sb", 0), Obj("out_yaml", 0)}
    /\ rc' = 0 /\ pc' = "out"
    /\ UNCHANGED <<data, allocated, i, start, nodes, ncap, used>>

\* Mutant: src is freed also when it points into `work'.
FreedSrcAlways == {Obj("src", 0)}

FreedSrc == IF allocated THEN {Obj("src", 0)} ELSE {}

\* The label `out'.
Freed ==
    (heap \cap {Obj("work", 0), Obj("sb", 0)})      \* strbuf_free knows
    \cup FreedSrc
    \cup Objs("node", nlen) \cup (IF ncap > 0 THEN {Obj("nodes", 0)} ELSE {})
    \cup Objs("used name", Len(used)) \cup (IF used = << >> THEN {} ELSE {Obj("used", 0)})

CleanUp ==
    /\ pc = "out"
    /\ heap' = heap \ Freed
    /\ pc' = "done"
    /\ UNCHANGED <<data, allocated, i, start, nodes, ncap, used, top, rc>>

Ended == pc = "done" /\ UNCHANGED vars

Next == Decode \/ Advance \/ SkipLine \/ nodes_push \/ Scanned
        \/ NameNode \/ Emit \/ CleanUp \/ Ended

Spec == Init /\ [][Next]_vars

-----------------------------------------------------------------------------
(* Properties *)

\* Type invariant.
TypeOK ==
    /\ pc \in {"decode", "scan", "scanned", "names", "out", "done"}
    /\ data \in Inputs
    /\ allocated \in BOOLEAN /\ i \in Nat /\ start \in Nat /\ ncap \in Nat /\ rc \in {0, 1}
    /\ nodes \in Seq([base: Name, name: Name])
    /\ used \in Seq(Name) /\ top \in Seq(Name)

\* The scan `for (i = 0;; i++)' stops at the terminator and never reads behind
\* it, the line it measures is never negative (i - start is a size_t), and the
\* node array is written within its capacity.
InBounds ==
    /\ pc = "scan" => start <= i /\ i <= Len(data.text) + 1
    /\ nlen <= ncap /\ Len(used) <= nlen

\* The clean-up at `out' frees only live objects and leaves only the result.
NoLeak ==
    /\ pc = "out" => Freed \subseteq heap
    /\ pc = "done" => heap = IF rc = 0 THEN {Obj("out_yaml", 0)} ELSE {}

\* The links at the beginning of a line, in front of the first NUL, and which of
\* them, counted from the first, the one at p is.
Heads ==
    {p \in DOMAIN data.text :
        /\ data.text[p] \in Links
        /\ p = 1 \/ data.text[p - 1] = NL
        /\ \A q \in 1..p : data.text[q] # NUL}
Ordinal(p) == Cardinality({h \in Heads : h <= p})

\* The line structure, whatever empty, blank and unterminated lines there are:
\* the nodes are the links at the beginning of a line, in order.  (A NUL ends
\* the scan: what a subscription holds behind it is dropped.)
Extracted ==
    pc \in {"scanned", "names"} =>
        /\ nlen = Cardinality(Heads)
        /\ \A p \in Heads : nodes[Ordinal(p)].base.link = data.text[p]

\* The emitted configuration: PROXY selects among all nodes in order, no name
\* occurs twice, and a node loses its own name only to an earlier proxy.
Listed ==
    pc = "done" /\ rc = 0 =>
        /\ Len(top) = nlen
        /\ \A j, h \in 1..nlen : top[j] = top[h] => j = h
        /\ \A j \in 1..nlen :
             LET own == nodes[j].base IN
             \/ top[j] = own
             \/ /\ \E h \in 1..(j - 1) : top[h] = own
                /\ \E n \in 2..(j + 1) : top[j] = Suffixed(own, n)
=============================================================================
