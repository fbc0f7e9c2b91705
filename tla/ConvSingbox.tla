---------------------------- MODULE ConvSingbox ----------------------------
(***************************************************************************)
(* conv_singbox_run (conv_singbox.c): one pass over the JSON collects the    *)
(* vless outbounds of every element into two arrays that grow together, one *)
(* pass names them, one emits proxies and groups, and the label `out' frees *)
(* whatever the pass that failed has left.                                  *)
(*                                                                         *)
(* The document is what jsonx reads from it.  A name is a text and the       *)
(* parts appended to it by " - %s" and " - %d"; a tag is a number, so that   *)
(* "group - tag" can be the name a duplicate would get.  assign_unique_name *)
(* is one step here; UniqueNames looks inside.                              *)
(***************************************************************************)
EXTENDS Naturals, Sequences, FiniteSets, SequencesExt

CONSTANTS
    Docs,     \* the documents: [array, elems], elems a sequence of elements
    Texts,    \* the texts names are made of
    FirstCap, \* first capacity of the node arrays (16)
    OOM,      \* TRUE: calloc and realloc may fail
    None      \* NULL

Name     == [text: Texts, nums: Seq(Nat)]
Outbound == [vless: BOOLEAN, tag: Nat, snis: 0..2]
Element  == [object: BOOLEAN, group: Name, outs: Seq(Outbound), bal: Nat \cup {None}]

ASSUME SingboxAssumption ==
    /\ Docs \subseteq [array: BOOLEAN, elems: Seq(Element)]
    /\ FirstCap \in Nat \ {0}
    /\ OOM \in BOOLEAN
    /\ None \notin Nat \cup Name
    /\ {"PROXY", "DIRECT"} \subseteq Texts

VARIABLES
    pc,     \* where conv_singbox_run is
    doc,    \* its input
    i, k,   \* the loops over elements and outbounds (from 1)
    nodes,  \* nodes[1..nlen]: name and tag of each
    ncap,   \* the capacity the code believes in
    room,   \* the capacities of the two arrays
    meta,   \* meta[1..nelem]
    used,   \* the names given out
    yaml,   \* what has been emitted
    heap,   \* the objects allocated and not freed
    rc

arrays == <<nodes, ncap, room>>
vars   == <<pc, doc, i, k, arrays, meta, used, yaml, heap, rc>>

nlen  == Len(nodes)
nelem == Len(doc.elems)

Obj(kind, n)  == <<kind, n>>
Objs(kind, n) == {Obj(kind, m) : m \in 1..n}

Suffixed(name, n) == [text |-> name.text, nums |-> Append(name.nums, n)]
NoMeta == [first |-> 0, count |-> 0, group |-> None, bal |-> None]

Init ==
    /\ pc = "start" /\ doc \in Docs /\ i = 1 /\ k = 1
    /\ nodes = << >> /\ ncap = 0 /\ room = [nodes |-> 0, tags |-> 0]
    /\ meta = << >> /\ used = << >>
    /\ yaml = [proxies |-> << >>, groups |-> << >>, top |-> << >>]
    /\ heap = {} /\ rc = 1

-----------------------------------------------------------------------------
(* Collecting *)

Fail == pc' = "out" /\ rc' = 1

ParseRoot ==
    /\ pc = "start"
    /\ heap' = {Obj("root", 0)} \/ (~doc.array /\ heap' = {})   \* or no JSON at all
    /\ \/ ~doc.array /\ Fail /\ UNCHANGED meta
       \/ doc.array /\ OOM /\ nelem > 0 /\ Fail /\ UNCHANGED meta   \* calloc
       \/ /\ doc.array
          /\ meta' = [e \in 1..nelem |-> NoMeta]
          /\ pc' = "elems" /\ UNCHANGED rc
    /\ UNCHANGED <<doc, i, k, arrays, used, yaml>>

SkipElement ==
    /\ pc = "elems" /\ i <= nelem /\ ~doc.elems[i].object
    /\ i' = i + 1
    /\ UNCHANGED <<pc, doc, k, arrays, meta, used, yaml, heap, rc>>

EnterElement ==
    /\ pc = "elems" /\ i <= nelem /\ doc.elems[i].object
    /\ meta' = [meta EXCEPT ![i].group = doc.elems[i].group, ![i].first = nlen]
    /\ heap' = heap \cup {Obj("group", i)}
    /\ k' = 1
    /\ pc' = "outbounds"
    /\ UNCHANGED <<doc, i, arrays, used, yaml, rc>>

Outbounds == doc.elems[i].outs

SkipOutbound ==
    /\ pc = "outbounds" /\ k <= Len(Outbounds) /\ ~Outbounds[k].vless
    /\ k' = k + 1
    /\ UNCHANGED <<pc, doc, i, arrays, meta, used, yaml, heap, rc>>

\* The strings parse_vless_outbound allocates for a node.  realitySettings and
\* tlsSettings both set sni; the second assignment drops the first string.
Parsed(ob, n) ==
    {Obj("server", n)} \cup (IF ob.snis > 0 THEN {Obj("sni", n)} ELSE {})
Dropped(ob, n) == IF ob.snis = 2 THEN {Obj("dropped sni", n)} ELSE {}

NextCap == IF ncap = 0 THEN FirstCap ELSE ncap * 2

\* The two arrays grow one after the other; only when both have is the node
\* stored and ncap raised.
PushNode ==
    /\ pc = "outbounds" /\ k <= Len(Outbounds) /\ Outbounds[k].vless
    /\ LET ob   == Outbounds[k]
           grow == nlen = ncap IN
       \/ /\ nodes' = Append(nodes, [name |-> None, tag |-> ob.tag])
          /\ ncap' = IF grow THEN NextCap ELSE ncap
          /\ room' = IF grow THEN [nodes |-> NextCap, tags |-> NextCap] ELSE room
          /\ heap' = heap \cup Parsed(ob, nlen + 1) \cup Dropped(ob, nlen + 1)
                          \cup {Obj("tag", nlen + 1), Obj("nodes", 0), Obj("tags", 0)}
          /\ k' = k + 1
          /\ UNCHANGED <<pc, rc>>
       \/ /\ OOM /\ grow /\ Fail                      \* realloc(nodes)
          /\ heap' = heap \cup Dropped(ob, nlen + 1)
          /\ UNCHANGED <<arrays, k>>
       \/ /\ OOM /\ grow /\ Fail                      \* realloc(tags)
          /\ room' = [room EXCEPT !.nodes = NextCap]
          /\ heap' = heap \cup Dropped(ob, nlen + 1) \cup {Obj("nodes", 0)}
          /\ UNCHANGED <<nodes, ncap, k>>
    /\ UNCHANGED <<doc, i, meta, used, yaml>>

\* Mutant: a count that includes the nodes of earlier elements.
LeaveElementCountsAll ==
    /\ pc = "outbounds" /\ k > Len(Outbounds)
    /\ meta' = [meta EXCEPT ![i].count = nlen, ![i].bal = doc.elems[i].bal]
    /\ heap' = heap \cup IF doc.elems[i].bal = None THEN {} ELSE {Obj("balancer", i)}
    /\ i' = i + 1
    /\ pc' = "elems"
    /\ UNCHANGED <<doc, k, arrays, used, yaml, rc>>

\* Mutant: a count that is one too small, and wraps for an element without nodes.
LeaveElementShort ==
    /\ pc = "outbounds" /\ k > Len(Outbounds)
    /\ meta' = [meta EXCEPT ![i].count = nlen - meta[i].first - 1, ![i].bal = doc.elems[i].bal]
    /\ heap' = heap \cup IF doc.elems[i].bal = None THEN {} ELSE {Obj("balancer", i)}
    /\ i' = i + 1
    /\ pc' = "elems"
    /\ UNCHANGED <<doc, k, arrays, used, yaml, rc>>

\* count, and the tag of the first leastPing balancer.
LeaveElement ==
    /\ pc = "outbounds" /\ k > Len(Outbounds)
    /\ meta' = [meta EXCEPT ![i].count = nlen - meta[i].first, ![i].bal = doc.elems[i].bal]
    /\ heap' = heap \cup IF doc.elems[i].bal = None THEN {} ELSE {Obj("balancer", i)}
    /\ i' = i + 1
    /\ pc' = "elems"
    /\ UNCHANGED <<doc, k, arrays, used, yaml, rc>>

Collected ==
    /\ pc = "elems" /\ i > nelem
    /\ \/ nlen = 0 /\ Fail /\ UNCHANGED <<i, k>>
       \/ nlen > 0 /\ pc' = "names" /\ i' = 1 /\ k' = 1 /\ UNCHANGED rc
    /\ UNCHANGED <<doc, arrays, meta, used, yaml, heap>>

-----------------------------------------------------------------------------
(* Naming *)

\* assign_unique_name: the base, or the smallest number that makes it new.
Unused(base) ==
    IF base \notin Range(used) THEN base
    ELSE Suffixed(base, Min({n \in 2..(Len(used) + 2) : Suffixed(base, n) \notin Range(used)}))

\* Mutant: an element with one node is named like one with several.
BaseNameTagged(e, j) == Suffixed(meta[e].group, nodes[j].tag)

BaseName(e, j) ==
    IF meta[e].count = 1 THEN meta[e].group ELSE Suffixed(meta[e].group, nodes[j].tag)

\* Mutant: elements without nodes are listed too.
IsListedAlways(e) == meta[e].group # None

\* PROXY offers the groups of the elements that have nodes.
IsListed(e) == meta[e].count > 0

\* The k-th node of element i.  The converter does not look whether
\* assign_unique_name ran out of memory: the node then has no name.
NameNode ==
    /\ pc = "names" /\ i <= nelem /\ k <= meta[i].count
    /\ LET j == meta[i].first + k IN
       \/ LET name == Unused(BaseName(i, j)) IN
          /\ nodes' = [nodes EXCEPT ![j].name = name]
          /\ used' = Append(used, name)
          /\ heap' = heap \cup {Obj("name", j), Obj("used", 0), Obj("used name", Len(used) + 1)}
       \/ OOM /\ UNCHANGED <<nodes, used, heap>>
    /\ k' = k + 1
    /\ UNCHANGED <<pc, doc, i, ncap, room, meta, yaml, rc>>

NextElement ==
    /\ pc \in {"names", "groups", "top"} /\ i <= nelem
    /\ \/ pc = "names" /\ k > meta[i].count
       \/ pc = "groups" /\ meta[i].count = 0
       \/ pc = "top" /\ ~IsListed(i)
    /\ i' = i + 1 /\ k' = 1
    /\ UNCHANGED <<pc, doc, arrays, meta, used, yaml, heap, rc>>

-----------------------------------------------------------------------------
(* Emitting.  node_emit_yaml writes a NULL name as "", yaml_emit_dash takes   *)
(* its length and faults.                                                    *)

EmitProxies ==
    /\ pc = "names" /\ i > nelem
    /\ yaml' = [yaml EXCEPT !.proxies = [j \in 1..nlen |-> nodes[j].name]]
    /\ heap' = heap \cup {Obj("sb", 0)}
    /\ pc' = "groups" /\ i' = 1
    /\ UNCHANGED <<doc, k, arrays, meta, used, rc>>

PROXY  == [text |-> "PROXY", nums |-> << >>]
DIRECT == [text |-> "DIRECT", nums |-> << >>]
Members(e) == [m \in 1..meta[e].count |-> nodes[meta[e].first + m].name]
Group(type, name, members) == [type |-> type, name |-> name, members |-> members]

EmitGroup ==
    /\ pc = "groups" /\ i <= nelem /\ meta[i].count > 0
    /\ None \notin Range(Members(i))
    /\ yaml' = [yaml EXCEPT !.groups = @ \o
                  <<Group("select", meta[i].group, Append(Members(i), DIRECT))>> \o
                  IF meta[i].bal = None THEN << >>
                  ELSE <<Group("url-test", Suffixed(meta[i].group, meta[i].bal), Members(i))>>]
    /\ i' = i + 1
    /\ UNCHANGED <<pc, doc, k, arrays, meta, used, heap, rc>>

Fault ==
    /\ pc = "groups" /\ i <= nelem
    /\ None \in Range(Members(i))
    /\ pc' = "crash"
    /\ UNCHANGED <<doc, i, k, arrays, meta, used, yaml, heap, rc>>

GroupsEmitted ==
    /\ pc = "groups" /\ i > nelem
    /\ pc' = "top" /\ i' = 1
    /\ UNCHANGED <<doc, k, arrays, meta, used, yaml, heap, rc>>

ListGroup ==
    /\ pc = "top" /\ i <= nelem /\ IsListed(i)
    /\ yaml' = [yaml EXCEPT !.top = Append(@, meta[i].group)]
    /\ i' = i + 1
    /\ UNCHANGED <<pc, doc, k, arrays, meta, used, heap, rc>>

EmitTop ==
    /\ pc = "top" /\ i > nelem
    /\ yaml' = [yaml EXCEPT !.groups = Append(@, Group("select", PROXY, Append(yaml.top, DIRECT)))]
    /\ heap' = heap \cup {Obj("out_yaml", 0)}
    /\ rc' = 0 /\ pc' = "out"
    /\ UNCHANGED <<doc, i, k, arrays, meta, used>>

-----------------------------------------------------------------------------
\* Mutant: elements without nodes are skipped, as in the other passes.
FreedMetaSkips ==
    UNION {{Obj("group", e)} \cup (IF meta[e].bal = None THEN {} ELSE {Obj("balancer", e)})
             : e \in {n \in DOMAIN meta : meta[n].count > 0}}

FreedMeta ==
    {Obj("group", e) : e \in {n \in DOMAIN meta : meta[n].group # None}}
    \cup {Obj("balancer", e) : e \in {n \in DOMAIN meta : meta[n].bal # None}}

\* What the code at `out' frees: free(NULL) is no free.
Freed ==
    (heap \cap {Obj("root", 0)})
    \cup (IF yaml.proxies = << >> THEN {} ELSE {Obj("sb", 0)})
    \cup Objs("server", nlen) \cup Objs("tag", nlen)
    \cup (Objs("sni", nlen) \cap heap)
    \cup {Obj("name", j) : j \in {n \in 1..nlen : nodes[n].name # None}}
    \cup (IF room.nodes > 0 THEN {Obj("nodes", 0)} ELSE {})
    \cup (IF room.tags > 0 THEN {Obj("tags", 0)} ELSE {})
    \cup FreedMeta
    \cup Objs("used name", Len(used))
    \cup (IF used = << >> THEN {} ELSE {Obj("used", 0)})

CleanUp ==
    /\ pc = "out"
    /\ heap' = heap \ Freed
    /\ pc' = "done"
    /\ UNCHANGED <<doc, i, k, arrays, meta, used, yaml, rc>>

Ended == pc \in {"done", "crash"} /\ UNCHANGED vars

Collect == SkipElement \/ EnterElement \/ SkipOutbound \/ PushNode \/ LeaveElement \/ Collected
Emit    == EmitProxies \/ EmitGroup \/ Fault \/ GroupsEmitted \/ ListGroup \/ EmitTop

Next == ParseRoot \/ Collect \/ NameNode \/ NextElement \/ Emit \/ CleanUp \/ Ended

Spec == Init /\ [][Next]_vars

-----------------------------------------------------------------------------
(* Properties *)

NodeRecord == [name: Name \cup {None}, tag: Nat]
GroupRecord == [type: {"select", "url-test"}, name: Name, members: Seq(Name)]
MetaRecord == [first: Nat, count: Nat, group: Name \cup {None}, bal: Nat \cup {None}]

\* Type invariant.
TypeOK ==
    /\ pc \in {"start", "elems", "outbounds", "names", "groups", "top", "out", "done", "crash"}
    /\ doc \in Docs /\ i \in Nat /\ k \in Nat /\ rc \in {0, 1}
    /\ nodes \in Seq(NodeRecord)
    /\ ncap \in Nat /\ room \in [nodes: Nat, tags: Nat]
    /\ meta \in Seq(MetaRecord)
    /\ used \in Seq(Name)
    /\ yaml \in [proxies: Seq(Name \cup {None}), groups: Seq(GroupRecord), top: Seq(Name)]

\* nodes[] and tags[] are written and freed within what each was allocated, and
\* every meta entry denotes nodes that exist, although the two reallocs fail
\* independently and the passes index nodes through meta.
InBounds ==
    /\ nlen <= ncap /\ ncap <= room.nodes /\ ncap <= room.tags
    /\ \A e \in DOMAIN meta : meta[e].first + meta[e].count <= nlen
    /\ Len(used) <= nlen

\* The clean-up at `out' frees only live objects, from every place that jumps
\* there, and leaves nothing but the result (and the sni strings that
\* parse_vless_outbound itself drops); success means there is a result.
NoLeak ==
    /\ pc = "out" => Freed \subseteq heap
    /\ pc = "done" =>
        /\ \A o \in heap : o[1] \in {"dropped sni", "out_yaml"}
        /\ Obj("out_yaml", 0) \in heap <=> rc = 0

Converted == pc = "done" /\ rc = 0

\* The vless outbounds of the document, those of elements before e and of e
\* itself before l, and where the proxy of one goes.
Vlesses(e) == IF doc.elems[e].object THEN {l \in DOMAIN doc.elems[e].outs : doc.elems[e].outs[l].vless} ELSE {}
Links == UNION {{e} \X Vlesses(e) : e \in 1..nelem}
LinksTo(e, l) == {p \in Links : p[1] < e \/ (p[1] = e /\ p[2] < l)}
Position(p) == Cardinality(LinksTo(p[1], p[2])) + 1
First(e) == Cardinality(LinksTo(e, 1))
Count(e) == Cardinality({p \in Links : p[1] = e})

\* The elements with proxies, those with a balancer too, and where the group of
\* one goes: in front of it those of earlier elements, one or two for each.
Sources == {e \in 1..nelem : Count(e) > 0}
Tested  == {e \in Sources : doc.elems[e].bal # None}
Rank(S, e) == Cardinality({f \in S : f < e})
GroupAt(e) == Rank(Sources, e) + Rank(Tested, e) + 1

Own(p) == LET el == doc.elems[p[1]] IN
          IF Count(p[1]) = 1 THEN el.group ELSE Suffixed(el.group, el.outs[p[2]].tag)
Proxies(e) == [m \in 1..Count(e) |-> yaml.proxies[First(e) + m]]
Listing == yaml.groups[Len(yaml.groups)]

\* A successful conversion has one proxy per vless outbound, in order, named after
\* the element alone when it has one and after its tags when it has more; one
\* group per element with proxies, in order, that offers these and DIRECT, and
\* behind it one that tests them if there is a balancer; and last PROXY, which
\* offers the elements' groups in order.
Faithful ==
    Converted =>
        /\ Len(yaml.proxies) = Cardinality(Links)
        /\ \A p \in Links :
             LET name == yaml.proxies[Position(p)] IN
             name = Own(p) \/ \E m \in 2..(Len(used) + 1) : name = Suffixed(Own(p), m)
        /\ Len(yaml.groups) = GroupAt(nelem + 1)
        /\ \A e \in Sources :
             LET el == doc.elems[e] IN
             /\ yaml.groups[GroupAt(e)] = Group("select", el.group, Append(Proxies(e), DIRECT))
             /\ el.bal # None =>
                  yaml.groups[GroupAt(e) + 1] = Group("url-test", Suffixed(el.group, el.bal), Proxies(e))
             /\ Listing.members[Rank(Sources, e) + 1] = el.group
        /\ Listing.type = "select" /\ Listing.name = PROXY
        /\ Len(Listing.members) = Cardinality(Sources) + 1
        /\ Listing.members[Len(Listing.members)] = DIRECT

\* Mihomo refuses a configuration with a dangling reference: every member of
\* every group is a proxy, another group or DIRECT, and a proxy name denotes one
\* proxy.
NoDangling ==
    Converted =>
        LET groups == {g.name : g \in Range(yaml.groups)} IN
        /\ \A g \in Range(yaml.groups) :
             Range(g.members) \subseteq Range(yaml.proxies) \cup groups \cup {DIRECT}
        /\ \A p, q \in DOMAIN yaml.proxies : yaml.proxies[p] = yaml.proxies[q] => p = q
        /\ None \notin Range(yaml.proxies)
=============================================================================
