-------------------------- MODULE ConvSingboxProofs --------------------------
(***************************************************************************)
(* ConvSingbox for every document, every capacity and every allocation that *)
(* may fail.  Inv: MetaInv says how meta[] cuts nodes[] up, SizeInv and      *)
(* StartInv what the arrays hold before their pass, NameInv how far the      *)
(* naming pass is and which names are taken, YamlInv what has been emitted   *)
(* and HeapInv that what `out' frees is all that is allocated.               *)
(*                                                                         *)
(* FullInv relates that to the document: ReadInv says which outbounds the    *)
(* nodes read so far are, BasedInv what the names given are made of, OutInv   *)
(* where each group emitted so far is.  Positions are counted with the       *)
(* cardinality of what comes before, which the lemmas on Links and Rank do.   *)
(***************************************************************************)
EXTENDS ConvSingbox, SequenceTheorems, FiniteSetTheorems, TLAPS

USE DEF nlen, nelem

Collecting == {"elems", "outbounds"}
Emitting   == {"groups", "top"}
Passes     == Collecting \cup {"names"} \cup Emitting

End(e) == meta[e].first + meta[e].count

\* Node j belongs to an element.
Covered(j) == \E e \in DOMAIN meta : meta[e].first < j /\ j <= End(e)

\* The elements up to the one in hand cut the nodes into consecutive ranges,
\* and those behind it are as calloc left them.
MetaInv ==
    /\ i >= 1 /\ k >= 1
    /\ meta = << >> \/ Len(meta) = nelem
    /\ pc \in Passes => Len(meta) = nelem
    /\ pc \in {"names"} \cup Emitting => nlen > 0
    /\ \A e \in DOMAIN meta : End(e) <= nlen /\ (meta[e].count > 0 => meta[e].group \in Name)
    /\ \A e, f \in DOMAIN meta : e < f /\ meta[f].count > 0 => End(e) <= meta[f].first
    /\ pc = "elems" => \A e \in DOMAIN meta : e >= i => meta[e] = NoMeta
    /\ pc = "outbounds" =>
         /\ i \in DOMAIN meta /\ \A e \in DOMAIN meta : e > i => meta[e] = NoMeta
         /\ meta[i].count = 0 /\ meta[i].bal = None /\ meta[i].group \in Name
         /\ \A e \in DOMAIN meta : e < i => End(e) <= meta[i].first
         /\ \A j \in 1..meta[i].first : Covered(j)
    /\ pc \in Passes \ {"outbounds"} => \A j \in 1..nlen : Covered(j)

SizeInv == nlen <= ncap /\ ncap <= room.nodes /\ ncap <= room.tags

\* The passes before this one have left nothing behind.
StartInv ==
    /\ pc = "start" => nodes = << >> /\ ncap = 0 /\ room = [nodes |-> 0, tags |-> 0]
                       /\ meta = << >> /\ heap = {}
    /\ pc \in {"start"} \cup Collecting => used = << >> /\ \A j \in 1..nlen : nodes[j].name = None
    /\ pc \in {"start", "names"} \cup Collecting =>
         yaml.proxies = << >> /\ yaml.groups = << >> /\ yaml.top = << >>
    /\ pc = "groups" => yaml.top = << >>
    /\ rc = 0 => pc \in {"out", "done"}

\* No more names have been given out than nodes are behind the naming pass, and
\* no two nodes have the same.
NameInv ==
    /\ Len(used) <= nlen
    /\ pc = "names" =>
         \A e \in DOMAIN meta : e >= i /\ meta[e].count > 0 =>
            Len(used) <= meta[e].first + IF e = i THEN k - 1 ELSE 0
    /\ \A j \in 1..nlen : nodes[j].name # None => nodes[j].name \in Range(used)
    /\ \A j, h \in 1..nlen : nodes[j].name = nodes[h].name /\ nodes[j].name # None => j = h

GroupNames == {g.name : g \in Range(yaml.groups)}

\* Element e has been emitted as a group of nodes that all have names.
Grouped(e) ==
    meta[e].count > 0 =>
        /\ meta[e].group \in GroupNames
        /\ \A j \in 1..nlen : meta[e].first < j /\ j <= End(e) => nodes[j].name # None

\* The members of the groups are proxies; PROXY alone lists groups.
YamlInv ==
    /\ pc \in Emitting \/ rc = 0 =>
         /\ yaml.proxies = [j \in 1..nlen |-> nodes[j].name]
         /\ Range(yaml.top) \subseteq GroupNames
         /\ \A g \in Range(yaml.groups) :
              Range(g.members) \subseteq Range(yaml.proxies) \cup GroupNames \cup {DIRECT}
    /\ pc = "groups" => \A e \in DOMAIN meta : e < i => Grouped(e)
    /\ pc = "top" => \A e \in DOMAIN meta : Grouped(e)
    /\ rc = 0 => \A j \in 1..nlen : nodes[j].name # None

Result == IF rc = 0 THEN {Obj("out_yaml", 0)} ELSE {}
Lost   == {Obj("dropped sni", n) : n \in Nat}

HeapInv ==
    /\ pc \notin {"done", "crash"} => heap = Freed \cup Result \cup (heap \cap Lost)
    /\ pc = "done" => heap = Result \cup (heap \cap Lost)

Inv == TypeOK /\ MetaInv /\ SizeInv /\ StartInv /\ NameInv /\ YamlInv /\ HeapInv

-----------------------------------------------------------------------------
(* The helpers *)

\* A set of numbers that has a member has a least one.
LEMMA MinOfNats ==
    ASSUME NEW S, S \subseteq Nat, S # {}
    PROVE  Min(S) \in S /\ \A y \in S : Min(S) <= y
<1> DEFINE R == {ss \in Nat \X Nat : ss[1] < ss[2]}
<1>1. R = OpToRel(<, Nat)
    BY DEF OpToRel
<1>2. IsWellFoundedOn(R, Nat)
    BY <1>1, NatLessThanWellFounded
<1> HIDE DEF R
<1>3. PICK x \in S : \A y \in S : ~(<<y, x>> \in R)
    BY <1>2, WFMin
<1>4. ASSUME NEW y \in S
      PROVE  x <= y
    <2>1. x \in Nat /\ y \in Nat
        OBVIOUS
    <2>2. y < x => <<y, x>> \in R
        BY <2>1 DEF R
    <2> QED
        BY <1>3, <2>1, <2>2
<1> QED
    BY <1>4 DEF Min

\* What a sequence holds after an element is appended.
LEMMA RangeAppended ==
    ASSUME NEW S, NEW s \in Seq(S), NEW x \in S
    PROVE  Range(Append(s, x)) = Range(s) \cup {x}
<1>1. <<x>> \in Seq(S) /\ Append(s, x) = s \o <<x>>
    BY AppendIsConcat
<1>2. \A t, u \in Seq(S) : Range(t \o u) = Range(t) \cup Range(u)
    BY RangeConcatenation
<1>3. Range(s \o <<x>>) = Range(s) \cup Range(<<x>>)
    BY <1>1, <1>2
<1>4. Range(<<x>>) = {x}
    BY DEF Range
<1> QED
    BY <1>1, <1>3, <1>4

\* Numbering is injective and gives a name.
LEMMA SuffixInjective ==
    ASSUME NEW b \in Name
    PROVE  /\ \A n \in Nat : Suffixed(b, n) \in Name
           /\ \A n, m \in Nat : Suffixed(b, n) = Suffixed(b, m) => n = m
<1>1. ASSUME NEW n \in Nat
      PROVE  /\ Suffixed(b, n) \in Name
             /\ Suffixed(b, n).nums = Append(b.nums, n)
    BY DEF Suffixed, Name
<1>2. \A n \in Nat : Append(b.nums, n)[Len(b.nums) + 1] = n
    BY DEF Name
<1>3. ASSUME NEW n \in Nat, NEW m \in Nat, Suffixed(b, n) = Suffixed(b, m)
      PROVE  n = m
    BY <1>1, <1>2, <1>3
<1> QED
    BY <1>1, <1>3

\* Of one number more than there are names given out, one is free.
LEMMA FreeNumber ==
    ASSUME used \in Seq(Name), NEW b \in Name
    PROVE  \E n \in 2..(Len(used) + 2) : Suffixed(b, n) \notin Range(used)
<1> DEFINE N == Len(used)
           at == [n \in 2..(N + 2) |-> CHOOSE h \in 1..N : used[h] = Suffixed(b, n)]
<1>1. SUFFICES ASSUME \A n \in 2..(N + 2) : Suffixed(b, n) \in Range(used)
               PROVE  FALSE
    OBVIOUS
<1>2. N \in Nat /\ DOMAIN used = 1..N
    OBVIOUS
<1>3. ASSUME NEW n \in 2..(N + 2)
      PROVE  \E h \in 1..N : used[h] = Suffixed(b, n)
    BY <1>1, <1>2 DEF Range
<1>4. \A n \in 2..(N + 2) : at[n] \in 1..N /\ used[at[n]] = Suffixed(b, n)
    BY <1>3
<1>5. at \in [2..(N + 2) -> 1..N]
    BY <1>4
<1> HIDE DEF at, N
<1>6. /\ IsFiniteSet(2..(N + 2)) /\ Cardinality(2..(N + 2)) = N + 1
      /\ IsFiniteSet(1..N) /\ Cardinality(1..N) = N
    <2>1. IsFiniteSet(2..(N + 2)) /\ Cardinality(2..(N + 2)) = N + 1
        <3>1. 2 \in Int /\ N + 2 \in Int /\ ~(2 > N + 2) /\ (N + 2) - 2 + 1 = N + 1
            BY <1>2
        <3> QED
            BY <3>1, FS_Interval
    <2>2. IsFiniteSet(1..N) /\ Cardinality(1..N) = N
        <3>1. 1 \in Int /\ N \in Int /\ N - 1 + 1 = N /\ (1 > N => N = 0)
            BY <1>2
        <3> QED
            BY <3>1, FS_Interval
    <2> QED
        BY <2>1, <2>2
<1>7. PICK n \in 2..(N + 2), m \in 2..(N + 2) : n # m /\ at[n] = at[m]
    <2>1. Cardinality(1..N) < Cardinality(2..(N + 2))
        BY <1>2, <1>6
    <2> QED
        BY <1>5, <1>6, <2>1, FS_PigeonHole
<1>8. Suffixed(b, n) = Suffixed(b, m) /\ n \in Nat /\ m \in Nat
    BY <1>2, <1>4, <1>7
<1> QED
    BY <1>7, <1>8, SuffixInjective

\* assign_unique_name gives a name not given before.
LEMMA UnusedIsNew ==
    ASSUME used \in Seq(Name), NEW b \in Name
    PROVE  /\ Unused(b) \in Name /\ Unused(b) \notin Range(used)
           /\ \/ Unused(b) = b
              \/ b \in Range(used) /\ \E n \in 2..(Len(used) + 2) : Unused(b) = Suffixed(b, n)
<1>1. CASE b \notin Range(used)
    BY <1>1 DEF Unused
<1>2. CASE b \in Range(used)
    <2> DEFINE free == {n \in 2..(Len(used) + 2) : Suffixed(b, n) \notin Range(used)}
    <2>1. free # {} /\ free \subseteq Nat
        BY FreeNumber
    <2>2. Min(free) \in free
        BY <2>1, MinOfNats
    <2>3. Unused(b) = Suffixed(b, Min(free))
        BY <1>2 DEF Unused
    <2>4. Min(free) \in Nat
        BY <2>1, <2>2
    <2> QED
        BY <1>2, <2>2, <2>3, <2>4, SuffixInjective
<1> QED
    BY <1>1, <1>2

-----------------------------------------------------------------------------
(* Types *)

LEMMA DocType ==
    ASSUME TypeOK
    PROVE  /\ doc.elems \in Seq(Element) /\ nelem \in Nat /\ DOMAIN doc.elems = 1..nelem
           /\ \A e \in 1..nelem :
                LET el == doc.elems[e] IN
                /\ el.group \in Name /\ el.bal \in Nat \cup {None} /\ Len(el.outs) \in Nat
                /\ \A l \in 1..Len(el.outs) : el.outs[l].tag \in Nat
<1>1. doc \in [array: BOOLEAN, elems: Seq(Element)]
    BY SingboxAssumption DEF TypeOK
<1>2. doc.elems \in Seq(Element)
    BY <1>1
<1>3. nelem \in Nat /\ DOMAIN doc.elems = 1..nelem
    BY <1>2
<1>4. \A e \in 1..nelem : doc.elems[e] \in Element
    BY <1>2, ElementOfSeq
<1>5. \A el \in Element : el.group \in Name /\ el.bal \in Nat \cup {None} /\ el.outs \in Seq(Outbound)
    BY DEF Element
<1>6. ASSUME NEW outs \in Seq(Outbound)
      PROVE  Len(outs) \in Nat /\ \A l \in 1..Len(outs) : outs[l].tag \in Nat
    <2>1. Len(outs) \in Nat /\ \A l \in 1..Len(outs) : outs[l] \in Outbound
        BY ElementOfSeq
    <2>2. \A ob \in Outbound : ob.tag \in Nat
        BY DEF Outbound
    <2> QED
        BY <2>1, <2>2
<1> QED
    BY <1>2, <1>3, <1>4, <1>5, <1>6

LEMMA MetaType ==
    ASSUME TypeOK
    PROVE  /\ Len(meta) \in Nat /\ DOMAIN meta = 1..Len(meta)
           /\ \A e \in DOMAIN meta :
                /\ meta[e] \in MetaRecord
                /\ meta[e].first \in Nat /\ meta[e].count \in Nat
                /\ meta[e].group \in Name \cup {None} /\ meta[e].bal \in Nat \cup {None}
<1>1. meta \in Seq(MetaRecord)
    BY DEF TypeOK
<1>2. Len(meta) \in Nat /\ DOMAIN meta = 1..Len(meta)
    BY <1>1
<1>3. \A e \in 1..Len(meta) : meta[e] \in MetaRecord
    BY <1>1, ElementOfSeq
<1>4. \A m \in MetaRecord : /\ m.first \in Nat /\ m.count \in Nat
                            /\ m.group \in Name \cup {None} /\ m.bal \in Nat \cup {None}
    BY DEF MetaRecord
<1> QED
    BY <1>2, <1>3, <1>4

LEMMA NodeType ==
    ASSUME TypeOK
    PROVE  /\ nodes \in Seq(NodeRecord) /\ nlen \in Nat /\ DOMAIN nodes = 1..nlen
           /\ \A j \in 1..nlen : /\ nodes[j] \in NodeRecord
                                /\ nodes[j].name \in Name \cup {None} /\ nodes[j].tag \in Nat
<1>1. nodes \in Seq(NodeRecord)
    BY DEF TypeOK
<1>2. nlen \in Nat /\ DOMAIN nodes = 1..nlen
    BY <1>1
<1>3. \A j \in 1..nlen : nodes[j] \in NodeRecord
    BY <1>1, ElementOfSeq
<1>4. \A n \in NodeRecord : n.name \in Name \cup {None} /\ n.tag \in Nat
    BY DEF NodeRecord
<1> QED
    BY <1>1, <1>2, <1>3, <1>4

YamlRecord == [proxies: Seq(Name \cup {None}), groups: Seq(GroupRecord), top: Seq(Name)]
RoomRecord == [nodes: Nat, tags: Nat]
Points == {"start", "elems", "outbounds", "names", "groups", "top", "out", "done", "crash"}

Types == /\ pc \in Points /\ doc \in Docs /\ i \in Nat /\ k \in Nat /\ rc \in {0, 1}
         /\ nodes \in Seq(NodeRecord) /\ ncap \in Nat /\ room \in RoomRecord
         /\ meta \in Seq(MetaRecord) /\ used \in Seq(Name) /\ yaml \in YamlRecord

LEMMA TypesAre == TypeOK <=> Types
    BY DEF TypeOK, Types, YamlRecord, RoomRecord, Points

LEMMA YamlType ==
    ASSUME TypeOK
    PROVE  /\ yaml \in YamlRecord
           /\ yaml.proxies \in Seq(Name \cup {None}) /\ yaml.top \in Seq(Name)
           /\ yaml.groups \in Seq(GroupRecord)
<1>1. yaml \in YamlRecord
    BY TypesAre DEF Types
<1> QED
    BY <1>1 DEF YamlRecord

\* A step that leaves most alone.
LEMMA TypeKept ==
    ASSUME TypeOK, doc' = doc,
           pc' = pc \/ pc' \in Points, i' \in {i, 1, i + 1}, k' \in {k, 1, k + 1}, rc' \in {rc, 0, 1},
           UNCHANGED nodes \/ nodes' \in Seq(NodeRecord), UNCHANGED ncap \/ ncap' \in Nat,
           UNCHANGED room \/ room' \in RoomRecord, UNCHANGED meta \/ meta' \in Seq(MetaRecord),
           UNCHANGED used \/ used' \in Seq(Name), UNCHANGED yaml \/ yaml' \in YamlRecord
    PROVE  TypeOK'
<1>1. Types
    BY TypesAre
<1>2. Types'
    BY <1>1 DEF Types
<1> QED
    BY <1>2 DEF TypeOK, Types, YamlRecord, RoomRecord, Points

LEMMA FixedNames == PROXY \in Name /\ DIRECT \in Name
<1>1. << >> \in Seq(Nat)
    OBVIOUS
<1> QED
    BY <1>1, SingboxAssumption DEF PROXY, DIRECT, Name

\* An element's record replaced.
LEMMA MetaExcept ==
    ASSUME TypeOK, NEW e \in DOMAIN meta, NEW m \in MetaRecord
    PROVE  [meta EXCEPT ![e] = m] \in Seq(MetaRecord)
  BY ExceptSeq DEF TypeOK

\* Where the naming pass is, there is a node, and it has a base to be named by.
LEMMA NodeInHand ==
    ASSUME TypeOK, MetaInv, NameInv, pc = "names", i <= nelem, k <= meta[i].count
    PROVE  /\ i \in DOMAIN meta /\ meta[i].count > 0 /\ meta[i].first + k \in 1..nlen
           /\ End(i) <= nlen /\ meta[i].first + k <= End(i)
           /\ BaseName(i, meta[i].first + k) \in Name
<1>1. i \in DOMAIN meta
    BY DocType, MetaType DEF MetaInv, Passes, TypeOK
<1>2. k \in Nat /\ k >= 1
    BY DEF MetaInv, TypeOK
<1>3. meta[i].first \in Nat /\ meta[i].count \in Nat /\ End(i) <= nlen /\ nlen \in Nat
    BY <1>1, MetaType, NodeType DEF MetaInv
<1>4. /\ meta[i].count > 0 /\ meta[i].first + k \in 1..nlen
      /\ meta[i].first + k <= End(i)
    BY <1>2, <1>3 DEF End
<1>5. meta[i].group \in Name /\ nodes[meta[i].first + k].tag \in Nat
    BY <1>1, <1>4, NodeType DEF MetaInv
<1>6. BaseName(i, meta[i].first + k) \in Name
    BY <1>5, SuffixInjective DEF BaseName
<1> QED
    BY <1>1, <1>3, <1>4, <1>6

TopGroup == Group("select", PROXY, Append(yaml.top, DIRECT))

LEMMA TopType ==
    ASSUME TypeOK
    PROVE  TopGroup \in GroupRecord
<1>1. Append(yaml.top, DIRECT) \in Seq(Name)
    BY FixedNames, YamlType
<1> QED
    BY <1>1, FixedNames DEF TopGroup, Group, GroupRecord

\* What EmitGroup emits for the element in hand.
SelectGroup == Group("select", meta[i].group, Append(Members(i), DIRECT))
TestGroup == Group("url-test", Suffixed(meta[i].group, meta[i].bal), Members(i))
ElementGroups == <<SelectGroup>> \o IF meta[i].bal = None THEN << >> ELSE <<TestGroup>>

LEMMA GroupEmitted ==
    ASSUME TypeOK, MetaInv, EmitGroup
    PROVE  /\ i \in DOMAIN meta /\ meta[i].group \in Name
           /\ Members(i) \in Seq(Name)
           /\ SelectGroup \in GroupRecord
           /\ meta[i].bal # None => TestGroup \in GroupRecord
           /\ ElementGroups \in Seq(GroupRecord)
           /\ yaml' = [yaml EXCEPT !.groups = yaml.groups \o ElementGroups]
<1>1. i \in DOMAIN meta /\ meta[i].count > 0
    BY DocType, MetaType DEF EmitGroup, MetaInv, Passes, Emitting, TypeOK
<1>2. /\ meta[i].group \in Name /\ meta[i].first \in Nat /\ meta[i].count \in Nat
      /\ End(i) <= nlen /\ meta[i].bal \in Nat \cup {None}
    BY <1>1, MetaType DEF MetaInv
<1>3. Members(i) \in Seq(Name)
    <2>1. \A m \in 1..meta[i].count : meta[i].first + m \in 1..nlen
        BY <1>2, NodeType DEF End
    <2>2. \A m \in 1..meta[i].count : nodes[meta[i].first + m].name \in Name \cup {None}
        BY <2>1, NodeType
    <2>3. \A m \in 1..meta[i].count : nodes[meta[i].first + m].name # None
        <3>1. \A m \in DOMAIN Members(i) : Members(i)[m] # None
            <4>1. None \notin Range(Members(i))
                BY DEF EmitGroup
            <4> QED
                BY <4>1 DEF Range
        <3>2. /\ DOMAIN Members(i) = 1..meta[i].count
              /\ \A m \in 1..meta[i].count : Members(i)[m] = nodes[meta[i].first + m].name
            BY DEF Members
        <3> QED
            BY <3>1, <3>2
    <2>4. \A m \in 1..meta[i].count : nodes[meta[i].first + m].name \in Name
        BY <2>2, <2>3
    <2> QED
        <3>1. Members(i) \in [1..meta[i].count -> Name]
            BY <2>4 DEF Members
        <3> QED
            BY <1>2, <3>1, SeqDef
<1>4. SelectGroup \in GroupRecord
    <2>1. Append(Members(i), DIRECT) \in Seq(Name)
        BY <1>3, FixedNames
    <2> QED
        BY <1>2, <2>1 DEF SelectGroup, Group, GroupRecord
<1>5. meta[i].bal # None => TestGroup \in GroupRecord
    BY <1>2, <1>3, SuffixInjective DEF TestGroup, Group, GroupRecord
<1>6. ElementGroups \in Seq(GroupRecord)
    <2> HIDE DEF SelectGroup, TestGroup
    <2>1. CASE meta[i].bal = None
        BY <1>4, <2>1 DEF ElementGroups
    <2>2. CASE meta[i].bal # None
        BY <1>4, <1>5, <2>2 DEF ElementGroups
    <2> QED
        BY <2>1, <2>2
<1>7. yaml' = [yaml EXCEPT !.groups = yaml.groups \o ElementGroups]
    <2> DEFINE tail == IF meta[i].bal = None THEN << >> ELSE <<TestGroup>>
    <2>1. yaml' = [yaml EXCEPT !.groups = (yaml.groups \o <<SelectGroup>>) \o tail]
        BY DEF EmitGroup, SelectGroup, TestGroup
    <2>2. tail \in Seq(GroupRecord)
        BY <1>5
    <2>3. (yaml.groups \o <<SelectGroup>>) \o tail = yaml.groups \o (<<SelectGroup>> \o tail)
        <3>1. <<SelectGroup>> \in Seq(GroupRecord)
            BY <1>4
        <3>2. yaml.groups \in Seq(GroupRecord)
            BY YamlType
        <3>3. tail \in Seq(GroupRecord)
            BY <2>2
        <3>4. \A s, t, u \in Seq(GroupRecord) : (s \o t) \o u = s \o (t \o u)
            BY ConcatAssociative
        <3> HIDE DEF tail, SelectGroup, GroupRecord
        <3> QED
            BY <3>1, <3>2, <3>3, <3>4
    <2> QED
        BY <2>1, <2>3 DEF ElementGroups
<1> QED
    BY <1>1, <1>2, <1>3, <1>4, <1>5, <1>6, <1>7

\* The next node or the next names come with their sequences typed.
LEMMA TypeStep ==
    ASSUME TypeOK, MetaInv, NameInv, StartInv, YamlInv, [Next]_vars
    PROVE  TypeOK'
<1> USE SingboxAssumption
<1>1. CASE ParseRoot
    <2>1. meta' = meta \/ meta' = [e \in 1..nelem |-> NoMeta]
        BY <1>1 DEF ParseRoot, Fail
    <2>2. NoMeta \in MetaRecord
        BY DEF NoMeta, MetaRecord
    <2>3. [e \in 1..nelem |-> NoMeta] \in Seq(MetaRecord)
        BY <2>2, DocType, IsASeq
    <2>4. meta' = meta \/ meta' \in Seq(MetaRecord)
        BY <2>1, <2>3
    <2>5. pc' \in Points /\ rc' \in {rc, 1} /\ UNCHANGED <<doc, i, k, nodes, ncap, room, used, yaml>>
        BY <1>1 DEF ParseRoot, Fail, arrays, Points
    <2> QED
        BY <2>4, <2>5, TypeKept
<1>2. CASE SkipElement \/ SkipOutbound
    BY <1>2, TypeKept DEF SkipElement, SkipOutbound, arrays
<1>3. CASE EnterElement
    <2>1. i \in 1..nelem /\ i \in DOMAIN meta
        BY <1>3, DocType, MetaType DEF EnterElement, MetaInv, Passes, Collecting, TypeOK
    <2> DEFINE m == [meta[i] EXCEPT !.group = doc.elems[i].group, !.first = nlen]
    <2>2. m \in MetaRecord
        BY <2>1, DocType, MetaType, NodeType DEF MetaRecord
    <2>3. meta' = [meta EXCEPT ![i] = m]
        BY <1>3, <2>1, MetaType DEF EnterElement
    <2> HIDE DEF m
    <2>4. meta' \in Seq(MetaRecord)
        BY <2>1, <2>2, <2>3, MetaExcept
    <2>5. /\ pc' \in Points /\ k' = 1
          /\ UNCHANGED <<doc, i, nodes, ncap, room, used, yaml, rc>>
        BY <1>3 DEF EnterElement, arrays, Points
    <2> QED
        BY <2>4, <2>5, TypeKept
<1>4. CASE PushNode
    <2> DEFINE node == [name |-> None, tag |-> Outbounds[k].tag]
    <2>1. /\ nodes' = nodes \/ nodes' = Append(nodes, node)
          /\ ncap' \in {ncap, NextCap}
          /\ room' \in {room, [nodes |-> NextCap, tags |-> NextCap], [room EXCEPT !.nodes = NextCap]}
          /\ pc' \in {pc, "out"} /\ rc' \in {rc, 1} /\ k' \in {k, k + 1}
          /\ UNCHANGED <<doc, i, meta, used, yaml>>
        BY <1>4 DEF PushNode, Fail, arrays
    <2>2. k \in 1..Len(Outbounds) /\ i \in 1..nelem
        BY <1>4, DocType, MetaType DEF PushNode, Outbounds, MetaInv, Passes, Collecting, TypeOK
    <2>3. node \in NodeRecord
        BY <2>2, DocType DEF Outbounds, NodeRecord
    <2> HIDE DEF node
    <2>4. nodes' \in Seq(NodeRecord)
        BY <2>1, <2>3, NodeType
    <2>5. NextCap \in Nat /\ ncap \in Nat /\ room \in RoomRecord
        BY TypesAre DEF NextCap, Types
    <2>6. ncap' \in Nat /\ room' \in RoomRecord
        BY <2>1, <2>5 DEF RoomRecord
    <2>7. pc' = pc \/ pc' \in Points
        BY <2>1 DEF Points
    <2> QED
        BY <2>1, <2>4, <2>6, <2>7, TypeKept
<1>5. CASE LeaveElement
    <2>1. i \in 1..nelem /\ i \in DOMAIN meta
        BY <1>5, DocType, MetaType DEF LeaveElement, MetaInv, Passes, Collecting, TypeOK
    <2> DEFINE m == [meta[i] EXCEPT !.count = nlen - meta[i].first, !.bal = doc.elems[i].bal]
    <2>2. nlen - meta[i].first \in Nat
        <3>1. End(i) <= nlen
            BY <2>1 DEF MetaInv
        <3> QED
            BY <2>1, <3>1, MetaType, NodeType DEF End
    <2>3. m \in MetaRecord
        BY <2>1, <2>2, DocType, MetaType DEF MetaRecord
    <2>4. meta' = [meta EXCEPT ![i] = m]
        BY <1>5, <2>1, MetaType DEF LeaveElement
    <2> HIDE DEF m
    <2>5. meta' \in Seq(MetaRecord)
        BY <2>1, <2>3, <2>4, MetaExcept
    <2>6. /\ pc' \in Points /\ i' = i + 1
          /\ UNCHANGED <<doc, k, nodes, ncap, room, used, yaml, rc>>
        BY <1>5 DEF LeaveElement, arrays, Points
    <2> QED
        BY <2>5, <2>6, TypeKept
<1>6. CASE Collected \/ NextElement \/ GroupsEmitted \/ Fault \/ CleanUp
    <2>1. /\ pc' = pc \/ pc' \in Points
          /\ i' \in {i, 1, i + 1} /\ k' \in {k, 1} /\ rc' \in {rc, 1}
          /\ UNCHANGED <<doc, nodes, ncap, room, meta, used, yaml>>
        BY <1>6 DEF Collected, NextElement, GroupsEmitted, Fault, CleanUp, Fail, arrays, Points
    <2> QED
        BY <2>1, TypeKept
<1>7. CASE NameNode
    <2> DEFINE j == meta[i].first + k
               name == Unused(BaseName(i, j))
    <2>1. j \in 1..nlen /\ name \in Name
        BY <1>7, NodeInHand, UnusedIsNew, TypesAre DEF NameNode, Types
    <2>2. /\ nodes' = nodes \/ nodes' = [nodes EXCEPT ![j].name = name]
          /\ used' = used \/ used' = Append(used, name)
          /\ k' = k + 1 /\ UNCHANGED <<pc, doc, i, ncap, room, meta, yaml, rc>>
        BY <1>7 DEF NameNode
    <2> HIDE DEF name, j
    <2>3. [nodes[j] EXCEPT !.name = name] \in NodeRecord
        BY <2>1, NodeType DEF NodeRecord
    <2>4. [nodes EXCEPT ![j].name = name] \in Seq(NodeRecord)
        BY <2>1, <2>3, NodeType, ExceptSeq
    <2>5. Append(used, name) \in Seq(Name)
        BY <2>1, TypesAre DEF Types
    <2> QED
        BY <2>2, <2>4, <2>5, TypeKept
<1>8. CASE EmitProxies
    <2> DEFINE names == [j \in 1..nlen |-> nodes[j].name]
    <2>1. names \in Seq(Name \cup {None})
        BY NodeType, IsASeq
    <2>2. /\ yaml' = [yaml EXCEPT !.proxies = names] /\ pc' \in Points /\ i' = 1
          /\ UNCHANGED <<doc, k, nodes, ncap, room, meta, used, rc>>
        BY <1>8 DEF EmitProxies, arrays, Points
    <2> HIDE DEF names
    <2>3. yaml' \in YamlRecord
        BY <2>1, <2>2, YamlType DEF YamlRecord
    <2> QED
        BY <2>2, <2>3, TypeKept
<1>9. CASE EmitGroup
    <2>1. /\ yaml' = [yaml EXCEPT !.groups = yaml.groups \o ElementGroups]
          /\ i' = i + 1
          /\ UNCHANGED <<pc, doc, k, nodes, ncap, room, meta, used, rc>>
        BY <1>9, GroupEmitted DEF EmitGroup, arrays
    <2>2. ElementGroups \in Seq(GroupRecord)
        BY <1>9, GroupEmitted
    <2>3. yaml.groups \o ElementGroups \in Seq(GroupRecord)
        BY <2>2, YamlType, ConcatProperties
    <2>4. yaml' \in YamlRecord
        BY <2>1, <2>3, YamlType DEF YamlRecord
    <2> QED
        BY <2>1, <2>4, TypeKept
<1>10. CASE ListGroup
    <2>1. i \in DOMAIN meta /\ meta[i].group \in Name
        BY <1>10, DocType, MetaType DEF ListGroup, IsListed, MetaInv, Passes, Emitting, TypeOK
    <2>2. Append(yaml.top, meta[i].group) \in Seq(Name)
        BY <2>1, YamlType
    <2>3. /\ yaml' = [yaml EXCEPT !.top = Append(yaml.top, meta[i].group)] /\ i' = i + 1
          /\ UNCHANGED <<pc, doc, k, nodes, ncap, room, meta, used, rc>>
        BY <1>10 DEF ListGroup, arrays
    <2>4. yaml' \in YamlRecord
        BY <2>2, <2>3, YamlType DEF YamlRecord
    <2> QED
        BY <2>3, <2>4, TypeKept
<1>11. CASE EmitTop
    <2>1. /\ yaml' = [yaml EXCEPT !.groups = Append(yaml.groups, TopGroup)]
          /\ pc' \in Points /\ rc' = 0
          /\ UNCHANGED <<doc, i, k, nodes, ncap, room, meta, used>>
        BY <1>11 DEF EmitTop, TopGroup, arrays, Points
    <2>2. Append(yaml.groups, TopGroup) \in Seq(GroupRecord)
        BY TopType, YamlType
    <2>3. yaml' \in YamlRecord
        BY <2>1, <2>2, YamlType DEF YamlRecord
    <2> QED
        BY <2>1, <2>3, TypeKept
<1>12. CASE UNCHANGED vars
    BY <1>12, TypeKept DEF vars, arrays
<1> QED
    BY <1>1, <1>2, <1>3, <1>4, <1>5, <1>6, <1>7, <1>8, <1>9, <1>10, <1>11, <1>12
       DEF Next, Collect, Emit, Ended

-----------------------------------------------------------------------------
(* What the steps that change nodes[] do to it *)

LEMMA NameGiven ==
    ASSUME TypeOK, MetaInv, NameInv, NameNode
    PROVE  /\ pc = "names" /\ nlen' = nlen
           /\ \/ UNCHANGED <<nodes, used, heap>>
              \/ \E j \in 1..nlen, name \in Name :
                   /\ j = meta[i].first + k
                   /\ name \notin Range(used) /\ used' = Append(used, name)
                   /\ LET base == BaseName(i, j) IN
                      name = base \/ \E n \in 2..(Len(used) + 2) : name = Suffixed(base, n)
                   /\ nodes'[j].name = name /\ nodes'[j].tag = nodes[j].tag
                   /\ \A h \in 1..nlen : h # j => nodes'[h] = nodes[h]
                   /\ heap' = heap \cup {Obj("name", j), Obj("used", 0), Obj("used name", Len(used) + 1)}
<1> DEFINE j == meta[i].first + k
           name == Unused(BaseName(i, j))
<1>1. /\ j \in 1..nlen /\ name \in Name /\ name \notin Range(used)
      /\ LET base == BaseName(i, j) IN
         name = base \/ \E n \in 2..(Len(used) + 2) : name = Suffixed(base, n)
    BY NodeInHand, UnusedIsNew, TypesAre DEF NameNode, Types
<1>2. CASE UNCHANGED <<nodes, used, heap>>
    BY <1>2 DEF NameNode
<1>3. CASE /\ nodes' = [nodes EXCEPT ![j].name = name] /\ used' = Append(used, name)
           /\ heap' = heap \cup {Obj("name", j), Obj("used", 0), Obj("used name", Len(used) + 1)}
    <2> HIDE DEF name, j
    <2>1. nodes' = [nodes EXCEPT ![j] = [nodes[j] EXCEPT !.name = name]]
        BY <1>1, <1>3, NodeType
    <2>2. [nodes[j] EXCEPT !.name = name] \in NodeRecord
        BY <1>1, NodeType DEF NodeRecord
    <2>3. /\ nlen' = nlen
          /\ \A h \in 1..nlen : nodes'[h] = IF h = j THEN [nodes[j] EXCEPT !.name = name] ELSE nodes[h]
        BY <1>1, <2>1, <2>2, NodeType, ExceptSeq
    <2>4. nodes'[j].name = name /\ nodes'[j].tag = nodes[j].tag
        BY <1>1, <2>2, <2>3, NodeType DEF NodeRecord
    <2>5. pc = "names"
        BY DEF NameNode
    <2>6. j = meta[i].first + k
        BY DEF j
    <2>7. \A h \in 1..nlen : h # j => nodes'[h] = nodes[h]
        BY <2>3
    <2> QED
        BY <1>1, <1>3, <2>3, <2>4, <2>5, <2>6, <2>7
<1> QED
    BY <1>2, <1>3 DEF NameNode

LEMMA NodePushed ==
    ASSUME TypeOK, MetaInv, PushNode
    PROVE  /\ pc = "outbounds" /\ i \in DOMAIN meta
           /\ \/ nodes' = nodes /\ ncap' = ncap /\ pc' = "out" /\ rc' = 1
              \/ /\ nlen' = nlen + 1 /\ nodes'[nlen + 1].name = None
                 /\ \A j \in 1..nlen : nodes'[j] = nodes[j]
                 /\ pc' = pc /\ rc' = rc
<1> DEFINE node == [name |-> None, tag |-> Outbounds[k].tag]
<1>1. k \in 1..Len(Outbounds) /\ i \in 1..nelem /\ i \in DOMAIN meta
    BY DocType, MetaType DEF PushNode, Outbounds, MetaInv, Passes, Collecting, TypeOK
<1>2. node \in NodeRecord /\ node.name = None
    BY <1>1, DocType DEF Outbounds, NodeRecord
<1>3. \/ nodes' = nodes /\ ncap' = ncap /\ pc' = "out" /\ rc' = 1
      \/ nodes' = Append(nodes, node) /\ pc' = pc /\ rc' = rc
    BY DEF PushNode, Fail, arrays
<1> HIDE DEF node
<1>4. /\ Len(Append(nodes, node)) = nlen + 1 /\ Append(nodes, node)[nlen + 1] = node
      /\ \A j \in 1..nlen : Append(nodes, node)[j] = nodes[j]
    BY <1>2, NodeType, AppendProperties
<1>5. pc = "outbounds"
    BY DEF PushNode
<1> QED
    BY <1>1, <1>2, <1>3, <1>4, <1>5

\* The number of nodes changes when one is pushed.
LEMMA NodesGrow ==
    ASSUME TypeOK, MetaInv, NameInv, [Next]_vars
    PROVE  nlen' = nlen \/ PushNode
<1>1. CASE NameNode
    BY <1>1, NameGiven
<1>2. CASE ~NameNode /\ ~PushNode
    <2>1. nodes' = nodes
        BY <1>2 DEF Next, Collect, Emit, Ended, vars, arrays, ParseRoot, SkipElement, EnterElement,
                    SkipOutbound, LeaveElement, Collected, NextElement, EmitProxies, EmitGroup,
                    Fault, GroupsEmitted, ListGroup, EmitTop, CleanUp
    <2> QED
        BY <2>1
<1> QED
    BY <1>1, <1>2

-----------------------------------------------------------------------------
(* meta[] *)

\* A step that leaves meta[] alone and does not begin an element.
LEMMA MetaKept ==
    ASSUME TypeOK, MetaInv, UNCHANGED <<doc, meta>>, nlen' = nlen, i' \in Nat \ {0}, k' \in Nat \ {0},
           pc' # "outbounds", pc' = "elems" => pc = "elems" /\ i' >= i,
           pc' \in Passes => pc \in Passes \ {"outbounds"},
           pc' \in {"names"} \cup Emitting => nlen > 0
    PROVE  MetaInv'
<1>1. \A e : End(e)' = End(e)
    BY DEF End
<1>2. \A j : Covered(j)' = Covered(j)
    BY <1>1 DEF Covered
<1>3. pc' = "elems" => \A e \in DOMAIN meta : e >= i' => e >= i
    BY MetaType, TypesAre DEF Types
<1> QED
    BY <1>1, <1>2, <1>3 DEF MetaInv

LEMMA MetaStep ==
    ASSUME TypeOK, MetaInv, StartInv, NameInv, YamlInv, [Next]_vars
    PROVE  MetaInv'
<1>1. CASE ParseRoot
    <2>1. /\ pc = "start" /\ nodes = << >> /\ meta = << >>
          /\ UNCHANGED <<doc, i, k, nodes>>
        BY <1>1 DEF ParseRoot, StartInv, arrays
    <2>2. CASE meta' = meta /\ pc' = "out"
        BY <2>1, <2>2, MetaKept, TypesAre DEF MetaInv, Types, Passes, Collecting, Emitting
    <2>3. CASE meta' = [e \in 1..nelem |-> NoMeta] /\ pc' = "elems"
        <3>1. DOMAIN meta' = 1..nelem /\ \A e \in 1..nelem : meta'[e] = NoMeta
            BY <2>3
        <3>2. NoMeta.first = 0 /\ NoMeta.count = 0
            BY DEF NoMeta
        <3>3. \A e \in DOMAIN meta' : End(e)' = 0 /\ meta'[e].count = 0
            BY <3>1, <3>2 DEF End
        <3>4. nlen' = 0 /\ nlen = 0 /\ Len(meta') = nelem
            BY <2>1, <2>3, DocType
        <3> QED
            BY <2>1, <2>3, <3>1, <3>3, <3>4 DEF MetaInv, Collecting, Emitting
    <2> QED
        BY <1>1, <2>2, <2>3 DEF ParseRoot, Fail
<1>2. CASE SkipElement
    <2>1. pc = "elems" /\ pc' = pc /\ i' = i + 1 /\ UNCHANGED <<doc, k, nodes, meta>>
        BY <1>2 DEF SkipElement, arrays
    <2> QED
        BY <2>1, MetaKept, TypesAre DEF MetaInv, Types, Passes, Collecting, Emitting
<1>3. CASE EnterElement
    <2>1. /\ pc = "elems" /\ pc' = "outbounds" /\ i \in DOMAIN meta /\ i \in 1..nelem /\ k' = 1
          /\ UNCHANGED <<doc, i, nodes>>
          /\ meta' = [meta EXCEPT ![i].group = doc.elems[i].group, ![i].first = nlen]
        BY <1>3, DocType, MetaType DEF EnterElement, MetaInv, Passes, Collecting, Types, TypeOK, arrays
    <2>2. /\ meta[i] = NoMeta
          /\ \A e \in DOMAIN meta : e > i => meta[e] = NoMeta
        BY <2>1, MetaType, TypesAre DEF MetaInv, Types
    <2>3. /\ DOMAIN meta' = DOMAIN meta
          /\ \A e \in DOMAIN meta : e # i => meta'[e] = meta[e]
          /\ meta'[i].first = nlen /\ meta'[i].count = 0 /\ meta'[i].bal = None
          /\ meta'[i].group = doc.elems[i].group
        <3> DEFINE m == [meta[i] EXCEPT !.group = doc.elems[i].group, !.first = nlen]
        <3>1. meta' = [meta EXCEPT ![i] = m]
            BY <2>1, MetaType
        <3>2. /\ m.first = nlen /\ m.group = doc.elems[i].group
              /\ m.count = meta[i].count /\ m.bal = meta[i].bal
            BY <2>1, MetaType DEF MetaRecord
        <3>3. meta[i].count = 0 /\ meta[i].bal = None
            BY <2>2 DEF NoMeta
        <3> HIDE DEF m
        <3> QED
            BY <2>1, <3>1, <3>2, <3>3, MetaType
    <2>4. /\ \A e \in DOMAIN meta : e # i => End(e)' = End(e)
          /\ End(i)' = nlen
        BY <2>1, <2>3, NodeType DEF End
    <2>5. \A j \in 1..nlen : Covered(j)'
        <3>1. ASSUME NEW j \in 1..nlen
              PROVE  \E e \in DOMAIN meta : e # i /\ meta[e].first < j /\ j <= End(e)
            <4>1. PICK e \in DOMAIN meta : meta[e].first < j /\ j <= End(e)
                BY <2>1 DEF MetaInv, Covered, Passes, Collecting
            <4>2. e # i
                BY <2>2, <4>1 DEF NoMeta, End
            <4> QED
                BY <4>1, <4>2
        <3> QED
            BY <2>3, <2>4, <3>1 DEF Covered
    <2>6. Len(meta') = Len(meta)
        <3>1. TypeOK'
            BY TypeStep
        <3> QED
            BY <2>3, <3>1, MetaType DEF TypeOK
    <2>7. Len(meta) = nelem
        BY <2>1 DEF MetaInv, Passes, Collecting
    <2>8. \A e \in DOMAIN meta : End(e)' <= nlen /\ (meta'[e].count > 0 => meta'[e].group \in Name)
        <3>1. \A e \in DOMAIN meta : e # i =>
                End(e)' <= nlen /\ (meta'[e].count > 0 => meta'[e].group \in Name)
            BY <2>3, <2>4 DEF MetaInv
        <3>2. End(i)' <= nlen /\ ~(meta'[i].count > 0)
            BY <2>3, <2>4, NodeType
        <3> QED
            BY <2>1, <3>1, <3>2 DEF End
    <2>9. \A e, f \in DOMAIN meta : e < f /\ meta'[f].count > 0 => End(e)' <= meta'[f].first
        <3>1. ASSUME NEW e \in DOMAIN meta, NEW f \in DOMAIN meta, e < f, meta'[f].count > 0
              PROVE  End(e)' <= meta'[f].first
            <4>1. f # i
                BY <2>3, <3>1
            <4>2. ~(f > i)
                BY <2>2, <2>3, <3>1, <4>1 DEF NoMeta
            <4>3. e # i
                BY <2>1, <3>1, <4>2, MetaType
            <4> QED
                BY <2>3, <2>4, <3>1, <4>1, <4>3 DEF MetaInv
        <3> QED
            BY <3>1
    <2>10. \A e \in DOMAIN meta : e < i => End(e)' <= nlen
        BY <2>1, <2>4, MetaType DEF MetaInv
    <2>11. meta'[i].group \in Name
        BY <2>1, <2>3, DocType
    <2>12. \A e \in DOMAIN meta : e > i => meta'[e] = NoMeta
        BY <2>1, <2>2, <2>3, MetaType
    <2>13. i >= 1
        BY DEF MetaInv
    <2> QED
        BY <2>1, <2>3, <2>5, <2>6, <2>7, <2>8, <2>9, <2>10, <2>11, <2>12, <2>13
           DEF MetaInv, Passes, Collecting, Emitting
<1>4. CASE SkipOutbound
    <2>1. pc' = pc /\ k' = k + 1 /\ UNCHANGED <<doc, i, nodes, meta>>
        BY <1>4 DEF SkipOutbound, arrays
    <2>2. \A e : End(e)' = End(e)
        BY <2>1 DEF End
    <2>3. \A j : Covered(j)' = Covered(j)
        BY <2>1, <2>2 DEF Covered
    <2> QED
        BY <2>1, <2>2, <2>3, TypesAre DEF MetaInv, Types
<1>5. CASE PushNode
    <2>1. /\ pc = "outbounds" /\ pc' \in {"outbounds", "out"} /\ UNCHANGED <<doc, i, meta>>
          /\ k' \in {k, k + 1}
        BY <1>5 DEF PushNode, Fail
    <2>2. nlen' = nlen \/ nlen' = nlen + 1
        BY <1>5, NodePushed
    <2>3. \A e : End(e)' = End(e)
        BY <2>1 DEF End
    <2>4. \A j : Covered(j)' = Covered(j)
        BY <2>1, <2>3 DEF Covered
    <2>5. \A e \in DOMAIN meta : End(e) <= nlen'
        BY <2>2, MetaType, NodeType DEF MetaInv, End
    <2> QED
        BY <2>1, <2>3, <2>4, <2>5, TypesAre DEF MetaInv, Types, Passes, Collecting, Emitting
<1>6. CASE LeaveElement
    <2>1. /\ pc = "outbounds" /\ pc' = "elems" /\ i' = i + 1
          /\ UNCHANGED <<doc, k, nodes>>
          /\ meta' = [meta EXCEPT ![i].count = nlen - meta[i].first, ![i].bal = doc.elems[i].bal]
        BY <1>6 DEF LeaveElement, arrays
    <2>2. /\ i \in DOMAIN meta /\ \A e \in DOMAIN meta : e > i => meta[e] = NoMeta
          /\ meta[i].count = 0 /\ meta[i].group \in Name /\ meta[i].first <= nlen
          /\ \A e \in DOMAIN meta : e < i => End(e) <= meta[i].first
          /\ \A j \in 1..meta[i].first : Covered(j)
        BY <2>1, MetaType DEF MetaInv, End
    <2>3. /\ DOMAIN meta' = DOMAIN meta
          /\ \A e \in DOMAIN meta : e # i => meta'[e] = meta[e]
          /\ meta'[i].first = meta[i].first /\ meta'[i].count = nlen - meta[i].first
          /\ meta'[i].group = meta[i].group
        BY <2>1, <2>2, MetaType DEF MetaRecord
    <2>4. PICK n \in Nat : n = i
        BY TypesAre DEF Types
    <2>5. /\ \A e \in DOMAIN meta : e # n => End(e)' = End(e)
          /\ End(n)' = nlen
        BY <2>2, <2>3, <2>4, MetaType, NodeType DEF End
    <2>6. \A j \in 1..nlen : Covered(j)'
        <3>1. ASSUME NEW j \in 1..nlen, j <= meta[i].first
              PROVE  Covered(j)'
            <4>1. PICK e \in DOMAIN meta : meta[e].first < j /\ j <= End(e)
                BY <2>2, <3>1, MetaType DEF Covered
            <4>2. e # n
                BY <2>2, <2>4, <3>1, <4>1, MetaType DEF End
            <4> QED
                BY <2>3, <2>4, <2>5, <4>1, <4>2 DEF Covered
        <3>2. ASSUME NEW j \in 1..nlen, ~(j <= meta[i].first)
              PROVE  Covered(j)'
            BY <2>2, <2>3, <2>4, <2>5, <3>2, MetaType DEF Covered
        <3> QED
            BY <3>1, <3>2
    <2>7. Len(meta') = Len(meta)
        <3>1. TypeOK'
            BY TypeStep
        <3> QED
            BY <2>3, <3>1, MetaType DEF TypeOK
    <2>8. Len(meta) = nelem
        BY <2>1 DEF MetaInv, Passes, Collecting
    <2>9. \A e \in DOMAIN meta : End(e)' <= nlen /\ (meta'[e].count > 0 => meta'[e].group \in Name)
        BY <2>2, <2>3, <2>4, <2>5, NodeType DEF MetaInv
    <2>10. \A e, f \in DOMAIN meta : e < f /\ meta'[f].count > 0 => End(e)' <= meta'[f].first
        <3>1. ASSUME NEW e \in DOMAIN meta, NEW f \in DOMAIN meta, e < f, meta'[f].count > 0
              PROVE  End(e)' <= meta'[f].first
            <4>1. ~(f > i)
                BY <2>2, <2>3, <3>1, MetaType DEF NoMeta
            <4>2. e < n /\ e # n
                BY <2>2, <2>4, <3>1, <4>1, MetaType
            <4>3. CASE f = n
                BY <2>2, <2>3, <2>4, <2>5, <4>2, <4>3
            <4>4. CASE f # n
                BY <2>3, <2>4, <2>5, <3>1, <4>2, <4>4 DEF MetaInv
            <4> QED
                BY <4>3, <4>4
        <3> QED
            BY <3>1
    <2>11. \A e \in DOMAIN meta : e >= i + 1 => meta'[e] = NoMeta
        BY <2>2, <2>3, MetaType
    <2>12. i \in Nat /\ i >= 1 /\ k >= 1
        BY TypesAre DEF MetaInv, Types
    <2> QED
        BY <2>1, <2>3, <2>6, <2>7, <2>8, <2>9, <2>10, <2>11, <2>12
           DEF MetaInv, Passes, Collecting, Emitting
<1>7. CASE Collected
    <2>1. /\ pc = "elems" /\ UNCHANGED <<doc, nodes, meta>> /\ i' \in {i, 1} /\ k' \in {k, 1}
          /\ pc' = "out" \/ (pc' = "names" /\ nlen > 0)
        BY <1>7 DEF Collected, Fail, arrays
    <2> QED
        BY <2>1, MetaKept, TypesAre DEF MetaInv, Types, Passes, Collecting, Emitting
<1>8. CASE NameNode \/ NextElement \/ Emit \/ CleanUp
    <2>1. /\ pc \in {"names", "groups", "top", "out"}
          /\ pc' \in {"names", "groups", "top", "out", "crash", "done"}
          /\ pc = "out" => pc' = "done"
          /\ UNCHANGED <<doc, meta>> /\ i' \in {i, 1, i + 1} /\ k' \in {k, 1, k + 1}
        BY <1>8 DEF NameNode, NextElement, Emit, EmitProxies, EmitGroup, Fault, GroupsEmitted,
                    ListGroup, EmitTop, CleanUp
    <2>2. nlen' = nlen
        <3>1. ~PushNode
            BY <2>1 DEF PushNode
        <3> QED
            BY <3>1, NodesGrow
    <2> QED
        BY <2>1, <2>2, MetaKept, TypesAre DEF MetaInv, Types, Passes, Collecting, Emitting
<1>9. CASE UNCHANGED vars
    <2>1. UNCHANGED <<pc, doc, i, k, nodes, meta>>
        BY <1>9 DEF vars, arrays
    <2>2. \A e : End(e)' = End(e)
        BY <2>1 DEF End
    <2>3. \A j : Covered(j)' = Covered(j)
        BY <2>1, <2>2 DEF Covered
    <2> QED
        BY <2>1, <2>2, <2>3 DEF MetaInv
<1> QED
    BY <1>1, <1>2, <1>3, <1>4, <1>5, <1>6, <1>7, <1>8, <1>9 DEF Next, Collect, Ended

-----------------------------------------------------------------------------
(* Capacities, and what later passes find untouched *)

LEMMA SizeStep ==
    ASSUME TypeOK, MetaInv, NameInv, SizeInv, [Next]_vars
    PROVE  SizeInv'
<1>1. nlen \in Nat /\ ncap \in Nat /\ room.nodes \in Nat /\ room.tags \in Nat /\ room \in RoomRecord
    BY NodeType, TypesAre DEF Types, RoomRecord
<1>2. CASE PushNode
    <2>1. NextCap >= ncap + 1 /\ NextCap \in Nat
        BY <1>1, SingboxAssumption DEF NextCap
    <2>2. CASE nodes' = nodes /\ ncap' = ncap
        <3>1. room' \in {room, [room EXCEPT !.nodes = NextCap], [nodes |-> NextCap, tags |-> NextCap]}
            BY <1>2 DEF PushNode, arrays
        <3>2. room'.nodes \in {room.nodes, NextCap} /\ room'.tags \in {room.tags, NextCap}
            BY <1>1, <3>1 DEF RoomRecord
        <3> QED
            BY <1>1, <2>1, <2>2, <3>2 DEF SizeInv
    <2>3. CASE nlen' = nlen + 1
        <3>1. nodes' # nodes
            BY <1>1, <2>3
        <3>2. /\ ncap' = IF nlen = ncap THEN NextCap ELSE ncap
              /\ room' = IF nlen = ncap THEN [nodes |-> NextCap, tags |-> NextCap] ELSE room
            BY <1>2, <3>1 DEF PushNode, arrays
        <3> QED
            BY <1>1, <2>1, <2>3, <3>2 DEF SizeInv
    <2> QED
        BY <1>2, <2>2, <2>3, NodePushed
<1>3. CASE ~PushNode
    <2>1. nlen' = nlen
        BY <1>3, NodesGrow
    <2>2. UNCHANGED <<ncap, room>>
        BY <1>3 DEF Next, Collect, Emit, Ended, vars, arrays, ParseRoot, SkipElement, EnterElement,
                    SkipOutbound, LeaveElement, Collected, NameNode, NextElement, EmitProxies,
                    EmitGroup, Fault, GroupsEmitted, ListGroup, EmitTop, CleanUp
    <2> QED
        BY <2>1, <2>2 DEF SizeInv
<1> QED
    BY <1>2, <1>3

LEMMA StartStep ==
    ASSUME TypeOK, MetaInv, StartInv, [Next]_vars
    PROVE  StartInv'
<1>1. CASE ParseRoot \/ SkipElement \/ EnterElement \/ SkipOutbound \/ LeaveElement \/ Collected
    BY <1>1 DEF ParseRoot, SkipElement, EnterElement, SkipOutbound, LeaveElement, Collected, Fail,
                arrays, StartInv, Collecting
<1>2. CASE PushNode
    <2>1. /\ pc \in Collecting /\ pc' \in {"outbounds", "out"} /\ used' = used /\ yaml' = yaml
        BY <1>2 DEF PushNode, Fail, Collecting
    <2>2. pc' # "out" => \A j \in 1..nlen' : nodes'[j].name = None
        <3>1. ASSUME pc' # "out", NEW j \in 1..nlen'
              PROVE  nodes'[j].name = None
            <4>1. /\ nlen' = nlen + 1 /\ nodes'[nlen + 1].name = None
                  /\ \A h \in 1..nlen : nodes'[h] = nodes[h]
                BY <1>2, <3>1, NodePushed
            <4>2. j = nlen + 1 \/ j \in 1..nlen
                BY <4>1, NodeType
            <4> QED
                BY <2>1, <4>1, <4>2 DEF StartInv
        <3> QED
            BY <3>1
    <2>3. rc' # 0
        <3>1. rc # 0
            BY <2>1 DEF StartInv, Collecting
        <3> QED
            BY <1>2, <3>1 DEF PushNode, Fail
    <2> QED
        BY <2>1, <2>2, <2>3 DEF StartInv, Collecting
<1>3. CASE NameNode \/ NextElement
    BY <1>3 DEF NameNode, NextElement, StartInv, Collecting
<1>4. CASE EmitProxies
    <2>1. /\ pc' = "groups" /\ rc' = rc /\ pc = "names"
          /\ yaml' = [yaml EXCEPT !.proxies = [j \in 1..nlen |-> nodes[j].name]]
        BY <1>4 DEF EmitProxies
    <2>2. yaml'.top = yaml.top
        BY <2>1, YamlType DEF YamlRecord
    <2> QED
        BY <2>1, <2>2 DEF StartInv, Collecting
<1>5. CASE EmitGroup
    <2>1. /\ pc' = pc /\ rc' = rc /\ pc = "groups"
          /\ yaml' = [yaml EXCEPT !.groups = yaml.groups \o ElementGroups]
        BY <1>5, GroupEmitted DEF EmitGroup
    <2>2. yaml'.top = yaml.top
        BY <2>1, YamlType DEF YamlRecord
    <2> QED
        BY <2>1, <2>2 DEF StartInv, Collecting
<1>6. CASE Fault \/ GroupsEmitted \/ ListGroup \/ EmitTop \/ CleanUp
    BY <1>6 DEF Fault, GroupsEmitted, ListGroup, EmitTop, CleanUp, StartInv, Collecting
<1>7. CASE UNCHANGED vars
    BY <1>7 DEF vars, arrays, StartInv
<1> QED
    BY <1>1, <1>2, <1>3, <1>4, <1>5, <1>6, <1>7 DEF Next, Collect, Emit, Ended

-----------------------------------------------------------------------------
(* Names *)

LEMMA NameStep ==
    ASSUME TypeOK, MetaInv, StartInv, NameInv, [Next]_vars
    PROVE  NameInv'
<1>1. ASSUME UNCHANGED <<nodes, used>>, pc' # "names"
      PROVE  NameInv'
    BY <1>1 DEF NameInv
<1>2. used \in Seq(Name) /\ Len(used) \in Nat /\ nlen \in Nat /\ i \in Nat /\ k \in Nat
    BY NodeType, TypesAre DEF Types
<1>3. CASE NameNode
    <2>1. /\ pc = "names" /\ pc' = "names" /\ i' = i /\ k' = k + 1 /\ meta' = meta
          /\ nlen' = nlen
        BY <1>3, NameGiven DEF NameNode
    <2>2. CASE UNCHANGED <<nodes, used>>
        BY <1>2, <2>1, <2>2, MetaType DEF NameInv
    <2>3. ASSUME NEW j \in 1..nlen, NEW name \in Name,
                 j = meta[i].first + k, name \notin Range(used), used' = Append(used, name),
                 nodes'[j].name = name, \A h \in 1..nlen : h # j => nodes'[h] = nodes[h]
          PROVE  NameInv'
        <3>1. /\ Len(used') = Len(used) + 1
              /\ Range(used') = Range(used) \cup {name}
            BY <1>2, <2>3, RangeAppended, AppendProperties
        <3>2. i \in DOMAIN meta /\ meta[i].count > 0 /\ j <= End(i) /\ i >= 1
            BY <1>3, <2>3, NodeInHand DEF NameNode, MetaInv
        <3>3. Len(used) <= meta[i].first + (k - 1)
            BY <2>1, <3>2, <1>2 DEF NameInv
        <3>4. Len(used') <= j
            BY <1>2, <2>3, <3>1, <3>2, <3>3, MetaType
        <3>5. ASSUME NEW e \in DOMAIN meta, e >= i, meta[e].count > 0
              PROVE  Len(used') <= meta[e].first + IF e = i THEN (k + 1) - 1 ELSE 0
            <4>1. CASE e = i
                BY <1>2, <2>3, <3>4, <4>1, MetaType
            <4>2. CASE e # i
                <5>1. End(i) <= meta[e].first
                    BY <1>2, <3>2, <3>5, <4>2, MetaType DEF MetaInv
                <5> QED
                    BY <1>2, <3>1, <3>2, <3>4, <4>2, <5>1, MetaType DEF End
            <4> QED
                BY <4>1, <4>2
        <3>6. \A h \in 1..nlen : nodes'[h].name # None => nodes'[h].name \in Range(used')
            BY <2>3, <3>1 DEF NameInv
        <3>7. \A h, l \in 1..nlen : nodes'[h].name = nodes'[l].name /\ nodes'[h].name # None => h = l
            <4>1. \A h \in 1..nlen : h # j => nodes'[h].name # name
                BY <2>3, SingboxAssumption DEF NameInv
            <4> QED
                BY <2>3, <4>1 DEF NameInv
        <3>8. Len(used') <= nlen
            BY <1>2, <3>1, <3>4
        <3> QED
            BY <2>1, <3>5, <3>6, <3>7, <3>8 DEF NameInv
    <2> QED
        BY <1>3, <2>2, <2>3, NameGiven
<1>4. CASE NextElement
    <2>1. UNCHANGED <<pc, nodes, used, meta>> /\ i' = i + 1 /\ k' = 1
        BY <1>4 DEF NextElement, arrays
    <2>2. ASSUME pc = "names", NEW e \in DOMAIN meta, e >= i + 1, meta[e].count > 0
          PROVE  Len(used) <= meta[e].first + IF e = i + 1 THEN 1 - 1 ELSE 0
        <3>1. e >= i /\ e # i
            BY <1>2, <2>2, MetaType
        <3> QED
            BY <1>2, <2>2, <3>1, MetaType DEF NameInv
    <2> QED
        BY <2>1, <2>2 DEF NameInv
<1>5. CASE PushNode
    <2>1. pc = "outbounds" /\ pc' # "names" /\ used' = used
        BY <1>5 DEF PushNode, Fail
    <2>2. used = << >> /\ \A j \in 1..nlen : nodes[j].name = None
        BY <2>1 DEF StartInv, Collecting
    <2>3. CASE nodes' = nodes
        BY <1>1, <2>1, <2>3
    <2>4. CASE /\ nlen' = nlen + 1 /\ nodes'[nlen + 1].name = None
               /\ \A j \in 1..nlen : nodes'[j] = nodes[j]
        <3>1. \A j \in 1..nlen' : nodes'[j].name = None
            <4>1. \A j \in 1..(nlen + 1) : j = nlen + 1 \/ j \in 1..nlen
                BY <1>2
            <4> QED
                BY <2>2, <2>4, <4>1
        <3>2. Len(used') <= nlen'
            BY <1>2, <2>1, <2>2, <2>4
        <3> QED
            BY <2>1, <3>1, <3>2 DEF NameInv
    <2> QED
        BY <1>5, <2>3, <2>4, NodePushed
<1>6. CASE Collected
    <2>1. pc = "elems" /\ UNCHANGED <<nodes, used, meta>>
        BY <1>6 DEF Collected, arrays
    <2>2. used = << >>
        BY <2>1 DEF StartInv, Collecting
    <2>3. pc' = "names" => i' = 1 /\ k' = 1
        BY <1>6 DEF Collected, Fail
    <2> QED
        BY <2>1, <2>2, <2>3, MetaType DEF NameInv
<1>7. CASE ParseRoot \/ SkipElement \/ EnterElement \/ SkipOutbound \/ LeaveElement \/ Emit \/ CleanUp
    <2>1. UNCHANGED <<nodes, used>> /\ pc' # "names"
        BY <1>7 DEF ParseRoot, Fail, SkipElement, EnterElement, SkipOutbound, LeaveElement, Emit,
                    EmitProxies, EmitGroup, Fault, GroupsEmitted, ListGroup, EmitTop, CleanUp, arrays
    <2> QED
        BY <1>1, <2>1
<1>8. CASE UNCHANGED vars
    BY <1>8 DEF vars, arrays, NameInv
<1> QED
    BY <1>3, <1>4, <1>5, <1>6, <1>7, <1>8 DEF Next, Collect, Ended

-----------------------------------------------------------------------------
(* What is emitted *)

\* What EmitGroup emits lists proxies and DIRECT, under the element's name.
LEMMA GroupSound ==
    ASSUME TypeOK, MetaInv, YamlInv, EmitGroup
    PROVE  /\ Range(yaml'.groups) \subseteq Range(yaml.groups) \cup {SelectGroup, TestGroup}
           /\ Range(yaml.groups) \subseteq Range(yaml'.groups)
           /\ meta[i].group \in GroupNames'
           /\ \A g \in {SelectGroup, TestGroup} : Range(g.members) \subseteq Range(yaml.proxies) \cup {DIRECT}
           /\ yaml'.proxies = yaml.proxies /\ yaml'.top = yaml.top
<1>1. /\ i \in DOMAIN meta /\ Members(i) \in Seq(Name) /\ ElementGroups \in Seq(GroupRecord)
      /\ yaml' = [yaml EXCEPT !.groups = yaml.groups \o ElementGroups]
    BY GroupEmitted
<1>2. /\ yaml'.groups = yaml.groups \o ElementGroups
      /\ yaml'.proxies = yaml.proxies /\ yaml'.top = yaml.top
    BY <1>1, YamlType DEF YamlRecord
<1>3. Range(yaml'.groups) = Range(yaml.groups) \cup Range(ElementGroups)
    <2>1. \A s, t \in Seq(GroupRecord) : Range(s \o t) = Range(s) \cup Range(t)
        BY RangeConcatenation
    <2> QED
        BY <1>1, <1>2, <2>1, YamlType
<1>4. Range(ElementGroups) \subseteq {SelectGroup, TestGroup} /\ SelectGroup \in Range(ElementGroups)
    <2> HIDE DEF SelectGroup, TestGroup
    <2>1. CASE meta[i].bal = None
        <3>1. ElementGroups = <<SelectGroup>>
            BY <2>1 DEF ElementGroups
        <3> QED
            BY <3>1 DEF Range
    <2>2. CASE meta[i].bal # None
        <3>1. ElementGroups = <<SelectGroup>> \o <<TestGroup>>
            BY <2>2 DEF ElementGroups
        <3>2. <<SelectGroup>> \in Seq(GroupRecord) /\ <<TestGroup>> \in Seq(GroupRecord)
            BY <2>2, GroupEmitted
        <3>3. \A s, t \in Seq(GroupRecord) : Range(s \o t) = Range(s) \cup Range(t)
            BY RangeConcatenation
        <3>4. \A x : Range(<<x>>) = {x}
            BY DEF Range
        <3> QED
            BY <3>1, <3>2, <3>3, <3>4
    <2> QED
        BY <2>1, <2>2
<1>5. meta[i].group \in GroupNames'
    <2>1. SelectGroup.name = meta[i].group
        BY DEF SelectGroup, Group
    <2> QED
        BY <1>3, <1>4, <2>1 DEF GroupNames
<1>6. Range(Members(i)) \subseteq Range(yaml.proxies)
    <2>1. pc = "groups" /\ meta[i].first \in Nat /\ meta[i].count \in Nat /\ End(i) <= nlen /\ nlen \in Nat
        BY <1>1, MetaType, NodeType DEF EmitGroup, MetaInv
    <2>2. yaml.proxies = [j \in 1..nlen |-> nodes[j].name]
        BY <2>1 DEF YamlInv, Emitting
    <2>3. ASSUME NEW m \in 1..meta[i].count
          PROVE  nodes[meta[i].first + m].name \in Range(yaml.proxies)
        <3>1. meta[i].first + m \in 1..nlen
            BY <2>1, <2>3 DEF End
        <3> QED
            BY <2>2, <3>1 DEF Range
    <2> QED
        BY <2>3 DEF Members, Range
<1>7. \A g \in {SelectGroup, TestGroup} : Range(g.members) \subseteq Range(Members(i)) \cup {DIRECT}
    <2>1. SelectGroup.members = Append(Members(i), DIRECT) /\ TestGroup.members = Members(i)
        BY DEF SelectGroup, TestGroup, Group
    <2>2. Range(Append(Members(i), DIRECT)) = Range(Members(i)) \cup {DIRECT}
        BY <1>1, FixedNames, RangeAppended
    <2> QED
        BY <2>1, <2>2
<1> QED
    BY <1>2, <1>3, <1>4, <1>5, <1>6, <1>7

LEMMA YamlStep ==
    ASSUME TypeOK, MetaInv, StartInv, NameInv, YamlInv, [Next]_vars
    PROVE  YamlInv'
<1>1. ASSUME pc' \notin Emitting, rc' # 0
      PROVE  YamlInv'
    BY <1>1 DEF YamlInv, Emitting
<1>2. ASSUME UNCHANGED <<nodes, meta, yaml, rc>>, pc' \in Emitting => pc \in Emitting,
             pc' = "groups" => \A e \in DOMAIN meta : e < i' => Grouped(e),
             pc' = "top" => \A e \in DOMAIN meta : Grouped(e)
      PROVE  YamlInv'
    <2>1. GroupNames' = GroupNames
        BY <1>2 DEF GroupNames
    <2>2. \A e : Grouped(e)' = Grouped(e)
        BY <1>2, <2>1 DEF Grouped, End
    <2> QED
        BY <1>2, <2>1, <2>2 DEF YamlInv
<1>3. i \in Nat /\ nlen \in Nat /\ (pc \notin {"out", "done"} => rc # 0)
    BY NodeType, TypesAre DEF Types, StartInv
<1>4. CASE ParseRoot \/ Collect \/ NameNode \/ Fault
    <2>1. CASE PushNode
        BY <1>1, <1>3, <2>1, NodePushed DEF Emitting
    <2>2. CASE ParseRoot
        BY <1>1, <1>3, <2>2 DEF ParseRoot, Fail, Emitting
    <2>3. CASE Collected
        BY <1>1, <1>3, <2>3 DEF Collected, Fail, Emitting
    <2>4. CASE NameNode
        BY <1>1, <1>3, <2>4 DEF NameNode, Emitting
    <2>5. CASE Fault
        BY <1>1, <1>3, <2>5 DEF Fault, Emitting
    <2>6. CASE SkipElement \/ EnterElement \/ SkipOutbound \/ LeaveElement
        BY <1>1, <1>3, <2>6 DEF SkipElement, EnterElement, SkipOutbound, LeaveElement, Emitting
    <2> QED
        BY <1>4, <2>1, <2>2, <2>6, <2>3, <2>4, <2>5 DEF Collect
<1>5. CASE NextElement
    <2>1. UNCHANGED <<pc, nodes, meta, yaml, rc>> /\ i' = i + 1
        BY <1>5 DEF NextElement, arrays
    <2>2. CASE pc = "names"
        BY <1>1, <1>3, <2>1, <2>2 DEF Emitting
    <2>3. CASE pc = "groups"
        <3>1. Grouped(i)
            BY <1>5, <2>3 DEF NextElement, Grouped
        <3>2. \A e \in DOMAIN meta : e < i + 1 => Grouped(e)
            BY <1>3, <2>3, <3>1, MetaType DEF YamlInv
        <3> QED
            BY <1>2, <2>1, <2>3, <3>2
    <2>4. CASE pc = "top"
        BY <1>2, <2>1, <2>4 DEF YamlInv
    <2> QED
        BY <1>5, <2>2, <2>3, <2>4 DEF NextElement
<1>6. CASE EmitProxies
    <2> DEFINE names == [j \in 1..nlen |-> nodes[j].name]
    <2>1. /\ yaml' = [yaml EXCEPT !.proxies = names] /\ pc = "names" /\ pc' = "groups" /\ i' = 1
          /\ UNCHANGED <<nodes, meta, rc>>
        BY <1>6 DEF EmitProxies, arrays
    <2>2. yaml.groups = << >> /\ yaml.top = << >> /\ rc # 0
        BY <1>3, <2>1 DEF StartInv
    <2> HIDE DEF names
    <2>3. yaml'.proxies = names /\ yaml'.groups = << >> /\ yaml'.top = << >>
        BY <2>1, <2>2, YamlType DEF YamlRecord
    <2>4. Range(yaml'.groups) = {} /\ Range(yaml'.top) = {}
        BY <2>3 DEF Range
    <2>5. yaml'.proxies = [j \in 1..nlen' |-> nodes'[j].name]
        BY <2>1, <2>3 DEF names
    <2>6. \A e \in DOMAIN meta : ~(e < 1)
        BY MetaType
    <2> QED
        BY <2>1, <2>2, <2>4, <2>5, <2>6 DEF YamlInv
<1>7. CASE EmitGroup
    <2>1. /\ pc = "groups" /\ pc' = pc /\ i' = i + 1 /\ UNCHANGED <<nodes, meta, rc>>
          /\ None \notin Range(Members(i))
        BY <1>7 DEF EmitGroup, arrays
    <2>2. /\ Range(yaml'.groups) \subseteq Range(yaml.groups) \cup {SelectGroup, TestGroup}
          /\ Range(yaml.groups) \subseteq Range(yaml'.groups)
          /\ meta[i].group \in GroupNames'
          /\ \A g \in {SelectGroup, TestGroup} : Range(g.members) \subseteq Range(yaml.proxies) \cup {DIRECT}
          /\ yaml'.proxies = yaml.proxies /\ yaml'.top = yaml.top
        BY <1>7, GroupSound
    <2>3. GroupNames \subseteq GroupNames'
        BY <2>2 DEF GroupNames
    <2>4. /\ yaml'.proxies = [j \in 1..nlen' |-> nodes'[j].name]
          /\ Range(yaml'.top) \subseteq GroupNames'
        BY <2>1, <2>2, <2>3 DEF YamlInv, Emitting
    <2>5. ASSUME NEW g \in Range(yaml'.groups)
          PROVE  Range(g.members) \subseteq Range(yaml'.proxies) \cup GroupNames' \cup {DIRECT}
        <3>1. CASE g \in Range(yaml.groups)
            BY <2>1, <2>2, <2>3, <3>1 DEF YamlInv, Emitting
        <3>2. CASE g \in {SelectGroup, TestGroup}
            BY <2>2, <3>2
        <3> QED
            BY <2>2, <2>5, <3>1, <3>2
    <2>6. ASSUME NEW e \in DOMAIN meta, e < i + 1
          PROVE  Grouped(e)'
        <3>1. \A j \in 1..nlen : meta[i].first < j /\ j <= End(i) => nodes[j].name # None
            <4>1. ASSUME NEW j \in 1..nlen, meta[i].first < j, j <= End(i)
                  PROVE  nodes[j].name # None
                <5>1. i \in DOMAIN meta
                    BY <1>7, GroupEmitted
                <5>2. j - meta[i].first \in 1..meta[i].count /\ meta[i].first + (j - meta[i].first) = j
                    BY <1>3, <4>1, <5>1, MetaType DEF End
                <5>3. Members(i)[j - meta[i].first] = nodes[j].name
                    BY <5>2 DEF Members
                <5> QED
                    BY <2>1, <5>2, <5>3 DEF Range, Members
            <4> QED
                BY <4>1
        <3>2. CASE e = i
            BY <2>1, <2>2, <3>1, <3>2 DEF Grouped, End
        <3>3. CASE e # i
            <4>1. Grouped(e)
                BY <1>3, <2>1, <2>6, <3>3, MetaType DEF YamlInv
            <4> QED
                BY <2>1, <2>3, <4>1 DEF Grouped, End
        <3> QED
            BY <3>2, <3>3
    <2>7. rc' # 0 /\ pc' = "groups"
        BY <1>3, <2>1
    <2> QED
        BY <2>1, <2>4, <2>5, <2>6, <2>7 DEF YamlInv
<1>8. CASE GroupsEmitted
    <2>1. /\ pc = "groups" /\ pc' = "top" /\ i > nelem /\ UNCHANGED <<nodes, meta, yaml, rc>>
        BY <1>8 DEF GroupsEmitted, arrays
    <2>2. \A e \in DOMAIN meta : e < i
        BY <1>3, <2>1, MetaType, DocType DEF MetaInv, Passes, Emitting
    <2> QED
        BY <1>2, <2>1, <2>2 DEF YamlInv, Emitting
<1>9. CASE ListGroup
    <2>1. /\ yaml' = [yaml EXCEPT !.top = Append(yaml.top, meta[i].group)]
          /\ pc = "top" /\ pc' = pc /\ i <= nelem /\ meta[i].count > 0 /\ UNCHANGED <<nodes, meta, rc>>
        BY <1>9 DEF ListGroup, IsListed, arrays
    <2>2. i \in DOMAIN meta
        BY <1>3, <2>1, MetaType, DocType DEF MetaInv, Passes, Emitting
    <2>3. meta[i].group \in GroupNames /\ meta[i].group \in Name
        BY <2>1, <2>2 DEF YamlInv, Grouped, MetaInv
    <2>4. /\ yaml'.proxies = yaml.proxies /\ yaml'.groups = yaml.groups
          /\ yaml'.top = Append(yaml.top, meta[i].group)
        BY <2>1, YamlType DEF YamlRecord
    <2>5. Range(yaml'.top) = Range(yaml.top) \cup {meta[i].group}
        BY <2>3, <2>4, YamlType, RangeAppended
    <2>6. GroupNames' = GroupNames
        BY <2>4 DEF GroupNames
    <2>7. \A e : Grouped(e)' = Grouped(e)
        BY <2>1, <2>6 DEF Grouped, End
    <2>8. rc' # 0
        BY <1>3, <2>1
    <2> QED
        BY <2>1, <2>3, <2>4, <2>5, <2>6, <2>7, <2>8 DEF YamlInv, Emitting
<1>10. CASE EmitTop
    <2>1. /\ yaml' = [yaml EXCEPT !.groups = Append(yaml.groups, TopGroup)]
          /\ pc = "top" /\ pc' = "out" /\ UNCHANGED <<nodes, meta>>
        BY <1>10 DEF EmitTop, TopGroup, arrays
    <2>2. /\ yaml'.proxies = yaml.proxies /\ yaml'.top = yaml.top
          /\ yaml'.groups = Append(yaml.groups, TopGroup)
        BY <2>1, YamlType DEF YamlRecord
    <2>3. Range(yaml'.groups) = Range(yaml.groups) \cup {TopGroup}
        BY <2>2, YamlType, TopType, RangeAppended
    <2>4. GroupNames \subseteq GroupNames'
        BY <2>3 DEF GroupNames
    <2>5. Range(TopGroup.members) = Range(yaml.top) \cup {DIRECT}
        BY YamlType, FixedNames, RangeAppended DEF TopGroup, Group
    <2>6. \A g \in Range(yaml'.groups) :
             Range(g.members) \subseteq Range(yaml'.proxies) \cup GroupNames' \cup {DIRECT}
        BY <2>1, <2>2, <2>3, <2>4, <2>5 DEF YamlInv, Emitting
    <2>7. ASSUME NEW j \in 1..nlen
          PROVE  nodes[j].name # None
        <3>1. PICK e \in DOMAIN meta : meta[e].first < j /\ j <= End(e)
            BY <2>1 DEF MetaInv, Passes, Emitting, Covered
        <3>2. meta[e].count > 0
            BY <1>3, <3>1, MetaType DEF End
        <3> QED
            BY <2>1, <3>1, <3>2 DEF YamlInv, Grouped
    <2> QED
        BY <2>1, <2>2, <2>4, <2>6, <2>7 DEF YamlInv, Emitting
<1>11. CASE CleanUp
    <2>1. pc' = "done" /\ UNCHANGED <<nodes, meta, yaml, rc>>
        BY <1>11 DEF CleanUp, arrays
    <2> QED
        BY <1>2, <2>1 DEF Emitting
<1>12. CASE UNCHANGED vars
    BY <1>2, <1>12 DEF vars, arrays, YamlInv
<1> QED
    BY <1>4, <1>5, <1>6, <1>7, <1>8, <1>9, <1>10, <1>11, <1>12 DEF Next, Emit, Ended

-----------------------------------------------------------------------------
(* The heap.  Of the root and the sni strings `out' frees those there are; it *)
(* owes the rest to what the arrays say.                                     *)

Maybe == {Obj("root", 0)} \cup Objs("sni", nlen)

OwedYaml  == IF yaml.proxies = << >> THEN {} ELSE {Obj("sb", 0)}
OwedNames == {Obj("name", j) : j \in {n \in 1..nlen : nodes[n].name # None}}
OwedNodes == Objs("server", nlen) \cup Objs("tag", nlen)
OwedRoom  == (IF room.nodes > 0 THEN {Obj("nodes", 0)} ELSE {})
             \cup (IF room.tags > 0 THEN {Obj("tags", 0)} ELSE {})
OwedUsed  == Objs("used name", Len(used)) \cup (IF used = << >> THEN {} ELSE {Obj("used", 0)})

Owed == OwedYaml \cup OwedNames \cup OwedNodes \cup OwedRoom \cup OwedUsed \cup FreedMeta

LEMMA FreedIs == Freed = (heap \cap Maybe) \cup Owed
<1>1. heap \cap Maybe = (heap \cap {Obj("root", 0)}) \cup (Objs("sni", nlen) \cap heap)
    BY DEF Maybe
<1> HIDE DEF Maybe
<1> QED
    BY <1>1 DEF Freed, Owed, OwedYaml, OwedNames, OwedNodes, OwedRoom, OwedUsed

LEMMA ObjsNext ==
    ASSUME NEW kind, NEW n \in Nat
    PROVE  Objs(kind, n + 1) = Objs(kind, n) \cup {Obj(kind, n + 1)}
<1>1. 1..(n + 1) = (1..n) \cup {n + 1}
    OBVIOUS
<1> QED
    BY <1>1 DEF Objs

LEMMA ObjsKind ==
    ASSUME NEW kind, NEW n, NEW o \in Objs(kind, n)
    PROVE  o[1] = kind
<1>1. PICK m \in 1..n : o = Obj(kind, m)
    BY DEF Objs
<1> QED
    BY <1>1 DEF Obj

\* The result and the dropped strings are nothing `out' frees.
LEMMA ResultKept == (Result \cup Lost) \cap Freed = {}
<1>1. \A o \in Result \cup Lost : o[1] \in {"out_yaml", "dropped sni"}
    <2>1. \A o \in Result : o[1] = "out_yaml"
        BY DEF Result, Obj
    <2>2. ASSUME NEW o \in Lost
          PROVE  o[1] = "dropped sni"
        <3>1. PICK n \in Nat : o = Obj("dropped sni", n)
            BY DEF Lost
        <3> QED
            BY <3>1 DEF Obj
    <2> QED
        BY <2>1, <2>2
<1>2. \A o \in Maybe : o[1] \in {"root", "sni"}
    BY DEF Maybe, Objs, Obj
<1>3. \A o \in OwedYaml \cup OwedRoom : o[1] \in {"sb", "nodes", "tags"}
    BY DEF OwedYaml, OwedRoom, Obj
<1>4. \A o \in OwedNames \cup OwedNodes : o[1] \in {"name", "server", "tag"}
    BY DEF OwedNames, OwedNodes, Objs, Obj
<1>5. \A o \in OwedUsed \cup FreedMeta : o[1] \in {"used name", "used", "group", "balancer"}
    <2>1. \A o \in OwedUsed : o[1] \in {"used name", "used"}
        <3>1. \A o \in Objs("used name", Len(used)) : o[1] = "used name"
        BY ObjsKind
    <3>2. OwedUsed \subseteq Objs("used name", Len(used)) \cup {Obj("used", 0)}
        BY DEF OwedUsed
        <3>3. Obj("used", 0)[1] = "used"
            BY DEF Obj
        <3> QED
            BY <3>1, <3>2, <3>3
    <2>2. \A o \in FreedMeta : o[1] \in {"group", "balancer"}
        BY DEF FreedMeta, Obj
    <2> QED
        BY <2>1, <2>2
<1> QED
    BY <1>1, <1>2, <1>3, <1>4, <1>5, FreedIs DEF Owed

\* A step that allocates what `out' will free, and what it will find or not.
LEMMA HeapGrows ==
    ASSUME HeapInv, pc \notin {"done", "crash"}, pc' # "done",
           NEW new, Owed' = Owed \cup new,
           NEW maybe, maybe \subseteq Maybe', Maybe \subseteq Maybe',
           NEW lost, lost \subseteq Lost,
           NEW out, Result' = Result \cup out,
           heap' = heap \cup new \cup maybe \cup lost \cup out
    PROVE  HeapInv'
<1>1. heap = (heap \cap Maybe) \cup Owed \cup Result \cup (heap \cap Lost)
    BY FreedIs DEF HeapInv
<1>2. Freed' = (heap' \cap Maybe') \cup Owed'
    <2>1. (Freed = (heap \cap Maybe) \cup Owed)'
        BY FreedIs, PTL
    <2> QED
        BY <2>1
<1>3. Lost' = Lost
    BY DEF Lost
<1> HIDE DEF Maybe, Owed, Result, Lost, Freed
<1>4. heap' = Freed' \cup Result' \cup (heap' \cap Lost')
    BY <1>1, <1>2, <1>3
<1> QED
    BY <1>4 DEF HeapInv

\* A step that allocates nothing.
LEMMA HeapKept ==
    ASSUME HeapInv, pc \notin {"done", "crash"}, pc' # "done",
           UNCHANGED <<nodes, room, meta, used, rc, heap>>, yaml'.proxies = yaml.proxies
    PROVE  HeapInv'
<1>1. /\ OwedYaml' = OwedYaml /\ OwedNames' = OwedNames /\ OwedNodes' = OwedNodes
      /\ OwedRoom' = OwedRoom /\ OwedUsed' = OwedUsed /\ FreedMeta' = FreedMeta
      /\ Maybe' = Maybe /\ Result' = Result
    BY DEF OwedYaml, OwedNames, OwedNodes, OwedRoom, OwedUsed, FreedMeta, Maybe, Objs, Result
<1>2. Owed' = Owed \cup {} /\ Result' = Result \cup {} /\ heap' = heap \cup {} \cup {} \cup {} \cup {}
    BY <1>1 DEF Owed
<1> QED
    BY <1>1, <1>2, HeapGrows

LEMMA HeapStep ==
    ASSUME TypeOK, MetaInv, SizeInv, StartInv, NameInv, YamlInv, HeapInv, [Next]_vars
    PROVE  HeapInv'
<1>1. CASE ParseRoot
    <2>1. /\ pc = "start" /\ heap = {} /\ heap' \subseteq {Obj("root", 0)} /\ pc' # "done"
          /\ rc # 0 /\ rc' # 0 /\ UNCHANGED <<nodes, room, used, yaml>>
          /\ meta = << >>
          /\ meta' = meta \/ meta' = [e \in 1..nelem |-> NoMeta]
        BY <1>1 DEF ParseRoot, Fail, StartInv, arrays
    <2>2. FreedMeta = {} /\ FreedMeta' = {}
        <3>1. FreedMeta = {}
            BY <2>1 DEF FreedMeta
        <3>2. FreedMeta' = {}
            BY <2>1 DEF FreedMeta, NoMeta
        <3> QED
            BY <3>1, <3>2
    <2>3. Owed' = Owed \cup {}
        BY <2>1, <2>2 DEF Owed, OwedYaml, OwedNames, OwedNodes, OwedRoom, OwedUsed, Objs
    <2>4. Result' = Result \cup {} /\ Maybe' = Maybe /\ heap' \subseteq Maybe
        BY <2>1 DEF Result, Maybe, Objs
    <2>5. heap' = heap \cup {} \cup heap' \cup {} \cup {}
        BY <2>1
    <2> QED
        BY <2>1, <2>3, <2>4, <2>5, HeapGrows
<1>2. CASE SkipElement \/ SkipOutbound \/ Collected \/ NextElement
    <2>1. /\ pc \notin {"done", "crash"} /\ pc' # "done"
          /\ UNCHANGED <<nodes, room, meta, used, heap, yaml>> /\ (rc' = rc \/ rc' = 1)
        BY <1>2 DEF SkipElement, SkipOutbound, Collected, NextElement, Fail, arrays
    <2>2. rc # 0
        BY <1>2 DEF SkipElement, SkipOutbound, Collected, NextElement, StartInv
    <2>3. rc' = rc
        BY <2>1, <2>2, TypesAre DEF Types
    <2> QED
        BY <2>1, <2>3, HeapKept
<1>3. CASE EnterElement
    <2>1. /\ pc = "elems" /\ pc' = "outbounds" /\ UNCHANGED <<nodes, room, used, yaml, rc>>
          /\ heap' = heap \cup {Obj("group", i)} /\ i \in 1..nelem
          /\ meta' = [meta EXCEPT ![i].group = doc.elems[i].group, ![i].first = nlen]
        BY <1>3, TypesAre, DocType DEF EnterElement, Types, MetaInv, arrays
    <2>2. i \in DOMAIN meta /\ doc.elems[i].group # None
        BY <2>1, DocType, MetaType, SingboxAssumption DEF MetaInv, Passes, Collecting
    <2>3. /\ DOMAIN meta' = DOMAIN meta
          /\ \A e \in DOMAIN meta : e # i => meta'[e] = meta[e]
          /\ meta'[i].group = doc.elems[i].group /\ meta'[i].bal = meta[i].bal
        <3> DEFINE m == [meta[i] EXCEPT !.group = doc.elems[i].group, !.first = nlen]
        <3>1. meta' = [meta EXCEPT ![i] = m]
            BY <2>1, <2>2, MetaType
        <3>2. m.group = doc.elems[i].group /\ m.bal = meta[i].bal
            BY <2>2, MetaType DEF MetaRecord
        <3> HIDE DEF m
        <3> QED
            BY <2>2, <3>1, <3>2, MetaType
    <2>4. FreedMeta' = FreedMeta \cup {Obj("group", i)}
        <3>1. {n \in DOMAIN meta' : meta'[n].group # None} = {n \in DOMAIN meta : meta[n].group # None} \cup {i}
            BY <2>2, <2>3
        <3>2. {n \in DOMAIN meta' : meta'[n].bal # None} = {n \in DOMAIN meta : meta[n].bal # None}
            BY <2>2, <2>3
        <3> QED
            BY <3>1, <3>2 DEF FreedMeta
    <2>5. Owed' = Owed \cup {Obj("group", i)}
        BY <2>1, <2>4 DEF Owed, OwedYaml, OwedNames, OwedNodes, OwedRoom, OwedUsed, Objs
    <2>6. Maybe' = Maybe /\ Result' = Result \cup {}
        BY <2>1 DEF Maybe, Result, Objs
    <2>7. heap' = heap \cup {Obj("group", i)} \cup {} \cup {} \cup {}
        BY <2>1
    <2> QED
        BY <2>1, <2>5, <2>6, <2>7, HeapGrows
<1>4. CASE LeaveElement
    <2> DEFINE bal == doc.elems[i].bal
               new == IF bal = None THEN {} ELSE {Obj("balancer", i)}
    <2>1. /\ pc = "outbounds" /\ pc' = "elems" /\ UNCHANGED <<nodes, room, used, yaml, rc>>
          /\ heap' = heap \cup new
          /\ meta' = [meta EXCEPT ![i].count = nlen - meta[i].first, ![i].bal = bal]
        BY <1>4 DEF LeaveElement, arrays
    <2>2. i \in DOMAIN meta /\ meta[i].bal = None
        BY <2>1 DEF MetaInv
    <2>3. /\ DOMAIN meta' = DOMAIN meta
          /\ \A e \in DOMAIN meta : e # i => meta'[e] = meta[e]
          /\ meta'[i].group = meta[i].group /\ meta'[i].bal = bal
        <3> DEFINE m == [meta[i] EXCEPT !.count = nlen - meta[i].first, !.bal = bal]
        <3>1. meta' = [meta EXCEPT ![i] = m]
            BY <2>1, <2>2, MetaType
        <3>2. m.group = meta[i].group /\ m.bal = bal
            BY <2>2, MetaType DEF MetaRecord
        <3> HIDE DEF m, bal
        <3> QED
            BY <2>2, <3>1, <3>2, MetaType
    <2> HIDE DEF bal
    <2>4. FreedMeta' = FreedMeta \cup new
        <3>1. {n \in DOMAIN meta' : meta'[n].group # None} = {n \in DOMAIN meta : meta[n].group # None}
            BY <2>2, <2>3
        <3>2. {n \in DOMAIN meta' : meta'[n].bal # None}
                = {n \in DOMAIN meta : meta[n].bal # None} \cup IF bal = None THEN {} ELSE {i}
            BY <2>2, <2>3
        <3> QED
            BY <3>1, <3>2 DEF FreedMeta
    <2> HIDE DEF new
    <2>5. Owed' = Owed \cup new
        BY <2>1, <2>4 DEF Owed, OwedYaml, OwedNames, OwedNodes, OwedRoom, OwedUsed, Objs
    <2>6. Maybe' = Maybe /\ Result' = Result \cup {}
        BY <2>1 DEF Maybe, Result, Objs
    <2>7. heap' = heap \cup new \cup {} \cup {} \cup {}
        BY <2>1
    <2> QED
        BY <2>1, <2>5, <2>6, <2>7, HeapGrows
<1>5. CASE PushNode
    <2> DEFINE ob == Outbounds[k]
    <2>1. /\ pc = "outbounds" /\ pc' # "done" /\ rc # 0 /\ UNCHANGED <<meta, used, yaml>>
          /\ nlen \in Nat
        BY <1>5, NodeType DEF PushNode, Fail, StartInv, Collecting
    <2>2. FreedMeta' = FreedMeta /\ OwedYaml' = OwedYaml /\ OwedUsed' = OwedUsed
        BY <2>1 DEF FreedMeta, OwedYaml, OwedUsed, Objs
    <2>3. NextCap \in Nat /\ NextCap > 0 /\ room \in RoomRecord
        BY SingboxAssumption, TypesAre DEF NextCap, Types
    <2>4. Dropped(ob, nlen + 1) \subseteq Lost
        <3>1. Obj("dropped sni", nlen + 1) \in Lost
            <4>1. \A n \in Nat : Obj("dropped sni", n) \in Lost
                BY Zenon DEF Lost
            <4>2. nlen + 1 \in Nat
                BY NodeType
            <4> QED
                BY <4>1, <4>2, Zenon
        <3>2. Dropped(ob, nlen + 1) \subseteq {Obj("dropped sni", nlen + 1)}
            BY DEF Dropped
        <3> QED
            BY <3>1, <3>2
    <2>5. CASE /\ nodes' = nodes /\ rc' = 1 /\ room' = room
               /\ heap' = heap \cup Dropped(ob, nlen + 1)
        <3>1. /\ Owed' = Owed \cup {} /\ Result' = Result \cup {} /\ Maybe' = Maybe
              /\ heap' = heap \cup {} \cup {} \cup Dropped(ob, nlen + 1) \cup {}
            BY <2>1, <2>2, <2>5 DEF Owed, OwedNames, OwedNodes, OwedRoom, Result, Maybe, Objs
        <3> QED
            BY <2>1, <2>4, <3>1, HeapGrows
    <2>6. CASE /\ nodes' = nodes /\ rc' = 1 /\ room' = [room EXCEPT !.nodes = NextCap]
               /\ heap' = heap \cup Dropped(ob, nlen + 1) \cup {Obj("nodes", 0)}
        <3>1. room'.nodes > 0 /\ room'.tags = room.tags
            BY <2>3, <2>6 DEF RoomRecord
        <3>2. OwedRoom' = OwedRoom \cup {Obj("nodes", 0)}
            BY <3>1 DEF OwedRoom
        <3>3. OwedNames' = OwedNames /\ OwedNodes' = OwedNodes /\ Maybe' = Maybe /\ Result' = Result \cup {}
            BY <2>1, <2>6 DEF OwedNames, OwedNodes, Maybe, Objs, Result
        <3>4. Owed' = Owed \cup {Obj("nodes", 0)}
            BY <2>2, <3>2, <3>3 DEF Owed
        <3>5. heap' = heap \cup {Obj("nodes", 0)} \cup {} \cup Dropped(ob, nlen + 1) \cup {}
            BY <2>6
        <3> QED
            BY <2>1, <2>4, <3>3, <3>4, <3>5, HeapGrows
    <2>7. CASE /\ nodes' = Append(nodes, [name |-> None, tag |-> ob.tag]) /\ rc' = rc /\ pc' = pc
               /\ room' = IF nlen = ncap THEN [nodes |-> NextCap, tags |-> NextCap] ELSE room
               /\ heap' = heap \cup Parsed(ob, nlen + 1) \cup Dropped(ob, nlen + 1)
                               \cup {Obj("tag", nlen + 1), Obj("nodes", 0), Obj("tags", 0)}
        <3> DEFINE new == {Obj("server", nlen + 1), Obj("tag", nlen + 1), Obj("nodes", 0), Obj("tags", 0)}
                   maybe == IF ob.snis > 0 THEN {Obj("sni", nlen + 1)} ELSE {}
        <3>1. /\ nlen' = nlen + 1 /\ nodes'[nlen + 1].name = None
              /\ \A j \in 1..nlen : nodes'[j] = nodes[j]
            BY <1>5, <2>1, <2>7, NodePushed
        <3>2. room'.nodes > 0 /\ room'.tags > 0
            <4>1. CASE nlen = ncap
                BY <2>3, <2>7, <4>1
            <4>2. CASE nlen # ncap
                BY <2>1, <2>7, <4>2, TypesAre DEF SizeInv, Types, RoomRecord
            <4> QED
                BY <4>1, <4>2
        <3>3. OwedRoom' = OwedRoom \cup {Obj("nodes", 0), Obj("tags", 0)}
            BY <3>2 DEF OwedRoom
        <3>4. /\ Objs("server", nlen)' = Objs("server", nlen) \cup {Obj("server", nlen + 1)}
              /\ Objs("tag", nlen)' = Objs("tag", nlen) \cup {Obj("tag", nlen + 1)}
              /\ Objs("sni", nlen)' = Objs("sni", nlen) \cup {Obj("sni", nlen + 1)}
            BY <2>1, <3>1, ObjsNext DEF Objs
        <3>5. OwedNodes' = OwedNodes \cup {Obj("server", nlen + 1), Obj("tag", nlen + 1)}
            BY <3>4 DEF OwedNodes
        <3>6. OwedNames' = OwedNames
            <4>1. {n \in 1..(nlen + 1) : nodes'[n].name # None} = {n \in 1..nlen : nodes[n].name # None}
                BY <2>1, <3>1
            <4> QED
                BY <3>1, <4>1 DEF OwedNames
        <3>7. Owed' = Owed \cup new
            BY <2>2, <3>3, <3>5, <3>6 DEF Owed
        <3>8. maybe \subseteq Maybe' /\ Maybe \subseteq Maybe'
            BY <3>4 DEF Maybe
        <3>9. Result' = Result \cup {}
            BY <2>7 DEF Result
        <3>10. heap' = heap \cup new \cup maybe \cup Dropped(ob, nlen + 1) \cup {}
            <4>1. Parsed(ob, nlen + 1) = {Obj("server", nlen + 1)} \cup maybe
                BY DEF Parsed
            <4> HIDE DEF maybe
            <4> QED
                BY <2>7, <4>1
        <3> HIDE DEF new, maybe
        <3> QED
            BY <2>1, <2>4, <3>7, <3>8, <3>9, <3>10, HeapGrows
    <2> QED
        BY <1>5, <2>5, <2>6, <2>7 DEF PushNode, Fail, arrays
<1>6. CASE NameNode
    <2>1. /\ pc = "names" /\ pc' = "names" /\ UNCHANGED <<room, meta, yaml, rc>> /\ nlen' = nlen
        BY <1>6, NameGiven DEF NameNode
    <2>2. CASE UNCHANGED <<nodes, used, heap>>
        BY <2>1, <2>2, HeapKept
    <2>3. ASSUME NEW j \in 1..nlen, NEW name \in Name,
                 used' = Append(used, name), nodes'[j].name = name,
                 \A h \in 1..nlen : h # j => nodes'[h] = nodes[h],
                 heap' = heap \cup {Obj("name", j), Obj("used", 0), Obj("used name", Len(used) + 1)}
          PROVE  HeapInv'
        <3> DEFINE new == {Obj("name", j), Obj("used", 0), Obj("used name", Len(used) + 1)}
        <3>1. Len(used) \in Nat /\ Len(used') = Len(used) + 1 /\ used' # << >>
            <4>1. used \in Seq(Name)
                BY TypesAre DEF Types
            <4>2. Len(used) \in Nat /\ Len(Append(used, name)) = Len(used) + 1 /\ Append(used, name) # << >>
                BY <4>1, AppendProperties
            <4> QED
                BY <2>3, <4>2
        <3>2. Objs("used name", Len(used))' = Objs("used name", Len(used)) \cup {Obj("used name", Len(used) + 1)}
            BY <3>1, ObjsNext DEF Objs
        <3>3. OwedUsed' \cup {Obj("used", 0)} = OwedUsed'
              /\ OwedUsed' = OwedUsed \cup {Obj("used name", Len(used) + 1), Obj("used", 0)}
            BY <3>1, <3>2 DEF OwedUsed
        <3>4. OwedNames' = OwedNames \cup {Obj("name", j)}
            <4>1. name # None
                BY SingboxAssumption
            <4>2. {n \in 1..nlen : nodes'[n].name # None} = {n \in 1..nlen : nodes[n].name # None} \cup {j}
                BY <2>3, <4>1
            <4> QED
                BY <2>1, <4>2 DEF OwedNames
        <3>5. OwedYaml' = OwedYaml /\ OwedRoom' = OwedRoom /\ FreedMeta' = FreedMeta /\ OwedNodes' = OwedNodes
            BY <2>1 DEF OwedYaml, OwedRoom, FreedMeta, OwedNodes, Objs
        <3>6. Owed' = Owed \cup new
            BY <3>3, <3>4, <3>5 DEF Owed
        <3>7. Maybe' = Maybe /\ Result' = Result \cup {}
            BY <2>1 DEF Maybe, Result, Objs
        <3>8. heap' = heap \cup new \cup {} \cup {} \cup {}
            BY <2>3
        <3> HIDE DEF new
        <3> QED
            BY <2>1, <3>6, <3>7, <3>8, HeapGrows
    <2> QED
        BY <1>6, <2>2, <2>3, NameGiven
<1>7. CASE EmitProxies
    <2> DEFINE names == [j \in 1..nlen |-> nodes[j].name]
    <2>1. /\ pc = "names" /\ pc' = "groups" /\ UNCHANGED <<nodes, room, meta, used, rc>>
          /\ yaml' = [yaml EXCEPT !.proxies = names] /\ heap' = heap \cup {Obj("sb", 0)}
        BY <1>7 DEF EmitProxies, arrays
    <2>2. yaml.proxies = << >> /\ nlen > 0 /\ nlen \in Nat
        BY <2>1, NodeType DEF StartInv, MetaInv
    <2>3. names \in Seq(Name \cup {None}) /\ names # << >>
        BY <2>2, NodeType, IsASeq
    <2> HIDE DEF names
    <2>4. yaml'.proxies = names
        BY <2>1, YamlType DEF YamlRecord
    <2>5. OwedYaml = {} /\ OwedYaml' = {Obj("sb", 0)}
        BY <2>2, <2>3, <2>4 DEF OwedYaml
    <2>6. /\ OwedNames' = OwedNames /\ OwedRoom' = OwedRoom /\ FreedMeta' = FreedMeta
          /\ OwedNodes' = OwedNodes /\ OwedUsed' = OwedUsed
        BY <2>1 DEF OwedNames, OwedRoom, FreedMeta, OwedNodes, OwedUsed, Objs
    <2>7. Owed' = Owed \cup {Obj("sb", 0)}
        BY <2>5, <2>6 DEF Owed
    <2>8. Maybe' = Maybe /\ Result' = Result \cup {}
        BY <2>1 DEF Maybe, Result, Objs
    <2>9. heap' = heap \cup {Obj("sb", 0)} \cup {} \cup {} \cup {}
        BY <2>1
    <2> QED
        BY <2>1, <2>7, <2>8, <2>9, HeapGrows
<1>8. CASE EmitGroup
    <2>1. /\ pc = "groups" /\ pc' = pc /\ UNCHANGED <<nodes, room, meta, used, rc, heap>>
        BY <1>8 DEF EmitGroup, arrays
    <2>2. yaml'.proxies = yaml.proxies
        BY <1>8, GroupSound
    <2> QED
        BY <2>1, <2>2, HeapKept
<1>9. CASE GroupsEmitted
    <2>1. /\ pc = "groups" /\ pc' = "top" /\ UNCHANGED <<nodes, room, meta, used, rc, heap, yaml>>
        BY <1>9 DEF GroupsEmitted, arrays
    <2> QED
        BY <2>1, HeapKept
<1>10. CASE ListGroup
    <2>1. /\ pc = "top" /\ pc' = "top" /\ UNCHANGED <<nodes, room, meta, used, rc, heap>>
          /\ yaml' = [yaml EXCEPT !.top = Append(yaml.top, meta[i].group)]
        BY <1>10 DEF ListGroup, arrays
    <2>2. yaml'.proxies = yaml.proxies
        BY <2>1, YamlType DEF YamlRecord
    <2> QED
        BY <2>1, <2>2, HeapKept
<1>11. CASE EmitTop
    <2>1. /\ pc = "top" /\ pc' = "out" /\ UNCHANGED <<nodes, room, meta, used>> /\ rc' = 0 /\ rc # 0
          /\ yaml' = [yaml EXCEPT !.groups = Append(yaml.groups, TopGroup)]
          /\ heap' = heap \cup {Obj("out_yaml", 0)}
        BY <1>11 DEF EmitTop, TopGroup, StartInv, arrays
    <2>2. yaml'.proxies = yaml.proxies
        BY <2>1, YamlType DEF YamlRecord
    <2>3. /\ OwedYaml' = OwedYaml /\ OwedNames' = OwedNames /\ OwedNodes' = OwedNodes
          /\ OwedRoom' = OwedRoom /\ OwedUsed' = OwedUsed /\ FreedMeta' = FreedMeta /\ Maybe' = Maybe
        BY <2>1, <2>2 DEF OwedYaml, OwedNames, OwedNodes, OwedRoom, OwedUsed, FreedMeta, Maybe, Objs
    <2>4. Result' = Result \cup {Obj("out_yaml", 0)}
        BY <2>1 DEF Result
    <2>5. /\ Owed' = Owed \cup {}
          /\ heap' = heap \cup {} \cup {} \cup {} \cup {Obj("out_yaml", 0)}
        BY <2>1, <2>3 DEF Owed
    <2> QED
        BY <2>1, <2>3, <2>4, <2>5, HeapGrows
<1>12. CASE Fault
    BY <1>12 DEF Fault, HeapInv
<1>13. CASE CleanUp
    <2>1. pc = "out" /\ pc' = "done" /\ heap' = heap \ Freed /\ rc' = rc
        BY <1>13 DEF CleanUp
    <2>2. heap = Freed \cup Result \cup (heap \cap Lost) /\ Result' = Result /\ Lost' = Lost
        BY <2>1 DEF HeapInv, Result, Lost
    <2>3. heap' = Result \cup (heap' \cap Lost)
        BY <2>1, <2>2, ResultKept
    <2> QED
        BY <2>1, <2>2, <2>3 DEF HeapInv
<1>14. CASE UNCHANGED vars
    <2>1. UNCHANGED <<pc, nodes, room, meta, used, rc, heap, yaml>>
        BY <1>14 DEF vars, arrays
    <2>2. Freed' = Freed
        BY <2>1 DEF Freed, FreedMeta, Objs
    <2>3. Result' = Result /\ Lost' = Lost
        BY <2>1 DEF Result, Lost
    <2> QED
        BY <2>1, <2>2, <2>3 DEF HeapInv
<1> QED
    BY <1>1, <1>2, <1>3, <1>4, <1>5, <1>6, <1>7, <1>8, <1>9, <1>10, <1>11, <1>12, <1>13, <1>14
       DEF Next, Collect, Emit, Ended

-----------------------------------------------------------------------------
(* The links of the document in order, and their ranks *)

\* The outbounds Links speaks of are in the document.
LEMMA LinksAre ==
    ASSUME TypeOK
    PROVE  /\ \A p \in Links :
                /\ p = <<p[1], p[2]>> /\ p[1] \in 1..nelem /\ p[2] \in 1..Len(doc.elems[p[1]].outs)
                /\ doc.elems[p[1]].object /\ doc.elems[p[1]].outs[p[2]].vless
           /\ \A e \in 1..nelem : doc.elems[e].object =>
                \A l \in 1..Len(doc.elems[e].outs) : doc.elems[e].outs[l].vless => <<e, l>> \in Links
<1>1. \A e \in 1..nelem : DOMAIN doc.elems[e].outs = 1..Len(doc.elems[e].outs)
    <2>1. \A e \in 1..nelem : doc.elems[e] \in Element
        BY DocType, ElementOfSeq
    <2>2. \A el \in Element : el.outs \in Seq(Outbound)
        BY DEF Element
    <2>3. \A q \in Seq(Outbound) : DOMAIN q = 1..Len(q)
        OBVIOUS
    <2> QED
        BY <2>1, <2>2, <2>3
<1>2. ASSUME NEW p \in Links
      PROVE  /\ p = <<p[1], p[2]>> /\ p[1] \in 1..nelem /\ p[2] \in 1..Len(doc.elems[p[1]].outs)
             /\ doc.elems[p[1]].object /\ doc.elems[p[1]].outs[p[2]].vless
    <2>1. PICK e \in 1..nelem : p \in {e} \X Vlesses(e)
        BY DEF Links
    <2>2. p = <<e, p[2]>> /\ p[1] = e /\ p[2] \in Vlesses(e)
        BY <2>1
    <2> QED
        BY <1>1, <2>2 DEF Vlesses
<1>3. ASSUME NEW e \in 1..nelem, doc.elems[e].object,
             NEW l \in 1..Len(doc.elems[e].outs), doc.elems[e].outs[l].vless
      PROVE  <<e, l>> \in Links
    <2>1. <<e, l>> \in {e} \X Vlesses(e)
        BY <1>1, <1>3 DEF Vlesses
    <2> QED
        BY <2>1 DEF Links
<1> QED
    BY <1>2, <1>3

\* How the links before a place grow from one place to the next.
LEMMA LinksGrow ==
    ASSUME TypeOK
    PROVE  /\ LinksTo(1, 1) = {}
           /\ \A e \in Nat : e > nelem => LinksTo(e, 1) = Links
           /\ \A e \in 1..nelem : ~doc.elems[e].object => LinksTo(e + 1, 1) = LinksTo(e, 1)
           /\ \A e \in 1..nelem : LinksTo(e + 1, 1) = LinksTo(e, Len(doc.elems[e].outs) + 1)
           /\ \A e \in 1..nelem : doc.elems[e].object =>
                \A l \in 1..Len(doc.elems[e].outs) :
                  /\ doc.elems[e].outs[l].vless => LinksTo(e, l + 1) = LinksTo(e, l) \cup {<<e, l>>}
                  /\ ~doc.elems[e].outs[l].vless => LinksTo(e, l + 1) = LinksTo(e, l)
<1>1. nelem \in Nat /\ \A e \in 1..nelem : Len(doc.elems[e].outs) \in Nat
    BY DocType
<1>2. \A p \in Links : /\ p = <<p[1], p[2]>> /\ p[1] \in 1..nelem
                        /\ p[2] \in 1..Len(doc.elems[p[1]].outs) /\ p[2] \in Nat /\ p[2] >= 1
                        /\ doc.elems[p[1]].object /\ doc.elems[p[1]].outs[p[2]].vless
    BY <1>1, LinksAre
<1> HIDE DEF nelem
<1>3. LinksTo(1, 1) = {}
    BY <1>1, <1>2 DEF LinksTo
<1>4. ASSUME NEW e \in Nat, e > nelem
      PROVE  LinksTo(e, 1) = Links
    BY <1>1, <1>2, <1>4 DEF LinksTo
<1>5. ASSUME NEW e \in 1..nelem, ~doc.elems[e].object
      PROVE  LinksTo(e + 1, 1) = LinksTo(e, 1)
    <2>1. ASSUME NEW p \in Links
          PROVE  p[1] < e + 1 \/ (p[1] = e + 1 /\ p[2] < 1) <=> p[1] < e \/ (p[1] = e /\ p[2] < 1)
        BY <1>1, <1>2, <1>5
    <2> QED
        BY <2>1 DEF LinksTo
<1>6. ASSUME NEW e \in 1..nelem
      PROVE  LinksTo(e + 1, 1) = LinksTo(e, Len(doc.elems[e].outs) + 1)
    <2>1. ASSUME NEW p \in Links
          PROVE  p[1] < e + 1 \/ (p[1] = e + 1 /\ p[2] < 1)
                 <=> p[1] < e \/ (p[1] = e /\ p[2] < Len(doc.elems[e].outs) + 1)
        BY <1>1, <1>2
    <2> QED
        BY <2>1 DEF LinksTo
<1>7. ASSUME NEW e \in 1..nelem, doc.elems[e].object, NEW l \in 1..Len(doc.elems[e].outs)
      PROVE  /\ doc.elems[e].outs[l].vless => LinksTo(e, l + 1) = LinksTo(e, l) \cup {<<e, l>>}
             /\ ~doc.elems[e].outs[l].vless => LinksTo(e, l + 1) = LinksTo(e, l)
    <2>1. ASSUME NEW p \in Links
          PROVE  p[1] < e \/ (p[1] = e /\ p[2] < l + 1)
                 <=> (p[1] < e \/ (p[1] = e /\ p[2] < l)) \/ p = <<e, l>>
        BY <1>1, <1>2
    <2>2. doc.elems[e].outs[l].vless => <<e, l>> \in Links
        BY <1>7, LinksAre
    <2>3. <<e, l>> \in Links => doc.elems[e].outs[l].vless
        <3>1. <<e, l>>[1] = e /\ <<e, l>>[2] = l
            OBVIOUS
        <3> QED
            BY <1>2, <3>1
    <2> QED
        BY <2>1, <2>2, <2>3 DEF LinksTo
<1> QED
    BY <1>3, <1>4, <1>5, <1>6, <1>7

\* Where a link goes is within those before a place behind it.
LEMMA PositionInside ==
    ASSUME TypeOK, NEW e \in Nat, NEW l \in Nat, IsFiniteSet(LinksTo(e, l)), NEW p \in LinksTo(e, l)
    PROVE  Position(p) \in 1..Cardinality(LinksTo(e, l))
<1> DEFINE before == LinksTo(p[1], p[2])
<1>1. /\ p \in Links /\ p[1] \in Nat /\ p[2] \in Nat
      /\ \A q \in Links : q[1] \in Nat /\ q[2] \in Nat
    BY LinksAre, DocType DEF LinksTo
<1>2. before \subseteq LinksTo(e, l) /\ p \notin before
    BY <1>1 DEF LinksTo
<1>3. /\ IsFiniteSet(before) /\ before \cup {p} \subseteq LinksTo(e, l)
      /\ Cardinality(before \cup {p}) = Cardinality(before) + 1
    BY <1>2, FS_Subset, FS_AddElement
<1>4. Cardinality(before \cup {p}) <= Cardinality(LinksTo(e, l))
    BY <1>3, FS_Subset
<1>5. Cardinality(before) \in Nat /\ Cardinality(LinksTo(e, l)) \in Nat
    BY <1>3, FS_CardinalityType
<1> HIDE DEF before
<1>6. Position(p) = Cardinality(before) + 1
    BY DEF Position, before
<1> QED
    BY <1>3, <1>4, <1>5, <1>6

\* An element's links are those before the next one that are not before it.
LEMMA CountIs ==
    ASSUME TypeOK, NEW e \in 1..nelem, IsFiniteSet(LinksTo(e + 1, 1))
    PROVE  /\ Count(e) \in Nat /\ First(e) \in Nat /\ First(e + 1) = First(e) + Count(e)
           /\ ~doc.elems[e].object => Count(e) = 0
           /\ \A p \in Links : p[1] = e => Position(p) \in (First(e) + 1)..(First(e) + Count(e))
<1> DEFINE mine == {p \in Links : p[1] = e}
<1>1. /\ e \in Nat /\ e + 1 \in Nat /\ 1 \in Nat
      /\ \A p \in Links : p[1] \in Nat /\ p[2] \in Nat /\ p[2] >= 1 /\ doc.elems[p[1]].object
    BY LinksAre, DocType
<1>2. LinksTo(e + 1, 1) = LinksTo(e, 1) \cup mine /\ LinksTo(e, 1) \cap mine = {}
    BY <1>1 DEF LinksTo
<1>3. IsFiniteSet(LinksTo(e, 1)) /\ IsFiniteSet(mine)
    BY <1>2, FS_Subset
<1>4. Cardinality(LinksTo(e + 1, 1)) = Cardinality(LinksTo(e, 1)) + Cardinality(mine) - Cardinality({})
    BY <1>2, <1>3, FS_Union
<1>5. Cardinality(LinksTo(e, 1)) \in Nat /\ Cardinality(mine) \in Nat /\ Cardinality({}) = 0
    BY <1>3, FS_CardinalityType, FS_EmptySet
<1>6. ~doc.elems[e].object => mine = {}
    BY <1>1
<1>7. Count(e) = Cardinality(mine)
    BY DEF Count
<1>8. Count(e) \in Nat /\ First(e) \in Nat /\ First(e + 1) = First(e) + Count(e)
    BY <1>4, <1>5, <1>7 DEF First
<1>9. ASSUME NEW p \in Links, p[1] = e
      PROVE  Position(p) \in (First(e) + 1)..(First(e) + Count(e))
    <2>1. p \in LinksTo(e + 1, 1)
        BY <1>1, <1>9 DEF LinksTo
    <2>2. Position(p) \in 1..First(e + 1)
        BY <1>1, <2>1, PositionInside DEF First
    <2>3. LinksTo(e, 1) \subseteq LinksTo(p[1], p[2]) /\ LinksTo(p[1], p[2]) \subseteq LinksTo(e + 1, 1)
        BY <1>1, <1>9 DEF LinksTo
    <2>4. IsFiniteSet(LinksTo(p[1], p[2])) /\ First(e) <= Cardinality(LinksTo(p[1], p[2]))
        BY <2>3, FS_Subset DEF First
    <2>5. Cardinality(LinksTo(p[1], p[2])) \in Nat /\ Position(p) = Cardinality(LinksTo(p[1], p[2])) + 1
        BY <2>4, FS_CardinalityType DEF Position
    <2> QED
        BY <1>8, <2>2, <2>4, <2>5
<1> QED
    BY <1>5, <1>6, <1>7, <1>8, <1>9

\* The document is never written.
LEMMA DocKept ==
    ASSUME [Next]_vars
    PROVE  /\ doc' = doc /\ Links' = Links /\ Sources' = Sources /\ Tested' = Tested
           /\ \A e, l : LinksTo(e, l)' = LinksTo(e, l)
           /\ \A p : Position(p)' = Position(p)
           /\ \A e : First(e)' = First(e) /\ Count(e)' = Count(e) /\ GroupAt(e)' = GroupAt(e)
<1>1. doc' = doc
    BY DEF Next, Collect, Emit, Ended, vars, arrays, ParseRoot, SkipElement, EnterElement,
           SkipOutbound, PushNode, LeaveElement, Collected, NameNode, NextElement, EmitProxies,
           EmitGroup, Fault, GroupsEmitted, ListGroup, EmitTop, CleanUp
<1>2. Links' = Links
    BY <1>1 DEF Links, Vlesses
<1>3. \A e, l : LinksTo(e, l)' = LinksTo(e, l)
    BY <1>2 DEF LinksTo
<1>4. \A e : First(e)' = First(e) /\ Count(e)' = Count(e)
    BY <1>2, <1>3 DEF First, Count
<1>5. Sources' = Sources /\ Tested' = Tested
    <2>1. Sources' = Sources
        BY <1>1, <1>4 DEF Sources
    <2> QED
        BY <1>1, <2>1 DEF Tested
<1>6. \A e : GroupAt(e)' = GroupAt(e)
    BY <1>5 DEF GroupAt, Rank
<1>7. \A p : Position(p)' = Position(p)
    BY <1>3 DEF Position
<1> QED
    BY <1>1, <1>2, <1>3, <1>4, <1>5, <1>6, <1>7

-----------------------------------------------------------------------------
(* What has been read: the nodes so far are the links before the place in hand, *)
(* and meta[] records the elements behind it.                                *)

Recorded(e) ==
    meta[e] = IF doc.elems[e].object
              THEN [first |-> First(e), count |-> Count(e),
                    group |-> doc.elems[e].group, bal |-> doc.elems[e].bal]
              ELSE NoMeta

TagIs(p) == nodes[Position(p)].tag = doc.elems[p[1]].outs[p[2]].tag

Stored(e, l) ==
    /\ IsFiniteSet(LinksTo(e, l)) /\ nlen = Cardinality(LinksTo(e, l))
    /\ \A p \in LinksTo(e, l) : TagIs(p)

RecordedTo(e) == \A f \in 1..nelem : f < e => Recorded(f)

Later == pc \in {"names"} \cup Emitting \/ rc = 0

ReadInv ==
    /\ pc = "start" => i = 1
    /\ pc = "elems" => Stored(i, 1) /\ RecordedTo(i)
    /\ pc = "outbounds" =>
         /\ Stored(i, k) /\ RecordedTo(i)
         /\ i \in 1..nelem /\ doc.elems[i].object /\ k <= Len(doc.elems[i].outs) + 1
         /\ meta[i].first = First(i) /\ meta[i].group = doc.elems[i].group
    /\ Later => Len(meta) = nelem /\ Stored(nelem + 1, 1) /\ \A e \in 1..nelem : Recorded(e)

\* Tags that stay keep what is stored.
LEMMA StoredKept ==
    ASSUME TypeOK, [Next]_vars, nlen' = nlen, \A j \in 1..nlen : nodes'[j].tag = nodes[j].tag,
           NEW e \in Nat, NEW l \in Nat, Stored(e, l)
    PROVE  Stored(e, l)'
<1>1. /\ LinksTo(e, l)' = LinksTo(e, l) /\ doc' = doc
      /\ \A p : Position(p)' = Position(p)
    BY DocKept
<1>2. ASSUME NEW p \in LinksTo(e, l)
      PROVE  TagIs(p)'
    <2>1. Position(p) \in 1..nlen
        BY PositionInside DEF Stored
    <2> QED
        BY <1>1, <2>1 DEF Stored, TagIs
<1> QED
    BY <1>1, <1>2 DEF Stored

LEMMA RecordedKept ==
    ASSUME [Next]_vars, NEW e, meta'[e] = meta[e], Recorded(e)
    PROVE  Recorded(e)'
  BY DocKept DEF Recorded

\* A step that reads nothing.
LEMMA ReadKept ==
    ASSUME TypeOK, [Next]_vars, ReadInv, meta' = meta, nlen' = nlen,
           \A j \in 1..nlen : nodes'[j].tag = nodes[j].tag,
           pc' \notin {"start"} \cup Collecting, Later' => Later
    PROVE  ReadInv'
<1>1. doc' = doc /\ nelem' = nelem /\ nelem + 1 \in Nat
    BY DocKept, DocType
<1>2. Later => Stored(nelem + 1, 1)'
    BY <1>1, StoredKept DEF ReadInv
<1>3. ASSUME Later, NEW e \in 1..nelem
      PROVE  Recorded(e)'
    BY <1>3, RecordedKept DEF ReadInv
<1> QED
    BY <1>1, <1>2, <1>3 DEF ReadInv, Collecting

LEMMA ReadStep ==
    ASSUME TypeOK, MetaInv, StartInv, NameInv, YamlInv, ReadInv, [Next]_vars, TypeOK'
    PROVE  ReadInv'
<1>1. /\ doc' = doc /\ nelem' = nelem /\ nelem \in Nat /\ i \in Nat /\ k \in Nat /\ nlen \in Nat
      /\ \A e, l : LinksTo(e, l)' = LinksTo(e, l)
      /\ \A p : Position(p)' = Position(p)
      /\ \A e : First(e)' = First(e) /\ Count(e)' = Count(e)
    BY DocKept, DocType, NodeType, TypesAre DEF Types
<1>2. PICK n \in Nat, m \in Nat : n = i /\ m = k
    BY <1>1
<1>3. rc = 0 => pc \in {"out", "done"}
    BY DEF StartInv
<1>4. ASSUME UNCHANGED nodes, NEW e \in Nat, NEW l \in Nat, Stored(e, l)
      PROVE  Stored(e, l)'
    BY <1>4, StoredKept
<1>5. ASSUME NEW e \in Nat, meta' = meta, RecordedTo(e)
      PROVE  RecordedTo(e)'
    BY <1>1, <1>5, RecordedKept DEF RecordedTo
<1>6. CASE ParseRoot
    <2>1. /\ pc = "start" /\ i' = 1 /\ nodes = << >> /\ nodes' = nodes /\ pc' \in {"elems", "out"} /\ rc' # 0
        BY <1>3, <1>6 DEF ParseRoot, Fail, ReadInv, StartInv, arrays
    <2>2. Stored(1, 1)'
        <3>1. LinksTo(1, 1)' = {} /\ nlen' = 0
            BY <1>1, <2>1, LinksGrow
        <3> QED
            BY <3>1, FS_EmptySet DEF Stored
    <2>3. RecordedTo(1)'
        BY <1>1 DEF RecordedTo
    <2> QED
        BY <2>1, <2>2, <2>3 DEF ReadInv, Later, Emitting
<1>7. CASE SkipElement
    <2>1. /\ pc = "elems" /\ pc' = "elems" /\ i' = i + 1 /\ i \in 1..nelem /\ ~doc.elems[i].object
          /\ UNCHANGED <<nodes, meta>> /\ rc' = rc
        BY <1>1, <1>7 DEF SkipElement, MetaInv, arrays
    <2>2. Stored(n + 1, 1)'
        <3>1. LinksTo(n + 1, 1) = LinksTo(n, 1)
            BY <1>2, <2>1, LinksGrow
        <3>2. Stored(n + 1, 1)
            BY <1>2, <2>1, <3>1 DEF ReadInv, Stored
        <3> QED
            BY <1>4, <2>1, <3>2
    <2>3. RecordedTo(n + 1)'
        <3>1. Recorded(i)
            <4>1. meta[i] = NoMeta
                BY <1>1, <2>1, MetaType DEF MetaInv, Passes, Collecting
            <4> QED
                BY <2>1, <4>1 DEF Recorded
        <3>2. RecordedTo(n + 1)
            BY <1>2, <1>1, <2>1, <3>1 DEF ReadInv, RecordedTo
        <3> QED
            BY <1>5, <2>1, <3>2
    <2>4. i' = n + 1
        BY <1>2, <2>1
    <2> QED
        BY <1>3, <2>1, <2>2, <2>3, <2>4 DEF ReadInv, Later, Emitting
<1>8. CASE EnterElement
    <2>1. /\ pc = "elems" /\ pc' = "outbounds" /\ i' = i /\ k' = 1 /\ i \in 1..nelem /\ doc.elems[i].object
          /\ nodes' = nodes /\ rc' = rc
          /\ meta' = [meta EXCEPT ![i].group = doc.elems[i].group, ![i].first = nlen]
        BY <1>1, <1>8 DEF EnterElement, MetaInv, arrays
    <2>2. i \in DOMAIN meta
        BY <2>1, MetaType DEF MetaInv, Passes, Collecting
    <2>3. /\ \A e \in DOMAIN meta : e # i => meta'[e] = meta[e]
          /\ meta'[i].first = nlen /\ meta'[i].group = doc.elems[i].group
        <3> DEFINE mt == [meta[i] EXCEPT !.group = doc.elems[i].group, !.first = nlen]
        <3>1. meta' = [meta EXCEPT ![i] = mt]
            BY <2>1, <2>2, MetaType
        <3>2. mt.first = nlen /\ mt.group = doc.elems[i].group
            BY <2>2, MetaType DEF MetaRecord
        <3> HIDE DEF mt
        <3> QED
            BY <2>2, <3>1, <3>2, MetaType
    <2>4. Stored(n, 1)' /\ nlen = First(n)
        BY <1>2, <1>4, <2>1 DEF ReadInv, Stored, First
    <2>5. RecordedTo(n)'
        <3>1. ASSUME NEW e \in 1..nelem, e < n
              PROVE  Recorded(e)'
            <4>1. Recorded(e)
                BY <1>2, <2>1, <3>1 DEF ReadInv, RecordedTo
            <4>2. meta'[e] = meta[e]
                BY <1>2, <1>1, <2>1, <2>3, <3>1, MetaType DEF MetaInv, Passes, Collecting
            <4> QED
                BY <4>1, <4>2, RecordedKept
        <3> QED
            BY <1>1, <3>1 DEF RecordedTo
    <2>6. 1 <= Len(doc.elems[i].outs) + 1
        BY <2>1, DocType
    <2>7. meta'[n].first = First(n)' /\ meta'[n].group = doc'.elems[n].group
        BY <1>2, <1>1, <2>3, <2>4
    <2>8. i' = n
        BY <1>2, <2>1
    <2> QED
        BY <1>2, <1>1, <1>3, <2>1, <2>4, <2>5, <2>6, <2>7, <2>8 DEF ReadInv, Later, Emitting
<1>9. CASE SkipOutbound
    <2>1. /\ pc = "outbounds" /\ pc' = "outbounds" /\ k' = k + 1 /\ i' = i /\ UNCHANGED <<nodes, meta>>
          /\ k <= Len(doc.elems[i].outs) /\ ~doc.elems[i].outs[k].vless /\ rc' = rc
        BY <1>9 DEF SkipOutbound, Outbounds, arrays
    <2>2. i \in 1..nelem /\ doc.elems[i].object /\ k \in 1..Len(doc.elems[i].outs)
        BY <1>1, <2>1, DocType DEF ReadInv, MetaInv
    <2>3. Stored(n, m + 1)'
        <3>1. LinksTo(n, m + 1) = LinksTo(n, m)
            BY <1>2, <2>1, <2>2, LinksGrow
        <3>2. Stored(n, m + 1)
            BY <1>2, <2>1, <3>1 DEF ReadInv, Stored
        <3> QED
            BY <1>4, <2>1, <3>2
    <2>4. RecordedTo(n)'
        BY <1>2, <1>5, <2>1 DEF ReadInv
    <2>5. m + 1 <= Len(doc.elems[n].outs) + 1
        BY <1>2, <2>2, DocType
    <2>6. meta'[n].first = First(n)' /\ meta'[n].group = doc'.elems[n].group
        BY <1>2, <1>1, <2>1 DEF ReadInv
    <2>7. i' = n /\ k' = m + 1
        BY <1>2, <2>1
    <2> QED
        BY <1>2, <1>1, <1>3, <2>1, <2>2, <2>3, <2>4, <2>5, <2>6, <2>7 DEF ReadInv, Later, Emitting
<1>10. CASE PushNode
    <2>1. /\ pc = "outbounds" /\ i' = i /\ meta' = meta
          /\ k <= Len(doc.elems[i].outs) /\ doc.elems[i].outs[k].vless
        BY <1>10 DEF PushNode, Outbounds
    <2>2. i \in 1..nelem /\ doc.elems[i].object /\ k \in 1..Len(doc.elems[i].outs)
        BY <1>1, <2>1, DocType DEF ReadInv, MetaInv
    <2>3. CASE pc' = "out"
        <3>1. rc' # 0
            BY <1>3, <1>10, <2>1, <2>3 DEF PushNode, Fail
        <3> QED
            BY <2>3, <3>1 DEF ReadInv, Later, Emitting
    <2>4. CASE pc' # "out"
        <3> DEFINE node == [name |-> None, tag |-> doc.elems[i].outs[k].tag]
        <3>1. nodes' = Append(nodes, node) /\ k' = k + 1 /\ pc' = "outbounds" /\ rc' = rc
            BY <1>10, <2>4 DEF PushNode, Fail, Outbounds
        <3>2. node \in NodeRecord /\ node.tag = doc.elems[i].outs[k].tag
            BY <2>2, DocType DEF NodeRecord
        <3> HIDE DEF node
        <3>3. /\ nlen' = nlen + 1 /\ nodes'[nlen + 1] = node
              /\ \A j \in 1..nlen : nodes'[j] = nodes[j]
            BY <3>1, <3>2, NodeType, AppendProperties
        <3>4. Stored(n, m) /\ IsFiniteSet(LinksTo(n, m)) /\ Cardinality(LinksTo(n, m)) = nlen
            BY <1>2, <2>1 DEF ReadInv, Stored
        <3>5. LinksTo(n, m + 1) = LinksTo(n, m) \cup {<<n, m>>} /\ <<n, m>> \notin LinksTo(n, m)
            <4>1. LinksTo(n, m + 1) = LinksTo(n, m) \cup {<<n, m>>}
                BY <1>2, <2>1, <2>2, LinksGrow
            <4>2. <<n, m>> \notin LinksTo(n, m)
                BY <1>1 DEF LinksTo
            <4> QED
                BY <4>1, <4>2
        <3>6. IsFiniteSet(LinksTo(n, m + 1)) /\ Cardinality(LinksTo(n, m + 1)) = nlen + 1
            BY <3>4, <3>5, FS_AddElement
        <3>7. Position(<<n, m>>) = nlen + 1
            BY <3>4 DEF Position
        <3>8. ASSUME NEW p \in LinksTo(n, m)
              PROVE  TagIs(p)'
            <4>1. Position(p) \in 1..nlen
                BY <1>1, <3>4, PositionInside
            <4>2. TagIs(p)
                BY <3>4 DEF Stored
            <4> QED
                BY <1>1, <3>3, <4>1, <4>2 DEF TagIs
        <3>9. TagIs(<<n, m>>)'
            <4>1. (<<n, m>>)[1] = n /\ (<<n, m>>)[2] = m
                OBVIOUS
            <4>2. Position(<<n, m>>)' = nlen + 1
                BY <1>1, <3>7
            <4> QED
                BY <1>2, <1>1, <3>2, <3>3, <4>1, <4>2 DEF TagIs
        <3>10. Stored(n, m + 1)'
            <4>1. \A p \in LinksTo(n, m + 1) : p \in LinksTo(n, m) \/ p = <<n, m>>
                BY <3>5
            <4>2. \A p \in LinksTo(n, m + 1) : TagIs(p)'
                BY <3>8, <3>9, <4>1
            <4> QED
                BY <1>1, <3>3, <3>6, <4>2 DEF Stored
        <3>11. RecordedTo(n)'
            BY <1>2, <1>5, <2>1 DEF ReadInv
        <3>12. m + 1 <= Len(doc.elems[n].outs) + 1
            BY <1>2, <2>2, DocType
        <3>13. meta'[n].first = First(n)' /\ meta'[n].group = doc'.elems[n].group
            BY <1>2, <1>1, <2>1 DEF ReadInv
        <3>14. i' = n /\ k' = m + 1
            BY <1>2, <2>1, <3>1
        <3> QED
            BY <1>2, <1>1, <1>3, <2>1, <2>2, <3>1, <3>10, <3>11, <3>12, <3>13, <3>14 DEF ReadInv, Later, Emitting
    <2> QED
        BY <2>3, <2>4
<1>11. CASE LeaveElement
    <2> DEFINE el == doc.elems[n]
    <2>1. /\ pc = "outbounds" /\ pc' = "elems" /\ i' = n + 1 /\ nodes' = nodes /\ rc' = rc
          /\ m > Len(el.outs)
          /\ meta' = [meta EXCEPT ![n].count = nlen - meta[n].first, ![n].bal = el.bal]
        BY <1>2, <1>11 DEF LeaveElement, Outbounds, arrays
    <2>2. /\ n \in 1..nelem /\ el.object /\ m = Len(el.outs) + 1 /\ n \in DOMAIN meta
          /\ meta[n].first = First(n) /\ meta[n].group = el.group /\ Stored(n, m)
        <3>1. /\ n \in 1..nelem /\ el.object /\ m <= Len(el.outs) + 1 /\ n \in DOMAIN meta
              /\ meta[n].first = First(n) /\ meta[n].group = el.group /\ Stored(n, m)
            BY <1>2, <2>1 DEF ReadInv, MetaInv
        <3>2. m = Len(el.outs) + 1
            <4>1. Len(el.outs) \in Nat
                BY <3>1, DocType
            <4>2. m > Len(el.outs)
                BY <2>1
            <4> HIDE DEF el
            <4> QED
                BY <3>1, <4>1, <4>2
        <3> QED
            BY <3>1, <3>2
    <2>3. LinksTo(n + 1, 1) = LinksTo(n, m)
        BY <2>2, LinksGrow
    <2>4. Stored(n + 1, 1)'
        <3>1. Stored(n + 1, 1)
            BY <2>2, <2>3 DEF Stored
        <3>2. n + 1 \in Nat /\ 1 \in Nat /\ UNCHANGED nodes
            BY <1>2, <2>1
        <3> QED
            BY <1>4, <3>1, <3>2
    <2>5. Recorded(n)'
        <3>1. First(n + 1) = First(n) + Count(n) /\ Count(n) \in Nat /\ First(n) \in Nat
            BY <2>2, <2>3, CountIs DEF Stored
        <3>2. nlen - meta[n].first = Count(n)
            BY <2>2, <2>3, <3>1 DEF Stored, First
        <3>3. meta[n] \in MetaRecord
            BY <2>2, MetaType
        <3>4. meta'[n] = [meta[n] EXCEPT !.count = Count(n), !.bal = el.bal]
            BY <2>1, <2>2, <3>2, MetaType
        <3>5. meta'[n] = [first |-> First(n), count |-> Count(n), group |-> el.group, bal |-> el.bal]
            BY <2>2, <3>3, <3>4 DEF MetaRecord
        <3> QED
            BY <1>1, <2>2, <3>5 DEF Recorded
    <2>6. RecordedTo(n + 1)'
        <3>1. ASSUME NEW e \in 1..nelem, e < n + 1, e # n
              PROVE  Recorded(e)'
            <4>1. Recorded(e)
                BY <1>2, <1>1, <2>1, <3>1 DEF ReadInv, RecordedTo
            <4>2. meta'[e] = meta[e]
                BY <1>2, <1>1, <2>1, <2>2, <3>1, MetaType DEF MetaInv, Passes, Collecting
            <4> QED
                BY <4>1, <4>2, RecordedKept
        <3> QED
            BY <1>1, <2>5, <3>1 DEF RecordedTo
    <2> QED
        BY <1>3, <2>1, <2>4, <2>6 DEF ReadInv, Later, Emitting
<1>12. CASE Collected
    <2>1. /\ pc = "elems" /\ i > nelem /\ UNCHANGED <<nodes, meta>> /\ pc' \in {"out", "names"}
          /\ pc' = "out" => rc' # 0
        BY <1>3, <1>12 DEF Collected, Fail, arrays
    <2>2. LinksTo(nelem + 1, 1) = LinksTo(i, 1)
        BY <1>1, <2>1, LinksGrow
    <2>3. Stored(nelem + 1, 1)'
        <3>1. Stored(nelem + 1, 1)
            BY <2>1, <2>2 DEF ReadInv, Stored
        <3> QED
            BY <1>1, <1>4, <2>1, <3>1
    <2>4. \A e \in 1..nelem : Recorded(e)'
        <3>1. \A e \in 1..nelem : Recorded(e)
            BY <1>1, <2>1 DEF ReadInv, RecordedTo
        <3> QED
            BY <2>1, <3>1, RecordedKept
    <2>5. (Len(meta) = nelem)'
        BY <1>1, <2>1 DEF MetaInv, Passes, Collecting
    <2> QED
        BY <1>1, <2>1, <2>3, <2>4, <2>5 DEF ReadInv, Later, Emitting, Collecting
<1>13. CASE NameNode
    <2>1. /\ pc = "names" /\ pc' = "names" /\ meta' = meta /\ nlen' = nlen
        BY <1>13, NameGiven DEF NameNode
    <2>2. \A j \in 1..nlen : nodes'[j].tag = nodes[j].tag
        BY <1>13, NameGiven
    <2>3. Later /\ pc' \notin {"start"} \cup Collecting
        BY <2>1 DEF Later, Collecting
    <2> QED
        BY <2>1, <2>2, <2>3, ReadKept
<1>14. CASE NextElement \/ Emit \/ CleanUp
    <2>1. pc' \notin {"start"} \cup Collecting /\ UNCHANGED <<nodes, meta>>
        BY <1>14 DEF NextElement, Emit, EmitProxies, EmitGroup, Fault, GroupsEmitted, ListGroup, EmitTop,
                     CleanUp, Later, Collecting, Emitting, arrays
    <2>2. Later' => Later
        BY <1>14 DEF NextElement, Emit, EmitProxies, EmitGroup, Fault, GroupsEmitted, ListGroup, EmitTop,
                     CleanUp, Later, Emitting, arrays
    <2> QED
        BY <2>1, <2>2, ReadKept
<1>15. CASE UNCHANGED vars
    <2>1. UNCHANGED <<pc, i, k, nodes, meta, rc>>
        BY <1>15 DEF vars, arrays
    <2>2. \A e \in Nat : RecordedTo(e) => RecordedTo(e)'
        BY <1>5, <2>1
    <2>3. \A e \in Nat, l \in Nat : Stored(e, l) => Stored(e, l)'
        BY <1>4, <2>1
    <2>4. \A e : Recorded(e) => Recorded(e)'
        BY <2>1, RecordedKept
    <2> QED
        BY <1>1, <2>1, <2>2, <2>3, <2>4 DEF ReadInv, Later
<1> QED
    BY <1>6, <1>7, <1>8, <1>9, <1>10, <1>11, <1>12, <1>13, <1>14, <1>15 DEF Next, Collect, Ended

-----------------------------------------------------------------------------
(* Every name given is the node's base, or the base with a number *)

OfElement(e, j) == meta[e].first < j /\ j <= End(e)

Based(e, j) ==
    \/ nodes[j].name = BaseName(e, j)
    \/ \E n \in 2..(Len(used) + 1) : nodes[j].name = Suffixed(BaseName(e, j), n)

BasedInv ==
    \A e \in DOMAIN meta : \A j \in 1..nlen :
        OfElement(e, j) /\ nodes[j].name # None => Based(e, j)

LEMMA BasedStep ==
    ASSUME TypeOK, MetaInv, StartInv, NameInv, YamlInv, BasedInv, [Next]_vars
    PROVE  BasedInv'
<1>1. ASSUME \A j \in 1..nlen' : nodes'[j].name = None
      PROVE  BasedInv'
    BY <1>1 DEF BasedInv
<1>2. ASSUME UNCHANGED <<nodes, meta, used>>
      PROVE  BasedInv'
    <2>1. \A e, j : OfElement(e, j)' = OfElement(e, j) /\ BaseName(e, j)' = BaseName(e, j)
        BY <1>2 DEF OfElement, End, BaseName
    <2>2. \A e, j : Based(e, j)' = Based(e, j)
        BY <1>2, <2>1 DEF Based
    <2> QED
        BY <1>2, <2>1, <2>2 DEF BasedInv
<1>3. CASE pc \in {"start"} \cup Collecting
    <2>1. \A j \in 1..nlen : nodes[j].name = None
        BY <1>3 DEF StartInv
    <2>2. CASE nodes' = nodes
        BY <1>1, <2>1, <2>2
    <2>3. CASE nodes' # nodes
        <3>1. PushNode
            BY <1>3, <2>3 DEF Next, Collect, Emit, Ended, vars, arrays, ParseRoot, SkipElement,
                    EnterElement, SkipOutbound, LeaveElement, Collected, NameNode, NextElement,
                    EmitProxies, EmitGroup, Fault, GroupsEmitted, ListGroup, EmitTop, CleanUp, Collecting
        <3>2. /\ nlen' = nlen + 1 /\ nodes'[nlen + 1].name = None
              /\ \A j \in 1..nlen : nodes'[j] = nodes[j]
            BY <2>3, <3>1, NodePushed
        <3>3. \A j \in 1..(nlen + 1) : j = nlen + 1 \/ j \in 1..nlen
            BY NodeType
        <3> QED
            BY <1>1, <2>1, <3>2, <3>3
    <2> QED
        BY <2>2, <2>3
<1>4. CASE NameNode
    <2>1. meta' = meta /\ nlen' = nlen
        BY <1>4, NameGiven DEF NameNode
    <2>2. CASE UNCHANGED <<nodes, used, heap>>
        BY <1>2, <2>1, <2>2
    <2>3. ASSUME NEW h \in 1..nlen, NEW name \in Name, h = meta[i].first + k, used' = Append(used, name),
                 name = BaseName(i, h) \/ \E n \in 2..(Len(used) + 2) : name = Suffixed(BaseName(i, h), n),
                 nodes'[h].name = name, nodes'[h].tag = nodes[h].tag,
                 \A j \in 1..nlen : j # h => nodes'[j] = nodes[j]
          PROVE  BasedInv'
        <3>1. Len(used) \in Nat /\ Len(used') = Len(used) + 1
            <4>1. used \in Seq(Name)
                BY TypesAre DEF Types
            <4> QED
                BY <2>3, <4>1, AppendProperties
        <3>2. \A e : \A j \in 1..nlen : OfElement(e, j)' = OfElement(e, j) /\ BaseName(e, j)' = BaseName(e, j)
            BY <2>1, <2>3 DEF OfElement, End, BaseName
        <3>3. ASSUME NEW e \in DOMAIN meta, OfElement(e, h)
              PROVE  e = i
            <4>1. i \in DOMAIN meta /\ meta[i].count > 0 /\ h <= End(i)
                BY <1>4, <2>3, NodeInHand DEF NameNode
            <4>2. meta[e].first < h /\ h <= End(e) /\ meta[e].count > 0 /\ i \in Nat /\ e \in Nat
                BY <3>3, <4>1, MetaType DEF OfElement, End
            <4>3. k \in Nat /\ k >= 1 /\ meta[i].first < h
                BY <2>3, <4>1, MetaType, TypesAre DEF MetaInv, Types
            <4>4. e < i => End(e) <= meta[i].first
                BY <4>1 DEF MetaInv
            <4>5. i < e => End(i) <= meta[e].first
                BY <4>1, <4>2 DEF MetaInv
            <4>6. End(e) \in Nat /\ End(i) \in Nat /\ meta[i].first \in Nat /\ meta[e].first \in Nat
                <5>1. \A f \in DOMAIN meta : meta[f].first \in Nat /\ meta[f].count \in Nat
                    BY MetaType
                <5> QED
                    BY <4>1, <5>1 DEF End
            <4> QED
                BY <4>1, <4>2, <4>3, <4>4, <4>5, <4>6
        <3>4. ASSUME NEW e \in DOMAIN meta, NEW j \in 1..nlen, OfElement(e, j), nodes'[j].name # None
              PROVE  Based(e, j)'
            <4>1. CASE j = h
                <5>1. e = i
                    BY <3>3, <3>4, <4>1
                <5>2. nodes'[j].name = name
                    BY <2>3, <4>1
                <5>3. name = BaseName(e, j) \/ \E n \in 2..(Len(used) + 2) : name = Suffixed(BaseName(e, j), n)
                    BY <2>3, <4>1, <5>1
                <5>4. BaseName(e, j)' = BaseName(e, j) /\ Len(used') + 1 = Len(used) + 2
                    BY <3>1, <3>2
                <5> QED
                    BY <5>2, <5>3, <5>4 DEF Based
            <4>2. CASE j # h
                <5>1. nodes'[j] = nodes[j] /\ Based(e, j)
                    BY <2>3, <3>4, <4>2 DEF BasedInv
                <5>2. 2..(Len(used) + 1) \subseteq 2..(Len(used') + 1)
                    BY <3>1
                <5>3. BaseName(e, j)' = BaseName(e, j)
                    BY <3>2
                <5> QED
                    BY <5>1, <5>2, <5>3 DEF Based
            <4> QED
                BY <4>1, <4>2
        <3> QED
            BY <2>1, <3>2, <3>4 DEF BasedInv
    <2> QED
        BY <1>4, <2>2, <2>3, NameGiven
<1>5. CASE NextElement \/ Emit \/ CleanUp \/ UNCHANGED vars
    BY <1>2, <1>5 DEF NextElement, Emit, EmitProxies, EmitGroup, Fault, GroupsEmitted, ListGroup,
                      EmitTop, CleanUp, vars, arrays
<1>6. CASE ParseRoot \/ Collect
    BY <1>3, <1>6 DEF ParseRoot, Collect, SkipElement, EnterElement, SkipOutbound, PushNode,
                      LeaveElement, Collected, Collecting
<1> QED
    BY <1>4, <1>5, <1>6 DEF Next, Ended

-----------------------------------------------------------------------------
(* Ranks among the elements *)

LEMMA Ranks ==
    ASSUME TypeOK, NEW S, S \subseteq 1..nelem
    PROVE  /\ \A e : Rank(S, e) \in Nat
           /\ Rank(S, 1) = 0
           /\ \A e \in Nat : e > nelem => Rank(S, e) = Cardinality(S)
           /\ \A e \in 1..nelem : Rank(S, e + 1) = Rank(S, e) + IF e \in S THEN 1 ELSE 0
           /\ \A e, f \in Nat : e <= f => Rank(S, e) <= Rank(S, f)
<1>1. nelem \in Nat /\ IsFiniteSet(1..nelem)
    BY DocType, FS_Interval
<1> HIDE DEF nelem
<1>2. nelem \in Nat /\ \A f \in S : f \in Nat /\ f >= 1 /\ f <= nelem
    BY <1>1
<1>3. IsFiniteSet(S)
    BY <1>1, FS_Subset
<1>4. ASSUME NEW e
      PROVE  IsFiniteSet({f \in S : f < e}) /\ Rank(S, e) \in Nat
    <2>1. {f \in S : f < e} \subseteq S
        OBVIOUS
    <2>2. IsFiniteSet({f \in S : f < e})
        BY <1>3, <2>1, FS_Subset
    <2> QED
        BY <2>2, FS_CardinalityType DEF Rank
<1>5. Rank(S, 1) = 0
    <2>1. \A f \in S : ~(f < 1)
        BY <1>2
    <2>2. {f \in S : f < 1} = {}
        BY <2>1
    <2> QED
        BY <2>2, FS_EmptySet DEF Rank
<1>6. ASSUME NEW e \in Nat, e > nelem
      PROVE  Rank(S, e) = Cardinality(S)
    <2>1. \A f \in S : f < e
        BY <1>2, <1>6
    <2>2. {f \in S : f < e} = S
        BY <2>1
    <2> QED
        BY <2>2 DEF Rank
<1>7. ASSUME NEW e \in 1..nelem
      PROVE  Rank(S, e + 1) = Rank(S, e) + IF e \in S THEN 1 ELSE 0
    <2> DEFINE before == {f \in S : f < e}
    <2>1. \A f \in S : f < e + 1 <=> f < e \/ f = e
        BY <1>2
    <2>2. ~(e < e)
        BY <1>2
    <2>3. CASE e \in S
        <3>1. {f \in S : f < e + 1} = before \cup {e} /\ e \notin before
            BY <2>3, <2>1, <2>2
        <3>2. Cardinality(before \cup {e}) = Cardinality(before) + 1
            BY <1>4, <3>1, FS_AddElement
        <3> QED
            BY <2>3, <3>1, <3>2 DEF Rank
    <2>4. CASE e \notin S
        <3>1. {f \in S : f < e + 1} = before
            BY <2>4, <2>1
        <3>2. Rank(S, e) \in Nat
            BY <1>4
        <3>3. Rank(S, e + 1) = Rank(S, e)
            BY <3>1 DEF Rank
        <3> QED
            BY <2>4, <3>2, <3>3
    <2> QED
        BY <2>3, <2>4
<1>8. ASSUME NEW e \in Nat, NEW f \in Nat, e <= f
      PROVE  Rank(S, e) <= Rank(S, f)
    <2>1. \A g \in S : g < e => g < f
        BY <1>2, <1>8
    <2>2. {g \in S : g < e} \subseteq {g \in S : g < f}
        BY <2>1
    <2> QED
        BY <1>4, <2>2, FS_Subset DEF Rank
<1> QED
    BY <1>4, <1>5, <1>6, <1>7, <1>8

\* The group of an element, and the one that tests its proxies, are in front of
\* those of the next.
LEMMA Slots ==
    ASSUME TypeOK
    PROVE  /\ \A e : GroupAt(e) \in Nat /\ GroupAt(e) >= 1 /\ Rank(Sources, e) \in Nat
           /\ GroupAt(1) = 1 /\ Rank(Sources, 1) = 0
           /\ \A e \in Nat : e > nelem => GroupAt(e) = GroupAt(nelem + 1) /\ Rank(Sources, e) = Cardinality(Sources)
           /\ \A e \in 1..nelem \ Sources :
                GroupAt(e + 1) = GroupAt(e) /\ Rank(Sources, e + 1) = Rank(Sources, e)
           /\ \A e \in Sources :
                /\ Rank(Sources, e + 1) = Rank(Sources, e) + 1
                /\ GroupAt(e + 1) = GroupAt(e) + IF doc.elems[e].bal = None THEN 1 ELSE 2
           /\ \A e \in Sources, f \in Nat : e < f =>
                /\ Rank(Sources, e) + 1 <= Rank(Sources, f)
                /\ GroupAt(e) + (IF doc.elems[e].bal = None THEN 1 ELSE 2) <= GroupAt(f)
<1>1. Sources \subseteq 1..nelem /\ Tested \subseteq 1..nelem /\ Tested \subseteq Sources /\ nelem \in Nat
    BY DocType DEF Sources, Tested
<1>2. \A e \in Sources : e \in Tested <=> doc.elems[e].bal # None
    BY DEF Tested
<1> HIDE DEF nelem
<1>3. /\ \A e : Rank(Sources, e) \in Nat
      /\ Rank(Sources, 1) = 0
      /\ \A e \in Nat : e > nelem => Rank(Sources, e) = Cardinality(Sources)
      /\ \A e \in 1..nelem : Rank(Sources, e + 1) = Rank(Sources, e) + IF e \in Sources THEN 1 ELSE 0
      /\ \A e, f \in Nat : e <= f => Rank(Sources, e) <= Rank(Sources, f)
    BY <1>1, Ranks
<1>4. /\ \A e : Rank(Tested, e) \in Nat
      /\ Rank(Tested, 1) = 0
      /\ \A e \in Nat : e > nelem => Rank(Tested, e) = Cardinality(Tested)
      /\ \A e \in 1..nelem : Rank(Tested, e + 1) = Rank(Tested, e) + IF e \in Tested THEN 1 ELSE 0
      /\ \A e, f \in Nat : e <= f => Rank(Tested, e) <= Rank(Tested, f)
    BY <1>1, Ranks
<1>5. \A e : GroupAt(e) = Rank(Sources, e) + Rank(Tested, e) + 1
    BY DEF GroupAt
<1>6. \A e : GroupAt(e) \in Nat /\ GroupAt(e) >= 1
    BY <1>3, <1>4, <1>5
<1>7. GroupAt(1) = 1
    BY <1>3, <1>4, <1>5
<1>8. ASSUME NEW e \in Nat, e > nelem
      PROVE  GroupAt(e) = GroupAt(nelem + 1)
    <2>1. nelem + 1 \in Nat /\ nelem + 1 > nelem
        BY <1>1
    <2> QED
        BY <1>3, <1>4, <1>5, <1>8, <2>1
<1>9. ASSUME NEW e \in 1..nelem, e \notin Sources
      PROVE  GroupAt(e + 1) = GroupAt(e) /\ Rank(Sources, e + 1) = Rank(Sources, e)
    BY <1>1, <1>3, <1>4, <1>5, <1>9
<1>10. ASSUME NEW e \in Sources
       PROVE  /\ Rank(Sources, e + 1) = Rank(Sources, e) + 1
              /\ GroupAt(e + 1) = GroupAt(e) + IF doc.elems[e].bal = None THEN 1 ELSE 2
    <2>1. e \in 1..nelem
        BY <1>1
    <2>2. Rank(Sources, e + 1) = Rank(Sources, e) + 1
        BY <1>3, <2>1
    <2>3. Rank(Tested, e + 1) = Rank(Tested, e) + IF doc.elems[e].bal = None THEN 0 ELSE 1
        BY <1>2, <1>4, <2>1
    <2>4. /\ Rank(Sources, e) \in Nat /\ Rank(Tested, e) \in Nat
          /\ GroupAt(e) = Rank(Sources, e) + Rank(Tested, e) + 1
          /\ GroupAt(e + 1) = Rank(Sources, e + 1) + Rank(Tested, e + 1) + 1
        BY <1>3, <1>4, <1>5
    <2>5. CASE doc.elems[e].bal = None
        BY <2>2, <2>3, <2>4, <2>5
    <2>6. CASE doc.elems[e].bal # None
        BY <2>2, <2>3, <2>4, <2>6
    <2> QED
        BY <2>5, <2>6
<1>11. ASSUME NEW e \in Sources, NEW f \in Nat, e < f
       PROVE  /\ Rank(Sources, e) + 1 <= Rank(Sources, f)
              /\ GroupAt(e) + (IF doc.elems[e].bal = None THEN 1 ELSE 2) <= GroupAt(f)
    <2>1. e + 1 \in Nat /\ e + 1 <= f
        BY <1>1, <1>11
    <2>2. Rank(Sources, e + 1) <= Rank(Sources, f) /\ Rank(Tested, e + 1) <= Rank(Tested, f)
        BY <1>3, <1>4, <2>1
    <2>3. GroupAt(e + 1) <= GroupAt(f)
        BY <1>3, <1>4, <1>5, <2>2
    <2> QED
        BY <1>10, <2>2, <2>3
<1> QED
    BY <1>3, <1>6, <1>7, <1>8, <1>9, <1>10, <1>11

\* An element with proxies is one meta[] gives a count.
LEMMA SourceIs ==
    ASSUME TypeOK, ReadInv, Later, NEW e \in 1..nelem
    PROVE  /\ e \in Sources <=> meta[e].count > 0
           /\ Count(e) \in Nat /\ First(e) \in Nat
           /\ e \in Sources => /\ meta[e].first = First(e) /\ meta[e].count = Count(e)
                               /\ meta[e].group = doc.elems[e].group /\ meta[e].bal = doc.elems[e].bal
<1>1. Recorded(e) /\ IsFiniteSet(LinksTo(nelem + 1, 1))
    BY DEF ReadInv, Stored
<1>2. LinksTo(e + 1, 1) \subseteq LinksTo(nelem + 1, 1)
    <2>1. LinksTo(nelem + 1, 1) = Links
        BY LinksGrow, DocType
    <2> QED
        BY <2>1 DEF LinksTo
<1>3. IsFiniteSet(LinksTo(e + 1, 1))
    BY <1>1, <1>2, FS_Subset
<1>4. Count(e) \in Nat /\ First(e) \in Nat /\ (~doc.elems[e].object => Count(e) = 0)
    BY <1>3, CountIs
<1>5. e \in Sources <=> Count(e) > 0
    BY DEF Sources
<1>6. CASE doc.elems[e].object
    BY <1>1, <1>4, <1>5, <1>6 DEF Recorded
<1>7. CASE ~doc.elems[e].object
    BY <1>1, <1>4, <1>5, <1>7 DEF Recorded, NoMeta
<1> QED
    BY <1>6, <1>7

\* The members of its groups are its proxies.
LEMMA ProxiesAre ==
    ASSUME TypeOK, MetaInv, ReadInv, YamlInv, pc \in Emitting, NEW e \in Sources
    PROVE  Proxies(e) = Members(e)
<1>1. e \in 1..nelem /\ Later /\ e \in DOMAIN meta
    BY MetaType DEF Sources, Later, MetaInv, Passes
<1>2. meta[e].first = First(e) /\ meta[e].count = Count(e) /\ First(e) \in Nat /\ Count(e) \in Nat
    BY <1>1, SourceIs
<1>3. First(e) + Count(e) <= nlen /\ nlen \in Nat
    BY <1>1, <1>2, NodeType DEF MetaInv, End
<1>4. yaml.proxies = [j \in 1..nlen |-> nodes[j].name]
    BY DEF YamlInv
<1>5. \A m \in 1..Count(e) : First(e) + m \in 1..nlen
    BY <1>2, <1>3
<1>6. \A m \in 1..Count(e) : yaml.proxies[First(e) + m] = nodes[First(e) + m].name
    BY <1>4, <1>5
<1> QED
    BY <1>2, <1>6 DEF Proxies, Members

-----------------------------------------------------------------------------
(* Where what is emitted is *)

Selecting(e) == Group("select", doc.elems[e].group, Append(Proxies(e), DIRECT))
Testing(e)   == Group("url-test", Suffixed(doc.elems[e].group, doc.elems[e].bal), Proxies(e))

Emitted(e) ==
    /\ yaml.groups[GroupAt(e)] = Selecting(e)
    /\ doc.elems[e].bal # None => yaml.groups[GroupAt(e) + 1] = Testing(e)

\* The groups of the elements before e are listed.
ListedTo(e) ==
    /\ Len(yaml.top) = Rank(Sources, e)
    /\ \A f \in Sources : f < e => yaml.top[Rank(Sources, f) + 1] = doc.elems[f].group

OutInv ==
    /\ pc = "groups" => Len(yaml.groups) + 1 = GroupAt(i) /\ \A e \in Sources : e < i => Emitted(e)
    /\ pc = "top" =>
         /\ Len(yaml.groups) + 1 = GroupAt(nelem + 1) /\ \A e \in Sources : Emitted(e)
         /\ ListedTo(i)
    /\ rc = 0 =>
         /\ Len(yaml.groups) = GroupAt(nelem + 1) /\ \A e \in Sources : Emitted(e)
         /\ Listing = TopGroup /\ ListedTo(nelem + 1)

\* Groups stay where they are when others are appended.
LEMMA EmittedKept ==
    ASSUME TypeOK, [Next]_vars, yaml'.proxies = yaml.proxies,
           NEW n \in Nat, GroupAt(n) <= Len(yaml.groups) + 1,
           \A j \in 1..Len(yaml.groups) : yaml'.groups[j] = yaml.groups[j],
           NEW e \in Sources, e < n, Emitted(e)
    PROVE  Emitted(e)'
<1>1. Proxies(e)' = Proxies(e) /\ doc' = doc /\ GroupAt(e)' = GroupAt(e)
    BY DocKept DEF Proxies
<1>2. Selecting(e)' = Selecting(e) /\ Testing(e)' = Testing(e)
    BY <1>1 DEF Selecting, Testing
<1>3. /\ GroupAt(e) + (IF doc.elems[e].bal = None THEN 1 ELSE 2) <= GroupAt(n)
      /\ GroupAt(e) \in Nat /\ GroupAt(e) >= 1 /\ GroupAt(n) \in Nat
    BY Slots
<1>4. Len(yaml.groups) \in Nat
    BY YamlType
<1>5. /\ GroupAt(e) \in 1..Len(yaml.groups)
      /\ doc.elems[e].bal # None => GroupAt(e) + 1 \in 1..Len(yaml.groups)
    BY <1>3, <1>4
<1> QED
    BY <1>1, <1>2, <1>5 DEF Emitted

LEMMA OutStep ==
    ASSUME TypeOK, MetaInv, StartInv, NameInv, YamlInv, ReadInv, OutInv, [Next]_vars, TypeOK'
    PROVE  OutInv'
<1>1. /\ doc' = doc /\ Sources' = Sources /\ nelem \in Nat /\ i \in Nat /\ i >= 1
      /\ \A e : GroupAt(e)' = GroupAt(e) /\ Rank(Sources, e)' = Rank(Sources, e)
      /\ Sources \subseteq 1..nelem
    <2>1. \A e : Rank(Sources, e)' = Rank(Sources, e)
        BY DocKept DEF Rank
    <2>2. Sources \subseteq 1..nelem
        BY DEF Sources
    <2> QED
        BY <2>1, <2>2, DocKept, DocType, TypesAre DEF Types, MetaInv
<1>2. PICK n \in Nat : n = i
    BY <1>1
<1>3. rc = 0 => pc \in {"out", "done"}
    BY DEF StartInv
<1>4. ASSUME pc' \notin Emitting, rc' # 0
      PROVE  OutInv'
    BY <1>4 DEF OutInv, Emitting
<1>5. ASSUME yaml' = yaml, NEW e
      PROVE  (Emitted(e) => Emitted(e)') /\ (ListedTo(e) => ListedTo(e)')
    <2>1. Proxies(e)' = Proxies(e)
        BY <1>5, DocKept DEF Proxies
    <2>2. Selecting(e)' = Selecting(e) /\ Testing(e)' = Testing(e)
        BY <1>1, <2>1 DEF Selecting, Testing
    <2> QED
        BY <1>1, <1>5, <2>2 DEF Emitted, ListedTo
<1>6. nelem + 1 \in Nat /\ nelem + 1 > nelem
    BY <1>1
<1>7. CASE ParseRoot \/ Collect \/ NameNode \/ Fault
    <2>1. CASE PushNode
        BY <1>3, <1>4, <2>1, NodePushed DEF Emitting
    <2>2. CASE ParseRoot
        BY <1>3, <1>4, <2>2 DEF ParseRoot, Fail, Emitting
    <2>3. CASE SkipElement \/ EnterElement \/ SkipOutbound \/ LeaveElement
        BY <1>3, <1>4, <2>3 DEF SkipElement, EnterElement, SkipOutbound, LeaveElement, Emitting
    <2>4. CASE Collected
        BY <1>3, <1>4, <2>4 DEF Collected, Fail, Emitting
    <2>5. CASE NameNode
        BY <1>3, <1>4, <2>5 DEF NameNode, Emitting
    <2>6. CASE Fault
        BY <1>3, <1>4, <2>6 DEF Fault, Emitting
    <2> QED
        BY <1>7, <2>1, <2>2, <2>3, <2>4, <2>5, <2>6 DEF Collect
<1>8. CASE NextElement
    <2>1. UNCHANGED <<pc, yaml, rc>> /\ i' = n + 1 /\ i \in 1..nelem
        BY <1>1, <1>2, <1>8 DEF NextElement
    <2>2. CASE pc = "names"
        BY <1>3, <1>4, <2>1, <2>2 DEF Emitting
    <2>3. ASSUME pc \in Emitting
          PROVE  /\ n \notin Sources /\ GroupAt(n + 1) = GroupAt(n) /\ Rank(Sources, n + 1) = Rank(Sources, n)
                 /\ \A e \in Sources : e < n + 1 <=> e < n
        <3>1. ~(meta[i].count > 0)
            BY <1>8, <2>3 DEF NextElement, IsListed, Emitting
        <3>2. n \notin Sources
            BY <1>2, <2>1, <2>3, <3>1, SourceIs DEF Later
        <3>3. \A e \in Sources : e < n + 1 <=> e < n
            BY <1>1, <3>2
        <3> QED
            BY <1>2, <2>1, <3>2, <3>3, Slots
    <2>4. CASE pc = "groups"
        BY <1>1, <1>2, <1>3, <1>5, <2>1, <2>3, <2>4 DEF OutInv, Emitting
    <2>5. CASE pc = "top"
        <3>1. ListedTo(n + 1)'
            <4>1. ListedTo(n)
                BY <1>2, <2>5 DEF OutInv
            <4>2. ListedTo(n + 1)
                BY <2>3, <2>5, <4>1 DEF ListedTo, Emitting
            <4> QED
                BY <1>5, <2>1, <4>2
        <3> QED
            BY <1>1, <1>3, <1>5, <2>1, <2>5, <3>1 DEF OutInv, Emitting
    <2> QED
        BY <1>8, <2>2, <2>4, <2>5 DEF NextElement
<1>9. CASE EmitProxies
    <2>1. /\ pc = "names" /\ pc' = "groups" /\ i' = 1 /\ rc' = rc
          /\ \E names : yaml' = [yaml EXCEPT !.proxies = names]
        BY <1>9 DEF EmitProxies
    <2>2. yaml'.groups = << >>
        BY <2>1, YamlType DEF StartInv, YamlRecord
    <2>3. GroupAt(1)' = 1
        BY <1>1, Slots
    <2>4. \A e \in Sources : ~(e < 1)
        BY <1>1
    <2> QED
        BY <1>1, <1>3, <2>1, <2>2, <2>3, <2>4 DEF OutInv
<1>10. CASE EmitGroup
    <2>1. /\ pc = "groups" /\ pc' = "groups" /\ i' = n + 1 /\ rc' = rc /\ i \in 1..nelem /\ meta[i].count > 0
        BY <1>1, <1>2, <1>10 DEF EmitGroup
    <2>2. /\ n \in Sources /\ meta[n].group = doc.elems[n].group /\ meta[n].bal = doc.elems[n].bal
        BY <1>2, <2>1, SourceIs DEF Later, Emitting
    <2>3. Members(n) = Proxies(n)
        BY <2>1, <2>2, ProxiesAre DEF Emitting
    <2>4. SelectGroup = Selecting(n) /\ TestGroup = Testing(n)
        BY <1>2, <2>2, <2>3 DEF SelectGroup, TestGroup, Selecting, Testing
    <2>5. yaml'.groups = yaml.groups \o ElementGroups /\ yaml'.proxies = yaml.proxies
        <3>1. yaml' = [yaml EXCEPT !.groups = yaml.groups \o ElementGroups]
            BY <1>10, GroupEmitted
        <3> QED
            BY <3>1, YamlType DEF YamlRecord
    <2>6. /\ SelectGroup \in GroupRecord
          /\ meta[i].bal # None => TestGroup \in GroupRecord
          /\ yaml.groups \in Seq(GroupRecord) /\ Len(yaml.groups) \in Nat
        BY <1>10, GroupEmitted, YamlType
    <2> HIDE DEF SelectGroup, TestGroup
    <2>7. /\ ElementGroups \in Seq(GroupRecord)
          /\ Len(ElementGroups) = IF meta[i].bal = None THEN 1 ELSE 2
          /\ ElementGroups[1] = SelectGroup
          /\ meta[i].bal # None => ElementGroups[2] = TestGroup
        <3>1. CASE meta[i].bal = None
            BY <2>6, <3>1 DEF ElementGroups
        <3>2. CASE meta[i].bal # None
            <4>1. ElementGroups = <<SelectGroup>> \o <<TestGroup>>
                BY <3>2 DEF ElementGroups
            <4>2. \A s, t \in Seq(GroupRecord) : /\ s \o t \in Seq(GroupRecord) /\ Len(s \o t) = Len(s) + Len(t)
                                                 /\ \A j \in 1..(Len(s) + Len(t)) :
                                                      (s \o t)[j] = IF j <= Len(s) THEN s[j] ELSE t[j - Len(s)]
                BY ConcatProperties
            <4>3. /\ <<SelectGroup>> \in Seq(GroupRecord) /\ <<TestGroup>> \in Seq(GroupRecord)
                  /\ Len(<<SelectGroup>>) = 1 /\ Len(<<TestGroup>>) = 1
                BY <2>6, <3>2
            <4>4. ElementGroups[1] = <<SelectGroup>>[1] /\ ElementGroups[2] = <<TestGroup>>[1]
                  /\ Len(ElementGroups) = 2 /\ ElementGroups \in Seq(GroupRecord)
                BY <4>1, <4>2, <4>3
            <4> QED
                BY <3>2, <4>4
        <3> QED
            BY <3>1, <3>2
    <2>8. /\ Len(yaml'.groups) = Len(yaml.groups) + Len(ElementGroups)
          /\ \A j \in 1..Len(yaml.groups) : yaml'.groups[j] = yaml.groups[j]
          /\ \A j \in 1..Len(ElementGroups) : yaml'.groups[Len(yaml.groups) + j] = ElementGroups[j]
        <3>1. PICK s \in Seq(GroupRecord) : s = yaml.groups
            BY <2>6
        <3>2. PICK t \in Seq(GroupRecord) : t = ElementGroups
            BY <2>7
        <3>3. /\ Len(s \o t) = Len(s) + Len(t) /\ Len(s) \in Nat /\ Len(t) \in Nat
              /\ \A j \in 1..(Len(s) + Len(t)) :
                   (s \o t)[j] = IF j <= Len(s) THEN s[j] ELSE t[j - Len(s)]
            BY ConcatProperties
        <3>4. \A j \in 1..Len(s) : (s \o t)[j] = s[j]
            BY <3>3
        <3>5. \A j \in 1..Len(t) : (s \o t)[Len(s) + j] = t[j]
            <4> SUFFICES ASSUME NEW j \in 1..Len(t) PROVE (s \o t)[Len(s) + j] = t[j]
                OBVIOUS
            <4>1. Len(s) + j \in 1..(Len(s) + Len(t)) /\ ~(Len(s) + j <= Len(s)) /\ Len(s) + j - Len(s) = j
                BY <3>3
            <4> QED
                BY <3>3, <4>1
        <3>6. yaml'.groups = s \o t
            BY <2>5, <3>1, <3>2
        <3> QED
            BY <3>1, <3>2, <3>3, <3>4, <3>5, <3>6
    <2>9. Len(yaml.groups) + 1 = GroupAt(n)
        BY <1>2, <2>1 DEF OutInv
    <2>10. GroupAt(n + 1) = GroupAt(n) + IF doc.elems[n].bal = None THEN 1 ELSE 2
        BY <2>2, Slots
    <2>11. Len(yaml'.groups) + 1 = GroupAt(n + 1)'
        <3>1. GroupAt(n + 1)' = GroupAt(n + 1)
            BY <1>1
        <3>2. PICK d \in Nat : d = IF doc.elems[n].bal = None THEN 1 ELSE 2
            OBVIOUS
        <3>3. Len(ElementGroups) = d
            BY <1>2, <2>2, <2>7, <3>2
        <3>4. GroupAt(n + 1) = GroupAt(n) + d
            BY <2>10, <3>2
        <3>5. Len(yaml'.groups) = Len(yaml.groups) + d
            BY <2>8, <3>3
        <3>6. Len(yaml'.groups) + 1 = GroupAt(n) + d
            BY <2>6, <2>9, <3>5
        <3> QED
            BY <3>1, <3>4, <3>6
    <2>12. Emitted(n)'
        <3>1. yaml'.groups[GroupAt(n)] = Selecting(n)
            BY <1>2, <2>4, <2>6, <2>7, <2>8, <2>9
        <3>2. doc.elems[n].bal # None => yaml'.groups[GroupAt(n) + 1] = Testing(n)
            <4>1. ASSUME doc.elems[n].bal # None
                  PROVE  yaml'.groups[GroupAt(n) + 1] = Testing(n)
                <5>1. Len(ElementGroups) = 2 /\ ElementGroups[2] = Testing(n)
                    BY <1>2, <2>2, <2>4, <2>7, <4>1
                <5>2. GroupAt(n) + 1 = Len(yaml.groups) + 2 /\ 2 \in 1..Len(ElementGroups)
                    BY <2>6, <2>9, <5>1
                <5> QED
                    BY <2>8, <5>1, <5>2
            <4> QED
                BY <4>1
        <3>3. Proxies(n)' = Proxies(n)
            BY <2>5, DocKept DEF Proxies
        <3>4. Selecting(n)' = Selecting(n) /\ Testing(n)' = Testing(n)
            BY <1>1, <3>3 DEF Selecting, Testing
        <3> QED
            BY <1>1, <3>1, <3>2, <3>4 DEF Emitted
    <2>13. ASSUME NEW e \in Sources, e < n + 1
           PROVE  Emitted(e)'
        <3>1. CASE e = n
            BY <2>12, <3>1
        <3>2. CASE e # n
            <4>1. e < n
                BY <1>1, <2>13, <3>2
            <4>2. Emitted(e)
                BY <1>2, <2>1, <4>1 DEF OutInv
            <4>3. GroupAt(n) <= Len(yaml.groups) + 1
                BY <2>6, <2>9
            <4> QED
                BY <2>5, <2>8, <4>1, <4>2, <4>3, EmittedKept
        <3> QED
            BY <3>1, <3>2
    <2> QED
        BY <1>1, <1>3, <2>1, <2>11, <2>13 DEF OutInv
<1>11. CASE GroupsEmitted
    <2>1. /\ pc = "groups" /\ pc' = "top" /\ i > nelem /\ i' = 1 /\ yaml' = yaml /\ rc' = rc
        BY <1>11 DEF GroupsEmitted
    <2>2. Len(yaml.groups) + 1 = GroupAt(nelem + 1)'
        BY <1>1, <2>1, Slots DEF OutInv
    <2>3. \A e \in Sources : Emitted(e)'
        BY <1>1, <1>5, <2>1 DEF OutInv
    <2>4. ListedTo(1)'
        <3>1. yaml.top = << >> /\ Rank(Sources, 1) = 0 /\ \A f \in Sources : ~(f < 1)
            BY <1>1, <2>1, Slots DEF StartInv
        <3> QED
            BY <1>1, <2>1, <3>1 DEF ListedTo
    <2> QED
        BY <1>1, <1>3, <2>1, <2>2, <2>3, <2>4 DEF OutInv
<1>12. CASE ListGroup
    <2>1. /\ pc = "top" /\ pc' = "top" /\ i' = n + 1 /\ i \in 1..nelem /\ meta[i].count > 0 /\ rc' = rc
          /\ yaml' = [yaml EXCEPT !.top = Append(yaml.top, meta[i].group)]
        BY <1>1, <1>2, <1>12 DEF ListGroup, IsListed
    <2>2. n \in Sources /\ meta[i].group = doc.elems[n].group /\ doc.elems[n].group \in Name
        BY <1>2, <2>1, SourceIs, DocType DEF Later, Emitting
    <2>3. /\ yaml'.groups = yaml.groups /\ yaml'.proxies = yaml.proxies
          /\ yaml'.top = Append(yaml.top, doc.elems[n].group)
        BY <2>1, <2>2, YamlType DEF YamlRecord
    <2>4. \A e \in Sources : Emitted(e)'
        <3>1. \A e \in Sources : Proxies(e)' = Proxies(e) /\ Emitted(e)
            BY <2>1, <2>3, DocKept DEF Proxies, OutInv
        <3> QED
            BY <1>1, <2>3, <3>1 DEF Emitted, Selecting, Testing
    <2>5. /\ yaml.top \in Seq(Name) /\ Len(yaml'.top) = Len(yaml.top) + 1
          /\ yaml'.top[Len(yaml.top) + 1] = doc.elems[n].group
          /\ \A j \in 1..Len(yaml.top) : yaml'.top[j] = yaml.top[j]
        BY <2>2, <2>3, YamlType, AppendProperties
    <2>6. ListedTo(n)
        BY <1>2, <2>1 DEF OutInv
    <2>7. ListedTo(n + 1)'
        <3>1. Len(yaml'.top) = Rank(Sources, n + 1)
            BY <2>2, <2>5, <2>6, Slots DEF ListedTo
        <3>2. ASSUME NEW f \in Sources, f < n + 1
              PROVE  yaml'.top[Rank(Sources, f) + 1] = doc.elems[f].group
            <4>1. CASE f = n
                BY <2>5, <2>6, <4>1 DEF ListedTo
            <4>2. CASE f # n
                <5>1. f < n
                    BY <1>1, <3>2, <4>2
                <5>2. Rank(Sources, f) + 1 <= Rank(Sources, n) /\ Rank(Sources, f) \in Nat
                    BY <5>1, Slots
                <5>3. Rank(Sources, f) + 1 \in 1..Len(yaml.top)
                    BY <2>5, <2>6, <5>2 DEF ListedTo
                <5> QED
                    BY <2>5, <2>6, <5>1, <5>3 DEF ListedTo
            <4> QED
                BY <4>1, <4>2
        <3> QED
            BY <1>1, <3>1, <3>2 DEF ListedTo
    <2> QED
        BY <1>1, <1>3, <2>1, <2>3, <2>4, <2>7 DEF OutInv
<1>13. CASE EmitTop
    <2>1. /\ pc = "top" /\ i > nelem /\ pc' = "out"
          /\ yaml' = [yaml EXCEPT !.groups = Append(yaml.groups, TopGroup)]
        BY <1>13 DEF EmitTop, TopGroup
    <2>2. /\ yaml'.proxies = yaml.proxies /\ yaml'.top = yaml.top
          /\ yaml'.groups = Append(yaml.groups, TopGroup)
        BY <2>1, YamlType DEF YamlRecord
    <2>3. /\ Len(yaml'.groups) = Len(yaml.groups) + 1 /\ yaml'.groups[Len(yaml.groups) + 1] = TopGroup
          /\ \A j \in 1..Len(yaml.groups) : yaml'.groups[j] = yaml.groups[j]
        BY <2>2, YamlType, TopType, AppendProperties
    <2>4. /\ Len(yaml.groups) + 1 = GroupAt(nelem + 1) /\ \A e \in Sources : Emitted(e)
          /\ ListedTo(n)
        BY <1>2, <2>1 DEF OutInv
    <2>5. Len(yaml'.groups) = GroupAt(nelem + 1)'
        BY <1>1, <2>3, <2>4
    <2>6. ASSUME NEW e \in Sources
          PROVE  Emitted(e)'
        <3>1. e < n
            BY <1>1, <1>2, <2>1
        <3>2. GroupAt(n) <= Len(yaml.groups) + 1
            <4>1. GroupAt(n) = GroupAt(nelem + 1) /\ GroupAt(n) \in Nat
                BY <1>2, <2>1, Slots
            <4> QED
                BY <2>4, <4>1
        <3> QED
            BY <2>2, <2>3, <2>4, <3>1, <3>2, EmittedKept
    <2>7. Listing' = TopGroup'
        BY <2>2, <2>3 DEF Listing, TopGroup
    <2>8. ListedTo(nelem + 1)'
        <3>1. Len(yaml.top) = Rank(Sources, nelem + 1)
            BY <1>2, <1>6, <2>1, <2>4, Slots DEF ListedTo
        <3>2. \A f \in Sources : yaml.top[Rank(Sources, f) + 1] = doc.elems[f].group
            BY <1>1, <1>2, <2>1, <2>4 DEF ListedTo
        <3> QED
            BY <1>1, <2>2, <3>1, <3>2 DEF ListedTo, Rank
    <2> QED
        BY <1>1, <2>1, <2>5, <2>6, <2>7, <2>8 DEF OutInv
<1>14. CASE CleanUp \/ UNCHANGED vars
    <2>1. /\ yaml' = yaml /\ rc' = rc
          /\ pc' \in Emitting => (pc' = pc /\ i' = i)
          /\ pc' = "out" => pc = "out"
        BY <1>14 DEF CleanUp, vars, Emitting
    <2>2. Listing' = Listing /\ TopGroup' = TopGroup
        BY <2>1 DEF Listing, TopGroup
    <2>3. \A e : (Emitted(e) => Emitted(e)') /\ (ListedTo(e) => ListedTo(e)')
        BY <1>5, <2>1
    <2>4. i' = i => i' = n /\ (ListedTo(n) => ListedTo(n)')
        BY <1>2, <2>3
    <2>5. ListedTo(nelem + 1) => ListedTo(nelem + 1)'
        <3>1. PICK x \in Nat : x = nelem + 1
            BY <1>6
        <3> QED
            BY <1>1, <2>3, <3>1 DEF ListedTo
    <2> QED
        BY <1>1, <1>2, <2>1, <2>2, <2>3, <2>4, <2>5 DEF OutInv, Emitting
<1> QED
    BY <1>7, <1>8, <1>9, <1>10, <1>11, <1>12, <1>13, <1>14 DEF Next, Emit, Ended

-----------------------------------------------------------------------------
(* The theorems *)

LEMMA SingboxInitially == Init => Inv
<1> SUFFICES ASSUME Init PROVE Inv
    OBVIOUS
<1>1. /\ pc = "start" /\ i = 1 /\ k = 1 /\ rc = 1 /\ nodes = << >> /\ ncap = 0 /\ meta = << >> /\ used = << >>
      /\ room = [nodes |-> 0, tags |-> 0] /\ heap = {} /\ doc \in Docs
      /\ yaml = [proxies |-> << >>, groups |-> << >>, top |-> << >>]
    BY DEF Init
<1>2. nlen = 0 /\ Len(used) = 0 /\ DOMAIN meta = {}
    BY <1>1
<1>3. TypeOK
    <2>1. /\ nodes \in Seq(NodeRecord) /\ meta \in Seq(MetaRecord) /\ used \in Seq(Name)
          /\ yaml \in YamlRecord /\ room \in RoomRecord
        BY <1>1 DEF YamlRecord, RoomRecord
    <2>2. Types
        BY <1>1, <2>1 DEF Types, Points
    <2> QED
        BY <2>2, TypesAre
<1>4. MetaInv
    BY <1>1, <1>2 DEF MetaInv, Passes, Collecting, Emitting
<1>5. SizeInv
    BY <1>1, <1>2 DEF SizeInv
<1>6. StartInv
    BY <1>1, <1>2 DEF StartInv, Collecting
<1>7. NameInv
    BY <1>1, <1>2 DEF NameInv
<1>8. YamlInv
    BY <1>1 DEF YamlInv, Emitting
<1>9. HeapInv
    <2>1. Owed = {} /\ Result = {}
        <3>1. OwedYaml = {} /\ OwedRoom = {} /\ FreedMeta = {} /\ Result = {}
            BY <1>1, <1>2 DEF OwedYaml, OwedRoom, FreedMeta, Result
        <3>2. OwedNames = {} /\ OwedNodes = {} /\ OwedUsed = {}
            BY <1>1, <1>2 DEF OwedNames, OwedNodes, OwedUsed, Objs
        <3> QED
            BY <3>1, <3>2 DEF Owed
    <2> QED
        BY <1>1, <2>1, FreedIs DEF HeapInv
<1> QED
    BY <1>3, <1>4, <1>5, <1>6, <1>7, <1>8, <1>9 DEF Inv

LEMMA SingboxStep == Inv /\ [Next]_vars => Inv'
    BY TypeStep, MetaStep, SizeStep, StartStep, NameStep, YamlStep, HeapStep DEF Inv

\* The inductive invariant holds throughout.
THEOREM SingboxInvariant == Spec => []Inv
    BY SingboxInitially, SingboxStep, PTL DEF Spec

\* Every variable has its type.
THEOREM SingboxTypes == Spec => []TypeOK
<1>1. Inv => TypeOK
    BY DEF Inv
<1> QED
    BY <1>1, SingboxInvariant, PTL

\* nodes[] and tags[] are used within their capacities, and meta[] denotes nodes
\* there are, whichever realloc fails.
THEOREM SingboxInBounds == Spec => []InBounds
<1>1. Inv => InBounds
    BY DEF Inv, MetaInv, SizeInv, NameInv, End, InBounds
<1> QED
    BY <1>1, SingboxInvariant, PTL

\* `out' frees what is allocated and only that, wherever the conversion failed.
THEOREM SingboxNoLeak == Spec => []NoLeak
<1>1. ASSUME Inv
      PROVE  NoLeak
    <2>1. pc = "out" => Freed \subseteq heap
        BY <1>1 DEF Inv, HeapInv
    <2>2. \A o \in Result : o[1] = "out_yaml"
        BY DEF Result, Obj
    <2>3. ASSUME NEW o \in Lost
          PROVE  o[1] = "dropped sni"
        <3>1. PICK n \in Nat : o = Obj("dropped sni", n)
            BY DEF Lost
        <3> QED
            BY <3>1 DEF Obj
    <2>4. Obj("out_yaml", 0) \notin Lost
        <3>1. Obj("out_yaml", 0)[1] # "dropped sni"
            BY DEF Obj
        <3> QED
            BY <2>3, <3>1
    <2>5. pc = "done" => heap = Result \cup (heap \cap Lost)
        BY <1>1 DEF Inv, HeapInv
    <2>6. Obj("out_yaml", 0) \in Result <=> rc = 0
        BY DEF Result
    <2>7. ASSUME pc = "done"
          PROVE  /\ \A o \in heap : o[1] \in {"dropped sni", "out_yaml"}
                 /\ Obj("out_yaml", 0) \in heap <=> rc = 0
        BY <2>2, <2>3, <2>4, <2>5, <2>6, <2>7
    <2> QED
        BY <2>1, <2>7 DEF NoLeak
<1>2. Inv => NoLeak
    BY <1>1
<1> QED
    BY <1>2, SingboxInvariant, PTL

\* Every member of every group is a proxy, a group or DIRECT, and a proxy name
\* denotes one proxy.
THEOREM SingboxNoDangling == Spec => []NoDangling
<1>1. ASSUME Inv
      PROVE  NoDangling
    <2>1. SUFFICES ASSUME Converted
                   PROVE  /\ \A g \in Range(yaml.groups) :
                                Range(g.members) \subseteq Range(yaml.proxies) \cup GroupNames \cup {DIRECT}
                          /\ \A p, q \in DOMAIN yaml.proxies : yaml.proxies[p] = yaml.proxies[q] => p = q
                          /\ None \notin Range(yaml.proxies)
        BY DEF NoDangling, GroupNames
    <2>2. /\ yaml.proxies = [j \in 1..nlen |-> nodes[j].name]
          /\ \A j \in 1..nlen : nodes[j].name # None
          /\ \A g \in Range(yaml.groups) :
               Range(g.members) \subseteq Range(yaml.proxies) \cup GroupNames \cup {DIRECT}
        BY <1>1, <2>1 DEF Converted, Inv, YamlInv
    <2>3. \A j, h \in 1..nlen : nodes[j].name = nodes[h].name => j = h
        BY <1>1, <2>2 DEF Inv, NameInv
    <2>4. None \notin Range(yaml.proxies)
        BY <2>2 DEF Range
    <2> QED
        BY <2>2, <2>3, <2>4
<1>2. Inv => NoDangling
    BY <1>1
<1> QED
    BY <1>2, SingboxInvariant, PTL
\* With the records of what was read, named and emitted.
FullInv == Inv /\ ReadInv /\ BasedInv /\ OutInv

THEOREM SingboxRecords == Spec => []FullInv
<1>1. Init => FullInv
    <2> SUFFICES ASSUME Init PROVE FullInv
        OBVIOUS
    <2>1. Inv /\ pc = "start" /\ i = 1 /\ rc = 1 /\ nodes = << >> /\ meta = << >>
        BY SingboxInitially DEF Init
    <2>2. ReadInv
        BY <2>1 DEF ReadInv, Later, Emitting
    <2>3. BasedInv
        BY <2>1 DEF BasedInv
    <2>4. OutInv
        BY <2>1 DEF OutInv
    <2> QED
        BY <2>1, <2>2, <2>3, <2>4 DEF FullInv
<1>2. FullInv /\ [Next]_vars => FullInv'
    <2> SUFFICES ASSUME FullInv, [Next]_vars PROVE FullInv'
        OBVIOUS
    <2>1. Inv /\ Inv' /\ TypeOK'
        BY SingboxStep DEF FullInv, Inv
    <2>2. ReadInv'
        BY <2>1, ReadStep DEF FullInv, Inv
    <2>3. BasedInv'
        BY <2>1, BasedStep DEF FullInv, Inv
    <2>4. OutInv'
        BY <2>1, OutStep DEF FullInv, Inv
    <2> QED
        BY <2>1, <2>2, <2>3, <2>4 DEF FullInv
<1> QED
    BY <1>1, <1>2, PTL DEF Spec

\* What is emitted is what the document says: each proxy is one vless outbound,
\* each group where its element is, and PROXY lists them.
THEOREM SingboxFaithful == Spec => []Faithful
<1>1. ASSUME FullInv
      PROVE  Faithful
    <2>1. SUFFICES ASSUME Converted
                   PROVE  /\ Len(yaml.proxies) = Cardinality(Links)
                          /\ \A p \in Links :
                               LET name == yaml.proxies[Position(p)] IN
                               name = Own(p) \/ \E m \in 2..(Len(used) + 1) : name = Suffixed(Own(p), m)
                          /\ Len(yaml.groups) = GroupAt(nelem + 1)
                          /\ \A e \in Sources :
                               LET el == doc.elems[e] IN
                               /\ yaml.groups[GroupAt(e)] = Selecting(e)
                               /\ el.bal # None => yaml.groups[GroupAt(e) + 1] = Testing(e)
                               /\ Listing.members[Rank(Sources, e) + 1] = el.group
                          /\ Listing.type = "select" /\ Listing.name = PROXY
                          /\ Len(Listing.members) = Cardinality(Sources) + 1
                          /\ Listing.members[Len(Listing.members)] = DIRECT
        BY DEF Faithful, Selecting, Testing
    <2>2. /\ TypeOK /\ MetaInv /\ YamlInv /\ ReadInv /\ BasedInv /\ OutInv /\ Later /\ rc = 0
        BY <1>1, <2>1 DEF FullInv, Inv, Converted, Later
    <2>3. /\ Len(meta) = nelem /\ nelem \in Nat /\ nlen \in Nat /\ DOMAIN meta = 1..nelem
          /\ Stored(nelem + 1, 1) /\ \A e \in 1..nelem : Recorded(e)
        BY <2>2, DocType, NodeType, MetaType DEF ReadInv
    <2>4. LinksTo(nelem + 1, 1) = Links /\ IsFiniteSet(Links) /\ nlen = Cardinality(Links)
        <3>1. LinksTo(nelem + 1, 1) = Links
            BY <2>2, <2>3, LinksGrow
        <3> QED
            BY <2>3, <3>1 DEF Stored
    <2>5. /\ yaml.proxies = [j \in 1..nlen |-> nodes[j].name] /\ \A j \in 1..nlen : nodes[j].name # None
        BY <2>2 DEF YamlInv
    <2>6. Len(yaml.proxies) = Cardinality(Links)
        BY <2>3, <2>4, <2>5
    <2>7. ASSUME NEW p \in Links
          PROVE  LET name == yaml.proxies[Position(p)] IN
                 name = Own(p) \/ \E m \in 2..(Len(used) + 1) : name = Suffixed(Own(p), m)
        <3>1. PICK e \in 1..nelem : e = p[1] /\ doc.elems[e].object
            BY <2>2, LinksAre
        <3>2. PICK j \in 1..nlen : j = Position(p)
            <4>1. Position(p) \in 1..Cardinality(LinksTo(nelem + 1, 1))
                BY <2>2, <2>3, <2>4, PositionInside
            <4> QED
                BY <2>4, <4>1
        <3>3. /\ j \in (First(e) + 1)..(First(e) + Count(e)) /\ First(e) \in Nat /\ Count(e) \in Nat
            <4>1. IsFiniteSet(LinksTo(e + 1, 1))
                <5>1. LinksTo(e + 1, 1) \subseteq Links
                    BY DEF LinksTo
                <5> QED
                    BY <2>4, <5>1, FS_Subset
            <4> QED
                BY <2>2, <3>1, <3>2, <4>1, CountIs
        <3>4. /\ meta[e].first = First(e) /\ meta[e].count = Count(e) /\ meta[e].group = doc.elems[e].group
            <4>1. meta[e] = [first |-> First(e), count |-> Count(e),
                             group |-> doc.elems[e].group, bal |-> doc.elems[e].bal]
                <5>1. Recorded(e)
                    BY <2>3
                <5> QED
                    BY <3>1, <5>1 DEF Recorded
            <4> QED
                BY <4>1
        <3>5. OfElement(e, j)
            BY <3>3, <3>4 DEF OfElement, End
        <3>6. Based(e, j)
            BY <2>2, <2>3, <2>5, <3>5 DEF BasedInv
        <3>7. nodes[j].tag = doc.elems[e].outs[p[2]].tag
            BY <2>3, <2>4, <3>1, <3>2 DEF Stored, TagIs
        <3>8. BaseName(e, j) = Own(p)
            BY <3>1, <3>4, <3>7 DEF BaseName, Own
        <3>9. yaml.proxies[Position(p)] = nodes[j].name
            BY <2>5, <3>2
        <3> QED
            BY <3>6, <3>8, <3>9 DEF Based
    <2>8. /\ Len(yaml.groups) = GroupAt(nelem + 1) /\ \A e \in Sources : Emitted(e)
          /\ Listing = TopGroup /\ ListedTo(nelem + 1)
        BY <2>2 DEF OutInv
    <2>9. /\ Listing.type = "select" /\ Listing.name = PROXY /\ Listing.members = Append(yaml.top, DIRECT)
        BY <2>8 DEF TopGroup, Group
    <2>10. /\ yaml.top \in Seq(Name) /\ DIRECT \in Name
        BY <2>2, YamlType, FixedNames
    <2>11. /\ Len(Listing.members) = Len(yaml.top) + 1 /\ Listing.members[Len(yaml.top) + 1] = DIRECT
           /\ \A j \in 1..Len(yaml.top) : Listing.members[j] = yaml.top[j]
        BY <2>9, <2>10, AppendProperties
    <2>12. Len(yaml.top) = Cardinality(Sources)
        <3>1. Rank(Sources, nelem + 1) = Cardinality(Sources)
            BY <2>2, <2>3, Slots
        <3> QED
            BY <2>8, <3>1 DEF ListedTo
    <2>13. ASSUME NEW e \in Sources
           PROVE  Listing.members[Rank(Sources, e) + 1] = doc.elems[e].group
        <3>1. e \in 1..nelem /\ e < nelem + 1 /\ nelem + 1 \in Nat
            BY <2>3 DEF Sources
        <3>2. Rank(Sources, e) + 1 \in 1..Len(yaml.top)
            <4>1. Rank(Sources, e) + 1 <= Rank(Sources, nelem + 1) /\ Rank(Sources, e) \in Nat
                BY <2>2, <3>1, Slots
            <4>2. Len(yaml.top) = Rank(Sources, nelem + 1)
                BY <2>8 DEF ListedTo
            <4> QED
                BY <2>10, <4>1, <4>2
        <3> QED
            BY <2>8, <2>11, <3>1, <3>2 DEF ListedTo
    <2> QED
        BY <2>6, <2>7, <2>8, <2>9, <2>11, <2>12, <2>13 DEF Emitted
<1>2. FullInv => Faithful
    BY <1>1
<1> QED
    BY <1>2, SingboxRecords, PTL

=============================================================================
