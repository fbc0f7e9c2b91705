-------------------------- MODULE ConvBase64Proofs --------------------------
(***************************************************************************)
(* ConvBase64 for every text, every capacity and every allocation that may  *)
(* fail.  Scanning says what the loop over the characters knows of the line *)
(* in hand, Named what the loop over the nodes knows of the names given out *)
(* and HeapInv that what `out' frees is all that is allocated.              *)
(***************************************************************************)
EXTENDS ConvBase64, SequenceTheorems, FiniteSetTheorems, TLAPS

USE DEF nlen

HeadsTo(n) == {h \in Heads : h <= n}

\* The nodes are the heads up to character n, in order.
NodesAre(n) ==
    /\ nlen = Cardinality(HeadsTo(n))
    /\ \A p \in HeadsTo(n) : nodes[Ordinal(p)].base.link = data.text[p]

\* Of the line in hand neither its newline nor a NUL has been seen.
Scanning ==
    /\ 1 <= start /\ start <= i /\ i <= Len(data.text) + 1
    /\ start = 1 \/ data.text[start - 1] = NL
    /\ \A q \in 1..(i - 1) : data.text[q] # NUL
    /\ \A q \in start..(i - 1) : data.text[q] # NL
    /\ NodesAre(start - 1)

ScanInv ==
    /\ pc = "decode" =>
         i = 1 /\ start = 1 /\ nodes = << >> /\ ncap = 0 /\ ~allocated /\ heap = {}
    /\ pc \in {"decode", "scan", "scanned"} => used = << >>
    /\ pc \in {"decode", "scan", "scanned", "names"} => rc = 1
    /\ pc = "scan" => Scanning
    /\ nlen <= ncap

\* A node has its own name, or that was taken and it has a number.
OwnOrNumbered(j) ==
    LET own == nodes[j].base IN
    \/ used[j] = own
    \/ /\ \E h \in 1..(j - 1) : used[h] = own
       /\ \E n \in 2..(j + 1) : used[j] = Suffixed(own, n)

Named ==
    /\ Len(used) <= nlen
    /\ pc = "names" => i = Len(used) + 1
    /\ \A j \in 1..Len(used) : nodes[j].name = used[j] /\ OwnOrNumbered(j)
    /\ \A j, h \in 1..Len(used) : used[j] = used[h] => j = h
    /\ rc = 0 => pc \in {"out", "done"} /\ Len(used) = nlen /\ top = used

Result == IF rc = 0 THEN {Obj("out_yaml", 0)} ELSE {}

HeapInv == heap = IF pc = "done" THEN Result ELSE Freed \cup Result

Inv == TypeOK /\ ScanInv /\ Extracted /\ Named /\ HeapInv

-----------------------------------------------------------------------------
(* The helpers *)

\* A set of numbers that has a member has a least one.
LEMMA MinOfNats ==
    ASSUME NEW S, S \subseteq Nat, S # {}
    PROVE  Min(S) \in S /\ \A y \in S : Min(S) <= y
<1> DEFINE R == {ss \in Nat \X Nat : ss[1] < ss[2]}
<1>1. R = OpToRel(<, Nat)
    BY DEF OpToRel
<1>2. IsWellFoundedOn(R, Nat)
    BY <1>1, NatLessThanWellFounded
<1> HIDE DEF R
<1>3. PICK x \in S : \A y \in S : ~(<<y, x>> \in R)
    BY <1>2, WFMin
<1>4. ASSUME NEW y \in S
      PROVE  x <= y
    <2>1. x \in Nat /\ y \in Nat
        OBVIOUS
    <2>2. y < x => <<y, x>> \in R
        BY <2>1 DEF R
    <2> QED
        BY <1>3, <2>1, <2>2
<1> QED
    BY <1>4 DEF Min

\* Numbering is injective and gives a name.
LEMMA SuffixInjective ==
    ASSUME NEW b \in Name
    PROVE  /\ \A n \in Nat : Suffixed(b, n) \in Name
           /\ \A n, m \in Nat : Suffixed(b, n) = Suffixed(b, m) => n = m
<1>1. ASSUME NEW n \in Nat
      PROVE  /\ Suffixed(b, n) \in Name
             /\ Suffixed(b, n).nums = Append(b.nums, n)
    BY DEF Suffixed, Name
<1>2. \A n \in Nat : Append(b.nums, n)[Len(b.nums) + 1] = n
    BY DEF Name
<1>3. ASSUME NEW n \in Nat, NEW m \in Nat, Suffixed(b, n) = Suffixed(b, m)
      PROVE  n = m
    BY <1>1, <1>2, <1>3
<1> QED
    BY <1>1, <1>3

\* Of one number more than there are names given out, one is free.
LEMMA FreeNumber ==
    ASSUME used \in Seq(Name), NEW b \in Name
    PROVE  \E n \in 2..(Len(used) + 2) : Suffixed(b, n) \notin Range(used)
<1> DEFINE N == Len(used)
           at == [n \in 2..(N + 2) |-> CHOOSE h \in 1..N : used[h] = Suffixed(b, n)]
<1>1. SUFFICES ASSUME \A n \in 2..(N + 2) : Suffixed(b, n) \in Range(used)
               PROVE  FALSE
    OBVIOUS
<1>2. N \in Nat /\ DOMAIN used = 1..N
    OBVIOUS
<1>3. ASSUME NEW n \in 2..(N + 2)
      PROVE  \E h \in 1..N : used[h] = Suffixed(b, n)
    BY <1>1, <1>2 DEF Range
<1>4. \A n \in 2..(N + 2) : at[n] \in 1..N /\ used[at[n]] = Suffixed(b, n)
    BY <1>3
<1>5. at \in [2..(N + 2) -> 1..N]
    BY <1>4
<1> HIDE DEF at, N
<1>6. /\ IsFiniteSet(2..(N + 2)) /\ Cardinality(2..(N + 2)) = N + 1
      /\ IsFiniteSet(1..N) /\ Cardinality(1..N) = N
    <2>1. IsFiniteSet(2..(N + 2)) /\ Cardinality(2..(N + 2)) = N + 1
        <3>1. 2 \in Int /\ N + 2 \in Int /\ ~(2 > N + 2) /\ (N + 2) - 2 + 1 = N + 1
            BY <1>2
        <3> QED
            BY <3>1, FS_Interval
    <2>2. IsFiniteSet(1..N) /\ Cardinality(1..N) = N
        <3>1. 1 \in Int /\ N \in Int /\ N - 1 + 1 = N /\ (1 > N => N = 0)
            BY <1>2
        <3> QED
            BY <3>1, FS_Interval
    <2> QED
        BY <2>1, <2>2
<1>7. PICK n \in 2..(N + 2), m \in 2..(N + 2) : n # m /\ at[n] = at[m]
    <2>1. Cardinality(1..N) < Cardinality(2..(N + 2))
        BY <1>2, <1>6
    <2> QED
        BY <1>5, <1>6, <2>1, FS_PigeonHole
<1>8. Suffixed(b, n) = Suffixed(b, m) /\ n \in Nat /\ m \in Nat
    BY <1>2, <1>4, <1>7
<1> QED
    BY <1>7, <1>8, SuffixInjective

\* assign_unique_name gives a name not given before.
LEMMA UnusedIsNew ==
    ASSUME used \in Seq(Name), NEW b \in Name
    PROVE  /\ Unused(b) \in Name /\ Unused(b) \notin Range(used)
           /\ \/ Unused(b) = b
              \/ b \in Range(used) /\ \E n \in 2..(Len(used) + 2) : Unused(b) = Suffixed(b, n)
<1>1. CASE b \notin Range(used)
    BY <1>1 DEF Unused
<1>2. CASE b \in Range(used)
    <2> DEFINE free == {n \in 2..(Len(used) + 2) : Suffixed(b, n) \notin Range(used)}
    <2>1. free # {} /\ free \subseteq Nat
        BY FreeNumber
    <2>2. Min(free) \in free
        BY <2>1, MinOfNats
    <2>3. Unused(b) = Suffixed(b, Min(free))
        BY <1>2 DEF Unused
    <2>4. Min(free) \in Nat
        BY <2>1, <2>2
    <2> QED
        BY <1>2, <2>2, <2>3, <2>4, SuffixInjective
<1> QED
    BY <1>1, <1>2

Node == [base: Name, name: Name]

LEMMA NodeType ==
    ASSUME TypeOK
    PROVE  /\ nodes \in Seq(Node) /\ DOMAIN nodes = 1..nlen /\ nlen \in Nat
           /\ \A j \in 1..nlen : /\ nodes[j] \in Node
                                /\ nodes[j].base \in Name /\ nodes[j].name \in Name
<1>1. nodes \in Seq(Node)
    BY DEF TypeOK, Node
<1>2. \A j \in 1..nlen : nodes[j] \in Node
    BY <1>1, ElementOfSeq
<1>3. \A m \in Node : m.base \in Name /\ m.name \in Name
    BY DEF Node
<1>4. DOMAIN nodes = 1..nlen /\ nlen \in Nat
    BY <1>1
<1> QED
    BY <1>1, <1>2, <1>3, <1>4

LEMMA TextType ==
    ASSUME TypeOK
    PROVE  data.text \in Seq(Chars) /\ Len(data.text) \in Nat
  BY Base64Assumption DEF TypeOK, Inputs

-----------------------------------------------------------------------------
(* Types *)

\* A node for the line in hand is named after its link.
LEMMA ParsedType ==
    ASSUME TypeOK, ScanInv, pc = "scan", Parses
    PROVE  /\ start \in DOMAIN data.text /\ data.text[start] \in Links
           /\ [link |-> data.text[start], nums |-> << >>] \in Name
<1>1. start \in 1..Len(data.text) /\ data.text[start] \in Links
    BY TextType DEF TypeOK, ScanInv, Scanning, Parses
<1>2. << >> \in Seq(Nat)
    OBVIOUS
<1> QED
    BY <1>1, <1>2, TextType DEF Name

LEMMA TypeStep ==
    ASSUME TypeOK, ScanInv, Named, [Next]_vars
    PROVE  TypeOK'
<1> USE Base64Assumption
<1>1. CASE Decode
    BY <1>1 DEF Decode, Fail, TypeOK
<1>2. CASE Advance
    BY <1>2 DEF Advance, TypeOK
<1>3. CASE SkipLine
    BY <1>3 DEF SkipLine, NextLine, TypeOK
<1>4. CASE nodes_push
    <2> DEFINE name == [link |-> data.text[start], nums |-> << >>]
    <2>1. name \in Name
        BY <1>4, ParsedType DEF nodes_push
    <2>2. Append(nodes, [base |-> name, name |-> name]) \in Seq([base: Name, name: Name])
        BY <2>1 DEF TypeOK
    <2>3. nodes' \in Seq([base: Name, name: Name])
        BY <1>4, <2>2 DEF nodes_push, TypeOK
    <2>4. ncap' \in Nat
        BY <1>4 DEF nodes_push, TypeOK
    <2>5. i' \in Nat /\ start' \in Nat /\ pc' \in {"scan", "scanned", "out"} /\ rc' \in {0, 1}
        BY <1>4 DEF nodes_push, NextLine, Fail, TypeOK
    <2> QED
        BY <1>4, <2>3, <2>5, <2>4 DEF nodes_push, TypeOK
<1>5. CASE Scanned
    BY <1>5 DEF Scanned, Fail, TypeOK
<1>6. CASE NameNode
    <2> DEFINE name == Unused(nodes[i].base)
    <2>1. i \in 1..nlen
        <3>1. i = Len(used) + 1 /\ i <= nlen
            BY <1>6 DEF NameNode, Named
        <3> QED
            BY <3>1 DEF TypeOK
    <2>2. name \in Name
        BY <2>1, NodeType, UnusedIsNew DEF TypeOK
    <2> HIDE DEF name
    <2>3. [nodes[i] EXCEPT !.name = name] \in Node
        BY <2>1, <2>2, NodeType DEF Node
    <2>4. [nodes EXCEPT ![i].name = name] \in Seq(Node)
        BY <2>1, <2>3, NodeType, ExceptSeq
    <2>5. Append(used, name) \in Seq(Name)
        BY <2>2 DEF TypeOK
    <2>6. /\ nodes' = [nodes EXCEPT ![i].name = name] \/ nodes' = nodes
          /\ used' = Append(used, name) \/ used' = used
        BY <1>6 DEF NameNode, name
    <2>7. nodes' \in Seq([base: Name, name: Name]) /\ used' \in Seq(Name)
        BY <2>4, <2>5, <2>6, NodeType DEF Node, TypeOK
    <2>8. i' = i + 1 \/ i' = i
        BY <1>6 DEF NameNode
    <2>9. i' \in Nat
        BY <2>8 DEF TypeOK
    <2> QED
        BY <1>6, <2>7, <2>9 DEF NameNode, Fail, TypeOK
<1>7. CASE Emit
    <2>1. \A j \in 1..nlen : nodes[j].name \in Name
        BY NodeType
    <2>2. [j \in 1..nlen |-> nodes[j].name] \in Seq(Name)
        BY <2>1, NodeType, IsASeq
    <2> QED
        BY <1>7, <2>2 DEF Emit, TypeOK
<1>8. CASE CleanUp
    BY <1>8 DEF CleanUp, TypeOK
<1>9. CASE UNCHANGED vars
    BY <1>9 DEF vars, TypeOK
<1> QED
    BY <1>1, <1>2, <1>3, <1>4, <1>5, <1>6, <1>7, <1>8, <1>9 DEF Next, Ended

-----------------------------------------------------------------------------
(* The lines *)

LEMMA HeadsFinite ==
    ASSUME TypeOK, NEW n \in Int
    PROVE  /\ IsFiniteSet(HeadsTo(n)) /\ Cardinality(HeadsTo(n)) \in Nat
           /\ HeadsTo(n) \subseteq Heads
           /\ \A p \in HeadsTo(n) : p \in Nat /\ p <= n
<1>1. Heads \subseteq 1..Len(data.text)
    BY TextType DEF Heads
<1>2. HeadsTo(n) \in SUBSET (1..Len(data.text))
    BY <1>1 DEF HeadsTo
<1>3. IsFiniteSet(1..Len(data.text))
    BY TextType, FS_Interval
<1>4. IsFiniteSet(HeadsTo(n))
    BY <1>2, <1>3, FS_Subset
<1>5. \A p \in HeadsTo(n) : p \in Nat /\ p <= n
    BY <1>2 DEF HeadsTo
<1> QED
    BY <1>4, <1>5, FS_CardinalityType DEF HeadsTo

\* A head up to n is one of the first Cardinality(HeadsTo(n)).
LEMMA OrdinalInside ==
    ASSUME TypeOK, NEW n \in Int, NEW p \in HeadsTo(n)
    PROVE  Ordinal(p) \in 1..Cardinality(HeadsTo(n))
<1>1. Ordinal(p) = Cardinality(HeadsTo(p))
    BY DEF Ordinal, HeadsTo
<1>2. p \in HeadsTo(p) /\ HeadsTo(p) \subseteq HeadsTo(n) /\ p \in Int
    <2>1. \A h \in Heads : h \in Nat
        BY TextType DEF Heads
    <2> QED
        BY <2>1 DEF HeadsTo
<1>3. /\ IsFiniteSet(HeadsTo(n)) /\ Cardinality(HeadsTo(n)) \in Nat
      /\ IsFiniteSet(HeadsTo(p)) /\ Cardinality(HeadsTo(p)) \in Nat
    BY <1>2, HeadsFinite
<1>4. Cardinality(HeadsTo(p)) <= Cardinality(HeadsTo(n))
    BY <1>2, <1>3, FS_Subset
<1>5. Cardinality(HeadsTo(p)) # 0
    BY <1>2, <1>3, FS_EmptySet
<1> QED
    BY <1>1, <1>3, <1>4, <1>5

\* At the end of a line: no character of it but the first can be a head, and
\* the first is one if the line parses.
LEMMA LineHeads ==
    ASSUME TypeOK, Scanning, AtEnd
    PROVE  /\ Parses => /\ start \in Heads /\ start \notin HeadsTo(start - 1)
                        /\ HeadsTo(i) = HeadsTo(start - 1) \cup {start}
           /\ ~Parses => HeadsTo(i) = HeadsTo(start - 1)
           /\ Char = NUL => Heads = HeadsTo(i)
<1> DEFINE len == Len(data.text)
<1>1. /\ len \in Nat /\ start \in Nat /\ i \in Nat
      /\ 1 <= start /\ start <= i /\ i <= len + 1 /\ DOMAIN data.text = 1..len
    BY TextType DEF TypeOK, Scanning
<1>2. HeadsTo(start - 1) \subseteq HeadsTo(i)
    BY <1>1, TextType DEF HeadsTo, Heads
<1>3. ASSUME NEW p \in HeadsTo(i), p \notin HeadsTo(start - 1)
      PROVE  p = start /\ data.text[start] \in Links
    <2>1. p \in Heads /\ p \in 1..len /\ p <= i /\ p >= start
        BY <1>1, <1>3 DEF HeadsTo, Heads
    <2>2. CASE p = start
        BY <2>1, <2>2 DEF Heads
    <2>3. CASE p # start
        <3>1. p - 1 \in start..(i - 1) /\ p # 1
            BY <1>1, <2>1, <2>3
        <3>2. data.text[p - 1] = NL
            BY <2>1, <3>1 DEF Heads
        <3> QED
            BY <3>1, <3>2 DEF Scanning
    <2> QED
        BY <2>2, <2>3
<1>4. ASSUME Parses
      PROVE  start \in Heads
    <2>1. start \in 1..len /\ data.text[start] \in Links
        BY <1>1, <1>4 DEF Parses
    <2>2. \A q \in 1..start : data.text[q] # NUL
        <3>1. \A q \in 1..start : q \in 1..(i - 1)
            BY <1>1, <1>4 DEF Parses
        <3> QED
            BY <3>1 DEF Scanning
    <2> QED
        BY <1>1, <2>1, <2>2 DEF Heads, Scanning
<1>5. ASSUME ~Parses, start \in HeadsTo(i)
      PROVE  FALSE
    <2>1. start \in 1..len /\ data.text[start] \in Links
        BY <1>1, <1>5 DEF HeadsTo, Heads
    <2>2. CASE i = start
        <3>1. data.text[start] \in {NL, NUL}
            BY <1>1, <2>1, <2>2 DEF AtEnd, Char
        <3> QED
            BY <2>1, <3>1, Base64Assumption
    <2>3. CASE i # start
        <3>1. start \in start..(i - 1)
            BY <1>1, <2>3
        <3>2. data.text[start] # Blank
            BY <2>1, Base64Assumption
        <3> QED
            BY <1>1, <1>5, <2>1, <2>3, <3>1, <3>2 DEF Parses, line_blank
    <2> QED
        BY <2>2, <2>3
<1>6. start \notin HeadsTo(start - 1)
    BY <1>1 DEF HeadsTo
<1>7. start \in Heads => start \in HeadsTo(i)
    BY <1>1 DEF HeadsTo
<1>8. ASSUME Char = NUL, NEW p \in Heads
      PROVE  p \in HeadsTo(i)
    <2>1. p \in 1..len /\ \A q \in 1..p : data.text[q] # NUL
        BY <1>1 DEF Heads
    <2>2. CASE i <= len
        <3>1. data.text[i] = NUL
            BY <1>8, <2>2 DEF Char
        <3>2. ~(i \in 1..p)
            BY <2>1, <3>1
        <3> QED
            BY <1>1, <2>1, <3>2 DEF HeadsTo
    <2>3. CASE i = len + 1
        BY <1>1, <2>1, <2>3 DEF HeadsTo
    <2> QED
        BY <1>1, <2>2, <2>3
<1>9. HeadsTo(i) \subseteq Heads
    BY DEF HeadsTo
<1> QED
    BY <1>2, <1>3, <1>4, <1>5, <1>6, <1>7, <1>8, <1>9

\* With the nodes of the line in hand in place, the scan goes to the next line
\* or has extracted what there is.
LEMMA LineDone ==
    ASSUME TypeOK, Scanning, AtEnd, NextLine, data' = data, pc = "scan",
           nlen' = Cardinality(HeadsTo(i)),
           \A p \in HeadsTo(i) : nodes'[Ordinal(p)].base.link = data.text[p]
    PROVE  /\ pc' \in {"scan", "scanned"}
           /\ pc' = "scan" => Scanning'
           /\ pc' = "scanned" => Extracted'
<1>1. Heads' = Heads
    BY DEF Heads
<1>2. /\ \A n : HeadsTo(n)' = HeadsTo(n)
      /\ \A p : Ordinal(p)' = Ordinal(p)
    BY <1>1 DEF HeadsTo, Ordinal
<1>3. CASE Char = NUL
    <2>1. pc' = "scanned" /\ Heads = HeadsTo(i)
        BY <1>3, LineHeads DEF NextLine
    <2> QED
        BY <1>1, <1>2, <2>1 DEF Extracted
<1>4. CASE Char # NUL
    <2>1. pc' = "scan" /\ i' = i + 1 /\ start' = i + 1
        BY <1>4 DEF NextLine
    <2>2. i \in 1..Len(data.text) /\ data.text[i] = NL
        BY <1>4, TextType DEF AtEnd, Char, Scanning, TypeOK
    <2>3. \A q \in 1..(i' - 1) : data.text[q] # NUL
        <3>1. \A q \in 1..(i' - 1) : q = i \/ q \in 1..(i - 1)
            BY <2>1, <2>2
        <3> QED
            BY <2>2, <3>1, Base64Assumption DEF Scanning
    <2>4. start' - 1 = i /\ i' <= Len(data.text) + 1
        BY <2>1, <2>2, TextType
    <2>5. NodesAre(start - 1)'
        <3>1. HeadsTo(start - 1)' = HeadsTo(i)
            BY <1>1, <2>4 DEF HeadsTo
        <3> QED
            BY <1>2, <3>1 DEF NodesAre
    <2>6. \A q \in start'..(i' - 1) : FALSE
        BY <2>1, <2>2
    <2> QED
        BY <2>1, <2>2, <2>3, <2>4, <2>5, <2>6 DEF Scanning
<1> QED
    BY <1>3, <1>4

\* Where a parsed link goes is where its ordinal says.
LEMMA NodePushed ==
    ASSUME TypeOK, Scanning, AtEnd, Parses, NEW node,
           nodes' = Append(nodes, node), node.base.link = data.text[start]
    PROVE  /\ nlen' = Cardinality(HeadsTo(i))
           /\ \A p \in HeadsTo(i) : nodes'[Ordinal(p)].base.link = data.text[p]
<1> DEFINE old == HeadsTo(start - 1)
<1>1. /\ start \in Heads /\ start \notin old
      /\ HeadsTo(i) = old \cup {start}
    BY LineHeads
<1>2. start \in Int /\ start - 1 \in Int /\ i \in Int
    BY DEF TypeOK
<1>3. IsFiniteSet(old) /\ Cardinality(old) = nlen /\ nlen \in Nat
    BY <1>2, HeadsFinite DEF Scanning, NodesAre
<1>4. Cardinality(old \cup {start}) = nlen + 1
    BY <1>1, <1>3, FS_AddElement
<1>5. /\ nlen' = nlen + 1 /\ nodes'[nlen + 1] = node
      /\ \A j \in 1..nlen : nodes'[j] = nodes[j]
    BY DEF TypeOK
<1>6. Ordinal(start) = nlen + 1
    <2>1. {h \in Heads : h <= start} = old \cup {start}
        <3>1. \A h \in Heads : h \in Nat
            BY TextType DEF Heads
        <3>2. \A h \in Heads : h <= start <=> h <= start - 1 \/ h = start
            BY <1>2, <3>1
        <3> QED
            BY <1>1, <3>2 DEF HeadsTo
    <2> QED
        BY <1>4, <2>1 DEF Ordinal
<1>7. ASSUME NEW p \in old
      PROVE  nodes'[Ordinal(p)].base.link = data.text[p]
    <2>1. Ordinal(p) \in 1..nlen
        BY <1>2, <1>3, OrdinalInside
    <2> QED
        BY <1>5, <2>1 DEF Scanning, NodesAre
<1> QED
    BY <1>1, <1>4, <1>5, <1>6, <1>7

LEMMA LinesStep ==
    ASSUME TypeOK, ScanInv, Extracted, Named, [Next]_vars
    PROVE  /\ pc' = "scan" => Scanning'
           /\ Extracted'
<1>1. CASE Decode
    <2>1. pc' # "scanned" /\ pc' # "names" /\ pc = "decode"
        BY <1>1 DEF Decode, Fail
    <2>2. i = 1 /\ start = 1 /\ nodes = << >>
        BY <2>1 DEF ScanInv
    <2>3. i' = 1 /\ start' = 1 /\ nodes' = << >> /\ data' = data
        BY <1>1, <2>2 DEF Decode
    <2>4. HeadsTo(0) = {}
        BY TextType DEF HeadsTo, Heads
    <2>5. HeadsTo(start - 1)' = HeadsTo(0)
        BY <2>3 DEF HeadsTo, Heads
    <2>6. NodesAre(start - 1)'
        BY <2>3, <2>4, <2>5, FS_EmptySet DEF NodesAre
    <2>7. Scanning'
        BY <2>3, <2>6, TextType DEF Scanning
    <2> QED
        BY <2>1, <2>7 DEF Extracted
<1>2. CASE Advance
    <2>1. /\ pc = "scan" /\ pc' = "scan" /\ i' = i + 1 /\ Scanning
          /\ UNCHANGED <<start, nodes, data>> /\ ~AtEnd
        BY <1>2 DEF Advance, ScanInv
    <2>2. i \in 1..Len(data.text) /\ data.text[i] \notin {NL, NUL}
        BY <2>1, TextType DEF AtEnd, Char, Scanning, TypeOK
    <2>3. NodesAre(start - 1)'
        <3>1. HeadsTo(start - 1)' = HeadsTo(start - 1) /\ \A p : Ordinal(p)' = Ordinal(p)
            BY <2>1 DEF HeadsTo, Heads, Ordinal
        <3> QED
            BY <2>1, <3>1 DEF NodesAre, Scanning
    <2>4. /\ \A q \in 1..(i' - 1) : q = i \/ q \in 1..(i - 1)
          /\ \A q \in start..(i' - 1) : q = i \/ q \in start..(i - 1)
        BY <2>1, <2>2 DEF TypeOK
    <2>5. Scanning'
        BY <2>1, <2>2, <2>3, <2>4, TextType DEF Scanning, TypeOK
    <2> QED
        BY <2>1, <2>5 DEF Extracted
<1>3. CASE SkipLine
    <2>1. /\ pc = "scan" /\ AtEnd /\ ~Parses /\ NextLine /\ Scanning
          /\ nodes' = nodes /\ data' = data
        BY <1>3 DEF SkipLine, ScanInv
    <2>2. HeadsTo(i) = HeadsTo(start - 1)
        BY <2>1, LineHeads
    <2>3. /\ pc' \in {"scan", "scanned"}
          /\ pc' = "scan" => Scanning'
          /\ pc' = "scanned" => Extracted'
        BY <2>1, <2>2, LineDone DEF Scanning, NodesAre
    <2> QED
        BY <2>3 DEF Extracted
<1>4. CASE nodes_push
    <2>1. pc = "scan" /\ AtEnd /\ Parses /\ Scanning /\ data' = data
        BY <1>4 DEF nodes_push, ScanInv
    <2>2. CASE pc' = "out"
        BY <2>2 DEF Extracted
    <2>3. CASE pc' # "out"
        <3> DEFINE name == [link |-> data.text[start], nums |-> << >>]
                   node == [base |-> name, name |-> name]
        <3>1. nodes' = Append(nodes, node) /\ NextLine
            BY <1>4, <2>3 DEF nodes_push, Fail
        <3>2. node.base.link = data.text[start]
            OBVIOUS
        <3> HIDE DEF node
        <3>3. /\ nlen' = Cardinality(HeadsTo(i))
              /\ \A p \in HeadsTo(i) : nodes'[Ordinal(p)].base.link = data.text[p]
            BY <2>1, <3>1, <3>2, NodePushed
        <3>4. /\ pc' \in {"scan", "scanned"}
              /\ pc' = "scan" => Scanning'
              /\ pc' = "scanned" => Extracted'
            BY <2>1, <3>1, <3>3, LineDone
        <3> QED
            BY <3>4 DEF Extracted
    <2> QED
        BY <2>2, <2>3
<1>5. CASE Scanned
    <2>1. /\ pc = "scanned" /\ pc' # "scan" /\ pc' # "scanned" /\ UNCHANGED <<nodes, data>>
        BY <1>5 DEF Scanned, Fail
    <2> QED
        BY <2>1 DEF Extracted, Heads, Ordinal
<1>6. CASE NameNode
    <2>1. /\ pc = "names" /\ data' = data /\ pc' \in {"names", "out"}
          /\ nodes' = [nodes EXCEPT ![i].name = Unused(nodes[i].base)] \/ nodes' = nodes
        BY <1>6 DEF NameNode, Fail
    <2>2. nlen' = nlen /\ \A j \in 1..nlen : nodes'[j].base = nodes[j].base
        BY <2>1, NodeType DEF Node
    <2>3. \A p \in Heads : Ordinal(p) \in 1..nlen
        <3>1. Heads = HeadsTo(Len(data.text)) /\ Len(data.text) \in Int
            BY TextType DEF HeadsTo, Heads
        <3>2. nlen = Cardinality(Heads)
            BY <2>1 DEF Extracted
        <3> QED
            BY <3>1, <3>2, OrdinalInside
    <2>4. Heads' = Heads /\ \A p : Ordinal(p)' = Ordinal(p)
        BY <2>1 DEF Heads, Ordinal
    <2> QED
        BY <2>1, <2>2, <2>3, <2>4 DEF Extracted
<1>7. CASE Emit \/ CleanUp
    BY <1>7 DEF Emit, CleanUp, Extracted
<1>8. CASE UNCHANGED vars
    <2>1. UNCHANGED <<pc, data, i, start, nodes>>
        BY <1>8 DEF vars
    <2>2. Heads' = Heads
        BY <2>1 DEF Heads
    <2>3. HeadsTo(start - 1)' = HeadsTo(start - 1) /\ \A p : Ordinal(p)' = Ordinal(p)
        BY <2>1, <2>2 DEF HeadsTo, Ordinal
    <2>4. NodesAre(start - 1) => NodesAre(start - 1)'
        BY <2>1, <2>3 DEF NodesAre
    <2>5. Scanning => Scanning'
        BY <2>1, <2>4 DEF Scanning
    <2>6. Extracted'
        BY <2>1, <2>2, <2>3 DEF Extracted
    <2> QED
        BY <2>1, <2>5, <2>6 DEF ScanInv
<1> QED
    BY <1>1, <1>2, <1>3, <1>4, <1>5, <1>6, <1>7, <1>8 DEF Next, Ended

LEMMA ScanStep ==
    ASSUME TypeOK, ScanInv, Extracted, Named, [Next]_vars
    PROVE  ScanInv'
<1>1. pc' = "scan" => Scanning'
    BY LinesStep
<1>2. CASE Decode
    BY <1>1, <1>2 DEF Decode, Fail, ScanInv
<1>3. CASE Advance \/ SkipLine
    BY <1>1, <1>3 DEF Advance, SkipLine, NextLine, ScanInv
<1>4. CASE nodes_push
    <2>1. /\ pc = "scan" /\ used' = used /\ pc' \in {"scan", "scanned", "out"}
          /\ pc' # "out" => rc' = rc
        BY <1>4 DEF nodes_push, NextLine, Fail
    <2>2. nlen' <= ncap'
        <3>1. \/ nlen' = nlen /\ ncap' = ncap
              \/ /\ nlen' = nlen + 1
                 /\ ncap' = IF nlen # ncap THEN ncap ELSE IF ncap = 0 THEN FirstCap ELSE ncap * 2
            <4>1. \A node : Len(Append(nodes, node)) = nlen + 1
                BY DEF TypeOK
            <4> QED
                BY <1>4, <4>1 DEF nodes_push
        <3> QED
            BY <3>1, Base64Assumption DEF ScanInv, TypeOK
    <2> QED
        BY <1>1, <2>1, <2>2 DEF ScanInv
<1>5. CASE Scanned
    BY <1>1, <1>5 DEF Scanned, Fail, ScanInv
<1>6. CASE NameNode
    <2>1. /\ pc = "names" /\ pc' \in {"names", "out"} /\ (pc' = "names" => rc' = rc) /\ ncap' = ncap
          /\ nodes' = [nodes EXCEPT ![i].name = Unused(nodes[i].base)] \/ nodes' = nodes
        BY <1>6 DEF NameNode, Fail
    <2>2. nlen' = nlen
        BY <2>1, NodeType
    <2> QED
        BY <1>1, <2>1, <2>2 DEF ScanInv
<1>7. CASE Emit \/ CleanUp
    BY <1>1, <1>7 DEF Emit, CleanUp, ScanInv
<1>8. CASE UNCHANGED vars
    BY <1>1, <1>8 DEF vars, ScanInv
<1> QED
    BY <1>2, <1>3, <1>4, <1>5, <1>6, <1>7, <1>8 DEF Next, Ended

-----------------------------------------------------------------------------
(* The names *)

LEMMA NamedStep ==
    ASSUME TypeOK, ScanInv, Named, [Next]_vars
    PROVE  Named'
<1>1. CASE pc \in {"decode", "scan", "scanned"}
    <2>1. used' = << >> /\ rc' = 1
        BY <1>1 DEF Next, vars, Decode, Advance, SkipLine, NextLine, nodes_push, Scanned, NameNode,
                    Emit, CleanUp, Ended, Fail, ScanInv
    <2>2. pc' = "names" => i' = 1
        BY <1>1 DEF Next, vars, Decode, Advance, SkipLine, NextLine, nodes_push, Scanned, NameNode,
                    Emit, CleanUp, Ended, Fail
    <2>3. nlen' \in Nat
        <3>1. TypeOK'
            BY TypeStep
        <3> QED
            BY <3>1 DEF TypeOK
    <2> QED
        BY <2>1, <2>2, <2>3 DEF Named
<1>2. CASE NameNode /\ pc' = "names"
    <2> DEFINE n == Len(used)
               name == Unused(nodes[i].base)
    <2>1. /\ pc = "names" /\ pc' = "names" /\ i <= nlen /\ i' = i + 1 /\ rc' = rc /\ rc = 1
          /\ nodes' = [nodes EXCEPT ![i].name = name] /\ used' = Append(used, name)
        BY <1>2 DEF NameNode, Fail, ScanInv
    <2>2. i = n + 1 /\ n \in Nat /\ i \in 1..nlen
        BY <2>1 DEF Named, TypeOK
    <2>3. /\ nodes[i].base \in Name /\ nlen' = nlen
          /\ nodes'[i].base = nodes[i].base /\ nodes'[i].name = name
          /\ \A j \in 1..n : nodes'[j] = nodes[j]
        BY <2>1, <2>2, NodeType DEF Node
    <2>4. /\ name \in Name /\ name \notin Range(used)
          /\ \/ name = nodes[i].base
             \/ /\ nodes[i].base \in Range(used)
                /\ \E m \in 2..(n + 2) : name = Suffixed(nodes[i].base, m)
        BY <2>3, UnusedIsNew DEF TypeOK
    <2>5. Range(used) = {used[j] : j \in 1..n}
        BY DEF Range, TypeOK
    <2> HIDE DEF name
    <2>6. /\ Len(used') = n + 1 /\ used'[n + 1] = name
          /\ \A j \in 1..n : used'[j] = used[j]
        BY <2>1, <2>4 DEF TypeOK
    <2>7. PICK p \in Nat : p = i
        BY <2>2
    <2>8. ASSUME NEW j \in 1..n
          PROVE  nodes'[j].name = used'[j] /\ OwnOrNumbered(j)'
        <3>1. /\ nodes'[j] = nodes[j] /\ used'[j] = used[j]
              /\ \A h \in 1..(j - 1) : used'[h] = used[h]
            BY <2>2, <2>3, <2>6
        <3>2. nodes[j].name = used[j] /\ OwnOrNumbered(j)
            BY DEF Named
        <3> QED
            BY <3>1, <3>2 DEF OwnOrNumbered
    <2>9. nodes'[p].name = used'[p] /\ OwnOrNumbered(p)'
        <3>1. CASE name = nodes[i].base
            BY <2>7, <2>2, <2>3, <2>6, <3>1 DEF OwnOrNumbered
        <3>2. CASE name # nodes[i].base
            <4>1. PICK h \in 1..n : used[h] = nodes[i].base
                BY <2>4, <2>5, <3>2
            <4>2. h \in 1..(p - 1) /\ used'[h] = nodes'[p].base
                BY <2>7, <2>2, <2>3, <2>6, <4>1
            <4>3. \E m \in 2..(p + 1) : used'[p] = Suffixed(nodes'[p].base, m)
                BY <2>7, <2>2, <2>3, <2>4, <2>6, <3>2
            <4> QED
                BY <2>7, <2>2, <2>3, <2>6, <4>2, <4>3 DEF OwnOrNumbered
        <3> QED
            BY <3>1, <3>2
    <2>10. Len(used') = p /\ \A j \in 1..p : j = p \/ j \in 1..n
        BY <2>7, <2>2, <2>6
    <2>11. \A j, h \in 1..Len(used') : used'[j] = used'[h] => j = h
        BY <2>7, <2>2, <2>4, <2>5, <2>6, <2>10 DEF Named
    <2>12. \A j \in 1..Len(used') : nodes'[j].name = used'[j] /\ OwnOrNumbered(j)'
        <3>1. ASSUME NEW j \in 1..p
              PROVE  nodes'[j].name = used'[j] /\ OwnOrNumbered(j)'
            BY <2>8, <2>9, <2>10
        <3> QED
            BY <2>10, <3>1
    <2>13. Len(used') <= nlen' /\ i' = Len(used') + 1 /\ rc' # 0
        BY <2>1, <2>2, <2>3, <2>6
    <2> QED
        BY <2>11, <2>12, <2>13 DEF Named
<1>3. ASSUME UNCHANGED <<nodes, used>>, pc' # "names",
             rc' = 0 => pc' \in {"out", "done"} /\ Len(used) = nlen /\ top' = used
      PROVE  Named'
    <2>1. \A j : OwnOrNumbered(j)' = OwnOrNumbered(j)
        BY <1>3 DEF OwnOrNumbered
    <2> QED
        BY <1>3, <2>1 DEF Named
<1>4. CASE NameNode /\ pc' # "names"
    <2>1. rc' = 1 /\ UNCHANGED <<nodes, used>>
        BY <1>4 DEF NameNode, Fail
    <2> QED
        BY <1>3, <1>4, <2>1
<1>5. CASE Emit
    <2>1. pc = "names" /\ i > nlen /\ pc' = "out" /\ top' = [j \in 1..nlen |-> nodes[j].name]
        BY <1>5 DEF Emit
    <2>2. Len(used) = nlen
        BY <2>1 DEF Named, TypeOK
    <2>3. top' = used
        BY <2>1, <2>2 DEF Named, TypeOK
    <2> QED
        BY <1>3, <1>5, <2>1, <2>2, <2>3 DEF Emit
<1>6. CASE CleanUp
    BY <1>3, <1>6 DEF CleanUp, Named
<1>7. CASE UNCHANGED vars
    BY <1>7 DEF vars, Named, OwnOrNumbered
<1>8. CASE Decode \/ Advance \/ SkipLine \/ nodes_push \/ Scanned
    BY <1>1, <1>8 DEF Decode, Advance, SkipLine, nodes_push, Scanned
<1> QED
    BY <1>2, <1>4, <1>5, <1>6, <1>7, <1>8 DEF Next, Ended

-----------------------------------------------------------------------------
(* The heap *)

\* What `out' frees without asking a string buffer.
Owed ==
    FreedSrc
    \cup Objs("node", nlen) \cup (IF ncap > 0 THEN {Obj("nodes", 0)} ELSE {})
    \cup Objs("used name", Len(used)) \cup (IF used = << >> THEN {} ELSE {Obj("used", 0)})

Buffers == {Obj("work", 0), Obj("sb", 0)}

LEMMA FreedIs == Freed = (heap \cap Buffers) \cup Owed
    BY DEF Freed, Owed, Buffers

LEMMA ObjsNext ==
    ASSUME NEW kind, NEW n \in Nat
    PROVE  Objs(kind, n + 1) = Objs(kind, n) \cup {Obj(kind, n + 1)}
<1>1. 1..(n + 1) = (1..n) \cup {n + 1}
    OBVIOUS
<1> QED
    BY <1>1 DEF Objs

\* The result is nothing `out' frees.
LEMMA ResultKept ==
    Obj("out_yaml", 0) \notin Freed
<1>1. Obj("out_yaml", 0) \notin Buffers
    BY DEF Buffers, Obj
<1>2. Obj("out_yaml", 0) \notin Objs("node", nlen) \cup Objs("used name", Len(used))
    BY DEF Objs, Obj
<1>3. Obj("out_yaml", 0) \notin FreedSrc \cup {Obj("nodes", 0), Obj("used", 0)}
    BY DEF FreedSrc, Obj
<1> QED
    BY <1>1, <1>2, <1>3, FreedIs DEF Owed

\* A step that allocates what `out' will free, buffers and the result.
LEMMA HeapGrows ==
    ASSUME HeapInv, pc # "done", pc' # "done",
           NEW new, Owed' = Owed \cup new,
           NEW bufs, bufs \subseteq Buffers,
           NEW out, Result' = Result \cup out,
           heap' = heap \cup new \cup bufs \cup out
    PROVE  HeapInv'
<1>1. heap = (heap \cap Buffers) \cup Owed \cup Result
    BY FreedIs DEF HeapInv
<1>2. Freed' = (heap' \cap Buffers) \cup Owed'
    BY DEF Freed, Owed, Buffers
<1>3. heap' = (heap \cap Buffers) \cup Owed \cup Result \cup new \cup bufs \cup out
    BY <1>1
<1>4. heap' = Freed' \cup Result'
    BY <1>2, <1>3
<1> QED
    BY <1>4 DEF HeapInv

LEMMA HeapStep ==
    ASSUME TypeOK, ScanInv, Named, HeapInv, [Next]_vars
    PROVE  HeapInv'
<1>1. CASE Decode
    <2>1. /\ pc = "decode" /\ heap = {} /\ ~allocated /\ rc = 1
          /\ UNCHANGED <<nodes, ncap, used>>
        BY <1>1 DEF Decode, ScanInv
    <2>2. Owed' = IF allocated' THEN Owed \cup {Obj("src", 0)} ELSE Owed
        BY <2>1 DEF Owed, FreedSrc, Objs, Obj
    <2>3. rc' = 1 /\ Result' = {} /\ Result = {}
        BY <1>1, <2>1 DEF Decode, Fail, Result
    <2>4. CASE pc' = "done"
        BY <1>1, <2>1, <2>3, <2>4 DEF Decode, Fail, HeapInv
    <2>5. CASE pc' # "done" /\ allocated'
        <3>1. heap' = {Obj("src", 0)}
            BY <1>1, <2>1, <2>5 DEF Decode
        <3>2. Owed' = Owed \cup {Obj("src", 0)} /\ Result' = Result \cup {}
            BY <2>2, <2>3, <2>5
        <3>3. heap' = heap \cup {Obj("src", 0)} \cup {} \cup {}
            BY <2>1, <3>1
        <3> QED
            BY <2>1, <2>5, <3>2, <3>3, HeapGrows
    <2>6. CASE pc' # "done" /\ ~allocated'
        <3>1. heap' \subseteq Buffers
            BY <1>1, <2>1, <2>6 DEF Decode, Buffers
        <3>2. Owed' = Owed \cup {} /\ Result' = Result \cup {}
            BY <2>2, <2>3, <2>6
        <3>3. heap' = heap \cup {} \cup heap' \cup {}
            BY <2>1
        <3> QED
            BY <2>1, <2>6, <3>1, <3>2, <3>3, HeapGrows
    <2> QED
        BY <2>4, <2>5, <2>6
<1>2. CASE Advance \/ SkipLine \/ Scanned
    <2>1. /\ pc # "done" /\ pc' # "done" /\ UNCHANGED <<allocated, nodes, ncap, used, heap>>
          /\ rc = 1 /\ rc' = 1
        BY <1>2 DEF Advance, SkipLine, NextLine, Scanned, Fail, ScanInv
    <2>2. Owed' = Owed \cup {} /\ Result' = Result \cup {} /\ heap' = heap \cup {} \cup {} \cup {}
        BY <2>1 DEF Owed, FreedSrc, Result
    <2> QED
        BY <2>1, <2>2, HeapGrows
<1>3. CASE nodes_push
    <2>1. /\ pc # "done" /\ pc' # "done" /\ UNCHANGED <<allocated, used>> /\ rc = 1 /\ rc' = 1
        BY <1>3 DEF nodes_push, NextLine, Fail, ScanInv
    <2>2. Result' = Result \cup {}
        BY <2>1 DEF Result
    <2>3. CASE heap' = heap /\ UNCHANGED <<nodes, ncap>>
        <3>1. Owed' = Owed \cup {} /\ heap' = heap \cup {} \cup {} \cup {}
            BY <2>1, <2>3 DEF Owed, FreedSrc
        <3> QED
            BY <2>1, <2>2, <3>1, HeapGrows
    <2>4. CASE /\ heap' = heap \cup {Obj("nodes", 0), Obj("node", nlen + 1)}
               /\ nlen' = nlen + 1
               /\ ncap' = IF nlen # ncap THEN ncap ELSE IF ncap = 0 THEN FirstCap ELSE ncap * 2
        <3>1. ncap' > 0 /\ nlen \in Nat
            BY <2>4, Base64Assumption DEF ScanInv, TypeOK
        <3>2. Objs("node", nlen)' = Objs("node", nlen) \cup {Obj("node", nlen + 1)}
            BY <2>4, <3>1, ObjsNext DEF Objs
        <3>3. FreedSrc' = FreedSrc
            BY <2>1 DEF FreedSrc
        <3>4. Owed' = Owed \cup {Obj("nodes", 0), Obj("node", nlen + 1)}
            BY <2>1, <3>1, <3>2, <3>3 DEF Owed, Obj, Objs
        <3>5. heap' = heap \cup {Obj("nodes", 0), Obj("node", nlen + 1)} \cup {} \cup {}
            BY <2>4
        <3> QED
            BY <2>1, <2>2, <3>4, <3>5, HeapGrows
    <2>5. \A node : Len(Append(nodes, node)) = nlen + 1
        BY DEF TypeOK
    <2> QED
        BY <1>3, <2>3, <2>4, <2>5 DEF nodes_push
<1>4. CASE NameNode
    <2>1. /\ pc # "done" /\ pc' # "done" /\ UNCHANGED <<allocated, ncap>> /\ rc = 1 /\ rc' = 1
          /\ \/ UNCHANGED <<nodes, used, heap>>
             \/ /\ nodes' = [nodes EXCEPT ![i].name = Unused(nodes[i].base)]
                /\ used' = Append(used, Unused(nodes[i].base))
                /\ heap' = heap \cup {Obj("used", 0), Obj("used name", Len(used) + 1)}
        BY <1>4 DEF NameNode, Fail, ScanInv
    <2>2. Result' = Result \cup {} /\ FreedSrc' = FreedSrc
        BY <2>1 DEF Result, FreedSrc
    <2>3. CASE UNCHANGED <<nodes, used, heap>>
        <3>1. Owed' = Owed \cup {} /\ heap' = heap \cup {} \cup {} \cup {}
            BY <2>1, <2>2, <2>3 DEF Owed
        <3> QED
            BY <2>1, <2>2, <3>1, HeapGrows
    <2>4. CASE /\ nodes' = [nodes EXCEPT ![i].name = Unused(nodes[i].base)]
               /\ used' = Append(used, Unused(nodes[i].base))
               /\ heap' = heap \cup {Obj("used", 0), Obj("used name", Len(used) + 1)}
        <3> DEFINE name == Unused(nodes[i].base)
        <3>1. i \in 1..nlen
            <4>1. i = Len(used) + 1 /\ i <= nlen
                BY <1>4 DEF NameNode, Named
            <4> QED
                BY <4>1 DEF TypeOK
        <3>2. name \in Name
            BY <3>1, NodeType, UnusedIsNew DEF TypeOK
        <3> HIDE DEF name
        <3>3. nodes' = [nodes EXCEPT ![i].name = name] /\ used' = Append(used, name)
            BY <2>4 DEF name
        <3>4. DOMAIN nodes' = DOMAIN nodes /\ nodes' \in Seq(Node)
            <4>1. TypeOK'
                BY TypeStep
            <4> QED
                BY <3>3, <4>1 DEF TypeOK, Node
        <3>5. nlen' = nlen
            BY <3>4, NodeType
        <3>6. Len(used) \in Nat /\ Len(used') = Len(used) + 1 /\ used' # << >>
            BY <3>2, <3>3 DEF TypeOK
        <3>7. Objs("used name", Len(used))' = Objs("used name", Len(used)) \cup {Obj("used name", Len(used) + 1)}
            BY <3>6, ObjsNext DEF Objs
        <3>8. Objs("node", nlen)' = Objs("node", nlen)
            BY <3>5 DEF Objs
        <3>9. Owed' = Owed \cup {Obj("used", 0), Obj("used name", Len(used) + 1)}
            BY <2>1, <2>2, <3>6, <3>7, <3>8 DEF Owed, Obj, Objs
        <3>10. heap' = heap \cup {Obj("used", 0), Obj("used name", Len(used) + 1)} \cup {} \cup {}
            BY <2>4
        <3> QED
            BY <2>1, <2>2, <3>9, <3>10, HeapGrows
    <2> QED
        BY <2>1, <2>3, <2>4
<1>5. CASE Emit
    <2>1. /\ pc # "done" /\ pc' # "done" /\ UNCHANGED <<allocated, nodes, ncap, used>>
          /\ heap' = heap \cup {Obj("sb", 0), Obj("out_yaml", 0)} /\ rc = 1 /\ rc' = 0
        BY <1>5 DEF Emit, ScanInv
    <2>2. Owed' = Owed \cup {}
        BY <2>1 DEF Owed, FreedSrc
    <2>3. Result' = Result \cup {Obj("out_yaml", 0)} /\ {Obj("sb", 0)} \subseteq Buffers
        BY <2>1 DEF Result, Obj, Buffers
    <2>4. heap' = heap \cup {} \cup {Obj("sb", 0)} \cup {Obj("out_yaml", 0)}
        BY <2>1
    <2> QED
        BY <2>1, <2>2, <2>3, <2>4, HeapGrows
<1>6. CASE CleanUp
    <2>1. pc = "out" /\ pc' = "done" /\ heap' = heap \ Freed /\ rc' = rc
        BY <1>6 DEF CleanUp
    <2>2. heap = Freed \cup Result /\ Result' = Result
        BY <2>1 DEF HeapInv, Result
    <2>3. Result \cap Freed = {}
        BY ResultKept DEF Result
    <2> QED
        BY <2>1, <2>2, <2>3 DEF HeapInv
<1>7. CASE UNCHANGED vars
    BY <1>7 DEF vars, HeapInv, Freed, FreedSrc, Result
<1> QED
    BY <1>1, <1>2, <1>3, <1>4, <1>5, <1>6, <1>7 DEF Next, Ended

-----------------------------------------------------------------------------
(* The theorems *)

LEMMA Base64Initially == Init => Inv
<1> SUFFICES ASSUME Init PROVE Inv
    OBVIOUS
<1>1. nlen = 0 /\ Len(used) = 0 /\ nodes = << >> /\ used = << >> /\ rc = 1 /\ pc = "decode"
    BY DEF Init
<1>2. TypeOK
    <2>1. nodes \in Seq([base: Name, name: Name]) /\ used \in Seq(Name) /\ top \in Seq(Name)
        BY <1>1 DEF Init
    <2> QED
        BY <1>1, <2>1, Base64Assumption DEF Init, TypeOK
<1>3. ScanInv /\ Extracted /\ Named
    BY <1>1 DEF Init, ScanInv, Extracted, Named
<1>4. Freed = {} /\ Result = {}
    BY <1>1 DEF Init, Freed, FreedSrc, Objs, Result
<1> QED
    BY <1>1, <1>2, <1>3, <1>4 DEF Init, Inv, HeapInv

LEMMA Base64Step == Inv /\ [Next]_vars => Inv'
    BY TypeStep, ScanStep, LinesStep, NamedStep, HeapStep DEF Inv

\* The inductive invariant holds throughout.
THEOREM Base64Invariant == Spec => []Inv
    BY Base64Initially, Base64Step, PTL DEF Spec

\* The scan stays within the text, the line is never shorter than nothing, and
\* the node array is written within its capacity.
THEOREM Base64InBounds == Spec => []InBounds
<1>1. Inv => InBounds
    BY DEF Inv, ScanInv, Scanning, Named, InBounds
<1> QED
    BY <1>1, Base64Invariant, PTL

\* `out' frees what is allocated and only that, wherever the conversion failed.
THEOREM Base64NoLeak == Spec => []NoLeak
<1>1. Inv => NoLeak
    BY DEF Inv, HeapInv, Result, NoLeak
<1> QED
    BY <1>1, Base64Invariant, PTL

\* The nodes are the links at the beginning of a line, in order.
THEOREM Base64Extracted == Spec => []Extracted
<1>1. Inv => Extracted
    BY DEF Inv
<1> QED
    BY <1>1, Base64Invariant, PTL

\* PROXY selects among all nodes, no name occurs twice, and a node loses its own
\* name only to an earlier proxy.
THEOREM Base64Listed == Spec => []Listed
<1>1. Inv => Listed
    BY DEF Inv, Named, OwnOrNumbered, Listed
<1> QED
    BY <1>1, Base64Invariant, PTL
=============================================================================
