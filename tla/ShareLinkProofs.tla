-------------------------- MODULE ShareLinkProofs --------------------------
(***************************************************************************)
(* Proofs of ShareLink's properties, for links of any length, any tokens    *)
(* and any tables of numbers, blobs and documents.                          *)
(*                                                                         *)
(* Contract needs to know who holds what where (HeapInv, FormInv, NodeInv), *)
(* Grammar what has been cut off the link so far (LinkInv, SsInv) and why   *)
(* it was refused (RefusedInv), QueryMeaning which part of the query the    *)
(* pairs stand for and which part of the pairs the node (QueryInv).         *)
(***************************************************************************)
EXTENDS ShareLink, SequenceTheorems, FiniteSetTheorems, TLAPS

\* The parser has the address and goes on; it has taken the link.
Beyond   == {"query", "kinds", "fields", "name"}
Accepted == pc = "returned" /\ rc = 0
Ready    == pc \in Beyond \/ Accepted

\* Whether user and authority, and a query, lie where they should; the
\* authority, and the text from the # on.
InFront  == At(text) < Limit(text)
HasQuery == Query(text) < Frag(text)
Middle   == SubSeq(text, At(text) + 1, Limit(text) - 1)
Trailer  == SubSeq(text, Frag(text), Len(text))

-----------------------------------------------------------------------------
(* Who holds what *)

\* Nothing is held, collected or backed but where the parser frees it again.
HeapInv ==
    /\ held # {} => pc = "authority"
    /\ bufs # {} => pc \in {"query", "null"}
    /\ pairs # << >> => pc \in {"query", "kinds", "fields", "null"}

\* Each parser sees links of its form only.
FormInv ==
    /\ pc = "user" => LinkLike
    /\ pc = "json" => ~LinkLike /\ link.scheme = "vmess"
    /\ pc \in {"creds", "blob"} => link.scheme = "ss"
    /\ pc = "authority" \/ pc \in Beyond =>
         \/ link.scheme = "ss" /\ creds # None
         \/ LinkLike /\ creds = None
    /\ pc = "kinds" => LinkLike
    /\ Accepted => \/ link.scheme = "ss" /\ creds # None
                   \/ LinkLike /\ creds = None
                   \/ link.scheme = "vmess" /\ ~LinkLike
    /\ pc \in {"query", "kinds", "fields"} => HasQuery
    /\ rc = 1 <=> pc # "returned"

\* What the node is before and behind its address.
NodeInv ==
    /\ pc \in {"entry", "user", "creds", "blob", "json"} => node = EmptyNode
    /\ Ready => /\ node.str["server"] # None /\ node.port \in 1..MaxPort
                /\ node.port \in DOMAIN Decimal
    /\ Accepted => node.str["name"] # None
    /\ rc = -1 => node = EmptyNode

\* parse_query stands at the beginning of a segment.
PosInv == pc = "query" => i = 1 \/ (i - 1 \in DOMAIN q /\ q[i - 1] = "&")

\* There are no credentials but a parsed ss link's.
CredsInv == pc \in {"entry", "user", "creds", "blob"} => creds = None

CoreInv == TypeOK /\ CredsInv /\ HeapInv /\ FormInv /\ NodeInv /\ PosInv /\ DefinedWhenComplete

-----------------------------------------------------------------------------
(* What has been cut off *)

\* The authority in hand is the node's.
AddressInv ==
    Ready /\ ~(link.scheme = "vmess" /\ ~LinkLike) =>
        /\ HasHostPort(rest)
        /\ node.str["server"] = xstrdup(Host(rest)) /\ node.port = PortNumber(rest)

\* A link's user and authority lie in front of its query and fragment.
LinkInv ==
    LinkLike =>
        /\ pc = "authority" \/ Ready =>
             /\ InFront /\ Decodes(User)
             /\ node.str[Secret] = xstrdup(url_decode(User))
             /\ rest = Middle
        /\ Accepted => node.str["name"] = NameOf(Trailer, node)

\* A link that has all parts and escapes as it should.
Sound == \E p \in Parts(text) : Decodes(p.user) /\ HasAuthority(p.auth) /\ Decodes(p.query)
RefusedInv == LinkLike /\ rc = -1 => starved \/ ~Sound

\* An ss link up to its query, plain or decoded; method and password stand
\* around the first colon of what, plain or decoded, is in front of an @ of it,
\* and r behind the @.
Outer == LET plain == SubSeq(text, 1, Limit(text) - 1)
         IN IF Contains(plain, "@") THEN plain ELSE Decoded(UrlBlobs, plain)
Splits(outer, c, r) ==
    \E a \in DOMAIN outer :
        LET user == SubSeq(outer, 1, a - 1) IN
        /\ outer[a] = "@" /\ r = SubSeq(outer, a + 1, Len(outer))
        /\ \E owner \in {user, Decoded(StdBlobs, user)} \ {None} :
             /\ First(owner, ":") \in DOMAIN owner
             /\ c.method   = xstrdup(SubSeq(owner, 1, First(owner, ":") - 1))
             /\ c.password = xstrdup(SubSeq(owner, First(owner, ":") + 1, Len(owner)))
UserPlain == First(text, "@") < Limit(text)
SsInv ==
    link.scheme = "ss" =>
        /\ pc = "creds" => UserPlain
        /\ pc = "blob" => ~UserPlain
        /\ pc = "authority" \/ Ready => Splits(Outer, creds, rest)
        /\ Ready => node.str["cipher"] = creds.method /\ node.str["password"] = creds.password

GrammarInv == AddressInv /\ LinkInv /\ RefusedInv /\ SsInv

-----------------------------------------------------------------------------
(* What the query means *)

Keys == DOMAIN Direct \cup {"type", "security", "path", "host"}

\* The value of the last of the first n pairs with key k.
Having(ps, k, n) == {m \in 1..n : ps[m].key = <<k>>}
LastOf(ps, k, n) == IF Having(ps, k, n) = {} THEN None ELSE ps[Max(Having(ps, k, n))].value
Taken(ps, n)     == [k \in Keys |-> LastOf(ps, k, n)]

\* The value of the last segment in front of position b that sets k.
Before(qq, k, b)  == {a \in Setting(qq, k) : a < b}
ValueTo(qq, k, b) ==
    IF Before(qq, k, b) = {} THEN None ELSE ValueOf(Segment(qq, Max(Before(qq, k, b))))
Read(qq, b)       == [k \in Keys |-> ValueTo(qq, k, b)]

Blank      == [k \in Keys |-> None]
Meant      == [k \in Keys |-> LastValue(q, k)]
DefaultTls == IF link.scheme = "trojan" THEN "tls" ELSE "none"

\* Transport and security of n, and its other fields, are those of val.
KindsAre(n, val, default) ==
    /\ n.transport = Otherwise(val["type"], "none", TransportOf)
    /\ n.tls = Otherwise(val["security"], default, TlsOf)
FieldsAre(n, val) ==
    /\ \A k \in DOMAIN Direct : n.str[Direct[k]] = val[k]
    /\ \A k \in DOMAIN Ws :
         /\ n.str[Place(n, k)] = val[k]
         /\ \A f \in {Ws[k], Xhttp[k]} \ {Place(n, k)} : n.str[f] = None

\* The pairs are those of the segments behind the parser, and the node has
\* what the pairs that are applied say: transport and security first.
Regular == q = << >> \/ q[1] # "&"
QueryInv ==
    LinkLike /\ Regular =>
        /\ pc \in {"authority", "query"} => KindsAre(node, Blank, DefaultTls) /\ FieldsAre(node, Blank)
        /\ pc = "query" => Taken(pairs, Len(pairs)) = Read(q, i)
        /\ pc \in {"kinds", "fields"} => i <= Len(pairs) + 1 /\ Taken(pairs, Len(pairs)) = Meant
        /\ pc = "kinds" => KindsAre(node, Taken(pairs, i - 1), DefaultTls) /\ FieldsAre(node, Blank)
        /\ pc = "fields" => KindsAre(node, Meant, DefaultTls) /\ FieldsAre(node, Taken(pairs, i - 1))
        /\ pc = "name" \/ Accepted => KindsAre(node, Meant, DefaultTls) /\ FieldsAre(node, Meant)

-----------------------------------------------------------------------------
(* Texts and positions in them *)

\* A set of naturals has a least element.
LEMMA LeastNat ==
    ASSUME NEW S, S \subseteq Nat, S # {}
    PROVE  Min(S) \in S /\ \A y \in S : Min(S) <= y
<1> DEFINE R == {ss \in Nat \X Nat : ss[1] < ss[2]}
<1>1. R = OpToRel(<, Nat)
  BY DEF OpToRel
<1>2. IsWellFoundedOn(R, Nat)
  BY <1>1, NatLessThanWellFounded
<1> HIDE DEF R
<1>3. PICK x \in S : \A y \in S : ~(<<y, x>> \in R)
  BY <1>2, WFMin
<1>4. ASSUME NEW y \in S
      PROVE  x <= y
  <2>1. x \in Nat /\ y \in Nat
    OBVIOUS
  <2>2. y < x => <<y, x>> \in R
    BY <2>1 DEF R
  <2> QED
    BY <1>3, <2>1, <2>2
<1> QED
  BY <1>4 DEF Min

\* A bounded one has a greatest, too: the one that is nearest to the bound.
LEMMA GreatestNat ==
    ASSUME NEW S, NEW n \in Nat, S \subseteq 0..n, S # {}
    PROVE  Max(S) \in S /\ \A y \in S : y <= Max(S)
<1> DEFINE D == {n - x : x \in S}
<1>1. D \subseteq Nat /\ D # {}
  <2>1. \A x \in S : x \in Int /\ x >= 0 /\ x <= n
    OBVIOUS
  <2>2. \A x \in S : n - x \in Nat
    BY <2>1
  <2> QED
    BY <2>2
<1> HIDE DEF D
<1>2. Min(D) \in D /\ \A d \in D : Min(D) <= d
  BY <1>1, LeastNat
<1>3. PICK x \in S : Min(D) = n - x
  BY <1>2 DEF D
<1>4. ASSUME NEW y \in S
      PROVE  x >= y
  <2>1. n - y \in D
    BY DEF D
  <2>2. n - x <= n - y
    BY <1>2, <1>3, <2>1
  <2> QED
    BY <2>2
<1> QED
  BY <1>4 DEF Max

LEMMA InText ==
    ASSUME NEW t \in Text
    PROVE  /\ Len(t) \in Nat /\ DOMAIN t = 1..Len(t)
           /\ \A k \in 1..Len(t) : t[k] \in Toks
           /\ t = << >> <=> Len(t) = 0
  BY EmptySeq, ElementOfSeq, LenProperties DEF Text

LEMMA Cut ==
    ASSUME NEW t \in Text, NEW m \in Nat \ {0}, NEW n \in Int, n <= Len(t)
    PROVE  /\ SubSeq(t, m, n) \in Text
           /\ Len(SubSeq(t, m, n)) = IF m <= n THEN n - m + 1 ELSE 0
           /\ \A k \in 1..(n - m + 1) : SubSeq(t, m, n)[k] = t[m + k - 1]
<1>1. \A k \in m..n : t[k] \in Toks
  BY InText
<1> QED
  BY <1>1, SubSeqProperties DEF Text

\* The same text twice.
LEMMA SameText ==
    ASSUME NEW s \in Text, NEW t \in Text, Len(s) = Len(t),
           \A k \in 1..Len(s) : s[k] = t[k]
    PROVE  s = t
  BY SeqEqual DEF Text

LEMMA FirstIs ==
    ASSUME NEW t \in Text, NEW c
    PROVE  /\ First(t, c) \in 1..(Len(t) + 1)
           /\ First(t, c) <= Len(t) => t[First(t, c)] = c
           /\ \A k \in 1..Len(t) : t[k] = c => First(t, c) <= k
<1> DEFINE S == {k \in DOMAIN t : t[k] = c} \cup {Len(t) + 1}
<1>1. S \subseteq Nat /\ S # {} /\ S \subseteq 1..(Len(t) + 1)
  BY InText
<1>2. Min(S) \in S /\ \A y \in S : Min(S) <= y
  BY <1>1, LeastNat
<1>3. First(t, c) = Min(S)
  BY DEF First
<1> QED
  BY <1>1, <1>2, <1>3, InText

LEMMA LastIs ==
    ASSUME NEW t \in Text, NEW c
    PROVE  /\ LastAt(t, c) \in 0..Len(t)
           /\ LastAt(t, c) > 0 => t[LastAt(t, c)] = c
           /\ \A k \in 1..Len(t) : t[k] = c => k <= LastAt(t, c)
<1> DEFINE S == {k \in DOMAIN t : t[k] = c} \cup {0}
<1>1. S \subseteq 0..Len(t) /\ S # {} /\ Len(t) \in Nat
  BY InText
<1>2. Max(S) \in S /\ \A y \in S : y <= Max(S)
  BY <1>1, GreatestNat
<1>3. LastAt(t, c) = Max(S)
  BY DEF LastAt
<1> QED
  BY <1>1, <1>2, <1>3, InText

\* Where c stands first when nothing in front of k is c.
LEMMA FirstFound ==
    ASSUME NEW t \in Text, NEW c, NEW k \in 1..(Len(t) + 1),
           k <= Len(t) => t[k] = c, \A j \in 1..Len(t) : j < k => t[j] # c
    PROVE  First(t, c) = k
  BY FirstIs, InText

LEMMA LastFound ==
    ASSUME NEW t \in Text, NEW c, NEW k \in 1..Len(t),
           t[k] = c, \A j \in 1..Len(t) : j > k => t[j] # c
    PROVE  LastAt(t, c) = k
  BY LastIs, InText

LEMMA Decoding ==
    ASSUME NEW t \in Text
    PROVE  /\ url_decode(t) \in Text /\ xstrdup(t) \in Text
           /\ Len(url_decode(t)) = Len(t) /\ Len(xstrdup(t)) <= Len(t)
<1>1. {"@", "&", "NUL"} \subseteq Toks
  BY ShareLinkAssumption
<1>2. \A k \in 1..Len(t) : url_decode(t)[k] \in Toks
  BY <1>1, InText DEF url_decode
<1>3. DOMAIN url_decode(t) = 1..Len(t) /\ url_decode(t) = [k \in 1..Len(t) |-> url_decode(t)[k]]
  BY InText DEF url_decode
<1>4. url_decode(t) \in Text
  BY <1>2, <1>3, IsASeq, InText DEF Text
<1>5. Len(url_decode(t)) = Len(t)
  BY <1>3, <1>4, InText, LenProperties DEF Text
<1>6. /\ First(t, "NUL") - 1 \in Int /\ First(t, "NUL") - 1 <= Len(t) /\ Len(t) \in Nat
      /\ First(t, "NUL") - 1 >= 0
  BY FirstIs, InText
<1> DEFINE n == First(t, "NUL") - 1
<1> HIDE DEF n
<1>7. n \in Int /\ n <= Len(t) /\ n >= 0
  BY <1>6 DEF n
<1>8. SubSeq(t, 1, n) \in Text /\ Len(SubSeq(t, 1, n)) = n
  BY <1>7, Cut
<1>9. xstrdup(t) \in Text /\ Len(xstrdup(t)) <= Len(t)
  BY <1>7, <1>8 DEF xstrdup, n
<1> QED
  BY <1>4, <1>5, <1>9

LEMMA DecodedText ==
    ASSUME NEW t
    PROVE  /\ Decoded(StdBlobs, t) \in MaybeText
           /\ Decoded(UrlBlobs, t) \in MaybeText
           /\ Decoded(Json, t) # None => Decoded(Json, t) \in Doc
  BY ShareLinkAssumption DEF Decoded, MaybeText

-----------------------------------------------------------------------------
(* What the searches find *)

LEMMA LinkText ==
    ASSUME link \in Links
    PROVE  text \in Text /\ link.scheme \in Schemes
<1> DEFINE t == link.text
           S == {k \in DOMAIN t : t[k] # "CR"} \cup {0}
<1>1. t \in Text /\ link.scheme \in Schemes
  BY ShareLinkAssumption
<1>2. S \subseteq 0..Len(t) /\ S # {} /\ Len(t) \in Nat
  BY <1>1, InText
<1>3. Max(S) \in 0..Len(t)
  BY <1>2, GreatestNat
<1>4. text = SubSeq(t, 1, Max(S))
  BY DEF text, trim_crlf
<1> QED
  BY <1>1, <1>3, <1>4, Cut, InText

LEMMA Landmarks ==
    ASSUME NEW t \in Text
    PROVE  /\ Frag(t) \in 1..(Len(t) + 1)
           /\ Frag(t) <= Len(t) => t[Frag(t)] = "#"
           /\ \A k \in 1..Len(t) : t[k] = "#" => Frag(t) <= k
           /\ Query(t) \in 1..(Len(t) + 1)
           /\ Query(t) < Frag(t) => t[Query(t)] = "?"
           /\ Query(t) < Frag(t) \/ Query(t) = Len(t) + 1
           /\ \A k \in 1..Len(t) : t[k] = "?" /\ k < Frag(t) => Query(t) <= k
           /\ Limit(t) = IF Query(t) < Frag(t) THEN Query(t) ELSE Frag(t)
           /\ Limit(t) \in 1..(Len(t) + 1)
           /\ At(t) \in 1..(Len(t) + 1)
           /\ At(t) <= Len(t) => t[At(t)] = "@" /\ At(t) < Query(t)
           /\ \A k \in 1..Len(t) : t[k] = "@" /\ k < Query(t) => At(t) <= k
<1>1. Len(t) \in Nat
  BY InText
<1>2. /\ Frag(t) \in 1..(Len(t) + 1) /\ (Frag(t) <= Len(t) => t[Frag(t)] = "#")
      /\ \A k \in 1..Len(t) : t[k] = "#" => Frag(t) <= k
  BY FirstIs DEF Frag
<1>3. /\ First(t, "?") \in 1..(Len(t) + 1)
      /\ First(t, "?") <= Len(t) => t[First(t, "?")] = "?"
      /\ \A k \in 1..Len(t) : t[k] = "?" => First(t, "?") <= k
  BY FirstIs
<1>4. Query(t) = IF First(t, "?") < Frag(t) THEN First(t, "?") ELSE Len(t) + 1
  BY DEF Query
<1>5. Limit(t) = IF Query(t) < Frag(t) THEN Query(t) ELSE Frag(t)
  BY DEF Limit
<1>6. /\ First(t, "@") \in 1..(Len(t) + 1)
      /\ First(t, "@") <= Len(t) => t[First(t, "@")] = "@"
      /\ \A k \in 1..Len(t) : t[k] = "@" => First(t, "@") <= k
  BY FirstIs
<1>7. At(t) = IF First(t, "@") < Query(t) THEN First(t, "@") ELSE Len(t) + 1
  BY DEF At
<1>8. /\ Query(t) \in 1..(Len(t) + 1) /\ (Query(t) < Frag(t) => t[Query(t)] = "?")
      /\ Query(t) < Frag(t) \/ Query(t) = Len(t) + 1
      /\ \A k \in 1..Len(t) : t[k] = "?" /\ k < Frag(t) => Query(t) <= k
  BY <1>1, <1>2, <1>3, <1>4
<1>9. /\ At(t) \in 1..(Len(t) + 1) /\ (At(t) <= Len(t) => t[At(t)] = "@" /\ At(t) < Query(t))
      /\ \A k \in 1..Len(t) : t[k] = "@" /\ k < Query(t) => At(t) <= k
  BY <1>1, <1>6, <1>7, <1>8
<1> QED
  BY <1>1, <1>2, <1>5, <1>8, <1>9

\* The form of a link that LinkLike describes is the one Entry looks for.
LEMMA LinkForm ==
    ASSUME link \in Links
    PROVE  LinkLike <=> \/ link.scheme \in {"vless", "trojan"}
                        \/ link.scheme = "vmess" /\ First(text, "@") < Frag(text)
<1> DEFINE u == SubSeq(text, 1, Frag(text) - 1)
<1>1. text \in Text /\ Frag(text) \in 1..(Len(text) + 1) /\ Len(text) \in Nat
  BY LinkText, Landmarks, InText
<1>2. /\ u \in Text /\ Len(u) = Frag(text) - 1
      /\ \A k \in 1..(Frag(text) - 1) : u[k] = text[k]
  BY <1>1, Cut
<1>3. /\ First(text, "@") \in 1..(Len(text) + 1)
      /\ First(text, "@") <= Len(text) => text[First(text, "@")] = "@"
      /\ \A k \in 1..Len(text) : text[k] = "@" => First(text, "@") <= k
  BY <1>1, FirstIs
<1>4. Contains(u, "@") <=> \E k \in 1..(Frag(text) - 1) : text[k] = "@"
  BY <1>2 DEF Contains
<1>5. (\E k \in 1..(Frag(text) - 1) : text[k] = "@") <=> First(text, "@") < Frag(text)
  BY <1>1, <1>3
<1> QED
  BY <1>4, <1>5 DEF LinkLike

\* A port's text is a number up to the first NUL.
LEMMA PortTail ==
    ASSUME NEW s \in Text, NEW port
    PROVE  IsPort(s, port) <=>
             Chars(s) < PortBuf /\ xstrdup(s) \in DOMAIN Ports /\ Ports[xstrdup(s)] = port
<1> DEFINE f == First(s, "NUL")
<1>1. /\ f \in 1..(Len(s) + 1) /\ (f <= Len(s) => s[f] = "NUL")
      /\ \A k \in 1..Len(s) : s[k] = "NUL" => f <= k
  BY FirstIs
<1>2. Len(s) \in Nat /\ "NUL" \in Toks
  BY InText, ShareLinkAssumption
<1>3. xstrdup(s) = SubSeq(s, 1, f - 1)
  BY DEF xstrdup
<1> HIDE DEF f
<1>4. /\ xstrdup(s) \in Text /\ Len(xstrdup(s)) = f - 1
      /\ \A k \in 1..(f - 1) : xstrdup(s)[k] = s[k]
  <2>1. f - 1 \in Int /\ f - 1 <= Len(s) /\ f - 1 >= 0
    BY <1>1, <1>2
  <2> QED
    BY <1>3, <2>1, Cut
<1>5. ASSUME NEW n \in DOMAIN Ports, s = n \/ IsPrefix(n \o <<"NUL">>, s)
      PROVE  xstrdup(s) = n
  <2>1. n \in Text /\ Len(n) \in Nat /\ \A k \in 1..Len(n) : n[k] # "NUL"
    <3>1. n \in Text /\ "NUL" \notin ToSet(n)
      BY ShareLinkAssumption
    <3> QED
      BY <3>1, InText DEF ToSet
  <2>2. /\ Len(n) <= Len(s) /\ \A k \in 1..Len(n) : s[k] = n[k]
        /\ Len(n) < Len(s) => s[Len(n) + 1] = "NUL"
    <3>1. CASE s = n
      BY <2>1, <3>1
    <3>2. CASE IsPrefix(n \o <<"NUL">>, s)
      <4> DEFINE m == n \o <<"NUL">>
      <4>1. <<"NUL">> \in Text /\ Len(<<"NUL">>) = 1
        BY <1>2 DEF Text
      <4>2. /\ m \in Text /\ Len(m) = Len(n) + 1
            /\ \A k \in 1..(Len(n) + 1) : m[k] = IF k <= Len(n) THEN n[k] ELSE <<"NUL">>[k - Len(n)]
        BY <2>1, <4>1, ConcatProperties DEF Text
      <4>3. m[Len(n) + 1] = "NUL" /\ \A k \in 1..Len(n) : m[k] = n[k]
        BY <2>1, <4>2
      <4> HIDE DEF m
      <4>4. Len(m) <= Len(s) /\ SubSeq(m, 1, Len(m)) = SubSeq(s, 1, Len(m))
        BY <3>2 DEF IsPrefix, m
      <4>5. /\ \A k \in 1..Len(m) : SubSeq(m, 1, Len(m))[k] = m[k]
            /\ \A k \in 1..Len(m) : SubSeq(s, 1, Len(m))[k] = s[k]
        BY <2>1, <4>2, <4>4, Cut
      <4>6. \A k \in 1..Len(m) : s[k] = m[k]
        BY <4>4, <4>5
      <4> QED
        BY <1>2, <2>1, <4>2, <4>3, <4>4, <4>6
    <3> QED
      BY <1>5, <3>1, <3>2
  <2>3. f = Len(n) + 1
    <3>1. \A j \in 1..Len(s) : j < Len(n) + 1 => s[j] # "NUL"
      BY <1>2, <2>1, <2>2
    <3>2. Len(n) + 1 \in 1..(Len(s) + 1) /\ (Len(n) + 1 <= Len(s) => s[Len(n) + 1] = "NUL")
      BY <1>2, <2>1, <2>2
    <3> QED
      BY <3>1, <3>2, FirstFound DEF f
  <2>4. Len(xstrdup(s)) = Len(n) /\ \A k \in 1..Len(n) : xstrdup(s)[k] = n[k]
    BY <1>4, <2>1, <2>2, <2>3
  <2> QED
    BY <1>4, <2>1, <2>4, SameText
<1>6. s = xstrdup(s) \/ IsPrefix(xstrdup(s) \o <<"NUL">>, s)
  <2>1. CASE f = Len(s) + 1
    BY <1>2, <1>4, <2>1, SameText
  <2>2. CASE f <= Len(s)
    <3> DEFINE m == xstrdup(s) \o <<"NUL">>
    <3>1. <<"NUL">> \in Text /\ Len(<<"NUL">>) = 1
      BY <1>2 DEF Text
    <3>2. /\ m \in Text /\ Len(m) = f
          /\ \A k \in 1..f : m[k] = IF k <= f - 1 THEN xstrdup(s)[k] ELSE <<"NUL">>[k - (f - 1)]
      BY <1>1, <1>4, <3>1, ConcatProperties DEF Text
    <3> HIDE DEF m
    <3>3. \A k \in 1..f : m[k] = s[k]
      BY <1>1, <1>2, <1>4, <2>2, <3>2
    <3>4. f \in Int /\ f <= Len(m) /\ f <= Len(s) /\ f >= 1
      BY <1>1, <1>2, <2>2, <3>2
    <3>5. /\ SubSeq(m, 1, f) \in Text /\ Len(SubSeq(m, 1, f)) = f
          /\ \A k \in 1..f : SubSeq(m, 1, f)[k] = m[k]
      BY <3>2, <3>4, Cut
    <3>6. /\ SubSeq(s, 1, f) \in Text /\ Len(SubSeq(s, 1, f)) = f
          /\ \A k \in 1..f : SubSeq(s, 1, f)[k] = s[k]
      BY <3>4, Cut
    <3>7. SubSeq(m, 1, f) = SubSeq(s, 1, f)
      BY <3>3, <3>5, <3>6, SameText
    <3>8. IsPrefix(m, s)
      BY <3>2, <3>4, <3>7 DEF IsPrefix
    <3> QED
      BY <3>8 DEF m
  <2> QED
    BY <1>1, <1>2, <2>1, <2>2
<1>7. Chars(s) < 16 <=> Chars(s) < PortBuf
  BY DEF PortBuf
<1> QED
  BY <1>5, <1>6, <1>7 DEF IsPort

\* parse_host_port's verdict, host and port are those of an authority.
LEMMA HostPort ==
    ASSUME NEW t \in Text, HasHostPort(t)
    PROVE  /\ Host(t) \in Text /\ Host(t) # << >> /\ PortNumber(t) \in 1..MaxPort
           /\ PortNumber(t) \in DOMAIN Decimal
           /\ Host(t) \in Inside(t) /\ IsAuthority(t, Host(t), PortNumber(t))
<1> DEFINE e == HostEnd(t)
           p == PortStart(t)
           s == SubSeq(t, p, Len(t))
<1>1. /\ t # << >> /\ p - 1 \in 1..Len(t) /\ t[p - 1] = ":" /\ Host(t) # << >>
      /\ PortValid(t) /\ Len(t) \in Nat
  BY InText DEF HasHostPort, Separated
<1>2. e \in Int /\ p \in Int
  BY FirstIs, LastIs, InText DEF HostEnd, PortStart
<1>3. p \in Nat \ {0} /\ p <= Len(t) + 1
  BY <1>1, <1>2
<1>4. /\ s \in Text /\ Len(s) = IF p <= Len(t) THEN Len(t) - p + 1 ELSE 0
      /\ \A k \in 1..(Len(t) - p + 1) : s[k] = t[p + k - 1]
  BY <1>1, <1>3, Cut
<1>5. /\ PortNumber(t) = Ports[xstrdup(s)] /\ Chars(s) < PortBuf
      /\ xstrdup(s) \in DOMAIN Ports /\ PortNumber(t) \in 1..MaxPort
  BY <1>1 DEF PortValid, PortNumber, Digits, PortText
<1>6. PortNumber(t) \in DOMAIN Decimal
  BY <1>5, ShareLinkAssumption DEF Written
<1>7. IsPort(s, PortNumber(t))
  BY <1>4, <1>5, PortTail
<1>8. p \in DOMAIN t
  <2>1. xstrdup(s) # << >>
    BY <1>5, ShareLinkAssumption
  <2>2. Len(xstrdup(s)) <= Len(s) /\ xstrdup(s) \in Text
    BY <1>4, Decoding
  <2>3. Len(s) # 0
    BY <1>4, <2>1, <2>2, InText
  <2> QED
    BY <1>1, <1>3, <1>4, <2>3, InText
<1>9. p <= Len(t) /\ Len(s) = Len(t) - p + 1
  BY <1>4, <1>8, InText
<1> HIDE DEF e, p, s
<1>10. /\ e \in Int /\ p \in Int /\ Len(t) \in Int /\ Len(s) \in Int
       /\ p <= Len(t) /\ Len(s) = Len(t) - p + 1 /\ p >= 1
  BY <1>1, <1>2, <1>3, <1>9
<1>11. CASE t[1] = "["
  <2>1. /\ e = First(t, "]") - 1 /\ p = e + 3 /\ Host(t) = SubSeq(t, 2, e)
    BY <1>11 DEF e, p, HostEnd, PortStart, Host, HostStart
  <2>2. /\ First(t, "]") \in 1..(Len(t) + 1)
        /\ First(t, "]") <= Len(t) => t[First(t, "]")] = "]"
        /\ \A k \in 1..Len(t) : t[k] = "]" => First(t, "]") <= k
    BY FirstIs
  <2>3. First(t, "]") = e + 1 /\ e + 3 <= Len(t) /\ e \in 0..Len(t)
    <3>1. First(t, "]") \in Int /\ First(t, "]") >= 1
      BY <2>2, <1>10
    <3>2. First(t, "]") = e + 1
      BY <1>10, <2>1, <3>1
    <3>3. e + 3 <= Len(t)
      BY <1>10, <2>1
    <3>4. e >= 0
      BY <1>10, <2>1, <3>1
    <3>5. e <= Len(t)
      BY <1>10, <3>3
    <3> QED
      BY <1>10, <3>2, <3>3, <3>4, <3>5
  <2>4. p = e + 3 /\ e \in Int
    BY <1>10, <2>1
  <2>5. t[e + 1] = "]" /\ t[e + 2] = ":"
    <3>1. p - 1 = e + 2
      BY <1>2, <2>1
    <3> QED
      BY <1>1, <2>2, <2>3, <3>1
  <2>6. e >= 2
    BY <1>1, <1>2, <2>1, SubSeqEmpty
  <2>7. /\ Host(t) \in Text /\ Len(Host(t)) = e - 1
        /\ \A k \in 1..(e - 1) : Host(t)[k] = t[k + 1]
    BY <2>1, <2>3, <2>6, Cut
  <2>8. "]" \notin ToSet(Host(t))
    <3>1. \A k \in 1..(e - 1) : t[k + 1] # "]"
      <4>1. \A k \in 1..(e - 1) : k + 1 \in 1..Len(t) /\ ~(e + 1 <= k + 1)
        BY <1>1, <2>3
      <4> QED
        BY <2>2, <2>3, <4>1
    <3> QED
      BY <2>7, <3>1, InText DEF ToSet
  <2>9. t = <<"[">> \o Host(t) \o <<"]", ":">> \o s
    <3> DEFINE a == <<"[">> \o Host(t)
               b == a \o <<"]", ":">>
    <3>1. t[1] \in Toks /\ t[e + 1] \in Toks /\ t[e + 2] \in Toks
      BY <1>1, <2>3, InText
    <3>2. <<"[">> \in Text /\ <<"]", ":">> \in Text /\ Len(<<"]", ":">>) = 2
      BY <1>11, <2>5, <3>1 DEF Text
    <3>3. /\ a \in Text /\ Len(a) = e
          /\ \A k \in 1..e : a[k] = IF k = 1 THEN "[" ELSE t[k]
      BY <2>3, <2>6, <2>7, <3>2, ConcatProperties DEF Text
    <3> HIDE DEF a
    <3>4. /\ b \in Text /\ Len(b) = e + 2
          /\ \A k \in 1..(e + 2) : b[k] = IF k <= e THEN a[k] ELSE <<"]", ":">>[k - e]
      BY <2>3, <3>2, <3>3, ConcatProperties DEF Text
    <3>5. \A k \in 1..(e + 2) : b[k] = t[k]
      BY <1>11, <2>3, <2>5, <3>3, <3>4
    <3> HIDE DEF b
    <3>6. /\ b \o s \in Text /\ Len(b \o s) = Len(t)
          /\ \A k \in 1..Len(t) : (b \o s)[k] = IF k <= e + 2 THEN b[k] ELSE s[k - (e + 2)]
      <4>1. Len(b) + Len(s) = Len(t)
        <5>1. Len(b) = e + 2
          BY <3>4
        <5> QED
          BY <1>10, <2>4, <5>1
      <4> QED
        BY <1>4, <3>4, <4>1, ConcatProperties DEF Text
    <3>7. \A k \in 1..Len(t) : k > e + 2 => s[k - (e + 2)] = t[k]
      <4> SUFFICES ASSUME NEW k \in 1..Len(t), k > e + 2 PROVE s[k - (e + 2)] = t[k]
        OBVIOUS
      <4>1. k - (e + 2) \in 1..(Len(t) - p + 1) /\ p + (k - (e + 2)) - 1 = k
        BY <1>10, <2>4
      <4> QED
        BY <1>4, <4>1
    <3>8. \A k \in 1..Len(t) : t[k] = (b \o s)[k]
      BY <1>10, <3>5, <3>6, <3>7
    <3>9. t = b \o s
      BY <3>6, <3>8, SameText
    <3> QED
      BY <3>9 DEF a, b
  <2>10. Host(t) \in Inside(t)
    BY <2>1, <2>3 DEF Inside
  <2> QED
    BY <1>1, <1>5, <1>6, <1>7, <1>8, <2>7, <2>8, <2>9, <2>10 DEF IsAuthority, s
<1>12. CASE t[1] # "["
  <2>1. /\ e = LastAt(t, ":") - 1 /\ p = e + 2 /\ Host(t) = SubSeq(t, 1, e)
    BY <1>12 DEF e, p, HostEnd, PortStart, Host, HostStart
  <2>2. p = e + 2 /\ e \in Int
    BY <1>10, <2>1
  <2>3. e + 2 <= Len(t) /\ t[e + 1] = ":"
    <3>1. p - 1 = e + 1
      BY <1>2, <2>1
    <3> QED
      BY <1>1, <1>9, <2>1, <3>1
  <2>4. e >= 1
    BY <1>1, <1>2, <2>1, SubSeqEmpty
  <2>5. /\ Host(t) \in Text /\ Len(Host(t)) = e
        /\ \A k \in 1..e : Host(t)[k] = t[k]
    BY <1>1, <1>2, <2>1, <2>3, <2>4, Cut
  <2>6. ":" \notin ToSet(s)
    <3>1. \A k \in 1..Len(t) : t[k] = ":" => k <= e + 1
      BY <1>2, <2>1, LastIs
    <3>2. \A k \in 1..Len(s) : s[k] # ":"
      <4> SUFFICES ASSUME NEW k \in 1..Len(s) PROVE s[k] # ":"
        OBVIOUS
      <4>1. s[k] = t[p + k - 1] /\ p + k - 1 \in 1..Len(t) /\ ~(p + k - 1 <= e + 1)
        <5>1. k \in 1..(Len(t) - p + 1) /\ p + k - 1 \in 1..Len(t) /\ ~(p + k - 1 <= e + 1)
          BY <1>10, <2>2
        <5> QED
          BY <1>4, <5>1
      <4> QED
        BY <3>1, <4>1
    <3> QED
      BY <1>4, <3>2, InText DEF ToSet
  <2>7. t = Host(t) \o <<":">> \o s
    <3> DEFINE b == Host(t) \o <<":">>
    <3>1. <<":">> \in Text /\ Len(<<":">>) = 1
      BY ShareLinkAssumption DEF Text
    <3>2. /\ b \in Text /\ Len(b) = e + 1
          /\ \A k \in 1..(e + 1) : b[k] = IF k <= e THEN Host(t)[k] ELSE <<":">>[k - e]
      BY <1>2, <2>4, <2>5, <3>1, ConcatProperties DEF Text
    <3>3. \A k \in 1..(e + 1) : b[k] = t[k]
      BY <1>2, <2>3, <2>5, <3>2
    <3> HIDE DEF b
    <3>4. /\ b \o s \in Text /\ Len(b \o s) = Len(t)
          /\ \A k \in 1..Len(t) : (b \o s)[k] = IF k <= e + 1 THEN b[k] ELSE s[k - (e + 1)]
      <4>1. Len(b) + Len(s) = Len(t)
        <5>1. Len(b) = e + 1
          BY <3>2
        <5> QED
          BY <1>10, <2>2, <5>1
      <4> QED
        BY <1>4, <3>2, <4>1, ConcatProperties DEF Text
    <3>5. \A k \in 1..Len(t) : k > e + 1 => s[k - (e + 1)] = t[k]
      <4> SUFFICES ASSUME NEW k \in 1..Len(t), k > e + 1 PROVE s[k - (e + 1)] = t[k]
        OBVIOUS
      <4>1. k - (e + 1) \in 1..(Len(t) - p + 1) /\ p + (k - (e + 1)) - 1 = k
        BY <1>10, <2>2
      <4> QED
        BY <1>4, <4>1
    <3>6. \A k \in 1..Len(t) : t[k] = (b \o s)[k]
      BY <1>10, <3>3, <3>4, <3>5
    <3>7. t = b \o s
      BY <3>4, <3>6, SameText
    <3> QED
      BY <3>7 DEF b
  <2>8. Host(t) \in Inside(t)
    <3>1. e \in 0..Len(t)
      BY <1>10, <2>3, <2>4
    <3> QED
      BY <2>1, <3>1 DEF Inside
  <2>9. Host(t)[1] # "["
    BY <1>2, <1>12, <2>4, <2>5
  <2> QED
    BY <1>1, <1>5, <1>6, <1>7, <1>8, <2>5, <2>6, <2>7, <2>8, <2>9 DEF IsAuthority, s
<1> QED
  BY <1>11, <1>12

\* Every authority is one that parse_host_port takes.
LEMMA AuthorityTaken ==
    ASSUME NEW t \in Text, HasAuthority(t)
    PROVE  HasHostPort(t)
<1>1. PICK h \in Inside(t), n \in DOMAIN Ports : IsAuthority(t, h, Ports[n])
  BY DEF HasAuthority
<1>2. PICK x \in DOMAIN t :
        LET s == SubSeq(t, x, Len(t)) IN
        /\ IsPort(s, Ports[n])
        /\ \/ t = h \o <<":">> \o s /\ h[1] # "[" /\ ":" \notin ToSet(s)
           \/ t = <<"[">> \o h \o <<"]", ":">> \o s /\ "]" \notin ToSet(h)
  BY <1>1 DEF IsAuthority
<1>3. h # << >> /\ Ports[n] \in 1..MaxPort
  BY <1>1 DEF IsAuthority
<1> DEFINE s == SubSeq(t, x, Len(t))
<1>4. h \in Text /\ Len(h) \in Nat \ {0} /\ Len(t) \in Nat
  <2>1. PICK a \in 1..2, b \in 0..Len(t) : h = SubSeq(t, a, b)
    BY DEF Inside
  <2>2. Len(t) \in Nat
    BY InText
  <2>3. h \in Text
    BY <2>1, <2>2, Cut
  <2> QED
    BY <1>3, <2>2, <2>3, InText
<1>5. s \in Text /\ Len(s) \in Nat
  <2>1. x \in Nat \ {0} /\ Len(t) \in Int /\ Len(t) <= Len(t)
    BY <1>4, InText
  <2>2. s \in Text
    BY <2>1, Cut
  <2> QED
    BY <2>2, InText
<1>6. /\ IsPort(s, Ports[n])
      /\ \/ t = h \o <<":">> \o s /\ h[1] # "[" /\ ":" \notin ToSet(s)
         \/ t = <<"[">> \o h \o <<"]", ":">> \o s /\ "]" \notin ToSet(h)
  BY <1>2
<1> HIDE DEF s
<1>7. ASSUME PortStart(t) \in Nat \ {0}, SubSeq(t, PortStart(t), Len(t)) = s
      PROVE  PortValid(t)
  BY <1>3, <1>5, <1>6, <1>7, PortTail DEF PortValid, Digits, PortText
<1>8. CASE t = h \o <<":">> \o s /\ h[1] # "[" /\ ":" \notin ToSet(s)
  <2> DEFINE b == h \o <<":">>
             m == Len(h)
  <2>1. <<":">> \in Text /\ Len(<<":">>) = 1 /\ m \in Nat \ {0}
    BY <1>4, ShareLinkAssumption DEF Text
  <2>2. /\ b \in Text /\ Len(b) = m + 1
        /\ \A k \in 1..(m + 1) : b[k] = IF k <= m THEN h[k] ELSE <<":">>[k - m]
    BY <1>4, <2>1, ConcatProperties DEF Text
  <2>3. t = b \o s
    BY <1>8
  <2> HIDE DEF b, m
  <2>4. /\ Len(t) = m + 1 + Len(s)
        /\ \A k \in 1..Len(t) : t[k] = IF k <= m + 1 THEN b[k] ELSE s[k - (m + 1)]
    <3>1. b \in Seq(Toks) /\ s \in Seq(Toks) /\ Len(b) = m + 1
      BY <1>5, <2>2 DEF Text
    <3>2. /\ Len(b \o s) = Len(b) + Len(s)
          /\ \A k \in 1..(Len(b) + Len(s)) : (b \o s)[k] = IF k <= Len(b) THEN b[k] ELSE s[k - Len(b)]
      BY <3>1, ConcatProperties
    <3> QED
      BY <2>3, <3>1, <3>2
  <2>5. t[m + 1] = ":" /\ t[1] = h[1]
    BY <1>5, <2>1, <2>2, <2>4
  <2>6. \A k \in 1..Len(t) : k > m + 1 => t[k] # ":"
    <3> SUFFICES ASSUME NEW k \in 1..Len(t), k > m + 1 PROVE t[k] # ":"
      OBVIOUS
    <3>1. t[k] = s[k - (m + 1)] /\ k - (m + 1) \in 1..Len(s)
      BY <1>4, <1>5, <2>1, <2>4
    <3> QED
      BY <1>5, <1>8, <3>1, InText DEF ToSet
  <2>7. LastAt(t, ":") = m + 1
    <3>1. m + 1 \in 1..Len(t)
      BY <1>5, <2>1, <2>4
    <3> QED
      BY <2>5, <2>6, <3>1, LastFound
  <2>8. HostEnd(t) = m /\ PortStart(t) = m + 2 /\ Host(t) = SubSeq(t, 1, m)
    <3>1. HostEnd(t) = m /\ t[1] # "["
      BY <1>8, <2>1, <2>5, <2>7 DEF HostEnd
    <3> QED
      BY <3>1 DEF PortStart, Host, HostStart
  <2>9. Host(t) # << >>
    <3>1. Len(SubSeq(t, 1, m)) = m /\ SubSeq(t, 1, m) \in Text
      BY <1>5, <2>1, <2>4, Cut
    <3> QED
      BY <2>1, <2>8, <3>1, InText
  <2>10. SubSeq(t, m + 2, Len(t)) = s
    <3>1. /\ SubSeq(t, m + 2, Len(t)) \in Text /\ Len(SubSeq(t, m + 2, Len(t))) = Len(s)
          /\ \A k \in 1..Len(s) : SubSeq(t, m + 2, Len(t))[k] = t[(m + 2) + k - 1]
      BY <1>4, <1>5, <2>1, <2>4, Cut
    <3>2. \A k \in 1..Len(s) : t[(m + 2) + k - 1] = s[k]
      BY <1>4, <1>5, <2>1, <2>4
    <3> QED
      BY <1>5, <3>1, <3>2, SameText
  <2>11. PortValid(t)
    BY <1>7, <2>1, <2>8, <2>10
  <2>12. t # << >> /\ m + 1 \in DOMAIN t /\ PortStart(t) - 1 = m + 1
    BY <1>4, <1>5, <2>1, <2>4, <2>8, InText
  <2> QED
    BY <2>5, <2>9, <2>11, <2>12 DEF HasHostPort, Separated
<1>9. CASE t = <<"[">> \o h \o <<"]", ":">> \o s /\ "]" \notin ToSet(h)
  <2> DEFINE m == Len(h)
  <2>1. m \in Nat \ {0}
    BY <1>4
  <2>2. /\ Len(t) = m + 3 + Len(s)
        /\ t[1] = "[" /\ t[m + 2] = "]" /\ t[m + 3] = ":"
        /\ \A k \in 2..(m + 1) : t[k] = h[k - 1]
        /\ \A k \in 1..Len(t) : k > m + 3 => t[k] = s[k - (m + 3)]
    <3> DEFINE T == Toks \cup {"[", "]", ":"}
               a == <<"[">> \o h
               b == a \o <<"]", ":">>
    <3>1. /\ h \in Seq(T) /\ s \in Seq(T) /\ <<"[">> \in Seq(T) /\ <<"]", ":">> \in Seq(T)
          /\ Len(<<"]", ":">>) = 2 /\ Len(<<"[">>) = 1
      BY <1>4, <1>5, SeqMonotonic DEF Text
    <3> HIDE DEF T
    <3>2. /\ a \in Seq(T) /\ Len(a) = m + 1
          /\ \A k \in 1..(m + 1) : a[k] = IF k = 1 THEN "[" ELSE h[k - 1]
      BY <2>1, <3>1, ConcatProperties
    <3> HIDE DEF a
    <3>3. /\ b \in Seq(T) /\ Len(b) = m + 3
          /\ \A k \in 1..(m + 3) : b[k] = IF k <= m + 1 THEN a[k] ELSE <<"]", ":">>[k - (m + 1)]
      BY <2>1, <3>1, <3>2, ConcatProperties
    <3>4. b[1] = "[" /\ b[m + 2] = "]" /\ b[m + 3] = ":" /\ \A k \in 2..(m + 1) : b[k] = h[k - 1]
      BY <2>1, <3>2, <3>3
    <3>5. t = b \o s
      BY <1>9 DEF a
    <3> HIDE DEF b, m
    <3>6. /\ Len(t) = m + 3 + Len(s)
          /\ \A k \in 1..Len(t) : t[k] = IF k <= m + 3 THEN b[k] ELSE s[k - (m + 3)]
      <4>1. /\ Len(b \o s) = Len(b) + Len(s)
            /\ \A k \in 1..(Len(b) + Len(s)) : (b \o s)[k] = IF k <= Len(b) THEN b[k] ELSE s[k - Len(b)]
        <5>1. b \in Seq(T) /\ s \in Seq(T)
          BY <3>1, <3>3
        <5> QED
          BY <5>1, ConcatProperties
      <4> QED
        BY <3>3, <3>5, <4>1
    <3> QED
      BY <1>5, <2>1, <3>4, <3>6
  <2> HIDE DEF m
  <2>3. \A k \in 2..(m + 1) : t[k] # "]"
    BY <1>4, <1>9, <2>1, <2>2, InText DEF ToSet, m
  <2>4. First(t, "]") = m + 2
    <3>1. m + 2 \in 1..(Len(t) + 1) /\ \A j \in 1..Len(t) : j < m + 2 => t[j] # "]"
      BY <1>4, <1>5, <2>1, <2>2, <2>3
    <3> QED
      BY <2>2, <3>1, FirstFound
  <2>5. HostEnd(t) = m + 1 /\ PortStart(t) = m + 4 /\ Host(t) = SubSeq(t, 2, m + 1)
    BY <2>1, <2>2, <2>4 DEF HostEnd, PortStart, Host, HostStart
  <2>6. Host(t) # << >>
    <3>1. Len(SubSeq(t, 2, m + 1)) = m /\ SubSeq(t, 2, m + 1) \in Text
      BY <1>5, <2>1, <2>2, Cut
    <3> QED
      BY <2>1, <2>5, <3>1, InText
  <2>7. SubSeq(t, m + 4, Len(t)) = s
    <3>1. /\ SubSeq(t, m + 4, Len(t)) \in Text /\ Len(SubSeq(t, m + 4, Len(t))) = Len(s)
          /\ \A k \in 1..Len(s) : SubSeq(t, m + 4, Len(t))[k] = t[(m + 4) + k - 1]
      BY <1>4, <1>5, <2>1, <2>2, Cut
    <3>2. \A k \in 1..Len(s) : t[(m + 4) + k - 1] = s[k]
      BY <1>4, <1>5, <2>1, <2>2
    <3> QED
      BY <1>5, <3>1, <3>2, SameText
  <2>8. PortValid(t)
    BY <1>7, <2>1, <2>5, <2>7
  <2>9. t # << >> /\ m + 3 \in DOMAIN t /\ PortStart(t) - 1 = m + 3
    BY <1>4, <1>5, <2>1, <2>2, <2>5, InText
  <2> QED
    BY <2>2, <2>6, <2>8, <2>9 DEF HasHostPort, Separated
<1> QED
  BY <1>6, <1>8, <1>9

-----------------------------------------------------------------------------
(* Nodes *)

LEMMA PortMax == MaxPort \in Nat \ {0}
BY DEF MaxPort

LEMMA EmptyIsNode == EmptyNode \in Node /\ \A f \in Fields : EmptyNode.str[f] = None
BY PortMax DEF EmptyNode, Node, MaybeText

LEMMA Filled ==
    ASSUME NEW n \in Node, NEW f \in Fields, NEW t \in MaybeText
    PROVE  /\ Fill(n, f, t) \in Node /\ Fill(n, f, t).str[f] = t
           /\ \A g \in Fields \ {f} : Fill(n, f, t).str[g] = n.str[g]
           /\ Fill(n, f, t).type = n.type /\ Fill(n, f, t).port = n.port
           /\ Fill(n, f, t).transport = n.transport /\ Fill(n, f, t).tls = n.tls
  BY DEF Fill, Node

\* What Authority does with an ss link's credentials.
LEMMA CredsFilled ==
    ASSUME NEW n \in Node, NEW c \in [method: Text, password: Text]
    PROVE  LET m == Fill(Fill(n, "cipher", c.method), "password", c.password) IN
           /\ m \in Node /\ m.str["server"] = n.str["server"] /\ m.port = n.port
           /\ m.str["cipher"] = c.method /\ m.str["password"] = c.password
<1> DEFINE d == Fill(n, "cipher", c.method)
           m == Fill(d, "password", c.password)
<1>1. c.method \in MaybeText /\ c.password \in MaybeText
  BY DEF MaybeText
<1>2. /\ "cipher" \in Fields /\ "password" \in Fields
      /\ {"server"} \subseteq Fields \ {"cipher"} /\ {"server", "cipher"} \subseteq Fields \ {"password"}
  BY DEF Fields
<1>3. d \in Node /\ d.str["server"] = n.str["server"] /\ d.port = n.port /\ d.str["cipher"] = c.method
  <2>1. /\ d \in Node /\ d.str["cipher"] = c.method /\ d.port = n.port
        /\ \A g \in Fields \ {"cipher"} : d.str[g] = n.str[g]
    BY <1>1, <1>2, Filled
  <2> QED
    BY <1>2, <2>1
<1> HIDE DEF d
<1>4. /\ m \in Node /\ m.str["password"] = c.password /\ m.port = d.port
      /\ \A g \in Fields \ {"password"} : m.str[g] = d.str[g]
  BY <1>1, <1>2, <1>3, Filled
<1>5. m.str["server"] = d.str["server"] /\ m.str["cipher"] = d.str["cipher"]
  BY <1>2, <1>4
<1> HIDE DEF m
<1>6. /\ m \in Node /\ m.str["server"] = n.str["server"] /\ m.port = n.port
      /\ m.str["cipher"] = c.method /\ m.str["password"] = c.password
  BY <1>3, <1>4, <1>5
<1> QED
  BY <1>6 DEF m, d

LEMMA KindApplied ==
    ASSUME NEW n \in Node, NEW p \in Pair
    PROVE  /\ ApplyKind(n, p) \in Node
           /\ ApplyKind(n, p).str = n.str /\ ApplyKind(n, p).port = n.port
           /\ ApplyKind(n, p).transport = IF p.key = <<"type">> THEN TransportOf(p.value) ELSE n.transport
           /\ ApplyKind(n, p).tls = IF p.key = <<"security">> THEN TlsOf(p.value) ELSE n.tls
<1>1. TransportOf(p.value) \in {"none", "ws", "xhttp", "grpc", "http"}
  BY DEF TransportOf
<1>2. TlsOf(p.value) \in {"none", "tls", "reality"}
  BY DEF TlsOf
<1>3. <<"type">> # <<"security">>
  OBVIOUS
<1> QED
  BY <1>1, <1>2, <1>3 DEF ApplyKind, KeyIs, Node

\* The fields that the pairs of a query set.
QueryFields == {"sni", "alpn", "fp", "reality_pbk", "reality_sid", "ws_path", "ws_host",
                "xhttp_host", "xhttp_path", "xhttp_mode", "grpc_service"}

LEMMA PlaceType ==
    ASSUME NEW n, NEW k \in {"path", "host"}
    PROVE  /\ Place(n, k) \in {Ws[k], Xhttp[k]} /\ Ws[k] \in QueryFields /\ Xhttp[k] \in QueryFields
           /\ Ws[k] # Xhttp[k] /\ Place(n, k) \in QueryFields
  BY DEF Place, Ws, Xhttp, QueryFields

LEMMA DirectType ==
    /\ DOMAIN Direct = {"mode", "sni", "fp", "pbk", "sid", "alpn", "serviceName"}
    /\ \A k \in DOMAIN Direct : Direct[k] \in QueryFields
    /\ \A k, l \in DOMAIN Direct : Direct[k] = Direct[l] => k = l
    /\ \A k \in DOMAIN Direct, m \in {"path", "host"} : Direct[k] \notin {Ws[m], Xhttp[m]}
BY DEF Direct, QueryFields, Ws, Xhttp

LEMMA FieldApplied ==
    ASSUME NEW n \in Node, NEW p \in Pair
    PROVE  /\ ApplyField(n, p) \in Node
           /\ \A f \in Fields \ QueryFields : ApplyField(n, p).str[f] = n.str[f]
           /\ ApplyField(n, p).port = n.port /\ ApplyField(n, p).type = n.type
           /\ ApplyField(n, p).transport = n.transport /\ ApplyField(n, p).tls = n.tls
<1>1. p.value \in MaybeText
  BY DEF Pair, MaybeText
<1>2. QueryFields \subseteq Fields
  BY DEF QueryFields, Fields
<1>3. CASE p.key \in {<<"path">>, <<"host">>}
  <2>1. p.key[1] \in {"path", "host"}
    BY <1>3
  <2>2. Place(n, p.key[1]) \in QueryFields
    BY <2>1, PlaceType
  <2>3. ApplyField(n, p) = Fill(n, Place(n, p.key[1]), p.value)
    BY <1>3 DEF ApplyField, KeyIs
  <2> QED
    BY <1>1, <1>2, <2>2, <2>3, Filled
<1>4. CASE \E k \in DOMAIN Direct : p.key = <<k>>
  <2>1. PICK k \in DOMAIN Direct : p.key = <<k>>
    BY <1>4
  <2>2. p.key[1] = k /\ Direct[k] \in QueryFields /\ k \notin {"path", "host"}
    BY <2>1, DirectType
  <2>3. ApplyField(n, p) = Fill(n, Direct[k], p.value)
    BY <2>1, <2>2 DEF ApplyField, KeyIs
  <2> QED
    BY <1>1, <1>2, <2>2, <2>3, Filled
<1>5. CASE p.key \notin {<<"path">>, <<"host">>} /\ ~\E k \in DOMAIN Direct : p.key = <<k>>
  BY <1>5 DEF ApplyField, KeyIs
<1> QED
  BY <1>3, <1>4, <1>5

LEMMA SsApplied ==
    ASSUME NEW n \in Node, NEW p \in Pair
    PROVE  /\ ApplySs(n, p) \in Node
           /\ \A f \in {"name", "server", "uuid", "cipher", "password"} : ApplySs(n, p).str[f] = n.str[f]
           /\ ApplySs(n, p).port = n.port
<1>1. p.value \in MaybeText
  BY DEF Pair, MaybeText
<1>2. {"plugin", "plugin_opts", "name", "server", "uuid", "cipher", "password"} \subseteq Fields
  BY DEF Fields
<1>3. CASE ApplySs(n, p) = n
  BY <1>3
<1>4. ASSUME NEW f \in {"plugin", "plugin_opts"}, ApplySs(n, p) = Fill(n, f, p.value)
      PROVE  /\ ApplySs(n, p) \in Node
             /\ \A g \in {"name", "server", "uuid", "cipher", "password"} : ApplySs(n, p).str[g] = n.str[g]
             /\ ApplySs(n, p).port = n.port
  <2>1. f \in Fields /\ {"name", "server", "uuid", "cipher", "password"} \subseteq Fields \ {f}
    BY <1>2
  <2> QED
    BY <1>1, <1>4, <2>1, Filled
<1> QED
  BY <1>3, <1>4 DEF ApplySs

LEMMA FallbackType ==
    ASSUME NEW n \in Node, n.str["server"] # None, n.port \in DOMAIN Decimal
    PROVE  Fallback(n) \in Text
<1>1. n.str["server"] \in Text
  BY DEF Node, Fields, MaybeText
<1>2. Decimal[n.port] \in Text /\ ":" \in Toks
  BY ShareLinkAssumption
<1>3. <<":">> \in Text
  BY <1>2 DEF Text
<1> QED
  BY <1>1, <1>2, <1>3, ConcatProperties DEF Fallback, Text

LEMMA JsonNodeType ==
    ASSUME NEW doc \in Doc, JsonUsable(doc)
    PROVE  /\ JsonNode(doc) \in Node /\ JsonNode(doc).port = doc.port
           /\ JsonNode(doc).str["server"] = doc.add
<1> DEFINE n == [EmptyNode EXCEPT !.type = "vmess", !.port = doc.port,
                                  !.transport = TransportOf(doc.opts["type"]),
                                  !.tls = TlsOf(doc.opts["security"])]
           own == [server |-> doc.add, uuid |-> doc.id,
                   cipher |-> IF doc.scy = None THEN <<"auto">> ELSE doc.scy]
           from(f) == {k \in Shared \ {"type", "security"} : Member(n, k) = f}
           str == [f \in Fields |->
                     IF f \in DOMAIN own THEN own[f]
                     ELSE IF from(f) # {} THEN doc.opts[CHOOSE k \in from(f) : TRUE] ELSE None]
<1>1. JsonNode(doc) = [n EXCEPT !.str = str]
  BY DEF JsonNode
<1>2. n \in Node /\ n.port = doc.port
  <2>1. TransportOf(doc.opts["type"]) \in {"none", "ws", "xhttp", "grpc", "http"}
    BY DEF TransportOf
  <2>2. TlsOf(doc.opts["security"]) \in {"none", "tls", "reality"}
    BY DEF TlsOf
  <2>3. doc.port \in 0..MaxPort
    BY PortMax DEF JsonUsable
  <2> QED
    BY <2>1, <2>2, <2>3, EmptyIsNode DEF Node, Schemes
<1>3. \A f \in DOMAIN own : own[f] \in MaybeText
  <2>1. "auto" \in Toks
    BY ShareLinkAssumption
  <2>2. <<"auto">> \in MaybeText
    BY <2>1 DEF MaybeText, Text
  <2> QED
    BY <2>2 DEF Doc
<1> HIDE DEF n
<1>4. \A f \in Fields : from(f) # {} => doc.opts[CHOOSE k \in from(f) : TRUE] \in MaybeText
  <2> TAKE f \in Fields
  <2> HAVE from(f) # {}
  <2>1. (CHOOSE k \in from(f) : TRUE) \in Shared
    OBVIOUS
  <2> QED
    BY <2>1 DEF Doc
<1>5. \A f \in Fields : str[f] \in MaybeText
  <2> TAKE f \in Fields
  <2> QED
    BY <1>3, <1>4 DEF MaybeText
<1>6. str \in [Fields -> MaybeText]
  BY <1>5
<1>7. str["server"] = doc.add
  BY DEF Fields
<1> HIDE DEF str
<1> QED
  BY <1>1, <1>2, <1>6, <1>7 DEF Node

-----------------------------------------------------------------------------
(* Who holds what: one lemma per outcome and per action *)

\* What depends on the link alone stays.
LEMMA Rigid ==
    ASSUME link' = link
    PROVE  /\ text' = text /\ q' = q /\ User' = User /\ Secret' = Secret
           /\ InFront' = InFront /\ HasQuery' = HasQuery /\ Middle' = Middle /\ Trailer' = Trailer
           /\ LinkLike' = LinkLike /\ Document' = Document /\ Complete' = Complete
<1>1. text' = text
  BY DEF text, trim_crlf, Max
<1>2. /\ q' = q /\ User' = User /\ Secret' = Secret
      /\ InFront' = InFront /\ HasQuery' = HasQuery /\ Middle' = Middle /\ Trailer' = Trailer
      /\ Document' = Document
  BY <1>1 DEF q, User, Secret, InFront, HasQuery, Middle, Trailer, Document
<1>3. LinkLike' = LinkLike
  BY <1>1 DEF LinkLike
<1>4. Complete' = Complete
  BY <1>1, <1>2, <1>3 DEF Complete
<1> QED
  BY <1>1, <1>2, <1>3, <1>4

LEMMA QueryText == ASSUME link \in Links PROVE q \in Text
<1>1. text \in Text /\ Query(text) \in Nat \ {0} /\ Frag(text) \in Nat \ {0} /\ Len(text) \in Nat
      /\ Frag(text) <= Len(text) + 1
  BY LinkText, Landmarks, InText
<1> QED
  BY <1>1, Cut DEF q

\* The next c from position i on; a c in front of the whole query is not seen.
LEMMA NextIs ==
    ASSUME q \in Text, i \in Nat \ {0}, i <= Len(q), NEW c
    PROVE  /\ Next1(c) = 0 \/ (Next1(c) \in 2..Len(q) /\ Next1(c) >= i /\ q[Next1(c)] = c)
           /\ \A k \in i..Len(q) : k < Next1(c) => q[k] # c
           /\ Next1(c) = 0 => (i = 1 /\ q[1] = c) \/ \A k \in i..Len(q) : q[k] # c
<1> DEFINE s == SubSeq(q, i, Len(q))
           f == First(s, c)
           at == i - 1 + f
<1>1. Len(q) \in Nat
  BY InText
<1>2. /\ s \in Text /\ Len(s) = Len(q) - i + 1
      /\ \A k \in 1..(Len(q) - i + 1) : s[k] = q[i + k - 1]
  BY <1>1, Cut
<1>3. /\ f \in 1..(Len(s) + 1) /\ (f <= Len(s) => s[f] = c)
      /\ \A k \in 1..Len(s) : s[k] = c => f <= k
  BY <1>2, FirstIs
<1>4. \A k \in i..Len(q) : s[k - i + 1] = q[k] /\ k - i + 1 \in 1..Len(s)
  <2> TAKE k \in i..Len(q)
  <2>1. k - i + 1 \in 1..(Len(q) - i + 1) /\ i + (k - i + 1) - 1 = k
    BY <1>1
  <2> QED
    BY <1>2, <2>1
<1> HIDE DEF s
<1>5. at \in i..(Len(q) + 1)
  BY <1>1, <1>2, <1>3
<1>6. at <= Len(q) => q[at] = c
  BY <1>1, <1>2, <1>3
<1>7. \A k \in i..Len(q) : q[k] = c => at <= k
  <2> TAKE k \in i..Len(q)
  <2> HAVE q[k] = c
  <2>1. f <= k - i + 1
    BY <1>3, <1>4
  <2> QED
    BY <1>1, <1>2, <1>3, <2>1
<1>8. Next1(c) = IF at \in 2..Len(q) THEN at ELSE 0
  BY DEF Next1, s
<1> HIDE DEF at
<1>9. CASE at \in 2..Len(q)
  <2>1. \A k \in i..Len(q) : k < at => q[k] # c
    BY <1>7, <1>9
  <2> QED
    BY <1>5, <1>6, <1>8, <1>9, <2>1
<1>10. CASE at \notin 2..Len(q)
  <2>1. Next1(c) = 0
    BY <1>8, <1>10
  <2>2. at > Len(q) \/ (at = 1 /\ i = 1 /\ at <= Len(q))
    BY <1>1, <1>5, <1>10
  <2>3. at > Len(q) => \A k \in i..Len(q) : q[k] # c
    BY <1>1, <1>5, <1>7
  <2>4. \A k \in i..Len(q) : ~(k < Next1(c))
    <3> TAKE k \in i..Len(q)
    <3>1. k \in Int /\ k > 0
      BY <1>1
    <3> QED
      BY <2>1, <3>1
  <2>5. at = 1 /\ i = 1 /\ at <= Len(q) => i = 1 /\ q[1] = c
    BY <1>6
  <2> QED
    BY <2>1, <2>2, <2>3, <2>4, <2>5
<1> QED
  BY <1>9, <1>10

\* The segment in hand: its end, and its "=" when it is a pair.
LEMMA SegmentIs ==
    ASSUME q \in Text, i \in Nat \ {0}, i <= Len(q)
    PROVE  /\ Amp = 0 \/ (Amp \in 2..Len(q) /\ Amp >= i /\ q[Amp] = "&")
           /\ SegEnd \in i..(Len(q) + 1) /\ SegEnd = IF Amp # 0 THEN Amp ELSE Len(q) + 1
           /\ IsPair => /\ Eq \in 2..Len(q) /\ Eq >= i /\ Eq < SegEnd /\ q[Eq] = "="
                        /\ Key \in Text /\ Len(Key) = Eq - i
                        /\ Value \in Text /\ Len(Value) = SegEnd - Eq - 1
                        /\ \A k \in 1..(Eq - i) : Key[k] = q[i + k - 1]
                        /\ \A k \in 1..(SegEnd - Eq - 1) : Value[k] = q[Eq + k]
<1>1. Len(q) \in Nat
  BY InText
<1>2. Amp = 0 \/ (Amp \in 2..Len(q) /\ Amp >= i /\ q[Amp] = "&")
  BY NextIs DEF Amp
<1>3. Eq = 0 \/ (Eq \in 2..Len(q) /\ Eq >= i /\ q[Eq] = "=")
  BY NextIs DEF Eq
<1>4. SegEnd = IF Amp # 0 THEN Amp ELSE Len(q) + 1
  BY DEF SegEnd
<1>5. SegEnd \in i..(Len(q) + 1)
  BY <1>1, <1>2, <1>4
<1>6. ASSUME IsPair
      PROVE  /\ Eq \in 2..Len(q) /\ Eq >= i /\ Eq < SegEnd /\ q[Eq] = "="
             /\ Key \in Text /\ Len(Key) = Eq - i
             /\ Value \in Text /\ Len(Value) = SegEnd - Eq - 1
             /\ \A k \in 1..(Eq - i) : Key[k] = q[i + k - 1]
             /\ \A k \in 1..(SegEnd - Eq - 1) : Value[k] = q[Eq + k]
  <2>1. Eq \in 2..Len(q) /\ Eq >= i /\ Eq < SegEnd /\ q[Eq] = "="
    BY <1>3, <1>6 DEF IsPair
  <2>2. Eq - 1 \in Int /\ Eq - 1 <= Len(q) /\ Eq + 1 \in Nat \ {0} /\ SegEnd - 1 <= Len(q) /\ SegEnd - 1 \in Int
    BY <1>1, <1>5, <2>1
  <2>3. /\ Key \in Text /\ Len(Key) = IF i <= Eq - 1 THEN Eq - 1 - i + 1 ELSE 0
        /\ \A k \in 1..(Eq - 1 - i + 1) : Key[k] = q[i + k - 1]
    BY <2>2, Cut DEF Key
  <2>4. /\ Value \in Text
        /\ Len(Value) = IF Eq + 1 <= SegEnd - 1 THEN SegEnd - 1 - (Eq + 1) + 1 ELSE 0
        /\ \A k \in 1..(SegEnd - 1 - (Eq + 1) + 1) : Value[k] = q[Eq + 1 + k - 1]
    BY <2>2, Cut DEF Value
  <2>5. Len(Key) = Eq - i /\ \A k \in 1..(Eq - i) : Key[k] = q[i + k - 1]
    BY <1>1, <2>1, <2>3
  <2>6. Len(Value) = SegEnd - Eq - 1
    BY <1>1, <1>5, <2>1, <2>4
  <2>7. ASSUME NEW k \in 1..(SegEnd - Eq - 1)
        PROVE  Value[k] = q[Eq + k]
    <3>1. SegEnd - 1 - (Eq + 1) + 1 = SegEnd - Eq - 1 /\ Eq + 1 + k - 1 = Eq + k
      BY <1>5, <2>1
    <3> QED
      BY <2>4, <3>1
  <2> QED
    BY <2>1, <2>3, <2>4, <2>5, <2>6, <2>7
<1> QED
  BY <1>2, <1>4, <1>5, <1>6

\* The decoded pair.
LEMMA PairTaken ==
    ASSUME q \in Text, i \in Nat \ {0}, i <= Len(q), IsPair
    PROVE  [key |-> xstrdup(url_decode(Key)), value |-> xstrdup(url_decode(Value))] \in Pair
<1>1. Key \in Text /\ Value \in Text
  BY SegmentIs
<1> QED
  BY <1>1, Decoding DEF Pair

LEMMA FailCore ==
    ASSUME CoreInv, Fail, held' = {}, pairs' = << >>, bufs' = {}, starved' \in BOOLEAN
    PROVE  CoreInv'
<1>1. link' = link /\ rest' = rest /\ creds' = creds /\ i' = i /\ pc' = "returned" /\ rc' = -1 /\ node' = EmptyNode
  BY DEF Fail, local
<1>2. TypeOK'
  BY <1>1, EmptyIsNode DEF CoreInv, TypeOK
<1>3. HeapInv' /\ FormInv' /\ NodeInv' /\ PosInv' /\ DefinedWhenComplete'
  BY <1>1 DEF HeapInv, FormInv, NodeInv, PosInv, DefinedWhenComplete, Ready, Accepted, Beyond
<1> QED
  BY <1>1, <1>2, <1>3 DEF CoreInv, CredsInv

\* Undefined behaviour, from a state in which the link is seen to lack a part.
LEMMA UndefinedCore ==
    ASSUME CoreInv, ~Complete, pc \in {"user", "query", "name", "json"},
           pc' = "null" \/ (pc' = "overrun" /\ pc = "user"),
           UNCHANGED <<link, local, node, rc>>, UNCHANGED <<query, held, starved>>
    PROVE  CoreInv'
<1>1. link' = link /\ rest' = rest /\ creds' = creds /\ i' = i /\ node' = node /\ rc' = rc
      /\ pairs' = pairs /\ bufs' = bufs /\ held' = held /\ starved' = starved
  BY DEF local, query
<1>2. TypeOK'
  BY <1>1 DEF CoreInv, TypeOK
<1>3. HeapInv'
  BY <1>1 DEF CoreInv, HeapInv
<1>4. FormInv' /\ NodeInv' /\ PosInv'
  BY <1>1 DEF CoreInv, FormInv, NodeInv, PosInv, Ready, Accepted, Beyond
<1>5. DefinedWhenComplete'
  BY <1>1, Rigid DEF DefinedWhenComplete
<1>6. CredsInv'
  BY DEF CredsInv
<1> QED
  BY <1>2, <1>3, <1>4, <1>5, <1>6 DEF CoreInv

LEMMA EntryCore == ASSUME CoreInv, Entry \/ EntryUnknown PROVE CoreInv'
<1>1. CASE EntryUnknown
  <2>1. held = {} /\ pairs = << >> /\ bufs = {} /\ starved \in BOOLEAN
    BY <1>1 DEF EntryUnknown, CoreInv, TypeOK, HeapInv
  <2>2. Fail /\ held' = {} /\ pairs' = << >> /\ bufs' = {} /\ starved' = starved
    BY <1>1, <2>1 DEF EntryUnknown, query
  <2> QED
    BY <2>1, <2>2, FailCore
<1>2. CASE Entry
  <2>1. /\ pc = "entry" /\ link' = link /\ rest' = rest /\ creds' = creds /\ i' = i /\ node' = node /\ rc' = rc
        /\ pairs' = pairs /\ bufs' = bufs /\ held' = held /\ starved' = starved
    BY <1>2 DEF Entry, Goto, local, query
  <2>2. link \in Links /\ creds \in MaybeText \cup [method: Text, password: Text]
    BY DEF CoreInv, TypeOK, MaybeText
  <2>3. /\ pc' \in {"user", "json", "creds", "blob"}
        /\ pc' = "user" => \/ link.scheme \in {"vless", "trojan"}
                           \/ link.scheme = "vmess" /\ First(text, "@") < Frag(text)
        /\ pc' = "json" => link.scheme = "vmess" /\ ~(First(text, "@") < Frag(text))
        /\ pc' \in {"creds", "blob"} => link.scheme = "ss"
    BY <1>2 DEF Entry, Goto
  <2>4. /\ pc' = "user" => LinkLike
        /\ pc' = "json" => ~LinkLike /\ link.scheme = "vmess"
    BY <2>2, <2>3, LinkForm
  <2>5. TypeOK'
    BY <2>1, <2>3 DEF CoreInv, TypeOK
  <2>6. HeapInv'
    BY <2>1, <2>3 DEF CoreInv, HeapInv
  <2>7. FormInv'
    BY <2>1, <2>3, <2>4, Rigid DEF CoreInv, FormInv, Accepted, Beyond
  <2>8. NodeInv' /\ PosInv' /\ DefinedWhenComplete'
    BY <2>1, <2>3 DEF CoreInv, NodeInv, FormInv, PosInv, DefinedWhenComplete, Ready, Accepted, Beyond
  <2>9. CredsInv'
    BY <2>1 DEF CoreInv, CredsInv
  <2> QED
    BY <2>5, <2>6, <2>7, <2>8, <2>9 DEF CoreInv
<1> QED
  BY <1>1, <1>2

\* User and authority go to a node of the link's type.
LEMMA UserTypes ==
    ASSUME TypeOK, LinkLike
    PROVE  /\ Typed.str = node.str /\ Typed.port = node.port /\ Typed \in Node
           /\ Secret \in {"uuid", "password"} /\ Secret \in Fields
           /\ User \in Text /\ Len(User) = At(text) - 1
           /\ xstrdup(url_decode(User)) \in Text
           /\ Typed.transport = node.transport /\ Typed.tls = DefaultTls
<1>1. link.scheme \in Schemes /\ text \in Text
  BY LinkText DEF TypeOK
<1>2. node \in Node
  BY DEF TypeOK
<1>3. At(text) - 1 \in Int /\ At(text) - 1 <= Len(text) /\ Len(text) \in Nat /\ At(text) - 1 >= 0
  BY <1>1, Landmarks, InText
<1>4. User \in Text /\ Len(User) = At(text) - 1
  BY <1>1, <1>3, Cut DEF User
<1>5. xstrdup(url_decode(User)) \in Text
  BY <1>4, Decoding
<1>6. Secret \in {"uuid", "password"} /\ Secret \in Fields
  BY DEF Secret, Fields
<1> QED
  BY <1>1, <1>2, <1>4, <1>5, <1>6 DEF Typed, Node, DefaultTls

LEMMA UserCore == ASSUME CoreInv, UserInfo \/ UserMissing PROVE CoreInv'
<1>1. /\ pc = "user" /\ LinkLike /\ link \in Links /\ text \in Text /\ TypeOK
      /\ held = {} /\ pairs = << >> /\ bufs = {} /\ starved \in BOOLEAN /\ rc = 1
      /\ creds' = creds /\ i' = i /\ pairs' = pairs /\ bufs' = bufs /\ held' = held /\ starved' = starved
  <2>1. pc = "user"
    BY DEF UserInfo, UserMissing
  <2>2. link \in Links /\ LinkLike /\ held = {} /\ pairs = << >> /\ bufs = {} /\ starved \in BOOLEAN /\ rc = 1
    BY <2>1 DEF CoreInv, TypeOK, HeapInv, FormInv
  <2>3. pairs' = pairs /\ bufs' = bufs /\ held' = held /\ starved' = starved
    BY DEF UserInfo, UserMissing, query
  <2>4. creds' = creds /\ i' = i
    BY DEF UserInfo, UserMissing, Fail, NullCopy, local
  <2> QED
    BY <2>1, <2>2, <2>3, <2>4, LinkText DEF CoreInv
<1>2. CASE Fail
  BY <1>1, <1>2, FailCore
<1>3. CASE UserInfo /\ User = << >> /\ NullCopy
  <2>1. At(text) = 1
    BY <1>1, <1>3, UserTypes, Landmarks, InText
  <2>2. ~Complete
    BY <1>1, <2>1 DEF Complete
  <2> QED
    BY <1>1, <1>3, <2>2, UndefinedCore DEF NullCopy, query
<1>4. CASE UserInfo /\ At(text) > Limit(text) /\ pc' = "overrun" /\ UNCHANGED <<link, local, node, rc>>
  <2>1. At(text) \in Frag(text)..Len(text)
    <3>1. At(text) <= Len(text)
      BY <1>4 DEF UserInfo
    <3>2. /\ At(text) \in Nat /\ Query(text) \in Nat /\ Frag(text) \in Nat /\ Len(text) \in Nat
          /\ At(text) < Query(text)
          /\ Limit(text) = IF Query(text) < Frag(text) THEN Query(text) ELSE Frag(text)
      BY <1>1, <3>1, Landmarks, InText
    <3> QED
      BY <1>4, <3>1, <3>2
  <2>2. ~Complete
    BY <1>1, <2>1 DEF Complete
  <2> QED
    BY <1>1, <1>4, <2>2, UndefinedCore DEF query
<1>5. CASE /\ At(text) < Limit(text) /\ Decodes(User)
           /\ Goto("authority", Fill(Typed, Secret, xstrdup(url_decode(User))))
           /\ rest' = SubSeq(text, At(text) + 1, Limit(text) - 1)
  <2>1. /\ pc' = "authority" /\ link' = link /\ rc' = rc
        /\ node' = Fill(Typed, Secret, xstrdup(url_decode(User)))
    BY <1>5 DEF Goto
  <2>2. node' \in Node
    BY <1>1, <2>1, UserTypes, Filled DEF MaybeText
  <2>3. rest' \in Text
    <3>1. At(text) + 1 \in Nat \ {0} /\ Limit(text) - 1 \in Int /\ Limit(text) - 1 <= Len(text)
      BY <1>1, Landmarks, InText
    <3> QED
      BY <1>1, <1>5, <3>1, Cut
  <2>4. TypeOK'
    BY <1>1, <2>1, <2>2, <2>3 DEF TypeOK
  <2>5. creds = None
    BY <1>1 DEF CoreInv, CredsInv
  <2>6. HeapInv' /\ PosInv' /\ DefinedWhenComplete' /\ NodeInv'
    BY <1>1, <2>1 DEF HeapInv, NodeInv, PosInv, DefinedWhenComplete, Ready, Accepted, Beyond
  <2>7. FormInv'
    BY <1>1, <2>1, <2>5, Rigid DEF FormInv, Accepted, Beyond
  <2>8. CredsInv'
    BY <2>1 DEF CredsInv
  <2> QED
    BY <2>4, <2>6, <2>7, <2>8 DEF CoreInv
<1> QED
  BY <1>2, <1>3, <1>4, <1>5 DEF UserInfo, UserMissing

\* parse_method_pass splits its text, plain or decoded, at the first colon.
LEMMA MethodPassIs ==
    ASSUME NEW t \in Text, MethodPass(t) # None
    PROVE  /\ MethodPass(t) \in [method: Text, password: Text]
           /\ \E owner \in {t, Decoded(StdBlobs, t)} \ {None} :
                /\ First(owner, ":") \in DOMAIN owner
                /\ MethodPass(t).method   = xstrdup(SubSeq(owner, 1, First(owner, ":") - 1))
                /\ MethodPass(t).password = xstrdup(SubSeq(owner, First(owner, ":") + 1, Len(owner)))
<1> DEFINE dec == Decoded(StdBlobs, t)
           own == IF dec # None /\ Contains(dec, ":") THEN dec ELSE t
           colon == First(own, ":")
           m == xstrdup(SubSeq(own, 1, colon - 1))
           w == xstrdup(SubSeq(own, colon + 1, Len(own)))
<1>1. dec \in MaybeText /\ t # None
  BY DecodedText, ShareLinkAssumption
<1> HIDE DEF dec
<1>2. own \in Text /\ own \in {t, dec} \ {None}
  BY <1>1 DEF MaybeText
<1>3. MethodPass(t) = [method |-> m, password |-> w] /\ colon \in 2..Len(own)
  BY DEF MethodPass, dec
<1> HIDE DEF own
<1>4. Len(own) \in Nat /\ DOMAIN own = 1..Len(own)
  BY <1>2, InText
<1>5. colon \in DOMAIN own /\ colon \in Nat
  BY <1>3, <1>4
<1>6. SubSeq(own, 1, colon - 1) \in Text /\ SubSeq(own, colon + 1, Len(own)) \in Text
  BY <1>2, <1>3, <1>4, Cut
<1>7. m \in Text /\ w \in Text
  BY <1>6, Decoding
<1> HIDE DEF colon
<1> QED
  BY <1>2, <1>3, <1>5, <1>7 DEF dec, colon

\* An ss link's address is to come.
LEMMA AddressedNext ==
    ASSUME CoreInv, link.scheme = "ss", pc \in {"creds", "blob"}, pc' = "authority", link' = link, rc' = rc,
           node' = [node EXCEPT !.type = "ss"], i' = i, pairs' = pairs, bufs' = bufs,
           starved' = starved, held' \subseteq {"creds", "decoded"}, rest' \in Text,
           creds' \in [method: Text, password: Text], creds' # None
    PROVE  CoreInv'
<1>1. node' \in Node
  BY DEF CoreInv, TypeOK, Node, Schemes
<1>2. TypeOK'
  BY <1>1 DEF CoreInv, TypeOK
<1>3. HeapInv'
  BY DEF CoreInv, HeapInv
<1>4. FormInv'
  BY Rigid DEF CoreInv, FormInv, Accepted, Beyond
<1>5. rc = 1
  BY DEF CoreInv, FormInv
<1>6. NodeInv' /\ PosInv' /\ DefinedWhenComplete' /\ CredsInv'
  BY <1>5 DEF NodeInv, PosInv, DefinedWhenComplete, CredsInv, Ready, Accepted, Beyond
<1> QED
  BY <1>2, <1>3, <1>4, <1>6 DEF CoreInv

\* The encoded part of an ss link.
BlobText == Decoded(UrlBlobs, SubSeq(text, 1, Limit(text) - 1))

LEMMA CredsCore == ASSUME CoreInv, Creds \/ Blob PROVE CoreInv'
<1>1. /\ pc \in {"creds", "blob"} /\ link \in Links /\ text \in Text /\ link.scheme = "ss"
      /\ held = {} /\ pairs = << >> /\ bufs = {} /\ starved \in BOOLEAN
      /\ pairs' = pairs /\ bufs' = bufs /\ starved' = starved
  <2>1. pc \in {"creds", "blob"}
    BY DEF Creds, Blob
  <2>2. link \in Links /\ link.scheme = "ss" /\ held = {} /\ pairs = << >> /\ bufs = {} /\ starved \in BOOLEAN
    BY <2>1 DEF CoreInv, TypeOK, HeapInv, FormInv
  <2>3. pairs' = pairs /\ bufs' = bufs /\ starved' = starved
    BY DEF Creds, Blob, query
  <2> QED
    BY <2>1, <2>2, <2>3, LinkText
<1>2. CASE Fail /\ held' = held
  BY <1>1, <1>2, FailCore
<1>3. /\ Limit(text) - 1 \in Int /\ Limit(text) - 1 <= Len(text) /\ Len(text) \in Nat
      /\ First(text, "@") \in 1..(Len(text) + 1) /\ 1 \in Nat \ {0}
  BY <1>1, Landmarks, FirstIs, InText
<1>4. CASE Creds /\ ~(Fail /\ held' = held)
  <2> DEFINE u == SubSeq(text, 1, First(text, "@") - 1)
  <2>1. /\ MethodPass(u) # None /\ creds' = MethodPass(u) /\ held' = {"creds"}
        /\ rest' = SubSeq(text, First(text, "@") + 1, Limit(text) - 1)
        /\ pc' = "authority" /\ link' = link /\ rc' = rc /\ node' = [node EXCEPT !.type = "ss"] /\ i' = i
    BY <1>4 DEF Creds, Goto
  <2>2. u \in Text /\ rest' \in Text
    <3> DEFINE f == First(text, "@")
               e == Limit(text) - 1
    <3>1. f + 1 \in Nat \ {0} /\ f - 1 \in Int /\ f - 1 <= Len(text)
      BY <1>3
    <3>2. SubSeq(text, 1, f - 1) \in Text
      BY <1>1, <3>1, Cut
    <3>3. e \in Int /\ e <= Len(text)
      BY <1>3
    <3>4. rest' = SubSeq(text, f + 1, e)
      BY <2>1
    <3> HIDE DEF f, e
    <3> QED
      BY <1>1, <3>1, <3>2, <3>3, <3>4, Cut DEF f
  <2> HIDE DEF u
  <2>3. creds' \in [method: Text, password: Text]
    BY <2>1, <2>2, MethodPassIs
  <2> QED
    BY <1>1, <2>1, <2>2, <2>3, AddressedNext
<1>5. CASE Blob /\ ~(Fail /\ held' = held)
  <2> DEFINE dec == BlobText
             at == IF dec = None THEN 0 ELSE LastAt(dec, "@")
             u == SubSeq(dec, 1, at - 1)
             mp == IF at <= 1 THEN None ELSE MethodPass(u)
  <2>1. /\ mp # None /\ creds' = mp /\ held' = {"creds", "decoded"}
        /\ rest' = SubSeq(dec, at + 1, Len(dec))
        /\ pc' = "authority" /\ link' = link /\ rc' = rc /\ node' = [node EXCEPT !.type = "ss"] /\ i' = i
    BY <1>5 DEF Blob, Goto, BlobText
  <2>2. dec \in MaybeText
    BY DecodedText DEF BlobText
  <2> HIDE DEF dec
  <2>3. dec \in Text /\ at = LastAt(dec, "@") /\ ~(at <= 1) /\ mp = MethodPass(u)
    BY <2>1, <2>2 DEF MaybeText
  <2>4. at \in 0..Len(dec) /\ Len(dec) \in Nat
    BY <2>3, LastIs, InText
  <2> HIDE DEF at
  <2>5. u \in Text /\ rest' \in Text
    <3>1. at + 1 \in Nat \ {0} /\ at - 1 \in Int /\ at - 1 <= Len(dec) /\ Len(dec) \in Int /\ Len(dec) <= Len(dec)
      BY <2>4
    <3>2. SubSeq(dec, 1, at - 1) \in Text
      <4>1. dec \in Text
        BY <2>3
      <4> QED
        BY <3>1, <4>1, Cut
    <3>3. SubSeq(dec, at + 1, Len(dec)) \in Text
      BY <2>3, <3>1, Cut
    <3> QED
      BY <2>1, <3>2, <3>3
  <2> HIDE DEF u
  <2>6. creds' \in [method: Text, password: Text]
    BY <2>1, <2>3, <2>5, MethodPassIs
  <2> QED
    BY <1>1, <2>1, <2>5, <2>6, AddressedNext
<1> QED
  BY <1>2, <1>4, <1>5

LEMMA AuthorityCore == ASSUME CoreInv, Authority \/ AuthorityBad PROVE CoreInv'
<1>1. /\ pc = "authority" /\ link \in Links /\ text \in Text /\ rest \in Text /\ node \in Node /\ rc = 1
      /\ pairs = << >> /\ bufs = {} /\ starved \in BOOLEAN /\ held' = {}
      /\ pairs' = pairs /\ bufs' = bufs /\ starved' = starved
  <2>1. pc = "authority"
    BY DEF Authority, AuthorityBad
  <2>2. link \in Links /\ rest \in Text /\ node \in Node /\ rc = 1 /\ pairs = << >> /\ bufs = {} /\ starved \in BOOLEAN
    BY <2>1 DEF CoreInv, TypeOK, HeapInv, FormInv
  <2>3. pairs' = pairs /\ bufs' = bufs /\ starved' = starved /\ held' = {}
    BY DEF Authority, AuthorityBad, query
  <2> QED
    BY <2>1, <2>2, <2>3, LinkText
<1>2. CASE AuthorityBad
  BY <1>1, <1>2, FailCore DEF AuthorityBad
<1>3. CASE Authority
  <2> DEFINE n == [Fill(node, "server", xstrdup(Host(rest))) EXCEPT !.port = PortNumber(rest)]
             m == Fill(Fill(n, "cipher", creds.method), "password", creds.password)
  <2>1. /\ HasHostPort(rest) /\ link' = link /\ rc' = rc /\ i' = 1 /\ rest' = rest /\ creds' = creds
        /\ pc' = IF HasQuery THEN "query" ELSE "name"
        /\ node' = IF creds = None THEN n ELSE m
    BY <1>3 DEF Authority, Goto, HasQuery
  <2>2. /\ xstrdup(Host(rest)) \in Text /\ PortNumber(rest) \in 1..MaxPort
        /\ PortNumber(rest) \in DOMAIN Decimal
    BY <1>1, <2>1, HostPort, Decoding DEF IsAuthority
  <2>3. n \in Node /\ n.str["server"] = xstrdup(Host(rest)) /\ n.port = PortNumber(rest)
    <3>1. "server" \in Fields
      BY DEF Fields
    <3>2. Fill(node, "server", xstrdup(Host(rest))) \in Node
      BY <1>1, <2>2, <3>1, Filled DEF MaybeText
    <3>3. Fill(node, "server", xstrdup(Host(rest))).str["server"] = xstrdup(Host(rest))
      BY <1>1, <2>2, <3>1, Filled DEF MaybeText
    <3>4. PortNumber(rest) \in 0..MaxPort
      BY <2>2, PortMax
    <3> QED
      BY <3>2, <3>3, <3>4 DEF Node
  <2> HIDE DEF n
  <2>4. creds # None => m \in Node /\ m.str["server"] = n.str["server"] /\ m.port = n.port
    <3>1. creds # None => creds \in [method: Text, password: Text]
      BY DEF CoreInv, TypeOK
    <3> QED
      BY <2>3, <3>1, CredsFilled
  <2> HIDE DEF m
  <2>5. /\ node' \in Node /\ node'.str["server"] = xstrdup(Host(rest)) /\ node'.port = PortNumber(rest)
    BY <2>1, <2>3, <2>4
  <2>6. pc' \in {"query", "name"} /\ (pc' = "query" => HasQuery)
    BY <2>1
  <2>7. TypeOK'
    BY <1>1, <2>1, <2>5, <2>6 DEF CoreInv, TypeOK
  <2>8. HeapInv' /\ CredsInv' /\ PosInv' /\ DefinedWhenComplete'
    BY <1>1, <2>1, <2>6 DEF HeapInv, CredsInv, PosInv, DefinedWhenComplete
  <2>9. FormInv'
    BY <1>1, <2>1, <2>6, Rigid DEF CoreInv, FormInv, Accepted, Beyond
  <2>10. NodeInv'
    <3>1. None \notin Text
      BY ShareLinkAssumption
    <3> QED
      BY <1>1, <2>1, <2>2, <2>5, <2>6, <3>1 DEF NodeInv, Ready, Accepted, Beyond
  <2> QED
    BY <2>7, <2>8, <2>9, <2>10 DEF CoreInv
<1> QED
  BY <1>2, <1>3

\* In a complete query text stands around every "=".
LEMMA CompletePairs ==
    ASSUME Complete, NEW k \in DOMAIN q, q[k] = "="
    PROVE  k \in 2..(Len(q) - 1) /\ q[k - 1] # "&" /\ q[k + 1] # "&"
<1>1. \A j \in DOMAIN q : q[j] = "=" => j \in 2..(Len(q) - 1) /\ {q[j - 1], q[j + 1]} \cap {"&"} = {}
  BY DEF Complete
<1>2. k \in 2..(Len(q) - 1) /\ {q[k - 1], q[k + 1]} \cap {"&"} = {}
  BY <1>1
<1> QED
  BY <1>2

\* A pair without text in front of or behind its "=" is what an incomplete
\* query has.
LEMMA EmptyHalf ==
    ASSUME CoreInv, pc = "query", i <= Len(q), IsPair, Backed # {"key", "value"}
    PROVE  ~Complete
<1>1. link \in Links /\ i \in Nat \ {0} /\ bufs \subseteq {"key", "value"}
  BY DEF CoreInv, TypeOK
<1>2. q \in Text /\ Len(q) \in Nat /\ DOMAIN q = 1..Len(q)
  BY <1>1, QueryText, InText
<1>3. /\ Amp = 0 \/ (Amp \in 2..Len(q) /\ Amp >= i /\ q[Amp] = "&")
      /\ SegEnd \in i..(Len(q) + 1) /\ SegEnd = IF Amp # 0 THEN Amp ELSE Len(q) + 1
      /\ Eq \in 2..Len(q) /\ Eq >= i /\ Eq < SegEnd /\ q[Eq] = "="
      /\ Key \in Text /\ Len(Key) = Eq - i
      /\ Value \in Text /\ Len(Value) = SegEnd - Eq - 1
  BY <1>1, <1>2, SegmentIs
<1>4. i = 1 \/ (i - 1 \in DOMAIN q /\ q[i - 1] = "&")
  BY DEF CoreInv, PosInv
<1>5. Key = << >> \/ Value = << >>
  BY <1>1 DEF Backed
<1>6. Key = << >> => Eq = i
  BY <1>1, <1>3, InText
<1>7. Value = << >> => SegEnd = Eq + 1
  BY <1>3, InText
<1>8. CASE Key = << >>
  <2>1. i - 1 = Eq - 1 /\ i # 1
    BY <1>1, <1>3, <1>6, <1>8
  <2>2. q[Eq - 1] = "&"
    BY <1>4, <2>1
  <2>3. Eq \in DOMAIN q
    BY <1>2, <1>3
  <2> QED
    BY <1>3, <2>2, <2>3, CompletePairs
<1>9. CASE Value = << >>
  <2>1. Eq = Len(q) \/ Amp = Eq + 1
    <3>1. SegEnd = Eq + 1
      BY <1>7, <1>9
    <3>2. Amp = 0 => Eq = Len(q)
      <4>1. Amp = 0 => SegEnd = Len(q) + 1
        BY <1>3
      <4>2. Eq \in Int /\ Len(q) \in Int
        BY <1>2, <1>3
      <4> QED
        BY <3>1, <4>1, <4>2
    <3> QED
      BY <1>3, <3>1, <3>2
  <2>2. Eq = Len(q) => ~(Eq \in 2..(Len(q) - 1))
    BY <1>2, <1>3
  <2>3. Eq \in DOMAIN q
    BY <1>2, <1>3
  <2>4. Amp = Eq + 1 => q[Eq + 1] = "&"
    BY <1>3
  <2> QED
    BY <1>3, <2>1, <2>2, <2>3, <2>4, CompletePairs
<1> QED
  BY <1>5, <1>8, <1>9

\* The parser goes on with the query, or behind it.
LEMMA QueryGoesOn ==
    ASSUME CoreInv, pc = "query", UNCHANGED <<link, rest, creds, held, node, starved, rc>>,
           \/ pc' = "query" /\ Amp # 0 /\ i <= Len(q) /\ i' = Amp + 1 /\ bufs' \subseteq {"key", "value"}
           \/ pc' = Apply /\ i' = 1 /\ bufs' = {},
           pairs' \in Seq(Pair)
    PROVE  CoreInv'
<1>1. link \in Links /\ i \in Nat \ {0} /\ rc = 1 /\ held = {}
  BY DEF CoreInv, TypeOK, FormInv, HeapInv
<1>2. q \in Text /\ q' = q
  BY <1>1, QueryText, Rigid
<1>3. pc' = "query" => i' \in Nat \ {0} /\ i' - 1 \in DOMAIN q /\ q[i' - 1] = "&"
  <2> HAVE pc' = "query"
  <2>1. i <= Len(q) /\ i' = Amp + 1 /\ Amp # 0
    BY DEF Apply
  <2>2. Amp \in 2..Len(q) /\ q[Amp] = "&"
    BY <1>1, <1>2, <2>1, SegmentIs
  <2>3. Len(q) \in Nat /\ DOMAIN q = 1..Len(q)
    BY <1>2, InText
  <2> QED
    BY <2>1, <2>2, <2>3
<1>4. pc' \in {"query", "kinds", "fields"} /\ (pc' = "kinds" => link.scheme # "ss") /\ i' \in Nat \ {0}
  BY <1>3 DEF Apply
<1>5. TypeOK'
  BY <1>4 DEF CoreInv, TypeOK, Apply
<1>6. HeapInv'
  BY <1>1, <1>4 DEF CoreInv, HeapInv, Apply
<1>7. FormInv'
  BY <1>4, Rigid DEF CoreInv, FormInv, Accepted, Beyond
<1>8. NodeInv'
  BY <1>1, <1>4 DEF CoreInv, NodeInv, Ready, Accepted, Beyond
<1>9. PosInv'
  BY <1>2, <1>3 DEF PosInv
<1>10. DefinedWhenComplete' /\ CredsInv'
  BY <1>4 DEF DefinedWhenComplete, CredsInv
<1> QED
  BY <1>5, <1>6, <1>7, <1>8, <1>9, <1>10 DEF CoreInv

LEMMA QueryCore == ASSUME CoreInv, SkipSegment \/ TakePair \/ EndOfQuery PROVE CoreInv'
<1>1. /\ pc = "query" /\ link \in Links /\ i \in Nat \ {0} /\ pairs \in Seq(Pair) /\ held = {} /\ held' = held
      /\ starved \in BOOLEAN /\ bufs \subseteq {"key", "value"}
  <2>1. pc = "query" /\ held' = held
    BY DEF SkipSegment, TakePair, EndOfQuery
  <2> QED
    BY <2>1 DEF CoreInv, TypeOK, HeapInv
<1>2. q \in Text
  BY <1>1, QueryText
<1>3. CASE SkipSegment
  <2>1. \/ pc' = "query" /\ Amp # 0 /\ i <= Len(q) /\ i' = Amp + 1 /\ bufs' \subseteq {"key", "value"}
        \/ pc' = Apply /\ i' = 1 /\ bufs' = {}
    BY <1>1, <1>3 DEF SkipSegment, Advance, Apply
  <2>2. UNCHANGED <<link, rest, creds, held, node, starved, rc>> /\ pairs' = pairs
    BY <1>3 DEF SkipSegment, Advance
  <2> QED
    BY <1>1, <2>1, <2>2, QueryGoesOn
<1>4. CASE EndOfQuery
  BY <1>1, <1>4, QueryGoesOn DEF EndOfQuery
<1>5. CASE TakePair /\ QueryFails /\ starved' \in BOOLEAN
  BY <1>1, <1>5, FailCore DEF QueryFails
<1>6. CASE TakePair /\ Backed # {"key", "value"} /\ NullCopy /\ UNCHANGED <<query, starved>>
  <2>1. ~Complete
    BY <1>1, <1>6, EmptyHalf DEF TakePair
  <2>2. UNCHANGED <<link, local, node, rc>> /\ UNCHANGED <<query, held, starved>> /\ pc' = "null"
    BY <1>1, <1>6 DEF NullCopy
  <2> QED
    BY <1>1, <2>1, <2>2, UndefinedCore
<1>7. CASE /\ TakePair /\ Advance /\ bufs' = (IF pc' = Apply THEN {} ELSE Backed)
           /\ pairs' = Append(pairs, [key |-> xstrdup(url_decode(Key)), value |-> xstrdup(url_decode(Value))])
  <2>1. i <= Len(q) /\ IsPair
    BY <1>7 DEF TakePair
  <2>2. pairs' \in Seq(Pair)
    BY <1>1, <1>2, <1>7, <2>1, PairTaken, AppendProperties
  <2>3. Backed \subseteq {"key", "value"}
    BY <1>1 DEF Backed
  <2>4. \/ pc' = "query" /\ Amp # 0 /\ i <= Len(q) /\ i' = Amp + 1 /\ bufs' \subseteq {"key", "value"}
        \/ pc' = Apply /\ i' = 1 /\ bufs' = {}
    BY <1>7, <2>1, <2>3 DEF Advance, Apply
  <2>5. UNCHANGED <<link, rest, creds, held, node, starved, rc>>
    BY <1>1, <1>7 DEF Advance
  <2> QED
    BY <1>1, <2>2, <2>4, <2>5, QueryGoesOn
<1>8. TakePair =>
        \/ QueryFails /\ starved' \in BOOLEAN
        \/ Backed # {"key", "value"} /\ NullCopy /\ UNCHANGED <<query, starved>>
        \/ /\ Advance /\ bufs' = (IF pc' = Apply THEN {} ELSE Backed)
           /\ pairs' = Append(pairs, [key |-> xstrdup(url_decode(Key)), value |-> xstrdup(url_decode(Value))])
  BY <1>1 DEF TakePair
<1> QED
  BY <1>3, <1>4, <1>5, <1>6, <1>7, <1>8

LEMMA ApplyCore == ASSUME CoreInv, ApplyKinds \/ ApplyFields PROVE CoreInv'
<1>1. /\ pc \in {"kinds", "fields"} /\ node \in Node /\ i \in Nat \ {0} /\ pairs \in Seq(Pair)
      /\ held = {} /\ bufs = {} /\ rc = 1 /\ (pc = "kinds" => LinkLike)
      /\ UNCHANGED <<link, rest, creds, bufs, held, starved, rc>>
  <2>1. pc \in {"kinds", "fields"} /\ UNCHANGED <<link, rest, creds, bufs, held, starved, rc>>
    BY DEF ApplyKinds, ApplyFields, Goto, query
  <2> QED
    BY <2>1 DEF CoreInv, TypeOK, HeapInv, FormInv
<1>2. /\ pc' \in {pc, "fields", "name"} /\ i' \in Nat \ {0}
      /\ pairs' = pairs \/ (pairs' = << >> /\ pc' = "name")
      /\ pc' = "name" => pairs' = << >>
      /\ node' = node \/ \E m \in 1..Len(pairs) :
                           node' \in {ApplyKind(node, pairs[m]), ApplySs(node, pairs[m]), ApplyField(node, pairs[m])}
  BY <1>1 DEF ApplyKinds, ApplyFields, Goto, query
<1>3. /\ node' \in Node /\ node'.str["server"] = node.str["server"] /\ node'.port = node.port
  <2>1. \A m \in 1..Len(pairs) : pairs[m] \in Pair
    BY <1>1, ElementOfSeq
  <2>2. "server" \in Fields \ QueryFields
    BY DEF Fields, QueryFields
  <2>3. ASSUME NEW p \in Pair, NEW n \in {ApplyKind(node, p), ApplySs(node, p), ApplyField(node, p)}
        PROVE  n \in Node /\ n.str["server"] = node.str["server"] /\ n.port = node.port
    <3>1. CASE n = ApplyKind(node, p)
      BY <1>1, <3>1, KindApplied
    <3>2. CASE n = ApplySs(node, p)
      BY <1>1, <3>2, SsApplied
    <3>3. CASE n = ApplyField(node, p)
      BY <1>1, <2>2, <3>3, FieldApplied
    <3> QED
      BY <3>1, <3>2, <3>3
  <2> QED
    BY <1>1, <1>2, <2>1, <2>3
<1>4. TypeOK'
  <2>1. pairs' \in Seq(Pair)
    BY <1>1, <1>2, EmptySeq
  <2>2. pc' \in {"kinds", "fields", "name"}
    BY <1>1, <1>2
  <2> QED
    BY <1>1, <1>2, <1>3, <2>1, <2>2 DEF CoreInv, TypeOK
<1>5. HeapInv' /\ PosInv' /\ DefinedWhenComplete' /\ CredsInv'
  BY <1>1, <1>2 DEF HeapInv, PosInv, DefinedWhenComplete, CredsInv
<1>6. FormInv'
  BY <1>1, <1>2, Rigid DEF CoreInv, FormInv, Accepted, Beyond
<1>7. NodeInv'
  BY <1>1, <1>2, <1>3 DEF CoreInv, NodeInv, Ready, Accepted, Beyond
<1> QED
  BY <1>4, <1>5, <1>6, <1>7 DEF CoreInv

\* The link is taken.
LEMMA AcceptCore ==
    ASSUME CoreInv, NEW n \in Node, Accept(n), UNCHANGED <<query, held, starved>>,
           n.str["server"] # None, n.port \in 1..MaxPort, n.port \in DOMAIN Decimal,
           n.str["name"] # None, pc = "name" \/ pc = "json"
    PROVE  CoreInv'
<1>1. /\ link' = link /\ rest' = rest /\ creds' = creds /\ i' = i /\ pc' = "returned" /\ rc' = 0 /\ node' = n
      /\ pairs' = pairs /\ bufs' = bufs /\ held' = held /\ starved' = starved
  BY DEF Accept, local, query
<1>2. TypeOK'
  BY <1>1 DEF CoreInv, TypeOK
<1>3. HeapInv' /\ CredsInv' /\ PosInv' /\ DefinedWhenComplete'
  BY <1>1 DEF CoreInv, HeapInv, CredsInv, PosInv, DefinedWhenComplete
<1>4. FormInv'
  BY <1>1, Rigid DEF CoreInv, FormInv, Accepted, Beyond
<1>5. NodeInv'
  BY <1>1 DEF NodeInv, Ready, Accepted, Beyond
<1> QED
  BY <1>2, <1>3, <1>4, <1>5 DEF CoreInv

\* The name that is set last, and the cipher of a vmess link.
LEMMA NameSet ==
    ASSUME NEW n \in Node, NEW t \in Text, NEW m, m \in {Fill(n, "name", t), Ciphered(Fill(n, "name", t))}
    PROVE  /\ m \in Node /\ m.str["name"] = t /\ m.str["name"] # None
           /\ m.port = n.port /\ m.transport = n.transport /\ m.tls = n.tls
           /\ \A f \in Fields \ {"name"} : f # "cipher" \/ link.scheme # "vmess" => m.str[f] = n.str[f]
<1>1. t \in MaybeText /\ t # None /\ <<"auto">> \in MaybeText
  BY ShareLinkAssumption DEF MaybeText, Text
<1>2. {"name", "cipher"} \subseteq Fields
  BY DEF Fields
<1> DEFINE b == Fill(n, "name", t)
<1>3. /\ b \in Node /\ b.str["name"] = t /\ b.port = n.port /\ b.transport = n.transport /\ b.tls = n.tls
      /\ \A f \in Fields \ {"name"} : b.str[f] = n.str[f]
  BY <1>1, <1>2, Filled
<1> HIDE DEF b
<1>4. m = b \/ (m = Fill(b, "cipher", <<"auto">>) /\ link.scheme = "vmess")
  BY DEF Ciphered, b
<1>5. /\ Fill(b, "cipher", <<"auto">>) \in Node
      /\ \A f \in Fields \ {"cipher"} : Fill(b, "cipher", <<"auto">>).str[f] = b.str[f]
      /\ Fill(b, "cipher", <<"auto">>).port = b.port
      /\ Fill(b, "cipher", <<"auto">>).transport = b.transport
      /\ Fill(b, "cipher", <<"auto">>).tls = b.tls
  BY <1>1, <1>2, <1>3, Filled
<1> QED
  BY <1>1, <1>2, <1>3, <1>4, <1>5

LEMMA NamedCore == ASSUME CoreInv, Named PROVE CoreInv'
<1>1. /\ pc = "name" /\ link \in Links /\ text \in Text /\ node \in Node
      /\ node.str["server"] # None /\ node.port \in 1..MaxPort
      /\ node.port \in DOMAIN Decimal
      /\ UNCHANGED <<query, held, starved>>
  <2>1. pc = "name" /\ UNCHANGED <<query, held, starved>>
    BY DEF Named
  <2> QED
    BY <2>1, LinkText DEF CoreInv, TypeOK, NodeInv, Ready, Beyond
<1>2. CASE Frag(text) = Len(text) /\ NullCopy
  <2>1. ~Complete
    BY <1>2 DEF Complete
  <2> QED
    BY <1>1, <1>2, <2>1, UndefinedCore DEF NullCopy
<1>3. ASSUME NEW t \in Text, Accept(Ciphered(Fill(node, "name", t)))
      PROVE  CoreInv'
  <2> DEFINE m == Ciphered(Fill(node, "name", t))
  <2>1. /\ m \in Node /\ m.str["name"] # None /\ m.port = node.port
        /\ \A f \in Fields \ {"name"} : f # "cipher" \/ link.scheme # "vmess" => m.str[f] = node.str[f]
    BY <1>1, NameSet
  <2>2. m.str["server"] = node.str["server"]
    BY <2>1 DEF Fields
  <2> HIDE DEF m
  <2>3. Accept(m)
    BY <1>3 DEF m
  <2> QED
    BY <1>1, <2>1, <2>2, <2>3, AcceptCore
<1>4. Fallback(node) \in Text
  BY <1>1, FallbackType
<1>5. xstrdup(url_decode(Fragment)) \in Text
  <2>1. Frag(text) + 1 \in Nat \ {0} /\ Len(text) \in Int /\ Len(text) <= Len(text)
    BY <1>1, Landmarks, InText
  <2>2. Fragment \in Text
    BY <1>1, <2>1, Cut DEF Fragment
  <2> QED
    BY <2>2, Decoding
<1> QED
  BY <1>2, <1>3, <1>4, <1>5 DEF Named

LEMMA JsonCore == ASSUME CoreInv, ParseJson PROVE CoreInv'
<1>1. /\ pc = "json" /\ link.scheme = "vmess" /\ ~LinkLike /\ held = {} /\ pairs = << >> /\ bufs = {}
      /\ starved \in BOOLEAN /\ UNCHANGED <<query, held>>
  <2>1. pc = "json" /\ UNCHANGED <<query, held>>
    BY DEF ParseJson
  <2> QED
    BY <2>1 DEF CoreInv, TypeOK, FormInv, HeapInv
<1>2. CASE Fail /\ starved' \in BOOLEAN
  BY <1>1, <1>2, FailCore DEF query
<1>3. CASE Document # None /\ Document.ps = << >> /\ NullCopy /\ UNCHANGED starved
  <2>1. ~Complete
    BY <1>1, <1>3 DEF Complete
  <2> QED
    BY <1>1, <1>3, <2>1, UndefinedCore DEF NullCopy
<1>4. CASE JsonUsable(Document)
  <2>1. Document # None /\ Document.add # None /\ Document.port \in 1..MaxPort
    BY <1>4 DEF JsonUsable
  <2>2. Document \in Doc /\ Written(Document.port)
    <3> DEFINE t == SubSeq(text, 1, Frag(text) - 1)
    <3>1. Document = Decoded(Json, t)
      BY DEF Document
    <3>2. Document = Json[t[1]] /\ t[1] \in DOMAIN Json
      BY <2>1, <3>1 DEF Decoded
    <3> QED
      BY <3>2, ShareLinkAssumption
  <2> DEFINE n == JsonNode(Document)
  <2>3. n \in Node /\ n.port = Document.port /\ n.str["server"] = Document.add
    BY <1>4, <2>2, JsonNodeType
  <2>4. n.port \in DOMAIN Decimal
    BY <2>1, <2>2, <2>3 DEF Written
  <2> HIDE DEF n
  <2>5. ASSUME NEW t \in Text, Accept(Fill(n, "name", t)), UNCHANGED starved
        PROVE  CoreInv'
    <3> DEFINE m == Fill(n, "name", t)
    <3>1. m \in Node /\ m.str["name"] = t /\ t # None /\ m.port = n.port /\ m.str["server"] = n.str["server"]
      <4>1. "name" \in Fields /\ "server" \in Fields \ {"name"}
        BY DEF Fields
      <4>2. t \in MaybeText /\ t # None
        BY ShareLinkAssumption DEF MaybeText
      <4> QED
        BY <2>3, <4>1, <4>2, Filled
    <3> HIDE DEF m
    <3>2. Accept(m) /\ UNCHANGED <<query, held, starved>>
      BY <1>1, <2>5 DEF m
    <3> QED
      BY <1>1, <2>1, <2>3, <2>4, <3>1, <3>2, AcceptCore
  <2>6. Fallback(n) \in Text
    BY <2>1, <2>3, <2>4, FallbackType
  <2>7. Document.ps \notin {None, << >>} =>
          (IF Decodes(Document.ps) THEN xstrdup(url_decode(Document.ps)) ELSE Document.ps) \in Text
    BY <2>2, Decoding DEF Doc, MaybeText
  <2>8. \/ Fail /\ starved' \in BOOLEAN
        \/ Document.ps = << >> /\ NullCopy /\ UNCHANGED starved
        \/ Accept(Fill(n, "name", Fallback(n))) /\ UNCHANGED starved
        \/ /\ Document.ps \notin {None, << >>} /\ UNCHANGED starved
           /\ Accept(Fill(n, "name", IF Decodes(Document.ps) THEN xstrdup(url_decode(Document.ps))
                                     ELSE Document.ps))
    BY <1>1, <1>4 DEF ParseJson, n
  <2> QED
    BY <1>2, <1>3, <2>1, <2>5, <2>6, <2>7, <2>8
<1> QED
  BY <1>1, <1>2, <1>4 DEF ParseJson

LEMMA CoreInit == Init => CoreInv
<1> SUFFICES ASSUME Init PROVE CoreInv
  OBVIOUS
<1>1. << >> \in Text /\ << >> \in Seq(Pair)
  BY EmptySeq DEF Text
<1>2. TypeOK
  <2>1. rc \in {-1, 0, 1} /\ i \in Nat \ {0} /\ rest \in Text /\ pairs \in Seq(Pair) /\ node \in Node
    BY <1>1, EmptyIsNode DEF Init
  <2> QED
    BY <2>1 DEF Init, TypeOK
<1> QED
  BY <1>2 DEF Init, CoreInv, CredsInv, HeapInv, FormInv, NodeInv, PosInv, DefinedWhenComplete, Ready, Accepted, Beyond

LEMMA CoreStep == CoreInv /\ [Next]_vars => CoreInv'
<1> SUFFICES ASSUME CoreInv, [Next]_vars PROVE CoreInv'
  OBVIOUS
<1>1. CASE UNCHANGED vars
  <2>1. UNCHANGED <<pc, link, rest, creds, i, pairs, bufs, held, node, starved, rc>>
    BY <1>1 DEF vars, local, query
  <2>2. TypeOK' /\ CredsInv' /\ HeapInv'
    BY <2>1 DEF CoreInv, TypeOK, CredsInv, HeapInv
  <2>3. FormInv' /\ NodeInv' /\ PosInv' /\ DefinedWhenComplete'
    BY <2>1, Rigid DEF CoreInv, FormInv, NodeInv, PosInv, DefinedWhenComplete, Ready, Accepted, Beyond
  <2> QED
    BY <2>2, <2>3 DEF CoreInv
<1> QED
  BY <1>1, EntryCore, UserCore, CredsCore, AuthorityCore, QueryCore, ApplyCore, NamedCore, JsonCore
     DEF Next, Done

\* The core of the invariant, for every link: types, who holds what, which
\* parser sees which form, and where undefined behaviour can begin.
THEOREM ShareLinkCore == Spec => []CoreInv
<1>1. Init => CoreInv
  BY CoreInit
<1>2. CoreInv /\ [Next]_vars => CoreInv'
  BY CoreStep
<1> QED
  BY <1>1, <1>2, PTL DEF Spec

\* The parser's variables keep their types for links of any length.
THEOREM ShareLinkTypeOK == Spec => []TypeOK
<1>1. CoreInv => TypeOK
  BY DEF CoreInv
<1> QED
  BY <1>1, ShareLinkCore, PTL

\* node_parse_share keeps model.h's promise: 0 with a name, a server and a port
\* that fits, or -1 with the empty node; and every buffer, pair and credential
\* it allocated is freed on every path.
THEOREM ShareLinkContract == Spec => []Contract
<1>1. CoreInv => Contract
  BY DEF CoreInv, HeapInv, NodeInv, Contract, Ready, Accepted
<1> QED
  BY <1>1, ShareLinkCore, PTL

\* Copying a text that is not there, and reading behind the link, are possible
\* only where a delimiter announces a part that is missing.
THEOREM ShareLinkDefinedWhenComplete == Spec => []DefinedWhenComplete
<1>1. CoreInv => DefinedWhenComplete
  BY DEF CoreInv
<1> QED
  BY <1>1, ShareLinkCore, PTL

-----------------------------------------------------------------------------
(* The parts of a link *)

LEMMA HasToken ==
    ASSUME NEW t \in Text, NEW c
    PROVE  /\ Contains(t, c) <=> \E k \in 1..Len(t) : t[k] = c
           /\ c \in ToSet(t) <=> \E k \in 1..Len(t) : t[k] = c
           /\ Decodes(t) <=> \A k \in 1..Len(t) : t[k] # "%"
  BY InText DEF Contains, ToSet, Decodes

\* A stretch of a text holds what the text holds there.
LEMMA CutHas ==
    ASSUME NEW t \in Text, NEW m \in Nat \ {0}, NEW n \in Int, n <= Len(t), NEW c
    PROVE  c \in ToSet(SubSeq(t, m, n)) <=> \E k \in m..n : t[k] = c
<1> DEFINE s == SubSeq(t, m, n)
<1>1. /\ s \in Text /\ Len(s) = IF m <= n THEN n - m + 1 ELSE 0
      /\ \A k \in 1..(n - m + 1) : s[k] = t[m + k - 1]
  BY Cut
<1> HIDE DEF s
<1>2. c \in ToSet(s) <=> \E k \in 1..Len(s) : s[k] = c
  BY <1>1, HasToken
<1>3. ASSUME NEW k \in 1..Len(s), s[k] = c
      PROVE  \E j \in m..n : t[j] = c
  <2>1. k \in 1..(n - m + 1) /\ m + k - 1 \in m..n
    BY <1>1
  <2> QED
    BY <1>1, <1>3, <2>1
<1>4. ASSUME NEW j \in m..n, t[j] = c
      PROVE  \E k \in 1..Len(s) : s[k] = c
  <2>1. j - m + 1 \in 1..(n - m + 1) /\ j - m + 1 \in 1..Len(s) /\ m + (j - m + 1) - 1 = j
    BY <1>1
  <2>2. s[j - m + 1] = t[j]
    BY <1>1, <2>1
  <2> QED
    BY <1>4, <2>1, <2>2
<1> QED
  BY <1>2, <1>3, <1>4 DEF s

LEMMA Joined ==
    ASSUME NEW s \in Text, NEW t \in Text
    PROVE  s \o t \in Text /\ Len(s \o t) = Len(s) + Len(t)
  BY ConcatProperties DEF Text

\* Wherever a text is cut into the parts of a link, the cuts are At, Limit and
\* Frag: the parts are unique.
LEMMA UniqueCut ==
    ASSUME NEW t \in Text, NEW p \in Parts(t)
    PROVE  /\ At(t) <= Len(t) /\ At(t) < Limit(t)
           /\ p.user = SubSeq(t, 1, At(t) - 1) /\ p.auth = SubSeq(t, At(t) + 1, Limit(t) - 1)
           /\ p.query = SubSeq(t, Limit(t), Frag(t) - 1)
           /\ p.frag = SubSeq(t, Frag(t), Len(t))
<1>1. PICK a \in {k \in 1..Len(t) : t[k] = "@"}, b \in 0..Len(t), c \in 0..Len(t) :
        p = [user  |-> SubSeq(t, 1, a - 1), auth |-> SubSeq(t, a + 1, b),
             query |-> SubSeq(t, b + 1, c), frag |-> SubSeq(t, c + 1, Len(t))]
  <2>1. \E a \in {k \in 1..Len(t) : t[k] = "@"}, b \in 0..Len(t), c \in 0..Len(t) : p = Cuts(t, a, b, c)
    BY DEF Parts
  <2> QED
    BY <2>1 DEF Cuts
<1>2. /\ t = p.user \o <<"@">> \o p.auth \o p.query \o p.frag
      /\ p.query = << >> \/ p.query[1] = "?"
      /\ p.frag = << >> \/ p.frag[1] = "#"
      /\ {"@", "?", "#"} \cap ToSet(p.user) = {}
      /\ {"?", "#"} \cap ToSet(p.auth) = {} /\ "#" \notin ToSet(p.query)
  <2>1. IsLink(t, p)
    BY DEF Parts
  <2> QED
    BY <2>1 DEF IsLink
<1>3. Len(t) \in Nat /\ a \in 1..Len(t) /\ t[a] = "@"
  BY InText
<1>4. /\ p.user \in Text /\ Len(p.user) = a - 1
      /\ p.auth \in Text /\ Len(p.auth) = IF a + 1 <= b THEN b - a ELSE 0
      /\ p.query \in Text /\ Len(p.query) = IF b + 1 <= c THEN c - b ELSE 0
      /\ p.frag \in Text /\ Len(p.frag) = Len(t) - c
  <2>1. p.user = SubSeq(t, 1, a - 1) /\ p.auth = SubSeq(t, a + 1, b)
        /\ p.query = SubSeq(t, b + 1, c) /\ p.frag = SubSeq(t, c + 1, Len(t))
    BY <1>1
  <2>2. a - 1 \in Int /\ a - 1 <= Len(t) /\ a + 1 \in Nat \ {0} /\ b + 1 \in Nat \ {0} /\ c + 1 \in Nat \ {0}
        /\ b <= Len(t) /\ c <= Len(t) /\ Len(t) \in Int /\ Len(t) <= Len(t)
    BY <1>3
  <2>3. p.user \in Text /\ Len(p.user) = IF 1 <= a - 1 THEN a - 1 - 1 + 1 ELSE 0
    BY <2>1, <2>2, Cut
  <2>4. p.auth \in Text /\ Len(p.auth) = IF a + 1 <= b THEN b - (a + 1) + 1 ELSE 0
    BY <2>1, <2>2, Cut
  <2>5. p.query \in Text /\ Len(p.query) = IF b + 1 <= c THEN c - (b + 1) + 1 ELSE 0
    BY <2>1, <2>2, Cut
  <2>6. p.frag \in Text /\ Len(p.frag) = IF c + 1 <= Len(t) THEN Len(t) - (c + 1) + 1 ELSE 0
    BY <2>1, <2>2, Cut
  <2>7. a \in Int /\ b \in Int /\ c \in Int /\ a >= 1 /\ c <= Len(t)
    BY <1>3
  <2>8. Len(p.user) = a - 1 /\ Len(p.auth) = IF a + 1 <= b THEN b - a ELSE 0
    BY <2>3, <2>4, <2>7
  <2>9. (Len(p.query) = IF b + 1 <= c THEN c - b ELSE 0) /\ Len(p.frag) = Len(t) - c
    BY <1>3, <2>5, <2>6, <2>7
  <2> QED
    BY <2>3, <2>4, <2>5, <2>6, <2>8, <2>9
<1>5. a <= b /\ b <= c
  <2>1. <<"@">> \in Text /\ Len(<<"@">>) = 1
    BY ShareLinkAssumption DEF Text
  <2>2. p.user \o <<"@">> \in Text /\ Len(p.user \o <<"@">>) = a
    BY <1>3, <1>4, <2>1, Joined
  <2>3. p.user \o <<"@">> \o p.auth \in Text /\ Len(p.user \o <<"@">> \o p.auth) = a + Len(p.auth)
    BY <1>4, <2>2, Joined
  <2>4. /\ p.user \o <<"@">> \o p.auth \o p.query \in Text
        /\ Len(p.user \o <<"@">> \o p.auth \o p.query) = a + Len(p.auth) + Len(p.query)
    BY <1>4, <2>3, Joined
  <2>5. Len(t) = a + Len(p.auth) + Len(p.query) + Len(p.frag)
    BY <1>2, <1>4, <2>4, Joined
  <2> QED
    BY <1>3, <1>4, <2>5
<1>6. /\ \A k \in 1..(a - 1) : t[k] \notin {"@", "?", "#"}
      /\ \A k \in (a + 1)..b : t[k] \notin {"?", "#"}
      /\ \A k \in (b + 1)..c : t[k] # "#"
  <2>1. a - 1 \in Int /\ a - 1 <= Len(t) /\ a + 1 \in Nat \ {0} /\ b + 1 \in Nat \ {0}
        /\ b <= Len(t) /\ c <= Len(t)
    BY <1>3
  <2>2. \A x : x \in ToSet(p.user) <=> \E k \in 1..(a - 1) : t[k] = x
    <3> DEFINE n == a - 1
    <3>1. n \in Int /\ n <= Len(t) /\ p.user = SubSeq(t, 1, n)
      BY <1>1, <2>1
    <3> HIDE DEF n
    <3>2. \A x : x \in ToSet(p.user) <=> \E k \in 1..n : t[k] = x
      BY <3>1, CutHas
    <3> QED
      BY <3>2 DEF n
  <2>3. \A x : x \in ToSet(p.auth) <=> \E k \in (a + 1)..b : t[k] = x
    BY <1>1, <2>1, CutHas
  <2>4. \A x : x \in ToSet(p.query) <=> \E k \in (b + 1)..c : t[k] = x
    BY <1>1, <2>1, CutHas
  <2> QED
    BY <1>2, <2>2, <2>3, <2>4
<1>7. /\ b < c => t[b + 1] = "?"
      /\ c < Len(t) => t[c + 1] = "#"
  <2>1. b + 1 \in Nat \ {0} /\ c + 1 \in Nat \ {0} /\ c <= Len(t) /\ Len(t) <= Len(t) /\ Len(t) \in Int
    BY <1>3
  <2>2. b < c => p.query # << >> /\ p.query[1] = t[b + 1]
    <3> HAVE b < c
    <3>1. 1 \in 1..(c - (b + 1) + 1) /\ (b + 1) + 1 - 1 = b + 1
      OBVIOUS
    <3>2. \A k \in 1..(c - (b + 1) + 1) : SubSeq(t, b + 1, c)[k] = t[(b + 1) + k - 1]
      BY <2>1, Cut
    <3>3. SubSeq(t, b + 1, c)[1] = t[b + 1]
      BY <3>1, <3>2
    <3>4. Len(p.query) # 0
      BY <1>4
    <3> QED
      BY <1>1, <1>4, <3>3, <3>4, InText
  <2>3. c < Len(t) => p.frag # << >> /\ p.frag[1] = t[c + 1]
    <3> HAVE c < Len(t)
    <3>1. 1 \in 1..(Len(t) - (c + 1) + 1) /\ (c + 1) + 1 - 1 = c + 1
      BY <1>3
    <3>2. \A k \in 1..(Len(t) - (c + 1) + 1) : SubSeq(t, c + 1, Len(t))[k] = t[(c + 1) + k - 1]
      BY <2>1, Cut
    <3>3. SubSeq(t, c + 1, Len(t))[1] = t[c + 1]
      BY <3>1, <3>2
    <3>4. Len(p.frag) # 0
      BY <1>3, <1>4
    <3> QED
      BY <1>1, <1>4, <3>3, <3>4, InText
  <2> QED
    BY <1>2, <2>2, <2>3
<1>8. Frag(t) = c + 1
  <2>1. \A j \in 1..Len(t) : j < c + 1 => t[j] # "#"
    <3> TAKE j \in 1..Len(t)
    <3> HAVE j < c + 1
    <3>1. j \in 1..(a - 1) \/ j = a \/ j \in (a + 1)..b \/ j \in (b + 1)..c
      BY <1>3, <1>5
    <3> QED
      BY <1>3, <1>6, <3>1
  <2>2. c + 1 \in 1..(Len(t) + 1) /\ (c + 1 <= Len(t) => t[c + 1] = "#")
    BY <1>3, <1>7
  <2> QED
    BY <2>1, <2>2, FirstFound DEF Frag
<1>9. /\ b < c => Query(t) = b + 1
      /\ b = c => Query(t) = Len(t) + 1
      /\ Limit(t) = b + 1
  <2>1. \A j \in 1..Len(t) : j < b + 1 => t[j] # "?"
    <3> TAKE j \in 1..Len(t)
    <3> HAVE j < b + 1
    <3>1. j \in 1..(a - 1) \/ j = a \/ j \in (a + 1)..b
      BY <1>3, <1>5
    <3> QED
      BY <1>3, <1>6, <3>1
  <2>2. b < c => First(t, "?") = b + 1
    <3> HAVE b < c
    <3>1. b + 1 \in 1..(Len(t) + 1) /\ t[b + 1] = "?"
      BY <1>3, <1>7
    <3> QED
      BY <2>1, <3>1, FirstFound
  <2>3. b = c => ~(First(t, "?") < c + 1)
    <3>1. First(t, "?") \in 1..(Len(t) + 1) /\ (First(t, "?") <= Len(t) => t[First(t, "?")] = "?")
      BY FirstIs
    <3> QED
      BY <1>3, <2>1, <3>1
  <2>4. /\ b < c => Query(t) = b + 1
        /\ b = c => Query(t) = Len(t) + 1
    BY <1>8, <2>2, <2>3 DEF Query
  <2>5. Limit(t) = IF Query(t) < Frag(t) THEN Query(t) ELSE Frag(t)
    BY DEF Limit
  <2> QED
    BY <1>3, <1>5, <1>8, <2>4, <2>5
<1>10. At(t) = a
  <2>1. \A j \in 1..Len(t) : j < a => t[j] # "@"
    BY <1>3, <1>6
  <2>2. a \in 1..(Len(t) + 1)
    BY <1>3
  <2>3. First(t, "@") = a
    BY <1>3, <2>1, <2>2, FirstFound
  <2>4. a < Query(t)
    BY <1>3, <1>5, <1>9
  <2> QED
    BY <2>3, <2>4 DEF At
<1>11. Limit(t) - 1 = b /\ Frag(t) - 1 = c
  BY <1>8, <1>9
<1> QED
  BY <1>1, <1>3, <1>5, <1>8, <1>9, <1>10, <1>11

\* Where an @ stands in front of query and fragment, these are the parts.
LEMMA PartsFound ==
    ASSUME NEW t \in Text, At(t) < Limit(t)
    PROVE  \E p \in Parts(t) :
             /\ p.user = SubSeq(t, 1, At(t) - 1) /\ p.auth = SubSeq(t, At(t) + 1, Limit(t) - 1)
             /\ p.frag = SubSeq(t, Frag(t), Len(t))
<1> DEFINE a == At(t)
           b == Limit(t) - 1
           c == Frag(t) - 1
           p == Cuts(t, a, b, c)
<1>1. /\ Len(t) \in Nat /\ a \in 1..Len(t) /\ t[a] = "@" /\ b \in 0..Len(t) /\ c \in 0..Len(t)
      /\ a <= b /\ b <= c
      /\ \A k \in 1..Len(t) : t[k] = "#" => c + 1 <= k
      /\ \A k \in 1..Len(t) : t[k] = "?" /\ k <= c => b + 1 <= k
      /\ \A k \in 1..Len(t) : t[k] = "@" /\ k < a => FALSE
      /\ b < c => t[b + 1] = "?"
      /\ c < Len(t) => t[c + 1] = "#"
  <2>1. /\ Frag(t) \in 1..(Len(t) + 1)
        /\ Frag(t) <= Len(t) => t[Frag(t)] = "#"
        /\ \A k \in 1..Len(t) : t[k] = "#" => Frag(t) <= k
        /\ Query(t) \in 1..(Len(t) + 1)
        /\ Query(t) < Frag(t) => t[Query(t)] = "?"
        /\ Query(t) < Frag(t) \/ Query(t) = Len(t) + 1
        /\ \A k \in 1..Len(t) : t[k] = "?" /\ k < Frag(t) => Query(t) <= k
        /\ Limit(t) = IF Query(t) < Frag(t) THEN Query(t) ELSE Frag(t)
        /\ Limit(t) \in 1..(Len(t) + 1)
        /\ At(t) \in 1..(Len(t) + 1)
        /\ At(t) <= Len(t) => t[At(t)] = "@" /\ At(t) < Query(t)
        /\ \A k \in 1..Len(t) : t[k] = "@" /\ k < Query(t) => At(t) <= k
    BY Landmarks
  <2>2. Len(t) \in Nat
    BY InText
  <2>3. a \in 1..Len(t) /\ b \in 0..Len(t) /\ c \in 0..Len(t) /\ a <= b /\ b <= c
        /\ b + 1 = Limit(t) /\ c + 1 = Frag(t)
    BY <2>1, <2>2
  <2>4. t[a] = "@" /\ a < Query(t)
    BY <2>1, <2>3
  <2>5. \A k \in 1..Len(t) : t[k] = "?" /\ k <= c => b + 1 <= k
    <3> TAKE k \in 1..Len(t)
    <3> HAVE t[k] = "?" /\ k <= c
    <3>1. k < Frag(t)
      BY <2>3
    <3>2. Query(t) <= k
      BY <2>1, <3>1
    <3> QED
      BY <2>1, <2>3, <3>1, <3>2
  <2>6. \A k \in 1..Len(t) : t[k] = "@" /\ k < a => FALSE
    <3> TAKE k \in 1..Len(t)
    <3> HAVE t[k] = "@" /\ k < a
    <3>1. k < Query(t)
      BY <2>1, <2>3, <2>4
    <3> QED
      BY <2>1, <2>3, <3>1
  <2>7. b < c => t[b + 1] = "?"
    BY <2>1, <2>3
  <2>8. c < Len(t) => t[c + 1] = "#"
    BY <2>1, <2>2, <2>3
  <2>9. \A k \in 1..Len(t) : t[k] = "#" => c + 1 <= k
    BY <2>1, <2>3
  <2> HIDE DEF a, b, c
  <2> QED
    BY <2>2, <2>3, <2>4, <2>5, <2>6, <2>7, <2>8, <2>9
<1>2. p.user = SubSeq(t, 1, a - 1) /\ p.auth = SubSeq(t, a + 1, b)
      /\ p.query = SubSeq(t, b + 1, c) /\ p.frag = SubSeq(t, c + 1, Len(t))
  BY DEF Cuts
<1>3. c + 1 = Frag(t)
  BY Landmarks, InText
<1> HIDE DEF a, b, c
<1>4. a - 1 \in Int /\ a - 1 <= Len(t) /\ a + 1 \in Nat \ {0} /\ b + 1 \in Nat \ {0} /\ c + 1 \in Nat \ {0}
      /\ b \in Int /\ c \in Int /\ b <= Len(t) /\ c <= Len(t) /\ Len(t) \in Int /\ Len(t) <= Len(t)
  BY <1>1
<1>5. {"@", "?", "#"} \cap ToSet(p.user) = {}
  <2>1. ASSUME NEW x
        PROVE  x \in ToSet(SubSeq(t, 1, a - 1)) <=> \E k \in 1..(a - 1) : t[k] = x
    <3> DEFINE n == a - 1
    <3>1. n \in Int /\ n <= Len(t)
      BY <1>4
    <3> HIDE DEF n
    <3>2. x \in ToSet(SubSeq(t, 1, n)) <=> \E k \in 1..n : t[k] = x
      BY <3>1, CutHas
    <3> QED
      BY <3>2 DEF n
  <2>2. \A k \in 1..(a - 1) : t[k] \notin {"@", "?", "#"}
    <3> TAKE k \in 1..(a - 1)
    <3>1. k \in 1..Len(t) /\ k < a /\ k <= c /\ ~(b + 1 <= k) /\ ~(c + 1 <= k)
      BY <1>1
    <3> QED
      BY <1>1, <3>1
  <2> QED
    BY <1>2, <2>1, <2>2
<1>6. {"?", "#"} \cap ToSet(p.auth) = {}
  <2>1. ASSUME NEW x
        PROVE  x \in ToSet(SubSeq(t, a + 1, b)) <=> \E k \in (a + 1)..b : t[k] = x
    BY <1>4, CutHas
  <2>2. \A k \in (a + 1)..b : t[k] \notin {"?", "#"}
    <3> TAKE k \in (a + 1)..b
    <3>1. k \in 1..Len(t) /\ k <= c /\ ~(b + 1 <= k) /\ ~(c + 1 <= k)
      BY <1>1
    <3> QED
      BY <1>1, <3>1
  <2> QED
    BY <1>2, <2>1, <2>2
<1>7. "#" \notin ToSet(p.query)
  <2>1. "#" \in ToSet(SubSeq(t, b + 1, c)) <=> \E k \in (b + 1)..c : t[k] = "#"
    BY <1>4, CutHas
  <2>2. \A k \in (b + 1)..c : t[k] # "#"
    <3> TAKE k \in (b + 1)..c
    <3>1. k \in 1..Len(t) /\ ~(c + 1 <= k)
      BY <1>1
    <3> QED
      BY <1>1, <3>1
  <2> QED
    BY <1>2, <2>1, <2>2
<1>8. p.query = << >> \/ p.query[1] = "?"
  <2>1. CASE b < c
    <3>1. \A k \in 1..(c - (b + 1) + 1) : SubSeq(t, b + 1, c)[k] = t[(b + 1) + k - 1]
      BY <1>4, Cut
    <3>2. 1 \in 1..(c - (b + 1) + 1) /\ (b + 1) + 1 - 1 = b + 1
      BY <1>4, <2>1
    <3>3. SubSeq(t, b + 1, c)[1] = t[b + 1]
      BY <3>1, <3>2
    <3> QED
      BY <1>1, <1>2, <2>1, <3>3
  <2>2. CASE ~(b < c)
    BY <1>2, <1>4, <2>2, SubSeqEmpty
  <2> QED
    BY <2>1, <2>2
<1>9. p.frag = << >> \/ p.frag[1] = "#"
  <2>1. CASE c < Len(t)
    <3>1. \A k \in 1..(Len(t) - (c + 1) + 1) : SubSeq(t, c + 1, Len(t))[k] = t[(c + 1) + k - 1]
      BY <1>4, Cut
    <3>2. 1 \in 1..(Len(t) - (c + 1) + 1) /\ (c + 1) + 1 - 1 = c + 1
      BY <1>4, <2>1
    <3>3. SubSeq(t, c + 1, Len(t))[1] = t[c + 1]
      BY <3>1, <3>2
    <3> QED
      BY <1>1, <1>2, <2>1, <3>3
  <2>2. CASE ~(c < Len(t))
    BY <1>2, <1>4, <2>2, SubSeqEmpty
  <2> QED
    BY <2>1, <2>2
<1>10. t = p.user \o <<"@">> \o p.auth \o p.query \o p.frag
  <2>1. t \in Seq(Toks)
    BY DEF Text
  <2>2. SubSeq(t, 1, a) = SubSeq(t, 1, a - 1) \o <<"@">>
    <3>1. 1 \in 1..Len(t) /\ a \in 1..Len(t)
      BY <1>1
    <3> QED
      BY <1>1, <2>1, <3>1, SubSeqRecursiveSecond
  <2>3. SubSeq(t, 1, b) = SubSeq(t, 1, a) \o SubSeq(t, a + 1, b)
    <3>1. 1 \in 1..(Len(t) + 1) /\ a \in (1 - 1)..Len(t) /\ b \in a..Len(t)
      BY <1>1
    <3> QED
      BY <2>1, <3>1, ConcatAdjacentSubSeq
  <2>4. SubSeq(t, 1, c) = SubSeq(t, 1, b) \o SubSeq(t, b + 1, c)
    <3>1. 1 \in 1..(Len(t) + 1) /\ b \in (1 - 1)..Len(t) /\ c \in b..Len(t)
      BY <1>1
    <3> QED
      BY <2>1, <3>1, ConcatAdjacentSubSeq
  <2>5. SubSeq(t, 1, Len(t)) = SubSeq(t, 1, c) \o SubSeq(t, c + 1, Len(t))
    <3>1. 1 \in 1..(Len(t) + 1) /\ c \in (1 - 1)..Len(t) /\ Len(t) \in c..Len(t)
      BY <1>1
    <3> QED
      BY <2>1, <3>1, ConcatAdjacentSubSeq
  <2>6. SubSeq(t, 1, Len(t)) = t
    BY <2>1, SubSeqFull
  <2> QED
    BY <1>2, <2>2, <2>3, <2>4, <2>5, <2>6
<1>11. IsLink(t, p)
  BY <1>5, <1>6, <1>7, <1>8, <1>9, <1>10 DEF IsLink
<1>12. p \in Parts(t)
  <2>1. a \in {k \in 1..Len(t) : t[k] = "@"}
    BY <1>1
  <2> QED
    BY <1>1, <1>11, <2>1 DEF Parts
<1> HIDE DEF p
<1> QED
  BY <1>2, <1>3, <1>12 DEF a, b

\* The fragment is what follows the # of what follows the query.
LEMMA TrailerIs ==
    ASSUME link \in Links
    PROVE  /\ Trailer = << >> <=> Frag(text) > Len(text)
           /\ Frag(text) <= Len(text) => Tail(Trailer) = Fragment /\ (Decodes(Trailer) <=> Decodes(Fragment))
<1>1. text \in Text /\ Frag(text) \in 1..(Len(text) + 1) /\ Len(text) \in Nat
      /\ (Frag(text) <= Len(text) => text[Frag(text)] = "#")
  BY LinkText, Landmarks, InText
<1> DEFINE f == Frag(text)
           n == Len(text)
<1>2. f \in Nat \ {0} /\ f + 1 \in Nat \ {0} /\ n \in Int /\ n <= Len(text) /\ f <= n + 1
  BY <1>1
<1>3. Trailer = SubSeq(text, f, n) /\ Fragment = SubSeq(text, f + 1, n)
  BY DEF Trailer, Fragment
<1>4. text[f] = "#" \/ ~(f <= n)
  BY <1>1
<1> HIDE DEF f, n
<1>5. /\ Trailer \in Text /\ Len(Trailer) = IF f <= n THEN n - f + 1 ELSE 0
      /\ \A k \in 1..(n - f + 1) : Trailer[k] = text[f + k - 1]
  BY <1>1, <1>2, <1>3, Cut
<1>6. Trailer = << >> <=> f > n
  BY <1>2, <1>5, InText
<1>7. ASSUME f <= n
      PROVE  Tail(Trailer) = Fragment /\ (Decodes(Trailer) <=> Decodes(Fragment))
  <2>1. Tail(Trailer) = Fragment
    <3>1. f \in 1..Len(text) /\ n \in f..Len(text) /\ text \in Seq(Toks)
      BY <1>1, <1>2, <1>7 DEF Text
    <3> QED
      BY <1>3, <3>1, HeadTailOfSubSeq
  <2>2. /\ Fragment \in Text /\ Len(Fragment) = IF f + 1 <= n THEN n - (f + 1) + 1 ELSE 0
        /\ \A k \in 1..(n - (f + 1) + 1) : Fragment[k] = text[f + 1 + k - 1]
    BY <1>1, <1>2, <1>3, Cut
  <2>3. Trailer[1] = "#" /\ Len(Trailer) = n - f + 1 /\ Len(Fragment) = n - f
    BY <1>2, <1>4, <1>5, <1>7, <2>2
  <2>4. ASSUME NEW k \in 1..(n - f)
        PROVE  Fragment[k] = Trailer[k + 1]
    <3>1. k \in 1..(n - (f + 1) + 1) /\ k + 1 \in 1..(n - f + 1) /\ f + 1 + k - 1 = f + (k + 1) - 1
      BY <1>2
    <3> QED
      BY <1>5, <2>2, <3>1
  <2>5. (\A k \in 1..(n - f + 1) : Trailer[k] # "%") <=> \A k \in 1..(n - f) : Fragment[k] # "%"
    <3>1. ASSUME NEW k \in 1..(n - f), \A j \in 1..(n - f + 1) : Trailer[j] # "%"
          PROVE  Fragment[k] # "%"
      <4>1. k + 1 \in 1..(n - f + 1)
        BY <1>2
      <4> QED
        BY <2>4, <3>1, <4>1
    <3>2. ASSUME NEW k \in 1..(n - f + 1), \A j \in 1..(n - f) : Fragment[j] # "%"
          PROVE  Trailer[k] # "%"
      <4>1. k = 1 \/ (k - 1 \in 1..(n - f) /\ (k - 1) + 1 = k)
        BY <1>2
      <4> QED
        BY <2>3, <2>4, <3>2, <4>1
    <3> QED
      BY <3>1, <3>2
  <2> QED
    BY <1>5, <2>1, <2>2, <2>3, <2>5, HasToken
<1> QED
  BY <1>6, <1>7 DEF f, n

-----------------------------------------------------------------------------
(* What has been cut off: one lemma per outcome and per action *)

\* More of what depends on the link alone.
LEMMA RigidParts ==
    ASSUME link' = link
    PROVE  Sound' = Sound /\ Outer' = Outer /\ UserPlain' = UserPlain
<1>1. text' = text
  BY Rigid
<1> QED
  BY <1>1 DEF Sound, Outer, UserPlain

\* Nothing is claimed of a link before its authority, or when undefined.
LEMMA GrammarSilent ==
    ASSUME CoreInv', pc' \in {"user", "json", "null", "overrun"}
    PROVE  GrammarInv'
<1>1. rc' # -1 /\ ~Ready' /\ pc' \notin {"authority", "creds", "blob"}
  BY DEF CoreInv, FormInv, Ready, Accepted, Beyond
<1>2. AddressInv' /\ RefusedInv' /\ SsInv'
  BY <1>1 DEF AddressInv, RefusedInv, SsInv
<1>3. LinkInv'
  BY <1>1 DEF LinkInv, Ready
<1> QED
  BY <1>2, <1>3 DEF GrammarInv

LEMMA GrammarFails ==
    ASSUME Fail, starved' \/ ~Sound \/ ~LinkLike
    PROVE  GrammarInv'
<1>1. link' = link /\ ~Ready' /\ pc' \notin {"authority", "creds", "blob"}
  BY DEF Fail, Ready, Accepted, Beyond
<1>2. AddressInv' /\ SsInv'
  BY <1>1 DEF AddressInv, SsInv
<1>3. LinkInv'
  BY <1>1 DEF LinkInv, Ready
<1>4. RefusedInv'
  BY <1>1, Rigid, RigidParts DEF RefusedInv
<1> QED
  BY <1>2, <1>3, <1>4 DEF GrammarInv

\* The parser goes on with query, fields and name and leaves the address alone.
LEMMA GrammarGoesOn ==
    ASSUME CoreInv, CoreInv', GrammarInv, pc \in Beyond, pc' \in Beyond,
           link' = link, rest' = rest, creds' = creds, node'.port = node.port,
           \A f \in {"server", "uuid", "password", "cipher"} : node'.str[f] = node.str[f]
    PROVE  GrammarInv'
<1>1. Ready /\ Ready' /\ ~Accepted' /\ pc' \notin {"authority", "creds", "blob"} /\ rc' # -1
  BY DEF CoreInv, FormInv, Ready, Accepted, Beyond
<1>2. Secret \in {"uuid", "password"}
  BY DEF Secret
<1>3. AddressInv'
  BY <1>1, Rigid DEF GrammarInv, AddressInv
<1>4. LinkInv'
  BY <1>1, <1>2, Rigid DEF GrammarInv, LinkInv
<1>5. SsInv'
  BY <1>1, RigidParts DEF GrammarInv, SsInv
<1>6. RefusedInv'
  BY <1>1 DEF RefusedInv
<1> QED
  BY <1>3, <1>4, <1>5, <1>6 DEF GrammarInv

LEMMA EntryGrammar == ASSUME CoreInv, CoreInv', Entry \/ EntryUnknown PROVE GrammarInv'
<1>1. CASE EntryUnknown
  BY <1>1, GrammarFails DEF EntryUnknown, LinkLike
<1>2. CASE Entry /\ pc' \in {"user", "json"}
  BY <1>2, GrammarSilent
<1>3. CASE Entry /\ pc' \in {"creds", "blob"}
  <2>1. /\ link' = link /\ rc' = rc /\ rc = 1 /\ link.scheme = "ss"
        /\ pc' = IF First(text, "@") < Limit(text) THEN "creds" ELSE "blob"
    BY <1>3 DEF Entry, Goto, CoreInv, FormInv
  <2>2. ~Ready' /\ ~LinkLike /\ (pc' = "creds" => UserPlain) /\ (pc' = "blob" => ~UserPlain)
    BY <1>3, <2>1 DEF Ready, Accepted, Beyond, LinkLike, UserPlain
  <2> QED
    BY <1>3, <2>1, <2>2, Rigid, RigidParts DEF GrammarInv, AddressInv, LinkInv, RefusedInv, SsInv
<1> QED
  BY <1>1, <1>2, <1>3 DEF Entry, Goto

\* A link that parse_vless_like gives up has no such parts.
LEMMA UserGrammar == ASSUME CoreInv, CoreInv', UserInfo \/ UserMissing PROVE GrammarInv'
<1>1. pc = "user" /\ LinkLike /\ link \in Links /\ TypeOK /\ text \in Text
  <2>1. pc = "user"
    BY DEF UserInfo, UserMissing
  <2> QED
    BY <2>1, LinkText DEF CoreInv, FormInv, TypeOK
<1>2. Sound => At(text) <= Len(text) /\ At(text) < Limit(text) /\ Decodes(User)
  <2> HAVE Sound
  <2>1. PICK p \in Parts(text) : Decodes(p.user)
    BY DEF Sound
  <2>2. At(text) <= Len(text) /\ At(text) < Limit(text) /\ p.user = SubSeq(text, 1, At(text) - 1)
    BY <1>1, UniqueCut
  <2> QED
    BY <2>1, <2>2 DEF User
<1>3. CASE UserMissing
  <2>1. ~Sound
    BY <1>1, <1>2, <1>3, Landmarks, InText DEF UserMissing
  <2> QED
    BY <1>3, <2>1, GrammarFails DEF UserMissing
<1>4. CASE Fail /\ (~Decodes(User) \/ At(text) > Limit(text))
  <2>1. ~Sound
    BY <1>1, <1>2, <1>4, Landmarks, InText
  <2> QED
    BY <1>4, <2>1, GrammarFails
<1>5. CASE pc' \in {"null", "overrun"}
  BY <1>5, GrammarSilent
<1>6. CASE /\ At(text) < Limit(text) /\ Decodes(User)
           /\ Goto("authority", Fill(Typed, Secret, xstrdup(url_decode(User))))
           /\ rest' = SubSeq(text, At(text) + 1, Limit(text) - 1)
  <2>1. /\ pc' = "authority" /\ link' = link /\ rc' = rc
        /\ node' = Fill(Typed, Secret, xstrdup(url_decode(User)))
        /\ InFront /\ Decodes(User) /\ rest' = Middle
    BY <1>6 DEF Goto, InFront, Middle
  <2>2. node'.str[Secret] = xstrdup(url_decode(User))
    BY <1>1, <2>1, UserTypes, Filled DEF MaybeText
  <2>3. ~Ready' /\ ~Accepted' /\ rc' # -1
    BY <1>1, <2>1 DEF CoreInv, FormInv, Ready, Accepted, Beyond
  <2>4. LinkInv'
    BY <2>1, <2>2, Rigid DEF LinkInv, Accepted
  <2>5. link.scheme # "ss"
    BY <1>1 DEF LinkLike
  <2> QED
    BY <2>1, <2>3, <2>4, <2>5 DEF GrammarInv, AddressInv, RefusedInv, SsInv
<1> QED
  BY <1>3, <1>4, <1>5, <1>6 DEF UserInfo, NullCopy

LEMMA AuthorityGrammar ==
    ASSUME CoreInv, CoreInv', GrammarInv, Authority \/ AuthorityBad
    PROVE  GrammarInv'
<1>1. pc = "authority" /\ link \in Links /\ TypeOK /\ text \in Text /\ rest \in Text /\ node \in Node
  <2>1. pc = "authority"
    BY DEF Authority, AuthorityBad
  <2> QED
    BY <2>1, LinkText DEF CoreInv, TypeOK
<1>2. CASE AuthorityBad
  <2>1. LinkLike => rest = Middle
    BY <1>1 DEF GrammarInv, LinkInv
  <2>2. LinkLike => ~Sound
    <3> SUFFICES ASSUME LinkLike, Sound PROVE FALSE
      OBVIOUS
    <3>1. PICK p \in Parts(text) : HasAuthority(p.auth)
      BY DEF Sound
    <3>2. p.auth = rest
      BY <1>1, <2>1, UniqueCut DEF Middle
    <3> QED
      BY <1>1, <1>2, <3>1, <3>2, AuthorityTaken DEF AuthorityBad
  <2> QED
    BY <1>2, <2>2, GrammarFails DEF AuthorityBad
<1>3. CASE Authority
  <2> DEFINE h == xstrdup(Host(rest))
             n == [Fill(node, "server", h) EXCEPT !.port = PortNumber(rest)]
             m == Fill(Fill(n, "cipher", creds.method), "password", creds.password)
  <2>1. /\ HasHostPort(rest) /\ link' = link /\ rc' = rc /\ rest' = rest /\ creds' = creds
        /\ pc' \in {"query", "name"}
        /\ node' = IF creds = None THEN n ELSE m
    BY <1>3 DEF Authority, Goto
  <2>2. h \in MaybeText /\ PortNumber(rest) \in 0..MaxPort
    BY <1>1, <2>1, HostPort, Decoding, PortMax DEF MaybeText
  <2>3. /\ n \in Node /\ n.str["server"] = h /\ n.port = PortNumber(rest)
        /\ \A f \in Fields \ {"server"} : n.str[f] = node.str[f]
    <3> DEFINE s == Fill(node, "server", h)
    <3>1. "server" \in Fields
      BY DEF Fields
    <3>2. s \in Node /\ s.str["server"] = h /\ \A f \in Fields \ {"server"} : s.str[f] = node.str[f]
      BY <1>1, <2>2, <3>1, Filled
    <3>3. n = [s EXCEPT !.port = PortNumber(rest)]
      OBVIOUS
    <3> HIDE DEF s, n
    <3>4. n.str = s.str /\ n.port = PortNumber(rest) /\ n \in Node
      BY <2>2, <3>2, <3>3 DEF Node
    <3> QED
      BY <3>2, <3>4
  <2> HIDE DEF n, h
  <2>4. creds # None =>
          /\ m.str["server"] = h /\ m.port = PortNumber(rest)
          /\ m.str["cipher"] = creds.method /\ m.str["password"] = creds.password
    <3>1. creds # None => creds \in [method: Text, password: Text]
      BY <1>1 DEF TypeOK
    <3> QED
      BY <2>3, <3>1, CredsFilled
  <2> HIDE DEF m
  <2>5. node'.str["server"] = xstrdup(Host(rest)) /\ node'.port = PortNumber(rest)
    BY <2>1, <2>3, <2>4 DEF h
  <2>6. Ready' /\ ~Accepted' /\ rc' # -1 /\ pc' \notin {"authority", "creds", "blob"}
    BY <1>1, <2>1 DEF CoreInv, FormInv, Ready, Accepted, Beyond
  <2>7. (LinkLike => creds = None) /\ (link.scheme = "ss" => creds # None)
    BY <1>1 DEF CoreInv, FormInv, LinkLike
  <2>8. AddressInv'
    BY <2>1, <2>5 DEF AddressInv
  <2>9. LinkInv'
    <3>1. Secret \in {"uuid", "password"} /\ Secret \in Fields \ {"server"}
      BY DEF Secret, Fields
    <3>2. LinkLike => node'.str[Secret] = node.str[Secret]
      BY <2>1, <2>3, <2>7, <3>1
    <3>3. LinkLike => /\ InFront /\ Decodes(User)
                      /\ node.str[Secret] = xstrdup(url_decode(User)) /\ rest = Middle
      BY <1>1 DEF GrammarInv, LinkInv
    <3> QED
      BY <2>1, <2>6, <3>2, <3>3, Rigid DEF LinkInv
  <2>10. SsInv'
    <3>1. link.scheme = "ss" => Splits(Outer, creds, rest)
      BY <1>1 DEF GrammarInv, SsInv
    <3>2. link.scheme = "ss" => node'.str["cipher"] = creds.method /\ node'.str["password"] = creds.password
      BY <2>1, <2>4, <2>7
    <3> QED
      BY <2>1, <2>6, <3>1, <3>2, RigidParts DEF SsInv
  <2> QED
    BY <2>6, <2>8, <2>9, <2>10 DEF GrammarInv, RefusedInv
<1> QED
  BY <1>2, <1>3

\* The two forms of an ss link: user and authority in the clear, or in a blob.
LEMMA CredsGrammar ==
    ASSUME CoreInv, CoreInv', GrammarInv, Creds \/ Blob
    PROVE  GrammarInv'
<1>1. /\ pc \in {"creds", "blob"} /\ link \in Links /\ text \in Text /\ link.scheme = "ss" /\ ~LinkLike /\ rc = 1
  <2>1. pc \in {"creds", "blob"}
    BY DEF Creds, Blob
  <2> QED
    BY <2>1, LinkText DEF CoreInv, FormInv, TypeOK, LinkLike
<1>2. CASE Fail
  BY <1>1, <1>2, GrammarFails
<1>3. ASSUME Splits(Outer, creds', rest'), pc' = "authority", link' = link, rc' = rc
      PROVE  GrammarInv'
  <2>1. ~Ready' /\ ~Accepted' /\ rc' # -1 /\ pc' \notin {"creds", "blob"}
    BY <1>1, <1>3 DEF Ready, Accepted, Beyond
  <2>2. SsInv'
    BY <1>3, <2>1, RigidParts DEF SsInv
  <2> QED
    BY <1>1, <1>3, <2>1, <2>2, Rigid DEF GrammarInv, AddressInv, LinkInv, RefusedInv
<1>4. /\ Limit(text) \in 1..(Len(text) + 1) /\ Len(text) \in Nat /\ Limit(text) - 1 \in Int /\ Limit(text) - 1 <= Len(text)
      /\ First(text, "@") \in 1..(Len(text) + 1)
      /\ First(text, "@") <= Len(text) => text[First(text, "@")] = "@"
      /\ \A k \in 1..Len(text) : text[k] = "@" => First(text, "@") <= k
  BY <1>1, Landmarks, FirstIs, InText
<1> DEFINE plain == SubSeq(text, 1, Limit(text) - 1)
<1>5. plain \in Text /\ Len(plain) = Limit(text) - 1 /\ \A k \in 1..(Limit(text) - 1) : plain[k] = text[k]
  <2> DEFINE n == Limit(text) - 1
  <2>1. n \in Int /\ n <= Len(text) /\ n >= 0
    BY <1>4
  <2> HIDE DEF n
  <2>2. /\ SubSeq(text, 1, n) \in Text /\ Len(SubSeq(text, 1, n)) = IF 1 <= n THEN n - 1 + 1 ELSE 0
        /\ \A k \in 1..(n - 1 + 1) : SubSeq(text, 1, n)[k] = text[1 + k - 1]
    BY <1>1, <2>1, Cut
  <2>3. Len(SubSeq(text, 1, n)) = n /\ \A k \in 1..n : SubSeq(text, 1, n)[k] = text[k]
    BY <2>1, <2>2
  <2> QED
    BY <2>2, <2>3 DEF n
<1>6. Contains(plain, "@") <=> UserPlain
  <2>1. Contains(plain, "@") <=> \E k \in 1..(Limit(text) - 1) : plain[k] = "@"
    BY <1>5, HasToken
  <2>2. (\E k \in 1..(Limit(text) - 1) : text[k] = "@") <=> First(text, "@") < Limit(text)
    BY <1>4
  <2> QED
    BY <1>5, <2>1, <2>2 DEF UserPlain
<1>7. (pc = "creds" => UserPlain) /\ (pc = "blob" => ~UserPlain)
  BY <1>1 DEF GrammarInv, SsInv
<1>8. CASE Creds /\ ~Fail
  <2> DEFINE a == First(text, "@")
             u == SubSeq(text, 1, a - 1)
             n == Limit(text) - 1
  <2>1. /\ MethodPass(u) # None /\ creds' = MethodPass(u)
        /\ rest' = SubSeq(text, a + 1, n)
        /\ pc' = "authority" /\ link' = link /\ rc' = rc
    BY <1>8 DEF Creds, Goto
  <2>2. UserPlain /\ a < Limit(text) /\ a \in 1..n /\ text[a] = "@" /\ n \in 1..Len(text)
    <3>1. UserPlain
      BY <1>7, <1>8 DEF Creds
    <3> QED
      BY <1>4, <3>1 DEF UserPlain
  <2>3. Outer = plain
    BY <1>6, <2>2 DEF Outer
  <2>4. DOMAIN plain = 1..n /\ plain[a] = "@" /\ Len(plain) = n
    BY <1>5, <2>2, InText
  <2> HIDE DEF a, n, plain
  <2>5. u \in Text /\ u = SubSeq(plain, 1, a - 1)
    <3>1. a - 1 \in Int /\ a - 1 <= n /\ a - 1 <= Len(text) /\ a - 1 >= 0
      BY <1>4, <2>2
    <3> DEFINE m == a - 1
    <3> HIDE DEF m
    <3>2. m \in Int /\ m <= n /\ m <= Len(text) /\ m >= 0
      BY <3>1 DEF m
    <3>3. /\ SubSeq(text, 1, m) \in Text /\ Len(SubSeq(text, 1, m)) = IF 1 <= m THEN m - 1 + 1 ELSE 0
          /\ \A k \in 1..(m - 1 + 1) : SubSeq(text, 1, m)[k] = text[1 + k - 1]
      BY <1>1, <3>2, Cut
    <3>4. /\ SubSeq(plain, 1, m) \in Text /\ Len(SubSeq(plain, 1, m)) = IF 1 <= m THEN m - 1 + 1 ELSE 0
          /\ \A k \in 1..(m - 1 + 1) : SubSeq(plain, 1, m)[k] = plain[1 + k - 1]
      BY <1>5, <2>4, <3>2, Cut
    <3>5. ASSUME NEW k \in 1..Len(SubSeq(text, 1, m))
          PROVE  SubSeq(text, 1, m)[k] = SubSeq(plain, 1, m)[k]
      <4>1. k \in 1..(m - 1 + 1) /\ 1 + k - 1 = k /\ k \in 1..n
        BY <2>2, <3>2, <3>3
      <4>2. plain[k] = text[k]
        BY <1>5, <4>1 DEF n
      <4> QED
        BY <3>3, <3>4, <4>1, <4>2
    <3>6. SubSeq(text, 1, m) = SubSeq(plain, 1, m)
      BY <3>3, <3>4, <3>5, SameText
    <3> QED
      BY <3>3, <3>6 DEF m
  <2>6. rest' = SubSeq(plain, a + 1, Len(plain))
    <3>1. a + 1 \in Nat \ {0} /\ n \in Int /\ n <= Len(text)
      BY <1>4, <2>2
    <3>2. /\ rest' \in Text /\ Len(rest') = IF a + 1 <= n THEN n - (a + 1) + 1 ELSE 0
          /\ \A k \in 1..(n - (a + 1) + 1) : rest'[k] = text[a + 1 + k - 1]
      BY <1>1, <2>1, <3>1, Cut
    <3>3. /\ SubSeq(plain, a + 1, n) \in Text
          /\ Len(SubSeq(plain, a + 1, n)) = IF a + 1 <= n THEN n - (a + 1) + 1 ELSE 0
          /\ \A k \in 1..(n - (a + 1) + 1) : SubSeq(plain, a + 1, n)[k] = plain[a + 1 + k - 1]
      BY <1>5, <2>4, <3>1, Cut
    <3>4. ASSUME NEW k \in 1..Len(rest')
          PROVE  rest'[k] = SubSeq(plain, a + 1, n)[k]
      <4>1. k \in 1..(n - (a + 1) + 1) /\ a + 1 + k - 1 \in 1..n
        BY <2>2, <3>1, <3>2
      <4>2. plain[a + 1 + k - 1] = text[a + 1 + k - 1]
        BY <1>5, <4>1 DEF n
      <4> QED
        BY <3>2, <3>3, <4>1, <4>2
    <3>5. rest' = SubSeq(plain, a + 1, n)
      BY <3>2, <3>3, <3>4, SameText
    <3> QED
      BY <2>4, <3>5
  <2>7. a \in DOMAIN plain
    BY <2>2, <2>4
  <2> HIDE DEF u
  <2>8. \E owner \in {u, Decoded(StdBlobs, u)} \ {None} :
          /\ First(owner, ":") \in DOMAIN owner
          /\ creds'.method   = xstrdup(SubSeq(owner, 1, First(owner, ":") - 1))
          /\ creds'.password = xstrdup(SubSeq(owner, First(owner, ":") + 1, Len(owner)))
    BY <2>1, <2>5, MethodPassIs
  <2>9. Splits(plain, creds', rest')
    BY <2>4, <2>5, <2>6, <2>7, <2>8 DEF Splits
  <2> QED
    BY <1>3, <2>1, <2>3, <2>9
<1>9. CASE Blob /\ ~Fail
  <2> DEFINE dec == BlobText
             at == IF dec = None THEN 0 ELSE LastAt(dec, "@")
             u == SubSeq(dec, 1, at - 1)
             mp == IF at <= 1 THEN None ELSE MethodPass(u)
  <2>1. /\ mp # None /\ creds' = mp /\ rest' = SubSeq(dec, at + 1, Len(dec))
        /\ pc' = "authority" /\ link' = link /\ rc' = rc
    BY <1>9 DEF Blob, Goto, BlobText
  <2>2. dec \in MaybeText /\ Outer = dec
    <3>1. ~UserPlain
      BY <1>7, <1>9 DEF Blob
    <3> QED
      BY <1>6, <3>1, DecodedText DEF BlobText, Outer
  <2> HIDE DEF dec
  <2>3. dec \in Text /\ at = LastAt(dec, "@") /\ ~(at <= 1) /\ mp = MethodPass(u)
    BY <2>1, <2>2 DEF MaybeText
  <2>4. at \in 0..Len(dec) /\ Len(dec) \in Nat /\ DOMAIN dec = 1..Len(dec) /\ (at > 0 => dec[at] = "@")
    BY <2>3, LastIs, InText
  <2> HIDE DEF at
  <2>5. u \in Text
    <3>1. at - 1 \in Int /\ at - 1 <= Len(dec)
      BY <2>4
    <3> QED
      BY <2>3, <3>1, Cut
  <2>6. at \in DOMAIN dec /\ dec[at] = "@"
    BY <2>3, <2>4
  <2>7. \E owner \in {u, Decoded(StdBlobs, u)} \ {None} :
          /\ First(owner, ":") \in DOMAIN owner
          /\ creds'.method   = xstrdup(SubSeq(owner, 1, First(owner, ":") - 1))
          /\ creds'.password = xstrdup(SubSeq(owner, First(owner, ":") + 1, Len(owner)))
    <3> HIDE DEF u
    <3> QED
      BY <2>1, <2>3, <2>5, MethodPassIs
  <2>8. Splits(dec, creds', rest')
    BY <2>1, <2>6, <2>7 DEF Splits
  <2> QED
    BY <1>3, <2>1, <2>2, <2>8
<1> QED
  BY <1>2, <1>8, <1>9

\* A query whose escapes are sound has none that are not in any of its stretches.
LEMMA SoundQuery ==
    ASSUME CoreInv, pc = "query", Sound
    PROVE  \A k \in 1..Len(q) : q[k] # "%"
<1>1. link \in Links /\ text \in Text /\ HasQuery
  BY LinkText DEF CoreInv, TypeOK, FormInv
<1>2. q \in Text
  BY <1>1, QueryText
<1>3. PICK p \in Parts(text) : Decodes(p.query)
  BY DEF Sound
<1>4. p.query = SubSeq(text, Limit(text), Frag(text) - 1)
  BY <1>1, UniqueCut
<1> DEFINE a == Query(text)
           n == Frag(text) - 1
<1>5. Limit(text) = a /\ a \in Nat \ {0} /\ a + 1 \in Nat \ {0} /\ n \in Int /\ n <= Len(text)
  BY <1>1, Landmarks, InText DEF HasQuery
<1>6. q = SubSeq(text, a + 1, n) /\ p.query = SubSeq(text, a, n)
  BY <1>4, <1>5 DEF q
<1> HIDE DEF a, n
<1>7. p.query \in Text
  BY <1>1, <1>5, <1>6, Cut
<1>8. "%" \notin ToSet(p.query)
  BY <1>3, <1>7, HasToken
<1>9. \A k \in a..n : text[k] # "%"
  BY <1>1, <1>5, <1>6, <1>8, CutHas
<1>10. "%" \in ToSet(q) <=> \E k \in (a + 1)..n : text[k] = "%"
  BY <1>1, <1>5, <1>6, CutHas
<1>11. \A k \in (a + 1)..n : k \in a..n
  BY <1>5
<1> QED
  BY <1>2, <1>9, <1>10, <1>11, HasToken

LEMMA QueryGrammar ==
    ASSUME CoreInv, CoreInv', GrammarInv, SkipSegment \/ TakePair \/ EndOfQuery
    PROVE  GrammarInv'
<1>1. pc = "query" /\ link \in Links /\ i \in Nat \ {0}
  <2>1. pc = "query"
    BY DEF SkipSegment, TakePair, EndOfQuery
  <2> QED
    BY <2>1 DEF CoreInv, TypeOK
<1>2. q \in Text
  BY <1>1, QueryText
<1>3. CASE pc' \in {"query", "kinds", "fields"} /\ UNCHANGED <<link, rest, creds, node>>
  BY <1>1, <1>3, GrammarGoesOn DEF Beyond
<1>4. CASE pc' = "null"
  BY <1>4, GrammarSilent
<1>5. CASE TakePair /\ Fail /\ (starved' \/ ~(Decodes(Key) /\ Decodes(Value)))
  <2>1. ~(Decodes(Key) /\ Decodes(Value)) => ~Sound
    <3> SUFFICES ASSUME Sound PROVE Decodes(Key) /\ Decodes(Value)
      OBVIOUS
    <3>1. \A k \in 1..Len(q) : q[k] # "%"
      BY <1>1, SoundQuery
    <3>2. /\ SegEnd \in i..(Len(q) + 1)
          /\ Eq \in 2..Len(q) /\ Eq >= i /\ Eq < SegEnd
          /\ Key \in Text /\ Len(Key) = Eq - i
          /\ Value \in Text /\ Len(Value) = SegEnd - Eq - 1
          /\ \A k \in 1..(Eq - i) : Key[k] = q[i + k - 1]
          /\ \A k \in 1..(SegEnd - Eq - 1) : Value[k] = q[Eq + k]
      BY <1>1, <1>2, <1>5, SegmentIs DEF TakePair
    <3>3. Len(q) \in Nat
      BY <1>2, InText
    <3>4. \A k \in 1..(Eq - i) : i + k - 1 \in 1..Len(q)
      BY <1>1, <3>2, <3>3
    <3>5. \A k \in 1..(SegEnd - Eq - 1) : Eq + k \in 1..Len(q)
      BY <3>2, <3>3
    <3>6. (\A k \in 1..Len(Key) : Key[k] # "%") /\ \A k \in 1..Len(Value) : Value[k] # "%"
      BY <3>1, <3>2, <3>4, <3>5
    <3> QED
      BY <3>2, <3>6, HasToken
  <2> QED
    BY <1>5, <2>1, GrammarFails
<1> QED
  BY <1>3, <1>4, <1>5 DEF SkipSegment, TakePair, EndOfQuery, Advance, Apply, QueryFails, NullCopy

LEMMA ApplyGrammar ==
    ASSUME CoreInv, CoreInv', GrammarInv, ApplyKinds \/ ApplyFields
    PROVE  GrammarInv'
<1>1. /\ pc \in {"kinds", "fields"} /\ pc' \in {"kinds", "fields", "name"}
      /\ node \in Node /\ i \in Nat \ {0} /\ pairs \in Seq(Pair)
      /\ UNCHANGED <<link, rest, creds>>
      /\ link.scheme = "ss" \/ LinkLike
  <2>1. /\ pc \in {"kinds", "fields"} /\ pc' \in {"kinds", "fields", "name"}
        /\ UNCHANGED <<link, rest, creds>>
    BY DEF ApplyKinds, ApplyFields, Goto
  <2> QED
    BY <2>1 DEF CoreInv, TypeOK, FormInv, Beyond
<1>2. \/ node' = node
      \/ \E m \in 1..Len(pairs) : node' \in {ApplyKind(node, pairs[m]), ApplySs(node, pairs[m]), ApplyField(node, pairs[m])}
  BY <1>1 DEF ApplyKinds, ApplyFields, Goto
<1>3. /\ \A f \in {"server", "uuid", "password", "cipher"} : node'.str[f] = node.str[f]
      /\ node'.port = node.port
  <2>1. \A m \in 1..Len(pairs) : pairs[m] \in Pair
    BY <1>1, ElementOfSeq
  <2>2. \A f \in {"server", "uuid", "password", "cipher"} : f \in Fields \ QueryFields
    BY DEF Fields, QueryFields
  <2>3. ASSUME NEW p \in Pair, NEW n \in {ApplyKind(node, p), ApplySs(node, p), ApplyField(node, p)}
        PROVE  /\ \A f \in {"server", "uuid", "password", "cipher"} : n.str[f] = node.str[f]
               /\ n.port = node.port
    <3>1. CASE n = ApplyKind(node, p)
      BY <1>1, <3>1, KindApplied
    <3>2. CASE n = ApplySs(node, p)
      BY <1>1, <3>2, SsApplied
    <3>3. CASE n = ApplyField(node, p)
      BY <1>1, <2>2, <3>3, FieldApplied
    <3> QED
      BY <3>1, <3>2, <3>3
  <2> QED
    BY <1>2, <2>1, <2>3
<1> QED
  BY <1>1, <1>3, GrammarGoesOn DEF Beyond

LEMMA NamedGrammar ==
    ASSUME CoreInv, CoreInv', GrammarInv, Named
    PROVE  GrammarInv'
<1>1. /\ pc = "name" /\ link \in Links /\ text \in Text /\ node \in Node /\ Ready
      /\ link.scheme = "ss" \/ LinkLike
      /\ node.str["server"] # None /\ node.port \in DOMAIN Decimal
  <2>1. pc = "name"
    BY DEF Named
  <2> QED
    BY <2>1, LinkText DEF CoreInv, FormInv, NodeInv, TypeOK, Ready, Beyond
<1>2. CASE pc' = "null"
  BY <1>2, GrammarSilent
<1>3. ASSUME NEW t \in Text, Accept(Ciphered(Fill(node, "name", t))), t = NameOf(Trailer, node)
      PROVE  GrammarInv'
  <2> DEFINE m == Ciphered(Fill(node, "name", t))
  <2>1. link' = link /\ rest' = rest /\ creds' = creds /\ pc' = "returned" /\ rc' = 0 /\ node' = m
    BY <1>3 DEF Accept, local
  <2>2. /\ m.str["name"] = t /\ m.port = node.port
        /\ \A f \in Fields \ {"name"} : f # "cipher" \/ link.scheme # "vmess" => m.str[f] = node.str[f]
    BY <1>1, NameSet
  <2> HIDE DEF m
  <2>3. {"server", "uuid", "password", "cipher"} \subseteq Fields \ {"name"}
    BY DEF Fields
  <2>4. /\ node'.str["name"] = t /\ node'.port = node.port
        /\ \A f \in {"server", "uuid", "password"} : node'.str[f] = node.str[f]
        /\ link.scheme = "ss" => node'.str["cipher"] = node.str["cipher"]
    BY <2>1, <2>2, <2>3
  <2>5. NameOf(Trailer, node') = NameOf(Trailer, node)
    BY <2>4 DEF NameOf, Fallback
  <2>6. Ready' /\ rc' # -1 /\ pc' \notin {"authority", "creds", "blob"}
    BY <2>1 DEF Ready, Accepted
  <2>7. AddressInv'
    BY <1>1, <2>1, <2>4, <2>6, Rigid DEF GrammarInv, AddressInv
  <2>8. LinkInv'
    <3>1. Secret \in {"uuid", "password"}
      BY DEF Secret
    <3>2. LinkLike => /\ InFront /\ Decodes(User) /\ rest = Middle
                      /\ node.str[Secret] = xstrdup(url_decode(User))
      BY <1>1 DEF GrammarInv, LinkInv
    <3> QED
      BY <1>3, <2>1, <2>4, <2>5, <2>6, <3>1, <3>2, Rigid DEF LinkInv
  <2>9. SsInv'
    BY <1>1, <2>1, <2>4, <2>6, RigidParts DEF GrammarInv, SsInv
  <2> QED
    BY <2>6, <2>7, <2>8, <2>9 DEF GrammarInv, RefusedInv
<1>4. Fallback(node) \in Text
  BY <1>1, FallbackType
<1>5. /\ Trailer = << >> <=> Frag(text) > Len(text)
      /\ Frag(text) <= Len(text) => Tail(Trailer) = Fragment /\ (Decodes(Trailer) <=> Decodes(Fragment))
      /\ Frag(text) \in Nat /\ Len(text) \in Nat /\ Frag(text) <= Len(text) + 1
  BY <1>1, TrailerIs, Landmarks, InText
<1>6. xstrdup(url_decode(Fragment)) \in Text /\ Fragment \in Text
  <2>1. Frag(text) + 1 \in Nat \ {0} /\ Len(text) \in Int /\ Len(text) <= Len(text)
    BY <1>5
  <2>2. Fragment \in Text
    BY <1>1, <2>1, Cut DEF Fragment
  <2> QED
    BY <2>2, Decoding
<1>7. Frag(text) > Len(text) \/ ~Decodes(Fragment) => NameOf(Trailer, node) = Fallback(node)
  BY <1>5 DEF NameOf
<1>8. Fragment # << >> => Frag(text) <= Len(text)
  <2>1. CASE Frag(text) > Len(text)
    <3>1. Frag(text) + 1 \in Int /\ Len(text) \in Int /\ Len(text) < Frag(text) + 1
      BY <1>5, <2>1
    <3> QED
      BY <3>1, SubSeqEmpty DEF Fragment
  <2> QED
    BY <1>5, <2>1
<1>9. Fragment # << >> /\ Decodes(Fragment) => NameOf(Trailer, node) = xstrdup(url_decode(Fragment))
  <2> HAVE Fragment # << >> /\ Decodes(Fragment)
  <2>1. Frag(text) <= Len(text) /\ ~(Frag(text) > Len(text))
    BY <1>5, <1>8
  <2>2. Trailer # << >> /\ Decodes(Trailer) /\ Tail(Trailer) = Fragment
    BY <1>5, <2>1
  <2> QED
    BY <2>2 DEF NameOf
<1> QED
  BY <1>2, <1>3, <1>4, <1>6, <1>7, <1>9 DEF Named, NullCopy

LEMMA JsonGrammar == ASSUME CoreInv, CoreInv', ParseJson PROVE GrammarInv'
<1>1. pc = "json" /\ link.scheme = "vmess" /\ ~LinkLike
  BY DEF ParseJson, CoreInv, FormInv
<1>2. CASE Fail
  BY <1>1, <1>2, GrammarFails
<1>3. CASE pc' = "null"
  BY <1>3, GrammarSilent
<1>4. CASE link' = link /\ rc' = 0 /\ pc' = "returned"
  BY <1>1, <1>4, Rigid DEF GrammarInv, AddressInv, LinkInv, RefusedInv, SsInv
<1> QED
  BY <1>2, <1>3, <1>4 DEF ParseJson, NullCopy, Accept

LEMMA GrammarStep == CoreInv /\ CoreInv' /\ GrammarInv /\ [Next]_vars => GrammarInv'
<1> SUFFICES ASSUME CoreInv, CoreInv', GrammarInv, [Next]_vars PROVE GrammarInv'
  OBVIOUS
<1>1. CASE UNCHANGED vars
  <2>1. UNCHANGED <<pc, link, rest, creds, node, starved, rc>>
    BY <1>1 DEF vars, local
  <2>2. AddressInv' /\ RefusedInv'
    BY <2>1, Rigid, RigidParts DEF GrammarInv, AddressInv, RefusedInv, Ready, Accepted, Beyond
  <2>3. LinkInv'
    BY <2>1, Rigid DEF GrammarInv, LinkInv, Ready, Accepted, Beyond
  <2>4. SsInv'
    BY <2>1, RigidParts DEF GrammarInv, SsInv, Ready, Accepted, Beyond
  <2> QED
    BY <2>2, <2>3, <2>4 DEF GrammarInv
<1> QED
  BY <1>1, EntryGrammar, UserGrammar, CredsGrammar, AuthorityGrammar, QueryGrammar, ApplyGrammar,
     NamedGrammar, JsonGrammar DEF Next, Done

\* What the parser has taken are the parts that the grammar tells apart.
LEMMA GrammarShown == CoreInv /\ GrammarInv => Grammar
<1> SUFFICES ASSUME CoreInv, GrammarInv, pc = "returned" PROVE Grammar
  BY DEF Grammar, LinkGrammar, SsGrammar
<1>1. link \in Links /\ text \in Text /\ rest \in Text /\ rc \in {-1, 0, 1} /\ rc # 1
  BY LinkText DEF CoreInv, TypeOK, FormInv
<1>2. ASSUME Accepted, ~(link.scheme = "vmess" /\ ~LinkLike)
      PROVE  Addressed(rest)
  <2>1. /\ HasHostPort(rest)
        /\ node.str["server"] = xstrdup(Host(rest)) /\ node.port = PortNumber(rest)
    BY <1>2 DEF GrammarInv, AddressInv, Ready
  <2>2. Host(rest) \in Inside(rest) /\ IsAuthority(rest, Host(rest), PortNumber(rest))
    BY <1>1, <2>1, HostPort
  <2> QED
    BY <2>1, <2>2 DEF Addressed
<1>3. LinkGrammar
  <2>1. ASSUME LinkLike, rc = 0
        PROVE  \E p \in Parts(text) :
                 /\ node.str[Secret] = xstrdup(url_decode(p.user)) /\ Decodes(p.user)
                 /\ Addressed(p.auth)
                 /\ node.str["name"] = NameOf(p.frag, node)
    <3>1. Accepted /\ Ready
      BY <2>1 DEF Accepted, Ready
    <3>2. /\ At(text) < Limit(text) /\ Decodes(User)
          /\ node.str[Secret] = xstrdup(url_decode(User)) /\ rest = Middle
          /\ node.str["name"] = NameOf(Trailer, node)
      BY <2>1, <3>1 DEF GrammarInv, LinkInv, InFront
    <3>3. PICK p \in Parts(text) : p.user = User /\ p.auth = Middle /\ p.frag = Trailer
      BY <1>1, <3>2, PartsFound DEF User, Middle, Trailer
    <3>4. Addressed(rest)
      BY <1>2, <2>1, <3>1
    <3> QED
      BY <3>2, <3>3, <3>4
  <2>2. ASSUME LinkLike, rc = -1, Sound
        PROVE  starved
    BY <2>2 DEF GrammarInv, RefusedInv
  <2> QED
    BY <1>1, <2>1, <2>2 DEF LinkGrammar, Sound
<1>4. SsGrammar
  <2> SUFFICES ASSUME link.scheme = "ss", rc = 0
               PROVE  \E a \in DOMAIN Outer :
                        LET user == SubSeq(Outer, 1, a - 1) IN
                        /\ Outer[a] = "@" /\ Addressed(SubSeq(Outer, a + 1, Len(Outer)))
                        /\ \E owner \in {user, Decoded(StdBlobs, user)} \ {None} :
                             LET colon == First(owner, ":") IN
                             /\ colon \in DOMAIN owner
                             /\ node.str["cipher"]   = xstrdup(SubSeq(owner, 1, colon - 1))
                             /\ node.str["password"] = xstrdup(SubSeq(owner, colon + 1, Len(owner)))
    BY DEF SsGrammar, Outer
  <2>1. Accepted /\ Ready
    BY DEF Accepted, Ready
  <2>2. /\ Splits(Outer, creds, rest)
        /\ node.str["cipher"] = creds.method /\ node.str["password"] = creds.password
    BY <2>1 DEF GrammarInv, SsInv
  <2>3. Addressed(rest)
    BY <1>2, <2>1
  <2> QED
    BY <2>2, <2>3 DEF Splits
<1> QED
  BY <1>3, <1>4 DEF Grammar

\* Whatever the links: vless, trojan and vmess links are accepted exactly when
\* they have the parts of the form, ss links only when they have them behind
\* their encoding, and the node holds these parts (parse_vless_like, parse_ss,
\* parse_host_port, set_name_from_fragment).
THEOREM ShareLinkGrammar == Spec => []Grammar
<1>1. Init => GrammarInv
  BY DEF Init, GrammarInv, AddressInv, LinkInv, RefusedInv, SsInv, Ready, Accepted, Beyond
<1>2. CoreInv /\ CoreInv' /\ GrammarInv /\ [Next]_vars => GrammarInv'
  BY GrammarStep
<1>3. CoreInv /\ GrammarInv => Grammar
  BY GrammarShown
<1> QED
  BY <1>1, <1>2, <1>3, ShareLinkCore, PTL DEF Spec

-----------------------------------------------------------------------------
(* What pairs and segments mean *)

LEMMA GreatestIs ==
    ASSUME NEW S, NEW n \in Nat, S \subseteq 0..n, NEW m \in S, \A y \in S : y <= m
    PROVE  Max(S) = m
<1>1. Max(S) \in S /\ \A y \in S : y <= Max(S)
  BY GreatestNat
<1>2. \A y \in S : y \in Int
  OBVIOUS
<1>3. Max(S) \in Int /\ Max(S) <= m /\ m <= Max(S)
  BY <1>1, <1>2
<1> QED
  BY <1>2, <1>3

LEMMA LastStep ==
    ASSUME NEW ps \in Seq(Pair), NEW n \in 1..Len(ps), NEW k
    PROVE  LastOf(ps, k, n) = IF ps[n].key = <<k>> THEN ps[n].value ELSE LastOf(ps, k, n - 1)
<1>1. n \in Nat \ {0} /\ \A m : m \in 1..n <=> m \in 1..(n - 1) \/ m = n
  BY LenProperties
<1>2. CASE ps[n].key = <<k>>
  <2>1. n \in Having(ps, k, n) /\ Having(ps, k, n) \subseteq 0..n /\ \A y \in Having(ps, k, n) : y <= n
    BY <1>1, <1>2 DEF Having
  <2>2. Max(Having(ps, k, n)) = n
    BY <1>1, <2>1, GreatestIs
  <2> QED
    BY <1>2, <2>1, <2>2 DEF LastOf
<1>3. CASE ps[n].key # <<k>>
  <2>1. Having(ps, k, n) = Having(ps, k, n - 1)
    BY <1>1, <1>3 DEF Having
  <2> QED
    BY <1>3, <2>1 DEF LastOf
<1> QED
  BY <1>2, <1>3

LEMMA NoPairs ==
    ASSUME NEW ps
    PROVE  Taken(ps, 0) = Blank
<1>1. \A k : Having(ps, k, 0) = {}
  BY DEF Having
<1> QED
  BY <1>1 DEF Taken, LastOf, Blank

\* One pair more.
LEMMA PairMore ==
    ASSUME NEW ps \in Seq(Pair), NEW p \in Pair, NEW k
    PROVE  LastOf(Append(ps, p), k, Len(ps) + 1) = IF p.key = <<k>> THEN p.value ELSE LastOf(ps, k, Len(ps))
<1> DEFINE n == Len(ps)
           more == Append(ps, p)
<1>1. /\ more \in Seq(Pair) /\ Len(more) = n + 1 /\ n \in Nat /\ more[n + 1] = p
      /\ \A m \in 1..n : more[m] = ps[m]
  BY AppendProperties, LenProperties
<1> HIDE DEF n, more
<1>2. n + 1 \in 1..Len(more) /\ (n + 1) - 1 = n
  BY <1>1
<1>3. LastOf(more, k, n + 1) = IF p.key = <<k>> THEN p.value ELSE LastOf(more, k, n)
  BY <1>1, <1>2, LastStep
<1>4. Having(more, k, n) = Having(ps, k, n)
  BY <1>1 DEF Having
<1>5. LastOf(more, k, n) = LastOf(ps, k, n)
  <2>1. CASE Having(ps, k, n) = {}
    BY <1>4, <2>1 DEF LastOf
  <2>2. CASE Having(ps, k, n) # {}
    <3>1. Having(ps, k, n) \subseteq 0..n /\ Having(ps, k, n) \subseteq 1..n
      BY <1>1 DEF Having
    <3>2. Max(Having(ps, k, n)) \in 1..n
      BY <1>1, <2>2, <3>1, GreatestNat
    <3> QED
      BY <1>1, <1>4, <2>2, <3>2 DEF LastOf
  <2> QED
    BY <2>1, <2>2
<1> QED
  BY <1>3, <1>5 DEF n, more

\* The parser's segment is the one that begins where it stands.
LEMMA SegmentText ==
    ASSUME q \in Text, i \in Nat \ {0}, i <= Len(q), Regular
    PROVE  /\ Segment(q, i) \in Text /\ Len(Segment(q, i)) = SegEnd - i
           /\ \A j \in 1..(SegEnd - i) : Segment(q, i)[j] = q[i + j - 1]
           /\ SegEnd \in i..(Len(q) + 1)
           /\ \A k \in i..Len(q) : k < SegEnd => q[k] # "&"
           /\ SegEnd <= Len(q) => q[SegEnd] = "&"
<1> DEFINE own == SubSeq(q, i, Len(q))
           f == First(own, "&")
           e == i - 1 + f
<1>1. Len(q) \in Nat /\ DOMAIN q = 1..Len(q)
  BY InText
<1>2. /\ own \in Text /\ Len(own) = Len(q) - i + 1
      /\ \A k \in 1..(Len(q) - i + 1) : own[k] = q[i + k - 1]
  BY <1>1, Cut
<1>3. /\ f \in 1..(Len(own) + 1) /\ (f <= Len(own) => own[f] = "&")
      /\ \A k \in 1..Len(own) : own[k] = "&" => f <= k
  BY <1>2, FirstIs
<1>4. Segment(q, i) = SubSeq(own, 1, f - 1)
  BY DEF Segment
<1>5. e \in i..(Len(q) + 1) /\ (e <= Len(q) => q[e] = "&")
  BY <1>1, <1>2, <1>3
<1>6. e # 1 \/ e > Len(q)
  <2> SUFFICES ASSUME e = 1, e <= Len(q) PROVE FALSE
    BY <1>1, <1>5
  <2>1. i = 1 /\ q[1] = "&" /\ Len(q) # 0
    BY <1>1, <1>5
  <2> QED
    BY <2>1, InText DEF Regular
<1>7. SegEnd = e
  <2>1. Amp = IF e \in 2..Len(q) THEN e ELSE 0
    BY DEF Amp, Next1
  <2>2. SegEnd = IF Amp # 0 THEN Amp ELSE Len(q) + 1
    BY DEF SegEnd
  <2>3. e \in 2..Len(q) \/ e = Len(q) + 1
    BY <1>1, <1>5, <1>6
  <2> HIDE DEF e
  <2> QED
    BY <1>1, <2>1, <2>2, <2>3
<1> HIDE DEF own, f
<1>8. f - 1 = SegEnd - i /\ f - 1 \in Nat /\ f - 1 <= Len(own)
  BY <1>2, <1>3, <1>7
<1>9. /\ Segment(q, i) \in Text /\ Len(Segment(q, i)) = SegEnd - i
      /\ \A j \in 1..(SegEnd - i) : Segment(q, i)[j] = own[j]
  <2> DEFINE n == f - 1
  <2> HIDE DEF n
  <2>1. n \in Nat /\ n <= Len(own) /\ n = SegEnd - i
    BY <1>8 DEF n
  <2>2. /\ SubSeq(own, 1, n) \in Text /\ Len(SubSeq(own, 1, n)) = IF 1 <= n THEN n - 1 + 1 ELSE 0
        /\ \A j \in 1..(n - 1 + 1) : SubSeq(own, 1, n)[j] = own[1 + j - 1]
    BY <1>2, <2>1, Cut
  <2>3. Len(SubSeq(own, 1, n)) = n /\ \A j \in 1..n : SubSeq(own, 1, n)[j] = own[j]
    BY <2>1, <2>2
  <2>4. Segment(q, i) = SubSeq(own, 1, n)
    BY <1>4 DEF n
  <2> QED
    BY <2>1, <2>2, <2>3, <2>4
<1>10. ASSUME NEW j \in 1..(SegEnd - i)
       PROVE  Segment(q, i)[j] = q[i + j - 1]
  <2>1. j \in 1..(Len(q) - i + 1)
    BY <1>1, <1>2, <1>3, <1>7
  <2> QED
    BY <1>2, <1>9, <2>1
<1>11. ASSUME NEW k \in i..Len(q), k < SegEnd
       PROVE  q[k] # "&"
  <2>1. k - i + 1 \in 1..(Len(q) - i + 1) /\ i + (k - i + 1) - 1 = k /\ k - i + 1 < f
    BY <1>1, <1>3, <1>7, <1>11
  <2>2. own[k - i + 1] = q[k]
    BY <1>2, <2>1
  <2>3. own[k - i + 1] # "&"
    <3>1. k - i + 1 \in 1..Len(own) /\ ~(f <= k - i + 1)
      BY <1>2, <1>3, <2>1
    <3> QED
      BY <1>3, <3>1
  <2> QED
    BY <2>2, <2>3
<1>12. SegEnd \in i..(Len(q) + 1) /\ (SegEnd <= Len(q) => q[SegEnd] = "&")
  BY <1>5, <1>7
<1> QED
  BY <1>9, <1>10, <1>11, <1>12

\* The segments in front of the next one: those in front of this, and this.
LEMMA SegmentMore ==
    ASSUME q \in Text, i \in Nat \ {0}, i <= Len(q), Regular,
           i = 1 \/ (i - 1 \in DOMAIN q /\ q[i - 1] = "&"), NEW k
    PROVE  ValueTo(q, k, SegEnd + 1) =
             IF "=" \in ToSet(Segment(q, i)) /\ KeyOf(Segment(q, i)) = <<k>>
             THEN ValueOf(Segment(q, i)) ELSE ValueTo(q, k, i)
<1> DEFINE S == Setting(q, k)
<1>1. Len(q) \in Nat /\ DOMAIN q = 1..Len(q)
  BY InText
<1>2. /\ SegEnd \in i..(Len(q) + 1)
      /\ \A j \in i..Len(q) : j < SegEnd => q[j] # "&"
  BY SegmentText
<1>3. S \subseteq 1..Len(q) /\ \A a \in S : a = 1 \/ q[a - 1] = "&"
  BY <1>1 DEF Setting
<1>4. i \in S <=> "=" \in ToSet(Segment(q, i)) /\ KeyOf(Segment(q, i)) = <<k>>
  BY <1>1 DEF Setting
<1> HIDE DEF S
<1>5. \A a \in S : a < SegEnd + 1 <=> a < i \/ a = i
  <2> TAKE a \in S
  <2>1. a \in 1..Len(q) /\ SegEnd \in Int
    BY <1>2, <1>3
  <2>2. ASSUME a > i, a < SegEnd + 1
        PROVE  FALSE
    <3>1. q[a - 1] = "&"
      BY <1>3, <2>1, <2>2
    <3>2. a - 1 \in i..Len(q) /\ a - 1 < SegEnd
      BY <2>1, <2>2
    <3> QED
      BY <1>2, <3>1, <3>2
  <2>3. a <= i => a < SegEnd + 1
    BY <1>2, <2>1
  <2> QED
    BY <2>1, <2>2, <2>3
<1>6. Before(q, k, SegEnd + 1) = {a \in S : a < SegEnd + 1} /\ Before(q, k, i) = {a \in S : a < i}
  BY DEF Before, S
<1>7. CASE i \in S
  <2> DEFINE B == {a \in S : a < SegEnd + 1}
  <2>1. i \in B /\ B \subseteq 0..Len(q) /\ \A a \in B : a <= i
    <3>1. \A a \in S : a \in 0..Len(q)
      BY <1>1, <1>3
    <3>2. \A a \in B : a \in S /\ (a < i \/ a = i)
      BY <1>5
    <3>3. i \in B
      BY <1>5, <1>7
    <3>4. \A a \in B : a <= i
      BY <3>1, <3>2
    <3> QED
      BY <3>1, <3>2, <3>3, <3>4
  <2> HIDE DEF B
  <2>2. Max(B) = i
    BY <1>1, <2>1, GreatestIs
  <2>3. ValueTo(q, k, SegEnd + 1) = ValueOf(Segment(q, i))
    BY <1>6, <2>1, <2>2 DEF ValueTo, B
  <2> QED
    BY <1>4, <1>7, <2>3
<1>8. CASE i \notin S
  <2>1. Before(q, k, SegEnd + 1) = Before(q, k, i)
    BY <1>5, <1>6, <1>8
  <2>2. ValueTo(q, k, SegEnd + 1) = ValueTo(q, k, i)
    BY <2>1 DEF ValueTo
  <2> QED
    BY <1>4, <1>8, <2>2
<1> QED
  BY <1>7, <1>8

\* Behind the query nothing is left to be read, in front of it nothing is read.
LEMMA ReadAll ==
    ASSUME q \in Text, NEW b \in Int, b > Len(q)
    PROVE  Read(q, b) = Meant
<1>1. \A k : Setting(q, k) \subseteq 1..Len(q)
  BY InText DEF Setting
<1>2. \A k : Before(q, k, b) = Setting(q, k)
  BY <1>1, InText DEF Before
<1>3. \A k : ValueTo(q, k, b) = LastValue(q, k)
  BY <1>2 DEF ValueTo, LastValue
<1> QED
  BY <1>3 DEF Read, Meant

LEMMA ReadNone ==
    ASSUME q \in Text
    PROVE  Read(q, 1) = Blank /\ (q = << >> => Meant = Blank)
<1>1. \A k : Setting(q, k) \subseteq 1..Len(q)
  BY InText DEF Setting
<1>2. \A k : Before(q, k, 1) = {}
  BY <1>1, InText DEF Before
<1>3. Read(q, 1) = Blank
  BY <1>2 DEF Read, ValueTo, Blank
<1>4. q = << >> => Meant = Blank
  <2> HAVE q = << >>
  <2>1. Len(q) = 0
    BY InText
  <2>2. \A k : Setting(q, k) = {}
    BY <1>1, <2>1
  <2> QED
    BY <2>2 DEF LastValue, Meant, Blank
<1> QED
  BY <1>3, <1>4

\* A pair that is collected is the segment's key and value; a segment that is
\* skipped sets nothing.
LEMMA PairMeans ==
    ASSUME q \in Text, i \in Nat \ {0}, i <= Len(q), Regular, IsPair
    PROVE  /\ "=" \in ToSet(Segment(q, i))
           /\ KeyOf(Segment(q, i)) = xstrdup(url_decode(Key))
           /\ ValueOf(Segment(q, i)) = xstrdup(url_decode(Value))
<1> DEFINE s == Segment(q, i)
           e == Eq - i + 1
<1>1. Len(q) \in Nat
  BY InText
<1>2. /\ s \in Text /\ Len(s) = SegEnd - i /\ SegEnd \in i..(Len(q) + 1)
      /\ \A j \in 1..(SegEnd - i) : s[j] = q[i + j - 1]
  BY SegmentText
<1>3. /\ Eq \in 2..Len(q) /\ Eq >= i /\ Eq < SegEnd /\ q[Eq] = "="
      /\ Key \in Text /\ Len(Key) = Eq - i
      /\ Value \in Text /\ Len(Value) = SegEnd - Eq - 1
      /\ \A k \in 1..(Eq - i) : Key[k] = q[i + k - 1]
      /\ \A k \in 1..(SegEnd - Eq - 1) : Value[k] = q[Eq + k]
  BY SegmentIs
<1>4. \A k \in i..Len(q) : k < Eq => q[k] # "="
  BY NextIs DEF Eq
<1> HIDE DEF s
<1>5. e \in 1..Len(s) /\ s[e] = "="
  <2>1. e \in 1..(SegEnd - i) /\ i + e - 1 = Eq
    BY <1>2, <1>3
  <2> QED
    BY <1>2, <1>3, <2>1
<1>6. \A j \in 1..Len(s) : j < e => s[j] # "="
  <2> TAKE j \in 1..Len(s)
  <2> HAVE j < e
  <2>1. j \in 1..(SegEnd - i) /\ i + j - 1 \in i..Len(q) /\ i + j - 1 < Eq
    BY <1>1, <1>2, <1>3
  <2> QED
    BY <1>2, <1>4, <2>1
<1>7. First(s, "=") = e
  <2>1. e \in 1..(Len(s) + 1)
    BY <1>2, <1>3
  <2> QED
    BY <1>2, <1>5, <1>6, <2>1, FirstFound
<1>8. "=" \in ToSet(s)
  BY <1>2, <1>5, HasToken
<1>9. SubSeq(s, 1, e - 1) = Key
  <2> DEFINE n == e - 1
  <2>1. n \in Nat /\ n <= Len(s) /\ n = Eq - i
    BY <1>2, <1>3
  <2> HIDE DEF n
  <2>2. /\ SubSeq(s, 1, n) \in Text /\ Len(SubSeq(s, 1, n)) = IF 1 <= n THEN n - 1 + 1 ELSE 0
        /\ \A k \in 1..(n - 1 + 1) : SubSeq(s, 1, n)[k] = s[1 + k - 1]
    BY <1>2, <2>1, Cut
  <2>3. Len(SubSeq(s, 1, n)) = Len(Key)
    BY <1>3, <2>1, <2>2
  <2>4. ASSUME NEW k \in 1..Len(SubSeq(s, 1, n))
        PROVE  SubSeq(s, 1, n)[k] = Key[k]
    <3>1. k \in 1..(n - 1 + 1) /\ 1 + k - 1 = k /\ k \in 1..(Eq - i) /\ k \in 1..(SegEnd - i)
      BY <1>2, <1>3, <2>1, <2>2
    <3> QED
      BY <1>2, <1>3, <2>2, <3>1
  <2>5. SubSeq(s, 1, n) = Key
    BY <1>3, <2>2, <2>3, <2>4, SameText
  <2> QED
    BY <2>5 DEF n
<1>10. SubSeq(s, e + 1, Len(s)) = Value
  <2> DEFINE m == e + 1
             n == Len(s)
  <2>1. m \in Nat \ {0} /\ n \in Int /\ n <= Len(s) /\ m = Eq - i + 2 /\ n = SegEnd - i
    BY <1>2, <1>3
  <2> HIDE DEF m, n
  <2>2. /\ SubSeq(s, m, n) \in Text /\ Len(SubSeq(s, m, n)) = IF m <= n THEN n - m + 1 ELSE 0
        /\ \A k \in 1..(n - m + 1) : SubSeq(s, m, n)[k] = s[m + k - 1]
    BY <1>2, <2>1, Cut, SMTT(30)
  <2>3. Len(SubSeq(s, m, n)) = Len(Value)
    BY <1>2, <1>3, <2>1, <2>2
  <2>4. ASSUME NEW k \in 1..Len(SubSeq(s, m, n))
        PROVE  SubSeq(s, m, n)[k] = Value[k]
    <3>1. /\ k \in 1..(n - m + 1) /\ k \in 1..(SegEnd - Eq - 1)
          /\ m + k - 1 \in 1..(SegEnd - i) /\ i + (m + k - 1) - 1 = Eq + k
      BY <1>2, <1>3, <2>1, <2>2
    <3>2. s[m + k - 1] = q[Eq + k]
      BY <1>2, <3>1
    <3> QED
      BY <1>3, <2>2, <3>1, <3>2
  <2>5. SubSeq(s, m, n) = Value
    BY <1>3, <2>2, <2>3, <2>4, SameText
  <2> QED
    BY <2>5 DEF m, n
<1> HIDE DEF e
<1>11. KeyOf(s) = xstrdup(url_decode(Key)) /\ ValueOf(s) = xstrdup(url_decode(Value))
  BY <1>7, <1>9, <1>10 DEF KeyOf, ValueOf
<1> QED
  BY <1>8, <1>11 DEF s

LEMMA SkippedMeans ==
    ASSUME q \in Text, i \in Nat \ {0}, i <= Len(q), Regular, ~IsPair, NEW k
    PROVE  ~("=" \in ToSet(Segment(q, i)) /\ KeyOf(Segment(q, i)) = <<k>>)
<1> DEFINE s == Segment(q, i)
<1> SUFFICES ASSUME "=" \in ToSet(s)
             PROVE  KeyOf(s) # <<k>>
  OBVIOUS
<1>1. Len(q) \in Nat
  BY InText
<1>2. /\ s \in Text /\ Len(s) = SegEnd - i /\ SegEnd \in i..(Len(q) + 1)
      /\ \A j \in 1..(SegEnd - i) : s[j] = q[i + j - 1]
  BY SegmentText
<1>3. /\ Eq = 0 \/ (Eq \in 2..Len(q) /\ Eq >= i /\ q[Eq] = "=")
      /\ \A j \in i..Len(q) : j < Eq => q[j] # "="
      /\ Eq = 0 => (i = 1 /\ q[1] = "=") \/ \A j \in i..Len(q) : q[j] # "="
  BY NextIs DEF Eq
<1> HIDE DEF s
<1>4. PICK j \in 1..Len(s) : s[j] = "="
  BY <1>2, HasToken
<1>5. j \in 1..(SegEnd - i) /\ i + j - 1 \in i..Len(q) /\ i + j - 1 < SegEnd
  BY <1>1, <1>2
<1>6. q[i + j - 1] = "="
  BY <1>2, <1>4, <1>5
<1>7. i = 1 /\ q[1] = "="
  <2>1. Eq = 0 \/ ~(Eq < SegEnd)
    BY DEF IsPair
  <2>2. CASE Eq = 0
    BY <1>3, <1>5, <1>6, <2>2
  <2>3. CASE Eq # 0 /\ ~(Eq < SegEnd)
    <3>1. i + j - 1 < Eq
      BY <1>2, <1>3, <1>5, <2>3
    <3> QED
      BY <1>3, <1>5, <1>6, <3>1
  <2> QED
    BY <2>1, <2>2, <2>3
<1>8. s[1] = "=" /\ 1 \in 1..Len(s)
  <2>1. 1 \in 1..(SegEnd - i) /\ i + 1 - 1 = 1 /\ 1 \in 1..Len(s)
    BY <1>2, <1>5, <1>7
  <2> QED
    BY <1>2, <1>7, <2>1
<1>9. First(s, "=") = 1
  BY <1>2, <1>8, FirstIs
<1>10. SubSeq(s, 1, First(s, "=") - 1) = << >>
  BY <1>9, SubSeqEmpty
<1>11. << >> \in Text /\ Len(<< >>) = 0
  BY EmptySeq DEF Text
<1>12. url_decode(<< >>) \in Text /\ Len(url_decode(<< >>)) = 0
  BY <1>11, Decoding
<1>13. xstrdup(url_decode(<< >>)) \in Text /\ Len(xstrdup(url_decode(<< >>))) <= 0
  BY <1>12, Decoding
<1>14. Len(KeyOf(s)) <= 0
  BY <1>10, <1>13 DEF KeyOf
<1>15. Len(<<k>>) = 1
  OBVIOUS
<1> QED
  BY <1>14, <1>15

\* A pair goes to the node: its key's value is the pair's, all others stay.
LEMMA KindStep ==
    ASSUME NEW n \in Node, NEW ps \in Seq(Pair), NEW m \in 1..Len(ps), NEW default,
           KindsAre(n, Taken(ps, m - 1), default), FieldsAre(n, Blank)
    PROVE  /\ KindsAre(ApplyKind(n, ps[m]), Taken(ps, m), default)
           /\ FieldsAre(ApplyKind(n, ps[m]), Blank)
<1> DEFINE p == ps[m]
           a == ApplyKind(n, p)
<1>1. p \in Pair /\ p.value # None
  <2>1. p \in Pair
    BY ElementOfSeq
  <2> HIDE DEF p
  <2>2. p.value \in Text
    BY <2>1 DEF Pair
  <2> QED
    BY <2>1, <2>2, ShareLinkAssumption
<1>2. \A k \in Keys : Taken(ps, m)[k] = IF p.key = <<k>> THEN p.value ELSE Taken(ps, m - 1)[k]
  BY LastStep DEF Taken
<1> HIDE DEF p
<1>3. /\ a.str = n.str
      /\ a.transport = IF p.key = <<"type">> THEN TransportOf(p.value) ELSE n.transport
      /\ a.tls = IF p.key = <<"security">> THEN TlsOf(p.value) ELSE n.tls
  BY <1>1, KindApplied
<1> HIDE DEF a
<1>4. {"type", "security"} \subseteq Keys
  BY DEF Keys
<1>5. KindsAre(a, Taken(ps, m), default)
  BY <1>1, <1>2, <1>3, <1>4 DEF KindsAre, Otherwise
<1>6. FieldsAre(a, Blank)
  <2>1. \A k \in DOMAIN Direct : a.str[Direct[k]] = Blank[k]
    BY <1>3 DEF FieldsAre
  <2>2. DOMAIN Ws = {"path", "host"} /\ DOMAIN Ws \subseteq Keys
    BY DEF Ws, Keys
  <2>3. ASSUME NEW k \in DOMAIN Ws, NEW f \in {Ws[k], Xhttp[k]}
        PROVE  a.str[f] = None
    <3>1. n.str[Place(n, k)] = None /\ \A g \in {Ws[k], Xhttp[k]} \ {Place(n, k)} : n.str[g] = None
      BY <2>2, <2>3 DEF FieldsAre, Blank
    <3> QED
      BY <1>3, <2>3, <3>1
  <2>4. \A k \in DOMAIN Ws : Place(a, k) \in {Ws[k], Xhttp[k]} /\ Blank[k] = None
    BY <2>2, PlaceType DEF Blank
  <2> QED
    BY <2>1, <2>3, <2>4 DEF FieldsAre
<1> QED
  BY <1>5, <1>6 DEF a, p

LEMMA FieldStep ==
    ASSUME NEW n \in Node, NEW ps \in Seq(Pair), NEW m \in 1..Len(ps), FieldsAre(n, Taken(ps, m - 1))
    PROVE  FieldsAre(ApplyField(n, ps[m]), Taken(ps, m))
<1> DEFINE p == ps[m]
           a == ApplyField(n, p)
           old == Taken(ps, m - 1)
           new == Taken(ps, m)
<1> SUFFICES FieldsAre(a, new)
  OBVIOUS
<1>1. p \in Pair /\ p.value \in MaybeText
  <2>1. p \in Pair
    BY ElementOfSeq
  <2> HIDE DEF p
  <2>2. p.value \in Text
    BY <2>1 DEF Pair
  <2> QED
    BY <2>1, <2>2 DEF MaybeText
<1>2. \A k \in Keys : new[k] = IF p.key = <<k>> THEN p.value ELSE old[k]
  BY LastStep DEF Taken
<1>3. /\ \A k \in DOMAIN Direct : n.str[Direct[k]] = old[k]
      /\ \A k \in DOMAIN Ws :
           /\ n.str[Place(n, k)] = old[k]
           /\ \A f \in {Ws[k], Xhttp[k]} \ {Place(n, k)} : n.str[f] = None
  BY DEF FieldsAre
<1> HIDE DEF p, old, new
<1>4. DOMAIN Ws = {"path", "host"} /\ DOMAIN Direct \subseteq Keys /\ {"path", "host"} \subseteq Keys
      /\ QueryFields \subseteq Fields
  BY DEF Ws, Keys, QueryFields, Fields
<1>5. a.transport = n.transport
  BY <1>1, FieldApplied
<1>6. \A k \in DOMAIN Ws : Place(a, k) = Place(n, k)
  BY <1>5 DEF Place
<1>7. CASE \E k \in DOMAIN Ws : p.key = <<k>>
  <2>1. PICK k \in DOMAIN Ws : p.key = <<k>>
    BY <1>7
  <2>2. p.key[1] = k /\ k \in {"path", "host"}
    BY <1>4, <2>1
  <2>3. Place(n, k) \in QueryFields /\ Place(n, k) \in {Ws[k], Xhttp[k]}
    BY <2>2, PlaceType
  <2>4. a = Fill(n, Place(n, k), p.value)
    BY <2>1, <2>2 DEF ApplyField, KeyIs
  <2>5. a.str[Place(n, k)] = p.value /\ \A f \in Fields \ {Place(n, k)} : a.str[f] = n.str[f]
    BY <1>1, <1>4, <2>3, <2>4, Filled
  <2> HIDE DEF a
  <2>6. ASSUME NEW l \in DOMAIN Direct
        PROVE  a.str[Direct[l]] = new[l]
    <3>1. Direct[l] \in QueryFields /\ Direct[l] # Place(n, k) /\ l \notin {"path", "host"} /\ l \in Keys
      BY <1>4, <2>2, <2>3, DirectType
    <3>2. p.key # <<l>>
      BY <2>1, <2>2, <3>1
    <3> QED
      BY <1>2, <1>3, <1>4, <2>5, <3>1, <3>2
  <2>7. a.str[Place(n, k)] = new[k]
    BY <1>2, <1>4, <2>1, <2>2, <2>5
  <2>8. ASSUME NEW l \in DOMAIN Ws, l # k
        PROVE  /\ a.str[Place(n, l)] = new[l]
               /\ \A f \in {Ws[l], Xhttp[l]} : f \in Fields /\ f # Place(n, k)
    <3>1. p.key # <<l>> /\ l \in Keys
      BY <1>4, <2>1, <2>8
    <3>2. \A f \in {Ws[l], Xhttp[l]} : f \in Fields /\ f # Place(n, k)
      <4>1. \A f \in {Ws[l], Xhttp[l]} : f \notin {Ws[k], Xhttp[k]} /\ f \in QueryFields
        BY <1>4, <2>8 DEF Ws, Xhttp, QueryFields
      <4> QED
        BY <1>4, <2>3, <4>1
    <3>3. Place(n, l) \in {Ws[l], Xhttp[l]}
      BY <1>4, PlaceType
    <3> QED
      BY <1>2, <1>3, <2>5, <3>1, <3>2, <3>3
  <2>9. ASSUME NEW l \in DOMAIN Ws, NEW f \in {Ws[l], Xhttp[l]} \ {Place(n, l)}
        PROVE  a.str[f] = None
    <3>1. f \in Fields /\ f # Place(n, k)
      <4>1. CASE l = k
        BY <1>4, <2>9, <4>1, PlaceType
      <4>2. CASE l # k
        BY <2>8, <2>9, <4>2
      <4> QED
        BY <4>1, <4>2
    <3> QED
      BY <1>3, <2>5, <2>9, <3>1
  <2> QED
    BY <1>6, <2>6, <2>7, <2>8, <2>9 DEF FieldsAre
<1>8. CASE \E k \in DOMAIN Direct : p.key = <<k>>
  <2>1. PICK k \in DOMAIN Direct : p.key = <<k>>
    BY <1>8
  <2>2. p.key[1] = k /\ Direct[k] \in QueryFields /\ k \notin {"path", "host"}
    BY <2>1, DirectType
  <2>3. a = Fill(n, Direct[k], p.value)
    BY <2>1, <2>2 DEF ApplyField, KeyIs
  <2>4. a.str[Direct[k]] = p.value /\ \A f \in Fields \ {Direct[k]} : a.str[f] = n.str[f]
    BY <1>1, <1>4, <2>2, <2>3, Filled
  <2> HIDE DEF a
  <2>5. ASSUME NEW l \in DOMAIN Direct
        PROVE  a.str[Direct[l]] = new[l]
    <3>1. CASE l = k
      BY <1>2, <1>4, <2>1, <2>4, <3>1
    <3>2. CASE l # k
      <4>1. Direct[l] \in Fields \ {Direct[k]}
        BY <1>4, <2>1, <3>2, DirectType
      <4>2. p.key # <<l>> /\ l \in Keys
        BY <1>4, <2>1, <3>2
      <4> QED
        BY <1>2, <1>3, <2>4, <4>1, <4>2
    <3> QED
      BY <3>1, <3>2
  <2>6. ASSUME NEW l \in DOMAIN Ws
        PROVE  /\ new[l] = old[l] /\ Place(n, l) \in {Ws[l], Xhttp[l]}
               /\ \A f \in {Ws[l], Xhttp[l]} : a.str[f] = n.str[f]
    <3>1. p.key # <<l>> /\ l \in Keys /\ l \in {"path", "host"}
      BY <1>4, <2>1, <2>2
    <3>2. \A f \in {Ws[l], Xhttp[l]} : f \in Fields \ {Direct[k]}
      BY <1>4, <2>1, <3>1, DirectType, PlaceType
    <3>3. Place(n, l) \in {Ws[l], Xhttp[l]}
      BY <3>1, PlaceType
    <3> QED
      BY <1>2, <2>4, <3>1, <3>2, <3>3
  <2> QED
    BY <1>3, <1>6, <2>5, <2>6 DEF FieldsAre
<1>9. CASE ~(\E k \in DOMAIN Ws : p.key = <<k>>) /\ ~(\E k \in DOMAIN Direct : p.key = <<k>>)
  <2>1. a = n
    BY <1>4, <1>9 DEF ApplyField, KeyIs
  <2>2. \A k \in DOMAIN Ws \cup DOMAIN Direct : new[k] = old[k]
    BY <1>2, <1>4, <1>9
  <2> HIDE DEF a
  <2> QED
    BY <1>3, <2>1, <2>2 DEF FieldsAre
<1> HIDE DEF a
<1> QED
  BY <1>7, <1>8, <1>9

-----------------------------------------------------------------------------
(* What the query means: one lemma per outcome and per action *)

LEMMA RigidQuery ==
    ASSUME link' = link
    PROVE  Regular' = Regular /\ DefaultTls' = DefaultTls /\ Meant' = Meant
<1>1. q' = q
  BY Rigid
<1>2. Meant' = Meant
  BY <1>1 DEF Meant
<1> QED
  BY <1>1, <1>2 DEF Regular, DefaultTls

\* Two nodes whose query fields are the same mean the same.
LEMMA SameMeaning ==
    ASSUME NEW n, NEW m, NEW val, NEW default,
           m.transport = n.transport, m.tls = n.tls, \A f \in QueryFields : m.str[f] = n.str[f]
    PROVE  /\ KindsAre(n, val, default) => KindsAre(m, val, default)
           /\ FieldsAre(n, val) => FieldsAre(m, val)
<1>1. KindsAre(n, val, default) => KindsAre(m, val, default)
  BY DEF KindsAre
<1>2. ASSUME FieldsAre(n, val)
      PROVE  FieldsAre(m, val)
  <2>1. \A k \in DOMAIN Ws : k \in {"path", "host"}
    BY DEF Ws
  <2>2. ASSUME NEW k \in DOMAIN Ws
        PROVE  /\ Place(m, k) = Place(n, k) /\ Place(n, k) \in QueryFields
               /\ Ws[k] \in QueryFields /\ Xhttp[k] \in QueryFields
    <3>1. Place(m, k) = Place(n, k)
      BY DEF Place
    <3> QED
      BY <2>1, <3>1, PlaceType
  <2>3. \A k \in DOMAIN Direct : m.str[Direct[k]] = val[k]
    BY <1>2, DirectType DEF FieldsAre
  <2>4. ASSUME NEW k \in DOMAIN Ws
        PROVE  /\ m.str[Place(m, k)] = val[k]
               /\ \A f \in {Ws[k], Xhttp[k]} \ {Place(m, k)} : m.str[f] = None
    <3>1. n.str[Place(n, k)] = val[k] /\ \A f \in {Ws[k], Xhttp[k]} \ {Place(n, k)} : n.str[f] = None
      BY <1>2, <2>4 DEF FieldsAre
    <3> QED
      BY <2>2, <2>4, <3>1
  <2> QED
    BY <2>3, <2>4 DEF FieldsAre
<1> QED
  BY <1>1, <1>2

LEMMA QuerySilent ==
    ASSUME pc' \notin {"authority", "query", "kinds", "fields", "name"}, ~Accepted'
    PROVE  QueryInv'
  BY DEF QueryInv

LEMMA NoLinkNoQuery == ASSUME link' = link, ~LinkLike PROVE QueryInv'
  BY Rigid DEF QueryInv

\* The node that parse_vless_like begins with.
LEMMA UserMeaning == ASSUME CoreInv, CoreInv', UserInfo \/ UserMissing PROVE QueryInv'
<1>1. pc = "user" /\ LinkLike /\ TypeOK /\ node = EmptyNode /\ rc = 1
  <2>1. pc = "user"
    BY DEF UserInfo, UserMissing
  <2> QED
    BY <2>1 DEF CoreInv, FormInv, NodeInv
<1>2. CASE Fail \/ pc' \in {"null", "overrun"}
  <2>1. pc' \in {"returned", "null", "overrun"} /\ (pc' = "returned" => rc' = -1)
    BY <1>2 DEF Fail
  <2> QED
    BY <2>1, QuerySilent DEF Accepted
<1>3. CASE Goto("authority", Fill(Typed, Secret, xstrdup(url_decode(User))))
  <2> DEFINE n == Fill(Typed, Secret, xstrdup(url_decode(User)))
  <2>1. pc' = "authority" /\ link' = link /\ node' = n
    BY <1>3 DEF Goto
  <2>2. /\ Typed.str = node.str /\ Typed \in Node /\ Secret \in {"uuid", "password"} /\ Secret \in Fields
        /\ xstrdup(url_decode(User)) \in MaybeText
        /\ Typed.transport = node.transport /\ Typed.tls = DefaultTls
    BY <1>1, UserTypes DEF MaybeText
  <2>3. /\ n.transport = "none" /\ n.tls = DefaultTls
        /\ \A f \in Fields \ {Secret} : n.str[f] = None
    <3>1. /\ n.transport = Typed.transport /\ n.tls = Typed.tls
          /\ \A f \in Fields \ {Secret} : n.str[f] = Typed.str[f]
      BY <2>2, Filled
    <3>2. node.transport = "none" /\ \A f \in Fields : node.str[f] = None
      BY <1>1 DEF EmptyNode
    <3> QED
      BY <2>2, <3>1, <3>2
  <2> HIDE DEF n
  <2>4. QueryFields \subseteq Fields \ {Secret}
    BY <2>2 DEF QueryFields, Fields
  <2>5. {"type", "security", "path", "host"} \subseteq Keys /\ DOMAIN Direct \subseteq Keys
    BY DEF Keys
  <2>6. KindsAre(n, Blank, DefaultTls)
    BY <2>3, <2>5 DEF KindsAre, Otherwise, Blank
  <2>7. FieldsAre(n, Blank)
    <3>1. \A k \in DOMAIN Direct : n.str[Direct[k]] = Blank[k]
      BY <2>3, <2>4, <2>5, DirectType DEF Blank
    <3>2. \A k \in DOMAIN Ws : k \in {"path", "host"}
      BY DEF Ws
    <3>3. ASSUME NEW k \in DOMAIN Ws
          PROVE  /\ n.str[Place(n, k)] = Blank[k]
                 /\ \A f \in {Ws[k], Xhttp[k]} \ {Place(n, k)} : n.str[f] = None
      <4>1. Place(n, k) \in QueryFields /\ Ws[k] \in QueryFields /\ Xhttp[k] \in QueryFields /\ k \in Keys
        BY <2>5, <3>2, PlaceType
      <4> QED
        BY <2>3, <2>4, <4>1 DEF Blank
    <3> QED
      BY <3>1, <3>3 DEF FieldsAre
  <2> QED
    BY <2>1, <2>6, <2>7, RigidQuery DEF QueryInv, Accepted
<1> QED
  BY <1>2, <1>3 DEF UserInfo, UserMissing, NullCopy

LEMMA AuthorityMeaning ==
    ASSUME CoreInv, CoreInv', QueryInv, Authority \/ AuthorityBad
    PROVE  QueryInv'
<1>1. pc = "authority" /\ link \in Links /\ TypeOK /\ rest \in Text /\ node \in Node /\ pairs = << >>
      /\ text \in Text
  <2>1. pc = "authority"
    BY DEF Authority, AuthorityBad
  <2> QED
    BY <2>1, LinkText DEF CoreInv, TypeOK, HeapInv
<1>2. CASE AuthorityBad
  BY <1>2, QuerySilent DEF AuthorityBad, Fail, Accepted
<1>3. CASE Authority
  <2> DEFINE n == [Fill(node, "server", xstrdup(Host(rest))) EXCEPT !.port = PortNumber(rest)]
  <2> SUFFICES ASSUME LinkLike, Regular PROVE QueryInv'
    <3>1. link' = link
      BY <1>3 DEF Authority, Goto
    <3> QED
      BY <3>1, Rigid, RigidQuery DEF QueryInv
  <2>1. creds = None
    BY <1>1 DEF CoreInv, FormInv, LinkLike
  <2>2. /\ HasHostPort(rest) /\ link' = link /\ i' = 1 /\ pairs' = pairs
        /\ pc' = IF HasQuery THEN "query" ELSE "name"
        /\ node' = n
    BY <1>3, <2>1 DEF Authority, Goto, HasQuery, query
  <2>3. xstrdup(Host(rest)) \in MaybeText
    BY <1>1, <2>2, HostPort, Decoding DEF MaybeText
  <2>4. n.transport = node.transport /\ n.tls = node.tls /\ \A f \in QueryFields : n.str[f] = node.str[f]
    <3> DEFINE s == Fill(node, "server", xstrdup(Host(rest)))
    <3>1. "server" \in Fields /\ QueryFields \subseteq Fields \ {"server"}
      BY DEF Fields, QueryFields
    <3>2. /\ s \in Node /\ s.transport = node.transport /\ s.tls = node.tls
          /\ \A f \in Fields \ {"server"} : s.str[f] = node.str[f]
      BY <1>1, <2>3, <3>1, Filled
    <3>3. n = [s EXCEPT !.port = PortNumber(rest)]
      OBVIOUS
    <3> HIDE DEF s, n
    <3>4. n.str = s.str /\ n.transport = s.transport /\ n.tls = s.tls
      BY <3>2, <3>3 DEF Node
    <3> QED
      BY <3>1, <3>2, <3>4
  <2> HIDE DEF n
  <2>5. KindsAre(node, Blank, DefaultTls) /\ FieldsAre(node, Blank)
    BY <1>1 DEF QueryInv
  <2>6. KindsAre(n, Blank, DefaultTls) /\ FieldsAre(n, Blank)
    BY <2>4, <2>5, SameMeaning
  <2>7. q \in Text
    BY <1>1, QueryText
  <2>8. CASE HasQuery
    <3>1. Taken(pairs, Len(pairs)) = Read(q, 1)
      <4>1. Len(pairs) = 0
        BY <1>1
      <4> QED
        BY <2>7, <4>1, NoPairs, ReadNone
    <3> QED
      BY <2>2, <2>6, <2>8, <3>1, Rigid, RigidQuery DEF QueryInv, Accepted
  <2>9. CASE ~HasQuery
    <3>1. q = << >>
      <4>1. Query(text) = Len(text) + 1 /\ Frag(text) \in 1..(Len(text) + 1) /\ Len(text) \in Nat
        BY <1>1, <2>9, Landmarks, InText DEF HasQuery
      <4>2. Query(text) + 1 \in Int /\ Frag(text) - 1 \in Int /\ Frag(text) - 1 < Query(text) + 1
        BY <4>1
      <4> QED
        BY <4>2, SubSeqEmpty DEF q
    <3>2. Meant = Blank
      BY <2>7, <3>1, ReadNone
    <3> QED
      BY <2>2, <2>6, <2>9, <3>2, Rigid, RigidQuery DEF QueryInv, Accepted
  <2> QED
    BY <2>8, <2>9
<1> QED
  BY <1>2, <1>3

\* The parser has read up to where it stands, on the way and at the end.
LEMMA ReadOn ==
    ASSUME CoreInv, QueryInv, LinkLike, Regular, pc = "query",
           link' = link, node' = node, pairs' \in Seq(Pair),
           \/ pc' = "query" /\ Taken(pairs', Len(pairs')) = Read(q, i')
           \/ pc' = Apply /\ i' = 1 /\ Taken(pairs', Len(pairs')) = Meant
    PROVE  QueryInv'
<1>1. KindsAre(node, Blank, DefaultTls) /\ FieldsAre(node, Blank)
  BY DEF QueryInv
<1>2. CASE pc' = "query" /\ Taken(pairs', Len(pairs')) = Read(q, i')
  BY <1>1, <1>2, Rigid, RigidQuery DEF QueryInv, Accepted
<1>3. CASE pc' = "kinds" /\ i' = 1 /\ Taken(pairs', Len(pairs')) = Meant
  <2>1. Taken(pairs', i' - 1) = Blank /\ i' <= Len(pairs') + 1
    <3>1. i' - 1 = 0 /\ Len(pairs') \in Nat
      BY <1>3, LenProperties
    <3> QED
      BY <1>3, <3>1, NoPairs
  <2> QED
    BY <1>1, <1>3, <2>1, Rigid, RigidQuery DEF QueryInv, Accepted
<1>4. link.scheme # "ss"
  BY DEF LinkLike
<1> QED
  BY <1>2, <1>3, <1>4 DEF Apply

LEMMA QueryReads ==
    ASSUME CoreInv, CoreInv', QueryInv, SkipSegment \/ TakePair \/ EndOfQuery
    PROVE  QueryInv'
<1>1. /\ pc = "query" /\ link \in Links /\ i \in Nat \ {0} /\ pairs \in Seq(Pair) /\ pairs' \in Seq(Pair)
      /\ i = 1 \/ (i - 1 \in DOMAIN q /\ q[i - 1] = "&")
  <2>1. pc = "query"
    BY DEF SkipSegment, TakePair, EndOfQuery
  <2> QED
    BY <2>1 DEF CoreInv, TypeOK, PosInv
<1>2. q \in Text /\ Len(q) \in Nat
  BY <1>1, QueryText, InText
<1>3. CASE Fail \/ pc' = "null"
  BY <1>3, QuerySilent DEF Fail, Accepted
<1>4. CASE ~(Fail \/ pc' = "null")
  <2>1. link' = link /\ node' = node
    BY <1>4 DEF SkipSegment, TakePair, EndOfQuery, Advance, QueryFails, NullCopy
  <2> SUFFICES ASSUME LinkLike, Regular PROVE QueryInv'
    BY <2>1, Rigid, RigidQuery DEF QueryInv
  <2>2. Taken(pairs, Len(pairs)) = Read(q, i)
    BY <1>1 DEF QueryInv
  <2>3. ASSUME Advance, i <= Len(q), Taken(pairs', Len(pairs')) = Read(q, SegEnd + 1)
        PROVE  QueryInv'
    <3>1. SegEnd = IF Amp # 0 THEN Amp ELSE Len(q) + 1
      BY DEF SegEnd
    <3>2. CASE Amp # 0
      BY <1>1, <2>1, <2>3, <3>1, <3>2, ReadOn DEF Advance
    <3>3. CASE Amp = 0
      <4>1. SegEnd + 1 \in Int /\ SegEnd + 1 > Len(q)
        BY <1>2, <3>1, <3>3
      <4>2. Read(q, SegEnd + 1) = Meant
        BY <1>2, <4>1, ReadAll
      <4> QED
        BY <1>1, <2>1, <2>3, <3>3, <4>2, ReadOn DEF Advance
    <3> QED
      BY <3>2, <3>3
  <2>4. CASE SkipSegment
    <3>1. i <= Len(q) /\ ~IsPair /\ Advance /\ pairs' = pairs
      BY <2>4 DEF SkipSegment
    <3>2. \A k : ValueTo(q, k, SegEnd + 1) = ValueTo(q, k, i)
      BY <1>1, <1>2, <3>1, SegmentMore, SkippedMeans
    <3>3. Read(q, SegEnd + 1) = Read(q, i)
      BY <3>2 DEF Read
    <3> QED
      BY <2>2, <2>3, <3>1, <3>3
  <2>5. CASE TakePair
    <3> DEFINE p == [key |-> xstrdup(url_decode(Key)), value |-> xstrdup(url_decode(Value))]
    <3>1. i <= Len(q) /\ IsPair /\ Advance /\ pairs' = Append(pairs, p)
      BY <1>4, <2>5 DEF TakePair, QueryFails, NullCopy
    <3>2. p \in Pair
      BY <1>1, <1>2, <3>1, PairTaken
    <3>3. p.key = xstrdup(url_decode(Key)) /\ p.value = xstrdup(url_decode(Value))
      OBVIOUS
    <3> HIDE DEF p
    <3>4. Len(pairs') = Len(pairs) + 1
      BY <1>1, <3>1, <3>2, AppendProperties
    <3>5. ASSUME NEW k \in Keys
          PROVE  LastOf(pairs', k, Len(pairs')) = ValueTo(q, k, SegEnd + 1)
      <4>1. LastOf(pairs', k, Len(pairs')) = IF p.key = <<k>> THEN p.value ELSE LastOf(pairs, k, Len(pairs))
        BY <1>1, <3>1, <3>2, <3>4, PairMore
      <4>2. LastOf(pairs, k, Len(pairs)) = ValueTo(q, k, i)
        <5>1. Taken(pairs, Len(pairs))[k] = LastOf(pairs, k, Len(pairs)) /\ Read(q, i)[k] = ValueTo(q, k, i)
          BY DEF Taken, Read
        <5> QED
          BY <2>2, <5>1
      <4>3. ValueTo(q, k, SegEnd + 1) = IF p.key = <<k>> THEN p.value ELSE ValueTo(q, k, i)
        BY <1>1, <1>2, <3>1, <3>3, SegmentMore, PairMeans
      <4> QED
        BY <4>1, <4>2, <4>3
    <3>6. Taken(pairs', Len(pairs')) = Read(q, SegEnd + 1)
      BY <3>5 DEF Taken, Read
    <3> QED
      BY <2>3, <3>1, <3>6
  <2>6. CASE EndOfQuery
    <3>1. i > Len(q) /\ pc' = Apply /\ i' = 1 /\ pairs' = pairs
      BY <2>6 DEF EndOfQuery
    <3>2. Read(q, i) = Meant
      BY <1>1, <1>2, <3>1, ReadAll
    <3> QED
      BY <1>1, <2>1, <2>2, <3>1, <3>2, ReadOn
  <2> QED
    BY <2>4, <2>5, <2>6
<1> QED
  BY <1>3, <1>4

LEMMA ApplyMeaning ==
    ASSUME CoreInv, CoreInv', QueryInv, ApplyKinds \/ ApplyFields
    PROVE  QueryInv'
<1>1. /\ pc \in {"kinds", "fields"} /\ node \in Node /\ i \in Nat \ {0} /\ pairs \in Seq(Pair)
      /\ Len(pairs) \in Nat /\ rc' # 0 /\ link' = link
  <2>1. pc \in {"kinds", "fields"} /\ rc' = rc /\ link' = link
    BY DEF ApplyKinds, ApplyFields, Goto
  <2>2. rc = 1
    BY <2>1 DEF CoreInv, FormInv
  <2> QED
    BY <2>1, <2>2, LenProperties DEF CoreInv, TypeOK
<1> SUFFICES ASSUME LinkLike, Regular PROVE QueryInv'
  BY <1>1, Rigid, RigidQuery DEF QueryInv
<1>2. i <= Len(pairs) + 1 /\ Taken(pairs, Len(pairs)) = Meant /\ link.scheme # "ss"
  BY <1>1 DEF QueryInv, LinkLike
<1>3. CASE ApplyKinds /\ i <= Len(pairs)
  <2>1. /\ pc = "kinds" /\ pc' = "kinds" /\ node' = ApplyKind(node, pairs[i]) /\ i' = i + 1 /\ pairs' = pairs
    BY <1>3 DEF ApplyKinds, Goto, query
  <2>2. KindsAre(node, Taken(pairs, i - 1), DefaultTls) /\ FieldsAre(node, Blank)
    BY <2>1 DEF QueryInv
  <2>3. i \in 1..Len(pairs) /\ i' - 1 = i /\ i' <= Len(pairs) + 1
    BY <1>1, <1>3, <2>1
  <2>4. KindsAre(node', Taken(pairs, i), DefaultTls) /\ FieldsAre(node', Blank)
    BY <1>1, <2>1, <2>2, <2>3, KindStep
  <2> QED
    BY <1>1, <1>2, <2>1, <2>3, <2>4, Rigid, RigidQuery DEF QueryInv, Accepted
<1>4. CASE ApplyKinds /\ ~(i <= Len(pairs))
  <2>1. pc = "kinds" /\ pc' = "fields" /\ node' = node /\ i' = 1 /\ pairs' = pairs
    BY <1>4 DEF ApplyKinds, Goto, query
  <2>2. KindsAre(node, Taken(pairs, i - 1), DefaultTls) /\ FieldsAre(node, Blank)
    BY <2>1 DEF QueryInv
  <2>3. i - 1 = Len(pairs) /\ i' - 1 = 0 /\ i' <= Len(pairs) + 1
    BY <1>1, <1>2, <1>4, <2>1
  <2>4. KindsAre(node, Meant, DefaultTls) /\ FieldsAre(node, Taken(pairs, 0))
    BY <1>2, <2>2, <2>3, NoPairs
  <2> QED
    BY <1>1, <1>2, <2>1, <2>3, <2>4, Rigid, RigidQuery DEF QueryInv, Accepted
<1>5. CASE ApplyFields /\ i <= Len(pairs)
  <2>1. /\ pc = "fields" /\ pc' = "fields" /\ node' = ApplyField(node, pairs[i]) /\ i' = i + 1 /\ pairs' = pairs
    BY <1>1, <1>2, <1>5 DEF ApplyFields, Goto
  <2>2. KindsAre(node, Meant, DefaultTls) /\ FieldsAre(node, Taken(pairs, i - 1))
    BY <2>1 DEF QueryInv
  <2>3. i \in 1..Len(pairs) /\ i' - 1 = i /\ i' <= Len(pairs) + 1
    BY <1>1, <1>5, <2>1
  <2>4. pairs[i] \in Pair
    BY <1>1, <2>3, ElementOfSeq
  <2>5. FieldsAre(node', Taken(pairs, i))
    BY <1>1, <2>1, <2>2, <2>3, FieldStep
  <2>6. KindsAre(node', Meant, DefaultTls)
    <3>1. node'.transport = node.transport /\ node'.tls = node.tls
      BY <1>1, <2>1, <2>4, FieldApplied
    <3> QED
      BY <2>2, <3>1 DEF KindsAre
  <2> QED
    BY <1>1, <1>2, <2>1, <2>3, <2>5, <2>6, Rigid, RigidQuery DEF QueryInv, Accepted
<1>6. CASE ApplyFields /\ ~(i <= Len(pairs))
  <2>1. pc = "fields" /\ pc' = "name" /\ node' = node
    BY <1>1, <1>6 DEF ApplyFields, Goto
  <2>2. KindsAre(node, Meant, DefaultTls) /\ FieldsAre(node, Taken(pairs, i - 1))
    BY <2>1 DEF QueryInv
  <2>3. i - 1 = Len(pairs)
    BY <1>1, <1>2, <1>6
  <2>4. FieldsAre(node, Meant)
    BY <1>2, <2>2, <2>3
  <2> QED
    BY <1>1, <2>1, <2>2, <2>4, Rigid, RigidQuery DEF QueryInv, Accepted
<1> QED
  BY <1>3, <1>4, <1>5, <1>6

LEMMA NamedMeaning == ASSUME CoreInv, CoreInv', QueryInv, Named PROVE QueryInv'
<1>1. /\ pc = "name" /\ link \in Links /\ text \in Text /\ node \in Node
      /\ node.str["server"] # None /\ node.port \in DOMAIN Decimal
  <2>1. pc = "name"
    BY DEF Named
  <2> QED
    BY <2>1, LinkText DEF CoreInv, NodeInv, TypeOK, Ready, Beyond
<1>2. CASE pc' = "null"
  BY <1>2, QuerySilent DEF Accepted
<1>3. ASSUME NEW t \in Text, Accept(Ciphered(Fill(node, "name", t)))
      PROVE  QueryInv'
  <2> DEFINE m == Ciphered(Fill(node, "name", t))
  <2>1. link' = link /\ pc' = "returned" /\ node' = m
    BY <1>3 DEF Accept
  <2>2. /\ m.transport = node.transport /\ m.tls = node.tls
        /\ \A f \in Fields \ {"name"} : f # "cipher" \/ link.scheme # "vmess" => m.str[f] = node.str[f]
    BY <1>1, NameSet
  <2> HIDE DEF m
  <2>3. \A f \in QueryFields : f \in Fields \ {"name"} /\ f # "cipher"
    BY DEF Fields, QueryFields
  <2>4. LinkLike /\ Regular => KindsAre(node, Meant, DefaultTls) /\ FieldsAre(node, Meant)
    BY <1>1 DEF QueryInv
  <2>5. LinkLike /\ Regular => KindsAre(m, Meant, DefaultTls) /\ FieldsAre(m, Meant)
    BY <2>2, <2>3, <2>4, SameMeaning
  <2> QED
    BY <2>1, <2>5, Rigid, RigidQuery DEF QueryInv
<1>4. Fallback(node) \in Text
  BY <1>1, FallbackType
<1>5. xstrdup(url_decode(Fragment)) \in Text
  <2>1. Frag(text) + 1 \in Nat \ {0} /\ Len(text) \in Int /\ Len(text) <= Len(text)
    BY <1>1, Landmarks, InText
  <2>2. Fragment \in Text
    BY <1>1, <2>1, Cut DEF Fragment
  <2> QED
    BY <2>2, Decoding
<1> QED
  BY <1>2, <1>3, <1>4, <1>5 DEF Named, NullCopy

LEMMA QueryStep == CoreInv /\ CoreInv' /\ QueryInv /\ [Next]_vars => QueryInv'
<1> SUFFICES ASSUME CoreInv, CoreInv', QueryInv, [Next]_vars PROVE QueryInv'
  OBVIOUS
<1>1. CASE UNCHANGED vars
  <2>1. UNCHANGED <<pc, link, i, pairs, node, rc>>
    BY <1>1 DEF vars, local, query
  <2> QED
    BY <2>1, Rigid, RigidQuery DEF QueryInv, Accepted
<1>2. CASE Entry \/ EntryUnknown
  <2>1. pc' \in {"user", "json", "creds", "blob"} \/ (pc' = "returned" /\ rc' = -1)
    BY <1>2 DEF Entry, EntryUnknown, Goto, Fail
  <2> QED
    BY <2>1, QuerySilent DEF Accepted
<1>3. CASE Creds \/ Blob \/ ParseJson
  <2>1. ~LinkLike
    BY <1>3 DEF Creds, Blob, ParseJson, CoreInv, FormInv, LinkLike
  <2>2. link' = link
    BY <1>3 DEF Creds, Blob, ParseJson, Goto, Fail, NullCopy, Accept
  <2> QED
    BY <2>1, <2>2, NoLinkNoQuery
<1> QED
  BY <1>1, <1>2, <1>3, UserMeaning, AuthorityMeaning, QueryReads, ApplyMeaning, NamedMeaning DEF Next, Done

\* What a query of any length means: the last value of each key counts, path
\* and host go to the transport that "type" names, wherever it stands, and no
\* field is set that no key names (parse_query, apply_query).
THEOREM ShareLinkQueryMeaning == Spec => []QueryMeaning
<1>1. Init => QueryInv
  BY DEF Init, QueryInv, Accepted
<1>2. CoreInv /\ CoreInv' /\ QueryInv /\ [Next]_vars => QueryInv'
  BY QueryStep
<1>3. QueryInv => QueryMeaning
  <2> SUFFICES ASSUME QueryInv, pc = "returned", rc = 0, LinkLike, Regular PROVE QueryMeaning
    BY DEF QueryMeaning, Regular
  <2>1. KindsAre(node, Meant, DefaultTls) /\ FieldsAre(node, Meant)
    BY DEF QueryInv, Accepted
  <2>2. \A k \in Keys : Meant[k] = LastValue(q, k)
    BY DEF Meant
  <2>3. DOMAIN Direct \subseteq Keys /\ {"type", "security"} \subseteq Keys /\ DOMAIN Ws \subseteq Keys
    BY DEF Keys, Ws
  <2>4. \A k \in DOMAIN Direct : node.str[Direct[k]] = LastValue(q, k)
    BY <2>1, <2>2, <2>3 DEF FieldsAre
  <2>5. /\ node.transport = Otherwise(LastValue(q, "type"), "none", TransportOf)
        /\ node.tls = Otherwise(LastValue(q, "security"), DefaultTls, TlsOf)
    BY <2>1, <2>2, <2>3 DEF KindsAre, Otherwise
  <2>6. \A k \in DOMAIN Ws :
          /\ node.str[Place(node, k)] = LastValue(q, k)
          /\ \A f \in {Ws[k], Xhttp[k]} \ {Place(node, k)} : node.str[f] = None
    BY <2>1, <2>2, <2>3 DEF FieldsAre
  <2> QED
    BY <2>4, <2>5, <2>6 DEF QueryMeaning, DefaultTls, Otherwise
<1> QED
  BY <1>1, <1>2, <1>3, ShareLinkCore, PTL DEF Spec
=============================================================================
