----------------------------- MODULE UniqueNames -----------------------------
(***************************************************************************)
(* assign_unique_name, which conv_base64.c and conv_singbox.c both carry:  *)
(* nodes get their names one after another, a name that is taken is tried  *)
(* again as "name - 2", "name - 3", ...                                     *)
(*                                                                         *)
(* A name is a text and the numbers appended to it so far, so that a node  *)
(* that arrives with the name "a - 2" is [text |-> "a", nums |-> <<2>>], the *)
(* very name a second "a" asks for.  Appending " - k" is injective in the   *)
(* base and in k, as Append is.                                            *)
(***************************************************************************)
EXTENDS Naturals, Sequences

CONSTANTS
    Bases,    \* the names nodes arrive with
    Texts,    \* the texts names are made of
    MaxNodes, \* bound: nodes in one subscription
    OOM       \* TRUE: realloc may fail

Name == [text: Texts, nums: Seq(Nat)]

ASSUME NamesAssumption ==
    /\ Bases \subseteq Name
    /\ MaxNodes \in Nat
    /\ OOM \in BOOLEAN

VARIABLES
    used,   \* the names given out, in node order
    bases,  \* the name each of these nodes arrived with
    base,   \* the current node's name on arrival
    cand,   \* the candidate in hand
    suffix, \* the next number to append
    pc      \* "caller": between two calls; "loop": in the while loop; "oom"

vars == <<used, bases, base, cand, suffix, pc>>

Suffixed(b, k) == [text |-> b.text, nums |-> Append(b.nums, k)]
\* Mutant: only the last name is compared.
TakenByLast(name) == used # << >> /\ used[Len(used)] = name

Taken(name) == \E i \in DOMAIN used : used[i] = name

Init ==
    /\ used = << >> /\ bases = << >>
    /\ base \in Bases /\ cand = base /\ suffix = 2   \* set by Call before use
    /\ pc = "caller"

\* Mutant: the numbers start with 1.
CallFromOne ==
    /\ pc = "caller" /\ Len(used) < MaxNodes
    /\ base' \in Bases
    /\ cand' = base' /\ suffix' = 1
    /\ pc' = "loop"
    /\ UNCHANGED <<used, bases>>

\* The converter asks for the name of its next node.
Call ==
    /\ pc = "caller" /\ Len(used) < MaxNodes
    /\ base' \in Bases
    /\ cand' = base' /\ suffix' = 2
    /\ pc' = "loop"
    /\ UNCHANGED <<used, bases>>

\* Mutant: the number is advanced twice.
RetrySkips ==
    /\ pc = "loop" /\ Taken(cand)
    /\ cand' = Suffixed(base, suffix)
    /\ suffix' = suffix + 2
    /\ UNCHANGED <<used, bases, base, pc>>

\* Mutant: the number is not advanced.
RetrySame ==
    /\ pc = "loop" /\ Taken(cand)
    /\ cand' = Suffixed(base, suffix)
    /\ UNCHANGED <<used, bases, base, suffix, pc>>

\* name_used found the candidate: try the next number.
Retry ==
    /\ pc = "loop" /\ Taken(cand)
    /\ cand' = Suffixed(base, suffix)
    /\ suffix' = suffix + 1
    /\ UNCHANGED <<used, bases, base, pc>>

\* The candidate is free: the list grows by it, or realloc fails.
Return ==
    /\ pc = "loop" /\ ~Taken(cand)
    /\ \/ /\ used' = Append(used, cand)
          /\ bases' = Append(bases, base)
          /\ pc' = "caller"
       \/ OOM /\ pc' = "oom" /\ UNCHANGED <<used, bases>>
    /\ UNCHANGED <<base, cand, suffix>>

Next == Call \/ Retry \/ Return

Spec == Init /\ [][Next]_vars /\ WF_vars(Retry \/ Return)

-----------------------------------------------------------------------------
(* Properties *)

\* Type invariant.
TypeOK ==
    /\ used \in Seq(Name)
    /\ bases \in Seq(Bases)
    /\ Len(bases) = Len(used)
    /\ base \in Bases
    /\ cand \in Name
    /\ suffix \in Nat /\ suffix >= 2
    /\ pc \in {"caller", "loop", "oom"}

\* No two proxies of the emitted configuration have the same name, also when
\* nodes arrive with names that look like the generated ones.
Distinct == \A i, j \in DOMAIN used : used[i] = used[j] => i = j

\* Below(s, b, k, n): b itself and "b - 2" .. "b - (k-1)" are among the first n
\* names of s.
Among(s, name, n) == \E i \in 1..n : s[i] = name
Below(s, b, k, n) ==
    Among(s, b, n) /\ \A m \in 2..(k - 1) : Among(s, Suffixed(b, m), n)

\* A node keeps its own name unless an earlier node has it, and then gets the
\* smallest number that is free: names do not depend on anything but the nodes
\* before, so a subscription converts to the same names every time.
FirstFree ==
    \A i \in DOMAIN used :
        \/ used[i] = bases[i]
        \/ \E k \in 2..(i + 1) : /\ used[i] = Suffixed(bases[i], k)
                                 /\ Below(used, bases[i], k, i - 1)

\* The number never exceeds the names given out by more than 2: `int suffix`
\* cannot overflow before the list of names would.
SuffixBounded == pc = "loop" => suffix <= Len(used) + 2

\* The while loop ends.
LoopEnds == pc = "loop" ~> pc # "loop"

\* What holds inside the loop: the candidates tried so far are all taken.
LoopInv ==
    pc = "loop" =>
        \/ cand = base /\ suffix = 2
        \/ /\ suffix > 2 /\ cand = Suffixed(base, suffix - 1)
           /\ Below(used, base, suffix - 1, Len(used))
=============================================================================
