-------------------------- MODULE UniqueNamesProofs --------------------------
(***************************************************************************)
(* Proofs about UniqueNames, for every set of arriving names and every     *)
(* number of nodes.  The invariant of the while loop, LoopInv, says which  *)
(* names are known to be taken; it gives FirstFree when the loop ends, and *)
(* by counting those names the bound on the suffix.                        *)
(***************************************************************************)
EXTENDS UniqueNames, FiniteSetTheorems, TLAPS

\* What assign_unique_name keeps true at every step.
Inv == TypeOK /\ LoopInv /\ Distinct /\ FirstFree

\* Appending a number to a name is injective and never gives the name back.
LEMMA SuffixInjective ==
    ASSUME NEW b \in Name
    PROVE  /\ \A k \in Nat : Suffixed(b, k) \in Name /\ Suffixed(b, k) # b
           /\ \A k, m \in Nat : Suffixed(b, k) = Suffixed(b, m) => k = m
<1>1. ASSUME NEW k \in Nat
      PROVE  /\ Suffixed(b, k) \in Name
             /\ Suffixed(b, k).nums = Append(b.nums, k)
    BY DEF Suffixed, Name
<1>2. \A k \in Nat : /\ Append(b.nums, k) # b.nums
                     /\ Append(b.nums, k)[Len(b.nums) + 1] = k
    BY DEF Name
<1>3. \A k \in Nat : Suffixed(b, k) \in Name /\ Suffixed(b, k) # b
    BY <1>1, <1>2
<1>4. ASSUME NEW k \in Nat, NEW m \in Nat, Suffixed(b, k) = Suffixed(b, m)
      PROVE  k = m
    BY <1>1, <1>2, <1>4
<1> QED
    BY <1>3, <1>4

\* If a name and its first numbered variants are among n names, they are no
\* more than n.
LEMMA Pigeonhole ==
    ASSUME NEW b \in Name, NEW k \in Nat, k >= 2, NEW n \in Nat, NEW s, Below(s, b, k, n)
    PROVE  k <= n + 1
<1> DEFINE nth(m) == IF m = 1 THEN b ELSE Suffixed(b, m)
           at[m \in 1..(k - 1)] == CHOOSE i \in 1..n : s[i] = nth(m)
<1>1. ASSUME NEW m \in 1..(k - 1)
      PROVE  \E i \in 1..n : s[i] = nth(m)
    <2>1. CASE m = 1
        BY <2>1 DEF Below, Among
    <2>2. CASE m # 1
        <3>1. m \in 2..(k - 1)
            BY <2>2
        <3> QED
            BY <2>2, <3>1 DEF Below, Among
    <2> QED
        BY <2>1, <2>2
<1>2. \A m \in 1..(k - 1) : at[m] \in 1..n /\ s[at[m]] = nth(m)
    BY <1>1
<1>3. \A l, m \in 1..(k - 1) : nth(l) = nth(m) => l = m
    BY SuffixInjective
<1>4. at \in Injection(1..(k - 1), 1..n)
    <2>1. at \in [1..(k - 1) -> 1..n]
        BY <1>2
    <2>2. ASSUME NEW l \in 1..(k - 1), NEW m \in 1..(k - 1), at[l] = at[m]
          PROVE  l = m
        <3>1. nth(l) = nth(m)
            BY <1>2, <2>2
        <3> QED
            BY <1>3, <3>1
    <2> HIDE DEF at
    <2> QED
        BY <2>1, <2>2 DEF Injection, IsInjective
<1>5. /\ IsFiniteSet(1..n) /\ Cardinality(1..n) = n
      /\ IsFiniteSet(1..(k - 1)) /\ Cardinality(1..(k - 1)) = k - 1
    BY FS_Interval
<1>6. Cardinality(1..(k - 1)) <= Cardinality(1..n)
    BY <1>4, <1>5, FS_Injection
<1> QED
    BY <1>5, <1>6

\* In the loop the suffix is at most two more than the names given out.
LEMMA LoopBound ==
    ASSUME TypeOK, LoopInv
    PROVE  SuffixBounded
<1> SUFFICES ASSUME pc = "loop" PROVE suffix <= Len(used) + 2
    BY DEF SuffixBounded
<1>1. CASE suffix = 2
    BY <1>1 DEF TypeOK
<1>2. CASE suffix > 2
    <2>1. Below(used, base, suffix - 1, Len(used))
        BY <1>2 DEF LoopInv
    <2>2. base \in Name /\ suffix - 1 \in Nat /\ suffix - 1 >= 2 /\ Len(used) \in Nat
        BY <1>2, NamesAssumption DEF TypeOK
    <2>3. suffix - 1 <= Len(used) + 1
        BY <2>1, <2>2, Pigeonhole
    <2> QED
        BY <2>2, <2>3 DEF TypeOK
<1> QED
    BY <1>1, <1>2 DEF TypeOK

\* Type correctness of one step.
LEMMA TypeStep ==
    ASSUME TypeOK, [Next]_vars
    PROVE  TypeOK'
<1> USE NamesAssumption DEF TypeOK
<1>1. CASE Call
    BY <1>1 DEF Call
<1>2. CASE Retry
    <2>1. base \in Name /\ suffix \in Nat
        OBVIOUS
    <2>2. Suffixed(base, suffix) \in Name
        BY <2>1, SuffixInjective
    <2> QED
        BY <1>2, <2>2 DEF Retry
<1>3. CASE Return
    <2>1. /\ Append(used, cand) \in Seq(Name) /\ Append(bases, base) \in Seq(Bases)
          /\ Len(Append(used, cand)) = Len(used) + 1
          /\ Len(Append(bases, base)) = Len(bases) + 1
        OBVIOUS
    <2> QED
        BY <1>3, <2>1 DEF Return
<1>4. CASE UNCHANGED vars
    BY <1>4 DEF vars
<1> QED
    BY <1>1, <1>2, <1>3, <1>4 DEF Next

\* The loop invariant: a retry adds the failed candidate to what is known taken.
LEMMA LoopStep ==
    ASSUME TypeOK, LoopInv, [Next]_vars
    PROVE  LoopInv'
<1> USE DEF TypeOK
<1>1. CASE Call
    BY <1>1 DEF Call, LoopInv
<1>2. CASE Retry
    <2>1. /\ pc = "loop" /\ used' = used /\ base' = base /\ pc' = pc
          /\ suffix' = suffix + 1 /\ cand' = Suffixed(base, suffix)
        BY <1>2 DEF Retry
    <2>2. Among(used, cand, Len(used))
        BY <1>2 DEF Retry, Taken, Among
    <2>3. Below(used, base, suffix, Len(used))
        <3>1. CASE cand = base /\ suffix = 2
            BY <2>2, <3>1 DEF Below
        <3>2. CASE /\ suffix > 2 /\ cand = Suffixed(base, suffix - 1)
                   /\ Below(used, base, suffix - 1, Len(used))
            <4>1. ASSUME NEW m \in 2..(suffix - 1)
                  PROVE  Among(used, Suffixed(base, m), Len(used))
                <5>1. CASE m = suffix - 1
                    BY <2>2, <3>2, <5>1
                <5>2. CASE m # suffix - 1
                    <6>1. m \in 2..((suffix - 1) - 1)
                        BY <5>2
                    <6> QED
                        BY <3>2, <6>1 DEF Below
                <5> QED
                    BY <5>1, <5>2
            <4> QED
                BY <3>2, <4>1 DEF Below
        <3> QED
            BY <2>1, <3>1, <3>2 DEF LoopInv
    <2>4. Below(used', base', suffix' - 1, Len(used'))
        BY <2>1, <2>3
    <2>5. suffix' - 1 = suffix /\ suffix' > 2
        BY <2>1
    <2> QED
        BY <2>1, <2>4, <2>5 DEF LoopInv
<1>3. CASE Return
    BY <1>3 DEF Return, LoopInv
<1>4. CASE UNCHANGED vars
    BY <1>4 DEF vars, LoopInv, Below, Among
<1> QED
    BY <1>1, <1>2, <1>3, <1>4 DEF Next

\* A returned name is new: Distinct is kept.
LEMMA DistinctStep ==
    ASSUME TypeOK, Distinct, [Next]_vars
    PROVE  Distinct'
<1>1. CASE Return /\ used' = Append(used, cand)
    <2>1. /\ DOMAIN used' = 1..(Len(used) + 1)
          /\ used'[Len(used) + 1] = cand
          /\ \A i \in 1..Len(used) : used'[i] = used[i]
        BY <1>1 DEF TypeOK
    <2>2. \A i \in 1..Len(used) : used[i] # cand
        BY <1>1 DEF Return, Taken, TypeOK
    <2> QED
        BY <2>1, <2>2 DEF Distinct, TypeOK
<1>2. CASE UNCHANGED used
    BY <1>2 DEF Distinct
<1> QED
    BY <1>1, <1>2 DEF Next, Call, Retry, Return, vars

\* The returned name is the arriving one or its first free variant.
LEMMA FirstFreeStep ==
    ASSUME TypeOK, LoopInv, FirstFree, [Next]_vars
    PROVE  FirstFree'
<1> DEFINE n == Len(used)
<1>1. CASE Return /\ used' = Append(used, cand) /\ bases' = Append(bases, base)
    <2>1. /\ n \in Nat /\ Len(bases) = n
          /\ DOMAIN used' = 1..(n + 1)
          /\ used'[n + 1] = cand /\ bases'[n + 1] = base
          /\ \A i \in 1..n : used'[i] = used[i] /\ bases'[i] = bases[i]
        BY <1>1 DEF TypeOK
    <2>2. ASSUME NEW b, NEW k \in Nat, NEW i \in 0..n, Below(used, b, k, i)
          PROVE  Below(used', b, k, i)
        BY <2>1, <2>2 DEF Below, Among
    <2>3. ASSUME NEW i \in 1..n
          PROVE  \/ used'[i] = bases'[i]
                 \/ \E k \in 2..(i + 1) : /\ used'[i] = Suffixed(bases'[i], k)
                                          /\ Below(used', bases'[i], k, i - 1)
        <3>1. CASE used[i] = bases[i]
            BY <2>1, <3>1
        <3>2. CASE used[i] # bases[i]
            <4>1. PICK k \in 2..(i + 1) : /\ used[i] = Suffixed(bases[i], k)
                                          /\ Below(used, bases[i], k, i - 1)
                BY <3>2 DEF FirstFree, TypeOK
            <4>2. Below(used', bases[i], k, i - 1)
                BY <2>1, <2>2, <4>1
            <4> QED
                BY <2>1, <4>1, <4>2
        <3> QED
            BY <3>1, <3>2
    <2>4. \/ used'[n + 1] = bases'[n + 1]
          \/ \E k \in 2..(n + 2) : /\ used'[n + 1] = Suffixed(bases'[n + 1], k)
                                   /\ Below(used', bases'[n + 1], k, n)
        <3>1. pc = "loop" /\ suffix <= n + 2 /\ suffix \in Nat
            BY <1>1, LoopBound DEF Return, SuffixBounded, TypeOK
        <3>2. CASE cand = base
            BY <2>1, <3>2
        <3>3. CASE /\ suffix > 2 /\ cand = Suffixed(base, suffix - 1)
                   /\ Below(used, base, suffix - 1, n)
            <4>1. Below(used', base, suffix - 1, n)
                BY <2>1, <2>2, <3>1, <3>3
            <4>2. suffix - 1 \in 2..(n + 2)
                BY <2>1, <3>1, <3>3
            <4> QED
                BY <2>1, <3>3, <4>1, <4>2
        <3> QED
            BY <3>1, <3>2, <3>3 DEF LoopInv
    <2> QED
        BY <2>1, <2>3, <2>4 DEF FirstFree
<1>2. CASE UNCHANGED <<used, bases>>
    BY <1>2 DEF FirstFree, Below, Among
<1> QED
    BY <1>1, <1>2 DEF Next, Call, Retry, Return, vars

\* The inductive invariant holds throughout.
THEOREM NamesInvariant == Spec => []Inv
<1>1. Init => Inv
    BY NamesAssumption DEF Init, Inv, TypeOK, LoopInv, Distinct, FirstFree, Name
<1>2. Inv /\ [Next]_vars => Inv'
    BY TypeStep, LoopStep, DistinctStep, FirstFreeStep DEF Inv
<1> QED
    BY <1>1, <1>2, PTL DEF Spec

\* Type correctness of the naming loop.
THEOREM NamesTypeOK == Spec => []TypeOK
<1>1. Inv => TypeOK
    BY DEF Inv
<1> QED
    BY <1>1, NamesInvariant, PTL

\* The proxies of an emitted configuration have pairwise different names,
\* whatever names the subscription gives its nodes.
THEOREM NamesDistinct == Spec => []Distinct
<1>1. Inv => Distinct
    BY DEF Inv
<1> QED
    BY <1>1, NamesInvariant, PTL

\* Every node has the first name that was free when its turn came.
THEOREM NamesFirstFree == Spec => []FirstFree
<1>1. Inv => FirstFree
    BY DEF Inv
<1> QED
    BY <1>1, NamesInvariant, PTL

\* `int suffix` is bounded by the number of nodes.
THEOREM NamesSuffixBounded == Spec => []SuffixBounded
<1>1. Inv => SuffixBounded
    BY LoopBound DEF Inv
<1> QED
    BY <1>1, NamesInvariant, PTL
=============================================================================
