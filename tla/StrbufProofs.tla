---------------------------- MODULE StrbufProofs ----------------------------
(***************************************************************************)
(* Strbuf for every set of operations, first capacity and SIZE_MAX: its     *)
(* invariants, and that the memory read as a text is a ByteString.           *)
(***************************************************************************)
EXTENDS Strbuf, SequenceTheorems, TLAPS

\* The operations that go through strbuf_reserve.
Reserving == {"append", "appendf", "reserve"}

\* What the owner's operation has established by each of its steps.
Progress ==
    /\ len <= cap
    /\ pc \in {"reserve", "grow", "write"} => job.op \in Reserving
    /\ pc = "clear" => job.op = "clear"
    /\ pc = "free" => job.op = "free"
    /\ pc = "grow" => cap < Need /\ Need <= SizeMax /\ 0 < ncap

\* The inductive invariant.
StrbufInv == StrbufTypeOK /\ WellFormed /\ Progress

\* The state of an operation in progress, with the sizes it computes.
LEMMA JobType ==
    ASSUME StrbufTypeOK, job # None
    PROVE  /\ job \in Jobs /\ job.op \in Ops /\ job.bytes \in Seq(Bytes)
           /\ extra \in Nat /\ Need \in Nat /\ Need = len + extra + 1
  BY StrbufAssumption DEF StrbufTypeOK, extra, Need

\* A write that fits changes the text, its terminator and nothing else.
LEMMA StoredText ==
    ASSUME StrbufTypeOK, NEW at \in Nat, NEW s \in Seq(Bytes)
    PROVE  /\ Stored(at, s) \in [0..(cap - 1) -> Bytes \cup {Nul, Junk}]
           /\ \A k \in 0..(cap - 1) :
                /\ k < at => Stored(at, s)[k] = data[k]
                /\ k \in at..(at + Len(s) - 1) => Stored(at, s)[k] = s[k - at + 1]
                /\ k = at + Len(s) => Stored(at, s)[k] = Nul
<1>1. DOMAIN data = 0..(cap - 1) /\ cap \in Nat
  BY DEF StrbufTypeOK
<1>2. \A k \in 0..(cap - 1) : data[k] \in Bytes \cup {Nul, Junk}
  BY DEF StrbufTypeOK
<1>3. Len(s) \in Nat /\ \A p \in 1..Len(s) : s[p] \in Bytes
  BY ElementOfSeq
<1>4. \A k \in at..(at + Len(s) - 1) : k - at + 1 \in 1..Len(s)
  BY <1>3
<1>5. QED
  BY <1>1, <1>2, <1>3, <1>4 DEF Stored

LEMMA StrbufInitially == StrbufInit => StrbufInv
  BY StrbufAssumption
  DEF StrbufInit, StrbufInv, StrbufTypeOK, WellFormed, Progress

LEMMA StrbufStep == StrbufInv /\ [StrbufNext]_strbuf => StrbufInv'
<1> SUFFICES ASSUME StrbufInv, [StrbufNext]_strbuf PROVE StrbufInv'
  OBVIOUS
<1> USE StrbufAssumption DEF StrbufInv
<1>1. ASSUME NEW j \in Jobs, Call(j) PROVE StrbufInv'
  <2>1. j \in [op: Ops, bytes: Seq(Bytes)] /\ j # None
    OBVIOUS
  <2>2. StrbufTypeOK'
    BY <1>1, <2>1 DEF Call, StrbufTypeOK, Ops
  <2>3. WellFormed'
    BY <1>1, <2>1 DEF Call, WellFormed, Ops
  <2>4. Progress'
    BY <1>1, <2>1 DEF Call, Progress, Reserving, Ops
  <2>5. QED
    BY <2>2, <2>3, <2>4
<1>2. CASE Reserve
  <2>1. pc = "reserve" /\ job # None /\ UNCHANGED <<data, len, cap>>
    BY <1>2 DEF Reserve, StrbufTypeOK
  <2>2. job \in Jobs /\ extra \in Nat /\ Need \in Nat /\ Need = len + extra + 1
    BY <2>1, JobType
  <2>3. CASE oom_abort /\ UNCHANGED ncap
    BY <2>1, <2>3 DEF oom_abort, StrbufTypeOK, WellFormed, Progress
  <2>4. CASE Need <= cap /\ pc' = "write" /\ UNCHANGED <<ncap, job>>
    <3>1. extra' = extra
      BY <2>4 DEF extra
    <3>2. QED
      BY <2>1, <2>2, <2>4, <3>1 DEF StrbufTypeOK, WellFormed, Progress
  <2>5. CASE /\ extra < SizeMax - len /\ Need > cap
             /\ ncap' = IF cap > 0 THEN cap ELSE FirstCap
             /\ pc' = "grow" /\ UNCHANGED job
    <3>1. Need' = Need
      BY <2>1, <2>5 DEF Need, extra
    <3>2. Need <= SizeMax /\ ncap' \in Nat /\ 0 < ncap' /\ ncap' <= SizeMax
      BY <2>1, <2>2, <2>5 DEF StrbufTypeOK, WellFormed
    <3>3. QED
      BY <2>1, <2>2, <2>5, <3>1, <3>2 DEF StrbufTypeOK, WellFormed, Progress
  <2>6. QED
    BY <1>2, <2>3, <2>4, <2>5 DEF Reserve
<1>3. CASE Double
  <2>1. pc = "grow" /\ job # None /\ UNCHANGED <<data, len, cap>>
    BY <1>3 DEF Double, StrbufTypeOK
  <2>2. CASE oom_abort /\ UNCHANGED ncap
    BY <2>1, <2>2 DEF oom_abort, StrbufTypeOK, WellFormed, Progress
  <2>3. CASE ncap <= SizeMax \div 2 /\ ncap' = ncap * 2 /\ UNCHANGED <<job, pc>>
    <3>1. Need' = Need
      BY <2>1, <2>3 DEF Need, extra
    <3>2. ncap' \in Nat /\ 0 < ncap' /\ ncap' <= SizeMax
      BY <2>1, <2>3 DEF StrbufTypeOK, Progress
    <3>3. QED
      BY <2>1, <2>3, <3>1, <3>2 DEF StrbufTypeOK, WellFormed, Progress
  <2>4. QED
    BY <1>3, <2>1, <2>2, <2>3 DEF Double, StrbufTypeOK
<1>4. CASE Realloc
  <2>1. pc = "grow" /\ ncap >= Need /\ job # None /\ UNCHANGED <<len, ncap>>
    BY <1>4 DEF Realloc, StrbufTypeOK
  <2>2. extra \in Nat /\ Need = len + extra + 1 /\ cap < Need /\ job.op \in Reserving
    BY <2>1, JobType DEF Progress
  <2>3. CASE oom_abort /\ UNCHANGED <<data, cap>>
    BY <2>1, <2>3 DEF oom_abort, StrbufTypeOK, WellFormed, Progress
  <2>4. CASE /\ data' = [k \in 0..(ncap - 1) |-> IF k < cap THEN data[k] ELSE Junk]
             /\ cap' = ncap /\ pc' = "write" /\ UNCHANGED job
    <3>1. extra' = extra /\ len + extra < ncap
      BY <2>1, <2>2, <2>4 DEF extra, StrbufTypeOK
    <3>2. \A k \in 0..(ncap - 1) : k < cap => k \in 0..(cap - 1) /\ data'[k] = data[k]
      BY <2>4 DEF StrbufTypeOK
    <3>3. StrbufTypeOK'
      BY <2>1, <2>4, <3>2 DEF StrbufTypeOK
    <3>4. \/ len < ncap /\ data'[len] = Nul
          \/ len = 0 /\ \A k \in DOMAIN data' : data'[k] = Junk
      <4>1. CASE cap = 0
        BY <2>4, <4>1 DEF Progress, StrbufTypeOK
      <4>2. CASE cap > 0 /\ len < cap /\ data[len] = Nul
        BY <2>1, <2>2, <3>1, <3>2, <4>2 DEF StrbufTypeOK
      <4>3. CASE cap > 0 /\ len = 0 /\ \A k \in DOMAIN data : data[k] = Junk
        BY <2>4, <4>3 DEF StrbufTypeOK
      <4>4. QED
        BY <4>1, <4>2, <4>3 DEF WellFormed, StrbufTypeOK
    <3>5. QED
      BY <2>1, <2>2, <2>4, <3>1, <3>3, <3>4 DEF WellFormed, Progress, StrbufTypeOK
  <2>5. QED
    BY <1>4, <2>3, <2>4 DEF Realloc
<1>5. CASE Write
  <2>1. pc = "write" /\ job # None /\ pc' = "idle" /\ job' = None /\ UNCHANGED <<cap, ncap>>
    BY <1>5 DEF Write, StrbufTypeOK
  <2>2. extra \in Nat /\ job.bytes \in Seq(Bytes) /\ len + extra < cap
    BY <2>1, JobType DEF WellFormed
  <2>3. CASE UNCHANGED <<data, len>>
    BY <2>1, <2>3 DEF StrbufTypeOK, WellFormed, Progress
  <2>4. CASE data' = Stored(len, job.bytes) /\ len' = len + extra
    <3>1. len \in Nat /\ cap \in Nat /\ len + extra \in 0..(cap - 1)
      BY <2>2 DEF StrbufTypeOK
    <3>2. data' \in [0..(cap - 1) -> Bytes \cup {Nul, Junk}] /\ data'[len + extra] = Nul
      BY <2>2, <2>4, <3>1, StoredText DEF extra
    <3>3. QED
      BY <2>1, <2>2, <2>4, <3>1, <3>2 DEF StrbufTypeOK, WellFormed, Progress
  <2>5. QED
    BY <1>5, <2>2, <2>3, <2>4 DEF Write, StrbufTypeOK
<1>6. CASE Clear
  <2>1. /\ data' = Stored(0, << >>) /\ len' = 0
        /\ pc' = "idle" /\ job' = None /\ UNCHANGED <<cap, ncap>>
    BY <1>6 DEF Clear
  <2>2. << >> \in Seq(Bytes) /\ Len(<< >>) = 0
    OBVIOUS
  <2>3. /\ data' \in [0..(cap - 1) -> Bytes \cup {Nul, Junk}]
        /\ cap > 0 => data'[0] = Nul
    <3>1. StrbufTypeOK /\ 0 \in Nat
      OBVIOUS
    <3>2. data' \in [0..(cap - 1) -> Bytes \cup {Nul, Junk}]
      BY <2>1, <2>2, <3>1, StoredText
    <3>3. ASSUME cap > 0 PROVE data'[0] = Nul
      <4>1. 0 \in 0..(cap - 1)
        BY <3>3 DEF StrbufTypeOK
      <4>2. QED
        BY <2>1, <2>2, <4>1 DEF Stored, StrbufTypeOK
    <3>4. QED
      BY <3>2, <3>3
  <2>4. QED
    BY <2>1, <2>3 DEF StrbufTypeOK, WellFormed, Progress
<1>7. CASE Free
  BY <1>7 DEF Free, StrbufTypeOK, WellFormed, Progress
<1>8. CASE UNCHANGED strbuf
  BY <1>8 DEF strbuf, StrbufTypeOK, WellFormed, Progress, Need, extra
<1>9. QED
  BY <1>1, <1>2, <1>3, <1>4, <1>5, <1>6, <1>7, <1>8 DEF StrbufNext, Work

\* The inductive invariant of a strbuf.
THEOREM StrbufInvariant == StrbufSpec => []StrbufInv
  BY StrbufInitially, StrbufStep, PTL DEF StrbufSpec

\* No size of a strbuf wraps, every write fits with its terminator, and between
\* two operations the text is terminated.
THEOREM StrbufWellFormed == StrbufSpec => []WellFormed
<1>1. StrbufInv => WellFormed
  BY DEF StrbufInv
<1>2. QED
  BY <1>1, StrbufInvariant, PTL

-----------------------------------------------------------------------------
(* Refinement *)

Text == [k \in 1..len |-> data[k - 1]]

LEMMA TextIsSeq ==
    ASSUME StrbufInv
    PROVE  Text \in Seq(Bytes \cup {Nul, Junk}) /\ Len(Text) = len
<1>1. len \in Nat /\ \A k \in 1..len : k - 1 \in 0..(cap - 1)
  BY DEF StrbufInv, StrbufTypeOK, Progress
<1>2. \A k \in 1..len : data[k - 1] \in Bytes \cup {Nul, Junk}
  BY <1>1 DEF StrbufInv, StrbufTypeOK
<1>3. QED
  BY <1>1, <1>2 DEF Text

\* What lies behind len is no part of the text.
LEMMA TextKept ==
    ASSUME len' = len, \A k \in 1..len : data'[k - 1] = data[k - 1]
    PROVE  Text' = Text
  BY DEF Text

\* A stored string whose terminator fits extends the text.
LEMMA TextAppended ==
    ASSUME StrbufInv, NEW s \in Seq(Bytes), len + Len(s) < cap,
           data' = Stored(len, s), len' = len + Len(s)
    PROVE  Text' = Text \o s
<1> DEFINE S == Bytes \cup {Nul, Junk}
<1>1. /\ len \in Nat /\ cap \in Nat /\ Len(s) \in Nat
      /\ StrbufTypeOK
  BY DEF StrbufInv, StrbufTypeOK
<1>2. Text \in Seq(S) /\ Len(Text) = len /\ s \in Seq(S)
  BY TextIsSeq, SeqMonotonic
<1>3. /\ Text \o s \in Seq(S) /\ Len(Text \o s) = len + Len(s)
      /\ \A i \in 1..(len + Len(s)) :
            (Text \o s)[i] = IF i <= len THEN Text[i] ELSE s[i - len]
  BY <1>2, ConcatProperties
<1> HIDE DEF S
<1>4. \A k \in 0..(cap - 1) :
         /\ k < len => data'[k] = data[k]
         /\ k \in len..(len + Len(s) - 1) => data'[k] = s[k - len + 1]
  BY <1>1, StoredText
<1>5. ASSUME NEW i \in 1..(len + Len(s))
      PROVE  data'[i - 1] = (Text \o s)[i]
  <2>1. i \in Nat /\ i - 1 \in 0..(cap - 1)
    BY <1>1
  <2>2. CASE i <= len
    <3>1. data'[i - 1] = data[i - 1]
      BY <1>1, <1>4, <2>1, <2>2
    <3>2. Text[i] = data[i - 1]
      BY <1>1, <2>1, <2>2 DEF Text
    <3>3. QED
      BY <1>3, <2>2, <3>1, <3>2
  <2>3. CASE ~(i <= len)
    <3>1. i - 1 \in len..(len + Len(s) - 1)
      BY <1>1, <2>1, <2>3
    <3>2. data'[i - 1] = s[i - 1 - len + 1]
      BY <1>4, <2>1, <3>1
    <3>3. i - 1 - len + 1 = i - len
      BY <1>1, <2>1
    <3>4. QED
      BY <1>3, <2>3, <3>2, <3>3
  <2>4. QED
    BY <2>2, <2>3
<1>6. Text' = [i \in 1..(len + Len(s)) |-> (Text \o s)[i]]
  BY <1>5 DEF Text
<1>7. Text \o s = [i \in 1..(len + Len(s)) |-> (Text \o s)[i]]
  BY <1>1, <1>3, LenProperties
<1>8. QED
  BY <1>6, <1>7

LEMMA StringInitially == StrbufInit => Contents!StringInit
  BY DEF StrbufInit, Contents!StringInit

\* Calls, writes, clears, frees and aborts are steps of the text; measuring,
\* doubling and reallocating are none.
LEMMA StringStep ==
    StrbufInv /\ [StrbufNext]_strbuf => [Contents!StringNext]_(Contents!stringVars)
<1> SUFFICES ASSUME StrbufInv, [StrbufNext]_strbuf
             PROVE  [Contents!StringNext]_(Contents!stringVars)
  OBVIOUS
<1> USE StrbufAssumption DEF Contents!StringNext, Contents!stringVars
<1>1. StrbufTypeOK /\ WellFormed /\ Progress
  BY DEF StrbufInv
<1>2. ASSUME NEW j \in Jobs, Call(j) PROVE Contents!Ask
  <2>1. j # None /\ job = None /\ job' = j /\ pc # "aborted" /\ pc' # "aborted"
    BY <1>1, <1>2 DEF Call, StrbufTypeOK, Ops
  <2>2. UNCHANGED <<data, len>>
    BY <1>2 DEF Call
  <2>3. QED
    BY <2>1, <2>2 DEF Contents!Ask
<1>3. ASSUME oom_abort, pc # "aborted", job # None, UNCHANGED <<data, len>>
      PROVE  Contents!Abort
  BY <1>3 DEF oom_abort, Contents!Abort
<1>4. ASSUME pc # "aborted", pc' # "aborted", UNCHANGED job, Text' = Text
      PROVE  UNCHANGED Contents!stringVars
  BY <1>4 DEF Text
<1>5. ASSUME pc \notin {"idle", "aborted"}, job # None, pc' = "idle", job' = None,
             Text' = Contents!Effect(Text, job)
      PROVE  Contents!Answer
  BY <1>5 DEF Contents!Answer, Text
<1>6. CASE Reserve
  <2>1. pc = "reserve" /\ job # None /\ UNCHANGED <<data, len>>
    BY <1>1, <1>6 DEF Reserve, StrbufTypeOK
  <2>2. Text' = Text
    BY <2>1 DEF Text
  <2>3. QED
    BY <1>3, <1>4, <1>6, <2>1, <2>2 DEF Reserve
<1>7. CASE Double
  <2>1. pc = "grow" /\ job # None /\ UNCHANGED <<data, len>>
    BY <1>1, <1>7 DEF Double, StrbufTypeOK
  <2>2. Text' = Text
    BY <2>1 DEF Text
  <2>3. QED
    BY <1>3, <1>4, <1>7, <2>1, <2>2 DEF Double
<1>8. CASE Realloc
  <2>1. pc = "grow" /\ job # None /\ ncap >= Need /\ UNCHANGED len
    BY <1>1, <1>8 DEF Realloc, StrbufTypeOK
  <2>2. CASE oom_abort /\ UNCHANGED <<data, cap>>
    BY <1>3, <2>1, <2>2
  <2>3. CASE /\ data' = [k \in 0..(ncap - 1) |-> IF k < cap THEN data[k] ELSE Junk]
             /\ cap' = ncap /\ pc' = "write" /\ UNCHANGED job
    <3>1. cap < Need /\ Need \in Nat
      BY <1>1, <2>1, JobType DEF Progress
    <3>2. \A k \in 1..len : k - 1 < cap /\ k - 1 \in 0..(ncap - 1)
      BY <1>1, <2>1, <3>1 DEF StrbufTypeOK, Progress
    <3>3. \A k \in 1..len : data'[k - 1] = data[k - 1]
      BY <2>3, <3>2
    <3>4. Text' = Text
      BY <2>1, <3>3, TextKept
    <3>5. QED
      BY <1>4, <2>1, <2>3, <3>4
  <2>4. QED
    BY <1>8, <2>2, <2>3 DEF Realloc
<1>9. CASE Write
  <2>1. pc = "write" /\ job # None /\ pc' = "idle" /\ job' = None
    BY <1>1, <1>9 DEF Write, StrbufTypeOK
  <2>2. job.bytes \in Seq(Bytes) /\ extra = Len(job.bytes) /\ extra \in Nat /\ len + extra < cap
    BY <1>1, <2>1, JobType DEF WellFormed, extra
  <2>3. CASE job.op = "reserve" /\ UNCHANGED <<data, len>>
    <3>1. Text' = Text /\ Contents!Effect(Text, job) = Text
      BY <2>3 DEF Text, Contents!Effect
    <3>2. QED
      BY <1>5, <2>1, <3>1
  <2>4. CASE /\ job.op \in {"append", "appendf"}
             /\ data' = Stored(len, job.bytes) /\ len' = len + extra
    <3>1. Text' = Text \o job.bytes
      BY <2>2, <2>4, TextAppended
    <3>2. Contents!Effect(Text, job) = Text \o job.bytes
      BY <2>4 DEF Contents!Effect
    <3>3. QED
      BY <1>5, <2>1, <3>1, <3>2
  <2>5. QED
    <3>1. extra < cap - len
      BY <1>1, <2>2 DEF StrbufTypeOK
    <3>2. QED
      BY <1>9, <2>3, <2>4, <3>1 DEF Write
<1>10. CASE Clear \/ Free
  <2>1. /\ pc \in {"clear", "free"} /\ job # None /\ pc' = "idle" /\ job' = None
        /\ job.op \in {"clear", "free"} /\ len' = 0
    BY <1>1, <1>10 DEF Clear, Free, StrbufTypeOK, Progress
  <2>2. Text' = << >>
    BY <2>1 DEF Text
  <2>3. Contents!Effect(Text, job) = << >>
    BY <2>1 DEF Contents!Effect
  <2>4. QED
    BY <1>5, <2>1, <2>2, <2>3
<1>11. CASE UNCHANGED strbuf
  BY <1>11 DEF strbuf
<1>12. QED
  BY <1>2, <1>6, <1>7, <1>8, <1>9, <1>10, <1>11 DEF StrbufNext, Work

\* The memory, read up to len, behaves as a byte string to its owner: growth
\* moves no byte and no operation shows half done.
THEOREM StrbufImplements == StrbufSpec => ImplementsByteString
  BY StrbufInvariant, StringInitially, StringStep, PTL
  DEF StrbufSpec, ImplementsByteString, Contents!StringSpec
=============================================================================
