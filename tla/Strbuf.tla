------------------------------- MODULE Strbuf -------------------------------
(***************************************************************************)
(* The strbuf of util.c, byte by byte of its memory: each operation of its  *)
(* owner measures what it needs, doubles the capacity until that fits,      *)
(* reallocates and writes.                                                   *)
(***************************************************************************)
EXTENDS Naturals, Sequences

CONSTANTS
    Jobs,     \* the operations an owner may ask for
    Bytes,    \* what a text is made of
    Nul,      \* the terminator
    Junk,     \* what memory holds before it is written
    FirstCap, \* 32
    SizeMax,  \* SIZE_MAX
    None

Ops == {"append", "appendf", "reserve", "clear", "free"}

ASSUME StrbufAssumption ==
    /\ Jobs \subseteq [op: Ops, bytes: Seq(Bytes)]
    /\ FirstCap \in Nat \ {0} /\ SizeMax \in Nat /\ FirstCap <= SizeMax
    /\ Nul # Junk /\ Junk \notin Bytes
    /\ None \notin Jobs

VARIABLES
    data, \* the memory, data[0] to data[cap - 1]
    len,
    cap,  \* 0: data is NULL
    ncap, \* strbuf_grow's local
    job,  \* the operation in progress
    pc

strbuf == <<data, len, cap, ncap, job, pc>>

StrbufInit ==
    /\ data = [k \in {} |-> Junk] /\ len = 0 /\ cap = 0 /\ ncap = 0
    /\ job = None /\ pc = "idle"

-----------------------------------------------------------------------------
\* The owner calls; vsnprintf has already measured what appendf will print.
Call(j) ==
    /\ pc = "idle"
    /\ job' = j
    /\ pc' = IF j.op \in {"clear", "free"} THEN j.op ELSE "reserve"
    /\ UNCHANGED <<data, len, cap, ncap>>

oom_abort == pc' = "aborted" /\ job' = None

extra == Len(job.bytes)  \* of reserve: as many bytes as it asks room for

\* Mutant: no room for the terminator.
NeedBare == len + extra

Need == len + extra + 1

\* strbuf_reserve, up to strbuf_grow's loop.
Reserve ==
    /\ pc = "reserve"
    /\ \/ extra >= SizeMax - len /\ oom_abort /\ UNCHANGED ncap
       \/ /\ extra < SizeMax - len /\ Need <= cap
          /\ pc' = "write" /\ UNCHANGED <<ncap, job>>
       \/ /\ extra < SizeMax - len /\ Need > cap
          /\ ncap' = IF cap > 0 THEN cap ELSE FirstCap
          /\ pc' = "grow" /\ UNCHANGED job
    /\ UNCHANGED <<data, len, cap>>

\* Mutant: nothing keeps the capacity from wrapping.
DoubleWraps ==
    /\ pc = "grow" /\ ncap < Need
    /\ ncap' = (ncap * 2) % (SizeMax + 1)
    /\ UNCHANGED <<data, len, cap, job, pc>>

Double ==
    /\ pc = "grow" /\ ncap < Need
    /\ IF ncap > SizeMax \div 2 THEN oom_abort /\ UNCHANGED ncap
       ELSE ncap' = ncap * 2 /\ UNCHANGED <<job, pc>>
    /\ UNCHANGED <<data, len, cap>>

\* Mutant: a realloc that fails leaves the owner an empty buffer to go on with.
ReallocForgets ==
    /\ pc = "grow" /\ ncap >= Need
    /\ \/ /\ data' = [k \in 0..(ncap - 1) |-> IF k < cap THEN data[k] ELSE Junk]
          /\ cap' = ncap /\ pc' = "write"
          /\ UNCHANGED <<len, job>>
       \/ /\ data' = [k \in {} |-> Junk] /\ len' = 0 /\ cap' = 0
          /\ pc' = "idle" /\ job' = None
    /\ UNCHANGED ncap

Realloc ==
    /\ pc = "grow" /\ ncap >= Need
    /\ \/ /\ data' = [k \in 0..(ncap - 1) |-> IF k < cap THEN data[k] ELSE Junk]
          /\ cap' = ncap /\ pc' = "write"
          /\ UNCHANGED job
       \/ oom_abort /\ UNCHANGED <<data, cap>>
    /\ UNCHANGED <<len, ncap>>

\* s and a terminator, at an offset; bytes behind the end would go elsewhere.
Stored(at, s) ==
    [k \in DOMAIN data |-> IF k \in at..(at + Len(s) - 1) THEN s[k - at + 1]
                           ELSE IF k = at + Len(s) THEN Nul ELSE data[k]]

\* memcpy of an append; vsnprintf, which is told cap - len and cuts its output
\* to that; nothing for a reserve.
Write ==
    /\ pc = "write"
    /\ \/ job.op = "reserve" /\ UNCHANGED <<data, len>>
       \/ /\ job.op = "append"
          /\ data' = Stored(len, job.bytes) /\ len' = len + extra
       \/ /\ job.op = "appendf"
          /\ data' = Stored(len, IF extra < cap - len THEN job.bytes
                                 ELSE SubSeq(job.bytes, 1, cap - len - 1))
          /\ len' = len + extra
    /\ pc' = "idle" /\ job' = None
    /\ UNCHANGED <<cap, ncap>>

Clear ==
    /\ pc = "clear"
    /\ len' = 0
    /\ data' = Stored(0, << >>)
    /\ pc' = "idle" /\ job' = None
    /\ UNCHANGED <<cap, ncap>>

Free ==
    /\ pc = "free"
    /\ data' = [k \in {} |-> Junk] /\ len' = 0 /\ cap' = 0
    /\ pc' = "idle" /\ job' = None
    /\ UNCHANGED ncap

Work == Reserve \/ Double \/ Realloc \/ Write \/ Clear \/ Free

StrbufNext == (\E j \in Jobs : Call(j)) \/ Work

StrbufSpec == StrbufInit /\ [][StrbufNext]_strbuf /\ WF_strbuf(Work)

-----------------------------------------------------------------------------
(* Properties *)

\* Type invariant.
StrbufTypeOK ==
    /\ len \in Nat /\ cap \in Nat /\ ncap \in Nat
    /\ data \in [0..(cap - 1) -> Bytes \cup {Nul, Junk}]
    /\ job \in Jobs \cup {None}
    /\ pc \in {"idle", "reserve", "grow", "write", "clear", "free", "aborted"}
    /\ job = None <=> pc \in {"idle", "aborted"}

\* No size wraps, a write and its terminator fit into the memory, and whoever
\* reads sb.data as a string between two operations finds it terminated at len
\* (only a buffer that was reserved and never written is not).
WellFormed ==
    /\ cap <= SizeMax /\ ncap <= SizeMax
    /\ pc = "write" => len + extra < cap
    /\ cap > 0 => \/ len < cap /\ data[len] = Nul
                  \/ len = 0 /\ \A k \in DOMAIN data : data[k] = Junk

\* The memory, read as a text, is what ByteString promises: operations append,
\* clear and free as a whole, growth moves no byte, and an abort loses the
\* process and not a byte of the text.
Contents == INSTANCE ByteString
    WITH text <- [k \in 1..len |-> data[k - 1]],
         asked <- job, aborted <- (pc = "aborted")

ImplementsByteString == Contents!StringSpec

\* Every operation comes to an end: strbuf_grow's loop reaches the size it
\* needs or notices that it cannot.
GrowthEnds == pc # "idle" ~> pc \in {"idle", "aborted"}
=============================================================================
