--------------------------- MODULE SubconvdProofs ---------------------------
(***************************************************************************)
(* The process around the server, for every set of options, connections and *)
(* requests: what holds of the server holds over every start, signal, crash  *)
(* and respawn, and a graceful end is one.                                   *)
(***************************************************************************)
EXTENDS Subconvd, ServerProofs

\* main() is the only one to stop the daemon, and does it once, on a signal;
\* before the bind and behind the end there are no clients.
MainInv ==
    /\ quit <=> main = "stopping"
    /\ g_stop => main \in {"sigterm", "loop", "stopping"}
    /\ main = "stopping" => g_stop
    /\ sock # None => main \in {"announce", "sigint", "sigterm", "loop", "stopping"}
    /\ sock = None => \A c \in Conns : phase[c] = "closed"

ProcessInv == Inv /\ MainInv

\* A process that has ended, and one that has not yet started, are the same to
\* the server.
LEMMA EndIsFresh ==
    ASSUME NEW how, End(how)
    PROVE  ProcessInv'
<1> USE ServerAssumption
<1>1. TypeOK'
  <2>1. data' \in [Bufs -> Seq(Chunks)]
    BY DEF End
  <2>2. /\ phase' \in [Conns -> {"closed", "idle", "head", "body", "run", "reply"}]
        /\ req' \in [Conns -> Requests \cup {None}]
        /\ sent' \in [Conns -> Nat] /\ got' \in [Conns -> Nat]
        /\ gone' \in [Conns -> BOOLEAN]
        /\ resp' \in [Conns -> Responses \cup {None}]
        /\ con_cls' \in [Conns -> Bufs \cup {None}]
    BY DEF End
  <2>3. QED
    BY <2>1, <2>2 DEF End, TypeOK
<1>2. Ownership' /\ BodyIntegrity' /\ SelfFetchFails'
  BY DEF End, Ownership, BodyIntegrity, SelfFetchFails
<1>3. Control' /\ Fetching'
  BY DEF End, Control, ThreadInv, ConnInv, Fetching, Busy
<1>4. MainInv'
  BY DEF End, MainInv
<1>5. QED
  BY <1>1, <1>2, <1>3, <1>4 DEF ProcessInv, Inv

\* Of the server's steps only RequestStop raises the flag.
LEMMA LoopKeepsQuit ==
    ASSUME Loop
    PROVE  quit' = quit
<1> USE DEF Close, Answer, Leave
<1>1. ASSUME NEW c \in Conns, Client(c)
      PROVE  quit' = quit
  BY <1>1 DEF Client, Connect, SendHead, SendChunk, Hangup
<1>2. ASSUME NEW c \in Conns, Serve(c)
      PROVE  quit' = quit
  BY <1>2 DEF Serve, FirstCall, UploadCall, FinalCall, StartFetch, HeadersNoMemory,
              SendReply, NoticeHangup, InactivityClose
<1>3. CASE Convert
  BY <1>3 DEF Convert, FetchReturn, RejectFetch, RunConverter
<1>4. CASE Shutdown
  BY <1>4 DEF Shutdown, LeaveLoop, CloseOnStop, ThreadExit
<1>5. QED
  BY <1>1, <1>2, <1>3, <1>4 DEF Loop

LEMMA ProcessStep == ProcessInv /\ [SubconvdNext]_all => ProcessInv'
<1> SUFFICES ASSUME ProcessInv, [SubconvdNext]_all PROVE ProcessInv'
  OBVIOUS
<1> USE DEF ProcessInv
<1>1. ASSUME NEW how, End(how) PROVE ProcessInv'
  BY <1>1, EndIsFresh
<1>2. ASSUME UNCHANGED vars, MainInv' PROVE ProcessInv'
  BY <1>2, ServerStep
<1>3. ASSUME NEW sig \in DOMAIN Handled, Terminate(sig) PROVE ProcessInv'
  <2>1. CASE main \in Handled[sig]
    <3>1. main \in {"sigterm", "loop", "stopping"}
      BY <2>1 DEF Handled
    <3>2. g_stop' = TRUE /\ UNCHANGED <<vars, main, sock>>
      BY <1>3, <2>1 DEF Terminate
    <3>3. QED
      BY <1>2, <3>1, <3>2 DEF MainInv, vars
  <2>2. CASE main \notin Handled[sig]
    BY <1>1, <1>3, <2>2 DEF Terminate
  <2>3. QED
    BY <2>1, <2>2
<1>4. CASE Launch
  BY <1>2, <1>4 DEF Launch, MainInv, vars
<1>5. CASE ParseArgs
  BY <1>1, <1>2, <1>5 DEF ParseArgs, EndsItself, MainInv, vars
<1>6. CASE StartServer
  <2>1. CASE End("failed")
    BY <1>1, <2>1
  <2>2. CASE main = "start" /\ main' = "announce" /\ UNCHANGED <<vars, g_stop>>
    <3>1. phase' = phase /\ quit' = quit
      BY <2>2 DEF vars
    <3>2. \A c \in Conns : phase[c] = "closed"
      BY <2>2 DEF MainInv
    <3>3. QED
      BY <1>2, <2>2, <3>1, <3>2 DEF MainInv
  <2>3. QED
    BY <1>6, <2>1, <2>2 DEF StartServer, EndsItself
<1>7. CASE Announce
  BY <1>2, <1>7 DEF Announce, MainInv, vars
<1>8. CASE InstallSigint \/ InstallSigterm
  BY <1>2, <1>8 DEF InstallSigint, InstallSigterm, MainInv, vars
<1>9. CASE LeaveSleepLoop
  <2>1. Inv'
    BY <1>9, ServerStep DEF LeaveSleepLoop, Next
  <2>2. MainInv'
    BY <1>9 DEF LeaveSleepLoop, RequestStop, MainInv
  <2>3. QED
    BY <2>1, <2>2
<1>10. CASE StopReturns
  BY <1>1, <1>10 DEF StopReturns, EndsItself
<1>11. CASE Loop
  <2>1. Inv'
    BY <1>11, ServerStep DEF Loop, Next
  <2>2. sock # None /\ UNCHANGED process
    BY <1>11 DEF Loop
  <2>3. MainInv'
    BY <1>11, <2>2, LoopKeepsQuit DEF MainInv, process
  <2>4. QED
    BY <2>1, <2>3
<1>12. CASE ServiceStop \/ StraySignal
  <2>1. ASSUME UNCHANGED <<vars, main, sock, g_stop>> PROVE ProcessInv'
    BY <1>2, <2>1 DEF MainInv, vars
  <2>2. "SIGTERM" \in DOMAIN Handled
    BY DEF Handled
  <2>3. QED
    BY <1>3, <1>12, <2>1, <2>2 DEF ServiceStop, StraySignal
<1>13. CASE ServiceStart
  BY <1>2, <1>13 DEF ServiceStart, MainInv, vars
<1>14. CASE Crash
  BY <1>1, <1>14 DEF Crash, EndsItself
<1>15. CASE UNCHANGED all
  BY <1>2, <1>15 DEF all, process, vars, MainInv
<1>16. QED
  BY <1>4, <1>5, <1>6, <1>7, <1>8, <1>9, <1>10, <1>11, <1>12, <1>13, <1>14, <1>15
  DEF SubconvdNext, Main

LEMMA ProcessInitially == SubconvdInit => ProcessInv
<1> SUFFICES ASSUME SubconvdInit PROVE ProcessInv
  OBVIOUS
<1>1. Inv
  BY ServerInitially DEF SubconvdInit
<1>2. MainInv
  BY DEF SubconvdInit, Init, MainInv
<1>3. QED
  BY <1>1, <1>2 DEF ProcessInv

\* The server's inductive invariant holds over every launch, signal, crash and
\* respawn, and main() stops the daemon once and only on a signal.
THEOREM SubconvdInvariant == SubconvdSpec => []ProcessInv
  BY ProcessInitially, ProcessStep, PTL DEF SubconvdSpec

\* The server keeps its promises in every process, whatever ended the one
\* before: no buffer leaked, shared or freed twice, no body mixed with another,
\* no data from a fetch of the daemon itself, nothing behind the thread's exit.
THEOREM SubconvdServerSafe ==
    SubconvdSpec => [](Ownership /\ BodyIntegrity /\ NoTempLeak /\ SelfFetchFails /\ CleanExit)
<1>1. ProcessInv => Ownership /\ BodyIntegrity /\ NoTempLeak /\ SelfFetchFails /\ CleanExit
  BY InvCleanExit, InvNoTempLeak DEF ProcessInv, Inv
<1>2. QED
  BY <1>1, SubconvdInvariant, PTL

\* A process that returns from main has seen its polling thread exit, with
\* every connection closed and every buffer and temporary freed.
THEOREM SubconvdGracefulEnd == SubconvdSpec => GracefulEnd
<1> DEFINE Clean == /\ thread = "exited" /\ allocated = {} /\ temps = {}
                    /\ \A c \in Conns : phase[c] = "closed"
<1>1. ASSUME ProcessInv, [SubconvdNext]_all, exit # "graceful", exit' = "graceful"
      PROVE  Clean
  <2>1. thread = "exited"
    <3>1. \A how : End(how) => exit' = how
      BY DEF End
    <3>2. ~ UNCHANGED exit
      BY <1>1
    <3>3. ~ Launch /\ ~ Loop /\ ~ ServiceStart /\ ~ Crash
      BY <1>1, <3>1, <3>2 DEF Launch, Loop, process, ServiceStart, Crash, EndsItself
    <3>4. ~ ServiceStop /\ ~ StraySignal
      BY <1>1, <3>1, <3>2 DEF ServiceStop, StraySignal, Terminate
    <3>5. ~ ParseArgs /\ ~ StartServer /\ ~ Announce
          /\ ~ InstallSigint /\ ~ InstallSigterm /\ ~ LeaveSleepLoop
      BY <1>1, <3>1, <3>2
      DEF ParseArgs, StartServer, Announce, InstallSigint, InstallSigterm,
          LeaveSleepLoop, EndsItself
    <3>6. StopReturns
      BY <1>1, <3>2, <3>3, <3>4, <3>5 DEF SubconvdNext, Main, all, process
    <3>7. QED
      BY <3>6 DEF StopReturns
  <2>2. CleanExit
    BY <1>1, InvCleanExit DEF ProcessInv
  <2>3. QED
    BY <2>1, <2>2 DEF CleanExit
<1>2. ProcessInv /\ [SubconvdNext]_all
        => [exit # "graceful" /\ exit' = "graceful" => Clean]_all
  BY <1>1
<1>3. QED
  BY <1>2, SubconvdInvariant, PTL DEF SubconvdSpec, GracefulEnd
=============================================================================
