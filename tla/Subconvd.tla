------------------------------ MODULE Subconvd ------------------------------
(***************************************************************************)
(* The subconvd process: main() parses its arguments, starts the server,   *)
(* announces it, installs the signal handlers, sleeps until g_stop and      *)
(* joins the polling thread; procd starts it, signals it and starts it      *)
(* again after it has ended, until that has happened too often.  The polling *)
(* thread and its clients are Server's actions, taken while the daemon       *)
(* listens.                                                                 *)
(***************************************************************************)
EXTENDS Server, Integers

CONSTANTS
    Options,   \* the (host, port) pairs the command line can hold
    Ephemeral, \* the ports the kernel gives to a bind of port 0
    Retry      \* the early ends in a row that procd makes good (respawn's
               \* default: 5, and early is before 3600 s)

ASSUME SubconvdAssumption ==
    /\ \A o \in Options : o.port \in Int
    /\ Ephemeral \subseteq 1..65535
    /\ Retry \in Nat \ {0}

VARIABLES
    main,    \* where main() is; "down": no process
    opts,    \* the parsed command line
    sock,    \* the address the daemon listens on
    said,    \* the address main() has printed
    g_stop,  \* the signal handler's flag
    wanted,  \* the service has been started and not stopped
    respawns, \* procd's count of early ends in a row
    exit     \* how the last process ended

procd   == <<wanted, respawns>>
process == <<main, opts, sock, said, g_stop, procd, exit>>
all     == <<vars, process>>

\* Where a signal finds its handler installed.
Handled == [SIGINT  |-> {"sigterm", "loop", "stopping"},
            SIGTERM |-> {"loop", "stopping"}]

SubconvdInit ==
    /\ Init
    /\ main = "down" /\ opts = None /\ sock = None /\ said = None
    /\ g_stop = FALSE /\ wanted = TRUE /\ respawns = 0 /\ exit = "none"

\* The process is gone: its sockets close, its memory is the kernel's again.
End(how) ==
    /\ phase' = [c \in Conns |-> "closed"] /\ req' = [c \in Conns |-> None]
    /\ sent' = [c \in Conns |-> 0] /\ got' = [c \in Conns |-> 0]
    /\ gone' = [c \in Conns |-> FALSE] /\ resp' = [c \in Conns |-> None]
    /\ con_cls' = [c \in Conns |-> None]
    /\ allocated' = {} /\ data' = [b \in Bufs |-> << >>]
    /\ thread' = "poll" /\ cur' = None /\ via' = None
    /\ temps' = {} /\ result' = None /\ quit' = FALSE
    /\ main' = "down" /\ opts' = None /\ sock' = None /\ said' = None
    /\ g_stop' = FALSE
    /\ exit' = how

\* procd counts an end that is early.  Starting takes no time; from then on a
\* process may have lived long enough.
Count ==
    respawns' \in IF ~wanted THEN {respawns}
                 ELSE {respawns + 1} \cup (IF main \in {"loop", "stopping"} THEN {0} ELSE {})

EndsItself(how) == End(how) /\ Count /\ UNCHANGED wanted

-----------------------------------------------------------------------------
(* main() *)

\* procd has seen too many early ends and respawns no more.
GaveUp == main = "down" /\ wanted /\ respawns > Retry

Launch ==
    /\ main = "down" /\ wanted /\ ~GaveUp
    /\ main' = "args"
    /\ opts' \in Options
    /\ exit' = "none"
    /\ UNCHANGED <<vars, sock, said, g_stop, procd>>

\* Only a port that is not positive is refused.
ParseArgs ==
    /\ main = "args"
    /\ \/ /\ opts.port <= 0
          /\ EndsItself("usage")
       \/ /\ opts.port > 0
          /\ main' = "start"
          /\ UNCHANGED <<vars, opts, sock, said, g_stop, procd, exit>>

\* server_create keeps the host, server_start binds (uint16_t)port on every
\* address; MHD_start_daemon may fail (the port is taken).
Bound(p) == IF p % 65536 = 0 THEN Ephemeral ELSE {p % 65536}

\* Mutant: a failed bind is tried again for ever.
StartServerRetries ==
    /\ main = "start"
    /\ \/ /\ \E p \in Bound(opts.port) : sock' = [host |-> "0.0.0.0", port |-> p]
          /\ main' = "announce"
          /\ UNCHANGED <<vars, opts, said, g_stop, procd, exit>>
       \/ main' = "args" /\ UNCHANGED <<vars, opts, sock, said, g_stop, procd, exit>>

StartServer ==
    /\ main = "start"
    /\ \/ /\ \E p \in Bound(opts.port) : sock' = [host |-> "0.0.0.0", port |-> p]
          /\ main' = "announce"
          /\ UNCHANGED <<vars, opts, said, g_stop, procd, exit>>
       \/ EndsItself("failed")

Announce ==
    /\ main = "announce"
    /\ said' = [host |-> opts.host, port |-> sock.port]
    /\ main' = "sigint"
    /\ UNCHANGED <<vars, opts, sock, g_stop, procd, exit>>

InstallSigint ==
    /\ main = "sigint"
    /\ main' = "sigterm"
    /\ UNCHANGED <<vars, opts, sock, said, g_stop, procd, exit>>

InstallSigterm ==
    /\ main = "sigterm"
    /\ main' = "loop"
    /\ UNCHANGED <<vars, opts, sock, said, g_stop, procd, exit>>

\* Mutant: main() waits until nobody is connected.
LeaveSleepLoopWhenAlone ==
    /\ main = "loop" /\ g_stop /\ \A c \in Conns : phase[c] = "closed"
    /\ RequestStop
    /\ main' = "stopping"
    /\ UNCHANGED <<opts, sock, said, g_stop, procd, exit>>

\* sleep(1) returns and the flag is up: server_stop calls MHD_stop_daemon.
LeaveSleepLoop ==
    /\ main = "loop" /\ g_stop
    /\ RequestStop
    /\ main' = "stopping"
    /\ UNCHANGED <<opts, sock, said, g_stop, procd, exit>>

\* Mutant: the thread is not joined.
StopReturnsAtOnce ==
    /\ main = "stopping"
    /\ EndsItself("graceful")

\* MHD_stop_daemon has joined the polling thread; the server is freed.
StopReturns ==
    /\ main = "stopping" /\ thread = "exited"
    /\ EndsItself("graceful")

-----------------------------------------------------------------------------
(* procd, and what can befall the process *)

\* A signal ends a process that has no handler for it yet and sets g_stop in
\* one that has.
Terminate(sig) ==
    IF main \in Handled[sig]
    THEN /\ g_stop' = TRUE
         /\ UNCHANGED <<vars, main, opts, sock, said, exit>>
    ELSE End("killed")

\* "service stop" sends SIGTERM and makes procd forget the instance.
ServiceStop ==
    /\ wanted
    /\ wanted' = FALSE /\ respawns' = 0
    /\ IF main = "down" THEN UNCHANGED <<vars, main, opts, sock, said, g_stop, exit>>
       ELSE Terminate("SIGTERM")

\* Somebody else sends a signal.
StraySignal ==
    /\ main # "down"
    /\ \E sig \in DOMAIN Handled :
         /\ Terminate(sig)
         /\ IF main \in Handled[sig] THEN UNCHANGED respawns ELSE Count
    /\ UNCHANGED wanted

ServiceStart ==
    /\ main = "down" /\ ~wanted
    /\ wanted' = TRUE
    /\ UNCHANGED <<vars, main, opts, sock, said, g_stop, respawns, exit>>

\* xstrdup and strbuf_grow abort when memory runs out, the converters may fault
\* on the data they were given.
Crash ==
    /\ sock # None
    /\ thread = "fetched" \/ \E c \in Conns : phase[c] \in {"head", "body"}
    /\ thread \in {"poll", "fetched"}
    /\ EndsItself("crash")

-----------------------------------------------------------------------------
\* The polling thread and the clients run while the daemon listens.
Loop ==
    /\ sock # None
    /\ \/ \E c \in Conns : Client(c) \/ Serve(c)
       \/ Convert
       \/ Shutdown
    /\ UNCHANGED process

Main == ParseArgs \/ StartServer \/ Announce \/ InstallSigint \/ InstallSigterm
        \/ LeaveSleepLoop \/ StopReturns

SubconvdNext ==
    \/ Launch \/ Main \/ Loop
    \/ ServiceStop \/ StraySignal \/ ServiceStart \/ Crash

\* main() runs whenever it can, procd's respawn timer ends, and the polling
\* thread is as fair as in Server.
SubconvdFairness ==
    /\ WF_all(Launch) /\ WF_all(Main)
    /\ \A c \in Conns : SF_all(Serve(c) /\ sock # None /\ UNCHANGED process)
    /\ WF_all(Convert /\ UNCHANGED process)
    /\ SF_all(Shutdown /\ sock # None /\ UNCHANGED process)

SubconvdSpec == SubconvdInit /\ [][SubconvdNext]_all /\ SubconvdFairness

-----------------------------------------------------------------------------
(* Properties *)

\* main() frees the server only behind the last use of it: a process that ends
\* by returning from main has seen its polling thread exit, every connection
\* closed, every request buffer and temporary released.
GracefulEnd ==
    [][exit # "graceful" /\ exit' = "graceful" =>
         /\ thread = "exited" /\ allocated = {} /\ temps = {}
         /\ \A c \in Conns : phase[c] = "closed"]_all

\* A request that has been received in full is answered although other clients
\* convert, stall and hang up all the time, unless its client leaves or the
\* process stops or crashes: a blocking fetch delays a request but never
\* starves it.
Answered ==
    \A c \in Conns :
        (phase[c] \in {"body", "run"} /\ sent[c] = Len(req[c].body))
            ~> (phase[c] = "reply" \/ gone[c] \/ quit \/ sock = None)

\* A caught signal ends the process although fetches block the thread and
\* clients keep coming.
SignalEnds == g_stop ~> main = "down"

\* A service that is down and wanted listens again, whatever befalls it in
\* between (a bad start, a signal, a crash), until procd has counted more early
\* ends in a row than it makes good.
Respawned ==
    (main = "down" /\ wanted) ~> (sock # None \/ ~wanted \/ GaveUp)

\* The daemon listens on the address it was told to and announces ("--host H",
\* "--port N", "listening on host:port").
ListensWhereTold == sock # None => sock = opts
=============================================================================
