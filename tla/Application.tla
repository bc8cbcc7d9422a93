---------------------------- MODULE Application ----------------------------
(***************************************************************************)
(* The life of the process: main.cpp (initialize, run, shutdown), the      *)
(* Logger (a bounded queue emptied by one worker of spdlog's thread pool)  *)
(* and, seen from outside, the threads of TcpServer, which log until       *)
(* stop() has joined them.  TcpServer itself is module TcpServer; here     *)
(* stop() joins its threads and, with an established connection in its     *)
(* table, waits for ever, as that module shows.                            *)
(*                                                                         *)
(* A message is its thread and its number in that thread; what one step of *)
(* the main thread logs in a row is one message.                           *)
(***************************************************************************)
EXTENDS Naturals, Sequences, FiniteSets, SequencesExt

CONSTANTS
    Main,          \* the main thread
    Server,        \* the threads of TcpServer
    QueueSize,     \* the queue length given to init_thread_pool: 8192
    MaxMessages,   \* bound on what a server thread logs while it serves
    MaxStats       \* bound on calls of printStats()

ASSUME ApplicationAssumption ==
    /\ Main \notin Server
    /\ QueueSize \in Nat \ {0}
    /\ MaxMessages \in Nat
    /\ MaxStats \in Nat

VARIABLES
    pc,            \* where the main thread is
    running_,
    stats,         \* how often printStats() was called
    handlers,      \* signal() was called
    interrupted,   \* a SIGINT or SIGTERM arrived after that
    logger_,       \* the pointer is set
    pool,          \* spdlog's thread pool
    queue, file,   \* messages waiting in it, and written by its worker
    sent, dropped, \* messages handed to a logger, and refused without a pool
    thread,        \* the server threads
    connected      \* connections_ has an entry that is kConnected

logvars == <<logger_, pool, queue, file, sent, dropped>>
appvars == <<running_, stats, handlers, interrupted>>
servervars == <<thread, connected>>
vars == <<pc, appvars, logvars, servervars>>

Logging == Server \cup {Main}
Message == Logging \X Nat

TypeOK ==
    /\ pc \in {"logger", "config", "server", "start", "loop", "stop", "join", "flush",
               "destroy", "exit", "ended", "killed", "stuck"}
    /\ running_ \in BOOLEAN
    /\ stats \in 0..MaxStats
    /\ handlers \in BOOLEAN
    /\ interrupted \in BOOLEAN
    /\ logger_ \in BOOLEAN
    /\ pool \in {"none", "up", "down"}
    /\ queue \in Seq(Message) /\ Len(queue) <= QueueSize
    /\ file \in Seq(Message)
    /\ sent \in [Logging -> Nat]
    /\ dropped \subseteq Message
    /\ thread \in [Server -> {"none", "serving", "ended"}]
    /\ connected \in BOOLEAN

Init ==
    /\ pc = "logger"
    /\ running_ = TRUE
    /\ stats = 0
    /\ handlers = FALSE
    /\ interrupted = FALSE
    /\ logger_ = FALSE
    /\ pool = "none"
    /\ queue = << >>
    /\ file = << >>
    /\ sent = [t \in Logging |-> 0]
    /\ dropped = {}
    /\ thread = [t \in Server |-> "none"]
    /\ connected = FALSE

-----------------------------------------------------------------------------
(* Logger *)

Unlogged == UNCHANGED <<logger_, pool, file>>

\* Mutants: the queue has no limit; or the oldest message makes room.
Mut_Post(m) == queue' = Append(queue, m)
Mut_Overrun(m) ==
    queue' = Append(IF Len(queue) < QueueSize THEN queue ELSE Tail(queue), m)

\* async_overflow_policy::block: the caller waits for room.
Post(m) == Len(queue) < QueueSize /\ queue' = Append(queue, m)

\* trace() .. critical() and the formatting variants: nothing without logger_, an
\* error message instead of the log without the pool.
Log(t) ==
    /\ \/ ~logger_ /\ UNCHANGED <<queue, sent, dropped>>
       \/ /\ logger_
          /\ sent' = [sent EXCEPT ![t] = @ + 1]
          /\ \/ pool = "up" /\ Post(<<t, sent[t] + 1>>) /\ UNCHANGED dropped
             \/ /\ pool = "down"
                /\ dropped' = dropped \cup {<<t, sent[t] + 1>>}
                /\ UNCHANGED queue
    /\ Unlogged

\* The one worker of the pool.
WriteLog ==
    /\ pool = "up"
    /\ pc # "killed"
    /\ queue # << >>
    /\ queue' = Tail(queue)
    /\ file' = Append(file, Head(queue))
    /\ UNCHANGED <<pc, appvars, logger_, pool, sent, dropped, servervars>>

\* The destructor of spdlog's pool joins the worker behind everything queued
\* (external).
Drained == queue = << >>

\* spdlog::shutdown(), or the destruction of its registry, destroys the pool.
PoolEnds ==
    /\ Drained
    /\ pool' = "down"
    /\ UNCHANGED <<logger_, queue, file, sent, dropped>>

-----------------------------------------------------------------------------
(* OrderEngineApplication::initialize *)

InitLogger ==
    /\ pc = "logger"
    /\ pc' = "config"
    /\ pool' = "up"
    /\ logger_' = TRUE
    /\ sent' = [sent EXCEPT ![Main] = 1]
    /\ queue' = <<<<Main, 1>>>>
    /\ UNCHANGED <<appvars, file, dropped, servervars>>

\* A sink cannot be opened: initialize() returns false, after the main logger was
\* already set when it is the second or third sink.
InitLoggerFails ==
    /\ pc = "logger"
    /\ pc' = "exit"
    /\ pool' = "up"
    /\ logger_' \in BOOLEAN
    /\ UNCHANGED <<appvars, queue, file, sent, dropped, servervars>>

LoadConfig ==
    /\ pc = "config"
    /\ pc' \in {"server", "exit"}
    /\ Log(Main)
    /\ UNCHANGED <<appvars, servervars>>

CreateServer ==
    /\ pc = "server"
    /\ pc' = "start"
    /\ Log(Main)
    /\ UNCHANGED <<appvars, servervars>>

-----------------------------------------------------------------------------
(* OrderEngineApplication::run and shutdown *)

\* start() listens and starts its threads.
RunStart ==
    /\ pc = "start"
    /\ pc' = "loop"
    /\ handlers' = TRUE
    /\ thread' = [t \in Server |-> "serving"]
    /\ Log(Main)
    /\ UNCHANGED <<running_, stats, interrupted, connected>>

\* start() fails: run() returns without shutdown().
RunStartFails ==
    /\ pc = "start"
    /\ pc' = "destroy"
    /\ handlers' = TRUE
    /\ Log(Main)
    /\ UNCHANGED <<running_, stats, interrupted, servervars>>

PrintStats ==
    /\ pc = "loop"
    /\ stats < MaxStats
    /\ stats' = stats + 1
    /\ Log(Main)
    /\ UNCHANGED <<pc, running_, handlers, interrupted, servervars>>

\* Mutant: the loop does not look at running_.
Mut_LoopEnds == FALSE
LoopEnds == ~running_

\* Mutant: the logger is shut down before the server.
Mut_Shutdown == [loop |-> "flush", stopped |-> "destroy", flushed |-> "stop"]
\* What follows the loop, the end of the server and the end of the logger.
Shutdown == [loop |-> "stop", stopped |-> "flush", flushed |-> "destroy"]

RunEnds ==
    /\ pc = "loop"
    /\ LoopEnds
    /\ pc' = Shutdown.loop
    /\ Log(Main)
    /\ UNCHANGED <<appvars, servervars>>

\* shutdown() calls tcp_server_->stop(), which tells the threads to quit ...
ServerStop ==
    /\ pc = "stop"
    /\ pc' = "join"
    /\ Log(Main)
    /\ UNCHANGED <<appvars, servervars>>

\* ... joins them, and closes the connections that are left: closeConnection() acts
\* on those that are kConnected, and the first of them takes the mutex that stop()
\* holds.
ServerJoined ==
    /\ pc = "join"
    /\ \A t \in Server : thread[t] = "ended"
    /\ IF connected THEN pc' = "stuck" /\ UNCHANGED logvars
                    ELSE pc' = Shutdown.stopped /\ Log(Main)
    /\ UNCHANGED <<appvars, servervars>>

LoggerShutdown ==
    /\ pc = "flush"
    /\ PoolEnds
    /\ pc' = Shutdown.flushed
    /\ UNCHANGED <<appvars, servervars>>

\* ~TcpServer, which finds the server stopped, logs.
DestroyApplication ==
    /\ pc = "destroy"
    /\ pc' = "exit"
    /\ Log(Main)
    /\ UNCHANGED <<appvars, servervars>>

\* main() returns: the destructors of static objects end what is left.
Exit ==
    /\ pc = "exit"
    /\ PoolEnds
    /\ pc' = "ended"
    /\ UNCHANGED <<appvars, servervars>>

-----------------------------------------------------------------------------
(* Other threads, and signals *)

\* stop(), from any other thread (external: nothing in the program calls it).
Stop ==
    /\ pc \notin {"ended", "killed"}
    /\ running_
    /\ running_' = FALSE
    /\ UNCHANGED <<pc, stats, handlers, interrupted, logvars, servervars>>

Serving(t) == thread[t] = "serving" /\ pc # "killed"

ThreadLog(t) ==
    /\ Serving(t)
    /\ sent[t] < MaxMessages
    /\ Log(t)
    /\ UNCHANGED <<pc, appvars, servervars>>

\* A sub reactor thread establishes a connection, or closes the last one.
ThreadConnection(t) ==
    /\ Serving(t)
    /\ connected' = ~connected
    /\ UNCHANGED <<pc, appvars, logvars, thread>>

\* The loop of the thread has seen quit(); it logs that.
ThreadEnds(t) ==
    /\ Serving(t)
    /\ pc = "join"
    /\ thread' = [thread EXCEPT ![t] = "ended"]
    /\ Log(t)
    /\ UNCHANGED <<pc, appvars, connected>>

\* SIGINT or SIGTERM: the handler prints a line; before it is installed the
\* process ends at once.
Signal ==
    /\ pc \notin {"ended", "killed"}
    /\ IF handlers THEN interrupted' = TRUE /\ UNCHANGED pc
                   ELSE pc' = "killed" /\ UNCHANGED interrupted
    /\ UNCHANGED <<running_, stats, handlers, logvars, servervars>>

\* SIGPIPE, which no line of the program ignores: a thread writes to a socket
\* whose peer is gone.
BrokenPipe(t) ==
    /\ Serving(t)
    /\ connected
    /\ pc' = "killed"
    /\ UNCHANGED <<appvars, logvars, servervars>>

MainStep ==
    \/ InitLogger \/ InitLoggerFails \/ LoadConfig \/ CreateServer
    \/ RunStart \/ RunStartFails \/ RunEnds \/ ServerStop \/ ServerJoined
    \/ LoggerShutdown \/ DestroyApplication \/ Exit

Next ==
    \/ MainStep
    \/ PrintStats
    \/ WriteLog
    \/ Stop
    \/ Signal
    \/ \E t \in Server : ThreadLog(t)
    \/ \E t \in Server : ThreadConnection(t)
    \/ \E t \in Server : ThreadEnds(t)
    \/ \E t \in Server : BrokenPipe(t)

Spec == Init /\ [][Next]_vars

\* Threads are scheduled, and the loop of a server thread returns from poll()
\* within a second to see quit().
Fairness ==
    /\ WF_vars(MainStep)
    /\ WF_vars(WriteLog)
    /\ \A t \in Server : WF_vars(ThreadEnds(t))

FairSpec == Spec /\ Fairness

-----------------------------------------------------------------------------
\* What the threads of the server log is never refused for lack of the pool:
\* they are gone before the logger is (main.cpp:127-135).
ServerLogsKept == \A m \in dropped : m[1] = Main

\* What the threads have handed to a logger.
Sent == UNION {{t} \X (1..sent[t]) : t \in Logging}

\* No message that was accepted is lost, repeated or overtaken by a later one of
\* its thread, full queue or not (logger.cpp:19, 32-34, 70-82).  What is still
\* queued counts as kept, also when a signal has ended the process with it.
LogGapless ==
    LET log == file \o queue
    IN  /\ Range(log) = Sent \ dropped
        /\ \A i, j \in 1..Len(log) :
              i < j /\ log[i][1] = log[j][1] => log[i][2] < log[j][2]

\* stop() ends the program, unless an established connection is left when the
\* threads have been joined or a signal ends it first (main.cpp:86-101, 127-135).
StopExits == (~running_) ~> (pc \in {"ended", "stuck", "killed"})

\* After "Received SIGINT, shutting down..." (main.cpp:70) the program shuts
\* down.
SignalStops == interrupted ~> (pc \in {"ended", "stuck", "killed"})
=============================================================================
