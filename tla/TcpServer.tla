------------------------------ MODULE TcpServer ------------------------------
(***************************************************************************)
(* src/network/tcp_server.cpp: a main reactor that accepts connections, a  *)
(* pool of sub reactors that serve them, and the application thread that   *)
(* starts, stops and broadcasts.  Each reactor is taken as what module     *)
(* TaskExecutor promises of it (a FIFO of tasks run in the loop's thread), *)
(* with its iteration check / poll / handle / tasks kept as steps.         *)
(*                                                                         *)
(* A descriptor is its connection: the file descriptor of a connection is  *)
(* not reused while connections_ or a callback still holds it.  Bytes and  *)
(* replies are not represented; connections_mutex_ is.                     *)
(***************************************************************************)
EXTENDS Integers, Sequences, FiniteSets, SequencesExt

CONSTANTS
    Conns,          \* client connections
    ThreadNum,      \* thread_num_
    MaxStarts,      \* bound on calls of start()
    MaxBroadcasts,  \* bound on calls of broadcast()
    NoConn

ASSUME ServerAssumption ==
    /\ IsFiniteSet(Conns)
    /\ ThreadNum \in Nat \ {0}
    /\ MaxStarts \in Nat
    /\ MaxBroadcasts \in Nat
    /\ NoConn \notin Conns

\* sub_reactors_ grows by thread_num_ with every start().
Subs == 1..(MaxStarts * ThreadNum)

VARIABLES
    running_, next_reactor_,
    connections_,       \* the descriptors that are keys of connections_
    connections_mutex_, \* "free", or "app" while broadcast or stop holds it
    app,                \* where the application thread is
    todo,               \* connections its current iteration has still to visit
    acur,               \* the connection broadcast is about to write to
    starts, casts,      \* calls of start() and broadcast() so far
    listening,          \* listen_fd_ is open
    accept_channel_,    \* "none", "registered", "removed" or "freed"
    main,               \* where the main reactor's thread is
    mconn,              \* the connection handleNewConnection is working on
    mquit,              \* quit_ of the main reactor
    sub, squit,         \* where each sub reactor's thread is, and its quit_
    pending,            \* per sub reactor: connections still to be registered
    work,               \* per sub reactor: the callbacks it still has to make
                        \* for each ready channel, or task, of this round
    state_,             \* per connection, TcpConnection::state_
    registered,         \* epoll watches its Channel
    target,             \* the sub reactor chosen for it
    peer, unread,       \* its client, and whether bytes wait to be read
    backlog,            \* connections the kernel has not handed over yet
    seen,               \* what the application was told, oldest first
    fault               \* undefined behaviour met, after which nothing is said

ctlvars == <<running_, starts, casts, listening, accept_channel_>>
itervars == <<todo, acur>>
appvars == <<ctlvars, itervars, app>>
mainvars == <<main, mconn, next_reactor_, target>>
subvars == <<sub, work>>
connvars == <<state_, registered, seen>>
netvars == <<peer, unread, backlog>>
table == <<connections_, connections_mutex_>>
vars == <<appvars, mainvars, subvars, connvars, netvars, table, mquit, squit,
          pending, fault>>

Callback == {"register", "error", "close", "read"}
Work == [conn : Conns, cbs : Seq(Callback)]
Notice == {"up", "message", "broadcast", "down"}

TypeOK ==
    /\ running_ \in BOOLEAN
    /\ next_reactor_ \in Nat
    /\ connections_ \subseteq Conns
    /\ connections_mutex_ \in {"free", "app"}
    /\ app \in {"idle", "remove", "reset", "listen", "join_main", "join_subs",
                "lock", "closing", "relock", "casting", "writing"}
    /\ todo \subseteq Conns
    /\ acur \in Conns \cup {NoConn}
    /\ starts \in 0..MaxStarts /\ casts \in 0..MaxBroadcasts
    /\ listening \in BOOLEAN
    /\ accept_channel_ \in {"none", "registered", "removed", "freed"}
    /\ main \in {"off", "check", "poll", "event", "accept", "assign", "insert",
                 "stopped"}
    /\ mconn \in Conns \cup {NoConn}
    /\ mquit \in BOOLEAN
    /\ sub \in [Subs -> {"off", "check", "poll", "handle", "erase", "tasks",
                         "notify", "stopped"}]
    /\ squit \in [Subs -> BOOLEAN]
    /\ pending \in [Subs -> Seq(Conns)]
    /\ work \in [Subs -> Seq(Work)]
    /\ state_ \in [Conns -> {"none", "kConnecting", "kConnected",
                             "kDisconnecting", "kDisconnected"}]
    /\ registered \in [Conns -> BOOLEAN]
    /\ target \in [Conns -> Subs \cup {0}]
    /\ peer \in [Conns -> {"none", "open", "fin", "reset"}]
    /\ unread \in [Conns -> BOOLEAN]
    /\ backlog \in Seq(Conns)
    /\ seen \in [Conns -> Seq(Notice)]
    /\ fault \in {"none", "use_after_free"}

Init ==
    /\ running_ = FALSE
    /\ next_reactor_ = 0
    /\ connections_ = {}
    /\ connections_mutex_ = "free"
    /\ app = "idle"
    /\ todo = {}
    /\ acur = NoConn
    /\ starts = 0 /\ casts = 0
    /\ listening = FALSE
    /\ accept_channel_ = "none"
    /\ main = "off"
    /\ mconn = NoConn
    /\ mquit = FALSE
    /\ sub = [r \in Subs |-> "off"]
    /\ squit = [r \in Subs |-> FALSE]
    /\ pending = [r \in Subs |-> << >>]
    /\ work = [r \in Subs |-> << >>]
    /\ state_ = [c \in Conns |-> "none"]
    /\ registered = [c \in Conns |-> FALSE]
    /\ target = [c \in Conns |-> 0]
    /\ peer = [c \in Conns |-> "none"]
    /\ unread = [c \in Conns |-> FALSE]
    /\ backlog = << >>
    /\ seen = [c \in Conns |-> << >>]
    /\ fault = "none"

\* The application hears of connection c; consecutive messages count once.
Heard(s, n) == IF n = "message" /\ s # << >> /\ Last(s) = n THEN s ELSE Append(s, n)
Tell(c, n) == seen' = [seen EXCEPT ![c] = Heard(@, n)]

-----------------------------------------------------------------------------
(* The clients and the kernel (external) *)

Connect(c) ==
    /\ listening
    /\ peer[c] = "none"
    /\ peer' = [peer EXCEPT ![c] = "open"]
    /\ backlog' = Append(backlog, c)
    /\ UNCHANGED unread

ClientSend(c) ==
    /\ peer[c] = "open"
    /\ ~unread[c]
    /\ unread' = [unread EXCEPT ![c] = TRUE]
    /\ UNCHANGED <<peer, backlog>>

\* A FIN or a RST; bytes that have arrived stay readable.
ClientLeave(c, how) ==
    /\ peer[c] = "open"
    /\ peer' = [peer EXCEPT ![c] = how]
    /\ UNCHANGED <<unread, backlog>>

\* No step follows undefined behaviour.
Defined == fault = "none"

\* What the clients leave alone.
ClientRest ==
    /\ Defined
    /\ UNCHANGED <<appvars, mainvars, subvars, connvars, table, mquit, squit,
                   pending, fault>>

Client(c) ==
    \/ Connect(c) /\ ClientRest
    \/ ClientSend(c) /\ ClientRest
    \/ ClientLeave(c, "fin") /\ ClientRest
    \/ ClientLeave(c, "reset") /\ ClientRest

-----------------------------------------------------------------------------
(* start, stop and broadcast, in the application thread *)

NewSubs == (starts * ThreadNum + 1)..((starts + 1) * ThreadNum)

\* start(), all of it: it blocks on nothing.  A start() that fails leaves
\* running_ false and no reactor behind, so it is no step.
Start ==
    /\ Defined
    /\ app = "idle"
    /\ ~running_
    /\ starts < MaxStarts
    /\ starts' = starts + 1
    /\ running_' = TRUE
    /\ listening' = TRUE
    /\ accept_channel_' = "registered"
    /\ main' = "check"
    /\ mquit' = FALSE
    /\ sub' = [r \in Subs |-> IF r \in NewSubs THEN "check" ELSE sub[r]]
    /\ UNCHANGED <<app, itervars, casts, mconn, next_reactor_, target, work,
                   connvars, netvars, table, squit, pending, fault>>

\* What the steps of stop() and broadcast() leave alone.
AppRest ==
    /\ Defined
    /\ UNCHANGED <<mainvars, subvars, pending, registered, peer, unread, starts,
                   fault>>

StopBegin ==
    /\ app = "idle"
    /\ running_
    /\ running_' = FALSE
    /\ app' = "remove"
    /\ UNCHANGED <<itervars, casts, listening, accept_channel_, state_, seen,
                   backlog, table, mquit, squit>>

\* disableAll() and remove() take the channel out of epoll, reset() frees it;
\* neither waits for the main reactor's thread.
StopAccept(from, to, channel) ==
    /\ app = from
    /\ app' = to
    /\ accept_channel_' = channel
    /\ UNCHANGED <<itervars, running_, casts, listening, state_, seen, backlog,
                   table, mquit, squit>>

\* listen_fd_ is closed, which drops the kernel's backlog; main_reactor_->quit()
\* stores quit_ (no wakeup: this thread constructed the reactor).
StopListen ==
    /\ app = "listen"
    /\ app' = "join_main"
    /\ listening' = FALSE
    /\ backlog' = << >>
    /\ mquit' = TRUE
    /\ UNCHANGED <<itervars, running_, casts, accept_channel_, state_, seen,
                   table, squit>>

\* main_thread_ is joined, then every sub reactor is told to quit.
JoinMain ==
    /\ app = "join_main"
    /\ main = "stopped"
    /\ app' = "join_subs"
    /\ squit' = [r \in Subs |-> sub[r] # "off"]
    /\ UNCHANGED <<itervars, ctlvars, state_, seen, backlog, table, mquit>>

SubsJoined == \A r \in Subs : sub[r] \in {"off", "stopped"}

\* Mutant: the sub reactors' threads are not waited for.
Mut_JoinSubs ==
    /\ app = "join_subs"
    /\ app' = "lock"
    /\ UNCHANGED <<itervars, ctlvars, state_, seen, backlog, table, mquit, squit>>

JoinSubs ==
    /\ app = "join_subs"
    /\ SubsJoined
    /\ app' = "lock"
    /\ UNCHANGED <<itervars, ctlvars, state_, seen, backlog, table, mquit, squit>>

\* Mutant: connections_ is used without the mutex.
Mut_MutexFree == TRUE

\* What a lock_guard on connections_mutex_ waits for.
MutexFree == connections_mutex_ = "free"

\* connections_mutex_ is taken for an iteration over connections_.
LockConnections(at) ==
    /\ MutexFree
    /\ connections_mutex_' = "app"
    /\ todo' = connections_
    /\ app' = at
    /\ UNCHANGED <<acur, running_, listening, accept_channel_, state_, seen,
                   backlog, connections_, mquit, squit>>

StopLock == app = "lock" /\ LockConnections("closing") /\ UNCHANGED casts

\* closeConnection() of the next connection.  For one that is kConnected it
\* calls the close callback, whose removeConnection() locks connections_mutex_
\* again: at "relock" this thread waits for a mutex it holds itself.
StopClose(c) ==
    /\ app = "closing"
    /\ c \in todo
    /\ IF state_[c] = "kConnected"
       THEN /\ state_' = [state_ EXCEPT ![c] = "kDisconnecting"]
            /\ app' = "relock"
            /\ UNCHANGED todo
       ELSE /\ todo' = todo \ {c}
            /\ UNCHANGED <<state_, app>>
    /\ UNCHANGED <<acur, ctlvars, seen, backlog, table, mquit, squit>>

StopEnd ==
    /\ app = "closing"
    /\ todo = {}
    /\ connections_' = {}
    /\ connections_mutex_' = "free"
    /\ app' = "idle"
    /\ UNCHANGED <<itervars, ctlvars, state_, seen, backlog, mquit, squit>>

Broadcast ==
    /\ app = "idle"
    /\ casts < MaxBroadcasts
    /\ casts' = casts + 1
    /\ LockConnections("casting")

\* isConnected() and the check at the head of send() ...
CastCheck(c) ==
    /\ app = "casting"
    /\ c \in todo
    /\ todo' = todo \ {c}
    /\ IF state_[c] = "kConnected"
       THEN app' = "writing" /\ acur' = c
       ELSE UNCHANGED <<app, acur>>
    /\ UNCHANGED <<ctlvars, state_, seen, backlog, table, mquit, squit>>

\* ... and the write that relies on it.
CastWrite ==
    /\ app = "writing"
    /\ app' = "casting"
    /\ Tell(acur, "broadcast")
    /\ acur' = NoConn
    /\ UNCHANGED <<todo, ctlvars, state_, backlog, table, mquit, squit>>

CastEnd ==
    /\ app = "casting"
    /\ todo = {}
    /\ connections_mutex_' = "free"
    /\ app' = "idle"
    /\ UNCHANGED <<itervars, ctlvars, state_, seen, backlog, connections_,
                   mquit, squit>>

\* The steps of a stop() or broadcast() under way.
AppStep ==
    \/ StopAccept("remove", "reset", "removed") /\ AppRest
    \/ StopAccept("reset", "listen", "freed") /\ AppRest
    \/ StopListen /\ AppRest
    \/ JoinMain /\ AppRest
    \/ JoinSubs /\ AppRest
    \/ StopLock /\ AppRest
    \/ \E c \in Conns : StopClose(c) /\ AppRest
    \/ StopEnd /\ AppRest
    \/ \E c \in Conns : CastCheck(c) /\ AppRest
    \/ CastWrite /\ AppRest
    \/ CastEnd /\ AppRest

AppCall ==
    \/ StopBegin /\ AppRest
    \/ Broadcast /\ AppRest

-----------------------------------------------------------------------------
(* The main reactor: Reactor::loop with the accept channel *)

MainCheck ==
    /\ main = "check"
    /\ main' = IF mquit THEN "stopped" ELSE "poll"
    /\ UNCHANGED <<mconn, next_reactor_, target, state_, backlog, pending,
                   connections_, fault>>

\* poll() returns the accept channel, or nothing after a second (which matters
\* only when the loop is to quit).
MainPoll ==
    /\ main = "poll"
    /\ \/ /\ accept_channel_ = "registered"
          /\ backlog # << >>
          /\ main' = "event"
       \/ /\ mquit
          /\ main' = "check"
    /\ UNCHANGED <<mconn, next_reactor_, target, state_, backlog, pending,
                   connections_, fault>>

\* The loop follows the pointer that poll() put into active_channels_: before
\* the callback, and after it for the remaining events.
UseAcceptChannel(next) ==
    /\ IF accept_channel_ = "freed"
       THEN fault' = "use_after_free" /\ UNCHANGED main
       ELSE main' = next /\ UNCHANGED fault
    /\ UNCHANGED <<mconn, next_reactor_, target, state_, backlog, pending,
                   connections_>>

MainEvent == main = "event" /\ UseAcceptChannel("accept")

\* Mutant: the counter itself is the index.
Mut_ReactorIndex(n) == n

\* The int counter of the code wraps only after 2^31 connections: not reached.
ReactorIndex(n) == n % ThreadNum

\* accept4 succeeds: the head of handleNewConnection.
MainAccept ==
    /\ main = "accept"
    /\ backlog # << >>
    /\ mconn' = Head(backlog)
    /\ backlog' = Tail(backlog)
    /\ target' = [target EXCEPT ![mconn'] = ReactorIndex(next_reactor_) + 1]
    /\ next_reactor_' = next_reactor_ + 1
    /\ state_' = [state_ EXCEPT ![mconn'] = "kConnecting"]
    /\ main' = "assign"
    /\ UNCHANGED <<pending, connections_, fault>>

\* accept4 fails: nothing more to accept, or an error such as EMFILE.
MainAcceptEnd == main = "accept" /\ backlog = << >> /\ UseAcceptChannel("check")
MainAcceptError == main = "accept" /\ backlog # << >> /\ UseAcceptChannel("check")

\* runInLoop of the registration: this thread did not construct the sub
\* reactor, so the task is queued.
MainAssign ==
    /\ main = "assign"
    /\ pending' = [pending EXCEPT ![target[mconn]] = Append(@, mconn)]
    /\ main' = "insert"
    /\ UNCHANGED <<mconn, next_reactor_, target, state_, backlog, connections_,
                   fault>>

\* Mutant: connections accepted during stop() are not recorded.
Mut_Recorded == IF running_ THEN connections_ \cup {mconn} ELSE connections_
Recorded == connections_ \cup {mconn}

MainInsert ==
    /\ main = "insert"
    /\ MutexFree
    /\ connections_' = Recorded
    /\ mconn' = NoConn
    /\ main' = "accept"
    /\ UNCHANGED <<next_reactor_, target, state_, backlog, pending, fault>>

\* What the main reactor leaves alone.
MainRest ==
    /\ Defined
    /\ UNCHANGED <<appvars, subvars, registered, seen, peer, unread,
                   connections_mutex_, mquit, squit>>

MainAccepts == MainAccept /\ MainRest

MainStep ==
    \/ MainCheck /\ MainRest
    \/ MainPoll /\ MainRest
    \/ MainEvent /\ MainRest
    \/ MainAcceptEnd /\ MainRest
    \/ MainAssign /\ MainRest
    \/ MainInsert /\ MainRest

MainFails == MainAcceptError /\ MainRest

-----------------------------------------------------------------------------
(* The sub reactors: Reactor::loop with the channels of the connections *)

SubCheck(r) ==
    /\ sub[r] = "check"
    /\ sub' = [sub EXCEPT ![r] = IF squit[r] THEN "stopped" ELSE "poll"]
    /\ UNCHANGED <<work, pending, connvars, unread, connections_>>

\* epoll reports a reset peer as readable, in error and hung up.
Revents(c) == {"IN"} \cup IF peer[c] = "reset" THEN {"ERR", "HUP"} ELSE {}

\* The callbacks Channel::handleEvent makes for these events, in its order.
HandleEvent(c) ==
    LET on(p, cb) == IF p THEN <<cb>> ELSE << >>
        revents == Revents(c)
    IN  on("HUP" \in revents /\ "IN" \notin revents, "close")
        \o on("ERR" \in revents, "error")
        \o on("IN" \in revents, "read")

\* Mutant: only bytes make a channel ready.
Mut_Ready(r) == {c \in Conns : target[c] = r /\ registered[c] /\ unread[c]}

\* Level triggered: a channel stays ready until its bytes are read, and for ever
\* after the peer has left, since no code removes it from the poller.
Ready(r) ==
    {c \in Conns : /\ target[c] = r /\ registered[c]
                   /\ unread[c] \/ peer[c] \in {"fin", "reset"}}

\* Mutants: no wakeup for queued tasks; no timeout.
Mut_NoWakeup(r) == Ready(r) # {} \/ squit[r]
Mut_NoTimeout(r) == Ready(r) # {} \/ pending[r] # << >>

\* poll() returns for ready channels, a wakeup or the timeout (which matters
\* only when the loop is to quit).
PollReturns(r) == Ready(r) # {} \/ pending[r] # << >> \/ squit[r]

\* The events are those of this moment, in an order epoll chooses.
SubPoll(r) ==
    /\ sub[r] = "poll"
    /\ PollReturns(r)
    /\ \E order \in SetToSeqs(Ready(r)) :
          work' = [work EXCEPT ![r] = [i \in 1..Len(order) |->
                     [conn |-> order[i], cbs |-> HandleEvent(order[i])]]]
    /\ sub' = [sub EXCEPT ![r] = "handle"]
    /\ UNCHANGED <<pending, connvars, unread, connections_>>

\* The end of the events, then doPendingTasks: its swap, its tasks, its end.
SubSwap(r) ==
    /\ sub[r] = "handle"
    /\ work[r] = << >>
    /\ work' = [work EXCEPT ![r] = [i \in 1..Len(pending[r]) |->
                   [conn |-> pending[r][i], cbs |-> <<"register">>]]]
    /\ pending' = [pending EXCEPT ![r] = << >>]
    /\ sub' = [sub EXCEPT ![r] = "tasks"]
    /\ UNCHANGED <<connvars, unread, connections_>>

SubTasksEnd(r) ==
    /\ sub[r] = "tasks"
    /\ work[r] = << >>
    /\ sub' = [sub EXCEPT ![r] = "check"]
    /\ UNCHANGED <<work, pending, connvars, unread, connections_>>

\* The current callback of r is cb for connection c.
Calls(r, c, cb) ==
    /\ sub[r] \in {"handle", "tasks"}
    /\ work[r] # << >>
    /\ Head(work[r]).conn = c
    /\ Head(Head(work[r]).cbs) = cb

\* It has returned; the next one is the channel's own, or the next channel's.
Returned(w) ==
    IF Len(w[1].cbs) = 1 THEN Tail(w) ELSE [w EXCEPT ![1].cbs = Tail(@)]
Return(r) == work' = [work EXCEPT ![r] = Returned(@)]

\* The task of handleNewConnection: other threads see kConnected before the
\* connection callback is made.
\* That epoll_ctl refuses the channel is only logged (poller.cpp:202).
SubRegister(r, c) ==
    /\ Calls(r, c, "register")
    /\ \E added \in BOOLEAN : registered' = [registered EXCEPT ![c] = added]
    /\ state_' = [state_ EXCEPT ![c] = "kConnected"]
    /\ sub' = [sub EXCEPT ![r] = "notify"]
    /\ UNCHANGED <<work, seen, pending, unread, connections_>>

SubNotify(r) ==
    /\ sub[r] = "notify"
    /\ Tell(Head(work[r]).conn, "up")
    /\ Return(r)
    /\ sub' = [sub EXCEPT ![r] = "tasks"]
    /\ UNCHANGED <<state_, registered, pending, unread, connections_>>

\* Mutant: closeConnection() does not look at the state.
Mut_IsConnected(c) == TRUE
IsConnected(c) == state_[c] = "kConnected"

\* closeConnection() up to the mutex in removeConnection().
CloseConnection(r, c) ==
    /\ IF IsConnected(c)
       THEN /\ state_' = [state_ EXCEPT ![c] = "kDisconnecting"]
            /\ sub' = [sub EXCEPT ![r] = "erase"]
            /\ UNCHANGED work
       ELSE Return(r) /\ UNCHANGED <<state_, sub>>
    /\ UNCHANGED <<pending, registered, seen, unread, connections_>>

\* handleRead: bytes (whatever state_ is), or end of file or reset.  Only this
\* thread reads the socket, so a readable one is never found empty.
SubRead(r, c) ==
    /\ Calls(r, c, "read")
    /\ \/ /\ unread[c]
          /\ unread' = [unread EXCEPT ![c] = FALSE]
          /\ Tell(c, "message")
          /\ Return(r)
          /\ UNCHANGED <<sub, pending, state_, registered, connections_>>
       \/ /\ ~unread[c]
          /\ peer[c] \in {"fin", "reset"}
          /\ CloseConnection(r, c)

SubError(r, c) == Calls(r, c, "error") /\ CloseConnection(r, c)

\* The rest of closeConnection(): removeConnection(), the connection callback
\* (isConnected() is already false) and kDisconnected.
SubErase(r) ==
    LET c == Head(work[r]).conn
    IN  /\ sub[r] = "erase"
        /\ MutexFree
        /\ connections_' = connections_ \ {c}
        /\ Tell(c, "down")
        /\ state_' = [state_ EXCEPT ![c] = "kDisconnected"]
        /\ Return(r)
        /\ sub' = [sub EXCEPT ![r] = "handle"]
        /\ UNCHANGED <<pending, registered, unread>>

\* What the sub reactors leave alone.
SubRest ==
    /\ Defined
    /\ UNCHANGED <<appvars, mainvars, peer, backlog, connections_mutex_, mquit,
                   squit, fault>>

SubStep(r) ==
    \/ SubCheck(r) /\ SubRest
    \/ SubPoll(r) /\ SubRest
    \/ SubSwap(r) /\ SubRest
    \/ SubTasksEnd(r) /\ SubRest
    \/ \E c \in Conns : SubRegister(r, c) /\ SubRest
    \/ SubNotify(r) /\ SubRest
    \/ \E c \in Conns : SubRead(r, c) /\ SubRest
    \/ \E c \in Conns : SubError(r, c) /\ SubRest
    \/ SubErase(r) /\ SubRest

-----------------------------------------------------------------------------
Next ==
    \/ \E c \in Conns : Client(c)
    \/ Start
    \/ AppCall
    \/ AppStep
    \/ MainStep
    \/ MainAccepts
    \/ MainFails
    \/ \E r \in Subs : SubStep(r)

Spec == Init /\ [][Next]_vars

\* Threads are scheduled and callbacks return; accept4 does not fail for ever.
\* Clients owe nothing, and nobody has to call start(), stop() or broadcast().
Fairness ==
    /\ WF_vars(AppStep)
    /\ WF_vars(MainStep)
    /\ SF_vars(MainAccepts)
    /\ \A r \in Subs : WF_vars(SubStep(r))

FairSpec == Spec /\ Fairness

-----------------------------------------------------------------------------
(* Properties *)

Told(c, n) == \E i \in 1..Len(seen[c]) : seen[c][i] = n

\* The application hears of a connection in order: connected first and once,
\* closed at most once, and after that no message but bytes that were already
\* received when the peer reset the connection, where handleEvent makes the
\* error callback before the read callback (channel.cpp:79-91,
\* tcp_connection.cpp:59-70, 120-146, tcp_server.cpp:204-232).
NoticesInOrder ==
    \A c \in Conns : \A i \in 1..Len(seen[c]) :
        /\ seen[c][i] = "up" => \A j \in 1..(i - 1) : seen[c][j] = "broadcast"
        /\ seen[c][i] \in {"message", "down"} => \E j \in 1..(i - 1) : seen[c][j] = "up"
        /\ seen[c][i] = "down" =>
              \A j \in (i + 1)..Len(seen[c]) :
                  seen[c][j] \in {"up", "message", "down"} =>
                      seen[c][j] = "message" /\ peer[c] = "reset"

\* broadcast() never writes to a connection the application has been told is
\* closed, although it reads state_ from another thread: removeConnection()
\* waits for the mutex broadcast() holds (tcp_server.cpp:245-273).
NoBroadcastAfterDown ==
    \A c \in Conns : \A i, j \in 1..Len(seen[c]) :
        i < j /\ seen[c][i] = "down" => seen[c][j] # "broadcast"

\* Every established connection is in connections_, where stop() and broadcast()
\* find it, unless handleNewConnection is still about to insert it
\* (tcp_server.cpp:212-239).
ConnectedIsListed ==
    \A c \in Conns :
        state_[c] = "kConnected" /\ c # mconn => c \in connections_

\* stop() touches the connections only when no reactor thread is left that
\* could be in one of their callbacks (tcp_server.cpp:139-165).
StopClosesAlone == app \in {"closing", "relock"} => main = "stopped" /\ SubsJoined

\* Once stop() was called every reactor thread ends and is joined, although
\* quit() wakes none of them and closed connections keep the sub reactors
\* polling without pause (tcp_server.cpp:116-156, reactor.cpp:80-103).
StopJoins ==
    (app = "remove") ~> (app \in {"lock", "closing", "idle"} \/ fault # "none")

\* A client that connects is accepted, given to a sub reactor and announced to
\* the application, unless the server is stopped first (tcp_server.cpp:170-239;
\* "manage the connection in the chosen Reactor", tcp_server.cpp:211).
ClientServed ==
    \A c \in Conns :
        (running_ /\ c \in Range(backlog)) ~> (Told(c, "up") \/ ~running_)

\* When the client of an established connection leaves, the application is
\* told, unless the server is stopped first (tcp_connection.cpp:120-146).  A
\* connection that epoll_ctl refused to add is excepted: poller.cpp:202 only logs
\* the failure, and nothing of the connection is heard again.
LeaveNoticed ==
    \A c \in Conns :
        (state_[c] = "kConnected" /\ registered[c] /\ peer[c] \in {"fin", "reset"})
            ~> (Told(c, "down") \/ ~running_)

\* A closed connection is not counted by getConnectionCount()
\* (tests/test_tcp_server.cpp:156 expects 0 once every client has left).
ClosedNotListed ==
    \A c \in Conns : state_[c] = "kDisconnected" => c \notin connections_

\* stop() "closes all connections" (tcp_server.cpp:158) and returns.
StopReturns == (app = "remove") ~> (app = "idle" \/ fault # "none")

\* A channel is not in the active list of a loop when it is removed and freed
\* ("make sure the Channel is not in the active list", reactor.cpp:119).
NoUseAfterFree == fault # "use_after_free"
=============================================================================
