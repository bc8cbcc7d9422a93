-------------------------- MODULE TcpServerProofs --------------------------
(***************************************************************************)
(* The callbacks, the connection table and stop() of TcpServer, for any    *)
(* number of connections, sub reactors, broadcasts and restarts.           *)
(***************************************************************************)
EXTENDS TcpServer, FiniteSetTheorems, SequenceTheorems, TLAPS

-----------------------------------------------------------------------------
(* The inductive invariant, in parts *)

\* Where stop() and broadcast() are tells who else still runs, and who has the
\* mutex.
Control ==
    /\ app \in {"closing", "relock", "casting", "writing"} => connections_mutex_ = "app"
    /\ app \in {"join_subs", "lock", "closing", "relock"} => main = "stopped"
    /\ app \in {"lock", "closing", "relock"} => SubsJoined
    /\ ~running_ /\ app \in {"idle", "casting", "writing"} =>
          main \in {"off", "stopped"} /\ SubsJoined

\* A connection in the backlog is there once and is new; an accepted one has one of
\* the sub reactors of the first start() as its own.
Accepting ==
    /\ main \in {"assign", "insert"} <=> mconn # NoConn
    /\ mconn # NoConn => state_[mconn] # "none"
    /\ IsInjective(backlog)
    /\ \A i \in 1..Len(backlog) : state_[backlog[i]] = "none" /\ peer[backlog[i]] # "none"
    /\ \A c \in Conns :
          state_[c] # "none" => peer[c] # "none" /\ target[c] \in 1..ThreadNum /\ starts >= 1
    /\ main # "off" => starts >= 1
    /\ starts >= 1 => \A r \in 1..ThreadNum : sub[r] # "off"

\* The peer has left and nothing is read from it any more, except after a reset.
Over(c) == peer[c] \in {"fin", "reset"} /\ (peer[c] = "fin" => ~unread[c])

\* The channel or task reactor r is working on.
Current(r) == work[r][1].conn

\* The queue of a reactor: connections still to be registered, each once, and by
\* nobody else.
Waiting(r) ==
    /\ IsInjective(pending[r])
    /\ \A i \in 1..Len(pending[r]) :
          /\ state_[pending[r][i]] = "kConnecting"
          /\ target[pending[r][i]] = r
          /\ main = "assign" => pending[r][i] # mconn

\* The round of a reactor that runs tasks: registrations, each for a connection
\* nobody has registered; of the one being announced this thread has just made it
\* so.
Registering(r) ==
    sub[r] \in {"tasks", "notify"} =>
        \A i \in 1..Len(work[r]) :
            /\ work[r][i].cbs = <<"register">>
            /\ \A j \in 1..Len(pending[r]) : pending[r][j] # work[r][i].conn
            /\ main = "assign" => work[r][i].conn # mconn
            /\ IF sub[r] = "notify" /\ i = 1 THEN state_[work[r][i].conn] = "kConnected"
               ELSE state_[work[r][i].conn] = "kConnecting"

\* The round of a reactor that handles events: registered channels, an error
\* callback only for a peer that was reset.
Handling(r) ==
    sub[r] \in {"handle", "erase"} =>
        \A i \in 1..Len(work[r]) :
            /\ registered[work[r][i].conn]
            /\ work[r][i].cbs = <<"read">>
                  \/ (work[r][i].cbs = <<"error", "read">> /\ peer[work[r][i].conn] = "reset")

Rounds(r) ==
    /\ sub[r] \in {"off", "check", "poll", "stopped"} => work[r] = << >>
    /\ sub[r] \in {"notify", "erase"} => work[r] # << >>
    /\ \A i, j \in 1..Len(work[r]) : work[r][i].conn = work[r][j].conn => i = j
    /\ \A i \in 1..Len(work[r]) : target[work[r][i].conn] = r
    /\ sub[r] = "erase" =>
          state_[Current(r)] = "kDisconnecting" /\ Over(Current(r))

Queues ==
    /\ \A r \in Subs : Waiting(r) /\ Rounds(r) /\ Registering(r) /\ Handling(r)
    /\ \A c \in Conns : /\ registered[c] => state_[c] \notin {"none", "kConnecting"}
                        /\ state_[c] = "kDisconnected" => Over(c)
    /\ main = "assign" => state_[mconn] = "kConnecting"

\* The connections that are or will be established are in the table; the ones
\* stop() left behind will not be.
Listed ==
    /\ \A c \in Conns :
          state_[c] \in {"kConnecting", "kConnected"} /\ c # mconn /\ c \notin connections_
             => state_[c] = "kConnecting" /\ sub[target[c]] = "stopped"
    /\ app = "closing" => \A c \in connections_ \ todo : state_[c] # "kConnected"

\* The callback that announces c has not been made, though c is kConnected.
Unannounced(c) == \E r \in Subs : sub[r] = "notify" /\ Current(r) = c

\* What the application was told of a connection, by the state of the connection.
Hears(c) ==
    /\ state_[c] \in {"none", "kConnecting"} => seen[c] = << >>
    /\ Unannounced(c) => \A i \in 1..Len(seen[c]) : seen[c][i] = "broadcast"
    /\ registered[c] => Told(c, "up") \/ Unannounced(c)
    /\ Told(c, "down") => state_[c] = "kDisconnected"

\* broadcast() is about to write to a connection that was not closed behind its
\* back.
Writing ==
    app = "writing" => /\ acur \in Conns
                       /\ state_[acur] \notin {"none", "kConnecting"}
                       /\ ~Told(acur, "down")

Seen == (\A c \in Conns : Hears(c)) /\ Writing

IInv ==
    /\ TypeOK
    /\ Control
    /\ Accepting
    /\ Queues
    /\ Listed
    /\ Seen
    /\ NoticesInOrder
    /\ NoBroadcastAfterDown

-----------------------------------------------------------------------------
(* Lemmas on callbacks and work lists *)

\* The callbacks of one channel: handleEvent never makes the close callback here,
\* because a hang-up is reported together with readability (channel.cpp:79-103).
LEMMA HandleEventIs ==
    ASSUME NEW c
    PROVE  HandleEvent(c) = IF peer[c] = "reset" THEN <<"error", "read">> ELSE <<"read">>
<1>1. CASE peer[c] = "reset"
  <2>1. "IN" \in Revents(c) /\ "ERR" \in Revents(c)
    BY <1>1 DEF Revents
  <2>2. HandleEvent(c) = << >> \o <<"error">> \o <<"read">>
    BY <2>1, Zenon DEF HandleEvent
  <2>3. << >> \o <<"error">> \o <<"read">> = <<"error", "read">>
    <3>1. << >> \o <<"error">> = <<"error">>
      OBVIOUS
    <3>2. /\ <<"error">> \in Seq(Callback) /\ <<"read">> \in Seq(Callback)
          /\ <<"error", "read">> \in Seq(Callback)
          /\ Len(<<"error">>) = 1 /\ Len(<<"read">>) = 1 /\ Len(<<"error", "read">>) = 2
      BY DEF Callback
    <3> DEFINE a == <<"error">>
               b == <<"read">>
    <3>3. a[1] = "error" /\ b[1] = "read"
      OBVIOUS
    <3> HIDE DEF a, b
    <3>4. /\ a \o b \in Seq(Callback)
          /\ Len(a \o b) = 2
          /\ (a \o b)[1] = "error"
          /\ (a \o b)[2] = "read"
      <4>1. a \in Seq(Callback) /\ b \in Seq(Callback) /\ Len(a) = 1 /\ Len(b) = 1
        BY <3>2 DEF a, b
      <4> QED
        BY <3>3, <4>1, ConcatProperties
    <3>5. a \o b = <<"error", "read">>
      <4> DEFINE t == <<"error", "read">>
      <4>1. t \in Seq(Callback) /\ Len(t) = 2 /\ t[1] = "error" /\ t[2] = "read"
        BY <3>2
      <4>2. \A i \in 1..2 : i = 1 \/ i = 2
        OBVIOUS
      <4> HIDE DEF t
      <4>3. \A i \in 1..Len(a \o b) : (a \o b)[i] = t[i]
        BY <3>4, <4>1, <4>2
      <4>4. a \o b = t
        BY <3>4, <4>1, <4>3, SeqEqual
      <4> QED
        BY <4>4 DEF t
    <3> QED
      BY <3>1, <3>5 DEF a, b
  <2> QED
    BY <1>1, <2>2, <2>3
<1>2. CASE peer[c] # "reset"
  <2>1. "IN" \in Revents(c) /\ "ERR" \notin Revents(c)
    BY <1>2 DEF Revents
  <2>2. HandleEvent(c) = << >> \o << >> \o <<"read">>
    BY <2>1, Zenon DEF HandleEvent
  <2>3. << >> \o << >> \o <<"read">> = <<"read">>
    OBVIOUS
  <2> QED
    BY <1>2, <2>2, <2>3
<1> QED
  BY <1>1, <1>2

\* What is left of a work list when a callback has returned.
LEMMA ReturnedIs ==
    ASSUME NEW w \in Seq(Work), w # << >>,
           w[1].cbs \in {<<"register">>, <<"read">>, <<"error", "read">>}
    PROVE  /\ w[1].cbs # <<"error", "read">> => Returned(w) = Tail(w)
           /\ w[1].cbs = <<"error", "read">> =>
                 /\ Returned(w) = [w EXCEPT ![1] = [conn |-> w[1].conn, cbs |-> <<"read">>]]
                 /\ Len(Returned(w)) = Len(w)
                 /\ \A i \in 1..Len(w) : /\ Returned(w)[i].conn = w[i].conn
                                         /\ i # 1 => Returned(w)[i] = w[i]
                                         /\ i = 1 => Returned(w)[i].cbs = <<"read">>
           /\ Returned(w) \in Seq(Work)
<1>1. 1 \in 1..Len(w) /\ w[1] \in Work /\ Len(w) \in Nat
  OBVIOUS
<1>2. Tail(w) \in Seq(Work)
  OBVIOUS
<1>3. /\ Len(<<"register">>) = 1 /\ Len(<<"read">>) = 1 /\ Len(<<"error", "read">>) = 2
      /\ Tail(<<"error", "read">>) = <<"read">>
  OBVIOUS
<1>4. CASE w[1].cbs # <<"error", "read">>
  <2>1. Len(w[1].cbs) = 1
    BY <1>3, <1>4
  <2>2. Returned(w) = Tail(w)
    BY <2>1 DEF Returned
  <2> QED
    BY <1>2, <1>4, <2>2
<1>5. CASE w[1].cbs = <<"error", "read">>
  <2> DEFINE n == [conn |-> w[1].conn, cbs |-> <<"read">>]
  <2>1. [w[1] EXCEPT !.cbs = Tail(w[1].cbs)] = n
    BY <1>1, <1>3, <1>5 DEF Work
  <2>2. Returned(w) = [w EXCEPT ![1] = n]
    <3>1. Len(w[1].cbs) # 1
      BY <1>3, <1>5
    <3> QED
      BY <2>1, <3>1 DEF Returned
  <2>3. n \in Work /\ n.conn = w[1].conn /\ n.cbs = <<"read">>
    BY <1>1 DEF Work, Callback
  <2> HIDE DEF n
  <2>4. /\ [w EXCEPT ![1] = n] \in Seq(Work)
        /\ Len([w EXCEPT ![1] = n]) = Len(w)
        /\ \A i \in 1..Len(w) : [w EXCEPT ![1] = n][i] = IF i = 1 THEN n ELSE w[i]
    BY <1>1, <2>3, ExceptSeq
  <2> QED
    BY <1>5, <2>2, <2>3, <2>4 DEF n
<1> QED
  BY <1>4, <1>5

\* One more connection that was not there keeps a queue without repetitions.
LEMMA AppendNew ==
    ASSUME NEW S, NEW s \in Seq(S), NEW e \in S, IsInjective(s),
           \A i \in 1..Len(s) : s[i] # e
    PROVE  LET t == Append(s, e)
           IN  /\ t \in Seq(S)
               /\ IsInjective(t)
               /\ Len(t) = Len(s) + 1
               /\ \A i \in 1..Len(t) : t[i] = IF i <= Len(s) THEN s[i] ELSE e
<1> DEFINE t == Append(s, e)
<1>1. /\ t \in Seq(S)
      /\ Len(t) = Len(s) + 1
      /\ \A i \in 1..Len(s) : t[i] = s[i]
      /\ t[Len(s) + 1] = e
      /\ Len(s) \in Nat
      /\ DOMAIN t = 1..(Len(s) + 1)
      /\ DOMAIN s = 1..Len(s)
  OBVIOUS
<1> HIDE DEF t
<1>2. IsInjective(t)
  BY <1>1 DEF IsInjective
<1>3. \A i \in 1..Len(t) : t[i] = IF i <= Len(s) THEN s[i] ELSE e
  BY <1>1
<1> QED
  BY <1>1, <1>2, <1>3 DEF t

\* The head of a queue without repetitions is not in what is left.
LEMMA TailOf ==
    ASSUME NEW S, NEW s \in Seq(S), s # << >>
    PROVE  /\ Head(s) = s[1] /\ Head(s) \in S
           /\ Tail(s) \in Seq(S)
           /\ Len(s) \in Nat \ {0}
           /\ Len(Tail(s)) = Len(s) - 1
           /\ \A i \in 1..(Len(s) - 1) : Tail(s)[i] = s[i + 1]
           /\ IsInjective(s) =>
                 /\ IsInjective(Tail(s))
                 /\ \A i \in 1..(Len(s) - 1) : Tail(s)[i] # s[1]
<1>1. /\ Head(s) = s[1] /\ Head(s) \in S
      /\ Tail(s) \in Seq(S)
      /\ Len(s) \in Nat \ {0}
      /\ Len(Tail(s)) = Len(s) - 1
      /\ \A i \in 1..(Len(s) - 1) : Tail(s)[i] = s[i + 1]
      /\ DOMAIN s = 1..Len(s)
      /\ DOMAIN Tail(s) = 1..(Len(s) - 1)
  OBVIOUS
<1>2. ASSUME IsInjective(s)
      PROVE  /\ IsInjective(Tail(s))
             /\ \A i \in 1..(Len(s) - 1) : Tail(s)[i] # s[1]
  BY <1>1, <1>2 DEF IsInjective
<1> QED
  BY <1>1, <1>2

-----------------------------------------------------------------------------
(* What a callback finds *)

\* The current callback of a reactor, and the kind of round it belongs to.
LEMMA CallsFacts ==
    ASSUME TypeOK, Queues, NEW r \in Subs, NEW c \in Conns, NEW cb \in Callback,
           Calls(r, c, cb)
    PROVE  /\ work[r] \in Seq(Work) /\ work[r] # << >>
           /\ 1 \in 1..Len(work[r])
           /\ Current(r) = c /\ target[c] = r
           /\ cb = "register" => sub[r] = "tasks"
           /\ cb \in {"read", "error"} => sub[r] = "handle" /\ registered[c]
           /\ cb = "error" => peer[c] = "reset"
           /\ work[r][1].cbs \in {<<"register">>, <<"read">>, <<"error", "read">>}
<1>1. work[r] \in Seq(Work) /\ work[r] # << >>
  BY DEF TypeOK, Calls
<1>2. Head(work[r]) = work[r][1] /\ 1 \in 1..Len(work[r])
  BY <1>1
<1>3. Current(r) = c /\ Head(work[r][1].cbs) = cb /\ sub[r] \in {"handle", "tasks"}
  BY <1>2 DEF Calls, Current
<1>4. target[c] = r
  BY <1>2, <1>3 DEF Queues, Rounds, Current
<1>5. /\ Head(<<"register">>) = "register"
      /\ Head(<<"read">>) = "read"
      /\ Head(<<"error", "read">>) = "error"
  OBVIOUS
<1>6. CASE sub[r] = "tasks"
  <2>1. work[r][1].cbs = <<"register">>
    BY <1>2, <1>6 DEF Queues, Registering
  <2>2. cb = "register"
    BY <1>3, <1>5, <2>1
  <2> QED
    BY <1>1, <1>2, <1>3, <1>4, <1>6, <2>1, <2>2
<1>7. CASE sub[r] = "handle"
  <2>1. /\ registered[work[r][1].conn]
        /\ \/ work[r][1].cbs = <<"read">>
           \/ work[r][1].cbs = <<"error", "read">> /\ peer[work[r][1].conn] = "reset"
    BY <1>2, <1>7 DEF Queues, Handling
  <2>2. cb # "register" /\ (cb = "error" => peer[c] = "reset")
    BY <1>3, <1>5, <2>1 DEF Current
  <2> QED
    BY <1>1, <1>2, <1>3, <1>4, <1>7, <2>1, <2>2 DEF Current
<1> QED
  BY <1>3, <1>6, <1>7

\* The list a returning callback leaves holds the same connections, or all but
\* the first, each once and with callbacks of the same kinds.
LEMMA ReturnFacts ==
    ASSUME TypeOK, Queues, NEW r \in Subs, sub[r] \in {"handle", "erase", "notify"},
           work[r] # << >>
    PROVE  LET w == work[r]
               v == Returned(w)
           IN  /\ v \in Seq(Work)
               /\ \A i \in 1..Len(v) : \E j \in 1..Len(w) :
                     /\ v[i].conn = w[j].conn
                     /\ \/ v[i].cbs = w[j].cbs
                        \/ v[i].cbs = <<"read">> /\ w[j].cbs = <<"error", "read">>
               /\ \A i, j \in 1..Len(v) : v[i].conn = v[j].conn => i = j
               /\ sub[r] = "notify" => /\ \A i \in 1..Len(v) : i + 1 \in 1..Len(w) /\ v[i] = w[i + 1]
<1> DEFINE w == work[r]
           v == Returned(w)
<1>1. w \in Seq(Work) /\ w # << >> /\ 1 \in 1..Len(w)
  BY DEF TypeOK
<1>2. w[1].cbs \in {<<"register">>, <<"read">>, <<"error", "read">>}
  <2>1. sub[r] = "notify" => w[1].cbs = <<"register">>
    BY <1>1 DEF Queues, Registering
  <2>2. sub[r] \in {"handle", "erase"} => w[1].cbs \in {<<"read">>, <<"error", "read">>}
    BY <1>1 DEF Queues, Handling
  <2> QED
    BY <2>1, <2>2
<1>3. \A i, j \in 1..Len(w) : w[i].conn = w[j].conn => i = j
  BY DEF Queues, Rounds
<1>4. v \in Seq(Work)
  BY <1>1, <1>2, ReturnedIs
<1>5. CASE w[1].cbs # <<"error", "read">>
  <2>1. v = Tail(w)
    BY <1>1, <1>2, <1>5, ReturnedIs
  <2>2. /\ Len(w) \in Nat \ {0}
        /\ Len(v) = Len(w) - 1
        /\ \A i \in 1..(Len(w) - 1) : v[i] = w[i + 1]
    BY <1>1, <2>1, TailOf
  <2> HIDE DEF v, w
  <2>3. \A i \in 1..Len(v) : i + 1 \in 1..Len(w) /\ v[i] = w[i + 1]
    BY <2>2
  <2>4. \A i, j \in 1..Len(v) : v[i].conn = v[j].conn => i = j
    <3> SUFFICES ASSUME NEW i \in 1..Len(v), NEW j \in 1..Len(v), v[i].conn = v[j].conn
                 PROVE  i = j
      OBVIOUS
    <3>1. i + 1 = j + 1
      BY <1>3, <2>3
    <3> QED
      BY <3>1
  <2> QED
    BY <1>4, <2>3, <2>4 DEF v, w
<1>6. CASE w[1].cbs = <<"error", "read">>
  <2>1. /\ Len(v) = Len(w)
        /\ \A i \in 1..Len(w) : /\ v[i].conn = w[i].conn
                                /\ i # 1 => v[i] = w[i]
                                /\ i = 1 => v[i].cbs = <<"read">>
    BY <1>1, <1>2, <1>6, ReturnedIs
  <2>2. sub[r] # "notify"
    <3>1. <<"register">> # <<"error", "read">>
      OBVIOUS
    <3> QED
      BY <1>1, <1>6, <3>1 DEF Queues, Registering
  <2> HIDE DEF v, w
  <2>3. \A i \in 1..Len(v) : /\ v[i].conn = w[i].conn
                             /\ \/ v[i].cbs = w[i].cbs
                                \/ v[i].cbs = <<"read">> /\ w[i].cbs = <<"error", "read">>
    BY <1>6, <2>1
  <2>4. \A i, j \in 1..Len(v) : v[i].conn = v[j].conn => i = j
    BY <1>3, <2>1, <2>3
  <2> QED
    BY <1>4, <2>1, <2>2, <2>3, <2>4 DEF v, w
<1> QED
  BY <1>5, <1>6

-----------------------------------------------------------------------------
(* Types *)

\* Products of the numbers of starts and threads, which the provers are given no
\* other way.
LEMMA FirstSubs ==
    /\ starts \in Nat /\ starts >= 1 => ThreadNum <= starts * ThreadNum
    /\ MaxStarts >= 1 => 1..ThreadNum \subseteq Subs
<1> USE ServerAssumption
<1>1. ASSUME NEW n \in Nat, n >= 1 PROVE ThreadNum <= n * ThreadNum
  <2>1. n * ThreadNum = (n - 1) * ThreadNum + ThreadNum
    OBVIOUS
  <2>2. n - 1 \in Nat /\ (n - 1) * ThreadNum \in Nat
    BY <1>1
  <2> QED
    BY <2>1, <2>2
<1> QED
  BY <1>1 DEF Subs

\* What the order epoll chooses is.
LEMMA OrderFacts ==
    ASSUME NEW r, NEW order \in SetToSeqs(Ready(r))
    PROVE  /\ order \in Seq(Ready(r))
           /\ Ready(r) \subseteq Conns
           /\ \A i, j \in 1..Len(order) : order[i] = order[j] => i = j
<1> USE ServerAssumption
<1>1. Ready(r) \subseteq Conns
  BY DEF Ready
<1>2. Cardinality(Ready(r)) \in Nat
  BY <1>1, FS_Subset, FS_CardinalityType
<1>3. /\ order \in [1..Cardinality(Ready(r)) -> Ready(r)]
      /\ \A i, j \in 1..Cardinality(Ready(r)) : order[i] = order[j] => i = j
  BY DEF SetToSeqs, IsInjective
<1>4. order \in Seq(Ready(r)) /\ Len(order) = Cardinality(Ready(r))
  BY <1>2, <1>3
<1> QED
  BY <1>1, <1>3, <1>4

\* Every step keeps the types.
LEMMA TypeStep == ASSUME IInv, Next PROVE TypeOK'
<1> USE ServerAssumption
<1> USE DEF appvars, ctlvars, itervars, mainvars, subvars, connvars, netvars, table
<1>0. TypeOK /\ Accepting /\ Queues /\ Seen
  BY DEF IInv
<1>1. ASSUME NEW c \in Conns, Client(c) PROVE TypeOK'
  <2>1. CASE Connect(c) /\ ClientRest
    <3>1. Append(backlog, c) \in Seq(Conns)
      BY <1>0 DEF TypeOK
    <3> QED
      BY <1>0, <2>1, <3>1 DEF TypeOK, Connect, ClientRest
  <2>2. CASE ClientSend(c) /\ ClientRest
    BY <1>0, <2>2 DEF TypeOK, ClientSend, ClientRest
  <2>3. ASSUME NEW how \in {"fin", "reset"}, ClientLeave(c, how), ClientRest PROVE TypeOK'
    BY <1>0, <2>3 DEF TypeOK, ClientLeave, ClientRest
  <2> QED
    BY <1>1, <2>1, <2>2, <2>3 DEF Client
<1>2. CASE Start
  <2>1. starts' \in 0..MaxStarts
    BY <1>0, <1>2 DEF TypeOK, Start
  <2>2. sub' \in [Subs -> {"off", "check", "poll", "handle", "erase", "tasks", "notify",
                           "stopped"}]
    BY <1>0, <1>2 DEF TypeOK, Start
  <2> QED
    BY <1>0, <1>2, <2>1, <2>2 DEF TypeOK, Start
<1>3. CASE AppCall
  <2>1. CASE StopBegin /\ AppRest
    <3>1. /\ running_' = FALSE /\ app' = "remove"
          /\ UNCHANGED <<next_reactor_, connections_, connections_mutex_, todo, acur, starts,
                         casts, listening, accept_channel_, main, mconn, mquit, sub, squit,
                         pending, work, state_, registered, target, peer, unread, backlog,
                         seen, fault>>
      BY <2>1 DEF StopBegin, AppRest
    <3>2. running_' \in BOOLEAN
      BY <3>1
    <3> QED
      BY <1>0, <3>1, <3>2 DEF TypeOK
  <2>2. CASE Broadcast /\ AppRest
    BY <1>0, <2>2 DEF TypeOK, Broadcast, LockConnections, AppRest
  <2> QED
    BY <1>3, <2>1, <2>2 DEF AppCall
<1>4. CASE AppStep
  <2>1. CASE (StopAccept("remove", "reset", "removed") \/ StopAccept("reset", "listen", "freed"))
                /\ AppRest
    BY <1>0, <2>1 DEF TypeOK, StopAccept, AppRest
  <2>2. CASE StopListen /\ AppRest
    <3>1. << >> \in Seq(Conns)
      OBVIOUS
    <3> QED
      BY <1>0, <2>2, <3>1 DEF TypeOK, StopListen, AppRest
  <2>3. CASE JoinMain /\ AppRest
    <3>1. squit' \in [Subs -> BOOLEAN]
      BY <1>0, <2>3 DEF JoinMain
    <3> QED
      BY <1>0, <2>3, <3>1 DEF TypeOK, JoinMain, AppRest
  <2>4. CASE JoinSubs /\ AppRest
    BY <1>0, <2>4 DEF TypeOK, JoinSubs, AppRest
  <2>5. CASE StopLock /\ AppRest
    BY <1>0, <2>5 DEF TypeOK, StopLock, LockConnections, AppRest
  <2>6. ASSUME NEW c \in Conns, StopClose(c), AppRest PROVE TypeOK'
    <3>1. CASE state_[c] = "kConnected"
      <4>1. /\ state_' = [state_ EXCEPT ![c] = "kDisconnecting"]
            /\ app' = "relock"
            /\ UNCHANGED <<running_, next_reactor_, connections_, connections_mutex_, todo,
                           acur, starts, casts, listening, accept_channel_, main, mconn,
                           mquit, sub, squit, pending, work, registered, target, peer,
                           unread, backlog, seen, fault>>
        BY <2>6, <3>1 DEF StopClose, AppRest
      <4>2. state_' \in [Conns -> {"none", "kConnecting", "kConnected", "kDisconnecting",
                                   "kDisconnected"}]
        BY <1>0, <4>1 DEF TypeOK
      <4> QED
        BY <1>0, <4>1, <4>2 DEF TypeOK
    <3>2. CASE state_[c] # "kConnected"
      BY <1>0, <2>6, <3>2 DEF TypeOK, StopClose, AppRest
    <3> QED
      BY <3>1, <3>2
  <2>7. CASE (StopEnd \/ CastEnd) /\ AppRest
    BY <1>0, <2>7 DEF TypeOK, StopEnd, CastEnd, AppRest
  <2>8. ASSUME NEW c \in Conns, CastCheck(c), AppRest PROVE TypeOK'
    BY <1>0, <2>8 DEF TypeOK, CastCheck, AppRest
  <2>9. CASE CastWrite /\ AppRest
    <3>1. acur \in Conns /\ "broadcast" \in Notice
      BY <1>0, <2>9 DEF Seen, Writing, CastWrite, Notice
    <3>2. Append(seen[acur], "broadcast") \in Seq(Notice)
      BY <1>0, <3>1 DEF TypeOK
    <3>3. seen' \in [Conns -> Seq(Notice)]
      BY <1>0, <2>9, <3>1, <3>2 DEF TypeOK, CastWrite, Tell, Heard
    <3> QED
      BY <1>0, <2>9, <3>3 DEF TypeOK, CastWrite, AppRest
  <2> QED
    BY <1>4, <2>1, <2>2, <2>3, <2>4, <2>5, <2>6, <2>7, <2>8, <2>9 DEF AppStep
<1>5. CASE MainStep \/ MainFails
  <2>1. CASE (MainCheck \/ MainPoll) /\ MainRest
    BY <1>0, <2>1 DEF TypeOK, MainCheck, MainPoll, MainRest
  <2>2. CASE (MainEvent \/ MainAcceptEnd \/ MainAcceptError) /\ MainRest
    BY <1>0, <2>2 DEF TypeOK, MainEvent, MainAcceptEnd, MainAcceptError, UseAcceptChannel,
                      MainRest
  <2>3. CASE MainAssign /\ MainRest
    <3>1. mconn \in Conns /\ target[mconn] \in Subs \cup {0}
      BY <1>0, <2>3 DEF TypeOK, Accepting, MainAssign
    <3>2. pending' = [pending EXCEPT ![target[mconn]] = Append(@, mconn)]
      BY <2>3 DEF MainAssign
    <3>3. pending' \in [Subs -> Seq(Conns)]
      <4>1. \A r \in Subs : Append(pending[r], mconn) \in Seq(Conns)
        BY <1>0, <3>1 DEF TypeOK
      <4> QED
        BY <1>0, <3>1, <3>2, <4>1 DEF TypeOK
    <3> QED
      BY <1>0, <2>3, <3>3 DEF TypeOK, MainAssign, MainRest
  <2>4. CASE MainInsert /\ MainRest
    <3>1. mconn \in Conns
      BY <1>0, <2>4 DEF TypeOK, Accepting, MainInsert
    <3> QED
      BY <1>0, <2>4, <3>1 DEF TypeOK, MainInsert, Recorded, MainRest
  <2> QED
    BY <1>5, <2>1, <2>2, <2>3, <2>4 DEF MainStep, MainFails
<1>6. CASE MainAccepts
  <2>1. Head(backlog) \in Conns /\ Tail(backlog) \in Seq(Conns)
    BY <1>0, <1>6 DEF TypeOK, MainAccepts, MainAccept
  <2>2. ReactorIndex(next_reactor_) + 1 \in 1..ThreadNum /\ next_reactor_ + 1 \in Nat
    BY <1>0 DEF TypeOK, ReactorIndex
  <2>3. 1..ThreadNum \subseteq Subs
    <3>1. MaxStarts >= 1
      BY <1>0, <1>6 DEF TypeOK, Accepting, MainAccepts, MainAccept
    <3> QED
      BY <3>1, FirstSubs
  <2>4. /\ mconn' = Head(backlog)
        /\ target' = [target EXCEPT ![Head(backlog)] = ReactorIndex(next_reactor_) + 1]
        /\ state_' = [state_ EXCEPT ![Head(backlog)] = "kConnecting"]
        /\ backlog' = Tail(backlog)
        /\ next_reactor_' = next_reactor_ + 1
        /\ main' = "assign"
        /\ UNCHANGED <<pending, connections_, fault>>
    BY <1>6 DEF MainAccepts, MainAccept
  <2>5. target' \in [Conns -> Subs \cup {0}]
    BY <1>0, <2>1, <2>2, <2>3, <2>4 DEF TypeOK
  <2> QED
    BY <1>0, <1>6, <2>1, <2>2, <2>4, <2>5 DEF TypeOK, MainAccepts, MainRest
<1>7. ASSUME NEW r \in Subs, SubStep(r) PROVE TypeOK'
  <2> DEFINE Places == {"off", "check", "poll", "handle", "erase", "tasks", "notify",
                        "stopped"}
             States == {"none", "kConnecting", "kConnected", "kDisconnecting",
                        "kDisconnected"}
             Typed == /\ sub' \in [Subs -> Places]
                      /\ work' \in [Subs -> Seq(Work)]
                      /\ pending' \in [Subs -> Seq(Conns)]
                      /\ state_' \in [Conns -> States]
                      /\ registered' \in [Conns -> BOOLEAN]
                      /\ seen' \in [Conns -> Seq(Notice)]
                      /\ unread' \in [Conns -> BOOLEAN]
                      /\ connections_' \subseteq Conns
  <2>1. ASSUME Typed, SubRest PROVE TypeOK'
    BY <1>0, <2>1 DEF TypeOK, SubRest
  <2>2. /\ sub \in [Subs -> Places]
        /\ work \in [Subs -> Seq(Work)]
        /\ pending \in [Subs -> Seq(Conns)]
        /\ state_ \in [Conns -> States]
        /\ registered \in [Conns -> BOOLEAN]
        /\ seen \in [Conns -> Seq(Notice)]
        /\ unread \in [Conns -> BOOLEAN]
        /\ connections_ \subseteq Conns
    BY <1>0 DEF TypeOK
  <2>3. ASSUME SubCheck(r) \/ SubTasksEnd(r) PROVE Typed
    BY <2>2, <2>3 DEF SubCheck, SubTasksEnd
  <2>4. ASSUME SubPoll(r) PROVE Typed
    <3>1. PICK order \in SetToSeqs(Ready(r)) :
             work' = [work EXCEPT ![r] = [i \in 1..Len(order) |->
                        [conn |-> order[i], cbs |-> HandleEvent(order[i])]]]
      BY <2>4 DEF SubPoll
    <3>2. order \in Seq(Conns)
      BY OrderFacts
    <3>3. \A i \in 1..Len(order) : [conn |-> order[i], cbs |-> HandleEvent(order[i])] \in Work
      <4> TAKE i \in 1..Len(order)
      <4>1. order[i] \in Conns
        BY <3>2
      <4>2. HandleEvent(order[i]) \in Seq(Callback)
        <5>1. <<"error", "read">> \in Seq(Callback) /\ <<"read">> \in Seq(Callback)
          BY DEF Callback
        <5> QED
          BY <5>1, HandleEventIs
      <4> QED
        BY <4>1, <4>2 DEF Work
    <3>4. [i \in 1..Len(order) |-> [conn |-> order[i], cbs |-> HandleEvent(order[i])]]
             \in Seq(Work)
      BY <3>2, <3>3
    <3>5. work' \in [Subs -> Seq(Work)]
      BY <2>2, <3>1, <3>4
    <3> QED
      BY <2>2, <2>4, <3>5 DEF SubPoll
  <2>5. ASSUME SubSwap(r) PROVE Typed
    <3>1. pending[r] \in Seq(Conns)
      BY <2>2
    <3>2. \A i \in 1..Len(pending[r]) : [conn |-> pending[r][i], cbs |-> <<"register">>] \in Work
      <4>1. <<"register">> \in Seq(Callback)
        BY DEF Callback
      <4> QED
        BY <3>1, <4>1 DEF Work
    <3>3. [i \in 1..Len(pending[r]) |-> [conn |-> pending[r][i], cbs |-> <<"register">>]]
             \in Seq(Work)
      BY <3>1, <3>2
    <3>4. work' \in [Subs -> Seq(Work)]
      BY <2>2, <2>5, <3>3 DEF SubSwap
    <3>5. pending' \in [Subs -> Seq(Conns)]
      <4>1. << >> \in Seq(Conns)
        OBVIOUS
      <4> QED
        BY <2>2, <2>5, <4>1 DEF SubSwap
    <3> QED
      BY <2>2, <2>5, <3>4, <3>5 DEF SubSwap
  <2>6. ASSUME NEW c \in Conns, SubRegister(r, c) PROVE Typed
    BY <2>2, <2>6 DEF SubRegister
  <2>7. ASSUME NEW c \in Conns, NEW n \in Notice, Tell(c, n)
        PROVE  seen' \in [Conns -> Seq(Notice)]
    <3>1. Heard(seen[c], n) \in Seq(Notice)
      <4>1. seen[c] \in Seq(Notice)
        BY <2>2
      <4> QED
        BY <4>1 DEF Heard
    <3> QED
      BY <2>2, <2>7, <3>1 DEF Tell
  <2>8. ASSUME sub[r] \in {"handle", "erase", "notify"}, work[r] # << >>, Return(r)
        PROVE  work' \in [Subs -> Seq(Work)]
    <3>1. Returned(work[r]) \in Seq(Work)
      BY <1>0, <2>8, ReturnFacts
    <3> QED
      BY <2>2, <2>8, <3>1 DEF Return
  <2>9. ASSUME sub[r] \in {"notify", "erase"}
        PROVE  work[r] # << >> /\ Head(work[r]).conn \in Conns
    <3>1. work[r] \in Seq(Work) /\ work[r] # << >>
      BY <1>0, <2>2, <2>9 DEF Queues, Rounds
    <3>2. Head(work[r]) \in Work
      BY <3>1
    <3> QED
      BY <3>1, <3>2 DEF Work
  <2>10. ASSUME SubNotify(r) PROVE Typed
    <3>1. seen' \in [Conns -> Seq(Notice)] /\ work' \in [Subs -> Seq(Work)]
      BY <2>7, <2>8, <2>9, <2>10 DEF SubNotify, Notice
    <3> QED
      BY <2>2, <2>10, <3>1 DEF SubNotify
  <2>11. ASSUME NEW c \in Conns, sub[r] = "handle", work[r] # << >>, CloseConnection(r, c)
         PROVE  Typed
    <3>1. work' \in [Subs -> Seq(Work)]
      BY <2>2, <2>8, <2>11 DEF CloseConnection
    <3>2. sub' \in [Subs -> Places] /\ state_' \in [Conns -> States]
      BY <2>2, <2>11 DEF CloseConnection
    <3> QED
      BY <2>2, <2>11, <3>1, <3>2 DEF CloseConnection
  <2>12. ASSUME NEW c \in Conns, SubRead(r, c) PROVE Typed
    <3>1. work[r] # << >> /\ sub[r] = "handle"
      BY <1>0, <2>12, CallsFacts DEF SubRead, Callback
    <3>2. CASE unread' = [unread EXCEPT ![c] = FALSE] /\ Tell(c, "message") /\ Return(r)
                 /\ UNCHANGED <<sub, pending, state_, registered, connections_>>
      <4>1. seen' \in [Conns -> Seq(Notice)] /\ work' \in [Subs -> Seq(Work)]
        BY <2>7, <2>8, <3>1, <3>2 DEF Notice
      <4> QED
        BY <2>2, <3>2, <4>1
    <3> QED
      BY <2>11, <2>12, <3>1, <3>2 DEF SubRead
  <2>13. ASSUME NEW c \in Conns, SubError(r, c) PROVE Typed
    <3>1. work[r] # << >> /\ sub[r] = "handle"
      BY <1>0, <2>13, CallsFacts DEF SubError, Callback
    <3> QED
      BY <2>11, <2>13, <3>1 DEF SubError
  <2>14. ASSUME SubErase(r) PROVE Typed
    <3>1. seen' \in [Conns -> Seq(Notice)] /\ work' \in [Subs -> Seq(Work)]
      BY <2>7, <2>8, <2>9, <2>14 DEF SubErase, Notice
    <3>2. sub' \in [Subs -> Places] /\ state_' \in [Conns -> States]
      BY <2>2, <2>9, <2>14 DEF SubErase
    <3> QED
      BY <2>2, <2>14, <3>1, <3>2 DEF SubErase
  <2> HIDE DEF Typed
  <2> QED
    BY <1>7, <2>1, <2>3, <2>4, <2>5, <2>6, <2>10, <2>12, <2>13, <2>14 DEF SubStep
<1> QED
  BY <1>1, <1>2, <1>3, <1>4, <1>5, <1>6, <1>7 DEF Next

-----------------------------------------------------------------------------
(* Init, and what a step of a sub reactor may touch *)

\* Nothing runs before start() (tcp_server.cpp:12-24).
LEMMA InitInvariant == Init => IInv
<1> USE ServerAssumption
<1> SUFFICES ASSUME Init PROVE IInv
  OBVIOUS
<1>1. TypeOK
  <2>1. /\ pending \in [Subs -> Seq(Conns)]
        /\ work \in [Subs -> Seq(Work)]
        /\ seen \in [Conns -> Seq(Notice)]
        /\ backlog \in Seq(Conns)
    BY DEF Init
  <2>2. /\ squit \in [Subs -> BOOLEAN]
        /\ registered \in [Conns -> BOOLEAN]
        /\ unread \in [Conns -> BOOLEAN]
    BY DEF Init
  <2>3. running_ \in BOOLEAN /\ listening \in BOOLEAN /\ mquit \in BOOLEAN
    BY DEF Init
  <2>4. next_reactor_ \in Nat /\ starts \in 0..MaxStarts /\ casts \in 0..MaxBroadcasts
    BY DEF Init
  <2> QED
    BY <2>1, <2>2, <2>3, <2>4 DEF Init, TypeOK
<1>2. Control
  BY DEF Init, Control, SubsJoined
<1>3. Accepting
  BY DEF Init, Accepting, IsInjective
<1>4. Queues
  BY DEF Init, Queues, Waiting, Rounds, Registering, Handling, IsInjective
<1>5. Listed
  BY DEF Init, Listed
<1>6. Seen /\ NoticesInOrder /\ NoBroadcastAfterDown
  BY DEF Init, Seen, Hears, Writing, Unannounced, Told, NoticesInOrder, NoBroadcastAfterDown
<1> QED
  BY <1>1, <1>2, <1>3, <1>4, <1>5, <1>6 DEF IInv

\* A sub reactor changes its own queues and the state of its own connections, and
\* never the state of one that is not accepted yet.
LEMMA SubTouches ==
    ASSUME IInv, NEW r \in Subs, SubStep(r)
    PROVE  /\ UNCHANGED <<running_, starts, casts, listening, accept_channel_, todo, acur,
                          app, main, mconn, next_reactor_, target, peer, backlog,
                          connections_mutex_, mquit, squit, fault>>
           /\ \A s \in Subs \ {r} : /\ sub'[s] = sub[s]
                                    /\ work'[s] = work[s]
                                    /\ pending'[s] = pending[s]
           /\ sub[r] \notin {"off", "stopped"} /\ sub'[r] # "off"
           /\ \A c \in Conns : state_'[c] # state_[c] =>
                 /\ target[c] = r
                 /\ state_[c] # "none"
                 /\ state_'[c] \notin {"none", "kConnecting"}
<1> USE DEF appvars, ctlvars, itervars, mainvars, subvars, connvars, netvars, table
<1>0. TypeOK /\ Queues
  BY DEF IInv
<1>1. UNCHANGED <<running_, starts, casts, listening, accept_channel_, todo, acur,
                  app, main, mconn, next_reactor_, target, peer, backlog,
                  connections_mutex_, mquit, squit, fault>>
  BY DEF SubStep, SubRest
<1>2. CASE SubCheck(r) \/ SubPoll(r) \/ SubSwap(r) \/ SubTasksEnd(r)
  <2>1. UNCHANGED state_
    BY <1>2 DEF SubCheck, SubPoll, SubSwap, SubTasksEnd
  <2>2. sub[r] \notin {"off", "stopped"} /\ sub'[r] # "off"
    BY <1>0, <1>2 DEF SubCheck, SubPoll, SubSwap, SubTasksEnd, TypeOK
  <2>3. \A s \in Subs \ {r} : sub'[s] = sub[s] /\ work'[s] = work[s] /\ pending'[s] = pending[s]
    BY <1>0, <1>2 DEF SubCheck, SubPoll, SubSwap, SubTasksEnd, TypeOK
  <2> QED
    BY <1>1, <2>1, <2>2, <2>3
<1>3. ASSUME NEW c \in Conns, SubRegister(r, c)
      PROVE  /\ \A s \in Subs \ {r} : /\ sub'[s] = sub[s]
                                      /\ work'[s] = work[s]
                                      /\ pending'[s] = pending[s]
             /\ sub[r] \notin {"off", "stopped"} /\ sub'[r] # "off"
             /\ target[c] = r /\ state_[c] = "kConnecting"
             /\ \A d \in Conns : state_'[d] = IF d = c THEN "kConnected" ELSE state_[d]
  <2>1. sub[r] = "tasks" /\ target[c] = r /\ Current(r) = c /\ 1 \in 1..Len(work[r])
    BY <1>0, <1>3, CallsFacts DEF SubRegister, Callback
  <2>2. state_[c] = "kConnecting"
    BY <1>0, <2>1 DEF Queues, Registering, Current
  <2> QED
    BY <1>0, <1>3, <2>1, <2>2 DEF SubRegister, TypeOK
<1>4. CASE SubNotify(r)
  BY <1>0, <1>1, <1>4 DEF SubNotify, Return, TypeOK
<1>5. ASSUME NEW c \in Conns, SubRead(r, c) \/ SubError(r, c)
      PROVE  /\ \A s \in Subs \ {r} : /\ sub'[s] = sub[s]
                                      /\ work'[s] = work[s]
                                      /\ pending'[s] = pending[s]
             /\ sub[r] \notin {"off", "stopped"} /\ sub'[r] # "off"
             /\ target[c] = r
             /\ \A d \in Conns : state_'[d] # state_[d] =>
                   d = c /\ state_[c] = "kConnected" /\ state_'[c] = "kDisconnecting"
  <2>1. sub[r] = "handle" /\ target[c] = r
    BY <1>0, <1>5, CallsFacts DEF SubRead, SubError, Callback
  <2>2. CASE Return(r) /\ UNCHANGED <<sub, pending, state_>>
    BY <1>0, <2>1, <2>2 DEF Return, TypeOK
  <2>3. CASE CloseConnection(r, c)
    <3>1. CASE state_[c] = "kConnected"
      BY <1>0, <2>1, <2>3, <3>1 DEF CloseConnection, IsConnected, TypeOK
    <3>2. CASE state_[c] # "kConnected"
      BY <1>0, <2>1, <2>3, <3>2 DEF CloseConnection, IsConnected, Return, TypeOK
    <3> QED
      BY <3>1, <3>2
  <2> QED
    BY <1>5, <2>2, <2>3 DEF SubRead, SubError
<1>6. CASE SubErase(r)
  <2>1. /\ sub[r] = "erase"
        /\ work[r] \in Seq(Work) /\ work[r] # << >>
        /\ 1 \in 1..Len(work[r]) /\ Head(work[r]) = work[r][1]
    <3>1. sub[r] = "erase" /\ work[r] \in Seq(Work) /\ work[r] # << >>
      BY <1>0, <1>6 DEF SubErase, Queues, Rounds, TypeOK
    <3> QED
      BY <3>1
  <2>2. Current(r) \in Conns /\ state_[Current(r)] = "kDisconnecting" /\ target[Current(r)] = r
    <3>1. work[r][1] \in Work
      BY <2>1
    <3>2. Current(r) \in Conns
      BY <3>1 DEF Current, Work
    <3> QED
      BY <1>0, <2>1, <3>2 DEF Queues, Rounds, Current
  <2>3. \A d \in Conns : state_'[d] = IF d = Current(r) THEN "kDisconnected" ELSE state_[d]
    BY <1>0, <1>6, <2>1, <2>2 DEF SubErase, Current, TypeOK
  <2>4. /\ \A s \in Subs \ {r} : sub'[s] = sub[s] /\ work'[s] = work[s] /\ pending'[s] = pending[s]
        /\ sub'[r] = "handle"
    BY <1>0, <1>6 DEF SubErase, Return, TypeOK
  <2> QED
    BY <1>1, <2>1, <2>2, <2>3, <2>4
<1> QED
  BY <1>1, <1>2, <1>3, <1>4, <1>5, <1>6 DEF SubStep

-----------------------------------------------------------------------------
(* The parts of the invariant, one by one *)

\* Who runs while stop() and broadcast() are where they are
\* (tcp_server.cpp:104-168, 245-261).
LEMMA ControlStep == ASSUME IInv, Next PROVE Control'
<1> USE DEF appvars, ctlvars, itervars, mainvars, subvars, connvars, netvars, table
<1>0. TypeOK /\ Control
  BY DEF IInv
<1>1. ASSUME NEW c \in Conns, Client(c) PROVE Control'
  <2>1. UNCHANGED <<app, connections_mutex_, main, sub, running_>>
    BY <1>1 DEF Client, ClientRest
  <2> QED
    BY <1>0, <2>1 DEF Control, SubsJoined
<1>2. CASE Start
  BY <1>2 DEF Start, Control
<1>3. CASE AppCall
  BY <1>0, <1>3 DEF AppCall, StopBegin, Broadcast, LockConnections, AppRest, Control, SubsJoined
<1>4. CASE AppStep
  <2>1. UNCHANGED <<main, sub, running_>>
    BY <1>4 DEF AppStep, AppRest, StopAccept, StopListen, JoinMain, JoinSubs, StopLock,
                LockConnections, StopClose, StopEnd, CastCheck, CastWrite, CastEnd
  <2>2. SubsJoined' = SubsJoined
    BY <2>1 DEF SubsJoined
  <2>3. CASE StopAccept("remove", "reset", "removed") \/ StopAccept("reset", "listen", "freed")
                \/ StopListen \/ JoinMain \/ JoinSubs \/ StopLock
    BY <1>0, <2>1, <2>2, <2>3 DEF StopAccept, StopListen, JoinMain, JoinSubs, StopLock,
                                  LockConnections, Control
  <2>4. ASSUME NEW c \in Conns, StopClose(c) \/ CastCheck(c) PROVE Control'
    BY <1>0, <2>1, <2>2, <2>4 DEF StopClose, CastCheck, Control
  <2>5. CASE StopEnd \/ CastWrite \/ CastEnd
    BY <1>0, <2>1, <2>2, <2>5 DEF StopEnd, CastWrite, CastEnd, Control
  <2> QED
    BY <1>4, <2>3, <2>4, <2>5 DEF AppStep
<1>5. CASE MainStep \/ MainAccepts \/ MainFails
  <2>1. UNCHANGED <<app, connections_mutex_, sub, running_>>
    BY <1>5 DEF MainStep, MainAccepts, MainFails, MainRest
  <2>2. main \notin {"off", "stopped"}
    BY <1>5 DEF MainStep, MainAccepts, MainFails, MainCheck, MainPoll, MainEvent, MainAccept,
                MainAcceptEnd, MainAcceptError, MainAssign, MainInsert
  <2>3. SubsJoined' = SubsJoined
    BY <2>1 DEF SubsJoined
  <2> QED
    BY <1>0, <2>1, <2>2, <2>3 DEF Control
<1>6. ASSUME NEW r \in Subs, SubStep(r) PROVE Control'
  <2>1. UNCHANGED <<app, connections_mutex_, main, running_>> /\ ~SubsJoined
    BY <1>6, SubTouches DEF SubsJoined
  <2> QED
    BY <1>0, <2>1 DEF Control
<1> QED
  BY <1>1, <1>2, <1>3, <1>4, <1>5, <1>6 DEF Next

\* The backlog and the connections accepted from it (tcp_server.cpp:66-102,
\* 170-239).
LEMMA AcceptingStep == ASSUME IInv, Next PROVE Accepting'
<1> USE ServerAssumption
<1> USE DEF appvars, ctlvars, itervars, mainvars, subvars, connvars, netvars, table
<1>0. TypeOK /\ Control /\ Accepting
  BY DEF IInv
<1>1. ASSUME NEW c \in Conns, Client(c) PROVE Accepting'
  <2>1. UNCHANGED <<main, mconn, state_, target, starts, sub>>
    BY <1>1 DEF Client, ClientRest
  <2>2. CASE Connect(c)
    <3>1. /\ peer[c] = "none"
          /\ backlog' = Append(backlog, c)
          /\ \A d \in Conns : peer'[d] = IF d = c THEN "open" ELSE peer[d]
          /\ backlog \in Seq(Conns)
      BY <1>0, <2>2 DEF Connect, TypeOK
    <3>2. state_[c] = "none" /\ \A i \in 1..Len(backlog) : backlog[i] # c
      BY <1>0, <3>1 DEF Accepting
    <3>3. /\ IsInjective(backlog')
          /\ Len(backlog') = Len(backlog) + 1
          /\ \A i \in 1..Len(backlog') :
                backlog'[i] = IF i <= Len(backlog) THEN backlog[i] ELSE c
      BY <1>0, <3>1, <3>2, AppendNew DEF Accepting
    <3>4. \A i \in 1..Len(backlog') : state_[backlog'[i]] = "none" /\ peer'[backlog'[i]] # "none"
      <4> TAKE i \in 1..Len(backlog')
      <4>1. CASE i <= Len(backlog)
        <5>1. i \in 1..Len(backlog) /\ backlog'[i] = backlog[i] /\ backlog[i] \in Conns
          BY <3>1, <3>3, <4>1
        <5> QED
          BY <1>0, <3>1, <5>1 DEF Accepting
      <4>2. CASE ~(i <= Len(backlog))
        BY <3>1, <3>2, <3>3, <4>2
      <4> QED
        BY <4>1, <4>2
    <3> QED
      BY <1>0, <2>1, <3>1, <3>3, <3>4 DEF Accepting
  <2>3. CASE UNCHANGED backlog /\ \A d \in Conns : peer[d] # "none" => peer'[d] # "none"
    <3>1. \A i \in 1..Len(backlog) : backlog[i] \in Conns
      BY <1>0 DEF TypeOK
    <3> QED
      BY <1>0, <2>1, <2>3, <3>1 DEF Accepting
  <2> QED
    BY <1>0, <1>1, <2>2, <2>3 DEF Client, ClientSend, ClientLeave, TypeOK
<1>2. CASE Start
  <2>1. /\ main' = "check" /\ starts' = starts + 1
        /\ UNCHANGED <<mconn, state_, backlog, peer, target>>
        /\ starts \in Nat
    BY <1>0, <1>2 DEF Start, TypeOK
  <2>2. mconn = NoConn
    BY <1>0, <1>2 DEF Start, Control, Accepting
  <2>3. ASSUME NEW r \in 1..ThreadNum PROVE sub'[r] # "off"
    <3>1. r \in Subs
      BY <1>0, <1>2, FirstSubs DEF Start, TypeOK
    <3>2. sub'[r] = IF r \in NewSubs THEN "check" ELSE sub[r]
      BY <1>2, <3>1 DEF Start
    <3>3. CASE starts = 0
      BY <3>2, <3>3 DEF NewSubs
    <3>4. CASE starts >= 1
      BY <1>0, <3>2, <3>4 DEF Accepting
    <3> QED
      BY <2>1, <3>3, <3>4
  <2> QED
    BY <1>0, <2>1, <2>2, <2>3 DEF Accepting
<1>3. CASE AppCall \/ AppStep
  <2>1. UNCHANGED <<main, mconn, target, starts, sub, peer>> /\ backlog' \in {backlog, << >>}
    BY <1>3 DEF AppCall, AppStep, AppRest, StopAccept, StopListen, JoinMain, JoinSubs,
                StopLock, LockConnections, StopClose, StopEnd, CastCheck, CastWrite, CastEnd,
                StopBegin, Broadcast
  <2>2. \A c \in Conns : state_'[c] # state_[c] => state_[c] # "none" /\ state_'[c] # "none"
    <3>1. ASSUME NEW c \in Conns, StopClose(c)
          PROVE  \A d \in Conns : state_'[d] # state_[d] => state_[d] # "none" /\ state_'[d] # "none"
      BY <1>0, <3>1 DEF StopClose, TypeOK
    <3> QED
      BY <1>3, <3>1 DEF AppCall, AppStep, AppRest, StopAccept, StopListen, JoinMain, JoinSubs,
                StopLock, LockConnections, StopEnd, CastCheck, CastWrite, CastEnd,
                StopBegin, Broadcast
  <2>3. IsInjective(<< >>) /\ Len(<< >>) = 0
    BY DEF IsInjective
  <2>4. /\ IsInjective(backlog')
        /\ \A i \in 1..Len(backlog') : state_'[backlog'[i]] = "none" /\ peer[backlog'[i]] # "none"
    <3>1. \A i \in 1..Len(backlog) : backlog[i] \in Conns
      BY <1>0 DEF TypeOK
    <3>2. CASE backlog' = backlog
      BY <1>0, <2>2, <3>1, <3>2 DEF Accepting
    <3>3. CASE backlog' = << >>
      BY <2>3, <3>3
    <3> QED
      BY <2>1, <3>2, <3>3
  <2>5. mconn \in Conns \cup {NoConn}
    BY <1>0 DEF TypeOK
  <2> QED
    BY <1>0, <2>1, <2>2, <2>4, <2>5 DEF Accepting
<1>4. CASE MainStep \/ MainFails
  <2>1. UNCHANGED <<state_, target, starts, sub, peer, backlog>>
    BY <1>4 DEF MainStep, MainFails, MainRest, MainCheck, MainPoll, MainEvent, MainAcceptEnd,
                MainAcceptError, MainAssign, MainInsert, UseAcceptChannel
  <2>2. /\ main' \in {"assign", "insert"} <=> mconn' # NoConn
        /\ mconn' \in {mconn, NoConn}
        /\ main' # "off" => starts >= 1
    BY <1>0, <1>4 DEF MainStep, MainFails, MainCheck, MainPoll, MainEvent, MainAcceptEnd,
                MainAcceptError, MainAssign, MainInsert, UseAcceptChannel, Accepting
  <2> QED
    BY <1>0, <2>1, <2>2 DEF Accepting
<1>5. CASE MainAccepts
  <2>1. /\ main = "accept" /\ main' = "assign"
        /\ backlog # << >> /\ backlog \in Seq(Conns)
        /\ mconn' = Head(backlog) /\ backlog' = Tail(backlog)
        /\ target' = [target EXCEPT ![Head(backlog)] = ReactorIndex(next_reactor_) + 1]
        /\ state_' = [state_ EXCEPT ![Head(backlog)] = "kConnecting"]
        /\ UNCHANGED <<starts, sub, peer>>
    BY <1>0, <1>5 DEF MainAccepts, MainAccept, MainRest, TypeOK
  <2>2. /\ Head(backlog) = backlog[1] /\ backlog[1] \in Conns
        /\ Len(backlog) \in Nat \ {0}
        /\ Len(backlog') = Len(backlog) - 1
        /\ IsInjective(backlog')
        /\ \A i \in 1..(Len(backlog) - 1) :
              backlog'[i] = backlog[i + 1] /\ backlog'[i] # backlog[1]
    BY <1>0, <2>1, TailOf DEF Accepting
  <2>3. ReactorIndex(next_reactor_) + 1 \in 1..ThreadNum
    BY <1>0 DEF TypeOK, ReactorIndex
  <2>4. \A c \in Conns :
           /\ state_'[c] = IF c = backlog[1] THEN "kConnecting" ELSE state_[c]
           /\ target'[c] = IF c = backlog[1] THEN ReactorIndex(next_reactor_) + 1 ELSE target[c]
    BY <1>0, <2>1, <2>2 DEF TypeOK
  <2>5. state_[backlog[1]] = "none" /\ peer[backlog[1]] # "none" /\ starts >= 1
    BY <1>0, <2>1, <2>2 DEF Accepting
  <2>6. \A i \in 1..Len(backlog') : state_'[backlog'[i]] = "none" /\ peer[backlog'[i]] # "none"
    <3> TAKE i \in 1..Len(backlog')
    <3>1. i + 1 \in 1..Len(backlog) /\ backlog'[i] = backlog[i + 1] /\ backlog'[i] # backlog[1]
      BY <2>2
    <3>2. backlog[i + 1] \in Conns
      BY <2>1, <3>1
    <3> QED
      BY <1>0, <2>4, <3>1, <3>2 DEF Accepting
  <2>7. mconn' # NoConn /\ state_'[mconn'] # "none"
    BY <2>1, <2>2, <2>4
  <2> HIDE DEF ReactorIndex
  <2> QED
    BY <1>0, <2>1, <2>2, <2>3, <2>4, <2>5, <2>6, <2>7 DEF Accepting
<1>6. ASSUME NEW r \in Subs, SubStep(r) PROVE Accepting'
  <2>1. /\ UNCHANGED <<main, mconn, backlog, peer, target, starts>>
        /\ \A s \in Subs : sub'[s] = "off" => sub[s] = "off"
        /\ \A c \in Conns : state_'[c] # state_[c] => state_[c] # "none" /\ state_'[c] # "none"
    BY <1>6, SubTouches
  <2>2. /\ \A i \in 1..Len(backlog) : backlog[i] \in Conns
        /\ mconn \in Conns \cup {NoConn}
        /\ starts >= 1 => 1..ThreadNum \subseteq Subs
    <3>1. starts >= 1 => MaxStarts >= 1
      BY <1>0 DEF TypeOK
    <3> QED
      BY <1>0, <3>1, FirstSubs DEF TypeOK
  <2> QED
    BY <1>0, <2>1, <2>2 DEF Accepting
<1> QED
  BY <1>1, <1>2, <1>3, <1>4, <1>5, <1>6 DEF Next

\* A reactor whose queues stay as they are is not disturbed by a step that leaves
\* its accepted connections alone.
LEMMA QueueFrame ==
    ASSUME TypeOK, Queues, NEW s \in Subs,
           work'[s] = work[s], pending'[s] = pending[s],
           sub'[s] = sub[s] \/ {sub[s], sub'[s]} \subseteq {"off", "check", "poll", "stopped"},
           \A c \in Conns : target[c] = s /\ state_[c] # "none" =>
              /\ target'[c] = s
              /\ state_'[c] = state_[c]
                    \/ (state_[c] = "kConnected" /\ sub[s] \in {"off", "stopped"})
              /\ registered[c] => registered'[c]
              /\ peer[c] \in {"fin", "reset"} => peer'[c] = peer[c]
              /\ Over(c) => Over(c)',
           main' = "assign" =>
              (main = "assign" /\ mconn' = mconn) \/ state_[mconn'] = "none"
    PROVE  Waiting(s)' /\ Rounds(s)' /\ Registering(s)' /\ Handling(s)'
<1>1. work[s] \in Seq(Work) /\ pending[s] \in Seq(Conns)
  BY DEF TypeOK
<1>2. \A i \in 1..Len(work[s]) : work[s][i].conn \in Conns
  <2>1. \A i \in 1..Len(work[s]) : work[s][i] \in Work
    BY <1>1
  <2> QED
    BY <2>1 DEF Work
<1>3. Waiting(s) /\ Rounds(s) /\ Registering(s) /\ Handling(s)
  BY DEF Queues
<1>4. Waiting(s)'
  <2>1. ASSUME NEW i \in 1..Len(pending[s])
        PROVE  /\ state_'[pending[s][i]] = "kConnecting"
               /\ target'[pending[s][i]] = s
               /\ main' = "assign" => pending[s][i] # mconn'
    <3>1. /\ pending[s][i] \in Conns
          /\ state_[pending[s][i]] = "kConnecting"
          /\ target[pending[s][i]] = s
          /\ main = "assign" => pending[s][i] # mconn
      BY <1>1, <1>3 DEF Waiting
    <3> QED
      BY <3>1
  <2> QED
    BY <1>3, <2>1 DEF Waiting
<1>5. CASE work[s] = << >>
  <2>1. work'[s] = << >> /\ Len(<< >>) = 0 /\ sub'[s] \notin {"notify", "erase"}
    BY <1>3, <1>5 DEF Rounds
  <2>2. Rounds(s)' /\ Registering(s)' /\ Handling(s)'
    BY <2>1 DEF Rounds, Registering, Handling
  <2> QED
    BY <1>4, <2>2
<1>6. CASE work[s] # << >>
  <2>1. sub'[s] = sub[s] /\ sub[s] \in {"handle", "erase", "tasks", "notify"}
    BY <1>3, <1>6 DEF Rounds, TypeOK
  <2>2. \A i \in 1..Len(work[s]) :
           LET c == work[s][i].conn
           IN  /\ c \in Conns /\ state_[c] # "none" /\ target[c] = s
               /\ target'[c] = s /\ state_'[c] = state_[c]
               /\ registered[c] => registered'[c]
               /\ peer[c] \in {"fin", "reset"} => peer'[c] = peer[c]
               /\ Over(c) => Over(c)'
    <3> SUFFICES ASSUME NEW i \in 1..Len(work[s])
                 PROVE  LET c == work[s][i].conn
                        IN  c \in Conns /\ state_[c] # "none" /\ target[c] = s
      BY <2>1
    <3>1. work[s][i].conn \in Conns /\ target[work[s][i].conn] = s
      BY <1>2, <1>3 DEF Rounds
    <3>2. state_[work[s][i].conn] # "none"
      <4>1. CASE sub[s] \in {"tasks", "notify"}
        BY <1>3, <4>1 DEF Registering
      <4>2. CASE sub[s] \in {"handle", "erase"}
        BY <1>3, <3>1, <4>2 DEF Handling, Queues
      <4> QED
        BY <2>1, <4>1, <4>2
    <3> QED
      BY <3>1, <3>2
  <2>3. Rounds(s)'
    <3>1. sub[s] = "erase" => 1 \in 1..Len(work[s])
      BY <1>1, <1>6
    <3>2. sub[s] = "erase" => (state_[Current(s)] = "kDisconnecting" /\ Over(Current(s)))'
      <4>1. ASSUME sub[s] = "erase"
            PROVE  (state_[Current(s)] = "kDisconnecting" /\ Over(Current(s)))'
        <5>1. state_[Current(s)] = "kDisconnecting" /\ Over(Current(s))
          BY <1>3, <4>1 DEF Rounds
        <5>2. PICK c \in Conns : c = work[s][1].conn
          BY <2>2, <3>1, <4>1
        <5>3. state_'[c] = state_[c] /\ (Over(c) => Over(c)') /\ Current(s)' = c /\ Current(s) = c
          BY <2>2, <3>1, <4>1, <5>2 DEF Current
        <5> QED
          BY <5>1, <5>3 DEF Over
      <4> QED
        BY <4>1
    <3> QED
      BY <1>3, <1>6, <2>1, <2>2, <3>2 DEF Rounds
  <2>4. Registering(s)'
    BY <1>3, <2>1, <2>2 DEF Registering
  <2>5. Handling(s)'
    BY <1>3, <2>1, <2>2 DEF Handling
  <2> QED
    BY <1>4, <2>3, <2>4, <2>5
<1> QED
  BY <1>5, <1>6

\* A callback that returns leaves the round of its reactor in order
\* (channel.cpp:79-103).
LEMMA ReturnKeeps ==
    ASSUME TypeOK, Queues, NEW r \in Subs, sub[r] \in {"handle", "erase"}, work[r] # << >>,
           sub'[r] = "handle", work'[r] = Returned(work[r]),
           pending'[r] = pending[r],
           UNCHANGED <<target, peer, main, mconn, registered>>,
           \A c \in Conns : state_[c] = "kConnecting" => state_'[c] = "kConnecting"
    PROVE  Waiting(r)' /\ Rounds(r)' /\ Registering(r)' /\ Handling(r)'
<1> DEFINE w == work[r]
           v == Returned(w)
<1>1. pending[r] \in Seq(Conns)
  BY DEF TypeOK
<1>2. Waiting(r) /\ Rounds(r) /\ Handling(r)
  BY DEF Queues
<1>3. /\ \A i \in 1..Len(v) : \E j \in 1..Len(w) :
            /\ v[i].conn = w[j].conn
            /\ \/ v[i].cbs = w[j].cbs
               \/ v[i].cbs = <<"read">> /\ w[j].cbs = <<"error", "read">>
      /\ \A i, j \in 1..Len(v) : v[i].conn = v[j].conn => i = j
  BY ReturnFacts
<1>4. Waiting(r)'
  <2>1. \A i \in 1..Len(pending[r]) : pending[r][i] \in Conns
    BY <1>1
  <2> QED
    BY <1>2, <2>1 DEF Waiting
<1>5. \A j \in 1..Len(w) : /\ target[w[j].conn] = r
                           /\ registered[w[j].conn]
                           /\ w[j].cbs = <<"read">>
                                 \/ (w[j].cbs = <<"error", "read">> /\ peer[w[j].conn] = "reset")
  BY <1>2 DEF Rounds, Handling
<1> HIDE DEF w, v
<1>6. work'[r] = v
  BY DEF v, w
<1>7. Rounds(r)'
  BY <1>3, <1>5, <1>6 DEF Rounds
<1>8. Handling(r)' /\ Registering(r)'
  BY <1>3, <1>5, <1>6 DEF Handling, Registering
<1> QED
  BY <1>4, <1>7, <1>8

\* A reactor's own step keeps its queue and its round in order
\* (reactor.cpp:58-103, 213-228; tcp_server.cpp:213-237; tcp_connection.cpp:52-80,
\* 120-146).
LEMMA RoundStep ==
    ASSUME IInv, NEW r \in Subs, SubStep(r)
    PROVE  Waiting(r)' /\ Rounds(r)' /\ Registering(r)' /\ Handling(r)'
<1> USE DEF subvars, connvars
<1>0. TypeOK /\ Queues
  BY DEF IInv
<1>1. UNCHANGED <<target, peer, main, mconn, squit>>
  BY SubTouches
<1>2. /\ work[r] \in Seq(Work) /\ pending[r] \in Seq(Conns)
      /\ work \in [Subs -> Seq(Work)] /\ pending \in [Subs -> Seq(Conns)]
      /\ DOMAIN sub = Subs /\ DOMAIN state_ = Conns /\ DOMAIN registered = Conns
  BY <1>0 DEF TypeOK
<1>3. Waiting(r) /\ Rounds(r) /\ Registering(r) /\ Handling(r)
  BY <1>0 DEF Queues
<1>4. \A i \in 1..Len(pending[r]) : pending[r][i] \in Conns
  BY <1>2
<1>5. \A i \in 1..Len(work[r]) : work[r][i].conn \in Conns
  <2>1. \A i \in 1..Len(work[r]) : work[r][i] \in Work
    BY <1>2
  <2> QED
    BY <2>1 DEF Work
<1>6. CASE SubCheck(r)
  <2>1. /\ work'[r] = work[r] /\ pending'[r] = pending[r]
        /\ sub[r] = "check" /\ sub'[r] \in {"stopped", "poll"}
        /\ UNCHANGED <<state_, registered, unread>>
    BY <1>2, <1>6 DEF SubCheck
  <2> QED
    BY <1>0, <1>1, <2>1, QueueFrame DEF Over
<1>7. CASE SubTasksEnd(r)
  <2>1. /\ work'[r] = << >> /\ Len(<< >>) = 0 /\ sub'[r] = "check"
        /\ pending' = pending /\ state_' = state_
    BY <1>2, <1>7 DEF SubTasksEnd
  <2> QED
    BY <1>1, <1>3, <2>1 DEF Waiting, Rounds, Registering, Handling
<1>8. CASE SubPoll(r)
  <2>1. PICK order \in SetToSeqs(Ready(r)) :
           work' = [work EXCEPT ![r] = [i \in 1..Len(order) |->
                      [conn |-> order[i], cbs |-> HandleEvent(order[i])]]]
    BY <1>8 DEF SubPoll
  <2>2. /\ order \in Seq(Ready(r)) /\ Ready(r) \subseteq Conns
        /\ \A i, j \in 1..Len(order) : order[i] = order[j] => i = j
    BY OrderFacts
  <2>3. /\ work'[r] = [i \in 1..Len(order) |->
                         [conn |-> order[i], cbs |-> HandleEvent(order[i])]]
        /\ sub'[r] = "handle" /\ pending' = pending /\ state_' = state_
        /\ registered' = registered
    BY <1>2, <1>8, <2>1 DEF SubPoll
  <2>4. /\ Len(work'[r]) = Len(order)
        /\ \A i \in 1..Len(order) : /\ work'[r][i].conn = order[i]
                                     /\ work'[r][i].cbs = HandleEvent(order[i])
    <3>1. Len(order) \in Nat
      BY <2>2
    <3> QED
      BY <2>3, <3>1
  <2>5. \A i \in 1..Len(order) : target[order[i]] = r /\ registered[order[i]]
    <3>1. \A i \in 1..Len(order) : order[i] \in Ready(r)
      BY <2>2
    <3> QED
      BY <3>1 DEF Ready
  <2>6. Rounds(r)'
    BY <1>1, <2>2, <2>3, <2>4, <2>5 DEF Rounds
  <2>7. Handling(r)'
    BY <1>1, <2>3, <2>4, <2>5, HandleEventIs DEF Handling
  <2> QED
    BY <1>1, <1>3, <2>3, <2>6, <2>7 DEF Waiting, Registering
<1>9. CASE SubSwap(r)
  <2>1. /\ work'[r] = [i \in 1..Len(pending[r]) |->
                         [conn |-> pending[r][i], cbs |-> <<"register">>]]
        /\ pending'[r] = << >> /\ Len(<< >>) = 0
        /\ sub'[r] = "tasks" /\ state_' = state_
    BY <1>2, <1>9 DEF SubSwap
  <2>2. /\ Len(work'[r]) = Len(pending[r])
        /\ \A i \in 1..Len(pending[r]) : /\ work'[r][i].conn = pending[r][i]
                                          /\ work'[r][i].cbs = <<"register">>
    <3>1. Len(pending[r]) \in Nat
      BY <1>2
    <3> QED
      BY <2>1, <3>1
  <2>3. \A i, j \in 1..Len(pending[r]) : pending[r][i] = pending[r][j] => i = j
    BY <1>2, <1>3 DEF Waiting, IsInjective
  <2>4. Rounds(r)'
    BY <1>1, <1>3, <2>1, <2>2, <2>3 DEF Rounds, Waiting
  <2>5. Registering(r)'
    BY <1>1, <1>3, <2>1, <2>2 DEF Registering, Waiting
  <2>6. Waiting(r)'
    BY <2>1 DEF Waiting, IsInjective
  <2> QED
    BY <2>1, <2>4, <2>5, <2>6 DEF Handling
<1>10. ASSUME NEW c \in Conns, SubRegister(r, c)
       PROVE  Waiting(r)' /\ Rounds(r)' /\ Registering(r)' /\ Handling(r)'
  <2>1. /\ 1 \in 1..Len(work[r]) /\ work[r] # << >> /\ work[r][1].conn = c
        /\ sub[r] = "tasks"
    BY <1>0, <1>10, CallsFacts DEF SubRegister, Callback, Current
  <2>2. /\ work' = work /\ pending' = pending /\ sub'[r] = "notify"
        /\ \A d \in Conns : state_'[d] = IF d = c THEN "kConnected" ELSE state_[d]
    BY <1>2, <1>10 DEF SubRegister
  <2>3. \A i \in 1..Len(pending[r]) : pending[r][i] # c
    BY <1>3, <2>1 DEF Registering
  <2>4. \A i \in 1..Len(work[r]) : i # 1 => work[r][i].conn # c
    BY <1>3, <2>1 DEF Rounds
  <2>5. Waiting(r)'
    BY <1>1, <1>3, <1>4, <2>2, <2>3 DEF Waiting
  <2>6. Rounds(r)'
    BY <1>1, <1>3, <2>1, <2>2 DEF Rounds
  <2>7. Registering(r)'
    BY <1>1, <1>3, <1>5, <2>1, <2>2, <2>4 DEF Registering
  <2> QED
    BY <2>2, <2>5, <2>6, <2>7 DEF Handling
<1>11. CASE SubNotify(r)
  <2>1. sub[r] = "notify" /\ work[r] # << >>
    BY <1>3, <1>11 DEF SubNotify, Rounds
  <2>2. /\ work'[r] = Returned(work[r]) /\ pending' = pending /\ sub'[r] = "tasks"
        /\ state_' = state_
    BY <1>2, <1>11 DEF SubNotify, Return
  <2>3. /\ \A i, j \in 1..Len(work'[r]) : work'[r][i].conn = work'[r][j].conn => i = j
        /\ \A i \in 1..Len(work'[r]) : i + 1 \in 1..Len(work[r]) /\ work'[r][i] = work[r][i + 1]
    BY <1>0, <2>1, <2>2, ReturnFacts
  <2>4. Rounds(r)'
    BY <1>1, <1>3, <2>2, <2>3 DEF Rounds
  <2>5. Registering(r)'
    <3>1. ASSUME NEW i \in 1..Len(work'[r])
          PROVE  /\ work'[r][i].cbs = <<"register">>
                 /\ \A j \in 1..Len(pending[r]) : pending[r][j] # work'[r][i].conn
                 /\ main = "assign" => work'[r][i].conn # mconn
                 /\ state_[work'[r][i].conn] = "kConnecting"
      <4>1. i + 1 # 1 /\ i + 1 \in 1..Len(work[r]) /\ work'[r][i] = work[r][i + 1]
        BY <2>3
      <4> QED
        BY <1>3, <2>1, <4>1 DEF Registering
    <3> QED
      BY <1>1, <2>2, <3>1 DEF Registering
  <2> QED
    BY <1>1, <1>3, <2>2, <2>4, <2>5 DEF Waiting, Handling
<1>12. ASSUME NEW c \in Conns, SubRead(r, c) \/ SubError(r, c)
       PROVE  Waiting(r)' /\ Rounds(r)' /\ Registering(r)' /\ Handling(r)'
  <2>1. /\ 1 \in 1..Len(work[r]) /\ work[r] # << >> /\ Current(r) = c
        /\ sub[r] = "handle"
        /\ SubError(r, c) => peer[c] = "reset"
    BY <1>0, <1>12, CallsFacts DEF SubRead, SubError, Callback
  <2>2. ASSUME work'[r] = Returned(work[r]), UNCHANGED <<sub, pending, state_, registered>>
        PROVE  Waiting(r)' /\ Rounds(r)' /\ Registering(r)' /\ Handling(r)'
    BY <1>0, <1>1, <2>1, <2>2, ReturnKeeps
  <2>3. CASE Return(r) /\ UNCHANGED <<sub, pending, state_, registered>>
    BY <1>2, <2>2, <2>3 DEF Return
  <2>4. CASE CloseConnection(r, c) /\ Over(c)
    <3>1. CASE ~IsConnected(c)
      BY <2>3, <2>4, <3>1 DEF CloseConnection
    <3>2. CASE IsConnected(c)
      <4>1. /\ state_[c] = "kConnected" /\ sub'[r] = "erase"
            /\ \A d \in Conns : state_'[d] = IF d = c THEN "kDisconnecting" ELSE state_[d]
            /\ UNCHANGED <<work, pending, registered, unread>>
        BY <1>2, <2>4, <3>2 DEF CloseConnection, IsConnected
      <4>2. Waiting(r)'
        BY <1>1, <1>3, <1>4, <4>1 DEF Waiting
      <4>3. Over(c)' /\ Current(r)' = c
        BY <1>1, <2>1, <2>4, <4>1 DEF Over, Current
      <4>4. Rounds(r)'
        BY <1>1, <1>3, <2>1, <4>1, <4>3 DEF Rounds, Over
      <4>5. Handling(r)' /\ Registering(r)'
        BY <1>1, <1>3, <2>1, <4>1 DEF Handling, Registering
      <4> QED
        BY <4>2, <4>4, <4>5
    <3> QED
      BY <3>1, <3>2
  <2> QED
    BY <1>12, <2>1, <2>3, <2>4 DEF SubRead, SubError, Over
<1>13. CASE SubErase(r)
  <2>1. sub[r] = "erase" /\ work[r] # << >>
    BY <1>3, <1>13 DEF SubErase, Rounds
  <2>2. Current(r) = Head(work[r]).conn
    BY <1>2, <2>1 DEF Current
  <2>3. state_[Current(r)] = "kDisconnecting"
    BY <1>3, <2>1 DEF Rounds
  <2>4. /\ work'[r] = Returned(work[r]) /\ pending' = pending /\ sub'[r] = "handle"
        /\ registered' = registered
        /\ \A d \in Conns : d # Current(r) => state_'[d] = state_[d]
    BY <1>2, <1>13, <2>2 DEF SubErase, Return
  <2> QED
    BY <1>0, <1>1, <2>1, <2>3, <2>4, ReturnKeeps
<1> QED
  BY <1>6, <1>7, <1>8, <1>9, <1>10, <1>11, <1>12, <1>13 DEF SubStep

\* What a reactor's step does to any connection: none is unregistered, bytes only
\* go, and one that is closed has its peer gone (tcp_connection.cpp:52-80, 120-146).
LEMMA SubConnections ==
    ASSUME IInv, NEW r \in Subs, SubStep(r), NEW c \in Conns
    PROVE  /\ registered[c] => registered'[c]
           /\ unread'[c] => unread[c]
           /\ registered'[c] => registered[c] \/ state_'[c] = "kConnected"
           /\ state_'[c] = "kDisconnected" => state_[c] = "kDisconnected" \/ Over(c)
           /\ main = "assign" /\ mconn = c => state_'[c] = state_[c]
           /\ state_'[c] = "kConnected" => state_[c] \in {"kConnecting", "kConnected"}
           /\ c \in connections_ => c \in connections_' \/ state_'[c] = "kDisconnected"
           /\ state_[c] = "kDisconnected" => state_'[c] = "kDisconnected"
<1> USE DEF subvars, connvars
<1>0. TypeOK /\ Queues
  BY DEF IInv
<1>1. /\ DOMAIN registered = Conns /\ DOMAIN unread = Conns /\ DOMAIN state_ = Conns
      /\ registered[c] \in BOOLEAN
  BY <1>0 DEF TypeOK
<1>2. CASE SubCheck(r) \/ SubPoll(r) \/ SubSwap(r) \/ SubTasksEnd(r) \/ SubNotify(r)
  BY <1>2 DEF SubCheck, SubPoll, SubSwap, SubTasksEnd, SubNotify
<1>3. ASSUME NEW d \in Conns, SubRegister(r, d)
      PROVE  /\ registered[c] => registered'[c]
             /\ unread'[c] => unread[c]
             /\ registered'[c] => registered[c] \/ state_'[c] = "kConnected"
             /\ state_'[c] = "kDisconnected" => state_[c] = "kDisconnected" \/ Over(c)
             /\ main = "assign" /\ mconn = c => state_'[c] = state_[c]
             /\ state_'[c] = "kConnected" => state_[c] \in {"kConnecting", "kConnected"}
             /\ connections_' = connections_
             /\ state_[c] = "kDisconnected" => state_'[c] = "kDisconnected"
  <2>1. 1 \in 1..Len(work[r]) /\ sub[r] = "tasks" /\ work[r][1].conn = d
    BY <1>0, <1>3, CallsFacts DEF SubRegister, Callback, Current
  <2>2. (main = "assign" => d # mconn) /\ state_[d] = "kConnecting"
    BY <1>0, <2>1 DEF Queues, Registering
  <2>3. ~registered[d]
    BY <1>0, <2>2 DEF Queues
  <2> QED
    BY <1>1, <1>3, <2>2, <2>3 DEF SubRegister
<1>4. ASSUME NEW d \in Conns, SubRead(r, d) \/ SubError(r, d)
      PROVE  /\ UNCHANGED registered
             /\ unread'[c] => unread[c]
             /\ state_'[c] = "kDisconnected" => state_[c] = "kDisconnected"
             /\ main = "assign" /\ mconn = c => state_'[c] = state_[c]
             /\ state_'[c] = "kConnected" => state_[c] \in {"kConnecting", "kConnected"}
             /\ connections_' = connections_
             /\ state_[c] = "kDisconnected" => state_'[c] = "kDisconnected"
  BY <1>0, <1>1, <1>4 DEF SubRead, SubError, CloseConnection, IsConnected, Queues
<1>5. CASE SubErase(r)
  <2>1. /\ sub[r] = "erase" /\ work[r] # << >> /\ work[r] \in Seq(Work)
        /\ Over(Current(r)) /\ state_[Current(r)] = "kDisconnecting"
        /\ main = "assign" => state_[mconn] = "kConnecting"
    BY <1>0, <1>5 DEF SubErase, Queues, Rounds, TypeOK
  <2>2. Current(r) = Head(work[r]).conn
    BY <2>1 DEF Current
  <2> QED
    BY <1>1, <1>5, <2>1, <2>2 DEF SubErase
<1> QED
  BY <1>2, <1>3, <1>4, <1>5 DEF SubStep

\* The queues and rounds of all reactors, and how far each connection is.
LEMMA QueuesStep == ASSUME IInv, Next PROVE Queues'
<1> USE ServerAssumption
<1> USE DEF appvars, ctlvars, itervars, mainvars, subvars, connvars, netvars, table
<1>0. TypeOK /\ Control /\ Accepting /\ Queues
  BY DEF IInv
<1> DEFINE Ordered(s) == Waiting(s)' /\ Rounds(s)' /\ Registering(s)' /\ Handling(s)'
           Kept(c) == /\ (registered[c] => state_[c] \notin {"none", "kConnecting"})'
                      /\ (state_[c] = "kDisconnected" => Over(c))'
<1>1. ASSUME \A s \in Subs : Ordered(s), \A c \in Conns : Kept(c),
             (main = "assign" => state_[mconn] = "kConnecting")'
      PROVE  Queues'
  BY <1>1 DEF Queues
<1>2. \A c \in Conns : /\ registered[c] => state_[c] \notin {"none", "kConnecting"}
                       /\ state_[c] = "kDisconnected" => Over(c)
  BY <1>0 DEF Queues
<1>9. /\ main = "assign" => state_[mconn] = "kConnecting"
      /\ mconn \in Conns \cup {NoConn} /\ (main = "assign" => mconn \in Conns)
  BY <1>0 DEF Queues, TypeOK, Accepting
<1>3. ASSUME NEW c \in Conns, Client(c) PROVE Queues'
  <2>1. UNCHANGED <<work, pending, sub, state_, target, registered, main, mconn>>
    BY <1>3 DEF Client, ClientRest
  <2>2. \A d \in Conns : /\ peer[d] \in {"fin", "reset"} => peer'[d] = peer[d]
                         /\ Over(d) => Over(d)'
    BY <1>0, <1>3 DEF Client, Connect, ClientSend, ClientLeave, TypeOK, Over
  <2>3. ASSUME NEW s \in Subs PROVE Ordered(s)
    BY <1>0, <2>1, <2>2, QueueFrame
  <2>4. ASSUME NEW d \in Conns PROVE Kept(d)
    BY <1>2, <2>1, <2>2
  <2> QED
    BY <1>1, <1>9, <2>1, <2>3, <2>4
<1>4. CASE Start
  <2>1. /\ UNCHANGED <<work, pending, state_, target, registered, mconn, peer, unread>>
        /\ main' = "check"
        /\ SubsJoined
    BY <1>0, <1>4 DEF Start, Control
  <2>2. ASSUME NEW s \in Subs PROVE Ordered(s)
    <3>1. sub[s] \in {"off", "stopped"} /\ sub'[s] \in {"off", "stopped", "check"}
      BY <1>4, <2>1 DEF Start, SubsJoined
    <3> QED
      BY <1>0, <2>1, <3>1, QueueFrame DEF Over
  <2>3. ASSUME NEW d \in Conns PROVE Kept(d)
    BY <1>2, <2>1 DEF Over
  <2> QED
    BY <1>1, <2>1, <2>2, <2>3
<1>5. CASE AppCall \/ AppStep
  <2>1. UNCHANGED <<work, pending, sub, target, registered, main, mconn, peer, unread>>
    BY <1>5 DEF AppCall, AppStep, AppRest
  <2>2. \A d \in Conns : state_'[d] = state_[d]
                            \/ (state_[d] = "kConnected" /\ state_'[d] = "kDisconnecting" /\ SubsJoined)
    <3>1. ASSUME NEW c \in Conns, StopClose(c)
          PROVE  \A d \in Conns : state_'[d] = state_[d]
                    \/ (state_[d] = "kConnected" /\ state_'[d] = "kDisconnecting" /\ SubsJoined)
      BY <1>0, <3>1 DEF StopClose, TypeOK, Control
    <3> QED
      BY <1>5, <3>1 DEF AppCall, AppStep, StopAccept, StopListen, JoinMain, JoinSubs,
                StopLock, LockConnections, StopEnd, CastCheck, CastWrite, CastEnd,
                StopBegin, Broadcast
  <2>3. ASSUME NEW s \in Subs PROVE Ordered(s)
    BY <1>0, <2>1, <2>2, QueueFrame DEF Over, SubsJoined
  <2>4. ASSUME NEW d \in Conns PROVE Kept(d)
    BY <1>2, <2>1, <2>2 DEF Over
  <2> QED
    BY <1>1, <1>9, <2>1, <2>2, <2>3, <2>4
<1>6. CASE MainStep \/ MainFails
  <2>1. UNCHANGED <<work, sub, target, registered, state_, peer, unread>>
    BY <1>6 DEF MainStep, MainFails, MainRest, MainCheck, MainPoll, MainEvent, MainAcceptEnd,
                MainAcceptError, MainAssign, MainInsert, UseAcceptChannel
  <2>2. ASSUME NEW d \in Conns PROVE Kept(d)
    BY <1>2, <2>1 DEF Over
  <2>3. CASE UNCHANGED pending /\ main' # "assign"
    <3>1. ASSUME NEW s \in Subs PROVE Ordered(s)
      BY <1>0, <2>1, <2>3, QueueFrame DEF Over
    <3> QED
      BY <1>1, <2>2, <2>3, <3>1
  <2>4. CASE MainAssign
    <3>1. /\ main = "assign" /\ main' = "insert" /\ mconn' = mconn
          /\ pending' = [pending EXCEPT ![target[mconn]] = Append(@, mconn)]
      BY <2>4 DEF MainAssign
    <3>2. /\ mconn \in Conns /\ state_[mconn] # "none"
      BY <1>0, <3>1 DEF TypeOK, Accepting
    <3>3. PICK t \in Subs : t = target[mconn]
      <4>1. target[mconn] \in 1..ThreadNum /\ MaxStarts >= 1
        BY <1>0, <3>2 DEF Accepting, TypeOK
      <4> QED
        BY <4>1, FirstSubs
    <3>4. ASSUME NEW s \in Subs, s # t PROVE Ordered(s)
      <4>1. pending'[s] = pending[s]
        BY <1>0, <3>1, <3>3, <3>4 DEF TypeOK
      <4> QED
        BY <1>0, <2>1, <3>1, <4>1, QueueFrame DEF Over
    <3>5. Ordered(t)
      <4>1. /\ pending'[t] = Append(pending[t], mconn) /\ pending[t] \in Seq(Conns)
            /\ work'[t] = work[t] /\ sub'[t] = sub[t]
            /\ target[mconn] = t /\ state_[mconn] = "kConnecting"
        BY <1>0, <1>9, <2>1, <3>1, <3>3 DEF TypeOK
      <4>2. Waiting(t) /\ Rounds(t) /\ Registering(t) /\ Handling(t)
        BY <1>0, <3>3 DEF Queues
      <4>3. \A i \in 1..Len(pending[t]) : pending[t][i] # mconn
        BY <3>1, <4>2 DEF Waiting
      <4>4. /\ IsInjective(pending'[t])
            /\ Len(pending'[t]) = Len(pending[t]) + 1
            /\ \A i \in 1..Len(pending'[t]) :
                  pending'[t][i] = IF i <= Len(pending[t]) THEN pending[t][i] ELSE mconn
            /\ Len(pending[t]) \in Nat
        BY <3>2, <4>1, <4>2, <4>3, AppendNew DEF Waiting
      <4>5. \A i \in 1..Len(pending'[t]) :
               \/ i \in 1..Len(pending[t]) /\ pending'[t][i] = pending[t][i]
               \/ pending'[t][i] = mconn
        BY <4>4
      <4>6. Waiting(t)'
        BY <2>1, <3>1, <4>1, <4>2, <4>4, <4>5 DEF Waiting
      <4>7. Rounds(t)'
        BY <2>1, <4>1, <4>2 DEF Rounds, Current, Over
      <4>8. Registering(t)'
        BY <2>1, <3>1, <4>1, <4>2, <4>5 DEF Registering
      <4>9. Handling(t)'
        BY <2>1, <4>1, <4>2 DEF Handling
      <4> QED
        BY <4>6, <4>7, <4>8, <4>9
    <3> QED
      BY <1>1, <2>2, <3>1, <3>4, <3>5
  <2> QED
    BY <1>6, <2>3, <2>4 DEF MainStep, MainFails, MainCheck, MainPoll, MainEvent, MainAcceptEnd,
                MainAcceptError, MainInsert, UseAcceptChannel
<1>7. CASE MainAccepts
  <2>1. /\ backlog # << >> /\ mconn' = backlog[1] /\ backlog[1] \in Conns
        /\ 1 \in 1..Len(backlog)
        /\ \A d \in Conns \ {backlog[1]} : state_'[d] = state_[d] /\ target'[d] = target[d]
        /\ state_'[backlog[1]] = "kConnecting"
        /\ UNCHANGED <<work, pending, sub, registered, peer, unread>>
    <3>1. backlog # << >> /\ backlog \in Seq(Conns)
      BY <1>0, <1>7 DEF MainAccepts, MainAccept, TypeOK
    <3>2. Head(backlog) = backlog[1] /\ backlog[1] \in Conns /\ 1 \in 1..Len(backlog)
      BY <3>1
    <3> QED
      BY <1>0, <1>7, <3>1, <3>2 DEF MainAccepts, MainAccept, MainRest, TypeOK
  <2>2. state_[backlog[1]] = "none" /\ state_[mconn'] = "none"
    BY <1>0, <2>1 DEF Accepting
  <2>3. ASSUME NEW s \in Subs PROVE Ordered(s)
    BY <1>0, <2>1, <2>2, QueueFrame DEF Over
  <2>4. ASSUME NEW d \in Conns PROVE Kept(d)
    BY <1>2, <2>1, <2>2 DEF Over
  <2> QED
    BY <1>1, <2>1, <2>3, <2>4
<1>8. ASSUME NEW r \in Subs, SubStep(r) PROVE Queues'
  <2>1. /\ UNCHANGED <<main, mconn, target, peer>>
        /\ \A s \in Subs \ {r} : sub'[s] = sub[s] /\ work'[s] = work[s] /\ pending'[s] = pending[s]
        /\ \A c \in Conns : state_'[c] # state_[c] =>
              target[c] = r /\ state_[c] # "none" /\ state_'[c] \notin {"none", "kConnecting"}
    BY <1>8, SubTouches
  <2>2. \A c \in Conns : /\ registered[c] => registered'[c]
                         /\ unread'[c] => unread[c]
                         /\ registered'[c] => registered[c] \/ state_'[c] = "kConnected"
                         /\ state_'[c] = "kDisconnected" => state_[c] = "kDisconnected" \/ Over(c)
                         /\ main = "assign" /\ mconn = c => state_'[c] = state_[c]
    BY <1>8, SubConnections
  <2>3. \A c \in Conns : Over(c) => Over(c)'
    BY <2>1, <2>2 DEF Over
  <2>4. ASSUME NEW s \in Subs \ {r} PROVE Ordered(s)
    BY <1>0, <2>1, <2>2, <2>3, QueueFrame
  <2>5. Ordered(r)
    BY <1>8, RoundStep
  <2>6. ASSUME NEW d \in Conns PROVE Kept(d)
    BY <1>2, <2>1, <2>2, <2>3
  <2> QED
    BY <1>1, <1>9, <2>1, <2>2, <2>4, <2>5, <2>6
<1> QED
  BY <1>3, <1>4, <1>5, <1>6, <1>7, <1>8 DEF Next

\* The connection table holds what is or will be established (tcp_server.cpp:104-168,
\* 204-243).
LEMMA ListedStep == ASSUME IInv, Next PROVE Listed'
<1> USE ServerAssumption
<1> USE DEF appvars, ctlvars, itervars, mainvars, subvars, connvars, netvars, table
<1>0. TypeOK /\ Control /\ Accepting /\ Queues /\ Listed
  BY DEF IInv
<1>1. ASSUME NEW c \in Conns, Client(c) PROVE Listed'
  BY <1>0, <1>1 DEF Client, ClientRest, Listed
<1>2. CASE Start
  <2>1. UNCHANGED <<state_, mconn, connections_, target>> /\ app' = "idle"
    BY <1>2 DEF Start
  <2>2. ASSUME NEW c \in Conns, state_[c] # "none" PROVE sub'[target[c]] = sub[target[c]]
    <3>1. target[c] \in 1..ThreadNum /\ starts >= 1 /\ starts \in Nat /\ MaxStarts >= 1
      BY <1>0, <2>2 DEF Accepting, TypeOK
    <3>2. target[c] \in Subs /\ target[c] <= starts * ThreadNum /\ starts * ThreadNum \in Nat
      BY <3>1, FirstSubs
    <3>3. target[c] \notin NewSubs
      BY <3>1, <3>2 DEF NewSubs
    <3> QED
      BY <1>2, <3>2, <3>3 DEF Start
  <2> QED
    BY <1>0, <2>1, <2>2 DEF Listed
<1>3. CASE AppCall
  BY <1>0, <1>3 DEF AppCall, AppRest, StopBegin, Broadcast, LockConnections, Listed
<1>4. CASE AppStep
  <2>1. UNCHANGED <<mconn, sub, target>>
    BY <1>4 DEF AppStep, AppRest
  <2>2. CASE StopAccept("remove", "reset", "removed") \/ StopAccept("reset", "listen", "freed")
                \/ StopListen \/ JoinMain \/ JoinSubs \/ StopLock \/ CastWrite \/ CastEnd
    BY <1>0, <2>1, <2>2 DEF StopAccept, StopListen, JoinMain, JoinSubs, StopLock,
                            LockConnections, CastWrite, CastEnd, Listed
  <2>3. ASSUME NEW c \in Conns, StopClose(c) \/ CastCheck(c) PROVE Listed'
    BY <1>0, <2>1, <2>3 DEF StopClose, CastCheck, Listed, TypeOK
  <2>4. CASE StopEnd
    <3>1. /\ app = "closing" /\ todo = {} /\ UNCHANGED state_ /\ app' = "idle"
          /\ main = "stopped" /\ SubsJoined
      BY <1>0, <2>4 DEF StopEnd, Control
    <3>2. mconn = NoConn
      BY <1>0, <3>1 DEF Accepting
    <3>3. ASSUME NEW c \in Conns, state_[c] \in {"kConnecting", "kConnected"}
          PROVE  state_[c] = "kConnecting" /\ sub[target[c]] = "stopped"
      <4>1. target[c] \in 1..ThreadNum /\ MaxStarts >= 1 /\ starts >= 1
        BY <1>0, <3>3 DEF Accepting, TypeOK
      <4>2. target[c] \in Subs /\ sub[target[c]] # "off"
        BY <1>0, <4>1, FirstSubs DEF Accepting
      <4>3. sub[target[c]] = "stopped"
        BY <3>1, <4>2 DEF SubsJoined
      <4>4. state_[c] = "kConnecting"
        BY <1>0, <3>1, <3>2, <3>3 DEF Listed
      <4> QED
        BY <4>3, <4>4
    <3> QED
      BY <2>1, <3>1, <3>3 DEF Listed
  <2> QED
    BY <1>4, <2>2, <2>3, <2>4 DEF AppStep
<1>5. CASE MainStep \/ MainFails \/ MainAccepts
  <2>1. UNCHANGED <<app, todo, sub>> /\ main # "stopped"
    BY <1>5 DEF MainStep, MainFails, MainAccepts, MainRest, MainCheck, MainPoll, MainEvent,
                MainAcceptEnd, MainAcceptError, MainAssign, MainInsert, MainAccept
  <2>2. app # "closing"
    BY <1>0, <2>1 DEF Control
  <2>3. CASE MainInsert
    BY <1>0, <2>1, <2>2, <2>3 DEF MainInsert, Recorded, Listed
  <2>4. CASE MainAccept
    <3>1. mconn = NoConn
      BY <1>0, <2>4 DEF MainAccept, Accepting
    <3>2. \A c \in Conns \ {mconn'} : state_'[c] = state_[c] /\ target'[c] = target[c]
      BY <1>0, <2>4 DEF MainAccept, TypeOK
    <3>3. UNCHANGED connections_
      BY <2>4 DEF MainAccept
    <3> QED
      BY <1>0, <2>1, <2>2, <3>1, <3>2, <3>3 DEF Listed
  <2>5. CASE UNCHANGED <<state_, mconn, connections_, target>>
    BY <1>0, <2>1, <2>2, <2>5 DEF Listed
  <2> QED
    BY <1>5, <2>3, <2>4, <2>5 DEF MainStep, MainFails, MainAccepts, MainCheck, MainPoll,
                MainEvent, MainAcceptEnd, MainAcceptError, MainAssign, UseAcceptChannel
<1>6. ASSUME NEW r \in Subs, SubStep(r) PROVE Listed'
  <2>1. /\ UNCHANGED <<mconn, target, app>>
        /\ \A s \in Subs \ {r} : sub'[s] = sub[s]
        /\ sub[r] \notin {"off", "stopped"}
        /\ \A c \in Conns : state_'[c] # state_[c] =>
              target[c] = r /\ state_'[c] \notin {"none", "kConnecting"}
    BY <1>6, SubTouches
  <2>2. \A c \in Conns :
           /\ state_'[c] = "kConnected" => state_[c] \in {"kConnecting", "kConnected"}
           /\ c \in connections_ => c \in connections_' \/ state_'[c] = "kDisconnected"
    BY <1>6, SubConnections
  <2>3. app # "closing"
    BY <1>0, <2>1 DEF Control, SubsJoined
  <2>4. ASSUME NEW c \in Conns, state_'[c] \in {"kConnecting", "kConnected"}, c # mconn,
               c \notin connections_'
        PROVE  state_'[c] = "kConnecting" /\ sub'[target[c]] = "stopped"
    <3>1. c \notin connections_ /\ state_[c] \in {"kConnecting", "kConnected"}
      BY <2>1, <2>2, <2>4
    <3>2. state_[c] = "kConnecting" /\ sub[target[c]] = "stopped"
      BY <1>0, <2>4, <3>1 DEF Listed
    <3>3. target[c] # r /\ target[c] \in Subs
      <4>1. target[c] \in 1..ThreadNum /\ MaxStarts >= 1
        BY <1>0, <3>2 DEF Accepting, TypeOK
      <4> QED
        BY <2>1, <3>2, <4>1, FirstSubs
    <3> QED
      BY <2>1, <3>2, <3>3
  <2> QED
    BY <2>1, <2>3, <2>4 DEF Listed
<1> QED
  BY <1>1, <1>2, <1>3, <1>4, <1>5, <1>6 DEF Next

-----------------------------------------------------------------------------
(* What the application is told *)

\* A connection being worked on by a reactor that is not announcing it has been
\* announced, or is not registered.
LEMMA NotUnannounced ==
    ASSUME TypeOK, Queues, NEW r \in Subs, sub[r] # "notify", NEW c, target[c] = r
    PROVE  ~Unannounced(c)
<1> SUFFICES ASSUME NEW s \in Subs, sub[s] = "notify", Current(s) = c PROVE FALSE
  BY DEF Unannounced
<1>1. work[s] \in Seq(Work) /\ work[s] # << >>
  BY DEF TypeOK, Queues, Rounds
<1>2. 1 \in 1..Len(work[s])
  BY <1>1
<1>3. target[c] = s
  BY <1>2 DEF Queues, Rounds, Current
<1> QED
  BY <1>3

\* A notice is added at the end, or is a message right after a message.
LEMMA HeardFacts ==
    ASSUME NEW s \in Seq(Notice), NEW n \in Notice
    PROVE  LET t == Heard(s, n)
           IN  /\ t \in Seq(Notice)
               /\ Len(s) \in Nat
               /\ t = s \/ Len(t) = Len(s) + 1
               /\ t = s => n = "message"
               /\ \A i \in 1..Len(s) : i \in 1..Len(t) /\ t[i] = s[i]
               /\ Len(t) \in 1..Len(t) /\ t[Len(t)] = n
               /\ \A i \in 1..Len(t) : i \in 1..Len(s) \/ (i = Len(t) /\ Len(t) = Len(s) + 1)
<1>1. Len(s) \in Nat
  OBVIOUS
<1>2. CASE n = "message" /\ s # << >> /\ Last(s) = n
  <2>1. Heard(s, n) = s
    BY <1>2 DEF Heard
  <2>2. Len(s) \in 1..Len(s) /\ s[Len(s)] = n
    BY <1>2 DEF Last
  <2> QED
    BY <1>1, <1>2, <2>1, <2>2
<1>3. CASE ~(n = "message" /\ s # << >> /\ Last(s) = n)
  <2> DEFINE t == Append(s, n)
  <2>1. Heard(s, n) = t
    BY <1>3 DEF Heard
  <2>2. /\ t \in Seq(Notice) /\ Len(t) = Len(s) + 1 /\ t[Len(s) + 1] = n
        /\ \A i \in 1..Len(s) : t[i] = s[i]
    OBVIOUS
  <2> HIDE DEF t
  <2>3. t # s
    BY <1>1, <2>2
  <2> QED
    BY <1>1, <2>1, <2>2, <2>3
<1> QED
  BY <1>2, <1>3

\* The same, for any sequence of notices and any notice.
LEMMA HeardTold ==
    \A s \in Seq(Notice), n \in Notice :
        /\ \A i \in 1..Len(s) : i \in 1..Len(Heard(s, n)) /\ Heard(s, n)[i] = s[i]
        /\ Len(Heard(s, n)) \in 1..Len(Heard(s, n)) /\ Heard(s, n)[Len(Heard(s, n))] = n
        /\ \A i \in 1..Len(Heard(s, n)) : i \in 1..Len(s) \/ i = Len(Heard(s, n))
<1> SUFFICES ASSUME NEW s \in Seq(Notice), NEW n \in Notice
             PROVE  /\ \A i \in 1..Len(s) : i \in 1..Len(Heard(s, n)) /\ Heard(s, n)[i] = s[i]
                    /\ Len(Heard(s, n)) \in 1..Len(Heard(s, n)) /\ Heard(s, n)[Len(Heard(s, n))] = n
                    /\ \A i \in 1..Len(Heard(s, n)) : i \in 1..Len(s) \/ i = Len(Heard(s, n))
  OBVIOUS
<1> QED
  BY HeardFacts

\* What may be said next, given what was said (s), and whether the peer has been
\* reset.
MaySay(s, n, reset) ==
    LET said(m) == \E i \in 1..Len(s) : s[i] = m
    IN  /\ n = "up" => \A i \in 1..Len(s) : s[i] = "broadcast"
        /\ n \in {"message", "down"} => said("up")
        /\ said("down") => n = "message" /\ reset

\* NoticesInOrder and NoBroadcastAfterDown, of one connection.
InOrder(s, reset) ==
    /\ \A i \in 1..Len(s) :
          /\ s[i] = "up" => \A j \in 1..(i - 1) : s[j] = "broadcast"
          /\ s[i] \in {"message", "down"} => \E j \in 1..(i - 1) : s[j] = "up"
          /\ s[i] = "down" =>
                \A j \in (i + 1)..Len(s) :
                    s[j] \in {"up", "message", "down"} => s[j] = "message" /\ reset
    /\ \A i, j \in 1..Len(s) : i < j /\ s[i] = "down" => s[j] # "broadcast"

\* Notices stay in order as long as only what may be said is said.
LEMMA SayInOrder ==
    ASSUME NEW s \in Seq(Notice), NEW n \in Notice, NEW reset \in BOOLEAN,
           InOrder(s, reset), MaySay(s, n, reset)
    PROVE  InOrder(Heard(s, n), reset)
<1> DEFINE t == Heard(s, n)
<1>1. /\ t \in Seq(Notice)
      /\ Len(s) \in Nat
      /\ t = s \/ Len(t) = Len(s) + 1
      /\ \A i \in 1..Len(s) : i \in 1..Len(t) /\ t[i] = s[i]
      /\ t[Len(t)] = n
      /\ \A i \in 1..Len(t) : i \in 1..Len(s) \/ (i = Len(t) /\ Len(t) = Len(s) + 1)
  BY HeardFacts
<1> HIDE DEF t
<1>2. CASE t = s
  BY <1>2 DEF t
<1>3. CASE Len(t) = Len(s) + 1
  <2>1. ASSUME NEW i \in 1..Len(t)
        PROVE  /\ t[i] = "up" => \A j \in 1..(i - 1) : t[j] = "broadcast"
               /\ t[i] \in {"message", "down"} => \E j \in 1..(i - 1) : t[j] = "up"
               /\ t[i] = "down" =>
                     \A j \in (i + 1)..Len(t) :
                         t[j] \in {"up", "message", "down"} => t[j] = "message" /\ reset
    <3>1. CASE i \in 1..Len(s)
      <4>1. \A j \in 1..(i - 1) : j \in 1..Len(s) /\ t[j] = s[j]
        BY <1>1, <3>1
      <4>2. t[i] = s[i]
        BY <1>1, <3>1
      <4>3. t[i] = "up" => \A j \in 1..(i - 1) : t[j] = "broadcast"
        BY <3>1, <4>1, <4>2 DEF InOrder
      <4>4. t[i] \in {"message", "down"} => \E j \in 1..(i - 1) : t[j] = "up"
        BY <3>1, <4>1, <4>2 DEF InOrder
      <4>5. ASSUME t[i] = "down", NEW j \in (i + 1)..Len(t),
                   t[j] \in {"up", "message", "down"}
            PROVE  t[j] = "message" /\ reset
        <5>1. CASE j \in 1..Len(s)
          <6>1. t[j] = s[j] /\ j \in (i + 1)..Len(s)
            BY <1>1, <4>5, <5>1
          <6> QED
            BY <3>1, <4>2, <4>5, <6>1 DEF InOrder
        <5>2. CASE j = Len(t)
          BY <1>1, <3>1, <4>2, <4>5, <5>2 DEF MaySay
        <5> QED
          BY <1>1, <1>3, <4>5, <5>1, <5>2
      <4> QED
        BY <4>3, <4>4, <4>5
    <3>2. CASE i = Len(t)
      <4>1. /\ t[i] = n /\ i - 1 = Len(s)
            /\ \A j \in 1..Len(s) : t[j] = s[j]
            /\ ~\E j \in (i + 1)..Len(t) : TRUE
        BY <1>1, <1>3, <3>2
      <4> QED
        BY <4>1 DEF MaySay
    <3> QED
      BY <1>1, <3>1, <3>2
  <2>2. ASSUME NEW i \in 1..Len(t), NEW j \in 1..Len(t), i < j, t[i] = "down"
        PROVE  t[j] # "broadcast"
    <3>1. i \in 1..Len(s) /\ t[i] = s[i]
      BY <1>1, <1>3, <2>2
    <3>2. CASE j \in 1..Len(s)
      BY <1>1, <2>2, <3>1, <3>2 DEF InOrder
    <3>3. CASE j = Len(t)
      BY <1>1, <2>2, <3>1, <3>3 DEF MaySay
    <3> QED
      BY <1>1, <3>2, <3>3
  <2>3. InOrder(t, reset)
    BY <2>1, <2>2 DEF InOrder
  <2> QED
    BY <2>3 DEF t
<1> QED
  BY <1>1, <1>2, <1>3

\* The connection a reactor's round is at.
LEMMA CurrentFacts ==
    ASSUME TypeOK, Queues, NEW r \in Subs, sub[r] \in {"notify", "erase"}
    PROVE  /\ work[r] \in Seq(Work) /\ work[r] # << >> /\ 1 \in 1..Len(work[r])
           /\ Current(r) = Head(work[r]).conn
           /\ Current(r) \in Conns
           /\ target[Current(r)] = r
           /\ sub[r] = "notify" => state_[Current(r)] = "kConnected"
           /\ sub[r] = "erase" => /\ state_[Current(r)] = "kDisconnecting"
                                  /\ registered[Current(r)]
<1>1. work[r] \in Seq(Work) /\ work[r] # << >>
  BY DEF TypeOK, Queues, Rounds
<1>2. 1 \in 1..Len(work[r]) /\ Head(work[r]) = work[r][1] /\ work[r][1] \in Work
  BY <1>1
<1>3. Current(r) = Head(work[r]).conn /\ Current(r) \in Conns
  BY <1>2 DEF Current, Work
<1>4. target[Current(r)] = r
  BY <1>2 DEF Current, Queues, Rounds
<1>5. sub[r] = "notify" => state_[Current(r)] = "kConnected"
  BY <1>2 DEF Current, Queues, Registering
<1>6. sub[r] = "erase" => state_[Current(r)] = "kDisconnecting" /\ registered[Current(r)]
  BY <1>2 DEF Current, Queues, Rounds, Handling
<1> QED
  BY <1>1, <1>2, <1>3, <1>4, <1>5, <1>6

\* The application is told of one connection at a time, and only what may be said
\* of it (tcp_server.cpp:213-237, 245-261; tcp_connection.cpp:52-80, 120-146).
LEMMA SaidStep ==
    ASSUME IInv, Next
    PROVE  \/ seen' = seen
           \/ \E c \in Conns, n \in Notice :
                 Tell(c, n) /\ MaySay(seen[c], n, peer[c] = "reset")
<1> USE DEF appvars, ctlvars, itervars, mainvars, subvars, connvars, netvars, table
<1>0. TypeOK /\ Control /\ Queues /\ Seen
  BY DEF IInv
<1> DEFINE Said == \/ seen' = seen
                   \/ \E c \in Conns, n \in Notice :
                         Tell(c, n) /\ MaySay(seen[c], n, peer[c] = "reset")
<1>1. CASE (\E c \in Conns : Client(c)) \/ Start \/ AppCall
              \/ MainStep \/ MainAccepts \/ MainFails
  <2>1. seen' = seen
    BY <1>1 DEF Client, ClientRest, Start, AppCall, StopBegin, Broadcast, LockConnections,
                MainStep, MainAccepts, MainFails, MainRest
  <2> QED
    BY <2>1
<1>2. CASE AppStep
  <2>1. CASE CastWrite
    <3>1. acur \in Conns /\ Tell(acur, "broadcast") /\ ~Told(acur, "down")
      BY <1>0, <2>1 DEF CastWrite, Seen, Writing
    <3>2. MaySay(seen[acur], "broadcast", peer[acur] = "reset")
      BY <3>1 DEF MaySay, Told
    <3> QED
      BY <3>1, <3>2 DEF Notice
  <2>2. CASE seen' = seen
    BY <2>2
  <2> QED
    BY <1>2, <2>1, <2>2 DEF AppStep, StopAccept, StopListen, JoinMain, JoinSubs,
                StopLock, LockConnections, StopClose, StopEnd, CastCheck, CastEnd
<1>3. ASSUME NEW r \in Subs, SubStep(r) PROVE Said
  <2>1. CASE SubNotify(r)
    <3>1. sub[r] = "notify" /\ Current(r) \in Conns /\ Tell(Current(r), "up")
      BY <1>0, <2>1, CurrentFacts DEF SubNotify
    <3>2. \A i \in 1..Len(seen[Current(r)]) : seen[Current(r)][i] = "broadcast"
      BY <1>0, <3>1 DEF Seen, Hears, Unannounced
    <3>3. MaySay(seen[Current(r)], "up", peer[Current(r)] = "reset")
      BY <3>2 DEF MaySay
    <3> QED
      BY <3>1, <3>3 DEF Notice
  <2>2. ASSUME NEW c \in Conns, SubRead(r, c), unread[c], Tell(c, "message") PROVE Said
    <3>1. sub[r] = "handle" /\ registered[c] /\ target[c] = r
      BY <1>0, <2>2, CallsFacts DEF SubRead, Callback
    <3>2. Told(c, "up")
      BY <1>0, <3>1, NotUnannounced DEF Seen, Hears
    <3>3. Told(c, "down") => peer[c] = "reset"
      BY <1>0, <2>2 DEF Seen, Hears, Queues, Over
    <3>4. MaySay(seen[c], "message", peer[c] = "reset")
      BY <3>2, <3>3 DEF MaySay, Told
    <3> QED
      BY <2>2, <3>4 DEF Notice
  <2>3. CASE SubErase(r)
    <3>1. /\ sub[r] = "erase" /\ Current(r) \in Conns /\ Tell(Current(r), "down")
          /\ state_[Current(r)] = "kDisconnecting" /\ registered[Current(r)]
          /\ target[Current(r)] = r
      BY <1>0, <2>3, CurrentFacts DEF SubErase
    <3>2. Told(Current(r), "up") /\ ~Told(Current(r), "down")
      BY <1>0, <3>1, NotUnannounced DEF Seen, Hears
    <3>3. MaySay(seen[Current(r)], "down", peer[Current(r)] = "reset")
      BY <3>2 DEF MaySay, Told
    <3> QED
      BY <3>1, <3>3 DEF Notice
  <2>4. CASE seen' = seen
    BY <2>4
  <2> QED
    BY <1>3, <2>1, <2>2, <2>3, <2>4 DEF SubStep, SubCheck, SubPoll, SubSwap, SubTasksEnd,
                SubRegister, SubRead, SubError, CloseConnection
<1> QED
  BY <1>1, <1>2, <1>3 DEF Next

\* A peer that was reset stays so.
LEMMA ResetStays ==
    ASSUME TypeOK, Next, NEW c \in Conns, peer[c] = "reset"
    PROVE  peer'[c] = "reset"
<1> USE DEF netvars
<1>1. CASE \E d \in Conns : Client(d)
  BY <1>1 DEF Client, Connect, ClientSend, ClientLeave, TypeOK
<1>2. CASE ~\E d \in Conns : Client(d)
  <2>1. peer' = peer
    BY <1>2 DEF Next, Start, AppCall, AppStep, AppRest, MainStep, MainAccepts, MainFails,
                MainRest, SubStep, SubRest
  <2> QED
    BY <2>1
<1> QED
  BY <1>1, <1>2

\* The notices of every connection stay in order.
LEMMA NoticesStep == ASSUME IInv, Next PROVE NoticesInOrder' /\ NoBroadcastAfterDown'
<1>0. TypeOK /\ NoticesInOrder /\ NoBroadcastAfterDown
  BY DEF IInv
<1>1. SUFFICES ASSUME NEW c \in Conns PROVE InOrder(seen'[c], peer'[c] = "reset")
  BY DEF InOrder, NoticesInOrder, NoBroadcastAfterDown
<1>2. InOrder(seen[c], peer[c] = "reset")
  BY <1>0 DEF InOrder, NoticesInOrder, NoBroadcastAfterDown
<1>3. seen[c] \in Seq(Notice) /\ seen \in [Conns -> Seq(Notice)]
  BY <1>0 DEF TypeOK
<1>4. InOrder(seen'[c], peer[c] = "reset")
  <2>1. CASE seen'[c] = seen[c]
    BY <1>2, <2>1
  <2>2. ASSUME NEW n \in Notice, seen'[c] = Heard(seen[c], n),
               MaySay(seen[c], n, peer[c] = "reset")
        PROVE  InOrder(seen'[c], peer[c] = "reset")
    <3>1. (peer[c] = "reset") \in BOOLEAN
      OBVIOUS
    <3> QED
      BY <1>2, <1>3, <2>2, <3>1, SayInOrder
  <2> QED
    BY <1>3, <2>1, <2>2, SaidStep DEF Tell
<1>5. peer[c] = "reset" => peer'[c] = "reset"
  BY <1>0, ResetStays
<1> QED
  BY <1>4, <1>5 DEF InOrder

\* Who is being announced does not change unless a reactor begins or ends the
\* connection callback.
LEMMA UnannouncedFrame ==
    ASSUME \A s \in Subs : /\ sub'[s] = "notify" <=> sub[s] = "notify"
                           /\ sub[s] = "notify" => work'[s] = work[s],
           NEW c
    PROVE  Unannounced(c)' <=> Unannounced(c)
BY DEF Unannounced, Current

\* A connection of which nothing is said, and which is not announced now, is heard
\* of as before.
LEMMA HearsFrame ==
    ASSUME NEW c, Hears(c), seen'[c] = seen[c],
           state_'[c] \in {"none", "kConnecting"} => state_[c] \in {"none", "kConnecting"},
           state_[c] = "kDisconnected" => state_'[c] = "kDisconnected",
           registered'[c] => registered[c],
           Unannounced(c)' <=> Unannounced(c)
    PROVE  Hears(c)'
BY DEF Hears, Told

\* A notice keeps what was heard in step with the state of the connection.
LEMMA HearsTell ==
    ASSUME TypeOK, NEW c \in Conns, NEW n \in Notice, Hears(c), Tell(c, n),
           state_'[c] \notin {"none", "kConnecting"},
           state_[c] = "kDisconnected" => state_'[c] = "kDisconnected",
           n = "down" => state_'[c] = "kDisconnected",
           registered'[c] => registered[c],
           Unannounced(c)' => Unannounced(c) /\ n = "broadcast",
           Unannounced(c) => Unannounced(c)' \/ n = "up"
    PROVE  Hears(c)'
<1> DEFINE t == Heard(seen[c], n)
<1>1. seen[c] \in Seq(Notice) /\ seen'[c] = t
  BY DEF TypeOK, Tell
<1>2. /\ \A i \in 1..Len(seen[c]) : i \in 1..Len(t) /\ t[i] = seen[c][i]
      /\ Len(t) \in 1..Len(t) /\ t[Len(t)] = n
      /\ \A i \in 1..Len(t) : i \in 1..Len(seen[c]) \/ i = Len(t)
  BY <1>1, HeardTold
<1> HIDE DEF t
<1>3. /\ \A m : Told(c, m) => Told(c, m)'
      /\ Told(c, n)'
      /\ \A m : Told(c, m)' => Told(c, m) \/ m = n
  BY <1>1, <1>2 DEF Told
<1>4. Unannounced(c)' => \A i \in 1..Len(t) : t[i] = "broadcast"
  BY <1>2 DEF Hears
<1> QED
  BY <1>1, <1>3, <1>4 DEF Hears

\* What the application has heard stays in step with the states of the connections
\* (tcp_server.cpp:213-237, 245-261; tcp_connection.cpp:52-80, 120-146).
LEMMA SeenStep == ASSUME IInv, Next PROVE Seen'
<1> USE ServerAssumption
<1> USE DEF appvars, ctlvars, itervars, mainvars, subvars, connvars, netvars, table
<1>0. TypeOK /\ Control /\ Accepting /\ Queues /\ Seen
  BY DEF IInv
<1>1. \A c \in Conns : Hears(c)
  BY <1>0 DEF Seen
<1>2. Writing
  BY <1>0 DEF Seen
<1>3. CASE (\E c \in Conns : Client(c)) \/ Start
  <2>1. /\ UNCHANGED <<seen, state_, registered, work, acur, app>>
        /\ \A s \in Subs : sub'[s] = sub[s] \/ (sub[s] # "notify" /\ sub'[s] # "notify")
    <3>1. CASE \E c \in Conns : Client(c)
      BY <3>1 DEF Client, ClientRest
    <3>2. CASE Start
      <4>1. SubsJoined
        BY <1>0, <3>2 DEF Control, Start
      <4> QED
        BY <3>2, <4>1 DEF Start, SubsJoined
    <3> QED
      BY <1>3, <3>1, <3>2
  <2>2. \A c \in Conns : Unannounced(c)' <=> Unannounced(c)
    BY <2>1, UnannouncedFrame
  <2>3. \A c \in Conns : Hears(c)'
    BY <1>1, <2>1, <2>2, HearsFrame
  <2>4. Writing'
    BY <1>2, <2>1 DEF Writing, Told
  <2> QED
    BY <2>3, <2>4 DEF Seen
<1>4. CASE AppCall \/ AppStep
  <2>1. UNCHANGED <<sub, work, registered>>
    BY <1>4 DEF AppCall, AppStep, AppRest
  <2>2. \A c \in Conns : Unannounced(c)' <=> Unannounced(c)
    BY <2>1, UnannouncedFrame
  <2>3. CASE CastWrite
    <3>1. /\ app' = "casting" /\ state_' = state_ /\ acur \in Conns
          /\ Tell(acur, "broadcast")
          /\ state_[acur] \notin {"none", "kConnecting"}
      BY <1>2, <2>3 DEF CastWrite, Writing
    <3>2. \A c \in Conns \ {acur} : seen'[c] = seen[c]
      BY <1>0, <3>1 DEF Tell, TypeOK
    <3>3. \A c \in Conns \ {acur} : Hears(c)'
      BY <1>1, <2>1, <2>2, <3>1, <3>2, HearsFrame
    <3>4. PICK c \in Conns : c = acur
      BY <3>1
    <3>5. Hears(c)'
      BY <1>0, <1>1, <2>1, <2>2, <3>1, <3>4, HearsTell DEF Notice
    <3>6. Writing'
      BY <3>1 DEF Writing
    <3> QED
      BY <3>3, <3>4, <3>5, <3>6 DEF Seen
  <2>4. CASE ~CastWrite
    <3>1. UNCHANGED seen
      BY <1>4, <2>4 DEF AppCall, AppStep, StopAccept, StopListen, JoinMain, JoinSubs,
                StopLock, LockConnections, StopClose, StopEnd, CastCheck, CastEnd,
                StopBegin, Broadcast
    <3>2. \A d \in Conns : state_'[d] = state_[d]
                              \/ (state_[d] = "kConnected" /\ state_'[d] = "kDisconnecting")
      <4>1. ASSUME NEW c \in Conns, StopClose(c)
            PROVE  \A d \in Conns : state_'[d] = state_[d]
                      \/ (state_[d] = "kConnected" /\ state_'[d] = "kDisconnecting")
        BY <1>0, <4>1 DEF StopClose, TypeOK
      <4> QED
        BY <1>4, <2>4, <4>1 DEF AppCall, AppStep, StopAccept, StopListen, JoinMain, JoinSubs,
                StopLock, LockConnections, StopEnd, CastCheck, CastEnd, StopBegin, Broadcast
    <3>3. \A c \in Conns : Hears(c)'
      BY <1>1, <2>1, <2>2, <3>1, <3>2, HearsFrame
    <3>4. CASE app' # "writing"
      BY <3>3, <3>4 DEF Seen, Writing
    <3>5. CASE app' = "writing"
      <4>1. PICK c \in Conns : CastCheck(c)
        BY <1>4, <2>4, <3>5 DEF AppCall, AppStep, StopAccept, StopListen, JoinMain, JoinSubs,
                StopLock, LockConnections, StopClose, StopEnd, CastEnd, StopBegin, Broadcast
      <4>2. acur' = c /\ state_[c] = "kConnected" /\ state_' = state_
        BY <3>5, <4>1 DEF CastCheck
      <4>3. ~Told(c, "down")
        BY <1>1, <4>2 DEF Hears
      <4>4. Writing'
        BY <3>1, <4>2, <4>3 DEF Writing, Told
      <4> QED
        BY <3>3, <4>4 DEF Seen
    <3> QED
      BY <3>4, <3>5
  <2> QED
    BY <2>3, <2>4
<1>5. CASE MainStep \/ MainFails \/ MainAccepts
  <2>1. UNCHANGED <<sub, work, registered, seen, app, acur>>
    BY <1>5 DEF MainStep, MainFails, MainAccepts, MainRest
  <2>2. \A d \in Conns : state_'[d] = state_[d]
                            \/ (state_[d] = "none" /\ state_'[d] = "kConnecting")
    <3>1. CASE MainAccept
      <4>1. backlog \in Seq(Conns) /\ backlog # << >>
        BY <1>0, <3>1 DEF TypeOK, MainAccept
      <4>2. mconn' = backlog[1] /\ 1 \in 1..Len(backlog)
        BY <3>1, <4>1 DEF MainAccept
      <4>3. state_[mconn'] = "none"
        BY <1>0, <4>2 DEF Accepting
      <4> QED
        BY <1>0, <3>1, <4>3 DEF MainAccept, TypeOK
    <3> QED
      BY <1>5, <3>1 DEF MainStep, MainFails, MainAccepts, MainCheck, MainPoll, MainEvent,
                MainAcceptEnd, MainAcceptError, MainAssign, MainInsert, UseAcceptChannel
  <2>3. \A c \in Conns : Unannounced(c)' <=> Unannounced(c)
    BY <2>1, UnannouncedFrame
  <2>4. \A c \in Conns : Hears(c)'
    BY <1>1, <2>1, <2>2, <2>3, HearsFrame
  <2>5. Writing'
    BY <1>2, <2>1, <2>2 DEF Writing, Told
  <2> QED
    BY <2>4, <2>5 DEF Seen
<1>6. ASSUME NEW r \in Subs, SubStep(r) PROVE Seen'
  <2>1. /\ UNCHANGED <<app, acur, target, connections_mutex_>>
        /\ \A s \in Subs \ {r} : sub'[s] = sub[s] /\ work'[s] = work[s]
        /\ \A c \in Conns : state_'[c] # state_[c] => state_'[c] \notin {"none", "kConnecting"}
    BY <1>6, SubTouches
  <2>2. \A c \in Conns : state_[c] = "kDisconnected" => state_'[c] = "kDisconnected"
    BY <1>6, SubConnections
  <2>3. ASSUME sub[r] # "notify", sub'[r] # "notify"
        PROVE  \A c \in Conns : Unannounced(c)' <=> Unannounced(c)
    BY <2>1, <2>3, UnannouncedFrame
  <2>4. ASSUME seen' = seen PROVE Writing'
    BY <1>2, <2>1, <2>4 DEF Writing, Told
  <2>5. ASSUME NEW c \in Conns, NEW n \in Notice, Tell(c, n), n = "down" => app # "writing"
        PROVE  Writing'
    <3>1. /\ \A d \in Conns \ {c} : seen'[d] = seen[d]
          /\ seen'[c] = Heard(seen[c], n) /\ seen[c] \in Seq(Notice)
      BY <1>0, <2>5 DEF Tell, TypeOK
    <3>2. n # "down" /\ Told(c, "down")' => Told(c, "down")
      BY <3>1, HeardTold DEF Told
    <3>3. \A d \in Conns \ {c} : Told(d, "down")' => Told(d, "down")
      BY <3>1 DEF Told
    <3>4. app' = "writing" => acur' \in Conns /\ ~Told(acur, "down")'
      <4>1. CASE app = "writing" /\ acur = c
        <5>1. ~Told(c, "down")'
          BY <1>2, <2>5, <3>2, <4>1 DEF Writing
        <5> QED
          BY <2>1, <4>1, <5>1 DEF Told
      <4>2. CASE app = "writing" /\ acur # c
        BY <1>2, <2>1, <3>1, <4>2 DEF Writing, Told
      <4> QED
        BY <2>1, <4>1, <4>2
    <3> QED
      BY <1>2, <2>1, <3>4 DEF Writing, Told
  <2>6. CASE SubCheck(r) \/ SubPoll(r) \/ SubSwap(r) \/ SubTasksEnd(r)
    <3>1. sub[r] # "notify" /\ sub'[r] # "notify" /\ UNCHANGED <<state_, registered, seen>>
      BY <1>0, <2>6 DEF SubCheck, SubPoll, SubSwap, SubTasksEnd, TypeOK
    <3> QED
      BY <1>1, <2>3, <2>4, <3>1, HearsFrame DEF Seen
  <2>7. ASSUME NEW c \in Conns, SubRegister(r, c) PROVE Seen'
    <3>1. /\ 1 \in 1..Len(work[r]) /\ sub[r] = "tasks" /\ Current(r) = c /\ target[c] = r
      BY <1>0, <2>7, CallsFacts DEF SubRegister, Callback
    <3>2. state_[c] = "kConnecting"
      BY <1>0, <3>1 DEF Queues, Registering, Current
    <3>3. /\ sub'[r] = "notify" /\ work' = work /\ seen' = seen
          /\ \A d \in Conns \ {c} : registered'[d] = registered[d] /\ state_'[d] = state_[d]
          /\ state_'[c] = "kConnected"
      BY <1>0, <2>7 DEF SubRegister, TypeOK
    <3>4. Current(r)' = c
      BY <3>1, <3>3 DEF Current
    <3>5. \A d \in Conns \ {c} : Unannounced(d)' <=> Unannounced(d)
      BY <2>1, <3>1, <3>3, <3>4 DEF Unannounced, Current
    <3>6. \A d \in Conns \ {c} : Hears(d)'
      BY <1>1, <3>3, <3>5, HearsFrame
    <3>7. Hears(c)'
      <4>1. seen'[c] = << >> /\ Len(<< >>) = 0
        BY <1>1, <3>2, <3>3 DEF Hears
      <4>2. Unannounced(c)'
        BY <3>3, <3>4 DEF Unannounced
      <4> QED
        BY <3>3, <4>1, <4>2 DEF Hears, Told
    <3> QED
      BY <2>4, <3>3, <3>6, <3>7 DEF Seen
  <2>8. ASSUME NEW c \in Conns, NEW n \in Notice, Tell(c, n), target[c] = r,
               registered' = registered, n = "down" => app # "writing" /\ state_'[c] = "kDisconnected",
               state_'[c] \notin {"none", "kConnecting"},
               sub'[r] # "notify",
               \/ sub[r] # "notify" /\ n # "up"
               \/ sub[r] = "notify" /\ n = "up" /\ Current(r) = c
        PROVE  Seen'
    <3>1. \A d \in Conns \ {c} : seen'[d] = seen[d]
      BY <1>0, <2>8 DEF Tell, TypeOK
    <3>2. \A d \in Conns \ {c} : Unannounced(d)' <=> Unannounced(d)
      BY <2>1, <2>8 DEF Unannounced, Current
    <3>3. \A d \in Conns \ {c} : Hears(d)'
      BY <1>1, <2>1, <2>2, <2>8, <3>1, <3>2, HearsFrame
    <3>4. ~Unannounced(c)'
      <4>1. \A s \in Subs \ {r} : sub[s] = "notify" => Current(s) # c
        BY <1>0, <2>8, CurrentFacts
      <4>2. \A s \in Subs : sub'[s] = "notify" => s # r /\ sub[s] = "notify" /\ Current(s)' = Current(s)
        BY <2>1, <2>8 DEF Current
      <4> QED
        BY <4>1, <4>2 DEF Unannounced
    <3>5. Unannounced(c) => n = "up"
      BY <1>0, <2>8, NotUnannounced
    <3>6. Hears(c)'
      BY <1>0, <1>1, <2>2, <2>8, <3>4, <3>5, HearsTell
    <3> QED
      BY <2>5, <2>8, <3>3, <3>6 DEF Seen
  <2>9. CASE SubNotify(r)
    <3>1. /\ sub[r] = "notify" /\ Current(r) \in Conns /\ Tell(Current(r), "up")
          /\ target[Current(r)] = r /\ state_[Current(r)] = "kConnected"
          /\ UNCHANGED <<registered, state_>> /\ sub'[r] = "tasks"
      BY <1>0, <2>9, CurrentFacts DEF SubNotify, TypeOK
    <3>2. PICK c \in Conns : c = Current(r)
      BY <3>1
    <3> QED
      BY <2>8, <3>1, <3>2 DEF Notice
  <2>10. ASSUME NEW c \in Conns, SubRead(r, c) \/ SubError(r, c) PROVE Seen'
    <3>1. sub[r] = "handle" /\ registered[c] /\ target[c] = r
      BY <1>0, <2>10, CallsFacts DEF SubRead, SubError, Callback
    <3>2. state_[c] \notin {"none", "kConnecting"}
      BY <1>0, <3>1 DEF Queues
    <3>3. CASE Tell(c, "message") /\ UNCHANGED <<sub, state_, registered>>
      BY <2>8, <3>1, <3>2, <3>3 DEF Notice
    <3>4. CASE CloseConnection(r, c)
      <4>1. sub'[r] # "notify" /\ UNCHANGED <<registered, seen>>
        BY <1>0, <3>1, <3>4 DEF CloseConnection, TypeOK
      <4> QED
        BY <1>1, <2>1, <2>2, <2>3, <2>4, <3>1, <4>1, HearsFrame DEF Seen
    <3> QED
      BY <2>10, <3>3, <3>4 DEF SubRead, SubError
  <2>11. CASE SubErase(r)
    <3>1. /\ sub[r] = "erase" /\ Current(r) \in Conns /\ Current(r) = Head(work[r]).conn
          /\ target[Current(r)] = r
      BY <1>0, <2>11, CurrentFacts DEF SubErase
    <3>2. /\ Tell(Current(r), "down") /\ registered' = registered /\ sub'[r] = "handle"
          /\ state_'[Current(r)] = "kDisconnected"
      BY <1>0, <2>11, <3>1 DEF SubErase, TypeOK
    <3>3. app # "writing"
      BY <1>0, <2>11 DEF SubErase, MutexFree, Control
    <3>4. PICK c \in Conns : c = Current(r)
      BY <3>1
    <3> QED
      BY <2>8, <3>1, <3>2, <3>3, <3>4 DEF Notice
  <2> QED
    BY <1>6, <2>6, <2>7, <2>9, <2>10, <2>11 DEF SubStep
<1> QED
  BY <1>3, <1>4, <1>5, <1>6 DEF Next

-----------------------------------------------------------------------------
(* The theorems *)

\* The invariant is kept by every step and by every stuttering step.
LEMMA NextInvariant == IInv /\ [Next]_vars => IInv'
<1> SUFFICES ASSUME IInv, [Next]_vars PROVE IInv'
  OBVIOUS
<1>1. CASE Next
  BY <1>1, TypeStep, ControlStep, AcceptingStep, QueuesStep, ListedStep, SeenStep, NoticesStep
     DEF IInv
<1>2. CASE UNCHANGED vars
  <2>1. UNCHANGED <<running_, starts, casts, listening, accept_channel_, todo, acur, app,
                    main, mconn, next_reactor_, target, sub, work, state_, registered, seen,
                    peer, unread, backlog, connections_, connections_mutex_, mquit, squit,
                    pending, fault>>
    BY <1>2 DEF vars, appvars, ctlvars, itervars, mainvars, subvars, connvars, netvars, table
  <2>2. TypeOK' /\ Control' /\ Accepting'
    BY <2>1 DEF IInv, TypeOK, Control, SubsJoined, Accepting
  <2>3. Queues' /\ Listed'
    BY <2>1 DEF IInv, Queues, Waiting, Rounds, Registering, Handling, Current, Over, Listed
  <2>4. Seen' /\ NoticesInOrder' /\ NoBroadcastAfterDown'
    BY <2>1 DEF IInv, Seen, Hears, Writing, Unannounced, Current, Told, NoticesInOrder,
                NoBroadcastAfterDown
  <2> QED
    BY <2>2, <2>3, <2>4 DEF IInv
<1> QED
  BY <1>1, <1>2

\* The parts of the invariant hold in every reachable state of the server, whatever
\* its connections, threads, broadcasts and restarts.
THEOREM Invariance == Spec => []IInv
BY InitInvariant, NextInvariant, PTL DEF Spec

\* Types of the server's state.
THEOREM TypeCorrect == Spec => []TypeOK
<1>1. IInv => TypeOK
  BY DEF IInv
<1> QED
  BY <1>1, Invariance, PTL

\* The application hears "connected" first and once, "closed" at most once, and no
\* message after it except bytes already received from a peer that was reset.
THEOREM NoticesAreInOrder == Spec => []NoticesInOrder
<1>1. IInv => NoticesInOrder
  BY DEF IInv
<1> QED
  BY <1>1, Invariance, PTL

\* broadcast() never writes to a connection whose close was announced: it tests
\* state_ in one step and writes in the next, and the mutex removeConnection() waits
\* for keeps the announcement out of between.
THEOREM BroadcastIsTimely == Spec => []NoBroadcastAfterDown
<1>1. IInv => NoBroadcastAfterDown
  BY DEF IInv
<1> QED
  BY <1>1, Invariance, PTL

\* No established connection is lost to stop() and broadcast(): it is in
\* connections_, or about to be inserted by the main reactor.
THEOREM EstablishedIsListed == Spec => []ConnectedIsListed
<1>1. IInv => ConnectedIsListed
  BY DEF IInv, Listed, ConnectedIsListed
<1> QED
  BY <1>1, Invariance, PTL

\* stop() comes to close the connections only after the main thread and every sub
\* reactor's thread have ended.
THEOREM StopIsAlone == Spec => []StopClosesAlone
<1>1. IInv => StopClosesAlone
  BY DEF IInv, Control, StopClosesAlone
<1> QED
  BY <1>1, Invariance, PTL
=============================================================================
