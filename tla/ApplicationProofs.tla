------------------------- MODULE ApplicationProofs -------------------------
(***************************************************************************)
(* The life of the process and of its log, for any server threads, any     *)
(* queue length and any number of messages.                                *)
(***************************************************************************)
EXTENDS Application, SequenceTheorems, TLAPS

-----------------------------------------------------------------------------
(* The inductive invariant *)

\* Nothing has been logged before the logger is initialised.
FreshBefore ==
    pc = "logger" =>
        queue = << >> /\ file = << >> /\ dropped = {} /\ \A t \in Logging : sent[t] = 0

\* A server thread runs only between start() and the join in stop().
ServingWhile ==
    (\E t \in Server : thread[t] = "serving") => pc \in {"loop", "stop", "join", "killed"}

\* The pool is gone only once shutdown(), or main(), is past the server.
PoolDownAfter == pool = "down" => pc \in {"destroy", "exit", "ended", "killed"}

\* Only what was sent can have been refused.
DroppedSent == dropped \subseteq Sent

IInv ==
    /\ TypeOK
    /\ FreshBefore
    /\ ServingWhile
    /\ PoolDownAfter
    /\ ServerLogsKept
    /\ LogGapless
    /\ DroppedSent

-----------------------------------------------------------------------------
(* The log as a sequence *)

\* One more message at the end of the log: it is accepted, nothing else moves.
LEMMA AppendToLog ==
    ASSUME NEW s \in Seq(Message), NEW m \in Message,
           \A i \in 1..Len(s) : s[i][1] = m[1] => s[i][2] < m[2],
           \A i, j \in 1..Len(s) : i < j /\ s[i][1] = s[j][1] => s[i][2] < s[j][2]
    PROVE  LET t == Append(s, m)
           IN  /\ Range(t) = Range(s) \cup {m}
               /\ \A i, j \in 1..Len(t) : i < j /\ t[i][1] = t[j][1] => t[i][2] < t[j][2]
<1> DEFINE t == Append(s, m)
<1>1. /\ Len(s) \in Nat
      /\ Len(t) = Len(s) + 1
      /\ \A i \in 1..Len(s) : t[i] = s[i]
      /\ t[Len(s) + 1] = m
      /\ DOMAIN t = 1..(Len(s) + 1)
      /\ DOMAIN s = 1..Len(s)
  OBVIOUS
<1> HIDE DEF t
<1>2. Range(t) = Range(s) \cup {m}
  <2>1. ASSUME NEW x \in Range(t) PROVE x \in Range(s) \cup {m}
    BY <1>1, <2>1 DEF Range
  <2>2. ASSUME NEW x \in Range(s) PROVE x \in Range(t)
    <3>1. PICK i \in 1..Len(s) : s[i] = x
      BY <1>1, <2>2 DEF Range
    <3>2. i \in DOMAIN t /\ t[i] = x
      BY <1>1, <3>1
    <3> QED
      BY <3>2 DEF Range
  <2>3. m \in Range(t)
    <3>1. Len(s) + 1 \in DOMAIN t
      BY <1>1
    <3> QED
      BY <1>1, <3>1 DEF Range
  <2> QED
    BY <2>1, <2>2, <2>3
<1>3. ASSUME NEW i \in 1..Len(t), NEW j \in 1..Len(t), i < j, t[i][1] = t[j][1]
      PROVE  t[i][2] < t[j][2]
  <2>1. i \in 1..Len(s) /\ t[i] = s[i]
    BY <1>1, <1>3
  <2>2. CASE j \in 1..Len(s)
    BY <1>1, <1>3, <2>1, <2>2
  <2>3. CASE j = Len(s) + 1
    BY <1>1, <1>3, <2>1, <2>3
  <2> QED
    BY <1>1, <2>2, <2>3
<1> QED
  BY <1>2, <1>3 DEF t

\* The worker moves the head of the queue to the end of the file: the log does
\* not change.
LEMMA MoveInLog ==
    ASSUME NEW f \in Seq(Message), NEW q \in Seq(Message), q # << >>
    PROVE  Append(f, Head(q)) \o Tail(q) = f \o q
<1> DEFINE a == Append(f, Head(q)) \o Tail(q)
           b == f \o q
<1>1. /\ Head(q) \in Message
      /\ Head(q) = q[1]
      /\ Tail(q) \in Seq(Message)
      /\ Len(Tail(q)) = Len(q) - 1
      /\ \A i \in 1..(Len(q) - 1) : Tail(q)[i] = q[i + 1]
      /\ Len(q) \in Nat \ {0}
      /\ Len(f) \in Nat
  OBVIOUS
<1>2. /\ Append(f, Head(q)) \in Seq(Message)
      /\ Len(Append(f, Head(q))) = Len(f) + 1
      /\ \A i \in 1..Len(f) : Append(f, Head(q))[i] = f[i]
      /\ Append(f, Head(q))[Len(f) + 1] = q[1]
  BY <1>1
<1> DEFINE g == Append(f, Head(q))
           r == Tail(q)
<1> HIDE DEF g, r
<1>3. /\ g \o r \in Seq(Message)
      /\ Len(g \o r) = Len(f) + Len(q)
      /\ \A i \in 1..(Len(g) + Len(r)) :
            (g \o r)[i] = IF i <= Len(g) THEN g[i] ELSE r[i - Len(g)]
  BY <1>1, <1>2, ConcatProperties DEF g, r
<1>4. /\ b \in Seq(Message)
      /\ Len(b) = Len(f) + Len(q)
      /\ \A i \in 1..(Len(f) + Len(q)) : b[i] = IF i <= Len(f) THEN f[i] ELSE q[i - Len(f)]
  BY ConcatProperties
<1> HIDE DEF b
<1>5. ASSUME NEW i \in 1..(Len(f) + Len(q)) PROVE (g \o r)[i] = b[i]
  <2>1. Len(g) = Len(f) + 1 /\ Len(r) = Len(q) - 1
    BY <1>1, <1>2 DEF g, r
  <2>2. (g \o r)[i] = IF i <= Len(f) + 1 THEN g[i] ELSE r[i - (Len(f) + 1)]
    BY <1>1, <1>3, <2>1
  <2>3. CASE i <= Len(f)
    BY <1>1, <1>2, <1>4, <2>2, <2>3 DEF g
  <2>4. CASE i = Len(f) + 1
    <3>1. g[i] = q[1]
      BY <1>2, <2>4 DEF g
    <3>2. b[i] = q[1]
      <4>1. i - Len(f) = 1 /\ ~(i <= Len(f))
        BY <1>1, <2>4
      <4> QED
        BY <1>4, <4>1
    <3> QED
      BY <1>1, <2>2, <2>4, <3>1, <3>2
  <2>5. CASE i > Len(f) + 1
    <3>1. /\ i - (Len(f) + 1) \in 1..(Len(q) - 1)
          /\ (i - (Len(f) + 1)) + 1 = i - Len(f)
          /\ ~(i <= Len(f)) /\ ~(i <= Len(f) + 1)
      BY <1>1, <2>5
    <3>2. r[i - (Len(f) + 1)] = q[i - Len(f)]
      BY <1>1, <3>1 DEF r
    <3>3. (g \o r)[i] = r[i - (Len(f) + 1)]
      BY <2>2, <3>1
    <3>4. b[i] = q[i - Len(f)]
      BY <1>4, <3>1
    <3> QED
      BY <3>2, <3>3, <3>4
  <2>6. i <= Len(f) \/ i = Len(f) + 1 \/ i > Len(f) + 1
    BY <1>1
  <2> QED
    BY <2>3, <2>4, <2>5, <2>6
<1>6. g \o r = b
  BY <1>3, <1>4, <1>5, SeqEqual
<1> QED
  BY <1>6 DEF g, r, b

-----------------------------------------------------------------------------
(* Logging *)

\* What a step that may log does to the log: types, order and completeness are
\* kept, and a refused message is the caller's, with the pool gone
\* (logger.cpp:19, 32-34).
LEMMA LogStep ==
    ASSUME TypeOK, LogGapless, DroppedSent, NEW t \in Logging, Log(t)
    PROVE  /\ UNCHANGED <<logger_, pool, file>>
           /\ queue' \in Seq(Message) /\ Len(queue') <= QueueSize
           /\ sent' \in [Logging -> Nat]
           /\ dropped' \subseteq Message
           /\ LogGapless'
           /\ DroppedSent'
           /\ dropped' # dropped => pool = "down" /\ \A m \in dropped' \ dropped : m[1] = t
<1> USE ApplicationAssumption
<1>0. UNCHANGED <<logger_, pool, file>>
  BY DEF Log, Unlogged
<1> DEFINE m == <<t, sent[t] + 1>>
<1>1. /\ sent \in [Logging -> Nat]
      /\ queue \in Seq(Message)
      /\ file \in Seq(Message)
      /\ dropped \subseteq Message
      /\ Len(queue) \in Nat
      /\ Len(queue) <= QueueSize
  BY DEF TypeOK
<1>2. m \in Message /\ m[1] = t /\ m[2] = sent[t] + 1
  BY <1>1 DEF Message
<1> HIDE DEF m
<1>3. CASE UNCHANGED <<queue, sent, dropped>>
  <2>1. LogGapless' /\ DroppedSent'
    BY <1>0, <1>3 DEF LogGapless, DroppedSent, Sent
  <2> QED
    BY <1>0, <1>1, <1>3, <2>1
<1>4. CASE logger_ /\ sent' = [sent EXCEPT ![t] = @ + 1]
  <2>1. sent' \in [Logging -> Nat]
    BY <1>1, <1>4
  <2>2. Sent' = Sent \cup {m}
    <3>1. \A u \in Logging : sent'[u] = IF u = t THEN sent[t] + 1 ELSE sent[u]
      BY <1>1, <1>4
    <3>2. \A x : x \in Sent <=> \E u \in Logging : \E k \in 1..sent[u] : x = <<u, k>>
      BY DEF Sent
    <3>3. \A x : x \in Sent' <=> \E u \in Logging : \E k \in 1..sent'[u] : x = <<u, k>>
      BY DEF Sent, Logging
    <3>4. ASSUME NEW x \in Sent' PROVE x \in Sent \cup {m}
      <4>0. PICK u \in Logging : \E k \in 1..sent'[u] : x = <<u, k>>
        BY <3>3
      <4>1. PICK k \in 1..sent'[u] : x = <<u, k>>
        BY <4>0
      <4>2. sent[u] \in Nat
        BY <1>1
      <4>3. k \in 1..sent[u] \/ (u = t /\ k = sent[t] + 1)
        BY <3>1, <4>2
      <4> QED
        BY <3>2, <4>1, <4>3 DEF m
    <3>5. ASSUME NEW x \in Sent PROVE x \in Sent'
      <4>0. PICK u \in Logging : \E k \in 1..sent[u] : x = <<u, k>>
        BY <3>2
      <4>1. PICK k \in 1..sent[u] : x = <<u, k>>
        BY <4>0
      <4>2. sent[u] \in Nat /\ sent[t] \in Nat
        BY <1>1
      <4>3. k \in 1..sent'[u]
        BY <3>1, <4>2
      <4> QED
        BY <3>3, <4>1, <4>3
    <3>6. m \in Sent'
      <4>1. sent[t] \in Nat /\ sent[t] + 1 \in 1..sent'[t]
        BY <1>1, <3>1
      <4> QED
        BY <3>3, <4>1 DEF m
    <3> QED
      BY <3>4, <3>5, <3>6
  <2>3. m \notin Sent /\ \A x \in Sent : x[1] = t => x[2] < m[2]
    <3>1. ASSUME NEW x \in Sent, x[1] = t PROVE x[2] < m[2] /\ x # m
      <4>0. PICK u \in Logging : \E k \in 1..sent[u] : x = <<u, k>>
        BY DEF Sent
      <4>1. PICK k \in 1..sent[u] : x = <<u, k>>
        BY <4>0
      <4>2. u = t /\ x[2] = k /\ k <= sent[t] /\ sent[t] \in Nat /\ k \in Nat
        BY <1>1, <3>1, <4>1
      <4> QED
        BY <1>2, <4>2
    <3> QED
      BY <1>2, <3>1
  <2>4. CASE queue' = Append(queue, m) /\ Len(queue) < QueueSize /\ UNCHANGED dropped
    <3>1. queue' \in Seq(Message) /\ Len(queue') <= QueueSize
      BY <1>1, <1>2, <2>4
    <3> DEFINE log == file \o queue
    <3>2. log \in Seq(Message) /\ file' \o queue' = Append(log, m)
      BY <1>0, <1>1, <1>2, <2>4
    <3>3. /\ Range(log) = Sent \ dropped
          /\ \A i, j \in 1..Len(log) :
                i < j /\ log[i][1] = log[j][1] => log[i][2] < log[j][2]
      BY DEF LogGapless
    <3> HIDE DEF log
    <3>4. \A i \in 1..Len(log) : log[i] \in Range(log)
      BY <3>2 DEF Range
    <3>5. \A i \in 1..Len(log) : log[i][1] = m[1] => log[i][2] < m[2]
      BY <1>2, <2>3, <3>3, <3>4
    <3>6. /\ Range(Append(log, m)) = Range(log) \cup {m}
          /\ \A i, j \in 1..Len(Append(log, m)) :
                i < j /\ Append(log, m)[i][1] = Append(log, m)[j][1]
                   => Append(log, m)[i][2] < Append(log, m)[j][2]
      BY <1>2, <3>2, <3>3, <3>5, AppendToLog
    <3>7. Range(log) \cup {m} = Sent' \ dropped'
      BY <2>2, <2>3, <2>4, <3>3 DEF DroppedSent
    <3>8. LogGapless'
      BY <3>2, <3>6, <3>7 DEF LogGapless
    <3>9. DroppedSent'
      BY <2>2, <2>4 DEF DroppedSent
    <3> QED
      BY <1>0, <1>1, <2>1, <2>4, <3>1, <3>8, <3>9
  <2>5. CASE pool = "down" /\ dropped' = dropped \cup {m} /\ UNCHANGED queue
    <3>1. LogGapless'
      <4>1. Sent' \ dropped' = Sent \ dropped
        BY <2>2, <2>3, <2>5
      <4> QED
        BY <1>0, <2>5, <4>1 DEF LogGapless
    <3>2. DroppedSent'
      BY <2>2, <2>5 DEF DroppedSent
    <3> QED
      BY <1>0, <1>1, <1>2, <2>1, <2>5, <3>1, <3>2
  <2> QED
    BY <1>4, <2>4, <2>5 DEF Log, Post, m
<1> QED
  BY <1>3, <1>4 DEF Log

-----------------------------------------------------------------------------
(* Init and the actions *)

\* Nothing of the program has run (main.cpp:15-24).
LEMMA InitInvariant == Init => IInv
<1> USE ApplicationAssumption
<1> SUFFICES ASSUME Init PROVE IInv
  OBVIOUS
<1>1. TypeOK
  <2>1. sent \in [Logging -> Nat]
    BY DEF Init
  <2>2. queue \in Seq(Message) /\ file \in Seq(Message) /\ Len(queue) <= QueueSize
    BY DEF Init
  <2>3. stats \in 0..MaxStats /\ dropped \subseteq Message
    BY DEF Init
  <2>4. thread \in [Server -> {"none", "serving", "ended"}]
    BY DEF Init
  <2> QED
    BY <2>1, <2>2, <2>3, <2>4 DEF Init, TypeOK
<1>2. FreshBefore /\ ServingWhile /\ PoolDownAfter /\ ServerLogsKept /\ DroppedSent
  BY DEF Init, FreshBefore, ServingWhile, PoolDownAfter, ServerLogsKept,
         DroppedSent
<1>3. LogGapless
  <2>1. Sent = {}
    <3>1. \A t \in Logging : 1..sent[t] = {}
      BY DEF Init
    <3> QED
      BY <3>1 DEF Sent
  <2>2. file \o queue = << >>
    BY DEF Init
  <2>3. dropped = {}
    BY DEF Init
  <2> QED
    BY <2>1, <2>2, <2>3 DEF LogGapless, Range
<1> QED
  BY <1>1, <1>2, <1>3 DEF IInv

\* A step of a thread that is still there which logs: main in any place before
\* the end, a server thread while it serves.  Only a step that logs as main may
\* find the pool gone.
LEMMA LoggingStep ==
    ASSUME IInv, NEW t \in Logging, Log(t), pc # "logger",
           pc' # "logger", pc # "ended", pc' # "ended",
           t # Main => pool # "down",
           ServingWhile', pool = "down" => pc' \in {"destroy", "exit", "killed"},
           pc' \in {"config", "server", "start", "loop", "stop", "join", "flush",
                    "destroy", "exit"},
           running_' \in BOOLEAN, stats' \in 0..MaxStats, handlers' \in BOOLEAN,
           interrupted' \in BOOLEAN,
           thread' \in [Server -> {"none", "serving", "ended"}], connected' \in BOOLEAN
    PROVE  IInv'
<1>0. TypeOK /\ LogGapless /\ DroppedSent /\ ServerLogsKept
  BY DEF IInv
<1>1. /\ UNCHANGED <<logger_, pool, file>>
      /\ queue' \in Seq(Message) /\ Len(queue') <= QueueSize
      /\ sent' \in [Logging -> Nat]
      /\ dropped' \subseteq Message
      /\ LogGapless'
      /\ DroppedSent'
      /\ dropped' # dropped => pool = "down" /\ \A m \in dropped' \ dropped : m[1] = t
  BY <1>0, LogStep
<1>2. TypeOK'
  BY <1>0, <1>1 DEF TypeOK, Message, Logging
<1>3. ServerLogsKept'
  BY <1>0, <1>1 DEF ServerLogsKept
<1>4. PoolDownAfter' /\ FreshBefore'
  BY <1>1 DEF PoolDownAfter, FreshBefore
<1> QED
  BY <1>1, <1>2, <1>3, <1>4 DEF IInv

\* A step that does not touch the log.
LEMMA SilentStep ==
    ASSUME IInv, UNCHANGED <<pool, queue, file, sent, dropped>>, logger_' \in BOOLEAN,
           pc' \in {pc, "killed", "stuck"},
           ServingWhile', PoolDownAfter',
           running_' \in BOOLEAN, stats' \in 0..MaxStats, handlers' \in BOOLEAN,
           interrupted' \in BOOLEAN,
           thread' \in [Server -> {"none", "serving", "ended"}], connected' \in BOOLEAN
    PROVE  IInv'
<1>1. TypeOK'
  BY DEF IInv, TypeOK, Message, Logging
<1>2. LogGapless' /\ DroppedSent' /\ ServerLogsKept'
  BY DEF IInv, LogGapless, Sent, Logging, DroppedSent, ServerLogsKept
<1>3. FreshBefore'
  BY DEF IInv, FreshBefore, Logging
<1> QED
  BY <1>1, <1>2, <1>3 DEF IInv

\* The main thread's steps preserve the invariant (main.cpp:26-101, 127-135,
\* 150-174).
LEMMA MainInvariant == ASSUME IInv, MainStep PROVE IInv'
<1> USE ApplicationAssumption
<1>0. /\ TypeOK /\ FreshBefore /\ ServingWhile /\ PoolDownAfter /\ ServerLogsKept
      /\ LogGapless /\ DroppedSent
  BY DEF IInv
<1>a. Main \in Logging
  BY DEF Logging
<1>1. CASE InitLogger
  <2>1. /\ pc = "logger" /\ pc' = "config" /\ pool' = "up" /\ logger_' = TRUE
        /\ sent' = [sent EXCEPT ![Main] = 1]
        /\ queue' = <<<<Main, 1>>>>
        /\ UNCHANGED <<running_, stats, handlers, interrupted, file, dropped, thread, connected>>
    BY <1>1 DEF InitLogger, appvars, servervars
  <2>2. /\ queue = << >> /\ file = << >> /\ dropped = {}
        /\ \A t \in Logging : sent[t] = 0
    BY <1>0, <2>1 DEF FreshBefore
  <2>3. /\ sent' \in [Logging -> Nat]
        /\ \A t \in Logging : sent'[t] = IF t = Main THEN 1 ELSE 0
    BY <1>0, <2>1, <2>2, <1>a DEF TypeOK
  <2>4. /\ <<Main, 1>> \in Message
        /\ queue' \in Seq(Message)
        /\ Len(queue') <= QueueSize
    BY <1>a, <2>1 DEF Message
  <2>5. TypeOK'
    BY <1>0, <2>1, <2>3, <2>4 DEF TypeOK, Message, Logging
  <2>6. Sent' = {<<Main, 1>>}
    <3>1. \A x : x \in Sent' <=> \E u \in Logging : \E k \in 1..sent'[u] : x = <<u, k>>
      BY DEF Sent, Logging
    <3>2. \A u \in Logging : 1..sent'[u] = IF u = Main THEN {1} ELSE {}
      <4>1. 1..1 = {1} /\ 1..0 = {}
        OBVIOUS
      <4> QED
        BY <2>3, <4>1
    <3> QED
      BY <1>a, <3>1, <3>2
  <2>7. LogGapless'
    <3>1. file' \o queue' = <<<<Main, 1>>>>
      BY <2>1, <2>2
    <3>2. Range(<<<<Main, 1>>>>) = {<<Main, 1>>}
      BY DEF Range
    <3>3. Len(<<<<Main, 1>>>>) = 1
      OBVIOUS
    <3> QED
      BY <2>1, <2>2, <2>6, <3>1, <3>2, <3>3 DEF LogGapless
  <2>8. FreshBefore' /\ ServingWhile' /\ PoolDownAfter' /\ ServerLogsKept'
           /\ DroppedSent'
    BY <1>0, <2>1, <2>2 DEF FreshBefore, ServingWhile, PoolDownAfter, ServerLogsKept,
                            DroppedSent
  <2> QED
    BY <2>5, <2>7, <2>8 DEF IInv
<1>2. CASE InitLoggerFails
  <2>1. /\ pc = "logger" /\ pc' = "exit" /\ pool' = "up" /\ logger_' \in BOOLEAN
        /\ UNCHANGED <<running_, stats, handlers, interrupted, queue, file, sent, dropped,
                       thread, connected>>
    BY <1>2 DEF InitLoggerFails, appvars, servervars
  <2>2. TypeOK'
    BY <1>0, <2>1 DEF TypeOK, Message, Logging
  <2>3. LogGapless' /\ DroppedSent' /\ ServerLogsKept'
    BY <1>0, <2>1 DEF LogGapless, Sent, Logging, DroppedSent, ServerLogsKept
  <2>4. FreshBefore' /\ ServingWhile' /\ PoolDownAfter'
    BY <1>0, <2>1 DEF FreshBefore, ServingWhile, PoolDownAfter
  <2> QED
    BY <2>2, <2>3, <2>4 DEF IInv
<1>3. CASE LoadConfig \/ CreateServer
  <2>1. /\ Log(Main)
        /\ UNCHANGED <<running_, stats, handlers, interrupted, thread, connected>>
        /\ pc \in {"config", "server"}
        /\ pc' \in {"server", "exit", "start"}
    BY <1>3 DEF LoadConfig, CreateServer, appvars, servervars
  <2>2. ServingWhile'
    BY <1>0, <2>1 DEF ServingWhile
  <2>3. pool # "down"
    BY <1>0, <2>1 DEF PoolDownAfter
  <2> QED
    BY <1>0, <1>a, <2>1, <2>2, <2>3, LoggingStep DEF TypeOK
<1>4. CASE RunStart
  <2>1. /\ Log(Main)
        /\ UNCHANGED <<running_, stats, interrupted, connected>>
        /\ handlers' = TRUE
        /\ thread' = [t \in Server |-> "serving"]
        /\ pc = "start"
        /\ pc' = "loop"
    BY <1>4 DEF RunStart
  <2>2. ServingWhile'
    BY <2>1 DEF ServingWhile
  <2>3. pool # "down"
    BY <1>0, <2>1 DEF PoolDownAfter
  <2> QED
    BY <1>0, <1>a, <2>1, <2>2, <2>3, LoggingStep DEF TypeOK
<1>5. CASE RunStartFails
  <2>1. /\ Log(Main)
        /\ UNCHANGED <<running_, stats, interrupted, thread, connected>>
        /\ handlers' = TRUE
        /\ pc = "start"
        /\ pc' = "destroy"
    BY <1>5 DEF RunStartFails, servervars
  <2>2. ServingWhile'
    BY <1>0, <2>1 DEF ServingWhile
  <2> QED
    BY <1>0, <1>a, <2>1, <2>2, LoggingStep DEF TypeOK
<1>6. CASE RunEnds \/ ServerStop
  <2>1. /\ Log(Main)
        /\ UNCHANGED <<running_, stats, handlers, interrupted, thread, connected>>
        /\ pc \in {"loop", "stop"}
        /\ pc' \in {"stop", "join"}
    BY <1>6 DEF RunEnds, ServerStop, Shutdown, appvars, servervars
  <2>2. ServingWhile'
    BY <1>0, <2>1 DEF ServingWhile
  <2>3. pool # "down"
    BY <1>0, <2>1 DEF PoolDownAfter
  <2> QED
    BY <1>0, <1>a, <2>1, <2>2, <2>3, LoggingStep DEF TypeOK
<1>7. CASE ServerJoined
  <2>1. /\ pc = "join"
        /\ \A t \in Server : thread[t] = "ended"
        /\ UNCHANGED <<running_, stats, handlers, interrupted, thread, connected>>
    BY <1>7 DEF ServerJoined, appvars, servervars
  <2>2. ServingWhile'
    BY <2>1 DEF ServingWhile
  <2>3. pool # "down"
    BY <1>0, <2>1 DEF PoolDownAfter
  <2>4. CASE connected
    <3>1. pc' = "stuck" /\ UNCHANGED <<logger_, pool, queue, file, sent, dropped>>
      BY <1>7, <2>4 DEF ServerJoined, logvars
    <3>2. PoolDownAfter'
      BY <2>3, <3>1 DEF PoolDownAfter
    <3> QED
      BY <1>0, <2>1, <2>2, <3>1, <3>2, SilentStep DEF TypeOK
  <2>5. CASE ~connected
    <3>1. pc' = "flush" /\ Log(Main)
      BY <1>7, <2>5 DEF ServerJoined, Shutdown
    <3> QED
      BY <1>0, <1>a, <2>1, <2>2, <2>3, <3>1, LoggingStep DEF TypeOK
  <2> QED
    BY <2>4, <2>5
<1>8. CASE LoggerShutdown \/ Exit
  <2>1. /\ queue = << >>
        /\ pool' = "down"
        /\ UNCHANGED <<logger_, queue, file, sent, dropped, running_, stats, handlers,
                       interrupted, thread, connected>>
        /\ pc \in {"flush", "exit"}
        /\ pc' \in {"destroy", "ended"}
    BY <1>8 DEF LoggerShutdown, Exit, PoolEnds, Drained, Shutdown, appvars, servervars
  <2>2. TypeOK'
    BY <1>0, <2>1 DEF TypeOK, Message, Logging
  <2>3. LogGapless' /\ DroppedSent' /\ ServerLogsKept'
    BY <1>0, <2>1 DEF LogGapless, Sent, Logging, DroppedSent, ServerLogsKept
  <2>4. FreshBefore' /\ ServingWhile' /\ PoolDownAfter'
    BY <1>0, <2>1 DEF FreshBefore, ServingWhile, PoolDownAfter
  <2> QED
    BY <2>2, <2>3, <2>4 DEF IInv
<1>9. CASE DestroyApplication
  <2>1. /\ Log(Main)
        /\ UNCHANGED <<running_, stats, handlers, interrupted, thread, connected>>
        /\ pc = "destroy"
        /\ pc' = "exit"
    BY <1>9 DEF DestroyApplication, appvars, servervars
  <2>2. ServingWhile'
    BY <1>0, <2>1 DEF ServingWhile
  <2> QED
    BY <1>0, <1>a, <2>1, <2>2, LoggingStep DEF TypeOK
<1> QED
  BY <1>1, <1>2, <1>3, <1>4, <1>5, <1>6, <1>7, <1>8, <1>9 DEF MainStep

\* Every step of any thread, and a signal, preserves the invariant.
LEMMA NextInvariant == IInv /\ [Next]_vars => IInv'
<1> USE ApplicationAssumption
<1> SUFFICES ASSUME IInv, [Next]_vars PROVE IInv'
  OBVIOUS
<1>0. /\ TypeOK /\ FreshBefore /\ ServingWhile /\ PoolDownAfter /\ ServerLogsKept
      /\ LogGapless /\ DroppedSent
  BY DEF IInv
<1>1. CASE MainStep
  BY <1>1, MainInvariant
<1>2. CASE PrintStats
  <2>1. /\ Log(Main)
        /\ UNCHANGED <<running_, handlers, interrupted, thread, connected>>
        /\ stats' = stats + 1 /\ stats < MaxStats
        /\ pc = "loop"
        /\ pc' = "loop"
    BY <1>2 DEF PrintStats, servervars
  <2>2. ServingWhile' /\ pool # "down"
    BY <1>0, <2>1 DEF ServingWhile, PoolDownAfter
  <2>3. Main \in Logging /\ stats' \in 0..MaxStats
    BY <1>0, <2>1 DEF Logging, TypeOK
  <2> QED
    BY <1>0, <2>1, <2>2, <2>3, LoggingStep DEF TypeOK
<1>3. CASE WriteLog
  <2>1. /\ queue # << >>
        /\ queue' = Tail(queue)
        /\ file' = Append(file, Head(queue))
        /\ UNCHANGED <<pc, running_, stats, handlers, interrupted, logger_, pool, sent,
                       dropped, thread, connected>>
    BY <1>3 DEF WriteLog, appvars, servervars
  <2>2. queue \in Seq(Message) /\ file \in Seq(Message) /\ Len(queue) <= QueueSize
    BY <1>0 DEF TypeOK
  <2>3. /\ queue' \in Seq(Message)
        /\ file' \in Seq(Message)
        /\ Len(queue') <= QueueSize
    BY <2>1, <2>2
  <2>4. TypeOK'
    BY <1>0, <2>1, <2>3 DEF TypeOK, Message, Logging
  <2>5. file' \o queue' = file \o queue
    BY <2>1, <2>2, MoveInLog
  <2>6. LogGapless' /\ DroppedSent' /\ ServerLogsKept'
    <3>1. Sent' = Sent
      BY <2>1 DEF Sent, Logging
    <3>2. LogGapless'
      <4>1. PICK log : log = file \o queue
        OBVIOUS
      <4>2. /\ Range(log) = Sent \ dropped
            /\ \A i, j \in 1..Len(log) :
                  i < j /\ log[i][1] = log[j][1] => log[i][2] < log[j][2]
        BY <1>0, <4>1 DEF LogGapless
      <4>3. log = file' \o queue' /\ Sent' \ dropped' = Sent \ dropped
        BY <2>1, <2>5, <3>1, <4>1
      <4> QED
        BY <4>2, <4>3 DEF LogGapless
    <3> QED
      BY <1>0, <2>1, <3>1, <3>2 DEF DroppedSent, ServerLogsKept
  <2>7. FreshBefore' /\ ServingWhile' /\ PoolDownAfter'
    BY <1>0, <2>1 DEF FreshBefore, ServingWhile, PoolDownAfter
  <2> QED
    BY <2>4, <2>6, <2>7 DEF IInv
<1>4. CASE Stop
  <2>1. /\ UNCHANGED <<pc, stats, handlers, interrupted, logger_, pool, queue, file, sent,
                       dropped, thread, connected>>
        /\ running_' = FALSE
    BY <1>4 DEF Stop, logvars, servervars
  <2>2. ServingWhile' /\ PoolDownAfter'
    BY <1>0, <2>1 DEF ServingWhile, PoolDownAfter
  <2> QED
    BY <1>0, <2>1, <2>2, SilentStep DEF TypeOK
<1>5. CASE Signal
  <2>1. /\ UNCHANGED <<running_, stats, handlers, logger_, pool, queue, file, sent,
                       dropped, thread, connected>>
        /\ pc' \in {pc, "killed"}
        /\ interrupted' \in {interrupted, TRUE}
    BY <1>5 DEF Signal, logvars, servervars
  <2>2. ServingWhile' /\ PoolDownAfter'
    BY <1>0, <2>1 DEF ServingWhile, PoolDownAfter
  <2>3. interrupted' \in BOOLEAN
    BY <1>0, <2>1 DEF TypeOK
  <2> QED
    BY <1>0, <2>1, <2>2, <2>3, SilentStep DEF TypeOK
<1>6. ASSUME NEW t \in Server, ThreadLog(t) \/ ThreadEnds(t) PROVE IInv'
  <2>1. /\ Log(t)
        /\ UNCHANGED <<pc, running_, stats, handlers, interrupted, connected>>
        /\ thread[t] = "serving" /\ pc # "killed"
        /\ thread' \in {thread, [thread EXCEPT ![t] = "ended"]}
    BY <1>6 DEF ThreadLog, ThreadEnds, Serving, appvars, servervars
  <2>2. pc \in {"loop", "stop", "join"} /\ pool # "down"
    BY <1>0, <2>1 DEF ServingWhile, PoolDownAfter
  <2>3. ServingWhile'
    BY <2>1, <2>2 DEF ServingWhile
  <2>4. t \in Logging /\ thread' \in [Server -> {"none", "serving", "ended"}]
    BY <1>0, <2>1 DEF TypeOK, Logging
  <2> QED
    BY <1>0, <2>1, <2>2, <2>3, <2>4, LoggingStep DEF TypeOK
<1>7. ASSUME NEW t \in Server, ThreadConnection(t) \/ BrokenPipe(t) PROVE IInv'
  <2>1. /\ UNCHANGED <<running_, stats, handlers, interrupted, logger_, pool, queue, file,
                       sent, dropped, thread>>
        /\ connected' \in {connected, ~connected}
        /\ pc' \in {pc, "killed"}
    BY <1>7 DEF ThreadConnection, BrokenPipe, appvars, logvars, servervars
  <2>2. ServingWhile' /\ PoolDownAfter'
    BY <1>0, <2>1 DEF ServingWhile, PoolDownAfter
  <2>3. connected' \in BOOLEAN
    BY <1>0, <2>1 DEF TypeOK
  <2> QED
    BY <1>0, <2>1, <2>2, <2>3, SilentStep DEF TypeOK
<1>8. CASE UNCHANGED vars
  <2>1. UNCHANGED <<pc, running_, stats, handlers, interrupted, logger_, pool, queue, file,
                    sent, dropped, thread, connected>>
    BY <1>8 DEF vars, appvars, logvars, servervars
  <2>2. ServingWhile' /\ PoolDownAfter'
    BY <1>0, <2>1 DEF ServingWhile, PoolDownAfter
  <2> QED
    BY <1>0, <2>1, <2>2, SilentStep DEF TypeOK
<1> QED
  BY <1>1, <1>2, <1>3, <1>4, <1>5, <1>6, <1>7, <1>8 DEF Next

-----------------------------------------------------------------------------
(* What holds in every reachable state *)

\* IInv holds in every reachable state, whatever is scheduled.
THEOREM Invariance == Spec => []IInv
BY InitInvariant, NextInvariant, PTL DEF Spec

\* The state is well typed; in particular the log queue never holds more than the
\* pool was given room for (logger.cpp:19).
THEOREM TypeCorrect == Spec => []TypeOK
BY Invariance, PTL DEF IInv

\* No message of a server thread is refused: the threads are joined before the
\* logger goes, for any number of them (main.cpp:127-135).
THEOREM ServerIsHeard == Spec => []ServerLogsKept
BY Invariance, PTL DEF IInv

\* The log holds exactly the accepted messages, once each and in the order of
\* their threads, however the queue fills (logger.cpp:19, 32-34, 70-82).
THEOREM LogHasNoGaps == Spec => []LogGapless
BY Invariance, PTL DEF IInv
=============================================================================
