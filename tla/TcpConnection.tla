--------------------------- MODULE TcpConnection ---------------------------
(***************************************************************************)
(* The output side of src/network/tcp_connection.cpp: send() writes to the *)
(* socket what the kernel takes and keeps the rest in output_buffer_,      *)
(* which handleWrite() empties.  send() is called by the loop thread (the  *)
(* echo of main.cpp) and by the thread that runs TcpServer::broadcast.     *)
(*                                                                         *)
(* A byte is the pair of its message and its place in it.                  *)
(***************************************************************************)
EXTENDS Naturals, Sequences, Functions

CONSTANTS
    Senders,       \* threads that call send()
    LoopThread,    \* the one that also runs the callbacks of the channel
    Messages,      \* messages, each sent once
    Size,          \* bytes in a message
    Capacity,      \* bytes the kernel buffers for a peer that does not read
    WriteInterest  \* Channel::enableWriting() was called for the socket

ASSUME ConnectionAssumption ==
    /\ LoopThread \in Senders
    /\ Size \in Nat \ {0}
    /\ Capacity \in Nat \ {0}
    /\ WriteInterest \in BOOLEAN

VARIABLES
    state_,
    output_buffer_,
    wire,          \* the bytes the kernel took, in order
    unacked,       \* how many of them the peer has not read
    peer,          \* "open"; "reset", the error not yet reported; or "gone"
    process,       \* "up", or "killed" by a signal
    at,            \* where each sender is in send()
    sending,       \* its message
    nwrote,        \* how many bytes of it write() took
    accepted,      \* messages for which send() returned their length, in order
    refused        \* messages for which it returned -1

sendvars == <<at, sending, nwrote>>
vars == <<state_, output_buffer_, wire, unacked, peer, process, sendvars,
          accepted, refused>>

Byte == Messages \X (1..Size)
Bytes(m) == [i \in 1..Size |-> <<m, i>>]

TypeOK ==
    /\ state_ \in {"kConnected", "kDisconnected"}
    /\ output_buffer_ \in Seq(Byte)
    /\ wire \in Seq(Byte)
    /\ unacked \in 0..Capacity
    /\ peer \in {"open", "reset", "gone"}
    /\ process \in {"up", "killed"}
    /\ at \in [Senders -> {"idle", "write", "append"}]
    /\ sending \in [Senders -> Messages \cup {"none"}]
    /\ nwrote \in [Senders -> 0..Size]
    /\ accepted \in Seq(Messages)
    /\ refused \subseteq Messages

Init ==
    /\ state_ = "kConnected"
    /\ output_buffer_ = << >>
    /\ wire = << >>
    /\ unacked = 0
    /\ peer = "open"
    /\ process = "up"
    /\ at = [s \in Senders |-> "idle"]
    /\ sending = [s \in Senders |-> "none"]
    /\ nwrote = [s \in Senders |-> 0]
    /\ accepted = << >>
    /\ refused = {}

Fresh(m) ==
    /\ m \notin Range(accepted) \cup refused
    /\ \A s \in Senders : sending[s] # m

\* The head of send(): the state, then whether anything is buffered.
Send(s, m) ==
    /\ at[s] = "idle"
    /\ Fresh(m)
    /\ IF state_ # "kConnected"
       THEN refused' = refused \cup {m} /\ UNCHANGED sendvars
       ELSE /\ at' = [at EXCEPT ![s] = IF output_buffer_ = << >> THEN "write"
                                                               ELSE "append"]
            /\ sending' = [sending EXCEPT ![s] = m]
            /\ nwrote' = [nwrote EXCEPT ![s] = 0]
            /\ UNCHANGED refused
    /\ UNCHANGED <<state_, output_buffer_, wire, unacked, peer, process, accepted>>

Finish(s) ==
    /\ at' = [at EXCEPT ![s] = "idle"]
    /\ sending' = [sending EXCEPT ![s] = "none"]

\* The kernel takes the first n of these bytes.
Take(bytes, n) ==
    /\ n <= Capacity - unacked
    /\ wire' = wire \o SubSeq(bytes, 1, n)
    /\ unacked' = unacked + n

\* write(): all of the message, a part of it, or none (EWOULDBLOCK).
SendWrite(s) ==
    /\ at[s] = "write"
    /\ peer = "open"
    /\ \E n \in 0..Size :
          /\ Take(Bytes(sending[s]), n)
          /\ nwrote' = [nwrote EXCEPT ![s] = n]
          /\ IF n = Size
             THEN Finish(s) /\ accepted' = Append(accepted, sending[s])
             ELSE /\ at' = [at EXCEPT ![s] = "append"]
                  /\ UNCHANGED <<sending, accepted>>
    /\ UNCHANGED <<state_, output_buffer_, peer, process, refused>>

\* The first write() after a reset fails with ECONNRESET: send() returns -1.
SendFault(s) ==
    /\ at[s] = "write"
    /\ peer = "reset"
    /\ peer' = "gone"
    /\ refused' = refused \cup {sending[s]}
    /\ Finish(s)
    /\ UNCHANGED <<state_, output_buffer_, wire, unacked, process, nwrote, accepted>>

\* The next would fail with EPIPE, but raises SIGPIPE first, which no line of the
\* program ignores.
SendPipe(s) ==
    /\ at[s] = "write"
    /\ peer = "gone"
    /\ process' = "killed"
    /\ UNCHANGED <<state_, output_buffer_, wire, unacked, peer, sendvars, accepted,
                   refused>>

\* Mutants: the message is kept from its first byte on; as many bytes as the whole
\* message are kept from the first unsent one on, beyond its end.
Mut_Rest(s) == Bytes(sending[s])
Mut_RestLong(s) == [i \in 1..Size |-> <<sending[s], nwrote[s] + i>>]
Rest(s) == SubSeq(Bytes(sending[s]), nwrote[s] + 1, Size)

SendAppend(s) ==
    /\ at[s] = "append"
    /\ output_buffer_' = output_buffer_ \o Rest(s)
    /\ accepted' = Append(accepted, sending[s])
    /\ Finish(s)
    /\ UNCHANGED <<state_, wire, unacked, peer, process, nwrote, refused>>

\* The loop thread handles an event of this connection.
Handles == at[LoopThread] = "idle"

AfterWrite(n) == SubSeq(output_buffer_, n + 1, Len(output_buffer_))

\* handleWrite(), which the loop calls when the socket is writable and its
\* channel asks for write events.
HandleWrite ==
    /\ Handles
    /\ WriteInterest
    /\ output_buffer_ # << >>
    /\ peer = "open"
    /\ \E n \in 1..Len(output_buffer_) :
          /\ Take(output_buffer_, n)
          /\ output_buffer_' = AfterWrite(n)
    /\ UNCHANGED <<state_, peer, process, sendvars, accepted, refused>>

\* handleWrite() does not look at state_: on a socket that is gone it is killed
\* like send(), and a pending reset takes it to handleError().
HandleWritePipe ==
    /\ Handles
    /\ WriteInterest
    /\ output_buffer_ # << >>
    /\ peer = "gone"
    /\ process' = "killed"
    /\ UNCHANGED <<state_, output_buffer_, wire, unacked, peer, sendvars, accepted,
                   refused>>

\* closeConnection(), because the peer reset the connection (an error event, or
\* handleError() after a failed write or read) or ended its own side.
CloseConnection ==
    /\ Handles
    /\ state_ = "kConnected"
    /\ state_' = "kDisconnected"
    /\ UNCHANGED <<output_buffer_, wire, unacked, process, sendvars, accepted,
                   refused>>

\* handleError() takes the pending error from the socket.
HandleError == peer \in {"reset", "gone"} /\ peer' = "gone" /\ CloseConnection
HandleEof == peer = "open" /\ UNCHANGED peer /\ CloseConnection

\* The peer (external).
PeerReads ==
    /\ peer = "open"
    /\ unacked > 0
    /\ unacked' = unacked - 1
    /\ UNCHANGED <<state_, output_buffer_, wire, peer, process, sendvars, accepted,
                   refused>>

PeerResets ==
    /\ peer = "open"
    /\ peer' = "reset"
    /\ UNCHANGED <<state_, output_buffer_, wire, unacked, process, sendvars,
                   accepted, refused>>

Up == process = "up"
SendStep(s) ==
    Up /\ (SendWrite(s) \/ SendFault(s) \/ SendPipe(s) \/ SendAppend(s))

Next ==
    \/ \E s \in Senders, m \in Messages : Up /\ Send(s, m)
    \/ \E s \in Senders : SendStep(s)
    \/ Up /\ HandleWrite
    \/ Up /\ HandleWritePipe
    \/ Up /\ HandleError
    \/ Up /\ HandleEof
    \/ PeerReads
    \/ PeerResets

Spec == Init /\ [][Next]_vars

\* Threads are scheduled, events are handled, and a peer that stays connected
\* goes on reading.
Fairness ==
    /\ \A s \in Senders : WF_vars(SendStep(s))
    /\ WF_vars(Up /\ HandleWrite)
    /\ WF_vars(Up /\ HandleError)
    /\ WF_vars(PeerReads)

FairSpec == Spec /\ Fairness

-----------------------------------------------------------------------------
\* A stream that is these messages one after the other, and then the first n
\* bytes of message m.
Delivers(stream, messages, m, n) ==
    /\ Len(stream) = Size * Len(messages) + n
    /\ \A k \in 1..Len(messages), j \in 1..Size :
          stream[Size * (k - 1) + j] = <<messages[k], j>>
    /\ \A j \in 1..n : stream[Size * Len(messages) + j] = <<m, j>>

\* How much of its message a sender's write() has put on the wire.
Partly(s) == IF at[s] = "append" THEN nwrote[s] ELSE 0

\* With one sending thread the peer gets the bytes of the messages send()
\* accepted, in order, none lost and none twice: what the kernel took followed
\* by output_buffer_ is exactly that stream (tcp_connection.cpp:76-118,
\* 148-173).
StreamIntact ==
    \A s \in Senders :
        Delivers(wire \o output_buffer_, accepted, sending[s], Partly(s))

\* What is buffered reaches a peer that keeps reading, as long as the connection
\* is neither closed nor reset (tcp_connection.h:27-28, non-blocking sending and
\* buffer management; tcp_connection.cpp:164, the buffer emptied).  It fails for the
\* program as it is, which never asks for write events.
OutputDrains ==
    (output_buffer_ # << >>) ~>
        (output_buffer_ = << >> \/ state_ # "kConnected" \/ peer # "open")

\* Data is sent directly only "if the output buffer is empty"
\* (tcp_connection.cpp:88), so that no message is put into the middle of one
\* that is still incomplete.
MessagesContiguous ==
    LET stream == wire \o output_buffer_
        message(i) == stream[i][1]
    IN  \A i, j, k \in 1..Len(stream) :
            i < j /\ j < k /\ message(i) = message(k) => message(j) = message(i)

\* A peer that resets its connection costs that connection: send() expects EPIPE
\* as one of its errors and returns -1 (tcp_connection.cpp:100-102).
SurvivesReset == process = "up"
=============================================================================
