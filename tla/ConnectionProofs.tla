-------------------------- MODULE ConnectionProofs --------------------------
(***************************************************************************)
(* The output side of TcpConnection, for messages and socket buffers of    *)
(* any size: its types with any threads, its stream with one.              *)
(***************************************************************************)
EXTENDS TcpConnection, SequenceTheorems, TLAPS

USE DEF sendvars

-----------------------------------------------------------------------------
(* The inductive invariants *)

\* A thread inside send() has a message, and appends because it has not yet
\* written all of it.
InSend ==
    \A s \in Senders :
        /\ at[s] # "idle" => sending[s] \in Messages
        /\ at[s] = "append" => nwrote[s] < Size

TInv == TypeOK /\ InSend

\* The loop thread writes directly only what comes after everything buffered.
DirectInOrder == at[LoopThread] = "write" => output_buffer_ = << >>

IInv == TInv /\ DirectInOrder /\ StreamIntact

-----------------------------------------------------------------------------
(* Bytes, parts of messages and streams *)

\* A part of a message is a sequence of its bytes.
LEMMA PartOf ==
    ASSUME NEW m \in Messages, NEW a \in 0..Size, NEW b \in 0..Size, a <= b
    PROVE  /\ SubSeq(Bytes(m), a + 1, b) \in Seq(Byte)
           /\ Len(SubSeq(Bytes(m), a + 1, b)) = b - a
           /\ \A i \in 1..(b - a) : SubSeq(Bytes(m), a + 1, b)[i] = <<m, a + i>>
<1> USE ConnectionAssumption
<1>1. \A i \in (a + 1)..b : i \in 1..Size /\ Bytes(m)[i] = <<m, i>> /\ Bytes(m)[i] \in Byte
  BY DEF Bytes, Byte
<1>2. a + 1 \in Int /\ b \in Int
  OBVIOUS
<1> DEFINE part == SubSeq(Bytes(m), a + 1, b)
<1>3. /\ part \in Seq(Byte)
      /\ Len(part) = IF a + 1 <= b THEN b - (a + 1) + 1 ELSE 0
      /\ \A i \in 1..(b - (a + 1) + 1) : part[i] = Bytes(m)[a + 1 + i - 1]
  BY <1>1, <1>2, SubSeqProperties
<1> HIDE DEF part
<1>4. part \in Seq(Byte) /\ Len(part) = b - a
  BY <1>3
<1>5. \A i \in 1..(b - a) : part[i] = <<m, a + i>>
  BY <1>1, <1>3
<1> QED
  BY <1>4, <1>5 DEF part

\* The bytes of the first n messages are the first Size * n of the stream.
LEMMA Place ==
    ASSUME NEW n \in Nat, NEW k \in 1..n, NEW j \in 1..Size
    PROVE  /\ Size * (k - 1) + j \in 1..(Size * n)
           /\ Size * n \in Nat
<1> USE ConnectionAssumption
<1>1. Size \in Nat /\ k - 1 \in Nat /\ Size * (k - 1) \in Nat /\ Size * n \in Nat
  OBVIOUS
<1>2. Size * k = Size * (k - 1) + Size
  OBVIOUS
<1>3. n - k \in Nat /\ Size * (n - k) \in Nat
  OBVIOUS
<1>4. Size * n = Size * k + Size * (n - k)
  OBVIOUS
<1> QED
  BY <1>1, <1>2, <1>3, <1>4

\* More of the message continues the stream.
LEMMA DeliversMore ==
    ASSUME NEW stream \in Seq(Byte), NEW messages \in Seq(Messages), NEW m \in Messages,
           NEW a \in 0..Size, NEW b \in 0..Size, a <= b,
           Delivers(stream, messages, m, a)
    PROVE  Delivers(stream \o SubSeq(Bytes(m), a + 1, b), messages, m, b)
<1> USE ConnectionAssumption
<1>1. PICK part : part = SubSeq(Bytes(m), a + 1, b)
  OBVIOUS
<1>2. /\ part \in Seq(Byte) /\ Len(part) = b - a
      /\ \A i \in 1..(b - a) : part[i] = <<m, a + i>>
  BY <1>1, PartOf
<1>3. PICK more : more = stream \o part
  OBVIOUS
<1>4. /\ Len(more) = Len(stream) + Len(part)
      /\ \A i \in 1..(Len(stream) + Len(part)) :
            more[i] = IF i <= Len(stream) THEN stream[i] ELSE part[i - Len(stream)]
  BY <1>2, <1>3, ConcatProperties
<1>5. PICK n, N : n = Len(messages) /\ N = Size * Len(messages)
  OBVIOUS
<1>6. n \in Nat /\ N \in Nat /\ N = Size * n
  BY <1>5
<1>7. /\ Len(stream) = N + a
      /\ \A k \in 1..n, j \in 1..Size : stream[Size * (k - 1) + j] = <<messages[k], j>>
      /\ \A j \in 1..a : stream[N + j] = <<m, j>>
  BY <1>5 DEF Delivers
<1>8. Len(more) = N + b
  BY <1>2, <1>4, <1>6, <1>7
<1>9. ASSUME NEW k \in 1..n, NEW j \in 1..Size
      PROVE  more[Size * (k - 1) + j] = <<messages[k], j>>
  <2>1. PICK x : x = Size * (k - 1) + j
    OBVIOUS
  <2>2. x \in 1..N
    BY <1>6, <2>1, Place
  <2>3. x \in 1..(Len(stream) + Len(part)) /\ x <= Len(stream)
    BY <1>2, <1>6, <1>7, <2>2
  <2>4. more[x] = stream[x]
    BY <1>4, <2>3
  <2> QED
    BY <1>7, <2>1, <2>4
<1>10. ASSUME NEW j \in 1..b PROVE more[N + j] = <<m, j>>
  <2>1. N + j \in 1..(Len(stream) + Len(part))
    BY <1>2, <1>6, <1>7
  <2>2. CASE j <= a
    BY <1>4, <1>6, <1>7, <2>1, <2>2
  <2>3. CASE j > a
    <3>1. j - a \in 1..(b - a) /\ a + (j - a) = j
      BY <2>3
    <3>2. ~(N + j <= Len(stream)) /\ (N + j) - Len(stream) = j - a
      BY <1>6, <1>7, <2>3
    <3>3. more[N + j] = part[(N + j) - Len(stream)]
      BY <1>4, <2>1, <3>2, Zenon
    <3>4. part[j - a] = <<m, a + (j - a)>>
      BY <1>2, <3>1
    <3> QED
      BY <3>1, <3>2, <3>3, <3>4
  <2> QED
    BY <2>2, <2>3
<1> QED
  BY <1>1, <1>3, <1>5, <1>8, <1>9, <1>10 DEF Delivers

\* A message all of whose bytes are in the stream is one of its messages.
LEMMA DeliversAll ==
    ASSUME NEW stream, NEW messages \in Seq(Messages), NEW m \in Messages, NEW x,
           Delivers(stream, messages, m, Size)
    PROVE  Delivers(stream, Append(messages, m), x, 0)
<1> USE ConnectionAssumption
<1>1. PICK more, n, N : more = Append(messages, m) /\ n = Len(messages) /\ N = Size * Len(messages)
  OBVIOUS
<1>2. n \in Nat /\ N \in Nat /\ N = Size * n
  BY <1>1
<1>3. /\ Len(more) = n + 1 /\ more[n + 1] = m
      /\ \A i \in 1..n : more[i] = messages[i]
  BY <1>1, AppendProperties
<1>4. /\ Len(stream) = N + Size
      /\ \A k \in 1..n, j \in 1..Size : stream[Size * (k - 1) + j] = <<messages[k], j>>
      /\ \A j \in 1..Size : stream[N + j] = <<m, j>>
  BY <1>1 DEF Delivers
<1>5. Len(stream) = Size * Len(more) + 0
  BY <1>2, <1>3, <1>4
<1>6. ASSUME NEW k \in 1..(n + 1), NEW j \in 1..Size
      PROVE  stream[Size * (k - 1) + j] = <<more[k], j>>
  <2>1. CASE k \in 1..n
    BY <1>3, <1>4, <2>1
  <2>2. CASE k = n + 1
    <3>1. Size * (k - 1) = N
      BY <1>2, <2>2
    <3> QED
      BY <1>3, <1>4, <2>2, <3>1
  <2> QED
    BY <1>2, <2>1, <2>2
<1>7. 1..0 = {} /\ 1..Len(more) = 1..(n + 1)
  BY <1>3
<1>8. Delivers(stream, more, x, 0)
  BY <1>5, <1>6, <1>7 DEF Delivers
<1> QED
  BY <1>1, <1>8

\* At the boundary of two messages it does not matter which comes next.
LEMMA DeliversNext ==
    ASSUME NEW stream, NEW messages, NEW m, NEW x, Delivers(stream, messages, m, 0)
    PROVE  Delivers(stream, messages, x, 0)
BY DEF Delivers

-----------------------------------------------------------------------------
(* Types, with any threads *)

\* What the kernel takes goes to the end of the wire and fits its buffer.
LEMMA TakeTypes ==
    ASSUME TypeOK, NEW bytes \in Seq(Byte), NEW n \in 0..Len(bytes), Take(bytes, n)
    PROVE  wire' \in Seq(Byte) /\ unacked' \in 0..Capacity
<1> USE ConnectionAssumption
<1>1. \A i \in 1..n : bytes[i] \in Byte
  BY ElementOfSeq
<1>2. 1 \in Int /\ n \in Int
  OBVIOUS
<1>3. SubSeq(bytes, 1, n) \in Seq(Byte)
  BY <1>1, <1>2, SubSeqProperties
<1>4. wire' \in Seq(Byte)
  BY <1>3, ConcatProperties DEF TypeOK, Take
<1>5. unacked' \in 0..Capacity
  BY DEF TypeOK, Take
<1> QED
  BY <1>4, <1>5

\* A message is the sequence of its bytes.
LEMMA BytesType ==
    ASSUME NEW m \in Messages
    PROVE  Bytes(m) \in Seq(Byte) /\ Len(Bytes(m)) = Size
<1>1. Size \in Nat /\ \A i \in 1..Size : <<m, i>> \in Byte
  BY ConnectionAssumption DEF Byte
<1>2. [i \in 1..Size |-> <<m, i>>] \in Seq(Byte) /\ Len([i \in 1..Size |-> <<m, i>>]) = Size
  BY <1>1, IsASeq, LenProperties
<1> QED
  BY <1>2 DEF Bytes

\* Every step keeps the types, and a thread inside send() its message.
LEMMA TypeStep == ASSUME TInv, Next PROVE TInv'
<1> USE ConnectionAssumption
<1>0. TypeOK /\ InSend /\ Size \in Nat
  BY DEF TInv
<1>1. ASSUME NEW s \in Senders, NEW m \in Messages, Send(s, m) PROVE TInv'
  <2>1. CASE state_ # "kConnected"
    BY <1>0, <1>1, <2>1 DEF TInv, TypeOK, InSend, Send
  <2>2. CASE state_ = "kConnected"
    <3>1. /\ at' = [at EXCEPT ![s] = IF output_buffer_ = << >> THEN "write" ELSE "append"]
          /\ sending' = [sending EXCEPT ![s] = m]
          /\ nwrote' = [nwrote EXCEPT ![s] = 0]
          /\ UNCHANGED <<state_, output_buffer_, wire, unacked, peer, process, accepted, refused>>
      BY <1>1, <2>2 DEF Send
    <3>2. TypeOK'
      BY <1>0, <3>1 DEF TypeOK
    <3>3. InSend'
      BY <1>0, <3>1 DEF InSend, TypeOK
    <3> QED
      BY <3>2, <3>3 DEF TInv
  <2> QED
    BY <2>1, <2>2
<1>2. ASSUME NEW s \in Senders, SendWrite(s) PROVE TInv'
  <2>1. PICK n \in 0..Size :
           /\ Take(Bytes(sending[s]), n)
           /\ nwrote' = [nwrote EXCEPT ![s] = n]
           /\ IF n = Size
              THEN Finish(s) /\ accepted' = Append(accepted, sending[s])
              ELSE at' = [at EXCEPT ![s] = "append"] /\ UNCHANGED <<sending, accepted>>
    BY <1>2 DEF SendWrite
  <2>2. /\ at[s] = "write" /\ sending[s] \in Messages
        /\ UNCHANGED <<state_, output_buffer_, peer, process, refused>>
    BY <1>0, <1>2 DEF SendWrite, InSend
  <2>3. wire' \in Seq(Byte) /\ unacked' \in 0..Capacity
    <3>1. Bytes(sending[s]) \in Seq(Byte) /\ Len(Bytes(sending[s])) = Size
      BY <2>2, BytesType
    <3>2. n \in 0..Len(Bytes(sending[s]))
      BY <3>1
    <3> QED
      BY <1>0, <2>1, <3>1, <3>2, TakeTypes
  <2>4. CASE n = Size
    <3>1. /\ at' = [at EXCEPT ![s] = "idle"] /\ sending' = [sending EXCEPT ![s] = "none"]
          /\ accepted' = Append(accepted, sending[s])
      BY <2>1, <2>4 DEF Finish
    <3>2. accepted' \in Seq(Messages)
      BY <1>0, <2>2, <3>1, AppendProperties DEF TypeOK
    <3>3. TypeOK'
      BY <1>0, <2>1, <2>2, <2>3, <3>1, <3>2 DEF TypeOK
    <3>4. InSend'
      BY <1>0, <2>1, <3>1 DEF TypeOK, InSend
    <3> QED
      BY <3>3, <3>4 DEF TInv
  <2>5. CASE n # Size
    <3>1. at' = [at EXCEPT ![s] = "append"] /\ UNCHANGED <<sending, accepted>>
      BY <2>1, <2>5
    <3>2. TypeOK'
      BY <1>0, <2>1, <2>2, <2>3, <3>1 DEF TypeOK
    <3>3. InSend'
      BY <1>0, <2>1, <2>2, <2>5, <3>1 DEF TypeOK, InSend
    <3> QED
      BY <3>2, <3>3 DEF TInv
  <2> QED
    BY <2>4, <2>5
<1>3. ASSUME NEW s \in Senders, SendFault(s) PROVE TInv'
  <2>1. sending[s] \in Messages
    BY <1>0, <1>3 DEF SendFault, InSend
  <2>2. TypeOK'
    BY <1>0, <1>3, <2>1 DEF TypeOK, SendFault, Finish
  <2>3. InSend'
    BY <1>0, <1>3 DEF TypeOK, InSend, SendFault, Finish
  <2> QED
    BY <2>2, <2>3 DEF TInv
<1>4. ASSUME NEW s \in Senders, SendPipe(s) PROVE TInv'
  BY <1>0, <1>4 DEF TInv, TypeOK, InSend, SendPipe
<1>5. ASSUME NEW s \in Senders, SendAppend(s) PROVE TInv'
  <2>1. /\ sending[s] \in Messages /\ nwrote[s] \in 0..Size
        /\ at' = [at EXCEPT ![s] = "idle"] /\ sending' = [sending EXCEPT ![s] = "none"]
        /\ accepted' = Append(accepted, sending[s])
        /\ output_buffer_' = output_buffer_ \o SubSeq(Bytes(sending[s]), nwrote[s] + 1, Size)
        /\ UNCHANGED <<state_, wire, unacked, peer, process, nwrote, refused>>
    BY <1>0, <1>5 DEF TypeOK, InSend, SendAppend, Finish, Rest
  <2>2. accepted' \in Seq(Messages)
    BY <1>0, <2>1, AppendProperties DEF TypeOK
  <2>3. SubSeq(Bytes(sending[s]), nwrote[s] + 1, Size) \in Seq(Byte)
    <3>1. nwrote[s] <= Size /\ Size \in 0..Size
      BY <1>0, <2>1
    <3> QED
      BY <2>1, <3>1, PartOf
  <2>4. output_buffer_' \in Seq(Byte)
    BY <1>0, <2>1, <2>3, ConcatProperties DEF TypeOK
  <2>5. TypeOK'
    BY <1>0, <2>1, <2>2, <2>4 DEF TypeOK
  <2>6. InSend'
    BY <1>0, <2>1 DEF TypeOK, InSend
  <2> QED
    BY <2>5, <2>6 DEF TInv
<1>6. ASSUME HandleWrite PROVE TInv'
  <2>1. PICK n \in 1..Len(output_buffer_) :
           Take(output_buffer_, n) /\ output_buffer_' = AfterWrite(n)
    BY <1>6 DEF HandleWrite
  <2>2. UNCHANGED <<state_, peer, process, at, sending, nwrote, accepted, refused>>
    BY <1>6 DEF HandleWrite
  <2>3. output_buffer_ \in Seq(Byte) /\ n \in 0..Len(output_buffer_)
    BY <1>0 DEF TypeOK
  <2>4. wire' \in Seq(Byte) /\ unacked' \in 0..Capacity
    BY <1>0, <2>1, <2>3, TakeTypes
  <2>5. output_buffer_' \in Seq(Byte)
    <3>1. n + 1 \in Int /\ Len(output_buffer_) \in Int
      BY <2>3
    <3>2. \A i \in (n + 1)..Len(output_buffer_) : output_buffer_[i] \in Byte
      BY <2>3, ElementOfSeq
    <3> QED
      BY <2>1, <3>1, <3>2, SubSeqProperties DEF AfterWrite
  <2> QED
    BY <1>0, <2>2, <2>4, <2>5 DEF TInv, TypeOK, InSend
<1>7. ASSUME HandleWritePipe \/ HandleError \/ HandleEof \/ PeerReads \/ PeerResets PROVE TInv'
  BY <1>0, <1>7 DEF TInv, TypeOK, InSend, HandleWritePipe, HandleError, HandleEof,
                    CloseConnection, PeerReads, PeerResets
<1> QED
  BY <1>1, <1>2, <1>3, <1>4, <1>5, <1>6, <1>7 DEF Next, SendStep

\* Nothing is sent at the start.
LEMMA InitTypes == Init => TInv
<1> SUFFICES ASSUME Init PROVE TInv
  OBVIOUS
<1>1. TypeOK
  BY ConnectionAssumption DEF Init, TypeOK
<1>2. InSend
  BY DEF Init, InSend
<1> QED
  BY <1>1, <1>2 DEF TInv

\* Every step, or none, keeps TInv.
LEMMA TypesKept == TInv /\ [Next]_vars => TInv'
<1>1. ASSUME TInv, UNCHANGED vars PROVE TInv'
  BY <1>1 DEF TInv, TypeOK, InSend, vars
<1> QED
  BY <1>1, TypeStep

\* With any number of threads in send(), every variable keeps its type: only bytes of
\* messages, none beyond the end of one, reach the socket and output_buffer_ (tcp_connection.cpp:76-118, 148-173).
THEOREM TypeCorrect == Spec => []TypeOK
<1>1. TInv => TypeOK
  BY DEF TInv
<1> QED
  BY <1>1, InitTypes, TypesKept, PTL DEF Spec

-----------------------------------------------------------------------------
(* The stream, with one thread *)

\* The steps that leave the bytes, the messages and send() alone.
LEMMA QuietStep ==
    ASSUME IInv, UNCHANGED <<wire, output_buffer_, accepted, at, sending, nwrote>>
    PROVE  DirectInOrder' /\ StreamIntact'
BY DEF IInv, DirectInOrder, StreamIntact, Partly

\* Concatenation of byte sequences is associative.
LEMMA Associative == \A s, t, u \in Seq(Byte) : (s \o t) \o u = s \o (t \o u)
BY ConcatAssociative

\* handleWrite() moves bytes from the front of the buffer to the end of the wire.
LEMMA HandleWriteStream ==
    ASSUME TInv, HandleWrite
    PROVE  wire' \o output_buffer_' = wire \o output_buffer_
<1> USE ConnectionAssumption
<1>1. PICK n \in 1..Len(output_buffer_) :
         Take(output_buffer_, n) /\ output_buffer_' = AfterWrite(n)
  BY DEF HandleWrite
<1>2. PICK out, len : out = output_buffer_ /\ len = Len(output_buffer_)
  OBVIOUS
<1>3. out \in Seq(Byte) /\ len \in Nat /\ wire \in Seq(Byte) /\ n \in 1..len /\ Len(out) = len
  BY <1>1, <1>2 DEF TInv, TypeOK
<1>4. PICK front, back : front = SubSeq(out, 1, n) /\ back = SubSeq(out, n + 1, len)
  OBVIOUS
<1>5. \A i \in 1..len : out[i] \in Byte
  BY <1>3, ElementOfSeq
<1>6. front \in Seq(Byte) /\ Len(front) = n /\ \A i \in 1..n : front[i] = out[i]
  <2>1. 1 \in Int /\ n \in Int /\ \A i \in 1..n : out[i] \in Byte
    BY <1>3, <1>5
  <2>2. /\ front \in Seq(Byte) /\ Len(front) = IF 1 <= n THEN n - 1 + 1 ELSE 0
        /\ \A i \in 1..(n - 1 + 1) : front[i] = out[1 + i - 1]
    BY <1>4, <2>1, SubSeqProperties
  <2> QED
    BY <1>3, <2>2
<1>7. /\ back \in Seq(Byte) /\ Len(back) = len - n
      /\ \A i \in 1..(len - n) : back[i] = out[n + i]
  <2>1. n + 1 \in Int /\ len \in Int /\ \A i \in (n + 1)..len : out[i] \in Byte
    BY <1>3, <1>5
  <2>2. /\ back \in Seq(Byte) /\ Len(back) = IF n + 1 <= len THEN len - (n + 1) + 1 ELSE 0
        /\ \A i \in 1..(len - (n + 1) + 1) : back[i] = out[n + 1 + i - 1]
    BY <1>4, <2>1, SubSeqProperties
  <2> QED
    BY <1>3, <2>2
<1>8. front \o back = out
  <2>1. PICK both : both = front \o back
    OBVIOUS
  <2>2. /\ both \in Seq(Byte) /\ Len(both) = Len(front) + Len(back)
        /\ \A i \in 1..(Len(front) + Len(back)) :
              both[i] = IF i <= Len(front) THEN front[i] ELSE back[i - Len(front)]
    BY <1>6, <1>7, <2>1, ConcatProperties
  <2>3. Len(both) = len
    BY <1>3, <1>6, <1>7, <2>2
  <2>4. ASSUME NEW i \in 1..len PROVE both[i] = out[i]
    <3>1. i \in 1..(Len(front) + Len(back)) /\ (i <= n \/ i > n)
      BY <1>3, <1>6, <1>7
    <3>2. CASE i <= n
      BY <1>3, <1>6, <2>2, <3>1, <3>2
    <3>3. CASE i > n
      <4>1. i - n \in 1..(len - n) /\ n + (i - n) = i
        BY <1>3, <3>3
      <4>2. both[i] = back[i - n]
        BY <1>3, <1>6, <2>2, <3>1, <3>3
      <4>3. back[i - n] = out[n + (i - n)]
        BY <1>7, <4>1
      <4> QED
        BY <4>1, <4>2, <4>3
    <3> QED
      BY <3>1, <3>2, <3>3
  <2>5. both = out
    BY <1>3, <2>2, <2>3, <2>4, SeqEqual
  <2> QED
    BY <2>1, <2>5
<1>9. (wire \o front) \o back = wire \o (front \o back)
  BY <1>3, <1>6, <1>7, Associative
<1>10. wire' = wire \o front /\ output_buffer_' = back
  BY <1>1, <1>2, <1>4 DEF Take, AfterWrite
<1> QED
  BY <1>2, <1>8, <1>9, <1>10

\* One thread that runs all of send() and handleWrite() keeps the stream.
LEMMA StreamStep ==
    ASSUME Senders = {LoopThread}, IInv, Next
    PROVE  DirectInOrder' /\ StreamIntact'
<1> USE ConnectionAssumption
<1> DEFINE t == LoopThread
           stream == wire \o output_buffer_
<1>0. /\ TInv /\ TypeOK /\ InSend /\ DirectInOrder
      /\ t \in Senders /\ \A s \in Senders : s = t
      /\ Delivers(stream, accepted, sending[t], Partly(t))
      /\ Size \in Nat /\ Size > 0
  BY DEF IInv, TInv, StreamIntact
<1>1. /\ wire \in Seq(Byte) /\ output_buffer_ \in Seq(Byte) /\ accepted \in Seq(Messages)
      /\ at \in [Senders -> {"idle", "write", "append"}]
      /\ DOMAIN sending = Senders /\ DOMAIN nwrote = Senders
      /\ nwrote[t] \in 0..Size
  BY <1>0 DEF TypeOK
<1>2. stream \in Seq(Byte)
  BY <1>1, ConcatProperties
<1> HIDE DEF t, stream
<1>3. ASSUME Delivers(stream', accepted', sending'[t], Partly(t)') PROVE StreamIntact'
  BY <1>0, <1>3 DEF StreamIntact, stream
<1>4. ASSUME NEW m \in Messages, Send(t, m) PROVE DirectInOrder' /\ StreamIntact'
  <2>1. CASE state_ # "kConnected"
    BY <1>4, <2>1, QuietStep DEF Send
  <2>2. CASE state_ = "kConnected"
    <3>1. /\ at[t] = "idle"
          /\ at'[t] = IF output_buffer_ = << >> THEN "write" ELSE "append"
          /\ nwrote'[t] = 0
          /\ UNCHANGED <<output_buffer_, wire, accepted>>
      BY <1>0, <1>1, <1>4, <2>2 DEF Send
    <3>2. Partly(t) = 0 /\ Partly(t)' = 0 /\ stream' = stream
      BY <3>1 DEF Partly, stream
    <3>3. Delivers(stream', accepted', sending'[t], Partly(t)')
      BY <1>0, <3>1, <3>2, DeliversNext
    <3>4. DirectInOrder'
      BY <3>1 DEF DirectInOrder, t
    <3> QED
      BY <1>3, <3>3, <3>4
  <2> QED
    BY <2>1, <2>2
<1>5. ASSUME SendWrite(t) PROVE DirectInOrder' /\ StreamIntact'
  <2>1. PICK n \in 0..Size :
           /\ Take(Bytes(sending[t]), n)
           /\ nwrote' = [nwrote EXCEPT ![t] = n]
           /\ IF n = Size
              THEN Finish(t) /\ accepted' = Append(accepted, sending[t])
              ELSE at' = [at EXCEPT ![t] = "append"] /\ UNCHANGED <<sending, accepted>>
    BY <1>5 DEF SendWrite
  <2>2. /\ at[t] = "write" /\ sending[t] \in Messages /\ output_buffer_ = << >>
        /\ UNCHANGED output_buffer_
    BY <1>0, <1>5 DEF SendWrite, InSend, DirectInOrder, t
  <2>3. PICK part : part = SubSeq(Bytes(sending[t]), 1, n)
    OBVIOUS
  <2>4. part = SubSeq(Bytes(sending[t]), 0 + 1, n) /\ part \in Seq(Byte)
    <3>1. 0 \in 0..Size /\ 0 <= n /\ 0 + 1 = 1
      BY <1>0
    <3> QED
      BY <2>2, <2>3, <3>1, PartOf
  <2>5. stream' = stream \o part
    <3>1. wire' = wire \o part
      BY <2>1, <2>3 DEF Take
    <3>2. stream = wire
      BY <1>1, <2>2, ConcatEmptySeq DEF stream
    <3>3. wire \o part \in Seq(Byte)
      BY <1>1, <2>4, ConcatProperties
    <3>4. stream' = wire \o part
      BY <2>2, <3>1, <3>3, ConcatEmptySeq DEF stream
    <3> QED
      BY <3>2, <3>4
  <2>6. Delivers(stream', accepted, sending[t], n)
    <3>1. Delivers(stream, accepted, sending[t], 0)
      BY <1>0, <2>2 DEF Partly
    <3>2. 0 \in 0..Size /\ 0 <= n
      BY <1>0
    <3>3. Delivers(stream \o SubSeq(Bytes(sending[t]), 0 + 1, n), accepted, sending[t], n)
      BY <1>1, <1>2, <2>2, <3>1, <3>2, DeliversMore
    <3> QED
      BY <2>4, <2>5, <3>3
  <2>7. CASE n = Size
    <3>1. at'[t] = "idle" /\ accepted' = Append(accepted, sending[t])
      BY <1>0, <1>1, <2>1, <2>7 DEF Finish
    <3>2. Delivers(stream', accepted', sending'[t], 0)
      BY <1>1, <2>2, <2>6, <2>7, <3>1, DeliversAll
    <3>3. Partly(t)' = 0 /\ DirectInOrder'
      BY <3>1 DEF Partly, DirectInOrder, t
    <3> QED
      BY <1>3, <3>2, <3>3
  <2>8. CASE n # Size
    <3>1. at'[t] = "append" /\ nwrote'[t] = n /\ UNCHANGED <<sending, accepted>>
      BY <1>0, <1>1, <2>1, <2>8
    <3>2. Partly(t)' = n /\ DirectInOrder'
      BY <3>1 DEF Partly, DirectInOrder, t
    <3> QED
      BY <1>3, <2>6, <3>1, <3>2
  <2> QED
    BY <2>7, <2>8
<1>6. ASSUME SendFault(t) PROVE DirectInOrder' /\ StreamIntact'
  <2>1. /\ at[t] = "write" /\ at'[t] = "idle"
        /\ UNCHANGED <<output_buffer_, wire, accepted>>
    BY <1>0, <1>1, <1>6 DEF SendFault, Finish
  <2>2. Partly(t) = 0 /\ Partly(t)' = 0 /\ stream' = stream /\ DirectInOrder'
    BY <2>1 DEF Partly, stream, DirectInOrder, t
  <2>3. Delivers(stream', accepted', sending'[t], Partly(t)')
    BY <1>0, <2>1, <2>2, DeliversNext
  <2> QED
    BY <1>3, <2>2, <2>3
<1>7. ASSUME SendAppend(t) PROVE DirectInOrder' /\ StreamIntact'
  <2>1. /\ at[t] = "append" /\ at'[t] = "idle" /\ sending[t] \in Messages
        /\ output_buffer_' = output_buffer_ \o Rest(t)
        /\ accepted' = Append(accepted, sending[t])
        /\ UNCHANGED wire
    BY <1>0, <1>1, <1>7 DEF SendAppend, Finish, InSend
  <2>2. Size \in 0..Size /\ nwrote[t] <= Size
    BY <1>0, <1>1
  <2>3. Rest(t) \in Seq(Byte)
    BY <1>1, <2>1, <2>2, PartOf DEF Rest
  <2>4. stream' = stream \o Rest(t)
    <3>1. (wire \o output_buffer_) \o Rest(t) = wire \o (output_buffer_ \o Rest(t))
      BY <1>1, <2>3, Associative, Zenon
    <3> QED
      BY <2>1, <3>1, Zenon DEF stream
  <2>5. Delivers(stream, accepted, sending[t], nwrote[t])
    BY <1>0, <2>1 DEF Partly
  <2>6. Delivers(stream', accepted, sending[t], Size)
    BY <1>1, <1>2, <2>1, <2>2, <2>4, <2>5, DeliversMore DEF Rest
  <2>7. Delivers(stream', accepted', sending'[t], 0)
    BY <1>1, <2>1, <2>6, DeliversAll
  <2>8. Partly(t)' = 0 /\ DirectInOrder'
    BY <2>1 DEF Partly, DirectInOrder, t
  <2> QED
    BY <1>3, <2>7, <2>8
<1>8. ASSUME HandleWrite PROVE DirectInOrder' /\ StreamIntact'
  <2>1. at[t] = "idle" /\ UNCHANGED <<at, sending, nwrote, accepted>>
    BY <1>8 DEF HandleWrite, Handles, t
  <2>2. stream' = stream
    BY <1>0, <1>8, HandleWriteStream DEF stream
  <2>3. Partly(t)' = Partly(t) /\ DirectInOrder'
    BY <2>1 DEF Partly, DirectInOrder, t
  <2> QED
    BY <1>0, <1>3, <2>1, <2>2, <2>3
<1>9. ASSUME \/ SendPipe(t) \/ HandleWritePipe \/ HandleError \/ HandleEof
             \/ PeerReads \/ PeerResets
      PROVE  DirectInOrder' /\ StreamIntact'
  <2>1. UNCHANGED <<wire, output_buffer_, accepted, at, sending, nwrote>>
    BY <1>9 DEF SendPipe, HandleWritePipe, HandleError, HandleEof, CloseConnection,
                PeerReads, PeerResets
  <2> QED
    BY <2>1, QuietStep
<1> QED
  BY <1>0, <1>4, <1>5, <1>6, <1>7, <1>8, <1>9 DEF Next, SendStep

\* When only the loop thread sends, as in main.cpp's echo, the peer is sent exactly
\* the messages that send() accepted, whole and in order, for messages and kernel
\* buffers of any size, however write() cuts them up and whether or not write
\* events are delivered (tcp_connection.cpp:76-118, 148-173).
THEOREM OneSenderStream == Senders = {LoopThread} => (Spec => []StreamIntact)
<1> SUFFICES ASSUME Senders = {LoopThread} PROVE Spec => []StreamIntact
  OBVIOUS
<1>1. Init => IInv
  <2> SUFFICES ASSUME Init PROVE IInv
    OBVIOUS
  <2>1. /\ wire = << >> /\ output_buffer_ = << >> /\ accepted = << >>
        /\ \A s \in Senders : at[s] = "idle"
    BY DEF Init
  <2>2. wire \o output_buffer_ = << >> /\ Size * Len(accepted) + 0 = 0
    BY <2>1, ConnectionAssumption
  <2>3. \A s \in Senders : Partly(s) = 0
    BY <2>1 DEF Partly
  <2>4. 1..0 = {} /\ Len(<< >>) = 0 /\ 1..Len(accepted) = {}
    BY <2>1
  <2>5. \A x : Delivers(wire \o output_buffer_, accepted, x, 0)
    BY <2>2, <2>4 DEF Delivers
  <2>6. StreamIntact /\ DirectInOrder
    BY <2>1, <2>3, <2>5 DEF StreamIntact, DirectInOrder
  <2> QED
    BY <2>6, InitTypes DEF IInv
<1>2. IInv /\ [Next]_vars => IInv'
  <2>1. ASSUME IInv, Next PROVE IInv'
    BY <2>1, StreamStep, TypesKept DEF IInv
  <2>2. ASSUME IInv, UNCHANGED vars PROVE IInv'
    <3>1. UNCHANGED <<wire, output_buffer_, accepted, at, sending, nwrote>>
      BY <2>2 DEF vars
    <3> QED
      BY <2>2, <3>1, QuietStep, TypesKept DEF IInv
  <2> QED
    BY <2>1, <2>2
<1>3. IInv => StreamIntact
  BY DEF IInv
<1> QED
  BY <1>1, <1>2, <1>3, PTL DEF Spec
=============================================================================
