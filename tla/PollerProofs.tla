---------------------------- MODULE PollerProofs ----------------------------
(***************************************************************************)
(* What both pollers listen to, proved for any set of channels, any events *)
(* and any initial size of the event array.                                *)
(***************************************************************************)
EXTENDS Poller, FiniteSetTheorems, SequenceTheorems, TLAPS

-----------------------------------------------------------------------------
(* The inductive invariant *)

\* With epoll, index_, channels_ and the kernel agree: kNew is exactly "not in
\* the table", only an added channel is watched, an added one is watched unless
\* its EPOLL_CTL_ADD failed, and who is not added asks for nothing.
EpollAgrees ==
    backend = "epoll" =>
        /\ polled_channels_ = << >>
        /\ \A c \in Channels :
              /\ index_[c] = "kNew" <=> c \notin channels_
              /\ c \in watched => index_[c] = "kAdded" /\ mask[c] = events_[c]
              /\ c \notin watched => mask[c] = {}
              /\ index_[c] = "kAdded" => c \in watched \cup failed
              /\ index_[c] # "kAdded" => events_[c] = {}

\* With select, the vector holds every channel of the table once, and the
\* channels outside ask for nothing.
SelectAgrees ==
    backend = "select" =>
        /\ watched = {}
        /\ Range(polled_channels_) = channels_
        /\ IsInjective(polled_channels_)
        /\ \A c \in Channels \ channels_ : events_[c] = {}

IInv == TypeOK /\ EpollAgrees /\ SelectAgrees

-----------------------------------------------------------------------------
(* The vector of the select poller *)

\* push_back of a channel that is not in the vector (poller.cpp:88-96).
LEMMA AppendNew ==
    ASSUME NEW S, NEW s \in Seq(S), NEW e \in S, IsInjective(s), e \notin Range(s)
    PROVE  LET t == Append(s, e)
           IN  t \in Seq(S) /\ IsInjective(t) /\ Range(t) = Range(s) \cup {e}
<1> DEFINE t == Append(s, e)
<1>1. /\ t \in Seq(S)
      /\ Len(t) = Len(s) + 1
      /\ \A i \in 1..Len(s) : t[i] = s[i]
      /\ t[Len(s) + 1] = e
      /\ Len(s) \in Nat
      /\ DOMAIN t = 1..(Len(s) + 1)
      /\ DOMAIN s = 1..Len(s)
  OBVIOUS
<1> HIDE DEF t
<1>2. \A i \in 1..Len(s) : s[i] # e
  BY <1>1 DEF Range
<1>3. IsInjective(t)
  BY <1>1, <1>2 DEF IsInjective
<1>4. Range(t) = Range(s) \cup {e}
  <2>1. ASSUME NEW x \in Range(t) PROVE x \in Range(s) \cup {e}
    BY <1>1, <2>1 DEF Range
  <2>2. ASSUME NEW x \in Range(s) \cup {e} PROVE x \in Range(t)
    <3>1. CASE x = e
      <4>1. Len(s) + 1 \in DOMAIN t
        BY <1>1
      <4> QED
        BY <1>1, <3>1, <4>1 DEF Range
    <3>2. CASE x \in Range(s)
      <4>1. PICK i \in 1..Len(s) : s[i] = x
        BY <1>1, <3>2 DEF Range
      <4>2. i \in DOMAIN t /\ t[i] = x
        BY <1>1, <4>1
      <4> QED
        BY <4>2 DEF Range
    <3> QED
      BY <2>2, <3>1, <3>2
  <2> QED
    BY <2>1, <2>2
<1> QED
  BY <1>1, <1>3, <1>4 DEF t

\* std::find and erase on a vector without repetitions (poller.cpp:103-119).
LEMMA RemoveFound ==
    ASSUME NEW S, NEW s \in Seq(S), IsInjective(s), NEW e \in Range(s)
    PROVE  LET t == RemoveFirst(s, e)
           IN  t \in Seq(S) /\ IsInjective(t) /\ Range(t) = Range(s) \ {e}
<1>1. Len(s) \in Nat /\ DOMAIN s = 1..Len(s)
  OBVIOUS
<1>2. PICK k \in 1..Len(s) : s[k] = e
  BY <1>1 DEF Range
<1>3. {i \in 1..Len(s) : s[i] = e} = {k}
  BY <1>1, <1>2 DEF IsInjective
<1>4. Min({k}) = k
  BY DEF Min
<1> DEFINE t == SubSeq(s, 1, k - 1) \o SubSeq(s, k + 1, Len(s))
<1>5. RemoveFirst(s, e) = t
  BY <1>2, <1>3, <1>4 DEF RemoveFirst, RemoveAt, SelectInSeq
<1>6. /\ t \in Seq(S)
      /\ Len(t) = Len(s) - 1
      /\ DOMAIN t = 1..(Len(s) - 1)
      /\ \A i \in 1..(Len(s) - 1) : t[i] = s[IF i < k THEN i ELSE i + 1]
  <2> DEFINE a == SubSeq(s, 1, k - 1)
             b == SubSeq(s, k + 1, Len(s))
  <2>1. a \in Seq(S) /\ Len(a) = k - 1 /\ \A i \in 1..(k - 1) : a[i] = s[i]
    BY <1>1, SubSeqProperties
  <2>2. /\ b \in Seq(S)
        /\ Len(b) = Len(s) - k
        /\ \A i \in 1..(Len(s) - k) : b[i] = s[k + i]
    <3>1. k + 1 \in Int /\ Len(s) \in Int /\ \A i \in (k + 1)..Len(s) : s[i] \in S
      BY <1>1
    <3>2. /\ b \in Seq(S)
          /\ Len(b) = IF k + 1 <= Len(s) THEN Len(s) - (k + 1) + 1 ELSE 0
          /\ \A i \in 1..(Len(s) - (k + 1) + 1) : b[i] = s[(k + 1) + i - 1]
      BY <3>1, SubSeqProperties
    <3>3. /\ Len(s) - (k + 1) + 1 = Len(s) - k
          /\ \A i \in 1..(Len(s) - k) : (k + 1) + i - 1 = k + i
      BY <1>1
    <3> HIDE DEF b
    <3>4. Len(b) = Len(s) - k
      <4>1. Len(b) = IF k + 1 <= Len(s) THEN Len(s) - (k + 1) + 1 ELSE 0
        BY <3>2
      <4>2. k \in Int /\ Len(s) \in Int /\ k <= Len(s)
        BY <1>1
      <4> QED
        BY <4>1, <4>2
    <3>5. \A i \in 1..(Len(s) - k) : b[i] = s[k + i]
      <4> TAKE i \in 1..(Len(s) - k)
      <4>1. b[i] = s[(k + 1) + i - 1]
        BY <3>2, <3>3
      <4> QED
        BY <3>3, <4>1
    <3> QED
      BY <3>2, <3>4, <3>5
  <2> HIDE DEF a, b
  <2>3. /\ a \o b \in Seq(S)
        /\ Len(a \o b) = Len(a) + Len(b)
        /\ \A i \in 1..(Len(a) + Len(b)) :
              (a \o b)[i] = IF i <= Len(a) THEN a[i] ELSE b[i - Len(a)]
    BY <2>1, <2>2, ConcatProperties
  <2>4. ASSUME NEW i \in 1..(Len(s) - 1)
        PROVE  (a \o b)[i] = s[IF i < k THEN i ELSE i + 1]
    <3>1. CASE i < k
      BY <1>1, <2>1, <2>2, <2>3, <3>1
    <3>2. CASE ~(i < k)
      <4>1. i - Len(a) \in 1..(Len(s) - k) /\ k + (i - Len(a)) = i + 1
        BY <1>1, <2>1, <3>2
      <4>2. i \in 1..(Len(a) + Len(b)) /\ ~(i <= Len(a))
        BY <1>1, <2>1, <2>2, <3>2
      <4>3. (a \o b)[i] = b[i - Len(a)]
        BY <2>3, <4>2
      <4>4. b[i - Len(a)] = s[i + 1]
        BY <2>2, <4>1
      <4> QED
        BY <3>2, <4>3, <4>4
    <3> QED
      BY <3>1, <3>2
  <2>5. t = a \o b
    BY DEF a, b
  <2> HIDE DEF t
  <2>6. t \in Seq(S) /\ Len(t) = Len(s) - 1
    <3>1. Len(a) + Len(b) = Len(s) - 1
      BY <1>1, <2>1, <2>2
    <3> QED
      BY <2>3, <2>5, <3>1
  <2>7. DOMAIN t = 1..(Len(s) - 1)
    BY <2>6
  <2> QED
    BY <2>4, <2>5, <2>6, <2>7
<1> HIDE DEF t
<1>7. IsInjective(t)
  BY <1>1, <1>6 DEF IsInjective
<1>8. Range(t) = Range(s) \ {e}
  <2>1. ASSUME NEW x \in Range(t) PROVE x \in Range(s) \ {e}
    <3>1. PICK i \in 1..(Len(s) - 1) : t[i] = x
      BY <1>6 DEF Range
    <3> DEFINE j == IF i < k THEN i ELSE i + 1
    <3>2. j \in DOMAIN s /\ j # k /\ x = s[j]
      BY <1>1, <1>6, <3>1
    <3>3. s[j] # e
      BY <1>1, <1>2, <3>2 DEF IsInjective
    <3> HIDE DEF j
    <3> QED
      BY <3>2, <3>3 DEF Range
  <2>2. ASSUME NEW x \in Range(s) \ {e} PROVE x \in Range(t)
    <3>1. PICK j \in 1..Len(s) : s[j] = x
      BY <1>1 DEF Range
    <3>2. j # k
      BY <1>2, <3>1
    <3> DEFINE i == IF j < k THEN j ELSE j - 1
    <3>3. i \in DOMAIN t /\ t[i] = x
      BY <1>1, <1>6, <3>1, <3>2
    <3> HIDE DEF i
    <3> QED
      BY <3>3 DEF Range
  <2> QED
    BY <2>1, <2>2
<1> QED
  BY <1>5, <1>6, <1>7, <1>8

-----------------------------------------------------------------------------
(* Init and the actions *)

\* A reactor starts with no channel (poller.h:38-40, channel.h).
LEMMA InitInvariant == Init => IInv
<1> SUFFICES ASSUME Init PROVE IInv
  OBVIOUS
<1> USE PollerAssumption
<1>0. IsFiniteSet(Channels) /\ Cardinality(Channels) \in Nat
  BY FS_CardinalityType
<1>1. TypeOK
  <2>1. size \in InitSize..Cap
    BY <1>0 DEF Init, Cap
  <2> QED
    BY <2>1 DEF Init, TypeOK
<1>2. EpollAgrees
  BY DEF Init, EpollAgrees
<1>3. SelectAgrees
  BY DEF Init, SelectAgrees, Range, IsInjective
<1> QED
  BY <1>1, <1>2, <1>3 DEF IInv

\* A change of a channel's events, whichever call makes it, keeps the poller and
\* the kernel in agreement (poller.cpp:88-101, 164-182).
LEMMA UpdateStep ==
    ASSUME IInv, NEW c \in Channels, NEW e \in SUBSET Events, Update(c, e)
    PROVE  IInv'
<1>0. TypeOK /\ EpollAgrees /\ SelectAgrees
  BY DEF IInv
<1>1. /\ events_' = [events_ EXCEPT ![c] = e]
      /\ UNCHANGED <<backend, size, ready, active>>
  BY DEF Update
<1>2. /\ events_' \in [Channels -> SUBSET Events]
      /\ \A d \in Channels : events_'[d] = IF d = c THEN e ELSE events_[d]
  BY <1>0, <1>1 DEF TypeOK
<1>3. CASE backend = "epoll" /\ EpollUpdate(c, e)
  <2>1. CASE NeedsAdd(c)
    <3>1. /\ channels_' = channels_ \cup {c}
          /\ index_' = [index_ EXCEPT ![c] = "kAdded"]
          /\ CtlAdd(c, e)
          /\ UNCHANGED polled_channels_
          /\ c \notin watched
      BY <1>0, <1>3, <2>1 DEF EpollUpdate, NeedsAdd, EpollAgrees
    <3>2. \A d \in Channels : index_'[d] = IF d = c THEN "kAdded" ELSE index_[d]
      BY <1>0, <3>1 DEF TypeOK
    <3>3. TypeOK'
      BY <1>0, <1>1, <1>2, <3>1 DEF TypeOK, CtlAdd, Cap
    <3>4. EpollAgrees'
      <4>1. CASE watched' = watched \cup {c} /\ mask' = [mask EXCEPT ![c] = e]
                   /\ failed' = failed \ {c}
        <5>1. \A d \in Channels : mask'[d] = IF d = c THEN e ELSE mask[d]
          BY <1>0, <4>1 DEF TypeOK
        <5> QED
          BY <1>0, <1>1, <1>2, <1>3, <3>1, <3>2, <4>1, <5>1 DEF EpollAgrees
      <4>2. CASE failed' = failed \cup {c} /\ UNCHANGED <<watched, mask>>
        BY <1>0, <1>1, <1>2, <1>3, <3>1, <3>2, <4>2 DEF EpollAgrees
      <4> QED
        BY <3>1, <4>1, <4>2 DEF CtlAdd
    <3> QED
      BY <1>1, <1>3, <3>3, <3>4 DEF IInv, SelectAgrees
  <2>2. CASE ~NeedsAdd(c) /\ e = {}
    <3>1. /\ channels_' = channels_
          /\ index_' = [index_ EXCEPT ![c] = "kDeleted"]
          /\ CtlDel(c)
          /\ UNCHANGED polled_channels_
          /\ index_[c] = "kAdded"
      BY <1>0, <1>3, <2>2 DEF EpollUpdate, NeedsAdd, TypeOK
    <3>2. \A d \in Channels : /\ index_'[d] = IF d = c THEN "kDeleted" ELSE index_[d]
                              /\ mask'[d] = IF d = c THEN {} ELSE mask[d]
      BY <1>0, <3>1 DEF TypeOK, CtlDel
    <3>3. TypeOK'
      BY <1>0, <1>1, <1>2, <3>1 DEF TypeOK, CtlDel, Cap
    <3>4. EpollAgrees'
      BY <1>0, <1>1, <1>2, <1>3, <2>2, <3>1, <3>2 DEF EpollAgrees, CtlDel
    <3> QED
      BY <1>1, <1>3, <3>3, <3>4 DEF IInv, SelectAgrees
  <2>3. CASE ~NeedsAdd(c) /\ e # {}
    <3>1. /\ channels_' = channels_
          /\ UNCHANGED <<index_, polled_channels_, watched, failed>>
          /\ mask' = IF c \in watched THEN [mask EXCEPT ![c] = e] ELSE mask
          /\ index_[c] = "kAdded"
      BY <1>0, <1>3, <2>3 DEF EpollUpdate, NeedsAdd, TypeOK, CtlMod
    <3>2. \A d \in Channels : mask'[d] = IF d = c /\ c \in watched THEN e ELSE mask[d]
      BY <1>0, <3>1 DEF TypeOK
    <3>3. TypeOK'
      BY <1>0, <1>1, <1>2, <3>1 DEF TypeOK, Cap
    <3>4. EpollAgrees'
      BY <1>0, <1>1, <1>2, <1>3, <2>3, <3>1, <3>2 DEF EpollAgrees
    <3> QED
      BY <1>1, <1>3, <3>3, <3>4 DEF IInv, SelectAgrees
  <2> QED
    BY <2>1, <2>2, <2>3
<1>4. CASE backend = "select" /\ SelectUpdate(c)
  <2>1. /\ channels_' = channels_ \cup {c}
        /\ UNCHANGED <<index_, watched, mask, failed>>
    BY <1>4 DEF SelectUpdate, kernel
  <2>2. /\ polled_channels_' \in Seq(Channels)
        /\ Range(polled_channels_') = channels_'
        /\ IsInjective(polled_channels_')
    <3>1. /\ polled_channels_ \in Seq(Channels)
          /\ Range(polled_channels_) = channels_
          /\ IsInjective(polled_channels_)
      BY <1>0, <1>4 DEF TypeOK, SelectAgrees
    <3>2. CASE c \in channels_
      <4>1. UNCHANGED <<polled_channels_, channels_>>
        BY <1>4, <3>2 DEF SelectUpdate
      <4> QED
        BY <3>1, <4>1
    <3>3. CASE c \notin channels_
      <4>1. polled_channels_' = Append(polled_channels_, c)
        BY <1>4, <3>3 DEF SelectUpdate
      <4> QED
        BY <2>1, <3>1, <3>3, <4>1, AppendNew
    <3> QED
      BY <3>2, <3>3
  <2>3. TypeOK'
    BY <1>0, <1>1, <1>2, <2>1, <2>2 DEF TypeOK, Cap
  <2>4. SelectAgrees'
    BY <1>0, <1>1, <1>2, <1>4, <2>1, <2>2 DEF SelectAgrees
  <2> QED
    BY <1>1, <1>4, <2>3, <2>4 DEF IInv, EpollAgrees
<1> QED
  BY <1>3, <1>4 DEF Update

\* Taking a channel out keeps the agreement (poller.cpp:103-119, 184-193).
LEMMA RemoveStep ==
    ASSUME IInv, NEW c \in Channels, RemoveChannel(c)
    PROVE  IInv'
<1>0. TypeOK /\ EpollAgrees /\ SelectAgrees
  BY DEF IInv
<1>1. /\ events_[c] = {}
      /\ channels_' = channels_ \ {c}
      /\ UNCHANGED <<backend, events_, size, ready, active>>
  BY DEF RemoveChannel
<1>2. CASE backend = "epoll" /\ EpollRemove(c)
  <2>1. /\ UNCHANGED polled_channels_
        /\ index_' = [index_ EXCEPT ![c] = "kNew"]
        /\ \A d \in Channels : index_'[d] = IF d = c THEN "kNew" ELSE index_[d]
    BY <1>0, <1>2 DEF EpollRemove, TypeOK
  <2>2. /\ watched' = watched \ {c}
        /\ mask' \in [Channels -> SUBSET Events]
        /\ failed' \subseteq Channels
        /\ failed \ {c} \subseteq failed'
        /\ \A d \in Channels : mask'[d] = IF d = c THEN {} ELSE mask[d]
    <3>1. CASE NeedsDel(c)
      BY <1>0, <1>2, <3>1 DEF EpollRemove, CtlDel, TypeOK
    <3>2. CASE ~NeedsDel(c)
      <4>1. UNCHANGED <<watched, mask, failed>> /\ c \notin watched /\ mask[c] = {}
        BY <1>0, <1>2, <3>2 DEF EpollRemove, NeedsDel, kernel, EpollAgrees
      <4> QED
        BY <1>0, <4>1 DEF TypeOK
    <3> QED
      BY <3>1, <3>2
  <2>3. TypeOK'
    BY <1>0, <1>1, <2>1, <2>2 DEF TypeOK, Cap
  <2>4. EpollAgrees'
    BY <1>0, <1>1, <1>2, <2>1, <2>2 DEF EpollAgrees
  <2> QED
    BY <1>1, <1>2, <2>3, <2>4 DEF IInv, SelectAgrees
<1>3. CASE backend = "select" /\ SelectRemove(c)
  <2>1. UNCHANGED <<index_, watched, mask, failed>>
    BY <1>3 DEF SelectRemove, kernel
  <2>2. /\ polled_channels_' \in Seq(Channels)
        /\ Range(polled_channels_') = channels_'
        /\ IsInjective(polled_channels_')
    <3>1. /\ polled_channels_ \in Seq(Channels)
          /\ Range(polled_channels_) = channels_
          /\ IsInjective(polled_channels_)
      BY <1>0, <1>3 DEF TypeOK, SelectAgrees
    <3>2. CASE c \notin channels_
      <4>1. UNCHANGED <<polled_channels_, channels_>>
        BY <1>1, <1>3, <3>2 DEF SelectRemove
      <4> QED
        BY <3>1, <4>1
    <3>3. CASE c \in channels_
      <4>1. polled_channels_' = RemoveFirst(polled_channels_, c)
        BY <1>3, <3>3 DEF SelectRemove
      <4> QED
        BY <1>1, <3>1, <3>3, <4>1, RemoveFound
    <3> QED
      BY <3>2, <3>3
  <2>3. TypeOK'
    BY <1>0, <1>1, <2>1, <2>2 DEF TypeOK, Cap
  <2>4. SelectAgrees'
    BY <1>0, <1>1, <1>3, <2>1, <2>2 DEF SelectAgrees
  <2> QED
    BY <1>1, <1>3, <2>3, <2>4 DEF IInv, EpollAgrees
<1> QED
  BY <1>2, <1>3 DEF RemoveChannel

\* The kernel's choice among the due channels, and the array that doubles when it
\* was full, stay within their types (poller.cpp:138-162).
LEMMA EpollPollStep == ASSUME IInv, EpollPoll PROVE IInv'
<1> USE PollerAssumption
<1>0. TypeOK /\ EpollAgrees /\ SelectAgrees
  BY DEF IInv
<1> DEFINE m == Cardinality(Due)
           n == Min({size, m})
<1>1. Due \subseteq Channels
  BY <1>0 DEF EpollPoll, Due, EpollDue, TypeOK
<1>2. m \in Nat /\ m <= Cardinality(Channels) /\ Cardinality(Channels) \in Nat
  BY <1>1, FS_Subset, FS_CardinalityType
<1>3. size \in Nat /\ InitSize <= size /\ size <= Cap /\ Cap \in Nat
  BY <1>0, <1>2 DEF TypeOK, Cap
<1>4. n = IF size <= m THEN size ELSE m
  <2> HIDE DEF m
  <2>1. CASE size <= m
    <3>1. \A x \in {size, m} : (\A y \in {size, m} : x <= y) <=> x = size
      BY <1>2, <1>3, <2>1
    <3> QED
      BY <2>1, <3>1 DEF Min
  <2>2. CASE ~(size <= m)
    <3>1. \A x \in {size, m} : (\A y \in {size, m} : x <= y) <=> x = m
      BY <1>2, <1>3, <2>2
    <3> QED
      BY <2>2, <3>1 DEF Min
  <2> QED
    BY <2>1, <2>2
<1> HIDE DEF m, n
<1>5. n \in Nat
  BY <1>2, <1>3, <1>4
<1>6. size' \in InitSize..Cap
  <2>1. size' = IF n = size THEN 2 * size ELSE size
    BY DEF EpollPoll, Resize, n, m
  <2>2. CASE n = size
    <3>1. size <= Cardinality(Channels)
      BY <1>2, <1>3, <1>4, <2>2
    <3>2. 2 * size <= Cap
      BY <1>2, <1>3, <3>1 DEF Cap
    <3> QED
      BY <1>3, <2>1, <2>2, <3>2
  <2>3. CASE n # size
    BY <1>3, <2>1, <2>3
  <2> QED
    BY <2>2, <2>3
<1>7. active' \in Seq([channel : Channels, revents : SUBSET Arrivals])
  <2>1. PICK list \in [1..n -> Due] :
           active' = [i \in 1..n |->
                         [channel |-> list[i],
                          revents |-> Revents(list[i], mask[list[i]])]]
    BY DEF EpollPoll, n, m
  <2>2. \A i \in 1..n : [channel |-> list[i], revents |-> Revents(list[i], mask[list[i]])]
                           \in [channel : Channels, revents : SUBSET Arrivals]
    BY <1>0, <1>1 DEF TypeOK, Revents
  <2> QED
    BY <1>5, <2>1, <2>2
<1>8. UNCHANGED <<backend, events_, index_, channels_, polled_channels_, watched, mask,
                  failed, ready>>
  BY DEF EpollPoll, tables, kernel
<1>9. TypeOK'
  BY <1>0, <1>6, <1>7, <1>8 DEF TypeOK, Cap
<1> QED
  BY <1>0, <1>8, <1>9 DEF IInv, EpollAgrees, SelectAgrees

\* The loop over the vector of the select poller stays within the types
\* (poller.cpp:64-80).
LEMMA SelectPollStep == ASSUME IInv, SelectPoll PROVE IInv'
<1>0. TypeOK /\ EpollAgrees /\ SelectAgrees
  BY DEF IInv
<1> DEFINE due == {i \in 1..Len(polled_channels_) : polled_channels_[i] \in Due}
           n == Cardinality(due)
<1>1. n \in Nat
  <2>1. Len(polled_channels_) \in Nat
    BY <1>0 DEF TypeOK
  <2>2. IsFiniteSet(1..Len(polled_channels_))
    BY <2>1, FS_Interval
  <2> QED
    BY <2>2, FS_Subset, FS_CardinalityType
<1>2. PICK at \in [1..n -> due] :
         active' = [i \in 1..n |->
                       LET c == polled_channels_[at[i]]
                       IN  [channel |-> c, revents |-> Revents(c, events_[c])]]
  BY DEF SelectPoll
<1>3. ASSUME NEW i \in 1..n
      PROVE  LET c == polled_channels_[at[i]]
             IN  [channel |-> c, revents |-> Revents(c, events_[c])]
                    \in [channel : Channels, revents : SUBSET Arrivals]
  <2>1. at[i] \in 1..Len(polled_channels_)
    OBVIOUS
  <2>2. polled_channels_[at[i]] \in Channels
    BY <1>0, <2>1 DEF TypeOK
  <2> QED
    BY <1>0, <2>2 DEF TypeOK, Revents
<1>4. active' \in Seq([channel : Channels, revents : SUBSET Arrivals])
  <2> HIDE DEF n, due
  <2> QED
    BY <1>1, <1>2, <1>3
<1>5. UNCHANGED <<backend, events_, index_, channels_, polled_channels_, watched, mask,
                  failed, size, ready>>
  BY DEF SelectPoll, tables, kernel
<1>6. TypeOK'
  BY <1>0, <1>4, <1>5 DEF TypeOK, Cap
<1> QED
  BY <1>0, <1>5, <1>6 DEF IInv, EpollAgrees, SelectAgrees

\* Every step of the loop thread and of the descriptors preserves the invariant.
LEMMA NextInvariant == IInv /\ [Next]_vars => IInv'
<1> SUFFICES ASSUME IInv, [Next]_vars PROVE IInv'
  OBVIOUS
<1>0. TypeOK /\ EpollAgrees /\ SelectAgrees
  BY DEF IInv
<1>1. ASSUME NEW c \in Channels,
             EnableReading(c) \/ DisableReading(c) \/ EnableWriting(c)
                \/ DisableWriting(c) \/ DisableAll(c)
      PROVE  IInv'
  <2>1. \E e \in SUBSET Events : Update(c, e)
    <3>1. events_[c] \in SUBSET Events
      BY <1>0 DEF TypeOK
    <3> QED
      BY <1>1, <3>1 DEF EnableReading, DisableReading, EnableWriting, DisableWriting,
                        DisableAll, Events
  <2> QED
    BY <2>1, UpdateStep
<1>2. ASSUME NEW c \in Channels, RemoveChannel(c) PROVE IInv'
  BY <1>2, RemoveStep
<1>3. CASE EpollPoll
  BY <1>3, EpollPollStep
<1>4. CASE SelectPoll
  BY <1>4, SelectPollStep
<1>5. CASE HandleEvent
  <2>1. /\ Head(active).channel \in Channels
        /\ Tail(active) \in Seq([channel : Channels, revents : SUBSET Arrivals])
    <3> DEFINE R == [channel : Channels, revents : SUBSET Arrivals]
    <3>1. active \in Seq(R) /\ active # << >>
      BY <1>0, <1>5 DEF TypeOK, HandleEvent
    <3>2. Head(active) \in R /\ Tail(active) \in Seq(R)
      <4> HIDE DEF R
      <4> QED
        BY <3>1
    <3> QED
      BY <3>2
  <2>2. UNCHANGED <<backend, events_, index_, channels_, polled_channels_, watched,
                    mask, failed, size>>
    BY <1>5 DEF HandleEvent, tables, kernel
  <2>3. ready' \in [Channels -> SUBSET Arrivals]
    BY <1>0, <1>5, <2>1 DEF TypeOK, HandleEvent
  <2>4. TypeOK'
    BY <1>0, <1>5, <2>1, <2>2, <2>3 DEF TypeOK, HandleEvent, Cap
  <2> QED
    BY <1>0, <2>2, <2>4 DEF IInv, EpollAgrees, SelectAgrees
<1>6. ASSUME NEW c \in Channels, NEW e \in Arrivals, Arrive(c, e) PROVE IInv'
  <2>1. UNCHANGED <<backend, events_, index_, channels_, polled_channels_, watched,
                    mask, failed, size, active>>
    BY <1>6 DEF Arrive, tables, kernel
  <2>2. TypeOK'
    BY <1>0, <1>6, <2>1 DEF TypeOK, Arrive, Cap
  <2> QED
    BY <1>0, <2>1, <2>2 DEF IInv, EpollAgrees, SelectAgrees
<1>7. CASE UNCHANGED vars
  <2>1. UNCHANGED <<backend, events_, index_, channels_, polled_channels_, watched,
                    mask, failed, size, ready, active>>
    BY <1>7 DEF vars, tables, kernel
  <2> QED
    BY <1>0, <2>1 DEF IInv, TypeOK, EpollAgrees, SelectAgrees, Cap
<1> QED
  BY <1>1, <1>2, <1>3, <1>4, <1>5, <1>6, <1>7 DEF Next

-----------------------------------------------------------------------------
(* What holds in every reachable state *)

\* Every reachable state has the two agreements.
THEOREM Invariance == Spec => []IInv
BY InitInvariant, NextInvariant, PTL DEF Spec

\* The state is well typed; in particular the event array never outgrows twice
\* the number of channels, or its initial size (poller.cpp:146-148).
THEOREM TypeCorrect == Spec => []TypeOK
BY Invariance, PTL DEF IInv

\* The next poll() listens to exactly what each channel asks for, a failed
\* EPOLL_CTL_ADD apart, for any number of channels and any sequence of updates
\* and removals with either backend (poller.cpp:88-119, 164-205).
THEOREM PollerListensAsAsked == Spec => []WatchesWhatIsAsked
<1>1. IInv => WatchesWhatIsAsked
  <2> SUFFICES ASSUME IInv, NEW c \in Channels
               PROVE  Interest(c) = events_[c] \/ (c \in failed /\ index_[c] = "kAdded")
    BY DEF WatchesWhatIsAsked
  <2>1. CASE backend = "epoll"
    BY <2>1 DEF IInv, EpollAgrees, Interest
  <2>2. CASE backend = "select"
    BY <2>2 DEF IInv, SelectAgrees, Interest
  <2> QED
    BY <2>1, <2>2 DEF IInv, TypeOK
<1> QED
  BY <1>1, Invariance, PTL

\* A channel that has been taken out is in no list a later poll() reads pointers
\* from, so freeing it is safe for the poller (poller.cpp:103-119, 184-193).
THEOREM RemovedIsForgotten == Spec => []NoStaleWatch
<1>1. IInv => NoStaleWatch
  <2> SUFFICES ASSUME IInv, NEW c \in Channels \ channels_
               PROVE  c \notin watched \cup Range(polled_channels_)
    BY DEF NoStaleWatch
  <2>1. CASE backend = "epoll"
    BY <2>1 DEF IInv, EpollAgrees, Range
  <2>2. CASE backend = "select"
    BY <2>2 DEF IInv, SelectAgrees
  <2> QED
    BY <2>1, <2>2 DEF IInv, TypeOK
<1> QED
  BY <1>1, Invariance, PTL
=============================================================================
