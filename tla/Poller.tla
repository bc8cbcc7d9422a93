------------------------------- MODULE Poller -------------------------------
(***************************************************************************)
(* src/network/poller.cpp and the interest half of channel.h: what a       *)
(* Channel asks for, what the poller has recorded of it (index_,           *)
(* channels_, polled_channels_), and what the kernel really watches.       *)
(* Both backends are here: EpollPoller, where the kernel keeps the         *)
(* interest and epoll_ctl may fail, and SelectPoller, which builds it anew *)
(* for every poll().                                                       *)
(*                                                                         *)
(* Everything runs in the loop thread (reactor.cpp asserts it), so an      *)
(* operation is one step; callbacks of one ready channel may change the    *)
(* others between two handled events.                                      *)
(***************************************************************************)
EXTENDS Naturals, Sequences, FiniteSets, SequencesExt

CONSTANTS
    Channels,
    Arrivals,      \* the conditions that come up at a descriptor
    InitSize       \* kInitEventListSize

Events == {"IN", "OUT"}

ASSUME PollerAssumption ==
    /\ IsFiniteSet(Channels)
    /\ Arrivals \subseteq Events \cup {"ERR"}
    /\ InitSize \in Nat \ {0}

VARIABLES
    backend,          \* the class of the build: SelectPoller with _WIN32
    events_,          \* Channel::events_
    index_,           \* Channel::index_, used by EpollPoller only
    channels_,        \* the channels whose descriptor has an entry
    polled_channels_, \* SelectPoller only
    watched, mask,    \* the kernel's interest list (epoll)
    failed,           \* channels whose last EPOLL_CTL_ADD failed
    size,             \* EpollPoller::events_.size()
    ready,            \* conditions present at each descriptor
    active            \* the rest of Reactor::active_channels_

kernel == <<watched, mask, failed>>
tables == <<events_, index_, channels_, polled_channels_>>
vars == <<backend, tables, kernel, size, ready, active>>

Cap == IF InitSize > 2 * Cardinality(Channels) THEN InitSize
                                               ELSE 2 * Cardinality(Channels)

TypeOK ==
    /\ backend \in {"epoll", "select"}
    /\ events_ \in [Channels -> SUBSET Events]
    /\ index_ \in [Channels -> {"kNew", "kAdded", "kDeleted"}]
    /\ channels_ \subseteq Channels
    /\ polled_channels_ \in Seq(Channels)
    /\ watched \subseteq Channels
    /\ mask \in [Channels -> SUBSET Events]
    /\ failed \subseteq Channels
    /\ size \in InitSize..Cap
    /\ ready \in [Channels -> SUBSET Arrivals]
    /\ active \in Seq([channel : Channels, revents : SUBSET Arrivals])

Init ==
    /\ backend \in {"epoll", "select"}
    /\ events_ = [c \in Channels |-> {}]
    /\ index_ = [c \in Channels |-> "kNew"]
    /\ channels_ = {}
    /\ polled_channels_ = << >>
    /\ watched = {}
    /\ mask = [c \in Channels |-> {}]
    /\ failed = {}
    /\ size = InitSize
    /\ ready = [c \in Channels |-> {}]
    /\ active = << >>

-----------------------------------------------------------------------------
(* epoll_ctl (external) *)

\* A descriptor the kernel does not know is added, or refused (ENOSPC, ENOMEM);
\* one it knows already is refused (EEXIST).
CtlAdd(c, e) ==
    \/ /\ c \notin watched
       /\ watched' = watched \cup {c}
       /\ mask' = [mask EXCEPT ![c] = e]
       /\ failed' = failed \ {c}
    \/ /\ failed' = failed \cup {c}
       /\ UNCHANGED <<watched, mask>>

\* Modifying or deleting an unknown descriptor is refused (ENOENT).
CtlMod(c, e) ==
    /\ mask' = IF c \in watched THEN [mask EXCEPT ![c] = e] ELSE mask
    /\ UNCHANGED <<watched, failed>>

CtlDel(c) ==
    /\ watched' = watched \ {c}
    /\ mask' = [mask EXCEPT ![c] = {}]
    /\ failed' = failed \ {c}

-----------------------------------------------------------------------------
(* Channel::enableReading .. disableAll, through Reactor::updateChannel *)

\* Mutant: a channel that was deleted is modified instead of added again.
Mut_NeedsAdd(c) == index_[c] = "kNew"
NeedsAdd(c) == index_[c] \in {"kNew", "kDeleted"}

\* The outcome of epoll_ctl is only logged: index_ does not depend on it.
EpollUpdate(c, e) ==
    /\ channels_' = IF index_[c] = "kNew" THEN channels_ \cup {c} ELSE channels_
    /\ \/ /\ NeedsAdd(c)
          /\ index_' = [index_ EXCEPT ![c] = "kAdded"]
          /\ CtlAdd(c, e)
       \/ /\ ~NeedsAdd(c)
          /\ e = {}
          /\ CtlDel(c)
          /\ index_' = [index_ EXCEPT ![c] = "kDeleted"]
       \/ /\ ~NeedsAdd(c)
          /\ e # {}
          /\ CtlMod(c, e)
          /\ UNCHANGED index_
    /\ UNCHANGED polled_channels_

SelectUpdate(c) ==
    /\ channels_' = channels_ \cup {c}
    /\ polled_channels_' = IF c \in channels_ THEN polled_channels_
                                              ELSE Append(polled_channels_, c)
    /\ UNCHANGED <<index_, kernel>>

Update(c, e) ==
    /\ events_' = [events_ EXCEPT ![c] = e]
    /\ \/ backend = "epoll" /\ EpollUpdate(c, e)
       \/ backend = "select" /\ SelectUpdate(c)
    /\ UNCHANGED <<backend, size, ready, active>>

EnableReading(c) == Update(c, events_[c] \cup {"IN"})
DisableReading(c) == Update(c, events_[c] \ {"IN"})
EnableWriting(c) == Update(c, events_[c] \cup {"OUT"})
DisableWriting(c) == Update(c, events_[c] \ {"OUT"})
DisableAll(c) == Update(c, {})

\* Mutant: a channel without events is taken to be out of the kernel already.
Mut_NeedsDel(c) == index_[c] = "kAdded" /\ events_[c] # {}
NeedsDel(c) == index_[c] = "kAdded"

EpollRemove(c) ==
    /\ IF NeedsDel(c) THEN CtlDel(c) ELSE UNCHANGED kernel
    /\ index_' = [index_ EXCEPT ![c] = "kNew"]
    /\ UNCHANGED polled_channels_

SelectRemove(c) ==
    /\ polled_channels_' = IF c \in channels_ THEN RemoveFirst(polled_channels_, c)
                                              ELSE polled_channels_
    /\ UNCHANGED <<index_, kernel>>

\* Channel::remove, after disableAll as its assert and its callers have it.  The
\* channel may still be in the active list: removeChannel only logs that.
RemoveChannel(c) ==
    /\ events_[c] = {}
    /\ channels_' = channels_ \ {c}
    /\ \/ backend = "epoll" /\ EpollRemove(c)
       \/ backend = "select" /\ SelectRemove(c)
    /\ UNCHANGED <<backend, events_, size, ready, active>>

-----------------------------------------------------------------------------
(* poll() and the loop over active_channels_ *)

\* Errors are reported whether asked for or not.
Revents(c, interest) == ready[c] \cap (interest \cup {"ERR"})

EpollDue == {c \in watched : Revents(c, mask[c]) # {}}
SelectDue == {c \in Range(polled_channels_) : Revents(c, events_[c]) # {}}
Due == IF backend = "epoll" THEN EpollDue ELSE SelectDue

\* Mutants: the event array is never, or always, made larger.
Mut_NoResize(n) == size
Mut_AlwaysResize(n) == 2 * size
Resize(n) == IF n = size THEN 2 * size ELSE size

\* The kernel fills the array with ready descriptors of its own choice.
EpollPoll ==
    /\ backend = "epoll"
    /\ active = << >>
    /\ Due # {}
    /\ LET n == Min({size, Cardinality(Due)})
       IN  /\ \E list \in [1..n -> Due] :
                 /\ \A i, j \in 1..n : list[i] = list[j] => i = j
                 /\ active' = [i \in 1..n |->
                                  [channel |-> list[i],
                                   revents |-> Revents(list[i], mask[list[i]])]]
           /\ size' = Resize(n)
    /\ UNCHANGED <<backend, tables, kernel, ready>>

\* The loop over polled_channels_ puts the due ones into the list in their order.
SelectPoll ==
    /\ backend = "select"
    /\ active = << >>
    /\ Due # {}
    /\ LET due == {i \in 1..Len(polled_channels_) : polled_channels_[i] \in Due}
           n == Cardinality(due)
       IN  \E at \in [1..n -> due] :
              /\ \A i, j \in 1..n : i < j => at[i] < at[j]
              /\ active' = [i \in 1..n |->
                              LET c == polled_channels_[at[i]]
                              IN  [channel |-> c, revents |-> Revents(c, events_[c])]]
    /\ UNCHANGED <<backend, tables, kernel, size, ready>>

\* The callbacks of the next active channel consume some of what was reported.
HandleEvent ==
    /\ active # << >>
    /\ \E took \in SUBSET Head(active).revents :
          ready' = [ready EXCEPT ![Head(active).channel] = @ \ took]
    /\ active' = Tail(active)
    /\ UNCHANGED <<backend, tables, kernel, size>>

\* Data, room or an error comes up at a descriptor (external).
Arrive(c, e) ==
    /\ e \notin ready[c]
    /\ ready' = [ready EXCEPT ![c] = @ \cup {e}]
    /\ UNCHANGED <<backend, tables, kernel, size, active>>

Next ==
    \/ \E c \in Channels : EnableReading(c)
    \/ \E c \in Channels : DisableReading(c)
    \/ \E c \in Channels : EnableWriting(c)
    \/ \E c \in Channels : DisableWriting(c)
    \/ \E c \in Channels : DisableAll(c)
    \/ \E c \in Channels : RemoveChannel(c)
    \/ EpollPoll
    \/ SelectPoll
    \/ HandleEvent
    \/ \E c \in Channels, e \in Arrivals : Arrive(c, e)

\* The loop thread goes on polling and handling (Reactor::loop).
Fairness == WF_vars(EpollPoll \/ SelectPoll) /\ WF_vars(HandleEvent)

Spec == Init /\ [][Next]_vars /\ Fairness

-----------------------------------------------------------------------------
\* The interest poll() acts on.
Interest(c) == IF backend = "epoll" THEN mask[c]
               ELSE IF c \in Range(polled_channels_) THEN events_[c] ELSE {}

\* Whatever sequence of enabling, disabling, removing and registering again has
\* gone before, poll() listens to exactly the events the channel asks for; a
\* channel is deaf only from an EPOLL_CTL_ADD that failed to the next time it is
\* taken out, because index_ says "added" either way (poller.cpp:164-205).
WatchesWhatIsAsked ==
    \A c \in Channels :
        Interest(c) = events_[c] \/ (c \in failed /\ index_[c] = "kAdded")

\* A channel the poller has forgotten, which its owner may free, is in none of
\* the lists the next poll() takes channel pointers from (poller.cpp:103-119,
\* 158, 184-193).
NoStaleWatch ==
    \A c \in Channels \ channels_ : c \notin watched \cup Range(polled_channels_)

\* A watched channel with something to report is put into the active list unless
\* the cause goes away first, however the kernel chooses among more ready
\* channels than the event array holds (poller.cpp:146-148).
ReadyIsHandled ==
    \A c \in Channels :
        (c \in Due) ~> (c \notin Due \/ \E i \in 1..Len(active) : active[i].channel = c)
=============================================================================
