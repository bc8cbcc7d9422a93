------------------------------- MODULE Reactor -------------------------------
(***************************************************************************)
(* The event loop of src/network/reactor.cpp: one thread runs loop(), any  *)
(* thread hands it tasks through runInLoop, queueInLoop and the timers,    *)
(* and wakes it through an eventfd.                                        *)
(*                                                                         *)
(* The loop sleeps in poll() for at most one second; a task or a quit()    *)
(* that is not followed by a wakeup waits for that timeout.  Asserts are   *)
(* compiled out, as in the release build (-DNDEBUG).                       *)
(***************************************************************************)
EXTENDS Naturals, Sequences, FiniteSets

CONSTANTS
    Threads,       \* threads that call the reactor's methods
    LoopThread,    \* the thread that runs loop()
    OwnerThread,   \* the thread that constructed the reactor: thread_id_
    Timers,        \* detached threads that runAfter may have alive at a time
    Tasks,         \* task objects, each handed over once by a caller
    Periodic,      \* the tasks handed over with runEvery
    MaxRounds,     \* bound on the runs of a periodic task
    NoTask

Callers == Threads \cup Timers

ASSUME ThreadAssumption ==
    /\ LoopThread \in Threads
    /\ OwnerThread \in Threads
    /\ Threads \cap Timers = {}

ASSUME TaskAssumption ==
    /\ Periodic \subseteq Tasks
    /\ NoTask \notin Tasks
    /\ MaxRounds \in Nat

VARIABLES
    quit_,
    calling_pending_tasks_,
    pending_tasks_,  \* entries [task, by, phase]
    signalled,       \* the counter of wakeup_fd_ is not zero
    alive,           \* ~Reactor has not run
    pc,              \* where the loop thread is in loop()
    woken,           \* wakeup_channel_ is in active_channels_, not yet handled
    tasks,           \* the batch of doPendingTasks that is still to run
    call,            \* what each caller still has to do in its current call
    timer,           \* the task each detached thread is sleeping on
    issued,          \* tasks handed over so far
    quitters,        \* threads that called quit()
    executed,        \* entries run by doPendingTasks, in order
    inlined          \* <<task, thread>>: run by runInLoop in its caller

loopvars == <<pc, woken, tasks, calling_pending_tasks_, executed>>
callvars == <<quit_, alive, call, issued, quitters, inlined>>
vars == <<quit_, calling_pending_tasks_, pending_tasks_, signalled, alive, pc,
          woken, tasks, call, timer, issued, quitters, executed, inlined>>

\* A queued task, its caller, and when it was queued: before loop(), while the
\* loop runs, or after the store of quit().
Entry == [task : Tasks, by : Callers, phase : {"early", "live", "late"}]
LoopState == {"created", "check", "wait", "handle", "run", "intask", "stopped"}

TypeOK ==
    /\ quit_ \in BOOLEAN
    /\ calling_pending_tasks_ \in BOOLEAN
    /\ pending_tasks_ \in Seq(Entry)
    /\ signalled \in BOOLEAN
    /\ alive \in BOOLEAN
    /\ pc \in LoopState
    /\ woken \in BOOLEAN
    /\ tasks \in Seq(Entry)
    /\ call \in [Callers -> {"idle", "pushed", "quitting"}]
    /\ timer \in [Timers -> Tasks \cup {NoTask}]
    /\ issued \subseteq Tasks
    /\ quitters \subseteq Threads
    /\ executed \in Seq(Entry)
    /\ inlined \subseteq Tasks \X Threads

\* Reactor::Reactor: nothing queued, no wakeup written, loop() not called yet.
Init ==
    /\ quit_ = FALSE
    /\ calling_pending_tasks_ = FALSE
    /\ pending_tasks_ = << >>
    /\ signalled = FALSE
    /\ alive = TRUE
    /\ pc = "created"
    /\ woken = FALSE
    /\ tasks = << >>
    /\ call = [c \in Callers |-> "idle"]
    /\ timer = [w \in Timers |-> NoTask]
    /\ issued = {}
    /\ quitters = {}
    /\ executed = << >>
    /\ inlined = {}

-----------------------------------------------------------------------------
(* The loop thread *)

\* thread_id_ is the thread that ran the constructor.
isInLoopThread(c) == c = OwnerThread

\* The loop thread takes its next step only when the callback or task it is in
\* has no call of its own under way.
LoopAt(s) == pc = s /\ call[LoopThread] = "idle"

Loop ==
    /\ alive
    /\ LoopAt("created")
    /\ pc' = "check"
    /\ UNCHANGED <<callvars, calling_pending_tasks_, pending_tasks_, signalled,
                   woken, tasks, timer, executed>>

LoopCheck ==
    /\ pc = "check"
    /\ pc' = IF quit_ THEN "stopped" ELSE "wait"
    /\ UNCHANGED <<callvars, calling_pending_tasks_, pending_tasks_, signalled,
                   woken, tasks, timer, executed>>

Poll(w) ==
    /\ pc = "wait"
    /\ pc' = "handle"
    /\ woken' = w
    /\ UNCHANGED <<callvars, calling_pending_tasks_, pending_tasks_, signalled,
                   tasks, timer, executed>>

\* Mutant: poll() waits without a limit.
Mut_PollTimeout == FALSE

\* poll() returns because of the eventfd (level triggered), after one second,
\* or because another channel is ready; in the last case the event array may be
\* full without wakeup_channel_.
PollWakeup == signalled /\ Poll(TRUE)
PollTimeout == ~signalled /\ Poll(FALSE)
PollOther == Poll(FALSE)

\* One read of the eventfd takes everything written so far.
HandleWakeup ==
    /\ LoopAt("handle")
    /\ woken
    /\ woken' = FALSE
    /\ signalled' = FALSE
    /\ UNCHANGED <<callvars, calling_pending_tasks_, pending_tasks_, pc, tasks,
                   timer, executed>>

\* Mutant: the batch is copied instead of swapped.
Mut_LeftAfterSwap == pending_tasks_
LeftAfterSwap == << >>

\* All active channels are handled: the head of doPendingTasks, up to the swap.
SwapPendingTasks ==
    /\ LoopAt("handle")
    /\ ~woken
    /\ calling_pending_tasks_' = TRUE
    /\ tasks' = pending_tasks_
    /\ pending_tasks_' = LeftAfterSwap
    /\ pc' = "run"
    /\ UNCHANGED <<callvars, signalled, woken, timer, executed>>

StartTask ==
    /\ pc = "run"
    /\ tasks # << >>
    /\ executed' = Append(executed, Head(tasks))
    /\ tasks' = Tail(tasks)
    /\ pc' = "intask"
    /\ UNCHANGED <<callvars, calling_pending_tasks_, pending_tasks_, signalled,
                   woken, timer>>

\* runAfter starts a detached thread that holds `this` and sleeps.
Sleeps(w) == timer[w] # NoTask
Arm(k) ==
    \E w \in Timers :
        /\ ~Sleeps(w)
        /\ call[w] = "idle"
        /\ timer' = [timer EXCEPT ![w] = k]

CurrentTask == executed[Len(executed)].task

\* A task returns; the wrapper of runEvery calls runEvery again before it does.
EndTask ==
    /\ LoopAt("intask")
    /\ IF CurrentTask \in Periodic THEN Arm(CurrentTask) ELSE UNCHANGED timer
    /\ pc' = "run"
    /\ UNCHANGED <<callvars, calling_pending_tasks_, pending_tasks_, signalled,
                   woken, tasks, executed>>

\* Mutant: the batch is abandoned when quit_ is set.
Mut_BatchDone == tasks = << >> \/ quit_
BatchDone == tasks = << >>

EndPendingTasks ==
    /\ pc = "run"
    /\ BatchDone
    /\ calling_pending_tasks_' = FALSE
    /\ pc' = "check"
    /\ UNCHANGED <<callvars, pending_tasks_, signalled, woken, tasks, timer,
                   executed>>

-----------------------------------------------------------------------------
(* The callers.  The loop thread calls from its callbacks and tasks, and       *)
(* before and after loop().                                                    *)

MayCall(c) ==
    /\ alive
    /\ call[c] = "idle"
    /\ c = LoopThread => pc \in {"created", "handle", "intask", "stopped"}

Phase == IF quit_ THEN "late" ELSE IF pc = "created" THEN "early" ELSE "live"

\* Mutant: the function object has been moved from.
Mut_Queued(c, k) == [task |-> NoTask, by |-> c, phase |-> Phase]
Queued(c, k) == [task |-> k, by |-> c, phase |-> Phase]

\* queueInLoop up to the release of pending_tasks_mutex_.
Push(c, k) ==
    /\ pending_tasks_' = Append(pending_tasks_, Queued(c, k))
    /\ call' = [call EXCEPT ![c] = "pushed"]

\* calling_pending_tasks_ is a plain bool: a thread other than the loop's reads
\* it in a data race.
ReadCalling(c) ==
    IF c = LoopThread THEN {calling_pending_tasks_} ELSE BOOLEAN

\* Mutants: a task queued by a task wakes nobody; other threads wake nobody.
Mut_WakesOthersOnly(c, calling) == ~isInLoopThread(c)
Mut_WakesIfCalling(c, calling) == calling

\* The condition under which queueInLoop writes to the eventfd.
WakesLoop(c, calling) == ~isInLoopThread(c) \/ calling

\* The rest of queueInLoop.
QueueWakeup(c) ==
    /\ call[c] = "pushed"
    /\ call' = [call EXCEPT ![c] = "idle"]
    /\ \E calling \in ReadCalling(c) :
          signalled' = (signalled \/ WakesLoop(c, calling))
    /\ UNCHANGED <<quit_, pending_tasks_, alive, timer, issued, quitters,
                   inlined, loopvars>>

Issue(k) ==
    /\ k \notin issued
    /\ issued' = issued \cup {k}

QueueInLoop(c, k) ==
    /\ MayCall(c)
    /\ Issue(k)
    /\ Push(c, k)
    /\ UNCHANGED <<quit_, signalled, alive, timer, quitters, inlined, loopvars>>

RunInLoop(c, k) ==
    /\ MayCall(c)
    /\ Issue(k)
    /\ \/ /\ isInLoopThread(c)
          /\ inlined' = inlined \cup {<<k, c>>}
          /\ UNCHANGED <<pending_tasks_, call>>
       \/ /\ ~isInLoopThread(c)
          /\ Push(c, k)
          /\ UNCHANGED inlined
    /\ UNCHANGED <<quit_, signalled, alive, timer, quitters, loopvars>>

\* runAfter, and runEvery for a periodic task; runAt is one of RunInLoop (the
\* time has come) and RunAfter.
RunAfter(c, k) ==
    /\ MayCall(c)
    /\ Issue(k)
    /\ Arm(k)
    /\ UNCHANGED <<quit_, pending_tasks_, signalled, alive, call, quitters,
                   inlined, loopvars>>

Rounds(k) == Cardinality({i \in 1..Len(executed) : executed[i].task = k})

\* Mutant: the detached thread goes on sleeping on the same task.
Mut_AfterFire(w) == timer[w]
AfterFire(w) == NoTask

\* The sleep is over: the detached thread calls runInLoop.  It is never the
\* thread that constructed the reactor, so it always queues.  What a thread that
\* wakes after ~Reactor does is undefined, and no step of this model: that there
\* is such a thread is what NoTimerOutlivesReactor is about.
TimerFire(w) ==
    /\ alive
    /\ Sleeps(w)
    /\ timer[w] \in Periodic => Rounds(timer[w]) < MaxRounds
    /\ Push(w, timer[w])
    /\ timer' = [timer EXCEPT ![w] = AfterFire(w)]
    /\ UNCHANGED <<quit_, signalled, alive, issued, quitters, inlined, loopvars>>

\* Mutant: quit() only stores the flag.
Mut_AfterStore(c) == "idle"
AfterStore(c) == IF isInLoopThread(c) THEN "idle" ELSE "quitting"

\* quit(): the store, then the wakeup unless the caller owns the reactor.
\* Bound: a thread calls it once, so that no callback quits for ever.
Quit(c) ==
    /\ MayCall(c)
    /\ c \notin quitters
    /\ quit_' = TRUE
    /\ quitters' = quitters \cup {c}
    /\ call' = [call EXCEPT ![c] = AfterStore(c)]
    /\ UNCHANGED <<pending_tasks_, signalled, alive, timer, issued, inlined,
                   loopvars>>

QuitWakeup(c) ==
    /\ call[c] = "quitting"
    /\ call' = [call EXCEPT ![c] = "idle"]
    /\ signalled' = TRUE
    /\ UNCHANGED <<quit_, pending_tasks_, alive, timer, issued, quitters,
                   inlined, loopvars>>

\* ~Reactor, by an owner that has joined every thread it knows of.
Destroy ==
    /\ alive
    /\ pc \in {"created", "stopped"}
    /\ \A c \in Threads : call[c] = "idle"
    /\ alive' = FALSE
    /\ pending_tasks_' = << >>
    /\ UNCHANGED <<quit_, signalled, call, timer, issued, quitters, inlined,
                   loopvars>>

-----------------------------------------------------------------------------
Submit ==
    \E c \in Threads, k \in Tasks :
        \/ k \notin Periodic /\ QueueInLoop(c, k)
        \/ k \notin Periodic /\ RunInLoop(c, k)
        \/ RunAfter(c, k)

LoopStep ==
    \/ LoopCheck
    \/ PollWakeup
    \/ PollTimeout
    \/ HandleWakeup
    \/ SwapPendingTasks
    \/ StartTask
    \/ EndTask
    \/ EndPendingTasks

CallStep(c) == QueueWakeup(c) \/ QuitWakeup(c)

Next ==
    \/ Loop
    \/ LoopStep
    \/ PollOther
    \/ Submit
    \/ \E c \in Callers : CallStep(c)
    \/ \E w \in Timers : TimerFire(w)
    \/ \E c \in Threads : Quit(c)
    \/ Destroy

Spec == Init /\ [][Next]_vars

\* Threads are scheduled and sleeps end; callbacks and tasks return.  Nobody has
\* to call loop(), quit() or the destructor.
Fairness ==
    /\ WF_vars(LoopStep)
    /\ \A c \in Callers : WF_vars(CallStep(c))
    /\ \A w \in Timers : WF_vars(TimerFire(w))

FairSpec == Spec /\ Fairness

-----------------------------------------------------------------------------
(* Properties *)

\* A caller that has left queueInLoop has made sure of a wakeup, unless it is
\* the owner and does not run the loop, or queued before loop() was called or
\* (which no poll() follows) after quit().
Covered(e) ==
    /\ e.by # OwnerThread \/ (OwnerThread = LoopThread /\ e.phase = "live")
    /\ call[e.by] # "pushed"

\* No lost wakeup: while the loop thread sleeps in poll(), every task whose
\* queueInLoop has returned has the eventfd readable, whatever the order of
\* pushes, eventfd reads and batch swaps (reactor.cpp:136-145, 192-224).
NoLostWakeup ==
    pc = "wait" =>
        \A i \in 1..Len(pending_tasks_) : Covered(pending_tasks_[i]) => signalled

\* No lost quit: a thread other than the owner that has returned from quit()
\* never finds the loop asleep without a readable eventfd (reactor.cpp:98-103).
NoLostQuit ==
    pc = "wait" =>
        \A c \in quitters \ {OwnerThread} : call[c] # "quitting" => signalled

\* A batch that doPendingTasks has taken is run to its end even when one of its
\* tasks, or another thread, calls quit() meanwhile (reactor.cpp:219-221).
BatchCompletes == pc = "stopped" => tasks = << >>

\* The places a periodic task can be in: asleep in a detached thread, queued, in
\* the batch, running.
Asleep(k) == {w \in Timers : timer[w] = k}
InQueue(k) == {i \in 1..Len(pending_tasks_) : pending_tasks_[i].task = k}
InBatch(k) == {i \in 1..Len(tasks) : tasks[i].task = k}
InLoop(k) == {i \in {Len(executed)} : pc = "intask" /\ executed[i].task = k}
Places(k) ==
    ({"asleep"} \X Asleep(k)) \cup ({"queued"} \X InQueue(k))
    \cup ({"batch"} \X InBatch(k)) \cup ({"running"} \X InLoop(k))

\* runEvery keeps exactly one instance of a periodic task in flight: asleep,
\* queued, in the batch or running; never two, and never none while the reactor
\* exists (reactor.cpp:158-173).
PeriodicSingleFlight ==
    alive => \A k \in Periodic \cap issued : Cardinality(Places(k)) = 1

\* quit() ends loop() once it has been entered: at the latest the one second
\* timeout of poll() does, when the owner quits without a wakeup
\* (reactor.cpp:80-103).
QuitStops == (quit_ /\ pc # "created") ~> (pc = "stopped")

\* The reactor is a FIFO executor of the tasks queued in it: each is run exactly
\* once, in the order queued, and none waits for ever while the loop runs.
Executor ==
    INSTANCE TaskExecutor WITH
        Job <- Entry,
        queue <- tasks \o pending_tasks_,
        done <- executed,
        mode <- IF ~alive THEN "gone"
                ELSE IF pc \in {"created", "stopped"} THEN pc
                ELSE "running"

\* loop(), runInLoop, queueInLoop and the timers implement TaskExecutor
\* (reactor.cpp:74-224).
ImplementsExecutor == Executor!Spec

\* A task given to runInLoop runs in the loop thread.  tests/test_reactor.cpp:31
\* (isInLoopThread() is false in the constructing thread) and 55-58 (it adds "the
\* task to the queue") take it for granted of a reactor constructed in one thread and looped in another, for which
\* it fails: thread_id_ is the constructing thread (reactor.cpp:34, 105-107, 128-134).
RunsInLoopOnly == \A r \in inlined : r[2] = LoopThread

\* Timer management and graceful exit (reactor.h:21,23): no detached timer
\* thread still holds a pointer to a reactor that has been destroyed.
NoTimerOutlivesReactor ==
    ~alive => \A w \in Timers : ~Sleeps(w) /\ call[w] = "idle"
=============================================================================
