---------------------------- MODULE ReactorProofs ----------------------------
(***************************************************************************)
(* Theorems about Reactor, for any sets of threads, timers and tasks and   *)
(* whichever thread constructed the reactor.                               *)
(***************************************************************************)
EXTENDS Reactor, FiniteSetTheorems, SequenceTheorems, TLAPS

USE ThreadAssumption, TaskAssumption DEF Callers, callvars, LeftAfterSwap, BatchDone, Queued, AfterFire,
                                          AfterStore

-----------------------------------------------------------------------------
(* Type correctness *)

\* What Append, Head and Tail return; the only facts about sequences the type
\* proof needs.
LEMMA SeqFacts ==
    ASSUME NEW S, NEW s \in Seq(S), NEW e \in S
    PROVE  /\ Append(s, e) \in Seq(S)
           /\ s # << >> => Head(s) \in S /\ Tail(s) \in Seq(S)
           /\ << >> \in Seq(S)
  OBVIOUS

\* A push appends a well-formed entry and changes no other caller's state.
LEMMA PushType ==
    ASSUME TypeOK, NEW c \in Callers, NEW k \in Tasks, Push(c, k)
    PROVE  /\ pending_tasks_' \in Seq(Entry)
           /\ call' \in [Callers -> {"idle", "pushed", "quitting"}]
  <1>1. [task |-> k, by |-> c, phase |-> Phase] \in Entry
    BY DEF Entry, Phase
  <1>2. pending_tasks_' \in Seq(Entry)
    BY <1>1, SeqFacts DEF TypeOK, Push
  <1>3. call' \in [Callers -> {"idle", "pushed", "quitting"}]
    BY DEF TypeOK, Push
  <1>4. QED
    BY <1>2, <1>3

\* Arming a timer keeps the timers' type.
LEMMA ArmType ==
    ASSUME TypeOK, NEW k \in Tasks, Arm(k)
    PROVE  timer' \in [Timers -> Tasks \cup {NoTask}]
  BY DEF TypeOK, Arm

\* Every action keeps the types of the state.
LEMMA TypeStep == TypeOK /\ [Next]_vars => TypeOK'
  <1> SUFFICES ASSUME TypeOK, [Next]_vars PROVE TypeOK'
    OBVIOUS
  <1>1. CASE Loop \/ LoopCheck \/ PollWakeup \/ PollTimeout \/ PollOther
    BY <1>1 DEF TypeOK, Loop, LoopCheck, PollWakeup, PollTimeout, PollOther,
                Poll, LoopState
  <1>2. CASE HandleWakeup \/ EndPendingTasks
    BY <1>2 DEF TypeOK, HandleWakeup, EndPendingTasks, LoopState
  <1>3. CASE SwapPendingTasks
    <2>1. << >> \in Seq(Entry)
      OBVIOUS
    <2>2. QED
      BY <1>3, <2>1 DEF TypeOK, SwapPendingTasks, LoopState
  <1>4. CASE StartTask
    <2>1. Head(tasks) \in Entry /\ Tail(tasks) \in Seq(Entry)
      BY <1>4 DEF TypeOK, StartTask
    <2>2. Append(executed, Head(tasks)) \in Seq(Entry)
      BY <2>1, SeqFacts DEF TypeOK
    <2>3. QED
      BY <1>4, <2>1, <2>2 DEF TypeOK, StartTask, LoopState
  <1>5. CASE EndTask
    <2>1. timer' \in [Timers -> Tasks \cup {NoTask}]
      BY <1>5, ArmType DEF TypeOK, EndTask
    <2>2. QED
      BY <1>5, <2>1 DEF TypeOK, EndTask, LoopState
  <1>6. ASSUME NEW c \in Threads, NEW k \in Tasks, QueueInLoop(c, k)
        PROVE  TypeOK'
    BY <1>6, PushType DEF TypeOK, QueueInLoop, Issue, loopvars
  <1>7. ASSUME NEW c \in Threads, NEW k \in Tasks, RunInLoop(c, k)
        PROVE  TypeOK'
    <2>1. pending_tasks_' \in Seq(Entry)
      BY <1>7, PushType DEF TypeOK, RunInLoop
    <2>2. call' \in [Callers -> {"idle", "pushed", "quitting"}]
      BY <1>7, PushType DEF TypeOK, RunInLoop
    <2>3. inlined' \subseteq Tasks \X Threads
      BY <1>7 DEF TypeOK, RunInLoop
    <2>4. QED
      BY <1>7, <2>1, <2>2, <2>3 DEF TypeOK, RunInLoop, Issue, loopvars
  <1>8. ASSUME NEW c \in Threads, NEW k \in Tasks, RunAfter(c, k)
        PROVE  TypeOK'
    BY <1>8, ArmType DEF TypeOK, RunAfter, Issue, loopvars
  <1>9. ASSUME NEW c \in Callers, QueueWakeup(c)
        PROVE  TypeOK'
    <2>1. signalled' \in BOOLEAN
      BY <1>9 DEF TypeOK, QueueWakeup
    <2>2. call' \in [Callers -> {"idle", "pushed", "quitting"}]
      BY <1>9 DEF TypeOK, QueueWakeup
    <2>3. QED
      BY <1>9, <2>1, <2>2 DEF TypeOK, QueueWakeup, loopvars
  <1>10. ASSUME NEW c \in Callers, QuitWakeup(c)
         PROVE  TypeOK'
    BY <1>10 DEF TypeOK, QuitWakeup, loopvars
  <1>11. ASSUME NEW w \in Timers, TimerFire(w)
         PROVE  TypeOK'
    <2>1. timer[w] \in Tasks
      BY <1>11 DEF TypeOK, TimerFire, Sleeps
    <2>2. QED
      BY <1>11, <2>1, PushType DEF TypeOK, TimerFire, loopvars
  <1>12. ASSUME NEW c \in Threads, Quit(c)
         PROVE  TypeOK'
    BY <1>12 DEF TypeOK, Quit, loopvars
  <1>13. CASE Destroy
    <2>1. << >> \in Seq(Entry)
      OBVIOUS
    <2>2. QED
      BY <1>13, <2>1 DEF TypeOK, Destroy, loopvars
  <1>14. CASE UNCHANGED vars
    BY <1>14 DEF TypeOK, vars
  <1>15. QED
    BY <1>1, <1>2, <1>3, <1>4, <1>5, <1>6, <1>7, <1>8, <1>9, <1>10, <1>11,
       <1>12, <1>13, <1>14
       DEF Next, LoopStep, Submit, CallStep

\* The initial state is well typed.
LEMMA TypeInit == Init => TypeOK
  <1>1. << >> \in Seq(Entry)
    OBVIOUS
  <1>2. QED
    BY <1>1 DEF Init, TypeOK, LoopState

\* Every reachable state of the reactor is well typed.
THEOREM TypeCorrect == Spec => []TypeOK
  BY TypeInit, TypeStep, PTL DEF Spec

-----------------------------------------------------------------------------
(* Wakeups *)

\* The batch and its flag belong to the part of loop() inside doPendingTasks.
BatchInv ==
    /\ calling_pending_tasks_ <=> pc \in {"run", "intask"}
    /\ pc \notin {"run", "intask"} => tasks = << >>

\* The loop thread is inside a call only where it runs user code, and a
\* reactor is destroyed only outside loop().
PlaceInv ==
    /\ call[LoopThread] # "idle" =>
          pc \in {"created", "handle", "intask", "stopped"}
    /\ ~alive => pc \in {"created", "stopped"}

\* From the swap to the end of the next poll(), and before loop(), a queued task
\* whose caller has finished has the eventfd readable.
WakeInv ==
    /\ pc = "created" =>
          \A i \in 1..Len(pending_tasks_) : pending_tasks_[i].phase # "live"
    /\ pc \in {"created", "run", "intask", "check", "wait"} =>
          \A i \in 1..Len(pending_tasks_) : Covered(pending_tasks_[i]) => signalled

\* quit_ is read FALSE before every poll(), so a quit() that has not ended the
\* loop came during it.
QuitInv ==
    /\ quitters # {} => quit_
    /\ NoLostQuit

Inv == TypeOK /\ BatchInv /\ PlaceInv /\ WakeInv /\ QuitInv

\* The entries of the queue and who queued them.
LEMMA EntryFacts ==
    ASSUME TypeOK, NEW i \in 1..Len(pending_tasks_)
    PROVE  /\ pending_tasks_[i] \in Entry
           /\ pending_tasks_[i].by \in Callers
  <1>1. pending_tasks_[i] \in Entry
    BY DEF TypeOK
  <1>2. QED
    BY <1>1 DEF Entry

\* A push adds one entry at the end, not yet covered because its caller is
\* still inside queueInLoop, and uncovers no other.
LEMMA PushWake ==
    ASSUME Inv, NEW c \in Callers, NEW k \in Tasks, Push(c, k),
           UNCHANGED <<signalled, pc>>
    PROVE  WakeInv'
  <1> DEFINE e == [task |-> k, by |-> c, phase |-> Phase]
  <1>1. e \in Entry /\ e.by = c /\ (pc = "created" => e.phase # "live")
    BY DEF Entry, Phase
  <1>2. /\ Len(pending_tasks_') = Len(pending_tasks_) + 1
        /\ Len(pending_tasks_) \in Nat
        /\ pending_tasks_'[Len(pending_tasks_) + 1] = e
        /\ \A i \in 1..Len(pending_tasks_) :
              pending_tasks_'[i] = pending_tasks_[i]
    BY <1>1 DEF Push, Inv, TypeOK
  <1>3. /\ call'[c] = "pushed"
        /\ \A d \in Callers : d # c => call'[d] = call[d]
    BY DEF Push, Inv, TypeOK
  <1>4. ASSUME NEW i \in 1..Len(pending_tasks_')
        PROVE  i \in 1..Len(pending_tasks_) \/ i = Len(pending_tasks_) + 1
    BY <1>2
  <1>5. ASSUME pc = "created", NEW i \in 1..Len(pending_tasks_')
        PROVE  pending_tasks_'[i].phase # "live"
    BY <1>1, <1>2, <1>4, <1>5 DEF Inv, WakeInv
  <1>6. ASSUME pc \in {"created", "run", "intask", "check", "wait"},
               NEW i \in 1..Len(pending_tasks_'),
               Covered(pending_tasks_[i])'
        PROVE  signalled
    <2>1. CASE i = Len(pending_tasks_) + 1
      BY <1>1, <1>2, <1>3, <1>6, <2>1 DEF Covered
    <2>2. CASE i \in 1..Len(pending_tasks_)
      <3>1. pending_tasks_[i].by \in Callers
        BY <2>2, EntryFacts DEF Inv
      <3>2. Covered(pending_tasks_[i])
        BY <1>2, <1>3, <1>6, <2>2, <3>1 DEF Covered
      <3>3. QED
        BY <1>6, <2>2, <3>2 DEF Inv, WakeInv
    <2>3. QED
      BY <1>4, <2>1, <2>2
  <1>7. QED
    BY <1>5, <1>6 DEF WakeInv

\* A caller that leaves queueInLoop has written to the eventfd whenever its
\* entries become covered.
LEMMA QueueWakeupWake ==
    ASSUME Inv, NEW c \in Callers, QueueWakeup(c)
    PROVE  WakeInv'
  <1>1. UNCHANGED <<pending_tasks_, pc>> /\ call[c] = "pushed"
    BY DEF QueueWakeup, loopvars
  <1>2. \A d \in Callers : d # c => call'[d] = call[d]
    BY DEF QueueWakeup, Inv, TypeOK
  <1>3. signalled => signalled'
    BY DEF QueueWakeup
  <1>4. c # OwnerThread => signalled'
    BY DEF QueueWakeup, WakesLoop, isInLoopThread
  <1>5. c = LoopThread /\ calling_pending_tasks_ => signalled'
    BY DEF QueueWakeup, WakesLoop, ReadCalling
  <1>6. ASSUME pc \in {"created", "run", "intask", "check", "wait"},
               NEW i \in 1..Len(pending_tasks_),
               Covered(pending_tasks_[i])'
        PROVE  signalled'
    <2>1. pending_tasks_[i].by \in Callers
      BY EntryFacts DEF Inv
    <2>2. CASE pending_tasks_[i].by # c
      <3>1. Covered(pending_tasks_[i])
        BY <1>1, <1>2, <1>6, <2>1, <2>2 DEF Covered
      <3>2. QED
        BY <1>3, <1>6, <3>1 DEF Inv, WakeInv
    <2>3. CASE pending_tasks_[i].by = c /\ c = OwnerThread
      <3>1. OwnerThread = LoopThread /\ pending_tasks_[i].phase = "live"
        BY <1>1, <1>6, <2>3 DEF Covered
      <3>2. pc # "created"
        BY <3>1 DEF Inv, WakeInv
      <3>3. pc = "intask"
        BY <1>1, <1>6, <2>3, <3>1, <3>2 DEF Inv, PlaceInv
      <3>4. QED
        BY <1>5, <2>3, <3>1, <3>3 DEF Inv, BatchInv
    <2>4. QED
      BY <1>4, <2>2, <2>3
  <1>7. QED
    BY <1>1, <1>6 DEF Inv, WakeInv

\* A step that neither queues, nor moves a caller, nor resets the eventfd keeps
\* the queue covered, wherever it moves the loop.
LEMMA QuietWake ==
    ASSUME Inv, UNCHANGED <<pending_tasks_, call>>, signalled => signalled',
           pc' \in {"created", "run", "intask", "check", "wait"} =>
              pc \in {"created", "run", "intask", "check", "wait"},
           pc' = "created" => pc = "created"
    PROVE  WakeInv'
  <1>1. \A i \in 1..Len(pending_tasks_) :
            Covered(pending_tasks_[i])' <=> Covered(pending_tasks_[i])
    BY DEF Covered
  <1>2. QED
    BY <1>1 DEF Inv, WakeInv

\* Every action keeps the queue covered.
LEMMA WakeStep == Inv /\ [Next]_vars => WakeInv'
  <1> SUFFICES ASSUME Inv, [Next]_vars PROVE WakeInv'
    OBVIOUS
  <1>1. CASE Loop \/ LoopCheck \/ StartTask \/ EndTask \/ EndPendingTasks
    BY <1>1, QuietWake
       DEF Loop, LoopAt, LoopCheck, StartTask, EndTask, EndPendingTasks
  <1>2. CASE PollWakeup \/ PollTimeout \/ PollOther
    BY <1>2, QuietWake DEF PollWakeup, PollTimeout, PollOther, Poll
  <1>3. CASE HandleWakeup
    BY <1>3 DEF WakeInv, HandleWakeup, LoopAt
  <1>4. CASE SwapPendingTasks
    BY <1>4 DEF WakeInv, SwapPendingTasks, LoopAt
  <1>5. ASSUME NEW c \in Threads, NEW k \in Tasks, QueueInLoop(c, k)
        PROVE  WakeInv'
    BY <1>5, PushWake DEF QueueInLoop, loopvars
  <1>6. ASSUME NEW c \in Threads, NEW k \in Tasks, RunInLoop(c, k)
        PROVE  WakeInv'
    <2>1. CASE Push(c, k)
      BY <1>6, <2>1, PushWake DEF RunInLoop, loopvars
    <2>2. CASE UNCHANGED <<pending_tasks_, call>>
      BY <1>6, <2>2, QuietWake DEF RunInLoop, loopvars
    <2>3. QED
      BY <1>6, <2>1, <2>2 DEF RunInLoop
  <1>7. ASSUME NEW c \in Threads, NEW k \in Tasks, RunAfter(c, k)
        PROVE  WakeInv'
    BY <1>7, QuietWake DEF RunAfter, loopvars
  <1>8. ASSUME NEW c \in Callers, QueueWakeup(c)
        PROVE  WakeInv'
    BY <1>8, QueueWakeupWake
  <1>9. ASSUME NEW c \in Callers, QuitWakeup(c)
        PROVE  WakeInv'
    <2>1. signalled' /\ UNCHANGED <<pending_tasks_, pc>>
      BY <1>9 DEF QuitWakeup, loopvars
    <2>2. QED
      BY <2>1 DEF Inv, WakeInv
  <1>10. ASSUME NEW w \in Timers, TimerFire(w)
         PROVE  WakeInv'
    <2>1. timer[w] \in Tasks
      BY <1>10 DEF Inv, TypeOK, TimerFire, Sleeps
    <2>2. QED
      BY <1>10, <2>1, PushWake DEF TimerFire, loopvars
  <1>11. ASSUME NEW c \in Threads, Quit(c)
         PROVE  WakeInv'
    <2>1. /\ UNCHANGED <<pending_tasks_, pc, signalled>>
          /\ call[c] = "idle"
          /\ \A d \in Callers : d # c => call'[d] = call[d]
      BY <1>11 DEF Quit, MayCall, loopvars, Inv, TypeOK
    <2>2. ASSUME NEW i \in 1..Len(pending_tasks_), Covered(pending_tasks_[i])'
          PROVE  Covered(pending_tasks_[i])
      <3>1. pending_tasks_[i].by \in Callers
        BY EntryFacts DEF Inv
      <3>2. QED
        BY <2>1, <2>2, <3>1 DEF Covered
    <2>3. QED
      BY <2>1, <2>2 DEF Inv, WakeInv
  <1>12. CASE Destroy
    BY <1>12 DEF WakeInv, Destroy
  <1>13. CASE UNCHANGED vars
    BY <1>13, QuietWake DEF vars
  <1>14. QED
    BY <1>1, <1>2, <1>3, <1>4, <1>5, <1>6, <1>7, <1>8, <1>9, <1>10, <1>11,
       <1>12, <1>13
       DEF Next, LoopStep, Submit, CallStep

\* Every action keeps the batch, its flag and the place of the loop thread.
LEMMA BatchStep == Inv /\ [Next]_vars => BatchInv' /\ PlaceInv'
  <1> SUFFICES ASSUME Inv, [Next]_vars PROVE BatchInv' /\ PlaceInv'
    OBVIOUS
  <1> USE DEF Inv, BatchInv, PlaceInv
  <1>1. CASE LoopStep \/ Loop \/ PollOther
    BY <1>1 DEF LoopStep, Loop, LoopAt, LoopCheck, PollWakeup, PollTimeout,
                PollOther, Poll, HandleWakeup, SwapPendingTasks, StartTask,
                EndTask, EndPendingTasks
  <1>2. ASSUME UNCHANGED <<loopvars, alive>>,
               call'[LoopThread] # "idle" =>
                   pc \in {"created", "handle", "intask", "stopped"}
        PROVE  BatchInv' /\ PlaceInv'
    BY <1>2 DEF loopvars
  <1>3. ASSUME NEW c \in Callers, NEW v, call' = [call EXCEPT ![c] = v],
               c = LoopThread =>
                   pc \in {"created", "handle", "intask", "stopped"}
        PROVE  call'[LoopThread] # "idle" =>
                   pc \in {"created", "handle", "intask", "stopped"}
    BY <1>3 DEF TypeOK
  <1>4. ASSUME NEW c \in Threads, NEW k \in Tasks,
               \/ QueueInLoop(c, k)
               \/ RunInLoop(c, k)
               \/ RunAfter(c, k)
        PROVE  BatchInv' /\ PlaceInv'
    BY <1>4, <1>2, <1>3
       DEF QueueInLoop, RunInLoop, RunAfter, Push, MayCall
  <1>5. ASSUME NEW c \in Callers, CallStep(c)
        PROVE  BatchInv' /\ PlaceInv'
    BY <1>5, <1>2, <1>3 DEF CallStep, QueueWakeup, QuitWakeup, loopvars
  <1>6. ASSUME NEW w \in Timers, TimerFire(w)
        PROVE  BatchInv' /\ PlaceInv'
    BY <1>6, <1>2, <1>3 DEF TimerFire, Push
  <1>7. ASSUME NEW c \in Threads, Quit(c)
        PROVE  BatchInv' /\ PlaceInv'
    BY <1>7, <1>2, <1>3 DEF Quit, MayCall
  <1>8. CASE Destroy
    BY <1>8 DEF Destroy, loopvars
  <1>9. CASE UNCHANGED vars
    BY <1>9 DEF vars
  <1>10. QED
    BY <1>1, <1>4, <1>5, <1>6, <1>7, <1>8, <1>9 DEF Next, Submit

\* Every action keeps a finished quit() visible to the loop's next poll().
LEMMA QuitStep == Inv /\ [Next]_vars => QuitInv'
  <1> SUFFICES ASSUME Inv, [Next]_vars PROVE QuitInv'
    OBVIOUS
  <1> USE DEF Inv, QuitInv, NoLostQuit
  <1>1. CASE LoopStep \/ Loop \/ PollOther
    BY <1>1 DEF LoopStep, Loop, LoopAt, LoopCheck, PollWakeup, PollTimeout,
                PollOther, Poll, HandleWakeup, SwapPendingTasks, StartTask,
                EndTask, EndPendingTasks
  <1>2. ASSUME NEW c \in Callers, NEW k, Push(c, k),
               UNCHANGED <<quit_, quitters, pc, signalled>>, call[c] = "idle"
        PROVE  QuitInv'
    <2>1. \A d \in quitters : call'[d] # "quitting" => call[d] # "quitting"
      BY <1>2 DEF Push, TypeOK
    <2>2. QED
      BY <1>2, <2>1
  <1>3. ASSUME UNCHANGED <<quit_, quitters, pc, signalled, call>>
        PROVE  QuitInv'
    BY <1>3
  <1>4. ASSUME NEW c \in Threads, NEW k \in Tasks,
               \/ QueueInLoop(c, k)
               \/ RunInLoop(c, k)
               \/ RunAfter(c, k)
        PROVE  QuitInv'
    BY <1>4, <1>2, <1>3
       DEF QueueInLoop, RunInLoop, RunAfter, MayCall, loopvars
  <1>5. ASSUME NEW c \in Callers, QueueWakeup(c)
        PROVE  QuitInv'
    <2>1. \A d \in quitters : call'[d] # "quitting" => call[d] # "quitting"
      BY <1>5 DEF QueueWakeup, TypeOK
    <2>2. UNCHANGED <<quit_, quitters, pc>> /\ (signalled => signalled')
      BY <1>5 DEF QueueWakeup, loopvars
    <2>3. QED
      BY <2>1, <2>2
  <1>6. ASSUME NEW c \in Callers, QuitWakeup(c)
        PROVE  QuitInv'
    BY <1>6 DEF QuitWakeup, loopvars
  <1>7. ASSUME NEW w \in Timers, TimerFire(w)
        PROVE  QuitInv'
    <2>1. \A d \in quitters : call'[d] = call[d]
      BY <1>7 DEF TimerFire, Push, TypeOK
    <2>2. QED
      BY <1>7, <2>1 DEF TimerFire, loopvars
  <1>8. ASSUME NEW c \in Threads, Quit(c)
        PROVE  QuitInv'
    <2>1. /\ quit_'
          /\ quitters' = quitters \cup {c}
          /\ UNCHANGED <<pc, signalled>>
      BY <1>8 DEF Quit, loopvars
    <2>2. \A d \in quitters : d # c => call'[d] = call[d]
      BY <1>8 DEF Quit, TypeOK
    <2>3. c # OwnerThread => call'[c] = "quitting"
      BY <1>8 DEF Quit, isInLoopThread, TypeOK
    <2>4. QED
      BY <2>1, <2>2, <2>3
  <1>9. CASE Destroy
    BY <1>9, <1>3 DEF Destroy, loopvars
  <1>10. CASE UNCHANGED vars
    BY <1>10, <1>3 DEF vars
  <1>11. QED
    BY <1>1, <1>4, <1>5, <1>6, <1>7, <1>8, <1>9, <1>10
       DEF Next, Submit, CallStep

\* The inductive invariant holds in every reachable state.
THEOREM Invariance == Spec => []Inv
  <1>1. Init => Inv
    BY TypeInit
       DEF Init, Inv, BatchInv, PlaceInv, WakeInv, QuitInv, NoLostQuit
  <1>2. Inv /\ [Next]_vars => Inv'
    BY TypeStep, WakeStep, BatchStep, QuitStep DEF Inv
  <1>3. QED
    BY <1>1, <1>2, PTL DEF Spec

\* No task is left to the one second timeout of poll(): while the loop sleeps,
\* a task queued by any thread but a foreign owner has a readable eventfd.
THEOREM WakeupNeverLost == Spec => []NoLostWakeup
  <1>1. Inv => NoLostWakeup
    BY DEF Inv, WakeInv, NoLostWakeup
  <1>2. QED
    BY <1>1, Invariance, PTL

\* A quit() that has returned is seen by the sleeping loop without a timeout,
\* unless the owner called it.
THEOREM QuitNeverLost == Spec => []NoLostQuit
  <1>1. Inv => NoLostQuit
    BY DEF Inv, QuitInv
  <1>2. QED
    BY <1>1, Invariance, PTL

\* The loop never stops in the middle of a batch of doPendingTasks.
THEOREM BatchNeverCut == Spec => []BatchCompletes
  <1>1. Inv => BatchCompletes
    BY DEF Inv, BatchInv, BatchCompletes
  <1>2. QED
    BY <1>1, Invariance, PTL

-----------------------------------------------------------------------------
(* The reactor implements TaskExecutor *)

\* How the queue of the executor, batch then pending tasks, changes when the
\* batch is taken from the front or a task is pushed at the back.
LEMMA ConcatFacts ==
    ASSUME NEW S, NEW s \in Seq(S), NEW t \in Seq(S), NEW e \in S
    PROVE  /\ << >> \o t = t
           /\ t \o << >> = t
           /\ s \o Append(t, e) = Append(s \o t, e)
           /\ s # << >> => /\ s \o t # << >>
                          /\ Head(s \o t) = Head(s)
                          /\ Tail(s \o t) = Tail(s) \o t
  <1>1. << >> \o t = t /\ t \o << >> = t
    BY ConcatEmptySeq
  <1>2. s \o Append(t, e) = Append(s \o t, e)
    OBVIOUS
  <1>3. s # << >> => /\ s \o t # << >>
                     /\ Head(s \o t) = Head(s)
                     /\ Tail(s \o t) = Tail(s) \o t
    OBVIOUS
  <1>4. QED
    BY <1>1, <1>2, <1>3

\* The mode of the executor the reactor shows.
Mode == IF ~alive THEN "gone"
        ELSE IF pc \in {"created", "stopped"} THEN pc
        ELSE "running"

\* A step that changes neither the queue, nor what was run, nor the mode.
LEMMA Stutters ==
    ASSUME UNCHANGED <<tasks \o pending_tasks_, executed, Mode>>
    PROVE  UNCHANGED Executor!xvars
  BY DEF Executor!xvars, Mode

\* A push is a Submit of the executor.
LEMMA PushSubmits ==
    ASSUME Inv, alive, NEW c \in Callers, NEW k \in Tasks, Push(c, k),
           UNCHANGED <<tasks, executed, alive, pc>>
    PROVE  Executor!Next
  <1> DEFINE e == [task |-> k, by |-> c, phase |-> Phase]
  <1>1. e \in Entry
    BY DEF Entry, Phase
  <1>2. (tasks \o pending_tasks_)' = Append(tasks \o pending_tasks_, e)
    BY <1>1, ConcatFacts DEF Push, Inv, TypeOK
  <1>3. Executor!Submit(e)
    BY <1>2 DEF Executor!Submit, LoopState, Inv, TypeOK
  <1>4. QED
    BY <1>1, <1>3 DEF Executor!Next

\* Every step of the reactor is a step of the executor or changes nothing of it.
LEMMA ExecutorStep == Inv /\ [Next]_vars => [Executor!Next]_(Executor!xvars)
  <1> SUFFICES ASSUME Inv, [Next]_vars
               PROVE  Executor!Next \/ UNCHANGED Executor!xvars
    OBVIOUS
  <1>1. CASE Loop
    <2>1. Executor!Begin
      BY <1>1 DEF Loop, LoopAt, Executor!Begin
    <2>2. QED
      BY <2>1 DEF Executor!Next
  <1>2. CASE LoopCheck
    <2>1. alive
      BY <1>2 DEF LoopCheck, Inv, PlaceInv
    <2>2. CASE quit_
      <3>1. Executor!Stop
        BY <1>2, <2>1, <2>2 DEF LoopCheck, Executor!Stop
      <3>2. QED
        BY <3>1 DEF Executor!Next
    <2>3. CASE ~quit_
      BY <1>2, <2>1, <2>3, Stutters DEF LoopCheck, Mode
    <2>4. QED
      BY <2>2, <2>3
  <1>3. CASE PollWakeup \/ PollTimeout \/ PollOther \/ HandleWakeup \/ EndTask
             \/ EndPendingTasks
    BY <1>3, Stutters DEF PollWakeup, PollTimeout, PollOther, Poll, LoopAt,
       HandleWakeup, EndTask, EndPendingTasks, Mode
  <1>4. CASE SwapPendingTasks
    <2>1. (tasks \o pending_tasks_)' = tasks \o pending_tasks_
      <3>1. tasks = << >>
        BY <1>4 DEF SwapPendingTasks, LoopAt, Inv, BatchInv
      <3>2. tasks \o pending_tasks_ = pending_tasks_
        BY <3>1, ConcatEmptySeq DEF Inv, TypeOK
      <3>3. (tasks \o pending_tasks_)' = pending_tasks_
        BY <1>4, ConcatEmptySeq DEF SwapPendingTasks, Inv, TypeOK
      <3>4. QED
        BY <3>2, <3>3
    <2>2. QED
      BY <1>4, <2>1, Stutters DEF SwapPendingTasks, LoopAt, Mode
  <1>5. CASE StartTask
    <2>1. alive /\ tasks # << >>
      BY <1>5 DEF StartTask, Inv, PlaceInv
    <2>2. /\ tasks \o pending_tasks_ # << >>
          /\ Head(tasks \o pending_tasks_) = Head(tasks)
          /\ Tail(tasks \o pending_tasks_) = Tail(tasks) \o pending_tasks_
      <3>1. Head(tasks) \in Entry
        BY <2>1 DEF Inv, TypeOK
      <3>2. QED
        BY <2>1, <3>1, ConcatFacts DEF Inv, TypeOK
    <2>3. Executor!Execute
      BY <1>5, <2>1, <2>2 DEF StartTask, Executor!Execute
    <2>4. QED
      BY <2>3 DEF Executor!Next
  <1>6. ASSUME NEW c \in Threads, NEW k \in Tasks, QueueInLoop(c, k)
        PROVE  Executor!Next
    BY <1>6, PushSubmits DEF QueueInLoop, MayCall, loopvars
  <1>7. ASSUME NEW c \in Threads, NEW k \in Tasks, RunInLoop(c, k)
        PROVE  Executor!Next \/ UNCHANGED Executor!xvars
    <2>1. CASE Push(c, k)
      BY <1>7, <2>1, PushSubmits DEF RunInLoop, MayCall, loopvars
    <2>2. CASE UNCHANGED pending_tasks_
      BY <1>7, <2>2, Stutters DEF RunInLoop, loopvars, Mode
    <2>3. QED
      BY <1>7, <2>1, <2>2 DEF RunInLoop
  <1>8. ASSUME NEW c \in Threads, NEW k \in Tasks, RunAfter(c, k)
        PROVE  UNCHANGED Executor!xvars
    BY <1>8, Stutters DEF RunAfter, loopvars, Mode
  <1>9. ASSUME NEW c \in Callers, CallStep(c)
        PROVE  UNCHANGED Executor!xvars
    BY <1>9, Stutters DEF CallStep, QueueWakeup, QuitWakeup, loopvars, Mode
  <1>10. ASSUME NEW w \in Timers, TimerFire(w)
         PROVE  Executor!Next
    <2>1. timer[w] \in Tasks
      BY <1>10 DEF Inv, TypeOK, TimerFire, Sleeps
    <2>2. QED
      BY <1>10, <2>1, PushSubmits DEF TimerFire, loopvars
  <1>11. ASSUME NEW c \in Threads, Quit(c)
         PROVE  UNCHANGED Executor!xvars
    BY <1>11, Stutters DEF Quit, loopvars, Mode
  <1>12. CASE Destroy
    <2>1. tasks' = << >> /\ pending_tasks_' = << >>
      BY <1>12 DEF Destroy, loopvars, Inv, BatchInv
    <2>2. (tasks \o pending_tasks_)' = << >>
      BY <2>1
    <2>3. Executor!Destroy
      BY <1>12, <2>2 DEF Destroy, loopvars, Executor!Destroy
    <2>4. QED
      BY <2>3 DEF Executor!Next
  <1>13. CASE UNCHANGED vars
    BY <1>13, Stutters DEF vars, Mode
  <1>14. QED
    BY <1>1, <1>2, <1>3, <1>4, <1>5, <1>6, <1>7, <1>8, <1>9, <1>10, <1>11,
       <1>12, <1>13
       DEF Next, LoopStep, Submit

\* The safety part of ImplementsExecutor: whatever the interleaving, tasks are
\* run exactly once each and in the order in which they were queued.
THEOREM ReactorIsFifoExecutor == Spec => Executor!SafeSpec
  <1>1. Init => Executor!Init
    BY DEF Init, Executor!Init
  <1>2. QED
    BY <1>1, ExecutorStep, Invariance, PTL DEF Spec, Executor!SafeSpec

-----------------------------------------------------------------------------
(* Periodic tasks *)

\* A task is in exactly one of four places, and there once.
Once(A, B, C, D) ==
    \/ (\E x \in A : A = {x}) /\ B = {} /\ C = {} /\ D = {}
    \/ (\E x \in B : B = {x}) /\ A = {} /\ C = {} /\ D = {}
    \/ (\E x \in C : C = {x}) /\ A = {} /\ B = {} /\ D = {}
    \/ (\E x \in D : D = {x}) /\ A = {} /\ B = {} /\ C = {}

\* A periodic task handed over is somewhere, once; one that was not is nowhere.
Flight(k) ==
    IF k \in issued THEN Once(Asleep(k), InQueue(k), InBatch(k), InLoop(k))
    ELSE Asleep(k) = {} /\ InQueue(k) = {} /\ InBatch(k) = {} /\ InLoop(k) = {}

SingleInv == alive => \A k \in Periodic : Flight(k)

\* A step that touches neither the timers, nor the queue, nor the batch, nor what
\* is running, leaves every task where it is.
LEMMA FlightFrame ==
    ASSUME NEW k, Flight(k), UNCHANGED <<timer, pending_tasks_, tasks, executed>>,
           pc' = "intask" <=> pc = "intask",
           k \in issued' <=> k \in issued
    PROVE  Flight(k)'
  <1>1. /\ Asleep(k)' = Asleep(k) /\ InQueue(k)' = InQueue(k)
        /\ InBatch(k)' = InBatch(k) /\ InLoop(k)' = InLoop(k)
    BY DEF Asleep, InQueue, InBatch, InLoop
  <1>2. QED
    BY <1>1 DEF Flight

\* A push puts the pushed task at the end of the queue, and moves no other.
LEMMA PushFlight ==
    ASSUME TypeOK, NEW c \in Callers, NEW j \in Tasks, Push(c, j), NEW k
    PROVE  /\ j # k => InQueue(k)' = InQueue(k)
           /\ j = k => InQueue(k)' = InQueue(k) \cup {Len(pending_tasks_) + 1}
  <1> DEFINE e == [task |-> j, by |-> c, phase |-> Phase]
  <1>1. e \in Entry /\ e.task = j
    BY DEF Entry, Phase
  <1>2. /\ Len(pending_tasks_') = Len(pending_tasks_) + 1
        /\ Len(pending_tasks_) \in Nat
        /\ pending_tasks_'[Len(pending_tasks_) + 1] = e
        /\ \A i \in 1..Len(pending_tasks_) : pending_tasks_'[i] = pending_tasks_[i]
    BY <1>1 DEF Push, TypeOK
  <1>3. 1..Len(pending_tasks_') = (1..Len(pending_tasks_)) \cup {Len(pending_tasks_) + 1}
    BY <1>2
  <1>4. QED
    BY <1>1, <1>2, <1>3 DEF InQueue

\* Arming a timer puts the task to sleep in a thread that slept on nothing.
LEMMA ArmFlight ==
    ASSUME TypeOK, NEW j \in Tasks, Arm(j), NEW k \in Tasks
    PROVE  /\ j # k => Asleep(k)' = Asleep(k)
           /\ j = k => \E w \in Timers : Asleep(k)' = Asleep(k) \cup {w}
  <1>1. PICK w \in Timers : timer[w] = NoTask /\ timer' = [timer EXCEPT ![w] = j]
    BY DEF Arm, Sleeps
  <1>2. \A v \in Timers : timer'[v] = IF v = w THEN j ELSE timer[v]
    BY <1>1 DEF TypeOK
  <1>3. QED
    BY <1>1, <1>2 DEF Asleep

\* A periodic task goes from its detached thread to the queue, with the swap to the
\* batch, from its head to the loop, and from there to a detached thread again.
LEMMA FlightStep == Inv /\ SingleInv /\ [Next]_vars => SingleInv'
  <1> SUFFICES ASSUME Inv, SingleInv, [Next]_vars, alive', NEW k \in Periodic
               PROVE  Flight(k)'
    BY DEF SingleInv
  <1>1. TypeOK /\ k \in Tasks /\ k # NoTask
    BY DEF Inv
  <1>2. alive
    BY DEF Next, Loop, LoopStep, LoopCheck, PollWakeup, PollTimeout, PollOther, Poll,
           HandleWakeup, SwapPendingTasks, StartTask, EndTask, EndPendingTasks, Submit,
           QueueInLoop, RunInLoop, RunAfter, CallStep, QueueWakeup, QuitWakeup, TimerFire,
           Quit, Destroy, MayCall, vars
  <1>3. Flight(k)
    BY <1>2 DEF SingleInv
  <1>4. CASE Loop \/ LoopCheck \/ PollWakeup \/ PollTimeout \/ PollOther \/ HandleWakeup
             \/ EndPendingTasks
    BY <1>3, <1>4, FlightFrame DEF Loop, LoopAt, LoopCheck, PollWakeup, PollTimeout, PollOther,
                                   Poll, HandleWakeup, EndPendingTasks
  <1>5. CASE SwapPendingTasks
    <2>1. /\ tasks = << >> /\ tasks' = pending_tasks_ /\ pending_tasks_' = << >>
          /\ UNCHANGED <<timer, executed, issued>>
          /\ pc # "intask" /\ pc' # "intask"
          /\ Len(<< >>) = 0
      BY <1>5 DEF SwapPendingTasks, LoopAt, Inv, BatchInv
    <2>2. /\ InBatch(k)' = InQueue(k) /\ InBatch(k) = {} /\ InQueue(k)' = {}
          /\ InLoop(k)' = {} /\ InLoop(k) = {} /\ Asleep(k)' = Asleep(k)
      BY <2>1 DEF InBatch, InQueue, InLoop, Asleep
    <2>3. QED
      BY <1>3, <2>1, <2>2 DEF Flight, Once
  <1>6. CASE StartTask
    <2>1. /\ tasks # << >> /\ tasks' = Tail(tasks) /\ executed' = Append(executed, Head(tasks))
          /\ UNCHANGED <<timer, pending_tasks_, issued>>
          /\ pc = "run" /\ pc' = "intask"
      BY <1>6 DEF StartTask
    <2>2. /\ Len(tasks) \in Nat \ {0} /\ Len(tasks') = Len(tasks) - 1
          /\ \A i \in 1..Len(tasks') : tasks'[i] = tasks[i + 1]
          /\ executed'[Len(executed')] = tasks[1]
      BY <1>1, <2>1 DEF TypeOK
    <2>3. InLoop(k) = {} /\ Asleep(k)' = Asleep(k) /\ InQueue(k)' = InQueue(k)
      BY <2>1 DEF InLoop, Asleep, InQueue
    <2>4. InLoop(k)' = IF tasks[1].task = k THEN {Len(executed')} ELSE {}
      BY <2>1, <2>2 DEF InLoop
    <2>5. \A i : i \in InBatch(k)' <=> i \in Nat \ {0} /\ i + 1 \in InBatch(k)
      BY <2>2 DEF InBatch
    <2>6. (tasks[1].task = k) <=> 1 \in InBatch(k)
      BY <2>2 DEF InBatch
    <2>7. \A i \in InBatch(k) : i \in Nat /\ i >= 1 /\ (i = 1 \/ i - 1 \in InBatch(k)')
      BY <2>2, <2>5 DEF InBatch
    <2>8. CASE InBatch(k) = {}
      <3>1. InBatch(k)' = {} /\ InLoop(k)' = {}
        BY <2>4, <2>5, <2>6, <2>8
      <3>2. QED
        BY <1>3, <2>1, <2>3, <2>8, <3>1 DEF Flight, Once
    <2>9. ASSUME NEW x \in InBatch(k), InBatch(k) = {x} PROVE Flight(k)'
      <3>1. /\ k \in issued /\ Asleep(k) = {} /\ InQueue(k) = {}
        BY <1>3, <2>9 DEF Flight, Once
      <3>2. CASE x = 1
        <4>1. InBatch(k)' = {} /\ InLoop(k)' = {Len(executed')}
          BY <2>4, <2>5, <2>6, <2>9, <3>2
        <4>2. QED
          BY <2>1, <2>3, <3>1, <4>1 DEF Flight, Once
      <3>3. CASE x # 1
        <4>1. InLoop(k)' = {}
          BY <2>4, <2>6, <2>9, <3>3
        <4>2. InBatch(k)' = {x - 1}
          BY <2>5, <2>7, <2>9, <3>3
        <4>3. QED
          BY <2>1, <2>3, <3>1, <4>1, <4>2 DEF Flight, Once
      <3>4. QED
        BY <3>2, <3>3
    <2>10. QED
      BY <1>3, <2>8, <2>9 DEF Flight, Once
  <1>7. CASE EndTask
    <2>1. /\ pc = "intask" /\ pc' = "run"
          /\ UNCHANGED <<pending_tasks_, tasks, issued>>
          /\ IF CurrentTask \in Periodic THEN Arm(CurrentTask) ELSE UNCHANGED timer
      BY <1>7 DEF EndTask, LoopAt
    <2>2. /\ InQueue(k)' = InQueue(k) /\ InBatch(k)' = InBatch(k) /\ InLoop(k)' = {}
          /\ InLoop(k) = IF CurrentTask = k THEN {Len(executed)} ELSE {}
      BY <2>1 DEF InQueue, InBatch, InLoop, CurrentTask
    <2>3. CASE CurrentTask = k
      <3>1. PICK w \in Timers : Asleep(k)' = Asleep(k) \cup {w}
        BY <1>1, <2>1, <2>3, ArmFlight
      <3>2. QED
        BY <1>3, <2>1, <2>2, <2>3, <3>1 DEF Flight, Once
    <2>4. CASE CurrentTask # k
      <3>1. Asleep(k)' = Asleep(k)
        <4>1. CASE CurrentTask \in Periodic
          BY <1>1, <2>1, <2>4, <4>1, ArmFlight
        <4>2. CASE CurrentTask \notin Periodic
          BY <2>1, <4>2 DEF Asleep
        <4>3. QED
          BY <4>1, <4>2
      <3>2. QED
        BY <1>3, <2>1, <2>2, <2>4, <3>1 DEF Flight, Once
    <2>5. QED
      BY <2>3, <2>4
  <1>8. ASSUME NEW c \in Callers, NEW j \in Tasks \ {k}, Push(c, j),
               UNCHANGED <<timer, tasks, executed, pc>>, issued' \in {issued, issued \cup {j}}
        PROVE  Flight(k)'
    <2>1. /\ InQueue(k)' = InQueue(k) /\ Asleep(k)' = Asleep(k)
          /\ InBatch(k)' = InBatch(k) /\ InLoop(k)' = InLoop(k)
      BY <1>1, <1>8, PushFlight DEF Asleep, InBatch, InLoop
    <2>2. QED
      BY <1>3, <1>8, <2>1 DEF Flight
  <1>9. ASSUME NEW c \in Threads, NEW j \in Tasks, j \notin Periodic,
               QueueInLoop(c, j) \/ RunInLoop(c, j)
        PROVE  Flight(k)'
    <2>1. UNCHANGED <<timer, tasks, executed, pc>> /\ issued' = issued \cup {j} /\ j # k
      BY <1>9 DEF QueueInLoop, RunInLoop, Issue, loopvars
    <2>2. CASE Push(c, j)
      BY <1>8, <2>1, <2>2
    <2>3. CASE UNCHANGED pending_tasks_
      BY <1>3, <2>1, <2>3, FlightFrame
    <2>4. QED
      BY <1>9, <2>2, <2>3 DEF QueueInLoop, RunInLoop
  <1>10. ASSUME NEW c \in Threads, NEW j \in Tasks, RunAfter(c, j)
         PROVE  Flight(k)'
    <2>1. /\ UNCHANGED <<pending_tasks_, tasks, executed, pc>> /\ issued' = issued \cup {j}
          /\ j \notin issued /\ Arm(j)
      BY <1>10 DEF RunAfter, Issue, loopvars
    <2>2. InQueue(k)' = InQueue(k) /\ InBatch(k)' = InBatch(k) /\ InLoop(k)' = InLoop(k)
      BY <2>1 DEF InQueue, InBatch, InLoop
    <2>3. CASE j # k
      <3>1. Asleep(k)' = Asleep(k)
        BY <1>1, <2>1, <2>3, ArmFlight
      <3>2. QED
        BY <1>3, <2>1, <2>2, <2>3, <3>1 DEF Flight
    <2>4. CASE j = k
      <3>1. PICK w \in Timers : Asleep(k)' = Asleep(k) \cup {w}
        BY <1>1, <2>1, <2>4, ArmFlight
      <3>2. Asleep(k)' = {w}
        BY <1>3, <2>1, <2>4, <3>1 DEF Flight
      <3>3. QED
        BY <1>3, <2>1, <2>2, <2>4, <3>2 DEF Flight, Once
    <2>5. QED
      BY <2>3, <2>4
  <1>11. ASSUME NEW w \in Timers, TimerFire(w)
         PROVE  Flight(k)'
    <2>1. /\ timer[w] \in Tasks /\ Push(w, timer[w]) /\ timer' = [timer EXCEPT ![w] = NoTask]
          /\ UNCHANGED <<tasks, executed, pc, issued>> /\ w \in Callers
      BY <1>1, <1>11 DEF TypeOK, TimerFire, Sleeps, loopvars
    <2>2. Asleep(k)' = Asleep(k) \ {w}
      BY <1>1, <2>1 DEF Asleep, TypeOK
    <2>3. InBatch(k)' = InBatch(k) /\ InLoop(k)' = InLoop(k)
      BY <2>1 DEF InBatch, InLoop
    <2>4. CASE timer[w] # k
      <3>1. InQueue(k)' = InQueue(k) /\ Asleep(k)' = Asleep(k)
        BY <1>1, <2>1, <2>2, <2>4, PushFlight DEF Asleep
      <3>2. QED
        BY <1>3, <2>1, <2>3, <3>1 DEF Flight
    <2>5. CASE timer[w] = k
      <3>1. InQueue(k)' = InQueue(k) \cup {Len(pending_tasks_) + 1} /\ w \in Asleep(k)
        BY <1>1, <2>1, <2>5, PushFlight DEF Asleep
      <3>2. /\ k \in issued /\ Asleep(k) = {w} /\ InQueue(k) = {} /\ InBatch(k) = {}
            /\ InLoop(k) = {}
        BY <1>3, <3>1 DEF Flight, Once
      <3>3. QED
        BY <2>1, <2>2, <2>3, <3>1, <3>2 DEF Flight, Once
    <2>6. QED
      BY <2>4, <2>5
  <1>12. ASSUME NEW c \in Callers, CallStep(c) \/ Quit(c)
         PROVE  Flight(k)'
    BY <1>3, <1>12, FlightFrame DEF CallStep, QueueWakeup, QuitWakeup, Quit, loopvars
  <1>13. CASE Destroy
    BY <1>13 DEF Destroy
  <1>14. CASE UNCHANGED vars
    BY <1>3, <1>14, FlightFrame DEF vars
  <1>15. QED
    BY <1>4, <1>5, <1>6, <1>7, <1>9, <1>10, <1>11, <1>12, <1>13, <1>14
       DEF Next, LoopStep, Submit

\* A periodic task handed to runEvery is in flight exactly once as long as the
\* reactor exists, for any number of timers, tasks and rounds.
THEOREM PeriodicIsSingle == Spec => []PeriodicSingleFlight
  <1>1. Init => SingleInv
    BY DEF Init, SingleInv, Flight, Asleep, InQueue, InBatch, InLoop
  <1>2. Inv /\ SingleInv => PeriodicSingleFlight
    <2>1. ASSUME NEW k, Once(Asleep(k), InQueue(k), InBatch(k), InLoop(k))
          PROVE  \E p : Places(k) = {p}
      <3>1. ASSUME NEW s, NEW x PROVE {s} \X {x} = {<<s, x>>} /\ {s} \X {} = {}
        OBVIOUS
      <3>2. CASE (\E x \in Asleep(k) : Asleep(k) = {x}) /\ InQueue(k) = {} /\ InBatch(k) = {}
                 /\ InLoop(k) = {}
        <4>1. PICK x \in Asleep(k) : Asleep(k) = {x}
          BY <3>2
        <4>2. Places(k) = ({"asleep"} \X {x}) \cup ({"queued"} \X {})
                                \cup ({"batch"} \X {}) \cup ({"running"} \X {})
          BY <3>2, <4>1, Zenon DEF Places
        <4>3. Places(k) = {<<"asleep", x>>}
          BY <3>1, <4>2
        <4>4. QED
          BY <4>3
      <3>3. CASE (\E x \in InQueue(k) : InQueue(k) = {x}) /\ Asleep(k) = {} /\ InBatch(k) = {}
                 /\ InLoop(k) = {}
        <4>1. PICK x \in InQueue(k) : InQueue(k) = {x}
          BY <3>3
        <4>2. Places(k) = ({"asleep"} \X {}) \cup ({"queued"} \X {x})
                                \cup ({"batch"} \X {}) \cup ({"running"} \X {})
          BY <3>3, <4>1, Zenon DEF Places
        <4>3. Places(k) = {<<"queued", x>>}
          BY <3>1, <4>2
        <4>4. QED
          BY <4>3
      <3>4. CASE (\E x \in InBatch(k) : InBatch(k) = {x}) /\ Asleep(k) = {} /\ InQueue(k) = {}
                 /\ InLoop(k) = {}
        <4>1. PICK x \in InBatch(k) : InBatch(k) = {x}
          BY <3>4
        <4>2. Places(k) = ({"asleep"} \X {}) \cup ({"queued"} \X {})
                                \cup ({"batch"} \X {x}) \cup ({"running"} \X {})
          BY <3>4, <4>1, Zenon DEF Places
        <4>3. Places(k) = {<<"batch", x>>}
          BY <3>1, <4>2
        <4>4. QED
          BY <4>3
      <3>5. CASE (\E x \in InLoop(k) : InLoop(k) = {x}) /\ Asleep(k) = {} /\ InQueue(k) = {}
                 /\ InBatch(k) = {}
        <4>1. PICK x \in InLoop(k) : InLoop(k) = {x}
          BY <3>5
        <4>2. Places(k) = ({"asleep"} \X {}) \cup ({"queued"} \X {})
                                \cup ({"batch"} \X {}) \cup ({"running"} \X {x})
          BY <3>5, <4>1, Zenon DEF Places
        <4>3. Places(k) = {<<"running", x>>}
          BY <3>1, <4>2
        <4>4. QED
          BY <4>3
      <3>6. QED
        BY <2>1, <3>2, <3>3, <3>4, <3>5 DEF Once
    <2>2. QED
      BY <2>1, FS_Singleton DEF SingleInv, Flight, PeriodicSingleFlight
  <1>3. QED
    BY <1>1, <1>2, FlightStep, Invariance, PTL DEF Spec
=============================================================================
