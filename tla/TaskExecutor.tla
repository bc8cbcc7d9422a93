---------------------------- MODULE TaskExecutor ----------------------------
(***************************************************************************)
(* What the task queue of a Reactor promises to its callers: jobs handed   *)
(* over from any thread are run one at a time, each exactly once, in the   *)
(* order in which they were handed over, and none is left waiting while    *)
(* the executor runs.  How the loop is woken is not visible here.          *)
(***************************************************************************)
EXTENDS Sequences

CONSTANT Job          \* the jobs that can be handed over

VARIABLES
    queue,            \* handed over, not yet run
    done,             \* run, in the order in which they were run
    mode              \* "created", "running", "stopped" or "gone"

xvars == <<queue, done, mode>>

Init ==
    /\ queue = << >>
    /\ done = << >>
    /\ mode = "created"

\* A caller hands a job over; it may do so before the executor runs and also
\* after it stopped (the job is then never run).
Submit(j) ==
    /\ mode # "gone"
    /\ queue' = Append(queue, j)
    /\ UNCHANGED <<done, mode>>

Begin ==
    /\ mode = "created"
    /\ mode' = "running"
    /\ UNCHANGED <<queue, done>>

Execute ==
    /\ mode = "running"
    /\ queue # << >>
    /\ done' = Append(done, Head(queue))
    /\ queue' = Tail(queue)
    /\ UNCHANGED mode

Stop ==
    /\ mode = "running"
    /\ mode' = "stopped"
    /\ UNCHANGED <<queue, done>>

\* The executor is destroyed, with whatever was never run.
Destroy ==
    /\ mode \in {"created", "stopped"}
    /\ mode' = "gone"
    /\ queue' = << >>
    /\ UNCHANGED done

Next ==
    \/ \E j \in Job : Submit(j)
    \/ Begin
    \/ Execute
    \/ Stop
    \/ Destroy

SafeSpec == Init /\ [][Next]_xvars

Spec == SafeSpec /\ WF_xvars(Execute)
=============================================================================
