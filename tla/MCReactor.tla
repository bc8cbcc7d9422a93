------------------------------ MODULE MCReactor ------------------------------
(***************************************************************************)
(* Reactor on small instances.  The configurations give the constants.     *)
(***************************************************************************)
EXTENDS Reactor, TLC

\* Detached timer threads are interchangeable.
TimerSymmetry == Permutations(Timers)
=============================================================================
