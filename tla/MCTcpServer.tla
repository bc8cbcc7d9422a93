---------------------------- MODULE MCTcpServer ----------------------------
(***************************************************************************)
(* TcpServer on small instances.  The configurations give the constants.   *)
(***************************************************************************)
EXTENDS TcpServer, TLC

\* Connections are interchangeable.
ConnSymmetry == Permutations(Conns)
=============================================================================
