------------------------------ MODULE MCDaemon ------------------------------
(* Daemon for model checking.                                              *)
EXTENDS Daemon, TLC

\* Connections are interchangeable (for the runs without liveness).
ConnSymmetry == Permutations(Conn)
=============================================================================
