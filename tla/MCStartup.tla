----------------------------- MODULE MCStartup -----------------------------
(* Startup for model checking.                                             *)
EXTENDS Startup
=============================================================================
