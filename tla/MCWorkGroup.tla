---------------------------- MODULE MCWorkGroup ----------------------------
(* WorkGroup for model checking, with three threads: one exits first, one  *)
(* later and one possibly never.                                           *)
EXTENDS WorkGroup
=============================================================================
