------------------------------- MODULE MCAsl -------------------------------
(***************************************************************************)
(* Asl on a small instance, for TLC.  The pool is smaller than the set of  *)
(* processes, so that it runs out as in phase1/p1test.c:309.               *)
(***************************************************************************)
EXTENDS Asl
==============================================================================
