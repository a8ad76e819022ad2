------------------------------ MODULE MCTree ------------------------------
(***************************************************************************)
(* Tree on a small instance, for TLC.                                      *)
(***************************************************************************)
EXTENDS Tree
==============================================================================
