----------------------------- MODULE MCCpuTime -----------------------------
(***************************************************************************)
(* CpuTime on small instances, for TLC.                                    *)
(***************************************************************************)
EXTENDS CpuTime

\* The entries of pcbFree_table are interchangeable.
Symmetry == Permutations(Pcbs)
==============================================================================
