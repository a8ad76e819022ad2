------------------------------ MODULE MCNucleus ------------------------------
(***************************************************************************)
(* Nucleus on small instances, for TLC.                                    *)
(***************************************************************************)
EXTENDS Nucleus

\* The entries of pcbFree_table are interchangeable.
Symmetry == Permutations(Pcbs)
==============================================================================
