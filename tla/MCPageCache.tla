---------------------------- MODULE MCPageCache -----------------------------
(***************************************************************************)
(* Instances of PageCache for TLC.                                          *)
(***************************************************************************)
EXTENDS PageCache

\* Pages differ by name only.
PageSymmetry == Permutations(Pages)
=============================================================================
