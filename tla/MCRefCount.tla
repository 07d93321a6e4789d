----------------------------- MODULE MCRefCount -----------------------------
(***************************************************************************)
(* RefCount for model checking.  The objects are not symmetric: one of     *)
(* them is promoted shallowly.                                             *)
(***************************************************************************)
EXTENDS RefCount, TLC

Symmetry == Permutations(Threads) \cup Permutations(Slots)
=============================================================================
