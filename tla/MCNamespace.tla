---------------------------- MODULE MCNamespace ----------------------------
(***************************************************************************)
(* Namespace for model checking.                                           *)
(***************************************************************************)
EXTENDS Namespace, TLC

Symmetry == Permutations(Threads) \cup Permutations(Symbols)
              \cup Permutations(Vars) \cup Permutations(Targets)
=============================================================================
