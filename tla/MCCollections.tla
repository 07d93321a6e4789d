--------------------------- MODULE MCCollections ---------------------------
(* Two slots per node and two entries per map, so that short collections
   have every shape: a tree below the tail, and a full map. *)
EXTENDS Collections

MCTexts == {<<>>, <<97>>, <<98, 47>>}

VarSymmetry == Permutations(Vars)
=============================================================================
